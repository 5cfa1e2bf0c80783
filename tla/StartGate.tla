----------------------------- MODULE StartGate -----------------------------
(***************************************************************************)
(* The available gate on stream/start: what crosses the server's           *)
(* transport, what ControlMessageRecorder keeps of it as availability_trace *)
(* (adapters/_aiosendspin_protocol_evidence.py), and the verdict that      *)
(* stream_start_gate_violation draws from the trace (protocol.py).         *)
(*                                                                         *)
(* The server under test may do anything: it lets a stream/start go        *)
(* whenever it likes, while its other task receives client/state messages. *)
(* A frame reaches the wire at some instant between the two halves of the  *)
(* recorder's wrapper around send_str, and neither the recorder nor the    *)
(* verdict can see that instant.  The ghosts keep it, and say below        *)
(* whether a verdict is fair.                                              *)
(***************************************************************************)
EXTENDS Integers, Sequences

CONSTANT MaxEntries     \* bound for TLC: trace entries before the last `sent'

ASSUME BoundAssumption == MaxEntries \in Nat

\* What a client/state says of `available': a boolean, or anything else.
Available == {"true", "false", "other"}

\* What the server holds: what the latest client/state said, if there was one.
Held == Available \cup {"none"}

VARIABLES
    phase,          \* open: recording; judging: the verdict's loop; judged
    trace,          \* availability_trace
    writer,         \* idle; writing: before, written: after the wire instant; down
    entered,        \* ghost: trace index of the last sending entry
    at_wire,        \* ghost: what the server held when the last frame left
    facts,          \* ghost: per trace entry, what the recorder cannot know
    at,             \* the judge: entries read so far
    latest,         \* its `latest'
    held_at_sending,        \* its `held_at_sending'
    available_in_flight,    \* its `available_in_flight': null, yes or no
    stream_starts,  \* its `stream_starts'
    verdict         \* pending; pass; gap; or whom the reason names, and why

wire == <<phase, trace, writer, entered, at_wire, facts>>
judge == <<at, latest, held_at_sending, available_in_flight, stream_starts, verdict>>
vars == <<wire, judge>>

\* Only a client/state carries `available'; the roles a stream/start names are
\* for the wording of the reason.
Entries == [kind : {"client/state", "sending", "sent"}, available : Held]

Mark(kind) == [kind |-> kind, available |-> "none"]

Blames == {"server_before_any_state", "server_while_unavailable", "client_without_boolean"}

\* What the recorder cannot know: what the server held after each entry and,
\* for a sent entry, the sending entry of the same frame and what the server
\* held when the frame reached the wire.
Facts == [held : Held, from : Nat, wire : Held]

\* What the server holds after the first i entries of the trace.
HeldAfter(i) == IF i = 0 THEN "none" ELSE facts[i].held

Sent == {j \in 1 .. Len(trace) : trace[j].kind = "sent"}

\* What the server held at some moment while the frame of a sent entry was
\* being written.
HeldDuring(j) == {facts[m].held : m \in facts[j].from .. j - 1}

-----------------------------------------------------------------------------
(* The connection and the recorder.                                        *)

Init ==
    /\ phase = "open" /\ writer = "idle"
    /\ trace = <<>> /\ facts = <<>> /\ entered = 0 /\ at_wire = "none"
    /\ at = 0 /\ latest = "none" /\ held_at_sending = "none"
    /\ available_in_flight = "null" /\ stream_starts = 0 /\ verdict = "pending"

Record(entry, fact) ==
    /\ trace' = Append(trace, entry)
    /\ facts' = Append(facts, fact)

\* observe: the transport hands a client/state to the server, and the entry is
\* appended before the SDK acts on it.
ReceiveState(v) ==
    /\ phase = "open" /\ Len(trace) < MaxEntries
    /\ Record([kind |-> "client/state", available |-> v],
              [held |-> v, from |-> 0, wire |-> "none"])
    /\ UNCHANGED <<phase, writer, entered, at_wire, judge>>

\* Faulty variant: only the end of the send is marked.
BeginFrameUnmarked ==
    /\ phase = "open" /\ writer = "idle" /\ Len(trace) < MaxEntries
    /\ writer' = "writing"
    /\ entered' = Len(trace)
    /\ UNCHANGED <<phase, trace, facts, at_wire, judge>>

\* send_str is called with a stream/start; the original send is still to come.
\* All of them come from the SDK's one writer task.
BeginFrame ==
    /\ phase = "open" /\ writer = "idle" /\ Len(trace) < MaxEntries
    /\ writer' = "writing"
    /\ entered' = Len(trace) + 1
    /\ Record(Mark("sending"),
              [held |-> HeldAfter(Len(trace)), from |-> 0, wire |-> "none"])
    /\ UNCHANGED <<phase, at_wire, judge>>

\* The instant the frame is on the wire, inside the awaited send.
ReachWire ==
    /\ phase = "open" /\ writer = "writing"
    /\ writer' = "written"
    /\ at_wire' = HeldAfter(Len(trace))
    /\ UNCHANGED <<phase, trace, entered, facts, judge>>

\* The awaited send returns: the second half of the wrapper.
EndFrame ==
    /\ phase = "open" /\ writer = "written"
    /\ writer' = "idle"
    /\ Record(Mark("sent"),
              [held |-> HeldAfter(Len(trace)), from |-> entered, wire |-> at_wire])
    /\ UNCHANGED <<phase, entered, at_wire, judge>>

\* The send raises or is cancelled, before or after the frame went out; the
\* SDK's writer ends with it.
FrameRaises ==
    /\ phase = "open" /\ writer \in {"writing", "written"}
    /\ writer' = "down"
    /\ UNCHANGED <<phase, trace, entered, at_wire, facts, judge>>

\* availability_trace: the adapter copies the list into its summary.  A socket
\* nothing was recorded of has no list, which the verdict reads as a gap.
Snapshot ==
    /\ phase = "open"
    /\ IF trace = <<>>
         THEN phase' = "judged" /\ verdict' = "gap"
         ELSE phase' = "judging" /\ UNCHANGED verdict
    /\ UNCHANGED <<trace, writer, entered, at_wire, facts, at, latest, held_at_sending,
                   available_in_flight, stream_starts>>

-----------------------------------------------------------------------------
(* The verdict: one action per branch of the loop of                       *)
(* stream_start_gate_violation, which runs on the trace in the summary.    *)

Reading(kind) ==
    /\ phase = "judging" /\ at < Len(trace) /\ trace[at + 1].kind = kind
    /\ at' = at + 1

\* Faulty variant: a state that lands inside the bracket is not considered.
JudgeStateOutside ==
    /\ Reading("client/state")
    /\ latest' = trace[at + 1].available
    /\ UNCHANGED <<wire, held_at_sending, available_in_flight, stream_starts, verdict>>

JudgeState ==
    /\ Reading("client/state")
    /\ latest' = trace[at + 1].available
    /\ available_in_flight' = IF available_in_flight = "no" /\ trace[at + 1].available = "true"
                                THEN "yes" ELSE available_in_flight
    /\ UNCHANGED <<wire, held_at_sending, stream_starts, verdict>>

\* Faulty variant: whatever is not `false' is taken for available.
JudgeSendingTruthy ==
    /\ Reading("sending")
    /\ held_at_sending' = latest
    /\ available_in_flight' = IF latest # "false" THEN "yes" ELSE "no"
    /\ UNCHANGED <<wire, latest, stream_starts, verdict>>

JudgeSending ==
    /\ Reading("sending")
    /\ held_at_sending' = latest
    /\ available_in_flight' = IF latest = "true" THEN "yes" ELSE "no"
    /\ UNCHANGED <<wire, latest, stream_starts, verdict>>

\* _gate_violation_reason: whom the reason names, and for what.
Reason(h) == CASE h = "none" -> "server_before_any_state"
               [] h = "false" -> "server_while_unavailable"
               [] OTHER -> "client_without_boolean"

\* A `sent' that no `sending' opened ends the loop, and so does the first frame
\* that names someone; a frame that passes is counted.
JudgeSent ==
    LET outcome == CASE available_in_flight = "null" -> "gap"
                     [] available_in_flight = "no"   -> Reason(held_at_sending)
                     [] available_in_flight = "yes"  -> "pending"
    IN /\ Reading("sent")
       /\ verdict' = outcome
       /\ phase' = IF outcome = "pending" THEN "judging" ELSE "judged"
       /\ stream_starts' = IF outcome = "gap" THEN stream_starts ELSE stream_starts + 1
       /\ available_in_flight' = IF outcome = "pending" THEN "null" ELSE available_in_flight
       /\ UNCHANGED <<trace, writer, entered, at_wire, facts, latest, held_at_sending>>

\* The loop is over.
Conclude ==
    /\ phase = "judging" /\ at = Len(trace)
    /\ phase' = "judged"
    /\ verdict' = IF stream_starts = 0 THEN "gap" ELSE "pass"
    /\ UNCHANGED <<trace, writer, entered, at_wire, facts, at, latest, held_at_sending,
                   available_in_flight, stream_starts>>

Judged == phase = "judged" /\ UNCHANGED vars

Next ==
    \/ \E v \in Available : ReceiveState(v)
    \/ BeginFrame \/ ReachWire \/ EndFrame \/ FrameRaises
    \/ Snapshot
    \/ JudgeState \/ JudgeSending \/ JudgeSent \/ Conclude
    \/ Judged

Spec == Init /\ [][Next]_vars

-----------------------------------------------------------------------------
(* Properties.                                                             *)

\* The state keeps its shape: the trace holds only entries the verdict can
\* read, and the judge never runs past its end.
TypeOK ==
    /\ phase \in {"open", "judging", "judged"}
    /\ trace \in Seq(Entries)
    /\ \A i \in 1 .. Len(trace) :
         trace[i].kind = "client/state" <=> trace[i].available # "none"
    /\ writer \in {"idle", "writing", "written", "down"}
    /\ entered \in 0 .. Len(trace)
    /\ at_wire \in Held
    /\ facts \in Seq(Facts)
    /\ Len(facts) = Len(trace)
    /\ at \in 0 .. Len(trace)
    /\ latest \in Held /\ held_at_sending \in Held
    /\ available_in_flight \in {"null", "yes", "no"}
    /\ stream_starts \in Nat
    /\ verdict \in {"pending", "pass", "gap"} \cup Blames

\* A server is never blamed for a frame it was right to send: the stream/start
\* a reason speaks of went out while the server did not hold available: true,
\* although the recorder saw neither that instant nor what was received around
\* it, and the reason tells what the server held when it let the frame go.
BlameIsReal ==
    verdict \in Blames =>
        /\ at \in Sent
        /\ facts[at].wire # "true"
        /\ verdict = Reason(HeldAfter(facts[at].from))

\* A pass rests on at least one stream/start, and for each the server held
\* available: true at some moment of its write.  What it held when the frame
\* left is one of those, so where no client/state crossed the write the pass
\* is exact.
PassIsWitnessed ==
    verdict = "pass" =>
        /\ Sent # {}
        /\ \A j \in Sent : "true" \in HeldDuring(j) /\ facts[j].wire \in HeldDuring(j)

\* The harness takes the blame itself only when no stream/start is known to
\* have gone out: never for a state that crossed one or a send that failed.
GapIsIgnorance == verdict = "gap" => Sent = {}

=============================================================================
