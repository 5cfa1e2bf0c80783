--------------------------- MODULE VerdictProofs ---------------------------
(***************************************************************************)
(* Proofs about the two recorders that a verdict is drawn from: the        *)
(* stream/start gate (StartGate), and the client/time to server/time       *)
(* exchange, of any server and of the SDK (MCTimeExchange).                *)
(*                                                                         *)
(* The stream/start gate.                                                  *)
(*                                                                         *)
(* The verdict on stream/start is fair, for a trace of any length:         *)
(* whatever the server sends and whenever the client's states arrive.      *)
(*                                                                         *)
(* The invariant has two halves.  RecorderInv says what a trace looks like *)
(* that ControlMessageRecorder wrote: each sent entry closes a bracket     *)
(* that only client/state entries crossed, and what the server held at the *)
(* wire instant was held at some entry of the bracket.  JudgeInv relates   *)
(* the loop's variables to the entries already read.  The three properties *)
(* follow where the two halves meet, on reading a sent entry.              *)
(*                                                                         *)
(* The time exchange.                                                      *)
(*                                                                         *)
(* TimeInv relates the recorded list to what happened by counting: how     *)
(* many entries of a kind, or of a value, lie up to a place of the list,   *)
(* and how many client/time messages or replies had happened by then.      *)
(* While sends do not overlap each mark lies where its send began, and the *)
(* SDK's marks lie where every client/time before them is answered.        *)
(* Clean says in the same counts what the loop of the verdict holds after  *)
(* n entries; the least n at which it would not is refuted turn by turn.   *)
(***************************************************************************)
EXTENDS StartGate, MCTimeExchange, FiniteSetTheorems, SequenceTheorems,
        WellFoundedInduction, NaturalsInduction, TLAPS

Kind(i) == trace[i].kind

\* facts[i].held is the latest client/state up to entry i.
HeldIsLatest ==
    \A i \in 1 .. Len(trace) :
        facts[i].held = IF Kind(i) = "client/state" THEN trace[i].available
                                                    ELSE HeldAfter(i - 1)

\* k opens a bracket that only client/state entries follow up to entry n.
Opens(k, n) ==
    /\ k \in 1 .. n
    /\ Kind(k) = "sending"
    /\ \A m \in k + 1 .. n : Kind(m) = "client/state"

Bracketed ==
    \A j \in Sent : Opens(facts[j].from, j - 1) /\ facts[j].wire \in HeldDuring(j)

FrameInFlight ==
    /\ writer \in {"writing", "written"} => Opens(entered, Len(trace))
    /\ writer = "written" => \E m \in entered .. Len(trace) : at_wire = facts[m].held

RecorderInv == HeldIsLatest /\ Bracketed /\ FrameInFlight

\* Before the verdict is asked for.
Waiting ==
    /\ at = 0 /\ latest = "none" /\ available_in_flight = "null"
    /\ stream_starts = 0 /\ verdict = "pending"

\* The loop has read `at' entries.
Looping ==
    /\ verdict = "pending"
    /\ latest = HeldAfter(at)
    /\ available_in_flight = "null" =>
         \A k \in 1 .. at : Kind(k) = "sending" => \E j \in k + 1 .. at : Kind(j) = "sent"
    /\ available_in_flight # "null" =>
         \E k \in 1 .. at :
            /\ Opens(k, at)
            /\ held_at_sending = HeldAfter(k)
            /\ available_in_flight = "yes" <=> \E m \in k .. at : facts[m].held = "true"
    /\ stream_starts = 0 <=> \A j \in 1 .. at : Kind(j) # "sent"
    /\ \A j \in 1 .. at : Kind(j) = "sent" => "true" \in HeldDuring(j)

JudgeInv ==
    /\ phase = "open" => Waiting
    /\ phase = "judging" => Looping

Fair == BlameIsReal /\ PassIsWitnessed /\ GapIsIgnorance

IInv == TypeOK /\ RecorderInv /\ JudgeInv /\ Fair

-----------------------------------------------------------------------------
(* The recorder's half.                                                    *)

\* The recorder only ever appends: the entries it holds stay what they are.
LEMMA RecordAppends ==
    ASSUME TypeOK,
           NEW e \in Entries, NEW f \in Facts,
           Record(e, f)
    PROVE  /\ trace' \in Seq(Entries)
           /\ facts' \in Seq(Facts)
           /\ Len(trace') = Len(trace) + 1 /\ Len(facts') = Len(trace')
           /\ \A i \in 1 .. Len(trace) : trace'[i] = trace[i] /\ facts'[i] = facts[i]
           /\ trace'[Len(trace) + 1] = e /\ facts'[Len(trace) + 1] = f
  BY DEF TypeOK, Record

\* What the server holds is one of the values a client/state can leave.
LEMMA HeldAfterType == TypeOK => \A i \in 0 .. Len(trace) : HeldAfter(i) \in Held
  <1> SUFFICES ASSUME TypeOK, NEW i \in 0 .. Len(trace)
               PROVE  HeldAfter(i) \in Held
    OBVIOUS
  <1>1. CASE i = 0
    BY <1>1 DEF HeldAfter, Held
  <1>2. CASE i \in 1 .. Len(facts)
    <2>1. facts[i] \in Facts
      BY <1>2 DEF TypeOK
    <2> QED
      BY <1>2, <2>1 DEF HeldAfter, Facts
  <1> QED
    BY <1>1, <1>2 DEF TypeOK

\* An entry that closes no bracket leaves the closed ones alone.
LEMMA RecordKeeps ==
    ASSUME TypeOK, HeldIsLatest, Bracketed,
           NEW e \in Entries, NEW f \in Facts,
           Record(e, f),
           f.held = IF e.kind = "client/state" THEN e.available ELSE HeldAfter(Len(trace)),
           e.kind = "sent" =>
               /\ Opens(f.from, Len(trace))
               /\ \E m \in f.from .. Len(trace) : f.wire = facts[m].held
    PROVE  HeldIsLatest' /\ Bracketed'
  <1> DEFINE n == Len(trace)
  <1>0. n \in Nat /\ Len(trace') = n + 1
    BY RecordAppends DEF TypeOK
  <1>1. /\ \A i \in 1 .. n : trace'[i] = trace[i] /\ facts'[i] = facts[i]
        /\ trace'[n + 1] = e /\ facts'[n + 1] = f
    BY RecordAppends
  <1>2. \A i \in 0 .. n : HeldAfter(i)' = HeldAfter(i)
    BY <1>0, <1>1 DEF HeldAfter
  <1> HIDE DEF n
  <1>3. HeldIsLatest'
    <2> SUFFICES ASSUME NEW i \in 1 .. n + 1
                 PROVE  facts'[i].held = IF trace'[i].kind = "client/state"
                                           THEN trace'[i].available ELSE HeldAfter(i - 1)'
      BY <1>0 DEF HeldIsLatest, Kind
    <2>1. CASE i = n + 1
      <3>1. HeldAfter(i - 1)' = HeldAfter(n)
        BY <2>1, <1>0, <1>2
      <3> QED
        BY <2>1, <1>1, <3>1 DEF n
    <2>2. CASE i \in 1 .. n
      <3>1. i - 1 \in 0 .. n
        BY <2>2, <1>0
      <3> QED
        BY <2>2, <1>1, <1>2, <3>1 DEF HeldIsLatest, Kind, n
    <2> QED
      BY <2>1, <2>2, <1>0
  <1>4. Bracketed'
    <2> SUFFICES ASSUME NEW j \in 1 .. n + 1, trace'[j].kind = "sent"
                 PROVE  Opens(facts[j].from, j - 1)' /\ facts'[j].wire \in HeldDuring(j)'
      BY <1>0 DEF Bracketed, Sent
    <2>1. CASE j \in 1 .. n
      <3>1. Opens(facts[j].from, j - 1) /\ facts[j].wire \in HeldDuring(j)
        BY <2>1, <1>1 DEF Bracketed, Sent, n
      <3>2. facts'[j] = facts[j] /\ facts[j].from \in 1 .. j - 1
        BY <2>1, <1>1, <3>1 DEF Opens
      <3>3. \A m \in facts[j].from .. j - 1 : trace'[m] = trace[m] /\ facts'[m] = facts[m]
        BY <1>0, <1>1, <2>1, <3>2
      <3>4. Opens(facts[j].from, j - 1)'
        BY <3>1, <3>2, <3>3 DEF Opens, Kind
      <3>5. facts'[j].wire \in HeldDuring(j)'
        BY <3>1, <3>2, <3>3 DEF HeldDuring
      <3> QED
        BY <3>4, <3>5
    <2>2. CASE j = n + 1
      <3>1. /\ facts'[j] = f /\ j - 1 = n
            /\ Opens(f.from, n) /\ \E m \in f.from .. n : f.wire = facts[m].held
        BY <2>2, <1>0, <1>1 DEF n
      <3>2. f.from \in 1 .. n
        BY <3>1 DEF Opens
      <3>3. \A m \in f.from .. n : trace'[m] = trace[m] /\ facts'[m] = facts[m]
        BY <1>0, <1>1, <3>2
      <3>4. Opens(facts[j].from, j - 1)'
        BY <3>1, <3>2, <3>3 DEF Opens, Kind
      <3>5. facts'[j].wire \in HeldDuring(j)'
        BY <3>1, <3>2, <3>3 DEF HeldDuring
      <3> QED
        BY <3>4, <3>5
    <2> QED
      BY <2>1, <2>2, <1>0
  <1> QED
    BY <1>3, <1>4

-----------------------------------------------------------------------------
(* The steps of the connection.                                            *)

\* While the connection is open the judge has not begun, so it stays as it is.
LEMMA OpenStep ==
    ASSUME IInv, phase = "open", phase' = "open", UNCHANGED judge
    PROVE  JudgeInv' /\ Fair'
  BY DEF IInv, JudgeInv, Waiting, judge, Fair, BlameIsReal, PassIsWitnessed, GapIsIgnorance, Blames

LEMMA ReceiveStep ==
    ASSUME IInv, NEW v \in Available, ReceiveState(v)
    PROVE  IInv'
  <1> DEFINE e == [kind |-> "client/state", available |-> v]
             f == [held |-> v, from |-> 0, wire |-> "none"]
  <1> USE DEF IInv, RecorderInv
  <1>1. /\ e \in Entries /\ f \in Facts /\ Record(e, f)
        /\ e.kind = "client/state" /\ e.available = v /\ v # "none" /\ f.held = v
        /\ phase = "open" /\ UNCHANGED <<phase, writer, entered, at_wire, judge>>
    BY DEF ReceiveState, Entries, Facts, Held, Available
  <1> HIDE DEF e, f
  <1>2. /\ trace' \in Seq(Entries)
        /\ facts' \in Seq(Facts)
        /\ Len(trace') = Len(trace) + 1 /\ Len(facts') = Len(trace')
        /\ \A i \in 1 .. Len(trace) : trace'[i] = trace[i] /\ facts'[i] = facts[i]
        /\ trace'[Len(trace) + 1] = e /\ facts'[Len(trace) + 1] = f
    BY <1>1, RecordAppends
  <1>3. TypeOK'
    <2>1. \A i \in 1 .. Len(trace') :
              trace'[i].kind = "client/state" <=> trace'[i].available # "none"
      <3> SUFFICES ASSUME NEW i \in 1 .. Len(trace')
                   PROVE  trace'[i].kind = "client/state" <=> trace'[i].available # "none"
        OBVIOUS
      <3>1. i \in 1 .. Len(trace) \/ i = Len(trace) + 1
        BY <1>2 DEF TypeOK
      <3> QED
        BY <1>1, <1>2, <3>1 DEF TypeOK
    <2> QED
      BY <1>1, <1>2, <2>1 DEF TypeOK, judge
  <1>4. HeldIsLatest' /\ Bracketed'
    BY <1>1, RecordKeeps
  <1>5. FrameInFlight'
    <2>1. Len(trace) \in Nat
      BY DEF TypeOK
    <2>2. ASSUME writer \in {"writing", "written"}
          PROVE  Opens(entered, Len(trace))'
      <3>1. Opens(entered, Len(trace))
        BY <2>2 DEF FrameInFlight
      <3>2. entered' \in 1 .. Len(trace') /\ trace'[entered'].kind = "sending"
        BY <1>1, <1>2, <2>1, <3>1 DEF Opens, Kind
      <3>3. ASSUME NEW m \in entered + 1 .. Len(trace') PROVE trace'[m].kind = "client/state"
        <4>1. m \in entered + 1 .. Len(trace) \/ m = Len(trace) + 1
          BY <1>2, <2>1
        <4>2. m \in 1 .. Len(trace) \/ m = Len(trace) + 1
          BY <4>1, <2>1, <3>1 DEF Opens
        <4> QED
          BY <1>1, <1>2, <3>1, <4>1, <4>2 DEF Opens, Kind
      <3> QED
        BY <1>1, <3>2, <3>3 DEF Opens, Kind
    <2>3. ASSUME writer = "written"
          PROVE  \E m \in entered .. Len(trace') : at_wire = facts'[m].held
      <3>1. PICK m \in entered .. Len(trace) : at_wire = facts[m].held
        BY <2>3 DEF FrameInFlight
      <3>2. m \in 1 .. Len(trace) /\ m \in entered .. Len(trace')
        BY <2>1, <2>3, <1>2 DEF FrameInFlight, Opens
      <3> QED
        BY <3>1, <3>2, <1>2
    <2> QED
      BY <1>1, <2>2, <2>3 DEF FrameInFlight
  <1> QED
    BY <1>1, <1>3, <1>4, <1>5, OpenStep

LEMMA BeginStep == ASSUME IInv, BeginFrame PROVE IInv'
  <1> DEFINE e == Mark("sending")
             f == [held |-> HeldAfter(Len(trace)), from |-> 0, wire |-> "none"]
  <1> USE DEF IInv, RecorderInv
  <1>0. Len(trace) \in Nat /\ HeldAfter(Len(trace)) \in Held
    BY HeldAfterType DEF TypeOK
  <1>1. /\ e \in Entries /\ f \in Facts /\ Record(e, f)
        /\ e.kind = "sending" /\ e.available = "none" /\ f.held = HeldAfter(Len(trace))
        /\ phase = "open" /\ writer' = "writing" /\ entered' = Len(trace) + 1
        /\ UNCHANGED <<phase, at_wire, judge>>
    BY <1>0 DEF BeginFrame, Entries, Facts, Mark, Held
  <1> HIDE DEF e, f
  <1>2. /\ trace' \in Seq(Entries)
        /\ facts' \in Seq(Facts)
        /\ Len(trace') = Len(trace) + 1 /\ Len(facts') = Len(trace')
        /\ \A i \in 1 .. Len(trace) : trace'[i] = trace[i] /\ facts'[i] = facts[i]
        /\ trace'[Len(trace) + 1] = e /\ facts'[Len(trace) + 1] = f
    BY <1>1, RecordAppends
  <1>3. TypeOK'
    BY <1>0, <1>1, <1>2 DEF TypeOK, judge
  <1>4. HeldIsLatest' /\ Bracketed'
    BY <1>1, RecordKeeps
  <1>5. FrameInFlight'
    BY <1>0, <1>1, <1>2 DEF FrameInFlight, Opens, Kind
  <1> QED
    BY <1>1, <1>3, <1>4, <1>5, OpenStep

LEMMA EndStep == ASSUME IInv, EndFrame PROVE IInv'
  <1> DEFINE e == Mark("sent")
             f == [held |-> HeldAfter(Len(trace)), from |-> entered, wire |-> at_wire]
  <1> USE DEF IInv, RecorderInv
  <1>0. Len(trace) \in Nat /\ HeldAfter(Len(trace)) \in Held
    BY HeldAfterType DEF TypeOK
  <1>1. /\ e \in Entries /\ f \in Facts /\ Record(e, f)
        /\ e.kind = "sent" /\ e.available = "none" /\ f.held = HeldAfter(Len(trace))
        /\ f.from = entered /\ f.wire = at_wire
        /\ phase = "open" /\ writer = "written" /\ writer' = "idle"
        /\ UNCHANGED <<phase, entered, at_wire, judge>>
    BY <1>0 DEF EndFrame, Entries, Facts, Mark, Held, TypeOK
  <1> HIDE DEF e, f
  <1>2. /\ trace' \in Seq(Entries)
        /\ facts' \in Seq(Facts)
        /\ Len(trace') = Len(trace) + 1 /\ Len(facts') = Len(trace')
        /\ \A i \in 1 .. Len(trace) : trace'[i] = trace[i] /\ facts'[i] = facts[i]
        /\ trace'[Len(trace) + 1] = e /\ facts'[Len(trace) + 1] = f
    BY <1>1, RecordAppends
  <1>3. TypeOK'
    BY <1>0, <1>1, <1>2 DEF TypeOK, judge
  <1>4. HeldIsLatest' /\ Bracketed'
    BY <1>1, RecordKeeps DEF FrameInFlight
  <1>5. FrameInFlight'
    BY <1>1 DEF FrameInFlight
  <1> QED
    BY <1>1, <1>3, <1>4, <1>5, OpenStep

LEMMA ReachWireStep == ASSUME IInv, ReachWire PROVE IInv'
  <1> USE DEF IInv, RecorderInv
  <1>1. /\ phase = "open" /\ writer = "writing" /\ writer' = "written"
        /\ at_wire' = HeldAfter(Len(trace))
        /\ UNCHANGED <<phase, trace, entered, facts, judge>>
    BY DEF ReachWire
  <1>2. TypeOK'
    BY <1>1, HeldAfterType DEF TypeOK, judge
  <1>3. HeldIsLatest' /\ Bracketed'
    BY <1>1 DEF HeldIsLatest, Bracketed, Sent, Opens, Kind, HeldAfter, HeldDuring
  <1>4. FrameInFlight'
    <2>1. Opens(entered, Len(trace))
      BY <1>1 DEF FrameInFlight
    <2>2. Len(trace) \in entered .. Len(trace) /\ at_wire' = facts[Len(trace)].held
      BY <1>1, <2>1 DEF Opens, HeldAfter, TypeOK
    <2> QED
      BY <1>1, <2>1, <2>2 DEF FrameInFlight, Opens, Kind
  <1> QED
    BY <1>1, <1>2, <1>3, <1>4, OpenStep

LEMMA RaisesStep == ASSUME IInv, FrameRaises PROVE IInv'
  <1> USE DEF IInv, RecorderInv
  <1>1. /\ phase = "open" /\ writer' = "down"
        /\ UNCHANGED <<phase, trace, entered, at_wire, facts, judge>>
    BY DEF FrameRaises
  <1>2. TypeOK'
    BY <1>1 DEF TypeOK, judge
  <1>3. HeldIsLatest' /\ Bracketed' /\ FrameInFlight'
    BY <1>1 DEF HeldIsLatest, Bracketed, Sent, Opens, Kind, HeldAfter, HeldDuring, FrameInFlight
  <1> QED
    BY <1>1, <1>2, <1>3, OpenStep

-----------------------------------------------------------------------------
(* The steps of the judge leave what was recorded alone.                   *)

LEMMA RecorderKept ==
    ASSUME RecorderInv, UNCHANGED <<trace, writer, entered, at_wire, facts>>
    PROVE  RecorderInv'
  BY DEF RecorderInv, HeldIsLatest, Bracketed, Sent, Opens, Kind, HeldAfter, HeldDuring, FrameInFlight

LEMMA SnapshotStep == ASSUME IInv, Snapshot PROVE IInv'
  <1>1. /\ phase = "open"
        /\ UNCHANGED <<trace, writer, entered, at_wire, facts, at, latest, held_at_sending,
                       available_in_flight, stream_starts>>
        /\ \/ trace = <<>> /\ phase' = "judged" /\ verdict' = "gap"
           \/ phase' = "judging" /\ UNCHANGED verdict
    BY DEF Snapshot
  <1>2. TypeOK'
    BY <1>1 DEF IInv, TypeOK
  <1>3. RecorderInv'
    BY <1>1, RecorderKept DEF IInv
  <1>4. Waiting
    BY <1>1 DEF IInv, JudgeInv
  <1>5. JudgeInv'
    BY <1>1, <1>4 DEF JudgeInv, Waiting, Looping, HeldAfter
  <1>6. Fair'
    BY <1>1, <1>4 DEF Waiting, Fair, BlameIsReal, PassIsWitnessed, GapIsIgnorance, Blames, Sent
  <1> QED
    BY <1>2, <1>3, <1>5, <1>6 DEF IInv

\* A step of the loop reads one entry and writes nothing of the record.
LEMMA ReadingSteps ==
    ASSUME IInv, NEW kind, Reading(kind)
    PROVE  /\ at \in Nat /\ at + 1 \in 1 .. Len(trace) /\ at' = at + 1
           /\ Kind(at + 1) = kind /\ phase = "judging" /\ Looping
  BY DEF IInv, TypeOK, Reading, Kind, JudgeInv

LEMMA JudgeStateStep == ASSUME IInv, JudgeState PROVE IInv'
  <1>1. /\ at \in Nat /\ at + 1 \in 1 .. Len(trace) /\ at' = at + 1
        /\ Kind(at + 1) = "client/state" /\ phase = "judging" /\ Looping
    BY ReadingSteps DEF JudgeState
  <1>2. /\ UNCHANGED <<phase, trace, writer, entered, at_wire, facts, held_at_sending,
                       stream_starts, verdict>>
        /\ latest' = trace[at + 1].available
        /\ available_in_flight' =
             IF available_in_flight = "no" /\ trace[at + 1].available = "true"
               THEN "yes" ELSE available_in_flight
    BY DEF JudgeState, wire
  <1>3. trace[at + 1] \in Entries
    BY <1>1 DEF IInv, TypeOK
  <1>4. TypeOK'
    BY <1>1, <1>2, <1>3 DEF IInv, TypeOK, Entries
  <1>5. RecorderInv'
    BY <1>2, RecorderKept DEF IInv
  <1>6. facts[at + 1].held = trace[at + 1].available
    BY <1>1 DEF IInv, RecorderInv, HeldIsLatest
  <1>7. Looping'
    <2>1. verdict' = "pending" /\ latest' = HeldAfter(at + 1)
      BY <1>1, <1>2, <1>6 DEF Looping, HeldAfter
    <2>2. ASSUME available_in_flight' = "null", NEW k \in 1 .. at + 1, Kind(k) = "sending"
          PROVE  \E j \in k + 1 .. at + 1 : Kind(j) = "sent"
      <3>1. available_in_flight = "null" /\ k \in 1 .. at
        BY <1>1, <1>2, <2>2
      <3>2. PICK j \in k + 1 .. at : Kind(j) = "sent"
        BY <1>1, <3>1, <2>2 DEF Looping
      <3> QED
        BY <1>1, <3>2
    <2>3. ASSUME available_in_flight' # "null"
          PROVE  \E k \in 1 .. at + 1 :
                    /\ Opens(k, at + 1)
                    /\ held_at_sending = HeldAfter(k)
                    /\ available_in_flight' = "yes"
                         <=> \E m \in k .. at + 1 : facts[m].held = "true"
      <3>1. available_in_flight # "null"
        BY <1>2, <2>3
      <3>2. PICK k \in 1 .. at :
                    /\ Opens(k, at)
                    /\ held_at_sending = HeldAfter(k)
                    /\ available_in_flight = "yes" <=> \E m \in k .. at : facts[m].held = "true"
        BY <1>1, <3>1 DEF Looping
      <3>3. k .. at + 1 = (k .. at) \cup {at + 1} /\ k + 1 .. at + 1 = (k + 1 .. at) \cup {at + 1}
        BY <1>1
      <3>4. Opens(k, at + 1)
        BY <1>1, <3>2, <3>3 DEF Opens
      <3>5. available_in_flight' = "yes" <=> available_in_flight = "yes" \/ facts[at + 1].held = "true"
        BY <1>2, <1>6, <3>1 DEF IInv, TypeOK
      <3>6. available_in_flight' = "yes" <=> \E m \in k .. at + 1 : facts[m].held = "true"
        BY <3>2, <3>3, <3>5
      <3> QED
        BY <1>1, <3>2, <3>4, <3>6
    <2>4. stream_starts = 0 <=> \A j \in 1 .. at + 1 : Kind(j) # "sent"
      BY <1>1 DEF Looping
    <2>5. \A j \in 1 .. at + 1 : Kind(j) = "sent" => "true" \in HeldDuring(j)
      BY <1>1 DEF Looping
    <2> QED
      BY <1>1, <1>2, <2>1, <2>2, <2>3, <2>4, <2>5
      DEF Looping, Opens, Kind, HeldAfter, HeldDuring
  <1>8. JudgeInv' /\ Fair'
    BY <1>1, <1>2, <1>7 DEF JudgeInv, Looping, Fair, BlameIsReal, PassIsWitnessed,
                            GapIsIgnorance, Blames
  <1> QED
    BY <1>4, <1>5, <1>8 DEF IInv

LEMMA JudgeSendingStep == ASSUME IInv, JudgeSending PROVE IInv'
  <1>1. /\ at \in Nat /\ at + 1 \in 1 .. Len(trace) /\ at' = at + 1
        /\ Kind(at + 1) = "sending" /\ phase = "judging" /\ Looping
    BY ReadingSteps DEF JudgeSending
  <1>2. /\ UNCHANGED <<phase, trace, writer, entered, at_wire, facts, latest,
                       stream_starts, verdict>>
        /\ held_at_sending' = latest
        /\ available_in_flight' = IF latest = "true" THEN "yes" ELSE "no"
    BY DEF JudgeSending, wire
  <1>3. TypeOK'
    BY <1>1, <1>2 DEF IInv, TypeOK
  <1>4. RecorderInv'
    BY <1>2, RecorderKept DEF IInv
  <1>5. facts[at + 1].held = HeldAfter(at)
    BY <1>1 DEF IInv, RecorderInv, HeldIsLatest
  <1>6. Looping'
    <2>1. verdict' = "pending" /\ latest = HeldAfter(at + 1) /\ latest = facts[at + 1].held
      BY <1>1, <1>2, <1>5 DEF Looping, HeldAfter
    <2>2. /\ Opens(at + 1, at + 1)
          /\ held_at_sending' = HeldAfter(at + 1)
          /\ available_in_flight' = "yes" <=> \E m \in at + 1 .. at + 1 : facts[m].held = "true"
      BY <1>1, <1>2, <2>1 DEF Opens
    <2>3. stream_starts = 0 <=> \A j \in 1 .. at + 1 : Kind(j) # "sent"
      BY <1>1 DEF Looping
    <2>4. \A j \in 1 .. at + 1 : Kind(j) = "sent" => "true" \in HeldDuring(j)
      BY <1>1 DEF Looping
    <2>5. available_in_flight' # "null" /\ at + 1 \in 1 .. at + 1
      BY <1>1, <1>2
    <2> QED
      BY <1>1, <1>2, <2>1, <2>2, <2>3, <2>4, <2>5
      DEF Looping, Opens, Kind, HeldAfter, HeldDuring
  <1>7. JudgeInv' /\ Fair'
    BY <1>1, <1>2, <1>6 DEF JudgeInv, Looping, Fair, BlameIsReal, PassIsWitnessed,
                            GapIsIgnorance, Blames
  <1> QED
    BY <1>3, <1>4, <1>7 DEF IInv

\* Where the two halves meet: the bracket the loop holds open is the one the
\* recorder wrote for the frame, so the loop knows of every state in it.
LEMMA BracketsAgree ==
    ASSUME IInv, Reading("sent")
    PROVE  /\ available_in_flight # "null"
           /\ held_at_sending = HeldAfter(facts[at + 1].from)
           /\ available_in_flight = "yes" <=> "true" \in HeldDuring(at + 1)
           /\ facts[at + 1].wire \in HeldDuring(at + 1)
  <1> DEFINE k0 == facts[at + 1].from
  <1>1. /\ at \in Nat /\ at + 1 \in 1 .. Len(trace)
        /\ Kind(at + 1) = "sent" /\ Looping
    BY ReadingSteps
  <1>2. Opens(k0, at) /\ facts[at + 1].wire \in HeldDuring(at + 1)
    BY <1>1 DEF IInv, RecorderInv, Bracketed, Sent, Kind
  <1> HIDE DEF k0
  <1>3. available_in_flight # "null"
    <2> SUFFICES ASSUME available_in_flight = "null" PROVE FALSE
      OBVIOUS
    <2>1. PICK j \in k0 + 1 .. at : Kind(j) = "sent"
      BY <1>1, <1>2 DEF Looping, Opens
    <2> QED
      BY <1>2, <2>1 DEF Opens
  <1>4. PICK k \in 1 .. at :
            /\ Opens(k, at)
            /\ held_at_sending = HeldAfter(k)
            /\ available_in_flight = "yes" <=> \E m \in k .. at : facts[m].held = "true"
    BY <1>1, <1>3 DEF Looping
  <1>5. k = k0
    <2>1. k \in Int /\ k0 \in Int /\ k <= at /\ k0 <= at
      BY <1>1, <1>2, <1>4 DEF Opens
    <2>2. ~ (k < k0) /\ ~ (k0 < k)
      BY <1>2, <1>4, <2>1 DEF Opens
    <2> QED
      BY <2>1, <2>2
  <1>6. HeldDuring(at + 1) = {facts[m].held : m \in k0 .. at}
    BY <1>1 DEF HeldDuring, k0
  <1> QED
    BY <1>2, <1>3, <1>4, <1>5, <1>6 DEF k0

LEMMA JudgeSentStep == ASSUME IInv, JudgeSent PROVE IInv'
  <1>1. Reading("sent")
    BY DEF JudgeSent
  <1>2. /\ at \in Nat /\ at + 1 \in 1 .. Len(trace) /\ at' = at + 1
        /\ Kind(at + 1) = "sent" /\ phase = "judging" /\ Looping
    BY <1>1, ReadingSteps
  <1>3. /\ available_in_flight # "null"
        /\ held_at_sending = HeldAfter(facts[at + 1].from)
        /\ available_in_flight = "yes" <=> "true" \in HeldDuring(at + 1)
        /\ facts[at + 1].wire \in HeldDuring(at + 1)
    BY <1>1, BracketsAgree
  <1>4. UNCHANGED <<trace, writer, entered, at_wire, facts, latest, held_at_sending>>
    BY DEF JudgeSent
  <1>5. RecorderInv'
    BY <1>4, RecorderKept DEF IInv
  <1>6. stream_starts \in Nat /\ available_in_flight \in {"null", "yes", "no"}
    BY DEF IInv, TypeOK
  <1>7. CASE available_in_flight = "yes"
    <2>1. /\ verdict' = "pending" /\ phase' = "judging"
          /\ stream_starts' = stream_starts + 1 /\ available_in_flight' = "null"
      BY <1>7 DEF JudgeSent, Reason
    <2>2. TypeOK'
      BY <1>2, <1>4, <2>1 DEF IInv, TypeOK
    <2>3. Looping'
      <3>1. latest = HeldAfter(at + 1)
        BY <1>2 DEF IInv, RecorderInv, HeldIsLatest, Looping, HeldAfter
      <3>2. ASSUME NEW k \in 1 .. at + 1, Kind(k) = "sending"
            PROVE  \E j \in k + 1 .. at + 1 : Kind(j) = "sent"
        <4>1. k # at + 1
          BY <1>2, <3>2
        <4>2. at + 1 \in k + 1 .. at + 1
          BY <1>2, <4>1
        <4> QED
          BY <1>2, <4>2
      <3>3. stream_starts' # 0 /\ at + 1 \in 1 .. at + 1
        BY <1>2, <1>6, <2>1
      <3>4. \A j \in 1 .. at + 1 : Kind(j) = "sent" => "true" \in HeldDuring(j)
        BY <1>2, <1>3, <1>7 DEF Looping
      <3> QED
        BY <1>2, <1>4, <2>1, <3>1, <3>2, <3>3, <3>4
        DEF Looping, Opens, Kind, HeldAfter, HeldDuring
    <2>4. JudgeInv' /\ Fair'
      BY <2>1, <2>3 DEF JudgeInv, Fair, BlameIsReal, PassIsWitnessed, GapIsIgnorance, Blames
    <2> QED
      BY <1>5, <2>2, <2>4 DEF IInv
  <1>8. CASE available_in_flight = "no"
    <2>1. /\ verdict' = Reason(held_at_sending) /\ phase' = "judged"
          /\ stream_starts' = stream_starts + 1 /\ UNCHANGED available_in_flight
      BY <1>8 DEF JudgeSent, Reason
    <2>2. Reason(held_at_sending) \in Blames
      BY DEF Reason, Blames
    <2>3. TypeOK'
      BY <1>2, <1>4, <2>1, <2>2 DEF IInv, TypeOK
    <2>4. JudgeInv'
      BY <2>1 DEF JudgeInv
    <2>5. BlameIsReal'
      <3>1. at + 1 \in Sent
        BY <1>2 DEF Sent, Kind
      <3>2. facts[at + 1].wire # "true"
        BY <1>3, <1>8
      <3> QED
        BY <1>2, <1>3, <1>4, <2>1, <3>1, <3>2 DEF BlameIsReal, Sent, HeldAfter
    <2>6. PassIsWitnessed' /\ GapIsIgnorance'
      BY <2>1, <2>2 DEF PassIsWitnessed, GapIsIgnorance, Blames
    <2> QED
      BY <1>5, <2>3, <2>4, <2>5, <2>6 DEF IInv, Fair
  <1> QED
    BY <1>3, <1>6, <1>7, <1>8

LEMMA ConcludeStep == ASSUME IInv, Conclude PROVE IInv'
  <1>1. /\ phase = "judging" /\ at = Len(trace) /\ phase' = "judged"
        /\ verdict' = IF stream_starts = 0 THEN "gap" ELSE "pass"
        /\ UNCHANGED <<trace, writer, entered, at_wire, facts, at, latest, held_at_sending,
                       available_in_flight, stream_starts>>
    BY DEF Conclude
  <1>2. TypeOK'
    BY <1>1 DEF IInv, TypeOK
  <1>3. RecorderInv'
    BY <1>1, RecorderKept DEF IInv
  <1>4. Looping
    BY <1>1 DEF IInv, JudgeInv
  <1>5. stream_starts = 0 <=> Sent = {}
    BY <1>1, <1>4 DEF Looping, Sent, Kind
  <1>6. \A j \in Sent : "true" \in HeldDuring(j) /\ facts[j].wire \in HeldDuring(j)
    BY <1>1, <1>4 DEF Looping, Sent, Kind, IInv, RecorderInv, Bracketed
  <1>7. JudgeInv' /\ Fair'
    BY <1>1, <1>5, <1>6 DEF JudgeInv, Fair, BlameIsReal, PassIsWitnessed, GapIsIgnorance,
                            Blames, Sent, HeldDuring
  <1> QED
    BY <1>2, <1>3, <1>7 DEF IInv

LEMMA StutterStep == ASSUME IInv, UNCHANGED vars PROVE IInv'
  <1>1. UNCHANGED <<phase, trace, writer, entered, at_wire, facts, at, latest, held_at_sending,
                    available_in_flight, stream_starts, verdict>>
    BY DEF vars, wire, judge
  <1>2. TypeOK' /\ RecorderInv'
    BY <1>1, RecorderKept DEF IInv, TypeOK
  <1>3. JudgeInv'
    BY <1>1 DEF IInv, JudgeInv, Waiting, Looping, Opens, Kind, HeldAfter, HeldDuring
  <1>4. Fair'
    BY <1>1 DEF IInv, Fair, BlameIsReal, PassIsWitnessed, GapIsIgnorance, Sent, HeldAfter,
                HeldDuring
  <1> QED
    BY <1>2, <1>3, <1>4 DEF IInv

LEMMA InitIInv == ASSUME Init PROVE IInv
  <1> USE DEF Init
  <1>1. TypeOK
    BY DEF TypeOK, Held, Available
  <1>2. RecorderInv
    BY DEF RecorderInv, HeldIsLatest, Bracketed, Sent, FrameInFlight
  <1>3. JudgeInv /\ Fair
    BY DEF JudgeInv, Waiting, Fair, BlameIsReal, PassIsWitnessed, GapIsIgnorance, Blames
  <1> QED
    BY <1>1, <1>2, <1>3 DEF IInv

\* IInv is inductive, so it holds throughout.
THEOREM Invariance == Spec => []IInv
  <1>1. IInv /\ [Next]_vars => IInv'
    <2> SUFFICES ASSUME IInv, [Next]_vars PROVE IInv'
      OBVIOUS
    <2>1. ASSUME NEW v \in Available, ReceiveState(v) PROVE IInv'
      BY <2>1, ReceiveStep
    <2>2. CASE BeginFrame
      BY <2>2, BeginStep
    <2>3. CASE ReachWire
      BY <2>3, ReachWireStep
    <2>4. CASE EndFrame
      BY <2>4, EndStep
    <2>5. CASE FrameRaises
      BY <2>5, RaisesStep
    <2>6. CASE Snapshot
      BY <2>6, SnapshotStep
    <2>7. CASE JudgeState
      BY <2>7, JudgeStateStep
    <2>8. CASE JudgeSending
      BY <2>8, JudgeSendingStep
    <2>9. CASE JudgeSent
      BY <2>9, JudgeSentStep
    <2>10. CASE Conclude
      BY <2>10, ConcludeStep
    <2>11. CASE Judged \/ UNCHANGED vars
      BY <2>11, StutterStep DEF Judged
    <2> QED
      BY <2>1, <2>2, <2>3, <2>4, <2>5, <2>6, <2>7, <2>8, <2>9, <2>10, <2>11 DEF Next
  <1> QED
    BY <1>1, InitIInv, PTL DEF Spec

\* A trace of any length is well formed and the judge stays within it: the
\* recorder's appends and the loop of stream_start_gate_violation.
THEOREM TypeCorrect == Spec => []TypeOK
  BY Invariance, PTL DEF IInv

\* No server is blamed for a stream/start that went out while it held
\* available: true: stream_start_gate_violation against the wire.
THEOREM BlamesAreReal == Spec => []BlameIsReal
  <1>1. IInv => BlameIsReal
    BY DEF IInv, Fair
  <1> QED
    BY <1>1, Invariance, PTL

\* A pass of stream_start_gate_violation is witnessed for every stream/start.
THEOREM PassesAreWitnessed == Spec => []PassIsWitnessed
  <1>1. IInv => PassIsWitnessed
    BY DEF IInv, Fair
  <1> QED
    BY <1>1, Invariance, PTL

\* stream_start_gate_violation reports a gap only when no stream/start is known
\* to have gone out.
THEOREM GapsAreIgnorance == Spec => []GapIsIgnorance
  <1>1. IInv => GapIsIgnorance
    BY DEF IInv, Fair
  <1> QED
    BY <1>1, Invariance, PTL

-----------------------------------------------------------------------------
(* The time exchange: counting the members of a set of positions.          *)

Below == {p \in Nat \X Nat : p[1] < p[2]}

LEMMA BelowIsWellFounded == IsWellFoundedOn(Below, Nat)
<1>1. Below = OpToRel(<, Nat)
  BY DEF Below, OpToRel
<1> QED
  BY <1>1, NatLessThanWellFounded

LEMMA LeastOf ==
    ASSUME NEW S \in SUBSET Nat, S # {}
    PROVE  \E x \in S : \A y \in S : x <= y
<1>1. PICK x \in S : \A y \in S : <<y, x>> \notin Below
  BY BelowIsWellFounded, WFMin
<1>2. \A y \in S : ~(y < x)
  BY <1>1 DEF Below
<1> QED
  BY <1>2

\* Counting the members of a set of positions.
LEMMA UpToIs ==
    ASSUME NEW N \in Nat, NEW ps \in SUBSET (1..N)
    PROVE  /\ IsFiniteSet(ps) /\ Cardinality(ps) \in Nat
           /\ \A n : UpTo(ps, n) \in Nat /\ UpTo(ps, n) <= Cardinality(ps)
           /\ UpTo(ps, N) = Cardinality(ps) /\ UpTo(ps, 0) = 0
<1>1. IsFiniteSet(ps) /\ Cardinality(ps) \in Nat
  <2>1. IsFiniteSet(1..N)
    BY FS_Interval
  <2>2. IsFiniteSet(ps)
    BY <2>1, FS_Subset
  <2> QED
    BY <2>2, FS_CardinalityType
<1>2. ASSUME NEW n PROVE UpTo(ps, n) \in Nat /\ UpTo(ps, n) <= Cardinality(ps)
  <2>1. {i \in ps : i <= n} \in SUBSET ps
    OBVIOUS
  <2> QED
    BY <1>1, <2>1, FS_Subset, FS_CardinalityType DEF UpTo
<1>0. \A i \in ps : i <= N /\ ~(i <= 0)
  <2> TAKE i \in ps
  <2>1. i \in 1..N
    OBVIOUS
  <2> QED
    BY <2>1
<1>3. {i \in ps : i <= N} = ps
  BY <1>0
<1>4. {i \in ps : i <= 0} = {}
  BY <1>0
<1> QED
  BY <1>1, <1>2, <1>3, <1>4, FS_EmptySet DEF UpTo

LEMMA UpToNext ==
    ASSUME NEW N \in Nat, NEW ps \in SUBSET (1..N), NEW n \in Nat
    PROVE  UpTo(ps, n + 1) = IF n + 1 \in ps THEN UpTo(ps, n) + 1 ELSE UpTo(ps, n)
<1> DEFINE S == {i \in ps : i <= n}
<1>1. IsFiniteSet(S)
  BY UpToIs, FS_Subset
<1>2. n + 1 \notin S
  OBVIOUS
<1>3. {i \in ps : i <= n + 1} = IF n + 1 \in ps THEN S \cup {n + 1} ELSE S
  <2>1. \A i \in ps : i \in Int
    OBVIOUS
  <2>2. \A i \in ps : i <= n + 1 <=> i <= n \/ i = n + 1
    BY <2>1
  <2> QED
    BY <2>2
<1>4. Cardinality(S \cup {n + 1}) = Cardinality(S) + 1
  BY <1>1, <1>2, FS_AddElement
<1> QED
  BY <1>3, <1>4 DEF UpTo

LEMMA UpToGrows ==
    ASSUME NEW N \in Nat, NEW ps \in SUBSET (1..N), NEW m \in Nat, NEW n \in Nat, m <= n
    PROVE  /\ UpTo(ps, m) <= UpTo(ps, n)
           /\ \A i \in ps : m < i /\ i <= n => UpTo(ps, m) < UpTo(ps, n)
<1> DEFINE S == {i \in ps : i <= m}
           U == {i \in ps : i <= n}
<1>1. \A i \in ps : i \in Int
  OBVIOUS
<1>2. S \in SUBSET U
  <2>1. \A i \in ps : i <= m => i <= n
    <3> TAKE i \in ps
    <3> QED
      BY <1>1
  <2> QED
    BY <2>1
<1>3. IsFiniteSet(U)
  BY UpToIs, FS_Subset
<1>4. UpTo(ps, m) = Cardinality(S) /\ UpTo(ps, n) = Cardinality(U) /\ Cardinality(S) \in Nat /\ Cardinality(U) \in Nat
  BY UpToIs DEF UpTo
<1>5. ASSUME NEW i \in ps, m < i, i <= n PROVE S # U
  <2>1. i \in U /\ i \notin S
    BY <1>1, <1>5
  <2> QED
    BY <2>1
<1>6. Cardinality(S) <= Cardinality(U) /\ (S # U => Cardinality(S) # Cardinality(U))
  BY <1>2, <1>3, FS_Subset
<1> HIDE DEF S, U
<1> QED
  BY <1>4, <1>5, <1>6

LEMMA UpToHits ==
    ASSUME NEW N \in Nat, NEW ps \in SUBSET (1..N), NEW n \in 0..N
    PROVE  \A c \in 1..UpTo(ps, n) : \E i \in ps : i <= n /\ UpTo(ps, i) = c
<1> DEFINE bad == {m \in Nat : m <= N /\ ~\A c \in 1..UpTo(ps, m) : \E i \in ps : i <= m /\ UpTo(ps, i) = c}
<1>1. bad = {}
  <2> SUFFICES ASSUME bad # {} PROVE FALSE
    OBVIOUS
  <2>1. PICK m \in bad : \A k \in bad : m <= k
    <3>1. bad \in SUBSET Nat
      OBVIOUS
    <3> HIDE DEF bad
    <3> QED
      BY <3>1, LeastOf
  <2>2. PICK c \in 1..UpTo(ps, m) : \A i \in ps : ~(i <= m /\ UpTo(ps, i) = c)
    BY <2>1
  <2>3. m \in Nat /\ m <= N /\ m # 0
    <3>1. UpTo(ps, 0) = 0
      BY UpToIs
    <3> QED
      BY <2>1, <2>2, <3>1
  <2>4. m - 1 \in Nat /\ m - 1 <= N /\ m - 1 \notin bad
    BY <2>1, <2>3
  <2>5. \A d \in 1..UpTo(ps, m - 1) : \E i \in ps : i <= m - 1 /\ UpTo(ps, i) = d
    BY <2>4
  <2>6. UpTo(ps, m) = IF m \in ps THEN UpTo(ps, m - 1) + 1 ELSE UpTo(ps, m - 1)
    <3>1. m - 1 + 1 = m
      BY <2>3
    <3>2. UpTo(ps, m - 1 + 1) = IF m - 1 + 1 \in ps THEN UpTo(ps, m - 1) + 1 ELSE UpTo(ps, m - 1)
      BY <2>4, UpToNext
    <3> QED
      BY <3>1, <3>2
  <2>7. UpTo(ps, m - 1) \in Nat /\ UpTo(ps, m) \in Nat
    BY UpToIs
  <2>8. c \notin 1..UpTo(ps, m - 1)
    <3> SUFFICES ASSUME c \in 1..UpTo(ps, m - 1) PROVE FALSE
      OBVIOUS
    <3>1. PICK i \in ps : i <= m - 1 /\ UpTo(ps, i) = c
      BY <2>5
    <3>2. i \in Int /\ i <= m
      BY <2>3, <3>1
    <3> QED
      BY <2>2, <3>1, <3>2
  <2>9. m \in ps /\ c = UpTo(ps, m)
    BY <2>2, <2>6, <2>7, <2>8
  <2> QED
    BY <2>2, <2>3, <2>9
<1> QED
  BY <1>1

\* One position more, k + 1, that is not of the set: the others move on.
LEMMA UpToShift ==
    ASSUME NEW N \in Nat, NEW ps \in SUBSET (1..N), NEW k \in 0..N, NEW qs \in SUBSET (1..N + 1),
           \A i \in 1..N + 1 : i \in qs <=> (i <= k /\ i \in ps) \/ (i > k + 1 /\ i - 1 \in ps)
    PROVE  \A n \in 0..N + 1 : UpTo(qs, n) = UpTo(ps, IF n <= k THEN n ELSE n - 1)
<1> SUFFICES ASSUME NEW n \in 0..N + 1 PROVE UpTo(qs, n) = UpTo(ps, IF n <= k THEN n ELSE n - 1)
  OBVIOUS
<1> DEFINE m == IF n <= k THEN n ELSE n - 1
           S == {i \in qs : i <= n}
           U == {i \in ps : i <= m}
           f == [i \in S |-> IF i <= k THEN i ELSE i - 1]
<1>1. m \in Int
  OBVIOUS
<1>2. \A i \in S : i \in 1..N + 1 /\ ((i <= k /\ i \in ps) \/ (i > k + 1 /\ i - 1 \in ps)) /\ i <= n
  OBVIOUS
<1>3. \A i \in S : f[i] \in U
  <2> TAKE i \in S
  <2>1. CASE i <= k
    <3>1. i <= m
      BY <1>2, <2>1
    <3> QED
      BY <1>2, <2>1, <3>1
  <2>2. CASE ~(i <= k)
    <3>1. i > k + 1 /\ i - 1 \in ps
      BY <1>2, <2>2
    <3>2. i - 1 <= m
      BY <1>2, <3>1
    <3> QED
      BY <2>2, <3>1, <3>2
  <2> QED
    BY <2>1, <2>2
<1>4. \A i, j \in S : f[i] = f[j] => i = j
  BY <1>2
<1>5. \A u \in U : \E i \in S : f[i] = u
  <2> TAKE u \in U
  <2>0. u \in 1..N /\ u <= m /\ u \in ps
    OBVIOUS
  <2>1. CASE u <= k
    <3>1. u \in S
      BY <2>0, <2>1
    <3>2. f[u] = u
      BY <2>1, <3>1
    <3> QED
      BY <3>1, <3>2
  <2>2. CASE ~(u <= k)
    <3>1. u + 1 \in 1..N + 1 /\ u + 1 > k + 1 /\ u + 1 - 1 = u /\ u + 1 <= n
      BY <2>0, <2>2
    <3>2. u + 1 \in S
      BY <2>0, <3>1
    <3>3. f[u + 1] = u
      BY <2>2, <3>1, <3>2
    <3> QED
      BY <3>2, <3>3
  <2> QED
    BY <2>1, <2>2
<1>6. f \in Bijection(S, U)
  <2> HIDE DEF S, U
  <2>1. f \in [S -> U]
    BY <1>3
  <2> QED
    BY <1>4, <1>5, <2>1 DEF Bijection, Injection, Surjection, IsInjective
<1>7. IsFiniteSet(S)
  <2>1. N + 1 \in Nat
    OBVIOUS
  <2>2. IsFiniteSet(qs)
    BY <2>1, UpToIs
  <2> QED
    BY <2>2, FS_Subset
<1>8. Cardinality(S) = Cardinality(U)
  <2> HIDE DEF S, U, f
  <2> QED
    BY <1>6, <1>7, FS_Bijection DEF ExistsBijection
<1> QED
  BY <1>8 DEF UpTo

\* Numbering the members of P, those of Q are the numbers in R.
LEMMA UpToThrough ==
    ASSUME NEW N \in Nat, NEW P \in SUBSET (1..N), NEW Q \in SUBSET P, NEW M \in Nat, NEW R \in SUBSET (1..M),
           \A i \in P : i \in Q <=> UpTo(P, i) \in R
    PROVE  \A n \in 0..N : UpTo(Q, n) = UpTo(R, UpTo(P, n))
<1> DEFINE bad == {m \in Nat : m <= N /\ UpTo(Q, m) # UpTo(R, UpTo(P, m))}
<1>0. Q \in SUBSET (1..N)
  OBVIOUS
<1>1. bad = {}
  <2> SUFFICES ASSUME bad # {} PROVE FALSE
    OBVIOUS
  <2>1. PICK m \in bad : \A k \in bad : m <= k
    <3>1. bad \in SUBSET Nat
      OBVIOUS
    <3> HIDE DEF bad
    <3> QED
      BY <3>1, LeastOf
  <2>2. UpTo(Q, 0) = 0 /\ UpTo(P, 0) = 0 /\ UpTo(R, 0) = 0
    BY <1>0, UpToIs
  <2>3. m \in Nat /\ m <= N /\ m # 0 /\ UpTo(Q, m) # UpTo(R, UpTo(P, m))
    BY <2>1, <2>2
  <2>4. m - 1 \in Nat /\ m - 1 + 1 = m /\ m - 1 <= N /\ m - 1 \notin bad
    BY <2>1, <2>3
  <2>5. UpTo(Q, m - 1) = UpTo(R, UpTo(P, m - 1))
    BY <2>4
  <2>6. UpTo(Q, m) = IF m \in Q THEN UpTo(Q, m - 1) + 1 ELSE UpTo(Q, m - 1)
    <3>1. UpTo(Q, m - 1 + 1) = IF m - 1 + 1 \in Q THEN UpTo(Q, m - 1) + 1 ELSE UpTo(Q, m - 1)
      BY <1>0, <2>4, UpToNext
    <3> QED
      BY <2>4, <3>1
  <2>7. UpTo(P, m) = IF m \in P THEN UpTo(P, m - 1) + 1 ELSE UpTo(P, m - 1)
    <3>1. UpTo(P, m - 1 + 1) = IF m - 1 + 1 \in P THEN UpTo(P, m - 1) + 1 ELSE UpTo(P, m - 1)
      BY <2>4, UpToNext
    <3> QED
      BY <2>4, <3>1
  <2>8. UpTo(P, m - 1) \in Nat
    BY UpToIs
  <2>9. UpTo(R, UpTo(P, m - 1) + 1) = IF UpTo(P, m - 1) + 1 \in R THEN UpTo(R, UpTo(P, m - 1)) + 1
                                                                  ELSE UpTo(R, UpTo(P, m - 1))
    BY <2>8, UpToNext
  <2>10. m \in P => (m \in Q <=> UpTo(P, m) \in R)
    OBVIOUS
  <2> QED
    BY <2>3, <2>5, <2>6, <2>7, <2>9, <2>10
<1> QED
  BY <1>1

-----------------------------------------------------------------------------
(* The invariant of the recorder, and of the SDK that it is installed in.  *)

\* Entries of the list, and what a completed send is remembered by.
Entry == Messages \cup {ClientTime(v) : v \in Values \cup {NotInteger}}
Sends == [message : Messages, began : Nat, ended : Nat]

Times == Recorded("client/time")
Echoes == Recorded("server/time")
Marks == Recorded("other-sent")
Echoed(v) == {i \in Echoes : exchange[i].value = v}
ReadBy(v) == {p \in DOMAIN reads : reads[p] = v}
Replied(v) == {d \in Replies : done[d].message.value = v}

\* Where a send began in the list, and after how many client/time messages.
Flight(f, n, p) ==
    /\ f.message \in Messages /\ f.type = f.message.type
    /\ f.began_at \in 0 .. n /\ f.began \in 0 .. p

ListsOK ==
    /\ exchange \in Seq(Entry) /\ reads \in Seq(Values \cup {NotInteger}) /\ done \in Seq(Sends)
    /\ flight = [s \in Senders |-> flight[s]]
    /\ \A s \in Senders : flight[s] = Idle \/ Flight(flight[s], Len(exchange), Len(reads))
    /\ overlapped \in BOOLEAN

\* The client/time messages are listed in the order they were read.
TimesOK ==
    /\ \A i \in Times : exchange[i] = ClientTime(reads[UpTo(Times, i)])
    /\ Cardinality(Times) = Len(reads)

\* d is the send that reply i was recorded of.
Is(i, d) ==
    /\ exchange[i] = done[d].message /\ UpTo(Replies, d) = UpTo(Echoes, i)
    /\ done[d].ended = UpTo(Times, i)
    /\ \A v \in Values : UpTo(Echoed(v), i) = UpTo(Replied(v), d)

\* The replies are listed in the order they were written, among what had been read by then.
RepliesOK ==
    /\ \A i \in Echoes : \E d \in Replies : Is(i, d)
    /\ Cardinality(Echoes) = Cardinality(Replies)
    /\ \A v \in Values : Cardinality(Echoed(v)) = Cardinality(Replied(v))

\* A mark stands before no client/time that none of the sends it may speak for had begun after.
MarksOK ==
    /\ \A m \in Marks :
          \E d \in DOMAIN done \ Replies : UpTo(Times, m) <= done[d].began
    /\ \A s \in Senders : flight[s].type = "other-sent" =>
          UpTo(Times, flight[s].began_at) <= flight[s].began
    /\ \A i \in Marks : i + 1 \notin Marks

\* While sends do not overlap, each has a mark no earlier than where it began.
Alone ==
    /\ \A s, t \in InFlight : s = t
    /\ \A s \in Senders : flight[s].type = "other-sent" =>
          UpTo(Times, flight[s].began_at) = flight[s].began
    /\ \A d \in DOMAIN done \ Replies : done[d].began # 0 =>
          \E m \in Marks : UpTo(Times, m) >= done[d].began

AloneOK == ~overlapped => Alone

RecorderOK == ListsOK /\ TimesOK /\ RepliesOK /\ MarksOK /\ AloneOK

\* What the SDK has still to send: a reply to each client/time after the n-th, in their order,
\* among other messages.
Queued(n) ==
    /\ priority_messages \in Seq(Nat)
    /\ \A i \in DOMAIN priority_messages :
          priority_messages[i] # Another => priority_messages[i] \in n + 1 .. Len(reads)
    /\ \A i, k \in DOMAIN priority_messages :
          i < k /\ priority_messages[i] # Another /\ priority_messages[k] # Another
            => priority_messages[i] < priority_messages[k]
    /\ \A p \in n + 1 .. Len(reads) : \E i \in DOMAIN priority_messages : priority_messages[i] = p

\* The SDK's list: the replies in the order of what they answer, and, but for a message that
\* overtook one, a mark only where every client/time before it is answered.
SdkListOK ==
    /\ \A p \in DOMAIN reads : reads[p] \in Values
    /\ Cardinality(Echoes) <= Len(reads)
    /\ \A i \in Echoes :
          /\ UpTo(Echoes, i) <= UpTo(Times, i)
          /\ exchange[i] = Reply(reads[UpTo(Echoes, i)])
    /\ ~overtaken => \A m \in Marks : UpTo(Echoes, m) = UpTo(Times, m)

\* It sends one message at a time: the next reply, or another message, for which, unless it
\* overtakes, there is none to send.
SdkFlightOK ==
    /\ \A s, t \in InFlight : s = t
    /\ ~overtaken => \A s \in Senders : flight[s].type = "other-sent" =>
          UpTo(Echoes, flight[s].began_at) = UpTo(Times, flight[s].began_at)
    /\ \A s \in Senders : flight[s].type = "server/time" =>
          /\ Cardinality(Echoes) < Len(reads)
          /\ flight[s].message = Reply(reads[Cardinality(Echoes) + 1])
    /\ ~open => InFlight = {}

SdkQueueOK ==
    /\ open /\ ~Replying => Queued(Cardinality(Echoes))
    /\ open /\ Replying => Queued(Cardinality(Echoes) + 1)

SdkOK == SdkListOK /\ SdkFlightOK /\ SdkQueueOK

TimeInv == RecorderOK /\ (which = "sdk" => SdkOK)

LEMMA EntryIs ==
    /\ \A v : ClientTime(v).type = "client/time" /\ ClientTime(v).value = v
    /\ OtherSent.type = "other-sent" /\ Idle.type = "idle" /\ OtherSent \in Messages
    /\ \A e \in Messages :
          /\ e.type \in {"server/time", "other-sent"} /\ e # Idle
          /\ e.type = "other-sent" => e = OtherSent
          /\ e.type = "server/time" => e.value \in Values \cup {NotInteger} /\ e.backwards \in BOOLEAN
    /\ \A e \in Entry :
          /\ e.type \in {"client/time", "server/time", "other-sent"}
          /\ e.type = "client/time" => e.value \in Values \cup {NotInteger} /\ e = ClientTime(e.value)
          /\ e.type # "client/time" => e \in Messages
<1>1. \A v : ClientTime(v).type = "client/time" /\ ClientTime(v).value = v
  BY DEF ClientTime
<1>2. OtherSent.type = "other-sent" /\ Idle.type = "idle" /\ OtherSent \in Messages
  BY DEF OtherSent, Idle, Messages
<1>3. \A e \in Messages :
          /\ e.type \in {"server/time", "other-sent"} /\ e # Idle
          /\ e.type = "other-sent" => e = OtherSent
          /\ e.type = "server/time" => e.value \in Values \cup {NotInteger} /\ e.backwards \in BOOLEAN
  <2> TAKE e \in Messages
  <2>1. CASE e \in [type : {"server/time"}, value : Values, backwards : BOOLEAN]
    <3>1. e.type = "server/time" /\ e.value \in Values /\ e.backwards \in BOOLEAN
      BY <2>1
    <3> QED
      BY <3>1, <1>2
  <2>2. CASE e = [type |-> "server/time", value |-> NotInteger, backwards |-> FALSE]
    <3>1. e.type = "server/time" /\ e.value = NotInteger /\ e.backwards = FALSE
      BY <2>2
    <3> QED
      BY <3>1, <1>2
  <2>3. CASE e = OtherSent
    BY <2>3, <1>2
  <2> QED
    BY <2>1, <2>2, <2>3 DEF Messages, OtherSent
<1> QED
  BY <1>1, <1>2, <1>3 DEF Entry

LEMMA ListsAre ==
    ASSUME ListsOK
    PROVE  /\ Len(exchange) \in Nat /\ DOMAIN exchange = 1 .. Len(exchange)
           /\ \A i \in DOMAIN exchange : exchange[i] \in Entry
           /\ Times \in SUBSET (1 .. Len(exchange)) /\ Echoes \in SUBSET (1 .. Len(exchange))
           /\ Marks \in SUBSET (1 .. Len(exchange))
           /\ \A v : Echoed(v) \in SUBSET (1 .. Len(exchange))
           /\ Len(reads) \in Nat /\ DOMAIN reads = 1 .. Len(reads)
           /\ \A p \in DOMAIN reads : reads[p] \in Values \cup {NotInteger}
           /\ \A v : ReadBy(v) \in SUBSET (1 .. Len(reads))
           /\ Len(done) \in Nat /\ DOMAIN done = 1 .. Len(done) /\ \A d \in DOMAIN done : done[d] \in Sends
           /\ Replies \in SUBSET (1 .. Len(done)) /\ \A v : Replied(v) \in SUBSET (1 .. Len(done))
<1>1. Len(exchange) \in Nat /\ DOMAIN exchange = 1 .. Len(exchange) /\ \A i \in DOMAIN exchange : exchange[i] \in Entry
  BY DEF ListsOK
<1>2. Len(reads) \in Nat /\ DOMAIN reads = 1 .. Len(reads) /\ \A p \in DOMAIN reads : reads[p] \in Values \cup {NotInteger}
  BY DEF ListsOK
<1>3. Len(done) \in Nat /\ DOMAIN done = 1 .. Len(done) /\ \A d \in DOMAIN done : done[d] \in Sends
  BY DEF ListsOK
<1> QED
  BY <1>1, <1>2, <1>3 DEF Times, Echoes, Marks, Recorded, Echoed, ReadBy, Replies, Replied

\* The list with e after its first k entries.
Inserted(k, e) ==
    /\ k \in 0 .. Len(exchange) /\ exchange' \in Seq(Entry) /\ Len(exchange') = Len(exchange) + 1
    /\ DOMAIN exchange' = 1 .. Len(exchange) + 1
    /\ \A i \in 1 .. Len(exchange) + 1 :
          exchange'[i] = IF i <= k THEN exchange[i] ELSE IF i = k + 1 THEN e ELSE exchange[i - 1]

LEMMA AppendInserts ==
    ASSUME ListsOK, NEW e \in Entry, exchange' = Append(exchange, e)
    PROVE  Inserted(Len(exchange), e)
<1>1. exchange \in Seq(Entry)
  BY DEF ListsOK
<1> QED
  BY <1>1 DEF Inserted

LEMMA InsertAtIs ==
    ASSUME NEW s, NEW k, NEW e
    PROVE  InsertAt(s, k, e) = (SubSeq(s, 1, k - 1) \o <<e>>) \o SubSeq(s, k, Len(s))
BY DEF InsertAt

LEMMA MarkInserts ==
    ASSUME ListsOK, NEW k \in 1 .. Len(exchange), exchange' = InsertAt(exchange, k + 1, OtherSent)
    PROVE  Inserted(k, OtherSent)
<1> DEFINE x == SubSeq(exchange, 1, k)
           y == SubSeq(exchange, k + 1, Len(exchange))
           n == Len(exchange)
<1>1. exchange \in Seq(Entry) /\ n \in Nat /\ OtherSent \in Entry
  BY EntryIs DEF ListsOK, Entry
<1>2. x \in Seq(Entry) /\ Len(x) = k /\ \A i \in 1 .. k : x[i] = exchange[i]
  BY <1>1
<1>3. y \in Seq(Entry) /\ Len(y) = n - k /\ \A i \in 1 .. n - k : y[i] = exchange[k + i]
  <2>1. k + 1 \in 1 .. n + 1
    BY <1>1
  <2> QED
    BY <1>1, <2>1, SubSeqProperties
<1>4. exchange' = (x \o <<OtherSent>>) \o y
  <2> DEFINE h == k + 1
  <2>1. h - 1 = k
    OBVIOUS
  <2> HIDE DEF h
  <2>2. InsertAt(exchange, h, OtherSent)
          = (SubSeq(exchange, 1, h - 1) \o <<OtherSent>>) \o SubSeq(exchange, h, Len(exchange))
    BY InsertAtIs
  <2> QED
    BY <2>1, <2>2 DEF h
<1> DEFINE z == x \o <<OtherSent>>
<1> HIDE DEF x, y
<1>5. z \in Seq(Entry) /\ Len(z) = k + 1 /\ z[k + 1] = OtherSent /\ \A i \in 1 .. k : z[i] = exchange[i]
  BY <1>1, <1>2
<1> HIDE DEF z
<1>6. z \o y \in Seq(Entry) /\ Len(z \o y) = n + 1 /\ \A i \in 1 .. n + 1 : (z \o y)[i] = IF i <= k + 1 THEN z[i] ELSE y[i - (k + 1)]
  <2>1. Len(z) = k + 1 /\ Len(y) = n - k /\ k + 1 + (n - k) = n + 1
    BY <1>1, <1>3, <1>5
  <2> QED
    <3>1. z \o y \in Seq(Entry) /\ Len(z \o y) = Len(z) + Len(y)
      BY <1>3, <1>5, ConcatProperties
    <3>2. \A i \in 1 .. Len(z) + Len(y) : (z \o y)[i] = IF i <= Len(z) THEN z[i] ELSE y[i - Len(z)]
      BY <1>3, <1>5, ConcatProperties
    <3> QED
      BY <2>1, <3>1, <3>2
<1>7. exchange' = z \o y
  BY <1>4 DEF z
<1>8. \A i \in 1 .. n + 1 : exchange'[i] = IF i <= k THEN exchange[i] ELSE IF i = k + 1 THEN OtherSent ELSE exchange[i - 1]
  <2> TAKE i \in 1 .. n + 1
  <2>1. CASE i <= k
    BY <1>5, <1>6, <1>7, <2>1
  <2>2. CASE i = k + 1
    BY <1>5, <1>6, <1>7, <2>2
  <2>3. CASE i > k + 1
    <3>1. i - (k + 1) \in 1 .. n - k /\ k + (i - (k + 1)) = i - 1 /\ ~(i <= k + 1) /\ ~(i <= k) /\ i # k + 1
      BY <1>1, <2>3
    <3> QED
      BY <1>3, <1>6, <1>7, <3>1
  <2> QED
    BY <1>1, <2>1, <2>2, <2>3
<1>9. k \in 0 .. Len(exchange) /\ DOMAIN exchange' = 1 .. n + 1
  BY <1>1, <1>6, <1>7
<1> QED
  BY <1>6, <1>7, <1>8, <1>9 DEF Inserted

\* A set of positions P becomes Q when the list gets an entry after its first k, of the set or not.
Moved(P, Q, k, of) ==
    \A i \in 1 .. Len(exchange) + 1 :
        i \in Q <=> (i <= k /\ i \in P) \/ (i = k + 1 /\ of) \/ (i > k + 1 /\ i - 1 \in P)

LEMMA InsertedSets ==
    ASSUME ListsOK, NEW k, NEW e, Inserted(k, e)
    PROVE  /\ Moved(Times, Times', k, e.type = "client/time")
           /\ Moved(Echoes, Echoes', k, e.type = "server/time")
           /\ Moved(Marks, Marks', k, e.type = "other-sent")
           /\ \A v : Moved(Echoed(v), Echoed(v)', k, e.type = "server/time" /\ e.value = v)
           /\ Times' \in SUBSET (1 .. Len(exchange) + 1) /\ Echoes' \in SUBSET (1 .. Len(exchange) + 1)
           /\ Marks' \in SUBSET (1 .. Len(exchange) + 1)
           /\ \A v : Echoed(v)' \in SUBSET (1 .. Len(exchange) + 1)
<1>1. Len(exchange) \in Nat /\ DOMAIN exchange = 1 .. Len(exchange) /\ DOMAIN exchange' = 1 .. Len(exchange) + 1 /\ k \in 0 .. Len(exchange)
  BY ListsAre DEF Inserted
<1>2. ASSUME NEW i \in 1 .. Len(exchange) + 1
      PROVE  /\ exchange'[i] = IF i <= k THEN exchange[i] ELSE IF i = k + 1 THEN e ELSE exchange[i - 1]
             /\ i <= k => i \in DOMAIN exchange /\ i # k + 1 /\ ~(i > k + 1)
             /\ i = k + 1 => ~(i <= k) /\ ~(i > k + 1)
             /\ i > k + 1 => i - 1 \in DOMAIN exchange /\ ~(i <= k) /\ i # k + 1
             /\ i <= k \/ i = k + 1 \/ i > k + 1
             /\ i \in DOMAIN exchange'
  <2>1. exchange'[i] = IF i <= k THEN exchange[i] ELSE IF i = k + 1 THEN e ELSE exchange[i - 1]
    BY DEF Inserted
  <2> QED
    BY <1>1, <2>1
<1>3. Moved(Times, Times', k, e.type = "client/time")
  BY <1>2 DEF Moved, Times, Recorded
<1>4. Moved(Echoes, Echoes', k, e.type = "server/time")
  BY <1>2 DEF Moved, Echoes, Recorded
<1>5. Moved(Marks, Marks', k, e.type = "other-sent")
  BY <1>2 DEF Moved, Marks, Recorded
<1>6. ASSUME NEW v PROVE Moved(Echoed(v), Echoed(v)', k, e.type = "server/time" /\ e.value = v)
  <2>1. ASSUME NEW i \in 1 .. Len(exchange) + 1
        PROVE  i \in Echoed(v)' <=> i \in Echoes' /\ exchange'[i].value = v
    BY DEF Echoed, Echoes
  <2>2. ASSUME NEW i \in DOMAIN exchange
        PROVE  i \in Echoed(v) <=> i \in Echoes /\ exchange[i].value = v
    BY DEF Echoed, Echoes
  <2>3. \A i : i \in Echoed(v) => i \in Echoes
    BY DEF Echoed, Echoes
  <2> QED
    BY <1>2, <1>4, <2>1, <2>2, <2>3 DEF Moved
<1> QED
  BY <1>1, <1>3, <1>4, <1>5, <1>6 DEF Times, Echoes, Marks, Echoed, Recorded

LEMMA AppendCount ==
    ASSUME NEW N \in Nat, NEW P \in SUBSET (1 .. N), NEW Q \in SUBSET (1 .. N + 1),
           \A i \in 1 .. N : i \in Q <=> i \in P
    PROVE  /\ \A n \in 0 .. N : UpTo(Q, n) = UpTo(P, n)
           /\ Cardinality(Q) = UpTo(Q, N + 1)
           /\ Cardinality(Q) = IF N + 1 \in Q THEN Cardinality(P) + 1 ELSE Cardinality(P)
<1>1. ASSUME NEW n \in 0 .. N PROVE UpTo(Q, n) = UpTo(P, n)
  <2>1. ASSUME NEW i \in Q, i <= n PROVE i \in P
    <3>1. i \in 1 .. N
      BY <2>1
    <3> QED
      BY <3>1
  <2>2. ASSUME NEW i \in P, i <= n PROVE i \in Q
    OBVIOUS
  <2>3. {i \in Q : i <= n} = {i \in P : i <= n}
    BY <2>1, <2>2
  <2> QED
    BY <2>3 DEF UpTo
<1>2. N + 1 \in Nat /\ N \in 0 .. N
  OBVIOUS
<1>3. Cardinality(Q) = UpTo(Q, N + 1)
  BY <1>2, UpToIs
<1>4. UpTo(Q, N + 1) = IF N + 1 \in Q THEN UpTo(Q, N) + 1 ELSE UpTo(Q, N)
  BY <1>2, UpToNext
<1>6. UpTo(P, N) = Cardinality(P)
  BY UpToIs
<1> QED
  BY <1>1, <1>2, <1>3, <1>4, <1>6

\* An entry at the end.
LEMMA AppendCounts ==
    ASSUME ListsOK, NEW e \in Entry, Inserted(Len(exchange), e)
    PROVE  LET n == Len(exchange)
           IN  /\ \A i \in 0 .. n : /\ UpTo(Times', i) = UpTo(Times, i) /\ UpTo(Echoes', i) = UpTo(Echoes, i)
                                    /\ \A v : UpTo(Echoed(v)', i) = UpTo(Echoed(v), i)
               /\ Cardinality(Times') = UpTo(Times', n + 1) /\ Cardinality(Echoes') = UpTo(Echoes', n + 1)
               /\ \A v : Cardinality(Echoed(v)') = UpTo(Echoed(v)', n + 1)
               /\ Cardinality(Times') = Cardinality(Times) + (IF e.type = "client/time" THEN 1 ELSE 0)
               /\ Cardinality(Echoes') = Cardinality(Echoes) + (IF e.type = "server/time" THEN 1 ELSE 0)
               /\ \A v : Cardinality(Echoed(v)') = Cardinality(Echoed(v)) + (IF e.type = "server/time" /\ e.value = v THEN 1 ELSE 0)
               /\ \A i : i \in Times' <=> i \in Times \/ (i = n + 1 /\ e.type = "client/time")
               /\ \A i : i \in Echoes' <=> i \in Echoes \/ (i = n + 1 /\ e.type = "server/time")
               /\ \A i : i \in Marks' <=> i \in Marks \/ (i = n + 1 /\ e.type = "other-sent")
               /\ \A i \in 1 .. n : exchange'[i] = exchange[i]
               /\ exchange'[n + 1] = e
<1> DEFINE n == Len(exchange)
<1>1. n \in Nat /\ Times \in SUBSET (1 .. n) /\ Echoes \in SUBSET (1 .. n) /\ Marks \in SUBSET (1 .. n)
      /\ \A v : Echoed(v) \in SUBSET (1 .. n)
  BY ListsAre
<1>2. /\ Moved(Times, Times', n, e.type = "client/time") /\ Moved(Echoes, Echoes', n, e.type = "server/time")
      /\ Moved(Marks, Marks', n, e.type = "other-sent")
      /\ \A v : Moved(Echoed(v), Echoed(v)', n, e.type = "server/time" /\ e.value = v)
      /\ Times' \in SUBSET (1 .. n + 1) /\ Echoes' \in SUBSET (1 .. n + 1) /\ Marks' \in SUBSET (1 .. n + 1)
      /\ \A v : Echoed(v)' \in SUBSET (1 .. n + 1)
  BY InsertedSets
<1>3. /\ \A i \in 1 .. n : i \in 1 .. n + 1 /\ i <= n /\ i # n + 1 /\ ~(i > n + 1)
      /\ n + 1 \in 1 .. n + 1 /\ ~(n + 1 <= n) /\ ~(n + 1 > n + 1)
      /\ \A i \in 1 .. n + 1 : i \in 1 .. n \/ i = n + 1
  BY <1>1
<1> HIDE DEF n
<1>4. /\ \A i \in 1 .. n : i \in Times' <=> i \in Times
      /\ n + 1 \in Times' <=> e.type = "client/time"
  BY <1>2, <1>3 DEF Moved, n
<1>5. /\ \A i \in 0 .. n : UpTo(Times', i) = UpTo(Times, i)
      /\ Cardinality(Times') = UpTo(Times', n + 1)
      /\ Cardinality(Times') = IF n + 1 \in Times' THEN Cardinality(Times) + 1 ELSE Cardinality(Times)
  BY <1>1, <1>2, <1>4, AppendCount
<1>6a. /\ \A i \in 1 .. n : i \in Echoes' <=> i \in Echoes
       /\ n + 1 \in Echoes' <=> e.type = "server/time"
  BY <1>2, <1>3 DEF Moved, n
<1>6. /\ \A i \in 0 .. n : UpTo(Echoes', i) = UpTo(Echoes, i)
      /\ Cardinality(Echoes') = UpTo(Echoes', n + 1)
      /\ Cardinality(Echoes') = IF n + 1 \in Echoes' THEN Cardinality(Echoes) + 1 ELSE Cardinality(Echoes)
  BY <1>1, <1>2, <1>6a, AppendCount
<1>6b. /\ \A i \in 1 .. n : i \in Marks' <=> i \in Marks
       /\ n + 1 \in Marks' <=> e.type = "other-sent"
  BY <1>2, <1>3 DEF Moved, n
<1>7. ASSUME NEW v
      PROVE  /\ \A i \in 0 .. n : UpTo(Echoed(v)', i) = UpTo(Echoed(v), i)
             /\ Cardinality(Echoed(v)') = UpTo(Echoed(v)', n + 1)
             /\ Cardinality(Echoed(v)') = IF e.type = "server/time" /\ e.value = v THEN Cardinality(Echoed(v)) + 1 ELSE Cardinality(Echoed(v))
  <2>1. Moved(Echoed(v), Echoed(v)', n, e.type = "server/time" /\ e.value = v) /\ Echoed(v) \in SUBSET (1 .. n) /\ Echoed(v)' \in SUBSET (1 .. n + 1)
    BY <1>1, <1>2
  <2>2. /\ \A i \in 1 .. n : i \in Echoed(v)' <=> i \in Echoed(v)
        /\ n + 1 \in Echoed(v)' <=> e.type = "server/time" /\ e.value = v
    BY <2>1, <1>3 DEF Moved, n
  <2>4. /\ \A i \in 0 .. n : UpTo(Echoed(v)', i) = UpTo(Echoed(v), i)
        /\ Cardinality(Echoed(v)') = UpTo(Echoed(v)', n + 1)
        /\ Cardinality(Echoed(v)') = IF n + 1 \in Echoed(v)' THEN Cardinality(Echoed(v)) + 1 ELSE Cardinality(Echoed(v))
    BY <1>1, <2>1, <2>2, AppendCount
  <2> QED
    BY <2>4, <2>2
<1>8. \A i : /\ i \in Times' <=> i \in Times \/ (i = n + 1 /\ e.type = "client/time")
             /\ i \in Echoes' <=> i \in Echoes \/ (i = n + 1 /\ e.type = "server/time")
             /\ i \in Marks' <=> i \in Marks \/ (i = n + 1 /\ e.type = "other-sent")
  <2> TAKE i
  <2>1. n + 1 \notin 1 .. n
    BY <1>3
  <2>3. \A P, Q : (P \in SUBSET (1 .. n) /\ Q \in SUBSET (1 .. n + 1) /\ (\A j \in 1 .. n : j \in Q <=> j \in P))
                      => (i \in Q <=> i \in P \/ (i = n + 1 /\ n + 1 \in Q))
    BY <1>3, <2>1
  <2>4. i \in Times' <=> i \in Times \/ (i = n + 1 /\ n + 1 \in Times')
    BY <1>1, <1>2, <1>4, <2>3
  <2>5. i \in Echoes' <=> i \in Echoes \/ (i = n + 1 /\ n + 1 \in Echoes')
    BY <1>1, <1>2, <1>6a, <2>3
  <2>6. i \in Marks' <=> i \in Marks \/ (i = n + 1 /\ n + 1 \in Marks')
    BY <1>1, <1>2, <1>6b, <2>3
  <2> QED
    BY <1>4, <1>6a, <1>6b, <2>4, <2>5, <2>6
<1> USE DEF n
<1>9. \A i \in 1 .. n : exchange'[i] = exchange[i]
  BY <1>1 DEF Inserted
<1>10. exchange'[n + 1] = e
  BY <1>1 DEF Inserted
<1>11. Cardinality(Times) \in Nat /\ Cardinality(Echoes) \in Nat /\ \A v : Cardinality(Echoed(v)) \in Nat
  <2> HIDE DEF n
  <2> QED
    BY <1>1, UpToIs
<1> HIDE DEF n
<1>12. /\ Cardinality(Times') = Cardinality(Times) + (IF e.type = "client/time" THEN 1 ELSE 0)
       /\ Cardinality(Echoes') = Cardinality(Echoes) + (IF e.type = "server/time" THEN 1 ELSE 0)
       /\ \A v : Cardinality(Echoed(v)') = Cardinality(Echoed(v)) + (IF e.type = "server/time" /\ e.value = v THEN 1 ELSE 0)
  BY <1>4, <1>6a, <1>5, <1>6, <1>7, <1>11
<1> QED
  BY <1>5, <1>6, <1>7, <1>8, <1>9, <1>10, <1>12 DEF n

\* Where position n of the new list was, when a mark was put after the first k entries.
Old(k, n) == IF n <= k THEN n ELSE n - 1

\* A mark among the others counts for nothing.
LEMMA MarkCounts ==
    ASSUME ListsOK, NEW k \in 1 .. Len(exchange), Inserted(k, OtherSent)
    PROVE  LET n == Len(exchange)
           IN  /\ \A i \in 0 .. n + 1 : /\ Old(k, i) \in 0 .. n
                                        /\ UpTo(Times', i) = UpTo(Times, Old(k, i)) /\ UpTo(Echoes', i) = UpTo(Echoes, Old(k, i))
                                        /\ \A v : UpTo(Echoed(v)', i) = UpTo(Echoed(v), Old(k, i))
               /\ Cardinality(Times') = Cardinality(Times) /\ Cardinality(Echoes') = Cardinality(Echoes)
               /\ \A v : Cardinality(Echoed(v)') = Cardinality(Echoed(v))
               /\ \A i \in Times' : i \in 1 .. n + 1 /\ Old(k, i) \in Times /\ exchange'[i] = exchange[Old(k, i)]
               /\ \A i \in Echoes' : i \in 1 .. n + 1 /\ Old(k, i) \in Echoes /\ exchange'[i] = exchange[Old(k, i)]
               /\ \A i \in Marks' : i \in 1 .. n + 1 /\ (i = k + 1 \/ (i # k + 1 /\ Old(k, i) \in Marks))
               /\ k + 1 \in Marks' /\ Old(k, k + 1) = k
               /\ \A i \in Marks : \E j \in Marks' : Old(k, j) = i
<1> DEFINE n == Len(exchange)
<1>1. n \in Nat /\ Times \in SUBSET (1 .. n) /\ Echoes \in SUBSET (1 .. n) /\ Marks \in SUBSET (1 .. n)
      /\ (\A v : Echoed(v) \in SUBSET (1 .. n)) /\ k \in 0 .. n
  BY ListsAre
<1>2. /\ Moved(Times, Times', k, FALSE) /\ Moved(Echoes, Echoes', k, FALSE) /\ Moved(Marks, Marks', k, TRUE)
      /\ \A v : Moved(Echoed(v), Echoed(v)', k, FALSE)
      /\ Times' \in SUBSET (1 .. n + 1) /\ Echoes' \in SUBSET (1 .. n + 1) /\ Marks' \in SUBSET (1 .. n + 1)
      /\ \A v : Echoed(v)' \in SUBSET (1 .. n + 1)
  <2>1. OtherSent.type = "other-sent"
    BY EntryIs
  <2> QED
    BY <2>1, InsertedSets
<1>3. ASSUME NEW P \in SUBSET (1 .. n), NEW Q \in SUBSET (1 .. n + 1), Moved(P, Q, k, FALSE)
      PROVE  /\ \A i \in 0 .. n + 1 : UpTo(Q, i) = UpTo(P, Old(k, i))
             /\ Cardinality(Q) = Cardinality(P)
  <2>1. \A i \in 1 .. n + 1 : i \in Q <=> (i <= k /\ i \in P) \/ (i > k + 1 /\ i - 1 \in P)
    BY <1>3 DEF Moved
  <2> HIDE DEF n
  <2>2. \A i \in 0 .. n + 1 : UpTo(Q, i) = UpTo(P, Old(k, i))
    BY <1>1, <2>1, UpToShift DEF Old
  <2>3. UpTo(Q, n + 1) = Cardinality(Q) /\ UpTo(P, n) = Cardinality(P) /\ n + 1 \in 0 .. n + 1
    <3>1. n + 1 \in Nat
      BY <1>1
    <3> QED
      BY <1>1, <3>1, UpToIs
  <2>4. Old(k, n + 1) = n
    BY <1>1 DEF Old
  <2> QED
    BY <2>2, <2>3, <2>4
<1>4. ASSUME NEW i \in 1 .. n + 1
      PROVE  /\ exchange'[i] = IF i <= k THEN exchange[i] ELSE IF i = k + 1 THEN OtherSent ELSE exchange[i - 1]
             /\ i <= k => Old(k, i) = i
             /\ i > k + 1 => Old(k, i) = i - 1 /\ ~(i <= k) /\ i # k + 1
             /\ i <= k => i # k + 1
  BY <1>1 DEF Inserted, Old
<1>5. ASSUME NEW P \in SUBSET (1 .. n), NEW Q \in SUBSET (1 .. n + 1), Moved(P, Q, k, FALSE), NEW i \in Q
      PROVE  i \in 1 .. n + 1 /\ Old(k, i) \in P /\ exchange'[i] = exchange[Old(k, i)]
  <2>1. i \in 1 .. n + 1
    BY <1>5
  <2>2. (i <= k /\ i \in P) \/ (i > k + 1 /\ i - 1 \in P)
    BY <1>5, <2>1 DEF Moved
  <2> HIDE DEF n
  <2> QED
    BY <1>4, <2>1, <2>2
<1>6. \A i \in 0 .. n + 1 : Old(k, i) \in 0 .. n
  BY <1>1 DEF Old
<1>7. \A i \in Marks' : i \in 1 .. n + 1 /\ (i = k + 1 \/ (i # k + 1 /\ Old(k, i) \in Marks))
  <2> TAKE i \in Marks'
  <2>1. i \in 1 .. n + 1
    BY <1>2
  <2>2. (i <= k /\ i \in Marks) \/ i = k + 1 \/ (i > k + 1 /\ i - 1 \in Marks)
    BY <1>2, <2>1 DEF Moved
  <2> HIDE DEF n
  <2> QED
    BY <1>4, <2>1, <2>2
<1>8. k + 1 \in Marks' /\ Old(k, k + 1) = k
  <2>1. k + 1 \in 1 .. n + 1
    BY <1>1
  <2>2. Old(k, k + 1) = k
    BY <1>1 DEF Old
  <2> QED
    BY <1>2, <2>1, <2>2 DEF Moved
<1>9. \A i \in Marks : \E j \in Marks' : Old(k, j) = i
  <2> TAKE i \in Marks
  <2>1. i \in 1 .. n
    BY <1>1
  <2>2. CASE i <= k
    <3>1. i \in 1 .. n + 1
      BY <1>1, <2>1
    <3>2. i \in Marks'
      BY <1>2, <2>2, <3>1 DEF Moved
    <3>3. Old(k, i) = i
      BY <2>2 DEF Old
    <3> QED
      BY <3>2, <3>3
  <2>3. CASE ~(i <= k)
    <3> DEFINE j == i + 1
    <3>1. j \in 1 .. n + 1 /\ j > k + 1 /\ j - 1 = i /\ ~(j <= k)
      BY <1>1, <2>1, <2>3
    <3> HIDE DEF j
    <3>2. j \in Marks'
      BY <1>2, <3>1 DEF Moved
    <3>3. Old(k, j) = i
      BY <3>1 DEF Old
    <3> HIDE DEF n
    <3> QED
      BY <3>2, <3>3
  <2> QED
    BY <2>2, <2>3
<1> HIDE DEF n
<1>10. /\ \A i \in 0 .. n + 1 : UpTo(Times', i) = UpTo(Times, Old(k, i)) /\ UpTo(Echoes', i) = UpTo(Echoes, Old(k, i))
       /\ Cardinality(Times') = Cardinality(Times) /\ Cardinality(Echoes') = Cardinality(Echoes)
       /\ \A v : Cardinality(Echoed(v)') = Cardinality(Echoed(v)) /\ \A i \in 0 .. n + 1 : UpTo(Echoed(v)', i) = UpTo(Echoed(v), Old(k, i))
  BY <1>1, <1>2, <1>3
<1>11. \A i \in Times' : i \in 1 .. n + 1 /\ Old(k, i) \in Times /\ exchange'[i] = exchange[Old(k, i)]
  BY <1>1, <1>2, <1>5
<1>12. \A i \in Echoes' : i \in 1 .. n + 1 /\ Old(k, i) \in Echoes /\ exchange'[i] = exchange[Old(k, i)]
  BY <1>1, <1>2, <1>5
<1> QED
  BY <1>6, <1>7, <1>8, <1>9, <1>10, <1>11, <1>12 DEF n

-----------------------------------------------------------------------------
(* Each step of any server keeps what the recorder holds.                  *)

\* A member is counted by itself.
LEMMA UpToAt ==
    ASSUME NEW N \in Nat, NEW ps \in SUBSET (1 .. N), NEW i \in ps
    PROVE  UpTo(ps, i) \in 1 .. Cardinality(ps)
<1>1. i \in Nat /\ 0 < i /\ i <= i /\ 0 \in Nat /\ 0 <= i
  OBVIOUS
<1>2. UpTo(ps, 0) < UpTo(ps, i)
  BY <1>1, UpToGrows
<1>3. UpTo(ps, 0) = 0 /\ UpTo(ps, i) \in Nat /\ UpTo(ps, i) <= Cardinality(ps) /\ Cardinality(ps) \in Nat
  BY UpToIs
<1> QED
  BY <1>2, <1>3

\* Nothing is read, written or listed.
LEMMA SameLists ==
    ASSUME exchange' = exchange
    PROVE  /\ Times' = Times /\ Echoes' = Echoes /\ Marks' = Marks
           /\ \A v : Echoed(v)' = Echoed(v)
<1>1. Times' = Times /\ Echoes' = Echoes /\ Marks' = Marks
  BY DEF Times, Echoes, Marks, Recorded
<1>2. ASSUME NEW v PROVE Echoed(v)' = Echoed(v)
  BY <1>1 DEF Echoed
<1> QED
  BY <1>1, <1>2

LEMMA SameDone ==
    ASSUME done' = done
    PROVE  Replies' = Replies /\ \A v : Replied(v)' = Replied(v)
<1>1. Replies' = Replies
  BY DEF Replies
<1>2. ASSUME NEW v PROVE Replied(v)' = Replied(v)
  BY <1>1 DEF Replied
<1> QED
  BY <1>1, <1>2

LEMMA SameRecord ==
    ASSUME RecorderOK, UNCHANGED <<exchange, reads, done>>
    PROVE  TimesOK' /\ RepliesOK' /\ exchange' \in Seq(Entry) /\ reads' \in Seq(Values \cup {NotInteger}) /\ done' \in Seq(Sends)
<1>1. /\ Times' = Times /\ Echoes' = Echoes /\ \A v : Echoed(v)' = Echoed(v)
      /\ Replies' = Replies /\ \A v : Replied(v)' = Replied(v)
  BY SameLists, SameDone
<1>2. exchange' \in Seq(Entry) /\ reads' \in Seq(Values \cup {NotInteger}) /\ done' \in Seq(Sends)
  BY DEF RecorderOK, ListsOK
<1>3. TimesOK'
  BY <1>1 DEF RecorderOK, TimesOK
<1>4. ASSUME NEW i, NEW d, Is(i, d) PROVE Is(i, d)'
  BY <1>1, <1>4 DEF Is
<1>5. RepliesOK'
  BY <1>1, <1>4 DEF RecorderOK, RepliesOK
<1> QED
  BY <1>2, <1>3, <1>5

LEMMA FewerFlights ==
    ASSUME RecorderOK, UNCHANGED <<exchange, reads, done, overlapped>>, flight' = [t \in Senders |-> flight'[t]],
           \A t \in Senders : flight'[t] = flight[t] \/ flight'[t] = Idle
    PROVE  RecorderOK'
<1>1. /\ Times' = Times /\ Echoes' = Echoes /\ Marks' = Marks /\ Replies' = Replies
  BY SameLists, SameDone
<1>2. TimesOK' /\ RepliesOK' /\ exchange' \in Seq(Entry) /\ reads' \in Seq(Values \cup {NotInteger}) /\ done' \in Seq(Sends)
  BY SameRecord
<1>3. \A t \in Senders : flight'[t].type = "other-sent" => flight'[t] = flight[t]
  BY EntryIs
<1>4. InFlight' \in SUBSET InFlight
  BY DEF InFlight
<1>5. ListsOK'
  <2>1. overlapped' \in BOOLEAN
    BY DEF RecorderOK, ListsOK
  <2>2. ASSUME NEW t \in Senders PROVE flight'[t] = Idle \/ Flight(flight'[t], Len(exchange'), Len(reads'))
    BY DEF RecorderOK, ListsOK, Flight
  <2> QED
    BY <1>2, <2>1, <2>2 DEF ListsOK
<1>6. MarksOK'
  BY <1>1, <1>3 DEF RecorderOK, MarksOK
<1>7. AloneOK'
  <2> SUFFICES ASSUME ~overlapped' PROVE Alone'
    BY DEF AloneOK
  <2> QED
    BY <1>1, <1>3, <1>4 DEF RecorderOK, AloneOK, Alone
<1> QED
  BY <1>2, <1>5, <1>6, <1>7 DEF RecorderOK

LEMMA BeginSendKeeps ==
    ASSUME RecorderOK, NEW s \in Senders, NEW m \in Messages, BeginSend(s, m)
    PROVE  RecorderOK'
<1> DEFINE f == [type |-> m.type, message |-> m, began_at |-> Len(exchange), began |-> Len(reads)]
<1>1. /\ UNCHANGED <<exchange, reads, done>> /\ flight' = [flight EXCEPT ![s] = f] /\ flight[s] = Idle
      /\ overlapped' = (overlapped \/ InFlight # {})
  BY DEF BeginSend
<1>2. /\ Times' = Times /\ Echoes' = Echoes /\ Marks' = Marks /\ Replies' = Replies
  BY <1>1, SameLists, SameDone
<1>3. TimesOK' /\ RepliesOK' /\ exchange' \in Seq(Entry) /\ reads' \in Seq(Values \cup {NotInteger}) /\ done' \in Seq(Sends)
  BY <1>1, SameRecord
<1>4. flight = [t \in Senders |-> flight[t]]
  BY DEF RecorderOK, ListsOK
<1> HIDE DEF f
<1>5. flight' = [t \in Senders |-> flight'[t]] /\ \A t \in Senders : flight'[t] = IF t = s THEN f ELSE flight[t]
  BY <1>1, <1>4
<1>6. Len(exchange) \in Nat /\ Len(reads) \in Nat /\ Times \in SUBSET (1 .. Len(exchange))
  BY ListsAre DEF RecorderOK
<1>7. UpTo(Times, Len(exchange)) = Len(reads)
  BY <1>6, UpToIs DEF RecorderOK, TimesOK
<1>8. Flight(f, Len(exchange'), Len(reads')) /\ f.began_at = Len(exchange) /\ f.began = Len(reads)
  BY <1>1, <1>6 DEF Flight, f
<1>9. ListsOK'
  <2>1. overlapped' \in BOOLEAN
    BY <1>1 DEF RecorderOK, ListsOK
  <2>2. ASSUME NEW t \in Senders PROVE flight'[t] = Idle \/ Flight(flight'[t], Len(exchange'), Len(reads'))
    <3>1. CASE t = s
      BY <1>5, <1>8, <3>1
    <3>2. CASE t # s
      <4>1. flight'[t] = flight[t] /\ (flight[t] = Idle \/ Flight(flight[t], Len(exchange), Len(reads)))
        BY <1>5, <3>2 DEF RecorderOK, ListsOK
      <4> QED
        BY <1>1, <4>1 DEF Flight
    <3> QED
      BY <3>1, <3>2
  <2> QED
    BY <1>3, <1>5, <2>1, <2>2 DEF ListsOK
<1>10. MarksOK'
  <2>1. ASSUME NEW t \in Senders, flight'[t].type = "other-sent"
        PROVE  UpTo(Times, flight'[t].began_at) <= flight'[t].began
    <3>1. CASE t = s
      BY <1>5, <1>6, <1>7, <1>8, <3>1
    <3>2. CASE t # s
      BY <1>5, <2>1, <3>2 DEF RecorderOK, MarksOK
    <3> QED
      BY <3>1, <3>2
  <2> QED
    BY <1>1, <1>2, <2>1 DEF RecorderOK, MarksOK
<1>11. AloneOK'
  <2> SUFFICES ASSUME ~overlapped' PROVE Alone'
    BY DEF AloneOK
  <2>1. ~overlapped /\ InFlight = {}
    BY <1>1
  <2>2. \A t \in Senders : t # s => flight'[t] = Idle
    BY <1>5, <2>1 DEF InFlight
  <2>3. \A t, u \in InFlight' : t = u
    BY <2>2 DEF InFlight
  <2>4. \A t \in Senders : flight'[t].type = "other-sent" => UpTo(Times, flight'[t].began_at) = flight'[t].began
    BY <1>5, <1>7, <1>8, <2>2, EntryIs
  <2> QED
    BY <1>1, <1>2, <2>1, <2>3, <2>4 DEF RecorderOK, AloneOK, Alone
<1> QED
  BY <1>3, <1>9, <1>10, <1>11 DEF RecorderOK

\* A completed send is remembered.
LEMMA DoneCounts ==
    ASSUME ListsOK, NEW x \in Sends, done' = Append(done, x)
    PROVE  LET n == Len(done)
           IN  /\ done' \in Seq(Sends) /\ DOMAIN done' = 1 .. n + 1 /\ done'[n + 1] = x
               /\ \A d \in 1 .. n : done'[d] = done[d]
               /\ \A d : d \in Replies' <=> d \in Replies \/ (d = n + 1 /\ x.message.type = "server/time")
               /\ \A d \in 0 .. n : UpTo(Replies', d) = UpTo(Replies, d) /\ \A v : UpTo(Replied(v)', d) = UpTo(Replied(v), d)
               /\ Cardinality(Replies') = UpTo(Replies', n + 1)
               /\ \A v : Cardinality(Replied(v)') = UpTo(Replied(v)', n + 1)
               /\ Cardinality(Replies') = Cardinality(Replies) + (IF x.message.type = "server/time" THEN 1 ELSE 0)
               /\ \A v : Cardinality(Replied(v)') = Cardinality(Replied(v))
                                  + (IF x.message.type = "server/time" /\ x.message.value = v THEN 1 ELSE 0)
<1> DEFINE n == Len(done)
<1>1. n \in Nat /\ DOMAIN done = 1 .. n /\ Replies \in SUBSET (1 .. n) /\ \A v : Replied(v) \in SUBSET (1 .. n)
  BY ListsAre
<1>2. done' \in Seq(Sends) /\ DOMAIN done' = 1 .. n + 1 /\ done'[n + 1] = x /\ \A d \in 1 .. n : done'[d] = done[d]
  BY DEF ListsOK
<1> HIDE DEF n
<1>3. (\A i \in 1 .. n : i \in 1 .. n + 1 /\ i # n + 1) /\ n + 1 \in 1 .. n + 1 /\ \A i \in 1 .. n + 1 : i \in 1 .. n \/ i = n + 1
  BY <1>1
<1>4. \A d : d \in Replies' <=> d \in Replies \/ (d = n + 1 /\ x.message.type = "server/time")
  <2>1. \A d \in 1 .. n : d \in Replies' <=> d \in Replies
    BY <1>1, <1>2, <1>3 DEF Replies
  <2>2. n + 1 \in Replies' <=> x.message.type = "server/time"
    BY <1>2, <1>3 DEF Replies
  <2>3. \A d : (d \in Replies' => d \in 1 .. n + 1) /\ (d \in Replies => d \in 1 .. n)
    BY <1>1, <1>2 DEF Replies
  <2> QED
    BY <1>3, <2>1, <2>2, <2>3
<1>5. ASSUME NEW v
      PROVE \A d : d \in Replied(v)' <=> d \in Replied(v) \/ (d = n + 1 /\ x.message.type = "server/time" /\ x.message.value = v)
  <2>1. \A d : d \in Replied(v)' <=> d \in Replies' /\ done'[d].message.value = v
    BY DEF Replied
  <2>2. \A d : d \in Replied(v) <=> d \in Replies /\ done[d].message.value = v
    BY DEF Replied
  <2>3. \A d \in Replies : d \in 1 .. n
    BY <1>1
  <2> QED
    BY <1>2, <1>3, <1>4, <2>1, <2>2, <2>3
<1>6. Replies' \in SUBSET (1 .. n + 1) /\ \A v : Replied(v)' \in SUBSET (1 .. n + 1)
  BY <1>1, <1>3, <1>4, <1>5
<1>7. /\ \A d \in 0 .. n : UpTo(Replies', d) = UpTo(Replies, d)
      /\ Cardinality(Replies') = UpTo(Replies', n + 1)
      /\ Cardinality(Replies') = Cardinality(Replies) + (IF x.message.type = "server/time" THEN 1 ELSE 0)
  <2>0. (\A i \in 1 .. n : i \in Replies' <=> i \in Replies) /\ (n + 1 \in Replies' <=> x.message.type = "server/time")
    BY <1>1, <1>3, <1>4
  <2>1. /\ \A d \in 0 .. n : UpTo(Replies', d) = UpTo(Replies, d)
        /\ Cardinality(Replies') = UpTo(Replies', n + 1)
        /\ Cardinality(Replies') = IF n + 1 \in Replies' THEN Cardinality(Replies) + 1 ELSE Cardinality(Replies)
    BY <1>1, <1>6, <2>0, AppendCount
  <2>2. Cardinality(Replies) \in Nat
    BY <1>1, UpToIs
  <2> QED
    BY <2>0, <2>1, <2>2
<1>8. ASSUME NEW v
      PROVE  /\ \A d \in 0 .. n : UpTo(Replied(v)', d) = UpTo(Replied(v), d)
             /\ Cardinality(Replied(v)') = UpTo(Replied(v)', n + 1)
             /\ Cardinality(Replied(v)') = Cardinality(Replied(v))
                                  + (IF x.message.type = "server/time" /\ x.message.value = v THEN 1 ELSE 0)
  <2>0. /\ \A i \in 1 .. n : i \in Replied(v)' <=> i \in Replied(v)
        /\ n + 1 \in Replied(v)' <=> x.message.type = "server/time" /\ x.message.value = v
    BY <1>1, <1>3, <1>5
  <2>1. /\ \A d \in 0 .. n : UpTo(Replied(v)', d) = UpTo(Replied(v), d)
        /\ Cardinality(Replied(v)') = UpTo(Replied(v)', n + 1)
        /\ Cardinality(Replied(v)') = IF n + 1 \in Replied(v)' THEN Cardinality(Replied(v)) + 1 ELSE Cardinality(Replied(v))
    BY <1>1, <1>6, <2>0, AppendCount
  <2>2. Cardinality(Replied(v)) \in Nat
    BY <1>1, UpToIs
  <2> QED
    BY <2>0, <2>1, <2>2
<1> QED
  BY <1>2, <1>4, <1>7, <1>8 DEF n

LEMMA ReadKeeps ==
    ASSUME RecorderOK, NEW v \in Values \cup {NotInteger}, ReadClientTime(v)
    PROVE  RecorderOK'
<1> DEFINE n == Len(exchange)
           p == Len(reads)
           e == ClientTime(v)
<1>1. exchange' = Append(exchange, e) /\ reads' = Append(reads, v) /\ UNCHANGED <<flight, done, overlapped>>
  BY DEF ReadClientTime
<1>2. ListsOK /\ e \in Entry /\ e.type = "client/time"
  BY EntryIs DEF RecorderOK, Entry
<1>3. n \in Nat /\ p \in Nat /\ Times \in SUBSET (1 .. n) /\ Echoes \in SUBSET (1 .. n) /\ Marks \in SUBSET (1 .. n) /\ DOMAIN reads = 1 .. p
      /\ DOMAIN exchange = 1 .. n
  BY <1>2, ListsAre
<1> HIDE DEF e
<1>4. Inserted(n, e)
  BY <1>1, <1>2, AppendInserts
<1>5. /\ \A i \in 0 .. n : /\ UpTo(Times', i) = UpTo(Times, i) /\ UpTo(Echoes', i) = UpTo(Echoes, i)
                           /\ \A w : UpTo(Echoed(w)', i) = UpTo(Echoed(w), i)
      /\ Cardinality(Times') = UpTo(Times', n + 1)
      /\ Cardinality(Times') = Cardinality(Times) + 1
      /\ Cardinality(Echoes') = Cardinality(Echoes)
      /\ \A w : Cardinality(Echoed(w)') = Cardinality(Echoed(w))
  <2>1. /\ Cardinality(Echoes) \in Nat /\ \A w : Cardinality(Echoed(w)) \in Nat
    BY <1>2, ListsAre, UpToIs
  <2> QED
    BY <1>2, <1>4, <2>1, AppendCounts
<1>6. /\ \A i : i \in Times' <=> i \in Times \/ i = n + 1
      /\ Echoes' = Echoes /\ Marks' = Marks
      /\ \A i \in 1 .. n : exchange'[i] = exchange[i]
      /\ exchange'[n + 1] = e
  <2>1. (\A i : i \in Echoes' <=> i \in Echoes) /\ (\A i : i \in Marks' <=> i \in Marks)
    BY <1>2, <1>4, AppendCounts
  <2> QED
    BY <1>2, <1>4, <2>1, AppendCounts
<1>7. Replies' = Replies /\ \A w : Replied(w)' = Replied(w)
  BY <1>1, SameDone
<1>8. exchange' \in Seq(Entry) /\ Len(exchange') = n + 1
  BY <1>4 DEF Inserted
<1>9. reads' \in Seq(Values \cup {NotInteger}) /\ Len(reads') = p + 1 /\ reads'[p + 1] = v /\ \A i \in 1 .. p : reads'[i] = reads[i]
  BY <1>1 DEF RecorderOK, ListsOK
<1>10. Cardinality(Times) = p
  BY DEF RecorderOK, TimesOK
<1> HIDE DEF n, p
<1>11. ListsOK'
  <2>1. ASSUME NEW s \in Senders PROVE flight[s] = Idle \/ Flight(flight[s], n + 1, p + 1)
    <3>1. CASE flight[s] = Idle
      BY <3>1
    <3>2. CASE Flight(flight[s], n, p)
      BY <1>3, <3>2 DEF Flight
    <3> QED
      BY <1>2, <3>1, <3>2 DEF ListsOK, n, p
  <2> QED
    BY <1>1, <1>2, <1>8, <1>9, <2>1 DEF ListsOK
<1>12. TimesOK'
  <2>1. ASSUME NEW i \in Times PROVE exchange'[i] = ClientTime(reads'[UpTo(Times', i)])
    <3>0. UpTo(Times, i) \in 1 .. Cardinality(Times)
      BY <1>3, UpToAt
    <3>1. i \in 1 .. n /\ UpTo(Times, i) \in 1 .. p /\ i \in 0 .. n
      BY <1>3, <1>10, <3>0
    <3>2. exchange[i] = ClientTime(reads[UpTo(Times, i)])
      BY DEF RecorderOK, TimesOK
    <3> QED
      BY <1>5, <1>6, <1>9, <3>1, <3>2
  <2>2. exchange'[n + 1] = ClientTime(reads'[UpTo(Times', n + 1)])
    BY <1>5, <1>6, <1>9, <1>10 DEF e
  <2> QED
    BY <1>5, <1>6, <1>9, <1>10, <2>1, <2>2 DEF TimesOK
<1>13. RepliesOK'
  <2>1. ASSUME NEW i \in Echoes, NEW d, Is(i, d) PROVE Is(i, d)'
    <3>1. i \in 1 .. n /\ i \in 0 .. n
      BY <1>3
    <3> QED
      BY <1>1, <1>5, <1>6, <1>7, <2>1, <3>1 DEF Is
  <2> QED
    BY <1>5, <1>6, <1>7, <2>1 DEF RecorderOK, RepliesOK
<1>14. ASSUME NEW s \in Senders, flight[s].type = "other-sent" PROVE UpTo(Times', flight[s].began_at) = UpTo(Times, flight[s].began_at)
  <2>1. flight[s].began_at \in 0 .. n
    BY <1>2, <1>14, EntryIs DEF ListsOK, Flight, n
  <2> QED
    BY <1>5, <2>1
<1>15. \A m \in Marks : UpTo(Times', m) = UpTo(Times, m)
  BY <1>3, <1>5
<1>16. MarksOK'
  BY <1>1, <1>6, <1>7, <1>14, <1>15 DEF RecorderOK, MarksOK
<1>17. AloneOK'
  <2>1. InFlight' = InFlight
    BY <1>1 DEF InFlight
  <2> QED
    BY <1>1, <1>6, <1>7, <1>14, <1>15, <2>1 DEF RecorderOK, AloneOK, Alone
<1> QED
  BY <1>11, <1>12, <1>13, <1>16, <1>17 DEF RecorderOK

\* What EndSend remembers.
LEMMA EndSendIs ==
    ASSUME RecorderOK, NEW s \in Senders, EndSend(s)
    PROVE  LET x == [message |-> flight[s].message, began |-> flight[s].began, ended |-> Len(reads)]
           IN  /\ x \in Sends /\ done' = Append(done, x) /\ UNCHANGED <<reads, overlapped>>
               /\ Flight(flight[s], Len(exchange), Len(reads))
               /\ flight' = [t \in Senders |-> flight'[t]]
               /\ \A t \in Senders : flight'[t] = IF t = s THEN Idle ELSE flight[t]
               /\ x.message = flight[s].message /\ x.began = flight[s].began /\ x.ended = Len(reads)
               /\ \A t \in Senders : flight'[t].type = "other-sent" =>
                     t # s /\ flight'[t] = flight[t] /\ flight[t].began_at \in 0 .. Len(exchange)
               /\ InFlight' \in SUBSET InFlight /\ s \in InFlight /\ s \notin InFlight'
<1> DEFINE x == [message |-> flight[s].message, began |-> flight[s].began, ended |-> Len(reads)]
<1>1. done' = Append(done, x) /\ UNCHANGED <<reads, overlapped>> /\ flight[s] # Idle /\ flight' = [flight EXCEPT ![s] = Idle]
  BY DEF EndSend
<1>2. ListsOK /\ Len(reads) \in Nat
  BY ListsAre DEF RecorderOK
<1>3. Flight(flight[s], Len(exchange), Len(reads)) /\ flight = [t \in Senders |-> flight[t]]
  BY <1>1, <1>2 DEF ListsOK
<1>4. x \in Sends
  BY <1>2, <1>3 DEF Flight, Sends
<1>5. flight' = [t \in Senders |-> flight'[t]] /\ \A t \in Senders : flight'[t] = IF t = s THEN Idle ELSE flight[t]
  BY <1>1, <1>3
<1>6. \A t \in Senders : flight'[t].type = "other-sent" =>
                     t # s /\ flight'[t] = flight[t] /\ flight[t].began_at \in 0 .. Len(exchange)
  <2> TAKE t \in Senders
  <2> HAVE flight'[t].type = "other-sent"
  <2>1. t # s /\ flight[t] # Idle /\ flight'[t] = flight[t]
    BY <1>5, EntryIs
  <2>2. Flight(flight[t], Len(exchange), Len(reads))
    BY <1>2, <2>1 DEF ListsOK
  <2> QED
    BY <2>1, <2>2 DEF Flight
<1>7. InFlight' \in SUBSET InFlight /\ s \in InFlight /\ s \notin InFlight'
  BY <1>1, <1>5 DEF InFlight
<1> QED
  BY <1>1, <1>3, <1>4, <1>5, <1>6, <1>7

LEMMA EndReplyKeeps ==
    ASSUME RecorderOK, NEW s \in Senders, EndSend(s), flight[s].type = "server/time"
    PROVE  RecorderOK'
<1> DEFINE n == Len(exchange)
           p == Len(reads)
           c == Len(done)
           e == flight[s].message
           x == [message |-> flight[s].message, began |-> flight[s].began, ended |-> Len(reads)]
<1>1. /\ x \in Sends /\ done' = Append(done, x) /\ UNCHANGED <<reads, overlapped>>
      /\ Flight(flight[s], n, p)
      /\ flight' = [t \in Senders |-> flight'[t]]
      /\ \A t \in Senders : flight'[t] = IF t = s THEN Idle ELSE flight[t]
      /\ \A t \in Senders : flight'[t].type = "other-sent" =>
                     t # s /\ flight'[t] = flight[t] /\ flight[t].began_at \in 0 .. n
      /\ InFlight' \in SUBSET InFlight
      /\ x.message = e /\ x.ended = p
  BY EndSendIs
<1>2. exchange' = Append(exchange, e)
  BY DEF EndSend
<1>3. ListsOK /\ n \in Nat /\ p \in Nat /\ c \in Nat
      /\ Times \in SUBSET (1 .. n) /\ Echoes \in SUBSET (1 .. n) /\ Marks \in SUBSET (1 .. n) /\ Replies \in SUBSET (1 .. c)
      /\ DOMAIN done = 1 .. c
  BY ListsAre DEF RecorderOK
<1>4. e \in Messages /\ e \in Entry /\ e.type = "server/time"
  BY <1>1 DEF Flight, Entry
<1> HIDE DEF e, x
<1>5. Inserted(n, e)
  BY <1>2, <1>3, <1>4, AppendInserts
<1>6. /\ Cardinality(Times) = p /\ Cardinality(Echoes) \in Nat /\ Cardinality(Replies) = Cardinality(Echoes)
      /\ \A w \in Values : Cardinality(Echoed(w)) = Cardinality(Replied(w)) /\ Cardinality(Echoed(w)) \in Nat
  <2>1. Cardinality(Echoes) \in Nat /\ \A w : Cardinality(Echoed(w)) \in Nat
    BY <1>3, ListsAre, UpToIs
  <2> QED
    BY <2>1 DEF RecorderOK, TimesOK, RepliesOK
<1>7. /\ \A i \in 0 .. n : /\ UpTo(Times', i) = UpTo(Times, i) /\ UpTo(Echoes', i) = UpTo(Echoes, i)
                           /\ \A w : UpTo(Echoed(w)', i) = UpTo(Echoed(w), i)
      /\ Cardinality(Times') = UpTo(Times', n + 1)
      /\ Cardinality(Echoes') = UpTo(Echoes', n + 1)
      /\ \A w : Cardinality(Echoed(w)') = UpTo(Echoed(w)', n + 1)
      /\ Cardinality(Times') = p
      /\ Cardinality(Echoes') = Cardinality(Echoes) + 1
      /\ \A w \in Values : Cardinality(Echoed(w)') = Cardinality(Echoed(w)) + (IF e.value = w THEN 1 ELSE 0)
  BY <1>3, <1>4, <1>5, <1>6, AppendCounts
<1>8. /\ Times' = Times /\ Marks' = Marks
      /\ \A i : i \in Echoes' <=> i \in Echoes \/ i = n + 1
      /\ \A i \in 1 .. n : exchange'[i] = exchange[i]
      /\ exchange'[n + 1] = e
  <2>1. (\A i : i \in Times' <=> i \in Times) /\ (\A i : i \in Marks' <=> i \in Marks)
    BY <1>3, <1>4, <1>5, AppendCounts
  <2> QED
    BY <1>3, <1>4, <1>5, <2>1, AppendCounts
<1>9. exchange' \in Seq(Entry) /\ Len(exchange') = n + 1
  BY <1>5 DEF Inserted
<1>10. /\ done' \in Seq(Sends) /\ DOMAIN done' = 1 .. c + 1 /\ done'[c + 1] = x
       /\ \A d \in 1 .. c : done'[d] = done[d]
       /\ \A d : d \in Replies' <=> d \in Replies \/ d = c + 1
       /\ \A d \in 0 .. c : UpTo(Replies', d) = UpTo(Replies, d) /\ \A v : UpTo(Replied(v)', d) = UpTo(Replied(v), d)
       /\ Cardinality(Replies') = UpTo(Replies', c + 1)
       /\ \A v : Cardinality(Replied(v)') = UpTo(Replied(v)', c + 1)
       /\ Cardinality(Replies') = Cardinality(Replies) + 1
       /\ \A v : Cardinality(Replied(v)') = Cardinality(Replied(v)) + (IF e.value = v THEN 1 ELSE 0)
  <2>1. x \in Sends /\ done' = Append(done, x) /\ x.message = e
    BY <1>1
  <2> QED
    BY <1>3, <1>4, <2>1, DoneCounts
<1> HIDE DEF n, p, c
<1>11. ListsOK'
  <2>1. ASSUME NEW t \in Senders PROVE flight'[t] = Idle \/ Flight(flight'[t], n + 1, p)
    <3>1. CASE t = s
      BY <1>1, <3>1
    <3>2. CASE t # s
      <4>1. flight'[t] = flight[t] /\ (flight[t] = Idle \/ Flight(flight[t], n, p))
        BY <1>1, <1>3, <3>2 DEF ListsOK, n, p
      <4> QED
        BY <1>3, <4>1 DEF Flight
    <3> QED
      BY <3>1, <3>2
  <2>2. Len(reads') = p /\ reads' \in Seq(Values \cup {NotInteger}) /\ overlapped' \in BOOLEAN
    BY <1>1, <1>3 DEF ListsOK, p
  <2> QED
    BY <1>1, <1>9, <1>10, <2>1, <2>2 DEF ListsOK
<1>12. TimesOK'
  <2>1. ASSUME NEW i \in Times PROVE exchange'[i] = ClientTime(reads'[UpTo(Times', i)])
    <3>1. i \in 1 .. n /\ i \in 0 .. n
      BY <1>3
    <3> QED
      BY <1>1, <1>7, <1>8, <3>1 DEF RecorderOK, TimesOK
  <2> QED
    BY <1>1, <1>7, <1>8, <2>1 DEF TimesOK, p
<1>13. RepliesOK'
  <2>1. ASSUME NEW i \in Echoes, NEW d \in Replies, Is(i, d) PROVE Is(i, d)'
    <3>1. i \in 1 .. n /\ i \in 0 .. n /\ d \in 1 .. c /\ d \in 0 .. c
      BY <1>3
    <3> QED
      BY <1>7, <1>8, <1>10, <2>1, <3>1 DEF Is
  <2>2. ASSUME NEW i, NEW d, i = n + 1, d = c + 1 PROVE Is(i, d)'
    <3>1. exchange'[i] = done'[d].message /\ done'[d].ended = UpTo(Times', i)
      BY <1>1, <1>7, <1>8, <1>10, <2>2
    <3>2. UpTo(Replies', d) = UpTo(Echoes', i)
      BY <1>6, <1>7, <1>10, <2>2
    <3>3. ASSUME NEW v \in Values PROVE UpTo(Echoed(v)', i) = UpTo(Replied(v)', d)
      BY <1>6, <1>7, <1>10, <2>2
    <3> QED
      BY <3>1, <3>2, <3>3 DEF Is
  <2>3. \A i \in Echoes' : \E d \in Replies' : Is(i, d)'
    <3> TAKE i \in Echoes'
    <3>1. CASE i \in Echoes
      BY <1>10, <2>1, <3>1 DEF RecorderOK, RepliesOK
    <3>2. CASE i = n + 1
      <4>1. PICK d : d = c + 1
        OBVIOUS
      <4> QED
        BY <1>10, <2>2, <3>2, <4>1
    <3> QED
      BY <1>8, <3>1, <3>2
  <2> QED
    BY <1>6, <1>7, <1>10, <2>3 DEF RepliesOK
<1>14. ASSUME NEW t \in Senders, flight'[t].type = "other-sent"
       PROVE  flight'[t] = flight[t] /\ UpTo(Times', flight[t].began_at) = UpTo(Times, flight[t].began_at)
  BY <1>1, <1>7, <1>14
<1>15. \A m \in Marks : UpTo(Times', m) = UpTo(Times, m)
  BY <1>3, <1>7
<1>16. \A d : d \in DOMAIN done' \ Replies' <=> d \in DOMAIN done \ Replies
  BY <1>3, <1>10
<1>17. \A d \in DOMAIN done \ Replies : done'[d] = done[d]
  BY <1>3, <1>10
<1>18. MarksOK'
  BY <1>8, <1>14, <1>15, <1>16, <1>17 DEF RecorderOK, MarksOK
<1>19. AloneOK'
  <2> SUFFICES ASSUME ~overlapped' PROVE Alone'
    BY DEF AloneOK
  <2>1. Alone
    BY <1>1 DEF RecorderOK, AloneOK
  <2> QED
    BY <1>1, <1>8, <1>14, <1>15, <1>16, <1>17, <2>1 DEF Alone
<1> QED
  BY <1>11, <1>12, <1>13, <1>18, <1>19 DEF RecorderOK

\* What a completed send that is no reply adds: nothing about the replies.
LEMMA OtherIsDone ==
    ASSUME RecorderOK, NEW s \in Senders, EndSend(s), flight[s].type = "other-sent"
    PROVE  LET c == Len(done)
           IN  /\ c \in Nat /\ done' \in Seq(Sends) /\ DOMAIN done' = 1 .. c + 1 /\ DOMAIN done = 1 .. c
               /\ \A d \in 1 .. c : done'[d] = done[d]
               /\ Replies' = Replies /\ Replies \in SUBSET (1 .. c) /\ c + 1 \notin Replies
               /\ done'[c + 1].began = flight[s].began
               /\ \A d \in Replies : UpTo(Replies', d) = UpTo(Replies, d) /\ \A v : UpTo(Replied(v)', d) = UpTo(Replied(v), d)
               /\ Cardinality(Replies') = Cardinality(Replies)
               /\ \A v : Cardinality(Replied(v)') = Cardinality(Replied(v))
<1> DEFINE c == Len(done)
           x == [message |-> flight[s].message, began |-> flight[s].began, ended |-> Len(reads)]
<1>1. x \in Sends /\ done' = Append(done, x) /\ x.message = flight[s].message /\ x.began = flight[s].began
      /\ flight[s].message.type = "other-sent"
  BY EndSendIs DEF Flight
<1>2. ListsOK /\ c \in Nat /\ DOMAIN done = 1 .. c /\ Replies \in SUBSET (1 .. c) /\ \A v : Cardinality(Replied(v)) \in Nat
  BY ListsAre, UpToIs DEF RecorderOK
<1>3. Cardinality(Replies) \in Nat /\ c + 1 \notin 1 .. c
  BY <1>2, UpToIs
<1> HIDE DEF x
<1>4. /\ done' \in Seq(Sends) /\ DOMAIN done' = 1 .. c + 1 /\ done'[c + 1] = x
      /\ \A d \in 1 .. c : done'[d] = done[d]
      /\ \A d : d \in Replies' <=> d \in Replies \/ (d = c + 1 /\ x.message.type = "server/time")
      /\ \A d \in 0 .. c : UpTo(Replies', d) = UpTo(Replies, d) /\ \A v : UpTo(Replied(v)', d) = UpTo(Replied(v), d)
      /\ Cardinality(Replies') = Cardinality(Replies) + (IF x.message.type = "server/time" THEN 1 ELSE 0)
      /\ \A v : Cardinality(Replied(v)') = Cardinality(Replied(v))
                         + (IF x.message.type = "server/time" /\ x.message.value = v THEN 1 ELSE 0)
  BY <1>1, <1>2, DoneCounts
<1>5. x.message.type # "server/time"
  BY <1>1
<1>6. Replies' = Replies
  BY <1>4, <1>5
<1>7. Cardinality(Replies') = Cardinality(Replies) /\ \A v : Cardinality(Replied(v)') = Cardinality(Replied(v))
  BY <1>2, <1>3, <1>4, <1>5
<1>8. \A d \in Replies : d \in 0 .. c
  BY <1>2
<1> QED
  BY <1>1, <1>2, <1>3, <1>4, <1>6, <1>7, <1>8

LEMMA EndOtherLists ==
    ASSUME RecorderOK, NEW s \in Senders, EndSend(s), flight[s].type = "other-sent",
           exchange' \in Seq(Entry), Len(exchange') \in Nat, Len(exchange) <= Len(exchange')
    PROVE  ListsOK'
<1> DEFINE n == Len(exchange)
           p == Len(reads)
           k == Len(exchange')
<1>1. /\ UNCHANGED <<reads, overlapped>>
      /\ flight' = [t \in Senders |-> flight'[t]]
      /\ \A t \in Senders : flight'[t] = IF t = s THEN Idle ELSE flight[t]
  BY EndSendIs
<1>2. ListsOK /\ n \in Nat /\ p \in Nat
  BY ListsAre DEF RecorderOK
<1>3. done' \in Seq(Sends)
  BY OtherIsDone
<1>4. reads' \in Seq(Values \cup {NotInteger}) /\ overlapped' \in BOOLEAN /\ Len(reads') = p
  BY <1>1, <1>2 DEF ListsOK
<1> HIDE DEF n, p, k
<1>5. ASSUME NEW t \in Senders PROVE flight'[t] = Idle \/ Flight(flight'[t], k, p)
    <3>1. CASE t = s
      BY <1>1, <3>1
    <3>2. CASE t # s
      <4>1. flight'[t] = flight[t] /\ (flight[t] = Idle \/ Flight(flight[t], n, p))
        BY <1>1, <1>2, <3>2 DEF ListsOK, n, p
      <4>2. k \in Nat /\ n <= k
        BY DEF n, k
      <4> QED
        BY <1>2, <4>1, <4>2 DEF Flight
    <3> QED
      BY <3>1, <3>2
<1> QED
  BY <1>1, <1>3, <1>4, <1>5 DEF ListsOK, k

\* The list holds a mark already where the send began.
LEMMA EndUnmarkedKeeps ==
    ASSUME RecorderOK, NEW s \in Senders, EndSend(s), flight[s].type = "other-sent",
           exchange' = exchange,
           flight[s].began_at = 0 \/ \E i \in DOMAIN exchange : i \in flight[s].began_at .. flight[s].began_at + 1 /\ exchange[i] = OtherSent
    PROVE  RecorderOK'
<1> DEFINE n == Len(exchange)
           c == Len(done)
           f == flight[s]
<1>1. /\ UNCHANGED <<reads, overlapped>>
      /\ Flight(f, n, Len(reads))
      /\ \A t \in Senders : flight'[t].type = "other-sent" => t # s /\ flight'[t] = flight[t]
      /\ InFlight' \in SUBSET InFlight /\ s \in InFlight
  BY EndSendIs
<1>2. ListsOK /\ n \in Nat /\ Times \in SUBSET (1 .. n) /\ Echoes \in SUBSET (1 .. n) /\ Marks \in SUBSET (1 .. n) /\ DOMAIN exchange = 1 .. n
  BY ListsAre DEF RecorderOK
<1>3. /\ c \in Nat /\ done' \in Seq(Sends) /\ DOMAIN done' = 1 .. c + 1 /\ DOMAIN done = 1 .. c
      /\ \A d \in 1 .. c : done'[d] = done[d]
      /\ Replies' = Replies /\ Replies \in SUBSET (1 .. c) /\ c + 1 \notin Replies
      /\ done'[c + 1].began = flight[s].began
      /\ \A d \in Replies : UpTo(Replies', d) = UpTo(Replies, d) /\ \A v : UpTo(Replied(v)', d) = UpTo(Replied(v), d)
      /\ Cardinality(Replies') = Cardinality(Replies)
      /\ \A v : Cardinality(Replied(v)') = Cardinality(Replied(v))
  BY OtherIsDone
<1>4. Times' = Times /\ Echoes' = Echoes /\ Marks' = Marks /\ \A v : Echoed(v)' = Echoed(v)
  BY SameLists
<1>5. ListsOK'
  <2>1. exchange' \in Seq(Entry) /\ Len(exchange') \in Nat /\ Len(exchange) <= Len(exchange')
    BY <1>2 DEF ListsOK
  <2> QED
    BY <2>1, EndOtherLists
<1> HIDE DEF n, c
<1>6. TimesOK'
  BY <1>1, <1>4 DEF RecorderOK, TimesOK
<1>7. RepliesOK'
  <2>1. ASSUME NEW i, NEW d \in Replies, Is(i, d) PROVE Is(i, d)'
    <3>1. d \in 1 .. c
      BY <1>3
    <3> QED
      BY <1>3, <1>4, <2>1, <3>1 DEF Is
  <2> QED
    BY <1>3, <1>4, <2>1 DEF RecorderOK, RepliesOK
<1>8. \A d \in DOMAIN done \ Replies : d \in DOMAIN done' \ Replies' /\ done'[d] = done[d]
  BY <1>3
<1>9. MarksOK'
  BY <1>1, <1>4, <1>8 DEF RecorderOK, MarksOK
<1>10. AloneOK'
  <2> SUFFICES ASSUME ~overlapped' PROVE Alone'
    BY DEF AloneOK
  <2>1. Alone
    BY <1>1 DEF RecorderOK, AloneOK
  <2>2. ASSUME f.began # 0 PROVE \E m \in Marks : UpTo(Times, m) >= f.began
    <3>1. UpTo(Times, f.began_at) = f.began /\ f.began_at \in Nat
      BY <1>1, <1>2, <2>1 DEF Alone, Flight
    <3>2. f.began_at # 0
      BY <1>2, <2>2, <3>1, UpToIs
    <3>3. PICK i \in DOMAIN exchange : i \in f.began_at .. f.began_at + 1 /\ exchange[i] = OtherSent
      BY <3>2
    <3>4. i \in Nat /\ f.began_at <= i
      BY <1>2, <3>1, <3>3
    <3>5. UpTo(Times, f.began_at) <= UpTo(Times, i)
      BY <1>2, <3>1, <3>4, UpToGrows
    <3>6. i \in Marks
      BY <3>3, EntryIs DEF Marks, Recorded
    <3>7. UpTo(Times, i) \in Nat /\ f.began \in Nat
      BY <1>2, <3>1, UpToIs
    <3> QED
      BY <3>1, <3>5, <3>6, <3>7
  <2>3. ASSUME NEW d \in DOMAIN done' \ Replies', done'[d].began # 0 PROVE \E m \in Marks' : UpTo(Times', m) >= done'[d].began
    <3>1. CASE d = c + 1
      BY <1>3, <1>4, <2>2, <2>3, <3>1
    <3>2. CASE d \in 1 .. c
      BY <1>3, <1>4, <2>1, <2>3, <3>2 DEF Alone
    <3>3. d = c + 1 \/ d \in 1 .. c
      BY <1>3
    <3> QED
      BY <3>1, <3>2, <3>3
  <2> QED
    BY <1>1, <1>4, <2>1, <2>3 DEF Alone
<1> QED
  BY <1>5, <1>6, <1>7, <1>9, <1>10 DEF RecorderOK

\* A mark goes in after the first k entries.
LEMMA EndMarkedKeeps ==
    ASSUME RecorderOK, NEW s \in Senders, EndSend(s), flight[s].type = "other-sent",
           flight[s].began_at # 0, exchange' = InsertAt(exchange, flight[s].began_at + 1, OtherSent),
           ~ \E i \in DOMAIN exchange : i \in flight[s].began_at .. flight[s].began_at + 1 /\ exchange[i] = OtherSent
    PROVE  RecorderOK'
<1> DEFINE n == Len(exchange)
           c == Len(done)
           f == flight[s]
           k == f.began_at
<1>1. /\ UNCHANGED <<reads, overlapped>>
      /\ Flight(f, n, Len(reads))
      /\ \A t \in Senders : flight'[t].type = "other-sent" => t # s /\ flight'[t] = flight[t] /\ flight[t].began_at \in 0 .. n
      /\ InFlight' \in SUBSET InFlight /\ s \in InFlight /\ s \notin InFlight'
  BY EndSendIs
<1>2. ListsOK /\ n \in Nat /\ Times \in SUBSET (1 .. n) /\ Echoes \in SUBSET (1 .. n) /\ Marks \in SUBSET (1 .. n) /\ DOMAIN exchange = 1 .. n
  BY ListsAre DEF RecorderOK
<1>3. /\ c \in Nat /\ done' \in Seq(Sends) /\ DOMAIN done' = 1 .. c + 1 /\ DOMAIN done = 1 .. c
      /\ \A d \in 1 .. c : done'[d] = done[d]
      /\ Replies' = Replies /\ Replies \in SUBSET (1 .. c) /\ c + 1 \notin Replies
      /\ done'[c + 1].began = flight[s].began
      /\ \A d \in Replies : UpTo(Replies', d) = UpTo(Replies, d) /\ \A v : UpTo(Replied(v)', d) = UpTo(Replied(v), d)
      /\ Cardinality(Replies') = Cardinality(Replies)
      /\ \A v : Cardinality(Replied(v)') = Cardinality(Replied(v))
  BY OtherIsDone
<1>4. k \in 1 .. n /\ k \in Nat /\ f.began \in Nat
  BY <1>1, <1>2, ListsAre DEF Flight
<1>5. Inserted(k, OtherSent)
  <2>1. \A j \in 1 .. Len(exchange) : exchange' = InsertAt(exchange, j + 1, OtherSent) => Inserted(j, OtherSent)
    BY <1>2, MarkInserts
  <2> QED
    BY <1>4, <2>1
<1>6. /\ \A i \in 0 .. n + 1 : /\ Old(k, i) \in 0 .. n
                               /\ UpTo(Times', i) = UpTo(Times, Old(k, i)) /\ UpTo(Echoes', i) = UpTo(Echoes, Old(k, i))
                               /\ \A v : UpTo(Echoed(v)', i) = UpTo(Echoed(v), Old(k, i))
      /\ Cardinality(Times') = Cardinality(Times) /\ Cardinality(Echoes') = Cardinality(Echoes)
      /\ \A v : Cardinality(Echoed(v)') = Cardinality(Echoed(v))
      /\ \A i \in Times' : i \in 1 .. n + 1 /\ Old(k, i) \in Times /\ exchange'[i] = exchange[Old(k, i)]
      /\ \A i \in Echoes' : i \in 1 .. n + 1 /\ Old(k, i) \in Echoes /\ exchange'[i] = exchange[Old(k, i)]
      /\ \A i \in Marks' : i \in 1 .. n + 1 /\ (i = k + 1 \/ (i # k + 1 /\ Old(k, i) \in Marks))
      /\ k + 1 \in Marks' /\ Old(k, k + 1) = k
      /\ \A i \in Marks : \E j \in Marks' : Old(k, j) = i
  <2> HIDE DEF k
  <2> QED
    BY <1>2, <1>4, <1>5, MarkCounts
<1> HIDE DEF k, f
<1>7. ListsOK'
  <2>1. exchange' \in Seq(Entry) /\ Len(exchange') \in Nat /\ Len(exchange) <= Len(exchange')
    BY <1>2, <1>5 DEF Inserted
  <2> QED
    BY <2>1, EndOtherLists
<1> HIDE DEF n, c
<1>8. \A i \in 1 .. n + 1 : i \in 0 .. n + 1
  BY <1>2
<1>9. TimesOK'
  <2>1. ASSUME NEW i \in Times' PROVE exchange'[i] = ClientTime(reads'[UpTo(Times', i)])
    BY <1>1, <1>6, <1>8 DEF RecorderOK, TimesOK
  <2> QED
    BY <1>1, <1>6, <2>1 DEF RecorderOK, TimesOK
<1>10. RepliesOK'
  <2>1. ASSUME NEW i \in Echoes', NEW o \in Echoes, o = Old(k, i), NEW d \in Replies, Is(o, d) PROVE Is(i, d)'
    <3>1. d \in 1 .. c
      BY <1>3
    <3> QED
      BY <1>3, <1>6, <1>8, <2>1, <3>1 DEF Is
  <2>2. ASSUME NEW i \in Echoes' PROVE \E d \in Replies' : Is(i, d)'
    <3>1. PICK o \in Echoes : o = Old(k, i)
      BY <1>6
    <3> QED
      BY <1>3, <2>1, <3>1 DEF RecorderOK, RepliesOK
  <2> QED
    BY <1>3, <1>6, <2>2 DEF RecorderOK, RepliesOK
<1>11. \A d \in DOMAIN done \ Replies : d \in DOMAIN done' \ Replies' /\ done'[d] = done[d]
  BY <1>3
<1>12. c + 1 \in DOMAIN done' \ Replies' /\ done'[c + 1].began = f.began
  BY <1>3 DEF f
<1>13. UpTo(Times', k + 1) = UpTo(Times, k) /\ k + 1 \in 0 .. n + 1
  BY <1>2, <1>4, <1>6
<1>14. \A i \in Marks' : i = k + 1 \/ (i # k + 1 /\ Old(k, i) \in Marks /\ UpTo(Times', i) = UpTo(Times, Old(k, i)))
  BY <1>6, <1>8
<1>15. ~(k \in Marks) /\ ~(k + 1 \in Marks)
  <2>1. \A i \in Marks : i \in DOMAIN exchange /\ exchange[i] = OtherSent
    BY <1>2, ListsAre, EntryIs DEF Marks, Recorded
  <2>2. k \in k .. k + 1 /\ k + 1 \in k .. k + 1
    BY <1>4
  <2> QED
    BY <2>1, <2>2 DEF k, f
<1>16. ASSUME NEW t \in Senders, flight'[t].type = "other-sent"
       PROVE  UpTo(Times', flight'[t].began_at) <= flight'[t].began
  <2> DEFINE b == flight[t].began_at
  <2>1. flight'[t] = flight[t] /\ b \in 0 .. n /\ UpTo(Times, b) <= flight[t].began /\ flight[t].type = "other-sent"
    BY <1>1, <1>16 DEF RecorderOK, MarksOK
  <2> HIDE DEF b
  <2>2. Old(k, b) \in Nat /\ Old(k, b) <= b /\ b \in Nat /\ b \in 0 .. n + 1
    BY <1>2, <1>4, <2>1 DEF Old
  <2>3. UpTo(Times, Old(k, b)) <= UpTo(Times, b) /\ UpTo(Times, b) \in Nat /\ UpTo(Times, Old(k, b)) \in Nat
    BY <1>2, <2>2, UpToGrows, UpToIs
  <2>4. flight[t].began \in Nat
    <3>1. Flight(flight[t], Len(exchange), Len(reads))
      BY <1>2, <2>1, EntryIs DEF ListsOK
    <3> QED
      BY <1>2, <3>1, ListsAre DEF Flight
  <2>5. UpTo(Times', b) = UpTo(Times, Old(k, b))
    BY <1>6, <2>2
  <2> QED
    BY <2>1, <2>3, <2>4, <2>5 DEF b
<1>17. \A i \in Marks' : i + 1 \notin Marks'
  <2> SUFFICES ASSUME NEW i \in Marks', i + 1 \in Marks' PROVE FALSE
    OBVIOUS
  <2>1. i \in Nat /\ i \in 1 .. n + 1
    BY <1>2, <1>6
  <2>2. \A j \in Marks : j + 1 \notin Marks
    BY DEF RecorderOK, MarksOK
  <2>3. CASE i < k
    <3>1. Old(k, i) = i /\ Old(k, i + 1) = i + 1 /\ i # k + 1 /\ i + 1 # k + 1
      BY <1>4, <2>1, <2>3 DEF Old
    <3> QED
      BY <1>14, <2>2, <3>1
  <2>4. CASE i = k
    <3>1. Old(k, i) = k /\ i # k + 1
      BY <1>4, <2>4 DEF Old
    <3> QED
      BY <1>14, <1>15, <3>1
  <2>5. CASE i = k + 1
    <3>1. Old(k, i + 1) = k + 1 /\ i + 1 # k + 1
      BY <1>4, <2>5 DEF Old
    <3> QED
      BY <1>14, <1>15, <3>1
  <2>6. CASE i > k + 1
    <3>1. Old(k, i) = i - 1 /\ Old(k, i + 1) = (i - 1) + 1 /\ i # k + 1 /\ i + 1 # k + 1
      BY <1>4, <2>1, <2>6 DEF Old
    <3> QED
      BY <1>14, <2>2, <3>1
  <2> QED
    BY <1>4, <2>1, <2>3, <2>4, <2>5, <2>6
<1>18. MarksOK'
  <2>1. ASSUME NEW m \in Marks' PROVE \E d \in DOMAIN done' \ Replies' : UpTo(Times', m) <= done'[d].began
    <3>1. CASE m = k + 1
      <4>1. UpTo(Times, k) <= f.began
        BY DEF RecorderOK, MarksOK, k, f
      <4> QED
        BY <1>12, <1>13, <3>1, <4>1
    <3>2. CASE m # k + 1
      <4>1. PICK d \in DOMAIN done \ Replies : UpTo(Times, Old(k, m)) <= done[d].began
        BY <1>14, <3>2 DEF RecorderOK, MarksOK
      <4> QED
        BY <1>11, <1>14, <3>2, <4>1
    <3> QED
      BY <3>1, <3>2
  <2> QED
    BY <1>16, <1>17, <2>1 DEF MarksOK
<1>19. AloneOK'
  <2> SUFFICES ASSUME ~overlapped' PROVE Alone'
    BY DEF AloneOK
  <2>1. Alone
    BY <1>1 DEF RecorderOK, AloneOK
  <2>2. InFlight' = {}
    BY <1>1, <2>1 DEF Alone
  <2>3. \A t \in Senders : flight'[t].type # "other-sent"
    BY <2>2, EntryIs DEF InFlight
  <2>4. ASSUME NEW d \in DOMAIN done' \ Replies', done'[d].began # 0 PROVE \E m \in Marks' : UpTo(Times', m) >= done'[d].began
    <3>1. CASE d = c + 1
      <4>1. UpTo(Times, k) = f.began
        BY <2>1 DEF Alone, k, f
      <4>2. k + 1 \in Marks' /\ UpTo(Times', k + 1) >= f.began
        BY <1>4, <1>6, <1>13, <4>1
      <4> QED
        BY <1>12, <3>1, <4>2
    <3>2. CASE d \in 1 .. c
      <4>1. done'[d] = done[d] /\ d \in DOMAIN done \ Replies
        BY <1>3, <3>2
      <4>2. PICK m \in Marks : UpTo(Times, m) >= done[d].began
        BY <2>1, <2>4, <4>1 DEF Alone
      <4>3. PICK j \in Marks' : Old(k, j) = m
        BY <1>6
      <4>4. UpTo(Times', j) = UpTo(Times, m)
        BY <1>6, <1>8, <4>3
      <4> QED
        BY <4>1, <4>2, <4>4
    <3>3. d = c + 1 \/ d \in 1 .. c
      BY <1>3
    <3> QED
      BY <3>1, <3>2, <3>3
  <2> QED
    BY <2>2, <2>3, <2>4 DEF Alone
<1> QED
  BY <1>7, <1>9, <1>10, <1>18, <1>19 DEF RecorderOK

LEMMA TimeInitOK == TimeInit => RecorderOK
<1> SUFFICES ASSUME TimeInit PROVE RecorderOK
  OBVIOUS
<1>1. /\ exchange = <<>> /\ reads = <<>> /\ done = <<>>
      /\ flight = [s \in Senders |-> Idle] /\ overlapped = FALSE
  BY DEF TimeInit
<1>2. Times = {} /\ Echoes = {} /\ Marks = {} /\ Replies = {} /\ \A v : Echoed(v) = {} /\ Replied(v) = {}
  BY <1>1 DEF Times, Echoes, Marks, Recorded, Replies, Echoed, Replied
<1>3. Cardinality({}) = 0 /\ Len(reads) = 0 /\ DOMAIN done = {} /\ InFlight = {}
  BY <1>1, FS_EmptySet DEF InFlight
<1>4. \A s \in Senders : flight[s] = Idle /\ flight[s].type = "idle"
  BY <1>1, EntryIs
<1>5. ListsOK
  <2>1. \A T : <<>> \in Seq(T)
    OBVIOUS
  <2>2. exchange \in Seq(Entry) /\ reads \in Seq(Values \cup {NotInteger}) /\ done \in Seq(Sends)
    BY <1>1, <2>1
  <2>3. flight = [s \in Senders |-> flight[s]]
    BY <1>1
  <2> QED
    BY <1>1, <1>4, <2>2, <2>3 DEF ListsOK
<1>6. TimesOK /\ RepliesOK
  BY <1>2, <1>3 DEF TimesOK, RepliesOK
<1>7. MarksOK /\ AloneOK
  BY <1>2, <1>3, <1>4 DEF MarksOK, AloneOK, Alone
<1> QED
  BY <1>5, <1>6, <1>7 DEF RecorderOK

LEMMA EndSendKeeps ==
    ASSUME RecorderOK, NEW s \in Senders, EndSend(s)
    PROVE  RecorderOK'
<1> DEFINE f == flight[s]
<1>1. f.type \in {"server/time", "other-sent"}
  <2>1. Flight(f, Len(exchange), Len(reads))
    BY EndSendIs
  <2> QED
    BY <2>1, EntryIs DEF Flight
<1>2. CASE f.type = "server/time"
  BY <1>2, EndReplyKeeps
<1>3. CASE f.type = "other-sent"
  <2>1. exchange' = RecordOtherSent(exchange, f.began_at)
    BY <1>3 DEF EndSend
  <2> DEFINE marked == \E i \in DOMAIN exchange : i \in flight[s].began_at .. flight[s].began_at + 1 /\ exchange[i] = OtherSent
  <2>2. exchange' = IF f.began_at = 0 \/ marked THEN exchange ELSE InsertAt(exchange, f.began_at + 1, OtherSent)
    BY <2>1 DEF RecordOtherSent
  <2>3. CASE f.began_at = 0 \/ marked
    BY <1>3, <2>2, <2>3, EndUnmarkedKeeps
  <2>4. CASE ~(f.began_at = 0 \/ marked)
    BY <1>3, <2>2, <2>4, EndMarkedKeeps
  <2> QED
    BY <2>3, <2>4
<1> QED
  BY <1>1, <1>2, <1>3

LEMMA SendRaisesKeeps ==
    ASSUME RecorderOK, NEW s \in Senders, SendRaises(s)
    PROVE  RecorderOK'
<1>1. flight = [t \in Senders |-> flight[t]]
  BY DEF RecorderOK, ListsOK
<1>2. UNCHANGED <<exchange, reads, done, overlapped>> /\ flight' = [flight EXCEPT ![s] = Idle]
  BY DEF SendRaises
<1>3. flight' = [t \in Senders |-> flight'[t]] /\ \A t \in Senders : flight'[t] = flight[t] \/ flight'[t] = Idle
  BY <1>1, <1>2
<1> QED
  BY <1>2, <1>3, FewerFlights

LEMMA DisconnectKeeps ==
    ASSUME RecorderOK, Disconnect
    PROVE  RecorderOK'
<1>1. UNCHANGED <<exchange, reads, done, overlapped>> /\ flight' = [s \in Senders |-> Idle]
  BY DEF Disconnect
<1>2. flight' = [t \in Senders |-> flight'[t]] /\ \A t \in Senders : flight'[t] = flight[t] \/ flight'[t] = Idle
  BY <1>1
<1> QED
  BY <1>1, <1>2, FewerFlights

LEMMA StandsStill ==
    ASSUME RecorderOK, UNCHANGED timevars
    PROVE  RecorderOK'
<1>1. UNCHANGED <<exchange, flight, reads, done, overlapped>>
  BY DEF timevars
<1>2. flight' = [t \in Senders |-> flight'[t]] /\ \A t \in Senders : flight'[t] = flight[t] \/ flight'[t] = Idle
  BY <1>1 DEF RecorderOK, ListsOK
<1> QED
  BY <1>1, <1>2, FewerFlights

LEMMA TimeNextKeeps == RecorderOK /\ TimeNext => RecorderOK'
<1> SUFFICES ASSUME RecorderOK, TimeNext PROVE RecorderOK'
  OBVIOUS
<1>1. ASSUME NEW v \in Values \cup {NotInteger}, ReadClientTime(v) PROVE RecorderOK'
  BY <1>1, ReadKeeps
<1>2. ASSUME NEW s \in Senders, NEW m \in Messages, BeginSend(s, m) PROVE RecorderOK'
  BY <1>2, BeginSendKeeps
<1>3. ASSUME NEW s \in Senders, EndSend(s) PROVE RecorderOK'
  BY <1>3, EndSendKeeps
<1>4. ASSUME NEW s \in Senders, SendRaises(s) PROVE RecorderOK'
  BY <1>4, SendRaisesKeeps
<1>5. CASE Over
  BY <1>5, StandsStill DEF Over
<1> QED
  BY <1>1, <1>2, <1>3, <1>4, <1>5 DEF TimeNext

-----------------------------------------------------------------------------
(* Each step of the SDK keeps its own part of the invariant.               *)

LEMMA ReplyIs ==
    \A v \in Values : Reply(v) \in Messages /\ Reply(v).type = "server/time" /\ Reply(v).value = v /\ Reply(v).backwards = FALSE
BY DEF Reply, Messages

LEMMA CountsAre ==
    ASSUME RecorderOK
    PROVE  /\ Len(exchange) \in Nat /\ Len(reads) \in Nat
           /\ Times \in SUBSET (1 .. Len(exchange)) /\ Echoes \in SUBSET (1 .. Len(exchange)) /\ Marks \in SUBSET (1 .. Len(exchange))
           /\ Cardinality(Times) = Len(reads) /\ Cardinality(Echoes) \in Nat
           /\ DOMAIN reads = 1 .. Len(reads)
           /\ \A n : UpTo(Times, n) \in Nat /\ UpTo(Times, n) <= Len(reads)
           /\ \A n : UpTo(Echoes, n) \in Nat /\ UpTo(Echoes, n) <= Cardinality(Echoes)
           /\ UpTo(Times, Len(exchange)) = Len(reads) /\ UpTo(Echoes, Len(exchange)) = Cardinality(Echoes)
           /\ \A i \in Echoes : UpTo(Echoes, i) \in 1 .. Cardinality(Echoes)
<1>1. ListsOK /\ Cardinality(Times) = Len(reads)
  BY DEF RecorderOK, TimesOK
<1>2. /\ Len(exchange) \in Nat /\ Len(reads) \in Nat
      /\ Times \in SUBSET (1 .. Len(exchange)) /\ Echoes \in SUBSET (1 .. Len(exchange)) /\ Marks \in SUBSET (1 .. Len(exchange))
      /\ DOMAIN reads = 1 .. Len(reads)
  BY <1>1, ListsAre
<1>3. /\ \A n : UpTo(Times, n) \in Nat /\ UpTo(Times, n) <= Cardinality(Times)
      /\ UpTo(Times, Len(exchange)) = Cardinality(Times)
  BY <1>2, UpToIs
<1>4. /\ \A n : UpTo(Echoes, n) \in Nat /\ UpTo(Echoes, n) <= Cardinality(Echoes)
      /\ UpTo(Echoes, Len(exchange)) = Cardinality(Echoes) /\ Cardinality(Echoes) \in Nat
  BY <1>2, UpToIs
<1>5. \A i \in Echoes : UpTo(Echoes, i) \in 1 .. Cardinality(Echoes)
  BY <1>2, UpToAt
<1> QED
  BY <1>1, <1>2, <1>3, <1>4, <1>5

LEMMA SdkInitOK == SdkInit => SdkOK
<1> SUFFICES ASSUME SdkInit PROVE SdkOK
  OBVIOUS
<1>1. exchange = <<>> /\ reads = <<>> /\ flight = [s \in Senders |-> Idle] /\ priority_messages = <<>> /\ open = TRUE
  BY DEF SdkInit, TimeInit
<1>2. Times = {} /\ Echoes = {} /\ Marks = {}
  BY <1>1 DEF Times, Echoes, Marks, Recorded
<1>3. Cardinality({}) = 0 /\ Len(reads) = 0 /\ DOMAIN reads = {} /\ InFlight = {} /\ DOMAIN priority_messages = {}
  BY <1>1, FS_EmptySet DEF InFlight
<1>4. \A s \in Senders : flight[s].type = "idle"
  BY <1>1, EntryIs
<1>5. SdkListOK
  BY <1>2, <1>3 DEF SdkListOK
<1>6. SdkFlightOK
  BY <1>1, <1>3, <1>4 DEF SdkFlightOK
<1>7. SdkQueueOK
  <2>1. ~Replying
    BY <1>4 DEF Replying
  <2>2. Queued(0)
    BY <1>1, <1>3 DEF Queued
  <2> QED
    BY <1>2, <1>3, <2>1, <2>2 DEF SdkQueueOK
<1> QED
  BY <1>5, <1>6, <1>7 DEF SdkOK

\* A client/time is received: the reply to it joins the queue.
LEMMA QueueGrows ==
    ASSUME NEW n \in Nat, n <= Len(reads), Queued(n), Len(reads) \in Nat, Len(reads') = Len(reads) + 1,
           priority_messages' = Append(priority_messages, Len(reads) + 1)
    PROVE  Queued(n)'
<1> DEFINE q == priority_messages
           p == Len(reads)
           l == Len(priority_messages)
<1>1. q \in Seq(Nat) /\ l \in Nat /\ DOMAIN q = 1 .. l /\ p + 1 \in Nat
  BY DEF Queued
<1>2. q' \in Seq(Nat) /\ DOMAIN q' = 1 .. l + 1 /\ q'[l + 1] = p + 1 /\ \A i \in 1 .. l : q'[i] = q[i]
  BY <1>1
<1>3. \A i \in 1 .. l + 1 : i \in 1 .. l \/ i = l + 1
  BY <1>1
<1>4. /\ \A i \in 1 .. l : q[i] # Another => q[i] \in n + 1 .. p
      /\ \A i, k \in 1 .. l : i < k /\ q[i] # Another /\ q[k] # Another => q[i] < q[k]
      /\ \A r \in n + 1 .. p : \E i \in 1 .. l : q[i] = r
  BY <1>1 DEF Queued
<1> HIDE DEF q, p, l
<1>5. \A i \in 1 .. l + 1 : q'[i] # Another => q'[i] \in n + 1 .. p + 1
  BY <1>1, <1>2, <1>3, <1>4 DEF p
<1>6. \A i, k \in 1 .. l + 1 : i < k /\ q'[i] # Another /\ q'[k] # Another => q'[i] < q'[k]
  <2> SUFFICES ASSUME NEW i \in 1 .. l + 1, NEW k \in 1 .. l + 1, i < k, q'[i] # Another, q'[k] # Another
               PROVE  q'[i] < q'[k]
    OBVIOUS
  <2>1. i \in 1 .. l
    BY <1>1
  <2>2. CASE k \in 1 .. l
    BY <1>2, <1>4, <2>1, <2>2
  <2>3. CASE k = l + 1
    <3>1. q[i] \in n + 1 .. p /\ q'[i] = q[i]
      BY <1>2, <1>4, <2>1
    <3> QED
      BY <1>2, <2>3, <3>1 DEF p
  <2> QED
    BY <1>3, <2>2, <2>3
<1>7. \A r \in n + 1 .. p + 1 : \E i \in 1 .. l + 1 : q'[i] = r
  <2> TAKE r \in n + 1 .. p + 1
  <2>1. CASE r = p + 1
    <3>1. l + 1 \in 1 .. l + 1
      BY <1>1
    <3> QED
      BY <1>2, <2>1, <3>1
  <2>2. CASE r \in n + 1 .. p
    <3>1. PICK i \in 1 .. l : q[i] = r
      BY <1>4, <2>2
    <3>2. i \in 1 .. l + 1
      BY <1>1
    <3> QED
      BY <1>2, <3>1, <3>2
  <2> QED
    BY <2>1, <2>2 DEF p
<1> QED
  BY <1>2, <1>5, <1>6, <1>7 DEF Queued, q, p

\* Another message is queued, at the end.
LEMMA QueueGrowsByAnother ==
    ASSUME NEW n \in Nat, Queued(n), UNCHANGED reads, Len(reads) \in Nat,
           priority_messages' = Append(priority_messages, Another)
    PROVE  Queued(n)'
<1> DEFINE q == priority_messages
           l == Len(priority_messages)
<1>1. q \in Seq(Nat) /\ l \in Nat /\ DOMAIN q = 1 .. l /\ Another \in Nat
  BY DEF Queued, Another
<1>2. q' \in Seq(Nat) /\ DOMAIN q' = 1 .. l + 1 /\ q'[l + 1] = Another /\ \A i \in 1 .. l : q'[i] = q[i]
  BY <1>1
<1>3. \A i \in 1 .. l + 1 : i \in 1 .. l \/ i = l + 1
  BY <1>1
<1>4. \A i \in 1 .. l : i \in 1 .. l + 1
  BY <1>1
<1> QED
  BY <1>1, <1>2, <1>3, <1>4 DEF Queued

\* Another message is queued, ahead of the rest.
LEMMA QueuePushed ==
    ASSUME NEW n \in Nat, Queued(n), UNCHANGED reads, Len(reads) \in Nat,
           priority_messages' = <<Another>> \o priority_messages
    PROVE  Queued(n)'
<1> DEFINE q == priority_messages
           l == Len(priority_messages)
<1>1. q \in Seq(Nat) /\ l \in Nat /\ DOMAIN q = 1 .. l /\ Another \in Nat
  BY DEF Queued, Another
<1>2. q' \in Seq(Nat) /\ DOMAIN q' = 1 .. l + 1 /\ q'[1] = Another /\ \A i \in 2 .. l + 1 : q'[i] = q[i - 1]
  BY <1>1
<1>3. \A i \in 1 .. l + 1 : i = 1 \/ (i \in 2 .. l + 1 /\ i - 1 \in 1 .. l)
  BY <1>1
<1>4. /\ \A i \in 1 .. l : q[i] # Another => q[i] \in n + 1 .. Len(reads)
      /\ \A i, k \in 1 .. l : i < k /\ q[i] # Another /\ q[k] # Another => q[i] < q[k]
      /\ \A r \in n + 1 .. Len(reads) : \E i \in 1 .. l : q[i] = r
  BY <1>1 DEF Queued
<1> HIDE DEF q, l
<1>5. \A i \in 1 .. l + 1 : q'[i] # Another => q'[i] \in n + 1 .. Len(reads)
  BY <1>2, <1>3, <1>4
<1>6. \A i, k \in 1 .. l + 1 : i < k /\ q'[i] # Another /\ q'[k] # Another => q'[i] < q'[k]
  <2> SUFFICES ASSUME NEW i \in 1 .. l + 1, NEW k \in 1 .. l + 1, i < k, q'[i] # Another, q'[k] # Another
               PROVE  q'[i] < q'[k]
    OBVIOUS
  <2>1. i \in 2 .. l + 1 /\ k \in 2 .. l + 1 /\ i - 1 \in 1 .. l /\ k - 1 \in 1 .. l /\ i - 1 < k - 1
    BY <1>1, <1>2, <1>3
  <2> QED
    BY <1>2, <1>4, <2>1
<1>7. \A r \in n + 1 .. Len(reads) : \E i \in 1 .. l + 1 : q'[i] = r
  <2> TAKE r \in n + 1 .. Len(reads)
  <2>1. PICK i \in 1 .. l : q[i] = r
    BY <1>4
  <2>2. i + 1 \in 2 .. l + 1 /\ i + 1 \in 1 .. l + 1 /\ (i + 1) - 1 = i
    BY <1>1
  <2> QED
    BY <1>2, <2>1, <2>2
<1> QED
  BY <1>2, <1>5, <1>6, <1>7 DEF Queued, q

\* The head of the queue is sent: a reply is the next one.
LEMMA QueueShrinks ==
    ASSUME NEW n \in Nat, Queued(n), UNCHANGED reads, Len(reads) \in Nat,
           priority_messages # <<>>, priority_messages' = Tail(priority_messages)
    PROVE  /\ Head(priority_messages) = Another => Queued(n)'
           /\ Head(priority_messages) # Another =>
                Head(priority_messages) = n + 1 /\ n < Len(reads) /\ Queued(n + 1)'
<1> DEFINE q == priority_messages
           l == Len(priority_messages)
           h == Head(priority_messages)
<1>1. q \in Seq(Nat) /\ l \in Nat /\ l >= 1 /\ DOMAIN q = 1 .. l /\ h = q[1] /\ h \in Nat
  BY DEF Queued
<1>2. q' \in Seq(Nat) /\ DOMAIN q' = 1 .. l - 1 /\ \A i \in 1 .. l - 1 : q'[i] = q[i + 1]
  BY <1>1
<1>3. \A i \in 1 .. l - 1 : i + 1 \in 1 .. l
  BY <1>1
<1>4. /\ \A i \in 1 .. l : q[i] # Another => q[i] \in n + 1 .. Len(reads)
      /\ \A i, k \in 1 .. l : i < k /\ q[i] # Another /\ q[k] # Another => q[i] < q[k]
      /\ \A r \in n + 1 .. Len(reads) : \E i \in 1 .. l : q[i] = r
  BY <1>1 DEF Queued
<1> HIDE DEF q, l, h
<1>5. \A i, k \in 1 .. l - 1 : i < k /\ q'[i] # Another /\ q'[k] # Another => q'[i] < q'[k]
  <2> SUFFICES ASSUME NEW i \in 1 .. l - 1, NEW k \in 1 .. l - 1, i < k, q'[i] # Another, q'[k] # Another
               PROVE  q'[i] < q'[k]
    OBVIOUS
  <2>1. i + 1 \in 1 .. l /\ k + 1 \in 1 .. l /\ i + 1 < k + 1
    BY <1>3
  <2> QED
    BY <1>2, <1>4, <2>1
<1>6. \A i \in 1 .. l : i = 1 \/ (i - 1 \in 1 .. l - 1 /\ (i - 1) + 1 = i)
  BY <1>1
<1>7. CASE h = Another
  <2>1. \A i \in 1 .. l - 1 : q'[i] # Another => q'[i] \in n + 1 .. Len(reads)
    BY <1>2, <1>3, <1>4
  <2>2. \A r \in n + 1 .. Len(reads) : \E i \in 1 .. l - 1 : q'[i] = r
    <3> TAKE r \in n + 1 .. Len(reads)
    <3>1. PICK i \in 1 .. l : q[i] = r
      BY <1>4
    <3>2. r # Another
      BY DEF Another
    <3>3. i # 1
      BY <1>1, <1>7, <3>1, <3>2
    <3> QED
      BY <1>2, <1>6, <3>1, <3>3
  <2> QED
    BY <1>2, <1>5, <1>7, <2>1, <2>2 DEF Queued, q, h
<1>8. CASE h # Another
  <2>1. h \in n + 1 .. Len(reads) /\ n < Len(reads) /\ n + 1 \in n + 1 .. Len(reads)
    BY <1>1, <1>4, <1>8
  <2>2. h = n + 1
    <3>1. PICK i \in 1 .. l : q[i] = n + 1
      BY <1>4, <2>1
    <3>2. CASE i # 1
      <4>1. 1 < i /\ 1 \in 1 .. l /\ q[i] # Another
        BY <1>1, <3>1, <3>2 DEF Another
      <4>2. q[1] < q[i]
        BY <1>1, <1>4, <1>8, <4>1
      <4> QED
        BY <1>1, <2>1, <3>1, <4>2
    <3> QED
      BY <1>1, <3>1, <3>2
  <2>3. \A i \in 1 .. l - 1 : q'[i] # Another => q'[i] \in (n + 1) + 1 .. Len(reads)
    <3> SUFFICES ASSUME NEW i \in 1 .. l - 1, q'[i] # Another PROVE q'[i] \in (n + 1) + 1 .. Len(reads)
      OBVIOUS
    <3>1. 1 \in 1 .. l /\ i + 1 \in 1 .. l /\ 1 < i + 1
      BY <1>1, <1>3
    <3>2. q[1] < q[i + 1] /\ q[i + 1] \in n + 1 .. Len(reads)
      BY <1>1, <1>2, <1>4, <1>8, <3>1
    <3> QED
      BY <1>1, <1>2, <2>2, <3>2
  <2>4. \A r \in (n + 1) + 1 .. Len(reads) : \E i \in 1 .. l - 1 : q'[i] = r
    <3> TAKE r \in (n + 1) + 1 .. Len(reads)
    <3>1. r \in n + 1 .. Len(reads) /\ r # n + 1
      OBVIOUS
    <3>2. PICK i \in 1 .. l : q[i] = r
      BY <1>4, <3>1
    <3>3. i # 1
      BY <1>1, <2>2, <3>1, <3>2
    <3> QED
      BY <1>2, <1>6, <3>2, <3>3
  <2> QED
    BY <1>2, <1>5, <1>8, <2>1, <2>2, <2>3, <2>4 DEF Queued, q, h
<1> QED
  BY <1>7, <1>8 DEF h

\* With no reply queued there is nothing left to answer.
LEMMA NoneQueued ==
    ASSUME NEW n \in Nat, n <= Len(reads), Len(reads) \in Nat, Queued(n), RepliesQueued = {}
    PROVE  n = Len(reads)
<1>1. CASE n < Len(reads)
  <2>1. n + 1 \in n + 1 .. Len(reads) /\ n + 1 # Another
    BY <1>1 DEF Another
  <2>2. PICK i \in DOMAIN priority_messages : priority_messages[i] = n + 1
    BY <2>1 DEF Queued
  <2> QED
    BY <2>1, <2>2 DEF RepliesQueued
<1> QED
  BY <1>1

LEMMA SdkReads ==
    ASSUME RecorderOK, SdkOK, NEW v \in Values, HandleClientTime(v)
    PROVE  SdkOK'
<1> DEFINE n == Len(exchange)
           p == Len(reads)
           e == ClientTime(v)
           z == Cardinality(Echoes)
<1>1. exchange' = Append(exchange, e) /\ reads' = Append(reads, v) /\ UNCHANGED <<flight, open, overtaken>>
      /\ priority_messages' = Append(priority_messages, p + 1) /\ open
  BY DEF HandleClientTime, ReadClientTime
<1>2. ListsOK /\ e \in Entry /\ e.type = "client/time"
  BY EntryIs DEF RecorderOK, Entry
<1>3. /\ n \in Nat /\ p \in Nat /\ Echoes \in SUBSET (1 .. n) /\ Marks \in SUBSET (1 .. n) /\ DOMAIN reads = 1 .. p
      /\ z \in Nat /\ \A i \in Echoes : UpTo(Echoes, i) \in 1 .. z
  BY CountsAre
<1> HIDE DEF e
<1>4. Inserted(n, e)
  BY <1>1, <1>2, AppendInserts
<1>5. /\ \A i \in 0 .. n : UpTo(Times', i) = UpTo(Times, i) /\ UpTo(Echoes', i) = UpTo(Echoes, i)
      /\ Cardinality(Echoes') = z
  BY <1>2, <1>3, <1>4, AppendCounts
<1>6. /\ Echoes' = Echoes /\ Marks' = Marks
      /\ \A i \in 1 .. n : exchange'[i] = exchange[i]
  <2>1. (\A i : i \in Echoes' <=> i \in Echoes) /\ (\A i : i \in Marks' <=> i \in Marks)
    BY <1>2, <1>4, AppendCounts
  <2> QED
    BY <1>2, <1>4, <2>1, AppendCounts
<1>7. DOMAIN reads' = 1 .. p + 1 /\ Len(reads') = p + 1 /\ reads'[p + 1] = v /\ \A i \in 1 .. p : reads'[i] = reads[i]
  BY <1>1, <1>2 DEF ListsOK
<1>8. z <= p
  BY DEF SdkOK, SdkListOK
<1> HIDE DEF n, p, z
<1>9. SdkListOK'
  <2>1. \A i \in DOMAIN reads' : reads'[i] \in Values
    <3> TAKE i \in DOMAIN reads'
    <3>1. CASE i = p + 1
      BY <1>7, <3>1
    <3>2. CASE i \in 1 .. p
      BY <1>3, <1>7, <3>2 DEF SdkOK, SdkListOK
    <3> QED
      BY <1>3, <1>7, <3>1, <3>2
  <2>2. ASSUME NEW i \in Echoes
        PROVE  /\ UpTo(Echoes', i) <= UpTo(Times', i)
               /\ exchange'[i] = Reply(reads'[UpTo(Echoes', i)])
    <3>1. i \in 1 .. n /\ i \in 0 .. n /\ UpTo(Echoes, i) \in 1 .. p
      BY <1>3, <1>8
    <3>2. UpTo(Echoes, i) <= UpTo(Times, i) /\ exchange[i] = Reply(reads[UpTo(Echoes, i)])
      BY DEF SdkOK, SdkListOK
    <3> QED
      BY <1>5, <1>6, <1>7, <3>1, <3>2
  <2>3. ASSUME ~overtaken, NEW m \in Marks PROVE UpTo(Echoes', m) = UpTo(Times', m)
    <3>1. m \in 0 .. n
      BY <1>3
    <3> QED
      BY <1>5, <2>3, <3>1 DEF SdkOK, SdkListOK
  <2>4. z <= p + 1
    BY <1>3, <1>8
  <2> QED
    BY <1>1, <1>5, <1>6, <1>7, <2>1, <2>2, <2>3, <2>4 DEF SdkListOK
<1>10. SdkFlightOK'
  <2>1. InFlight' = InFlight
    BY <1>1 DEF InFlight
  <2>2. ASSUME ~overtaken, NEW s \in Senders, flight[s].type = "other-sent"
        PROVE  UpTo(Echoes', flight[s].began_at) = UpTo(Times', flight[s].began_at)
    <3>1. flight[s].began_at \in 0 .. n
      BY <1>2, <2>2, EntryIs DEF ListsOK, Flight, n
    <3> QED
      BY <1>5, <2>2, <3>1 DEF SdkOK, SdkFlightOK
  <2>3. ASSUME NEW s \in Senders, flight[s].type = "server/time"
        PROVE  z < p + 1 /\ flight[s].message = Reply(reads'[z + 1])
    <3>1. z < p /\ flight[s].message = Reply(reads[z + 1])
      BY <2>3 DEF SdkOK, SdkFlightOK, z, p
    <3>2. z + 1 \in 1 .. p /\ z < p + 1
      BY <1>3, <3>1
    <3> QED
      BY <1>7, <3>1, <3>2
  <2> QED
    BY <1>1, <1>5, <1>7, <2>1, <2>2, <2>3 DEF SdkOK, SdkFlightOK
<1>11. SdkQueueOK'
  <2>1. Replying' <=> Replying
    BY <1>1 DEF Replying
  <2>2. CASE Replying
    <3>1. PICK k \in Nat : k = z + 1
      BY <1>3
    <3>2. Queued(k) /\ k <= p
      <4>1. z + 1 <= p
        BY <1>3, <2>2 DEF SdkOK, SdkFlightOK, Replying, z, p
      <4> QED
        BY <1>1, <2>2, <3>1, <4>1 DEF SdkOK, SdkQueueOK, z
    <3>3. Queued(k)'
      BY <1>1, <1>3, <1>7, <3>2, QueueGrows DEF p
    <3>4. Cardinality(Echoes)' + 1 = k
      BY <1>5, <3>1
    <3> QED
      BY <2>1, <2>2, <3>3, <3>4 DEF SdkQueueOK
  <2>3. CASE ~Replying
    <3>1. PICK k \in Nat : k = z
      BY <1>3
    <3>2. Queued(k)
      BY <1>1, <2>3, <3>1 DEF SdkOK, SdkQueueOK, z
    <3>3. Queued(k)'
      BY <1>1, <1>3, <1>7, <1>8, <3>1, <3>2, QueueGrows DEF p
    <3>4. Cardinality(Echoes)' = k
      BY <1>5, <3>1
    <3> QED
      BY <2>1, <2>3, <3>3, <3>4 DEF SdkQueueOK
  <2> QED
    BY <2>2, <2>3
<1> QED
  BY <1>9, <1>10, <1>11 DEF SdkOK

\* What BeginSend puts in flight.
LEMMA BeginSendIs ==
    ASSUME RecorderOK, NEW s \in Senders, NEW m \in Messages, BeginSend(s, m)
    PROVE  /\ UNCHANGED <<exchange, reads, done>> /\ flight[s] = Idle /\ s \notin InFlight
           /\ \A t \in Senders : t # s => flight'[t] = flight[t]
           /\ flight'[s].type = m.type /\ flight'[s].message = m /\ flight'[s].began_at = Len(exchange)
           /\ InFlight' = InFlight \cup {s}
<1> DEFINE f == [type |-> m.type, message |-> m, began_at |-> Len(exchange), began |-> Len(reads)]
<1>1. /\ UNCHANGED <<exchange, reads, done>> /\ flight' = [flight EXCEPT ![s] = f] /\ flight[s] = Idle
  BY DEF BeginSend
<1>2. flight = [t \in Senders |-> flight[t]]
  BY DEF RecorderOK, ListsOK
<1>3. f.type = m.type /\ f.message = m /\ f.began_at = Len(exchange) /\ f # Idle
  <2>1. f.type = m.type /\ f.message = m /\ f.began_at = Len(exchange)
    OBVIOUS
  <2>2. f.type # Idle.type
    BY <2>1, EntryIs
  <2> QED
    BY <2>1, <2>2
<1> HIDE DEF f
<1>4. \A t \in Senders : flight'[t] = IF t = s THEN f ELSE flight[t]
  BY <1>1, <1>2
<1>5. InFlight' = InFlight \cup {s} /\ s \notin InFlight
  BY <1>1, <1>3, <1>4 DEF InFlight
<1> QED
  BY <1>1, <1>3, <1>4, <1>5

LEMMA SameSdkList ==
    ASSUME SdkListOK, UNCHANGED <<exchange, reads>>, ~overtaken' => ~overtaken
    PROVE  SdkListOK'
BY SameLists DEF SdkListOK

LEMMA SdkBeginsReply ==
    ASSUME RecorderOK, SdkOK, NEW s \in Senders, WriteReply(s)
    PROVE  SdkOK' /\ RecorderOK'
<1> DEFINE z == Cardinality(Echoes)
           h == Head(priority_messages)
           v == reads[h]
<1>1. /\ open /\ InFlight = {} /\ priority_messages # <<>> /\ h # Another /\ BeginSend(s, Reply(v))
      /\ priority_messages' = Tail(priority_messages) /\ UNCHANGED <<open, overtaken>> /\ UNCHANGED reads
  BY DEF WriteReply, Writes, BeginSend
<1>2. z \in Nat /\ Len(reads) \in Nat /\ DOMAIN reads = 1 .. Len(reads)
  BY CountsAre
<1>3. \A t \in Senders : flight[t] = Idle /\ flight[t].type = "idle"
  BY <1>1, EntryIs DEF InFlight
<1>4. ~Replying
  BY <1>3 DEF Replying
<1>5. PICK n \in Nat : n = z
  BY <1>2
<1>6. Queued(n)
  BY <1>1, <1>4, <1>5 DEF SdkOK, SdkQueueOK
<1>7. h = n + 1 /\ n < Len(reads) /\ Queued(n + 1)'
  BY <1>1, <1>2, <1>6, QueueShrinks
<1>8. v \in Values /\ v = reads[z + 1]
  BY <1>2, <1>5, <1>7 DEF SdkOK, SdkListOK
<1> HIDE DEF v
<1>9. Reply(v) \in Messages /\ Reply(v).type = "server/time"
  BY <1>8, ReplyIs
<1>10. /\ UNCHANGED <<exchange, reads, done>>
       /\ \A t \in Senders : t # s => flight'[t] = flight[t]
       /\ flight'[s].type = "server/time" /\ flight'[s].message = Reply(v)
       /\ InFlight' = {s}
  BY <1>1, <1>9, BeginSendIs
<1>11. Echoes' = Echoes /\ Times' = Times
  BY <1>10, SameLists
<1>12. SdkListOK'
  BY <1>1, <1>10, SameSdkList DEF SdkOK
<1>13. SdkFlightOK'
  <2>1. ASSUME NEW t \in Senders, flight'[t].type = "other-sent" PROVE FALSE
    BY <1>3, <1>10, <2>1
  <2>2. ASSUME NEW t \in Senders, flight'[t].type = "server/time" PROVE t = s
    BY <1>3, <1>10, <2>2
  <2>3. \A t, u \in InFlight' : t = u
    BY <1>10
  <2> QED
    BY <1>1, <1>5, <1>7, <1>8, <1>10, <1>11, <2>1, <2>2, <2>3 DEF SdkFlightOK
<1>14. SdkQueueOK'
  <2>1. Replying'
    BY <1>10 DEF Replying
  <2>2. Cardinality(Echoes)' + 1 = n + 1
    BY <1>5, <1>11
  <2> QED
    BY <1>7, <2>1, <2>2 DEF SdkQueueOK
<1> QED
  BY <1>1, <1>9, <1>12, <1>13, <1>14, BeginSendKeeps DEF SdkOK

\* A message that is no reply is begun; it overtakes, or there is no reply to begin.
LEMMA SdkBeginsMessage ==
    ASSUME RecorderOK, SdkOK, NEW s \in Senders, BeginSend(s, OtherSent), InFlight = {}, open, UNCHANGED open,
           ~overtaken' => ~overtaken /\ RepliesQueued = {},
           \A n \in Nat : Queued(n) /\ UNCHANGED reads => Queued(n)'
    PROVE  SdkOK' /\ RecorderOK'
<1>1. OtherSent \in Messages /\ OtherSent.type = "other-sent"
  BY EntryIs
<1>2. /\ Cardinality(Echoes) \in Nat /\ Len(reads) \in Nat
      /\ UpTo(Times, Len(exchange)) = Len(reads) /\ UpTo(Echoes, Len(exchange)) = Cardinality(Echoes)
  BY CountsAre
<1>3. \A t \in Senders : flight[t] = Idle /\ flight[t].type = "idle"
  BY EntryIs DEF InFlight
<1>4. ~Replying
  BY <1>3 DEF Replying
<1>5. PICK n \in Nat : n = Cardinality(Echoes)
  BY <1>2
<1>6. Queued(n)
  BY <1>4, <1>5 DEF SdkOK, SdkQueueOK
<1>7. ASSUME ~overtaken' PROVE ~overtaken /\ Len(reads) = Cardinality(Echoes)
  <2>1. n <= Len(reads)
    BY <1>5 DEF SdkOK, SdkListOK
  <2> QED
    BY <1>2, <1>5, <1>6, <1>7, <2>1, NoneQueued
<1>8. /\ UNCHANGED <<exchange, reads, done>>
      /\ \A t \in Senders : t # s => flight'[t] = flight[t]
      /\ flight'[s].type = "other-sent" /\ flight'[s].began_at = Len(exchange)
      /\ InFlight' = {s}
  BY <1>1, BeginSendIs
<1>9. Echoes' = Echoes /\ Times' = Times
  BY <1>8, SameLists
<1>10. SdkListOK'
  BY <1>7, <1>8, SameSdkList DEF SdkOK
<1>11. SdkFlightOK'
  <2>1. ASSUME ~overtaken', NEW t \in Senders, flight'[t].type = "other-sent"
        PROVE  UpTo(Echoes', flight'[t].began_at) = UpTo(Times', flight'[t].began_at)
    BY <1>2, <1>3, <1>7, <1>8, <1>9, <2>1
  <2>2. ASSUME NEW t \in Senders, flight'[t].type = "server/time" PROVE FALSE
    BY <1>3, <1>8, <2>2
  <2>3. \A t, u \in InFlight' : t = u
    BY <1>8
  <2> QED
    BY <2>1, <2>2, <2>3 DEF SdkFlightOK
<1>12. SdkQueueOK'
  <2>1. ~Replying'
    BY <1>3, <1>8 DEF Replying
  <2>2. Queued(n)' /\ Cardinality(Echoes)' = n
    BY <1>5, <1>6, <1>8, <1>9
  <2> QED
    BY <2>1, <2>2 DEF SdkQueueOK
<1> QED
  BY <1>1, <1>10, <1>11, <1>12, BeginSendKeeps DEF SdkOK

LEMMA QueueStands ==
    ASSUME NEW n \in Nat, Queued(n), UNCHANGED <<priority_messages, reads>>
    PROVE  Queued(n)'
BY DEF Queued

LEMMA SdkBeginsOther ==
    ASSUME RecorderOK, SdkOK, NEW s \in Senders, WriteOther(s)
    PROVE  SdkOK' /\ RecorderOK'
<1>1. /\ open /\ InFlight = {} /\ BeginSend(s, OtherSent) /\ RepliesQueued = {}
      /\ UNCHANGED <<priority_messages, open, overtaken>>
  BY DEF WriteOther, Writes, sdkown, RepliesQueued
<1> QED
  BY <1>1, QueueStands, SdkBeginsMessage

LEMMA SdkBeginsDirect ==
    ASSUME RecorderOK, SdkOK, NEW s \in Senders, WriteDirect(s)
    PROVE  SdkOK' /\ RecorderOK'
<1>1. /\ open /\ InFlight = {} /\ BeginSend(s, OtherSent) /\ UNCHANGED <<priority_messages, open>>
      /\ overtaken' = (overtaken \/ RepliesQueued # {})
  BY DEF WriteDirect
<1> QED
  BY <1>1, QueueStands, SdkBeginsMessage

LEMMA SdkBeginsAnother ==
    ASSUME RecorderOK, SdkOK, NEW s \in Senders, WriteAnother(s)
    PROVE  SdkOK' /\ RecorderOK'
<1>1. /\ open /\ InFlight = {} /\ BeginSend(s, OtherSent) /\ UNCHANGED open
      /\ overtaken' = (overtaken \/ RepliesQueued # {})
      /\ priority_messages # <<>> /\ Head(priority_messages) = Another
      /\ priority_messages' = Tail(priority_messages)
  BY DEF WriteAnother, Writes
<1>2. Len(reads) \in Nat
  BY CountsAre
<1>3. \A n \in Nat : Queued(n) /\ UNCHANGED reads => Queued(n)'
  BY <1>1, <1>2, QueueShrinks
<1> QED
  BY <1>1, <1>3, SdkBeginsMessage

LEMMA SdkDisconnects ==
    ASSUME RecorderOK, SdkOK, Disconnect
    PROVE  SdkOK' /\ RecorderOK'
<1>1. /\ UNCHANGED <<exchange, reads, overtaken>> /\ open' = FALSE
      /\ flight' = [s \in Senders |-> Idle]
  BY DEF Disconnect
<1>2. \A t \in Senders : flight'[t] = Idle /\ flight'[t].type = "idle"
  BY <1>1, EntryIs
<1>3. InFlight' = {}
  BY <1>2 DEF InFlight
<1>4. SdkListOK'
  BY <1>1, SameSdkList DEF SdkOK
<1>5. SdkFlightOK'
  BY <1>2, <1>3 DEF SdkFlightOK
<1>6. SdkQueueOK'
  BY <1>1 DEF SdkQueueOK
<1> QED
  BY <1>4, <1>5, <1>6, DisconnectKeeps DEF SdkOK

\* What touches the queue alone.
LEMMA SdkRequeues ==
    ASSUME RecorderOK, SdkOK, UNCHANGED <<timevars, open, overtaken>>,
           \A n \in Nat : Queued(n) /\ UNCHANGED reads => Queued(n)'
    PROVE  SdkOK' /\ RecorderOK'
<1>1. UNCHANGED <<exchange, reads, flight>>
  BY DEF timevars
<1>2. SdkListOK'
  BY <1>1, SameSdkList DEF SdkOK
<1>3. InFlight' = InFlight /\ Echoes' = Echoes /\ Times' = Times /\ (Replying' <=> Replying)
  BY <1>1, SameLists DEF InFlight, Replying
<1>4. SdkFlightOK'
  BY <1>1, <1>3 DEF SdkOK, SdkFlightOK
<1>5. SdkQueueOK'
  <2>1. PICK n \in Nat : n = Cardinality(Echoes)
    BY CountsAre
  <2>2. Cardinality(Echoes)' = n /\ n + 1 \in Nat
    BY <1>3, <2>1
  <2>3. open /\ ~Replying => Queued(n)'
    BY <1>1, <2>1 DEF SdkOK, SdkQueueOK
  <2>4. open /\ Replying => Queued(n + 1)'
    BY <1>1, <2>1, <2>2 DEF SdkOK, SdkQueueOK
  <2> QED
    BY <1>3, <2>2, <2>3, <2>4 DEF SdkQueueOK
<1> QED
  BY <1>2, <1>4, <1>5, StandsStill DEF SdkOK

LEMMA SdkQueuesOther ==
    ASSUME RecorderOK, SdkOK, QueueOther
    PROVE  SdkOK' /\ RecorderOK'
<1>1. UNCHANGED <<timevars, open, overtaken>> /\ priority_messages' = Append(priority_messages, Another)
  BY DEF QueueOther
<1>2. \A n \in Nat : Queued(n) /\ UNCHANGED reads => Queued(n)'
  BY <1>1, CountsAre, QueueGrowsByAnother
<1> QED
  BY <1>1, <1>2, SdkRequeues

LEMMA SdkResumes ==
    ASSUME RecorderOK, SdkOK, Resume
    PROVE  SdkOK' /\ RecorderOK'
<1>1. /\ UNCHANGED <<timevars, open, overtaken>>
      /\ \/ UNCHANGED priority_messages
         \/ priority_messages' = <<Another>> \o priority_messages
  BY DEF Resume
<1>2. \A n \in Nat : Queued(n) /\ UNCHANGED reads => Queued(n)'
  BY <1>1, CountsAre, QueuePushed, QueueStands
<1> QED
  BY <1>1, <1>2, SdkRequeues

LEMMA SdkStandsStill ==
    ASSUME RecorderOK, SdkOK, UNCHANGED <<timevars, priority_messages, open, overtaken>>
    PROVE  SdkOK' /\ RecorderOK'
BY QueueStands, SdkRequeues

\* Once the one send has returned, the writer is idle.
LEMMA WrittenIs ==
    ASSUME RecorderOK, SdkOK, NEW s \in Senders, Written(s)
    PROVE  /\ EndSend(s) /\ UNCHANGED <<open, priority_messages, overtaken, reads>> /\ open
           /\ InFlight' = {} /\ \A t \in Senders : flight'[t].type = "idle"
           /\ flight[s].type \in {"server/time", "other-sent"}
           /\ Replying <=> flight[s].type = "server/time"
<1>1. EndSend(s) /\ UNCHANGED <<open, priority_messages, overtaken>>
  BY DEF Written, sdkown
<1>2. /\ reads' = reads /\ Flight(flight[s], Len(exchange), Len(reads))
      /\ InFlight' \in SUBSET InFlight /\ s \in InFlight /\ s \notin InFlight'
      /\ \A t \in Senders : flight'[t] = IF t = s THEN Idle ELSE flight[t]
  BY <1>1, EndSendIs
<1>3. \A t \in InFlight : t = s
  BY <1>2 DEF SdkOK, SdkFlightOK
<1>4. InFlight' = {} /\ open
  BY <1>2, <1>3 DEF SdkOK, SdkFlightOK
<1>5. \A t \in Senders : t # s => flight[t] = Idle
  BY <1>3 DEF InFlight
<1>6. \A t \in Senders : flight'[t].type = "idle"
  BY <1>2, <1>5, EntryIs
<1>7. flight[s].type \in {"server/time", "other-sent"}
  BY <1>2, EntryIs DEF Flight
<1>8. Replying <=> flight[s].type = "server/time"
  BY <1>5, EntryIs DEF Replying
<1> QED
  BY <1>1, <1>2, <1>4, <1>6, <1>7, <1>8

LEMMA IdleFlightOK ==
    ASSUME InFlight' = {}, \A t \in Senders : flight'[t].type = "idle"
    PROVE  SdkFlightOK' /\ ~Replying'
BY DEF SdkFlightOK, Replying

LEMMA WrittenReplyKeeps ==
    ASSUME RecorderOK, SdkOK, NEW s \in Senders, Written(s), flight[s].type = "server/time"
    PROVE  SdkOK'
<1> DEFINE n == Len(exchange)
           p == Len(reads)
           z == Cardinality(Echoes)
           e == flight[s].message
<1>1. /\ EndSend(s) /\ UNCHANGED <<open, priority_messages, overtaken, reads>> /\ open
      /\ InFlight' = {} /\ \A t \in Senders : flight'[t].type = "idle"
      /\ Replying
  BY WrittenIs
<1>2. exchange' = Append(exchange, e)
  BY <1>1 DEF EndSend
<1>3. ListsOK /\ e \in Entry /\ e.type = "server/time"
  <2>1. Flight(flight[s], n, p)
    BY <1>1, EndSendIs
  <2> QED
    BY <2>1 DEF Flight, Entry, RecorderOK
<1>4. /\ n \in Nat /\ p \in Nat /\ z \in Nat
      /\ Times \in SUBSET (1 .. n) /\ Echoes \in SUBSET (1 .. n) /\ Marks \in SUBSET (1 .. n)
      /\ Cardinality(Times) = p /\ DOMAIN reads = 1 .. p
  BY CountsAre
<1>5. z < p /\ e = Reply(reads[z + 1])
  BY DEF SdkOK, SdkFlightOK
<1> HIDE DEF e
<1>6. Inserted(n, e)
  BY <1>2, <1>3, AppendInserts
<1>7. /\ \A i \in 0 .. n : UpTo(Times', i) = UpTo(Times, i) /\ UpTo(Echoes', i) = UpTo(Echoes, i)
      /\ Cardinality(Times') = UpTo(Times', n + 1)
      /\ Cardinality(Echoes') = UpTo(Echoes', n + 1)
      /\ Cardinality(Times') = p
      /\ Cardinality(Echoes') = z + 1
  BY <1>3, <1>4, <1>6, AppendCounts
<1>8. /\ Marks' = Marks
      /\ \A i : i \in Echoes' <=> i \in Echoes \/ i = n + 1
      /\ \A i \in 1 .. n : exchange'[i] = exchange[i]
      /\ exchange'[n + 1] = e
  <2>1. \A i : i \in Marks' <=> i \in Marks
    BY <1>3, <1>6, AppendCounts
  <2> QED
    BY <1>3, <1>6, <2>1, AppendCounts
<1> HIDE DEF n, p, z
<1>9. SdkListOK'
  <2>1. ASSUME NEW i \in Echoes'
        PROVE  /\ UpTo(Echoes', i) <= UpTo(Times', i)
               /\ exchange'[i] = Reply(reads[UpTo(Echoes', i)])
    <3>1. CASE i = n + 1
      BY <1>4, <1>5, <1>7, <1>8, <3>1
    <3>2. CASE i \in Echoes
      <4>1. i \in 1 .. n /\ i \in 0 .. n
        BY <1>4, <3>2
      <4>2. UpTo(Echoes, i) <= UpTo(Times, i) /\ exchange[i] = Reply(reads[UpTo(Echoes, i)])
        BY <3>2 DEF SdkOK, SdkListOK
      <4> QED
        BY <1>7, <1>8, <4>1, <4>2
    <3> QED
      BY <1>8, <3>1, <3>2
  <2>2. ASSUME ~overtaken, NEW m \in Marks PROVE UpTo(Echoes', m) = UpTo(Times', m)
    <3>1. m \in 0 .. n
      BY <1>4
    <3> QED
      BY <1>7, <2>2, <3>1 DEF SdkOK, SdkListOK
  <2>3. Cardinality(Echoes') <= p
    BY <1>4, <1>5, <1>7
  <2> QED
    BY <1>1, <1>8, <2>1, <2>2, <2>3 DEF SdkOK, SdkListOK, p
<1>10. SdkFlightOK' /\ ~Replying'
  BY <1>1, IdleFlightOK
<1>11. SdkQueueOK'
  <2>1. PICK k \in Nat : k = z + 1
    BY <1>4
  <2>2. Queued(k)
    BY <1>1, <2>1 DEF SdkOK, SdkQueueOK, z
  <2>3. Queued(k)' /\ Cardinality(Echoes)' = k
    BY <1>1, <1>7, <2>1, <2>2, QueueStands
  <2> QED
    BY <1>10, <2>3 DEF SdkQueueOK
<1> QED
  BY <1>9, <1>10, <1>11 DEF SdkOK

LEMMA WrittenOtherKeeps ==
    ASSUME RecorderOK, SdkOK, NEW s \in Senders, Written(s), flight[s].type = "other-sent"
    PROVE  SdkOK'
<1> DEFINE n == Len(exchange)
           p == Len(reads)
           k == flight[s].began_at
           kept == exchange' = exchange
<1>1. /\ EndSend(s) /\ UNCHANGED <<open, priority_messages, overtaken, reads>> /\ open
      /\ InFlight' = {} /\ \A t \in Senders : flight'[t].type = "idle"
      /\ ~Replying
  BY WrittenIs
<1>2. SdkFlightOK' /\ ~Replying'
  BY <1>1, IdleFlightOK
<1>3. /\ n \in Nat /\ p \in Nat /\ Cardinality(Echoes) \in Nat
      /\ Echoes \in SUBSET (1 .. n) /\ Marks \in SUBSET (1 .. n)
      /\ ListsOK
  BY CountsAre DEF RecorderOK
<1>4. ~overtaken => UpTo(Echoes, k) = UpTo(Times, k)
  BY DEF SdkOK, SdkFlightOK
<1>5. ASSUME Cardinality(Echoes') = Cardinality(Echoes) PROVE SdkQueueOK'
  <2>1. PICK m \in Nat : m = Cardinality(Echoes)
    BY <1>3
  <2>2. Queued(m)
    BY <1>1, <2>1 DEF SdkOK, SdkQueueOK
  <2>3. Queued(m)' /\ Cardinality(Echoes)' = m
    BY <1>1, <1>5, <2>1, <2>2, QueueStands
  <2> QED
    BY <1>2, <2>3 DEF SdkQueueOK
<1>6. CASE exchange' = exchange
  <2>1. Echoes' = Echoes
    BY <1>6, SameLists
  <2> QED
    BY <1>1, <1>2, <1>5, <1>6, <2>1, SameSdkList DEF SdkOK
<1>7. CASE exchange' # exchange
  <2>1. k \in 1 .. n /\ exchange' = InsertAt(exchange, k + 1, OtherSent)
    <3>1. exchange' = RecordOtherSent(exchange, k)
      BY <1>1, EntryIs DEF EndSend
    <3>2. k # 0 /\ exchange' = InsertAt(exchange, k + 1, OtherSent)
      BY <1>7, <3>1 DEF RecordOtherSent
    <3>3. k \in 0 .. n
      BY <1>1, EndSendIs DEF Flight
    <3> QED
      BY <1>3, <3>2, <3>3
  <2> HIDE DEF k
  <2>2. Inserted(k, OtherSent)
    BY <1>3, <2>1, MarkInserts
  <2>3. /\ \A i \in 0 .. n + 1 : UpTo(Times', i) = UpTo(Times, Old(k, i)) /\ UpTo(Echoes', i) = UpTo(Echoes, Old(k, i))
        /\ Cardinality(Echoes') = Cardinality(Echoes)
        /\ \A i \in Echoes' : i \in 1 .. n + 1 /\ Old(k, i) \in Echoes /\ exchange'[i] = exchange[Old(k, i)]
        /\ \A i \in Marks' : i \in 1 .. n + 1 /\ (i = k + 1 \/ (i # k + 1 /\ Old(k, i) \in Marks))
        /\ Old(k, k + 1) = k
    BY <1>3, <2>1, <2>2, MarkCounts
  <2> HIDE DEF n
  <2>4. \A i \in 1 .. n + 1 : i \in 0 .. n + 1
    BY <1>3
  <2>5. ASSUME NEW i \in Echoes'
        PROVE  /\ UpTo(Echoes', i) <= UpTo(Times', i)
               /\ exchange'[i] = Reply(reads[UpTo(Echoes', i)])
    BY <2>3, <2>4 DEF SdkOK, SdkListOK
  <2>6. ASSUME ~overtaken, NEW m \in Marks' PROVE UpTo(Echoes', m) = UpTo(Times', m)
    <3>1. CASE m = k + 1
      BY <1>4, <2>3, <2>4, <2>6, <3>1 DEF k
    <3>2. CASE m # k + 1
      BY <2>3, <2>4, <2>6, <3>2 DEF SdkOK, SdkListOK
    <3> QED
      BY <3>1, <3>2
  <2>7. SdkListOK'
    BY <1>1, <2>3, <2>5, <2>6 DEF SdkOK, SdkListOK
  <2> QED
    BY <1>2, <1>5, <2>3, <2>7 DEF SdkOK
<1> QED
  BY <1>6, <1>7

LEMMA SdkNextKeeps == RecorderOK /\ SdkOK /\ SdkNext => RecorderOK' /\ SdkOK'
<1> SUFFICES ASSUME RecorderOK, SdkOK, SdkNext PROVE RecorderOK' /\ SdkOK'
  OBVIOUS
<1>1. ASSUME NEW v \in Values, HandleClientTime(v) PROVE RecorderOK' /\ SdkOK'
  BY <1>1, SdkReads, ReadKeeps DEF HandleClientTime
<1>2. ASSUME NEW s \in Senders, WriteReply(s) PROVE RecorderOK' /\ SdkOK'
  BY <1>2, SdkBeginsReply
<1>3. ASSUME NEW s \in Senders, WriteOther(s) \/ WriteAnother(s) \/ WriteDirect(s) PROVE RecorderOK' /\ SdkOK'
  BY <1>3, SdkBeginsOther, SdkBeginsAnother, SdkBeginsDirect
<1>4. ASSUME NEW s \in Senders, Written(s) PROVE RecorderOK' /\ SdkOK'
  <2>1. flight[s].type \in {"server/time", "other-sent"} /\ EndSend(s)
    BY <1>4, WrittenIs
  <2> QED
    BY <1>4, <2>1, EndSendKeeps, WrittenReplyKeeps, WrittenOtherKeeps
<1>5. CASE QueueOther \/ Resume
  BY <1>5, SdkQueuesOther, SdkResumes
<1>6. CASE Pause \/ Closed
  BY <1>6, SdkStandsStill DEF Pause, Closed, sdkvars, sdkown
<1>7. CASE Disconnect
  BY <1>7, SdkDisconnects
<1> QED
  BY <1>1, <1>2, <1>3, <1>4, <1>5, <1>6, <1>7 DEF SdkNext

\* TimeInv holds in every state: of the list of any server, and of the SDK's.
THEOREM TimeInvariant == MCSpec => []TimeInv
<1>1. MCInit => TimeInv
  BY TimeInitOK, SdkInitOK DEF MCInit, SdkInit, TimeInv
<1>2. TimeInv /\ [MCNext]_<<which, sdkvars>> => TimeInv'
  <2> SUFFICES ASSUME TimeInv, [MCNext]_<<which, sdkvars>> PROVE TimeInv'
    OBVIOUS
  <2>1. CASE which = "any" /\ TimeNext /\ UNCHANGED <<which, sdkown>>
    BY <2>1, TimeNextKeeps DEF TimeInv
  <2>2. CASE which = "sdk" /\ SdkNext /\ UNCHANGED which
    BY <2>2, SdkNextKeeps DEF TimeInv
  <2>3. CASE UNCHANGED <<which, sdkvars>>
    <3>1. UNCHANGED <<which, timevars, priority_messages, open, overtaken>>
      BY <2>3 DEF sdkvars, sdkown
    <3>2. RecorderOK'
      BY <3>1, StandsStill DEF TimeInv
    <3> QED
      BY <3>1, <3>2, SdkStandsStill DEF TimeInv
  <2> QED
    BY <2>1, <2>2, <2>3 DEF MCNext
<1> QED
  BY <1>1, <1>2, PTL DEF MCSpec

-----------------------------------------------------------------------------
(* The loop of the verdict, turn by turn.                                  *)

\* The loop of time_exchange_violation is what its recursive definition says.
LEMMA LoopIs ==
    ASSUME RecorderOK
    PROVE  /\ Loop[0] = Start
           /\ \A n \in 1 .. Len(exchange) : Loop[n] = JudgeEntry(Loop[n - 1], exchange[n])
<1> DEFINE N == Len(exchange)
           Turn(g, i) == IF i = 0 THEN Start ELSE JudgeEntry(g[i - 1], exchange[i])
           IsPath(g, m) == g = [i \in 0 .. m |-> Turn(g, i)]
           bad == {m \in Nat : m <= N /\ ~\E g : IsPath(g, m)}
<1>1. N \in Nat
  BY CountsAre
<1>2. bad = {}
  <2> SUFFICES ASSUME bad # {} PROVE FALSE
    OBVIOUS
  <2>1. PICK m \in bad : \A k \in bad : m <= k
    <3>1. bad \in SUBSET Nat
      OBVIOUS
    <3> HIDE DEF bad
    <3> QED
      BY <3>1, LeastOf
  <2>2. CASE m = 0
    <3> DEFINE g == [i \in 0 .. 0 |-> Start]
    <3>1. IsPath(g, 0)
      OBVIOUS
    <3> QED
      BY <3>1, <2>1, <2>2
  <2>3. CASE m # 0
    <3>0. m \in Nat /\ m <= N
      BY <2>1
    <3>a. m - 1 \in Nat /\ ~(m <= m - 1)
      BY <3>0, <2>3
    <3>b. m - 1 \notin bad
      <4> HIDE DEF bad
      <4> QED
        BY <2>1, <3>a
    <3>1. m \in Nat /\ m - 1 \in Nat /\ m <= N /\ m - 1 \notin bad
      BY <3>0, <3>a, <3>b
    <3>2. PICK g : IsPath(g, m - 1)
      BY <3>1, <1>1
    <3> DEFINE h == [i \in 0 .. m |-> IF i < m THEN g[i] ELSE Turn(g, m)]
    <3>3. \A i \in 0 .. m : Turn(h, i) = h[i]
      <4> SUFFICES ASSUME NEW i \in 0 .. m PROVE Turn(h, i) = h[i]
        OBVIOUS
      <4>1. CASE i = 0
        BY <4>1, <3>1, <3>2, <2>3
      <4>2. CASE i # 0
        <5>1. i - 1 \in 0 .. m /\ i - 1 < m /\ h[i - 1] = g[i - 1]
          BY <4>2, <3>1
        <5>2. Turn(h, i) = Turn(g, i)
          BY <5>1, <4>2
        <5>3. CASE i < m
          BY <5>2, <5>3, <3>1, <3>2
        <5>4. CASE i = m
          BY <5>2, <5>4
        <5> QED
          BY <5>3, <5>4, <3>1
      <4> QED
        BY <4>1, <4>2
    <3>4. h = [i \in 0 .. m |-> Turn(h, i)]
      BY <3>3
    <3> QED
      BY <3>4, <2>1
  <2> QED
    BY <2>2, <2>3
<1>3. \E g : IsPath(g, N)
  BY <1>1, <1>2
<1> DEFINE h == CHOOSE g : IsPath(g, N)
<1>4. IsPath(h, N)
  BY <1>3
<1>5. Loop = h
  BY DEF Loop
<1> HIDE DEF h
<1>6. \A i \in 0 .. N : h[i] = Turn(h, i)
  BY <1>4
<1> QED
  BY <1>1, <1>5, <1>6

\* How many client/time messages of its value had been received with client/time p, which of them
\* are without a reply in the first n entries of the list, and what the loop keeps of each.
Rank(p) == UpTo(ReadBy(reads[p]), p)
Open(n) == {p \in 1 .. UpTo(Times, n) : Rank(p) > UpTo(Echoed(reads[p]), n)}
Ask(p) == [position |-> p, value |-> reads[p]]

\* Those a message other than a reply passed over, by its mark among the first n entries.
Passed(n) == {p \in Nat : \E m \in Marks : m <= n /\ p \in Open(m)}

\* After n turns without a blame.
Clean(j, n) ==
    /\ j.received = UpTo(Times, n)
    /\ j.unanswered = {Ask(p) : p \in Open(n)}
    /\ j.latest_answered = 0 \/ j.latest_answered \in (1 .. UpTo(Times, n)) \ Open(n)
    /\ j.passed_over = Passed(n)
    /\ \A v \in Values : UpTo(Echoed(v), n) <= UpTo(ReadBy(v), UpTo(Times, n))
    /\ \A p \in 1 .. UpTo(Times, n) : reads[p] \in Values

\* What a blame of the loop says is so.
Named(b) ==
    /\ b.kind \in {"client", "malformed", "backwards", "echo"}
    /\ b.kind = "client" => reads[b.position] = NotInteger
    /\ b.kind = "malformed" => \E i \in Replies : done[i].message.value = NotInteger
    /\ b.kind = "backwards" => \E i \in Replies : done[i].message.backwards
    /\ b.kind = "echo" =>
         \E i \in Replies :
             LET v == done[i].message.value
             IN Cardinality(RepliesOf(v, i)) > Cardinality(ReadsOf(v, done[i].ended))

Fields == {"unanswered", "received", "latest_answered", "passed_over", "blame"}

Turned(j, n) ==
    /\ DOMAIN j = Fields
    /\ j.blame = NoBlame => Clean(j, n)
    /\ j.blame # NoBlame => Named(j.blame)

\* The counts of the list and of what was read and sent.
LEMMA TurnCounts ==
    ASSUME RecorderOK
    PROVE  /\ Len(exchange) \in Nat /\ Len(reads) \in Nat /\ Cardinality(Times) = Len(reads)
           /\ \A n : UpTo(Times, n) \in Nat /\ UpTo(Times, n) <= Len(reads)
           /\ \A v, n : UpTo(Echoed(v), n) \in Nat /\ UpTo(ReadBy(v), n) \in Nat
           /\ \A p : Rank(p) \in Nat
           /\ \A v : ReadBy(v) \in SUBSET (1 .. Len(reads)) /\ Echoed(v) \in SUBSET (1 .. Len(exchange))
           /\ Times \in SUBSET (1 .. Len(exchange)) /\ Marks \in SUBSET (1 .. Len(exchange))
           /\ UpTo(Times, Len(exchange)) = Len(reads) /\ UpTo(Times, 0) = 0 /\ \A v : UpTo(Echoed(v), 0) = 0
<1>1. ListsOK /\ Cardinality(Times) = Len(reads)
  BY DEF RecorderOK, TimesOK
<1>2. /\ Len(exchange) \in Nat /\ Len(reads) \in Nat /\ Times \in SUBSET (1 .. Len(exchange)) /\ Marks \in SUBSET (1 .. Len(exchange))
      /\ \A v : ReadBy(v) \in SUBSET (1 .. Len(reads)) /\ Echoed(v) \in SUBSET (1 .. Len(exchange))
  BY <1>1, ListsAre
<1>3. /\ \A n : UpTo(Times, n) \in Nat /\ UpTo(Times, n) <= Len(reads)
      /\ UpTo(Times, Len(exchange)) = Len(reads) /\ UpTo(Times, 0) = 0
  BY <1>1, <1>2, UpToIs
<1>4. ASSUME NEW v
      PROVE  \A n : UpTo(Echoed(v), n) \in Nat /\ UpTo(ReadBy(v), n) \in Nat /\ UpTo(Echoed(v), 0) = 0
  BY <1>2, UpToIs
<1>5. \A p : Rank(p) \in Nat
  BY <1>4 DEF Rank
<1> QED
  BY <1>1, <1>2, <1>3, <1>4, <1>5

\* What the n-th entry of the list is.
LEMMA TurnIs ==
    ASSUME RecorderOK, NEW n \in 1 .. Len(exchange)
    PROVE  /\ exchange[n] \in Entry /\ n - 1 \in Nat
           /\ UpTo(Times, n) = IF n \in Times THEN UpTo(Times, n - 1) + 1 ELSE UpTo(Times, n - 1)
           /\ \A v : UpTo(Echoed(v), n) = IF n \in Echoed(v) THEN UpTo(Echoed(v), n - 1) + 1 ELSE UpTo(Echoed(v), n - 1)
           /\ n \in Times <=> exchange[n].type = "client/time"
           /\ n \in Echoes <=> exchange[n].type = "server/time"
           /\ n \in Marks <=> exchange[n].type = "other-sent"
           /\ \A v : n \in Echoed(v) <=> exchange[n].type = "server/time" /\ exchange[n].value = v
<1>1. ListsOK
  BY DEF RecorderOK
<1>2. exchange[n] \in Entry /\ n \in DOMAIN exchange /\ n - 1 \in Nat /\ (n - 1) + 1 = n /\ Len(exchange) \in Nat
  BY <1>1, ListsAre
<1>3. /\ n \in Times <=> exchange[n].type = "client/time"
      /\ n \in Echoes <=> exchange[n].type = "server/time"
      /\ n \in Marks <=> exchange[n].type = "other-sent"
  BY <1>2 DEF Times, Echoes, Marks, Recorded
<1>4. \A v : n \in Echoed(v) <=> exchange[n].type = "server/time" /\ exchange[n].value = v
  BY <1>3 DEF Echoed
<1>5. \A P \in SUBSET (1 .. Len(exchange)) : UpTo(P, n) = IF n \in P THEN UpTo(P, n - 1) + 1 ELSE UpTo(P, n - 1)
  <2> TAKE P \in SUBSET (1 .. Len(exchange))
  <2> DEFINE k == n - 1
  <2>1. k \in Nat /\ k + 1 = n
    BY <1>2
  <2> HIDE DEF k
  <2>2. UpTo(P, k + 1) = IF k + 1 \in P THEN UpTo(P, k) + 1 ELSE UpTo(P, k)
    BY <1>2, <2>1, UpToNext
  <2> QED
    BY <2>1, <2>2 DEF k
<1>6. Times \in SUBSET (1 .. Len(exchange)) /\ \A v : Echoed(v) \in SUBSET (1 .. Len(exchange))
  BY <1>1, ListsAre
<1> QED
  BY <1>2, <1>3, <1>4, <1>5, <1>6

LEMMA PassedNext ==
    ASSUME RecorderOK, NEW n \in 1 .. Len(exchange)
    PROVE  Passed(n) = IF n \in Marks THEN Passed(n - 1) \cup Open(n) ELSE Passed(n - 1)
<1>1. Marks \in SUBSET (1 .. Len(exchange)) /\ Len(exchange) \in Nat
  BY TurnCounts
<1>2. \A m \in Marks : m <= n <=> m <= n - 1 \/ m = n
  BY <1>1
<1>3. Open(n) \in SUBSET Nat
  BY DEF Open
<1> QED
  BY <1>2, <1>3 DEF Passed

\* Among those of one value, the later is asked with the higher rank.
LEMMA RankGrows ==
    ASSUME RecorderOK, NEW v, NEW p \in ReadBy(v)
    PROVE  /\ p \in 1 .. Len(reads) /\ reads[p] = v /\ Rank(p) = UpTo(ReadBy(v), p) /\ Rank(p) \in Nat \ {0}
           /\ \A q \in ReadBy(v) : q < p => Rank(q) < Rank(p)
<1>1. Len(reads) \in Nat /\ ReadBy(v) \in SUBSET (1 .. Len(reads))
  BY TurnCounts
<1>2. \A q \in ReadBy(v) : reads[q] = v /\ Rank(q) = UpTo(ReadBy(v), q)
  BY DEF ReadBy, Rank
<1>3. UpTo(ReadBy(v), p) \in 1 .. Cardinality(ReadBy(v))
  BY <1>1, UpToAt
<1>4. Rank(p) \in Nat \ {0}
  <2>1. Cardinality(ReadBy(v)) \in Nat
    BY <1>1, UpToIs
  <2> QED
    BY <1>2, <1>3, <2>1
<1>5. ASSUME NEW q \in ReadBy(v), q < p PROVE Rank(q) < Rank(p)
  <2>1. q \in Nat /\ p \in Nat /\ q <= p /\ p <= p
    BY <1>1, <1>5
  <2>2. UpTo(ReadBy(v), q) < UpTo(ReadBy(v), p)
    BY <1>1, <1>5, <2>1, UpToGrows
  <2> QED
    BY <1>2, <2>2
<1> QED
  BY <1>1, <1>2, <1>4, <1>5

\* A client/time is received.
LEMMA AskedNext ==
    ASSUME RecorderOK, NEW n \in 1 .. Len(exchange), n \in Times,
           \A v \in Values : UpTo(Echoed(v), n - 1) <= UpTo(ReadBy(v), UpTo(Times, n - 1)),
           \A p \in 1 .. UpTo(Times, n - 1) : reads[p] \in Values,
           reads[UpTo(Times, n)] \in Values
    PROVE  /\ Open(n) = Open(n - 1) \cup {UpTo(Times, n)}
           /\ \A v \in Values : UpTo(Echoed(v), n) <= UpTo(ReadBy(v), UpTo(Times, n))
           /\ \A p \in 1 .. UpTo(Times, n) : reads[p] \in Values
<1> DEFINE q == UpTo(Times, n - 1)
           r == UpTo(Times, n)
<1>1. /\ q \in Nat /\ r = q + 1 /\ r \in 1 .. Len(reads)
      /\ \A v : UpTo(Echoed(v), n) = UpTo(Echoed(v), n - 1)
  <2>1. n \notin Echoes /\ \A v : n \notin Echoed(v)
    BY TurnIs
  <2>2. UpTo(Times, n - 1) \in Nat /\ UpTo(Times, n) <= Len(reads) /\ Len(reads) \in Nat
    BY TurnCounts
  <2>3. r = q + 1
    BY TurnIs
  <2> QED
    BY <2>1, <2>2, <2>3, TurnIs
<1>2. Len(reads) \in Nat /\ \A v, k : UpTo(Echoed(v), k) \in Nat /\ UpTo(ReadBy(v), k) \in Nat /\ ReadBy(v) \in SUBSET (1 .. Len(reads))
  BY TurnCounts
<1>3. ASSUME NEW v PROVE UpTo(ReadBy(v), r) = IF r \in ReadBy(v) THEN UpTo(ReadBy(v), q) + 1 ELSE UpTo(ReadBy(v), q)
  <2> HIDE DEF q, r
  <2> QED
    BY <1>1, <1>2, UpToNext
<1>4. r \in ReadBy(reads[r])
  BY <1>1, ListsAre DEF ReadBy, RecorderOK
<1> HIDE DEF q, r
<1>5. \A v \in Values : UpTo(Echoed(v), n - 1) <= UpTo(ReadBy(v), q)
  BY DEF q
<1>6. reads[r] \in Values /\ \A p \in 1 .. q : reads[p] \in Values
  BY DEF r, q
<1>7. \A v \in Values : UpTo(Echoed(v), n) <= UpTo(ReadBy(v), r)
  <2> TAKE v \in Values
  <2>1. UpTo(ReadBy(v), q) <= UpTo(ReadBy(v), r)
    <3>1. UpTo(ReadBy(v), q) \in Nat
      BY <1>2
    <3>2. UpTo(ReadBy(v), r) = UpTo(ReadBy(v), q) \/ UpTo(ReadBy(v), r) = UpTo(ReadBy(v), q) + 1
      BY <1>3
    <3> QED
      BY <3>1, <3>2
  <2>2. UpTo(Echoed(v), n) <= UpTo(ReadBy(v), q)
    BY <1>1, <1>5
  <2>3. UpTo(Echoed(v), n) \in Nat /\ UpTo(ReadBy(v), q) \in Nat /\ UpTo(ReadBy(v), r) \in Nat
    BY <1>2
  <2> QED
    BY <2>1, <2>2, <2>3
<1>8. \A p \in 1 .. r : p = r \/ p \in 1 .. q
  BY <1>1
<1>9. \A p \in 1 .. q : p \in 1 .. r
  BY <1>1
<1>10. Rank(r) > UpTo(Echoed(reads[r]), n)
  <2> DEFINE v == reads[r]
  <2>1. Rank(r) = UpTo(ReadBy(v), q) + 1
    BY <1>3, <1>4 DEF Rank
  <2>2. UpTo(Echoed(v), n) <= UpTo(ReadBy(v), q)
    BY <1>1, <1>5, <1>6
  <2> HIDE DEF v
  <2>3. UpTo(Echoed(v), n) \in Nat /\ UpTo(ReadBy(v), q) \in Nat
    BY <1>2
  <2> QED
    BY <2>1, <2>2, <2>3 DEF v
<1>11. Open(n) = {p \in 1 .. r : Rank(p) > UpTo(Echoed(reads[p]), n)} /\ Open(n - 1) = {p \in 1 .. q : Rank(p) > UpTo(Echoed(reads[p]), n)}
  BY <1>1 DEF Open, r, q
<1>12. r \in 1 .. r
  BY <1>1
<1>13. Open(n) = Open(n - 1) \cup {r}
  <2>1. ASSUME NEW p \in Open(n) PROVE p \in Open(n - 1) \cup {r}
    BY <1>8, <1>11
  <2>2. ASSUME NEW p \in Open(n - 1) PROVE p \in Open(n)
    BY <1>9, <1>11
  <2>3. r \in Open(n)
    BY <1>10, <1>11, <1>12
  <2> QED
    BY <2>1, <2>2, <2>3
<1> QED
  BY <1>6, <1>7, <1>8, <1>13 DEF r

\* Neither a client/time nor a reply.
LEMMA PassedByNext ==
    ASSUME RecorderOK, NEW n \in 1 .. Len(exchange), n \notin Times, n \notin Echoes
    PROVE  /\ UpTo(Times, n) = UpTo(Times, n - 1) /\ Open(n) = Open(n - 1)
           /\ \A v : UpTo(Echoed(v), n) = UpTo(Echoed(v), n - 1)
<1>1. UpTo(Times, n) = UpTo(Times, n - 1) /\ \A v : UpTo(Echoed(v), n) = UpTo(Echoed(v), n - 1)
  BY TurnIs
<1> QED
  BY <1>1 DEF Open

\* A reply answers the first client/time of its value that is without one.
LEMMA AnsweredNext ==
    ASSUME RecorderOK, NEW n \in 1 .. Len(exchange), NEW v \in Values, n \in Echoed(v),
           NEW o \in Open(n - 1), reads[o] = v
    PROVE  \E p \in Open(n - 1) :
              /\ reads[p] = v /\ \A u \in Open(n - 1) : reads[u] = v => p <= u
              /\ Open(n) = Open(n - 1) \ {p}
              /\ UpTo(Times, n) = UpTo(Times, n - 1)
              /\ Rank(p) = UpTo(Echoed(v), n - 1) + 1
<1> DEFINE c == UpTo(Echoed(v), n - 1)
           r == UpTo(Times, n - 1)
<1>1. /\ UpTo(Times, n) = r /\ UpTo(Echoed(v), n) = c + 1
      /\ \A w : w # v => UpTo(Echoed(w), n) = UpTo(Echoed(w), n - 1)
  <2>1. exchange[n].type = "server/time" /\ exchange[n].value = v
    BY TurnIs
  <2>2. n \notin Times /\ \A w : w # v => n \notin Echoed(w)
    BY <2>1, TurnIs
  <2> QED
    BY <2>2, TurnIs
<1>2. c \in Nat /\ r \in Nat /\ r <= Len(reads) /\ Len(reads) \in Nat /\ ReadBy(v) \in SUBSET (1 .. Len(reads))
      /\ (\A k : UpTo(ReadBy(v), k) \in Nat) /\ \A k : Rank(k) \in Nat
  BY TurnCounts
<1>3. DOMAIN reads = 1 .. Len(reads)
  BY ListsAre DEF RecorderOK
<1> HIDE DEF c, r
<1>4. Open(n - 1) = {p \in 1 .. r : Rank(p) > UpTo(Echoed(reads[p]), n - 1)}
  BY DEF Open, r
<1>5. Open(n) = {p \in 1 .. r : Rank(p) > UpTo(Echoed(reads[p]), n)}
  BY <1>1 DEF Open
<1>6. \A u \in 1 .. r : u \in 1 .. Len(reads)
  BY <1>2
<1>7. \A u \in 1 .. r : reads[u] = v => u \in ReadBy(v) /\ Rank(u) = UpTo(ReadBy(v), u)
  BY <1>3, <1>6 DEF ReadBy, Rank
<1>8. o \in 1 .. r /\ Rank(o) > c
  BY <1>4 DEF c
<1>9. c + 1 \in 1 .. UpTo(ReadBy(v), o)
  BY <1>2, <1>7, <1>8
<1>10. PICK p \in ReadBy(v) : p <= o /\ UpTo(ReadBy(v), p) = c + 1
  <2>1. o \in 0 .. Len(reads)
    BY <1>2, <1>8
  <2> QED
    BY <1>2, <1>9, <2>1, UpToHits
<1>11. p \in 1 .. r /\ reads[p] = v /\ Rank(p) = c + 1 /\ p \in Nat
  <2>1. p \in 1 .. Len(reads) /\ reads[p] = v /\ Rank(p) = UpTo(ReadBy(v), p)
    BY RankGrows
  <2> QED
    BY <1>2, <1>8, <1>10, <2>1
<1>12. p \in Open(n - 1)
  BY <1>2, <1>4, <1>11 DEF c
<1>13. \A u \in Open(n - 1) : reads[u] = v => p <= u /\ (u # p => Rank(u) > c + 1)
  <2> TAKE u \in Open(n - 1)
  <2> HAVE reads[u] = v
  <2>1. u \in 1 .. r /\ Rank(u) > c /\ u \in ReadBy(v) /\ u \in Nat /\ Rank(u) \in Nat
    BY <1>2, <1>4, <1>7 DEF c
  <2>2. u < p => Rank(u) < Rank(p)
    BY <2>1, RankGrows
  <2>3. p < u => Rank(p) < Rank(u)
    BY <2>1, RankGrows
  <2> QED
    BY <1>2, <1>11, <2>1, <2>2, <2>3
<1>14. Open(n) = Open(n - 1) \ {p}
  <2>1. ASSUME NEW u \in 1 .. r PROVE u \in Open(n) <=> u \in Open(n - 1) /\ u # p
    <3>1. u \in Open(n) <=> Rank(u) > UpTo(Echoed(reads[u]), n)
      BY <1>5
    <3>2. u \in Open(n - 1) <=> Rank(u) > UpTo(Echoed(reads[u]), n - 1)
      BY <1>4
    <3>3. CASE reads[u] # v
      BY <1>1, <1>11, <3>1, <3>2, <3>3
    <3>4. CASE reads[u] = v
      <4>1. u \in Open(n) <=> Rank(u) > c + 1
        BY <1>1, <3>1, <3>4
      <4>2. u \in Open(n - 1) <=> Rank(u) > c
        BY <3>2, <3>4 DEF c
      <4>3. u \in Open(n - 1) /\ u # p => Rank(u) > c + 1
        BY <1>13, <3>4
      <4>4. ~(Rank(p) > c + 1) /\ (Rank(u) > c + 1 => Rank(u) > c)
        BY <1>2, <1>11
      <4> QED
        BY <4>1, <4>2, <4>3, <4>4
    <3> QED
      BY <3>3, <3>4
  <2>2. (\A u \in Open(n) : u \in 1 .. r) /\ (\A u \in Open(n - 1) : u \in 1 .. r)
    BY <1>4, <1>5
  <2> QED
    BY <2>1, <2>2
<1> QED
  BY <1>1, <1>11, <1>12, <1>13, <1>14 DEF c, r

\* An echo of a value that nothing open has: more replies than had been asked for by then.
LEMMA NothingAsked ==
    ASSUME RecorderOK, NEW n \in 1 .. Len(exchange), NEW v \in Values, n \in Echoed(v),
           \A p \in Open(n - 1) : reads[p] # v
    PROVE  \E i \in Replies : /\ done[i].message.value = v
                              /\ Cardinality(RepliesOf(v, i)) > Cardinality(ReadsOf(v, done[i].ended))
<1> DEFINE c == UpTo(Echoed(v), n - 1)
           r == UpTo(Times, n - 1)
<1>1. exchange[n].type = "server/time" /\ exchange[n].value = v /\ n \in Echoes /\ n \notin Times
  BY TurnIs
<1>2. UpTo(Times, n) = r /\ UpTo(Echoed(v), n) = c + 1
  BY <1>1, TurnIs
<1>3. c \in Nat /\ r \in Nat /\ r <= Len(reads) /\ Len(reads) \in Nat /\ ReadBy(v) \in SUBSET (1 .. Len(reads))
      /\ UpTo(ReadBy(v), r) \in Nat
  BY TurnCounts
<1>4. DOMAIN reads = 1 .. Len(reads)
  BY ListsAre DEF RecorderOK
<1>5. PICK i \in Replies : Is(n, i)
  BY <1>1 DEF RecorderOK, RepliesOK
<1>6. done[i].message.value = v /\ done[i].ended = r /\ UpTo(Replied(v), i) = c + 1
  BY <1>1, <1>2, <1>5 DEF Is
<1> HIDE DEF c, r
<1>7. Cardinality(RepliesOf(v, i)) = c + 1
  <2>1. RepliesOf(v, i) = {d \in Replied(v) : d <= i}
    BY DEF RepliesOf, Replied
  <2> QED
    BY <1>6, <2>1 DEF UpTo
<1>8. Cardinality(ReadsOf(v, r)) = UpTo(ReadBy(v), r)
  <2>1. \A p \in 1 .. Len(reads) : p <= r <=> p \in 1 .. r
    BY <1>3
  <2>2. \A p \in 1 .. r : p \in 1 .. Len(reads)
    BY <1>3
  <2>3. ReadsOf(v, r) = {p \in ReadBy(v) : p <= r}
    BY <1>4, <2>1, <2>2 DEF ReadsOf, ReadBy
  <2> QED
    BY <2>3 DEF UpTo
<1>9. ASSUME UpTo(ReadBy(v), r) > c PROVE FALSE
  <2>1. UpTo(ReadBy(v), r) \in 1 .. UpTo(ReadBy(v), r) /\ r \in 0 .. Len(reads)
    BY <1>3, <1>9
  <2>2. PICK p \in ReadBy(v) : p <= r /\ UpTo(ReadBy(v), p) = UpTo(ReadBy(v), r)
    BY <1>3, <2>1, UpToHits
  <2>3. p \in 1 .. r /\ reads[p] = v /\ Rank(p) > c
    <3>1. p \in 1 .. Len(reads) /\ reads[p] = v /\ Rank(p) = UpTo(ReadBy(v), p)
      BY RankGrows
    <3> QED
      BY <1>3, <1>9, <2>2, <3>1
  <2>4. p \in Open(n - 1)
    BY <2>3 DEF Open, c, r
  <2> QED
    BY <2>3, <2>4
<1> QED
  BY <1>3, <1>6, <1>7, <1>8, <1>9

LEMMA AskIs == \A p : Ask(p).position = p /\ Ask(p).value = reads[p]
BY DEF Ask

LEMMA BlamesDiffer ==
    \A k \in {"client", "malformed", "backwards", "echo", "answered_later", "sent_past"} : \A p :
        /\ [kind |-> k, position |-> p] # NoBlame
        /\ [kind |-> k, position |-> p].kind = k /\ [kind |-> k, position |-> p].position = p
BY DEF NoBlame

\* The least of some positions is the first of their entries.
LEMMA FirstIs ==
    ASSUME NEW P \in SUBSET Nat, NEW p \in P, \A u \in P : p <= u
    PROVE  First({Ask(u) : u \in P}) = Ask(p)
<1> DEFINE us == {Ask(u) : u \in P}
           least(u) == u \in us /\ \A o \in us : u.position <= o.position
<1>1. least(Ask(p))
  BY AskIs
<1>2. ASSUME NEW u, least(u) PROVE u = Ask(p)
  <2>1. PICK q \in P : u = Ask(q)
    BY <1>2
  <2>2. q <= p /\ p <= q
    BY <1>1, <1>2, <2>1, AskIs
  <2>3. q \in Nat /\ p \in Nat
    OBVIOUS
  <2> QED
    BY <2>1, <2>2, <2>3
<1>3. First(us) = CHOOSE u : least(u)
  BY DEF First
<1> HIDE DEF least
<1>4. (CHOOSE u : least(u)) = Ask(p)
  BY <1>1, <1>2
<1> QED
  BY <1>3, <1>4

LEMMA TurnStart == RecorderOK => Turned(Start, 0)
<1> SUFFICES ASSUME RecorderOK PROVE Turned(Start, 0)
  OBVIOUS
<1>1. /\ UpTo(Times, 0) = 0 /\ Marks \in SUBSET (1 .. Len(exchange)) /\ Len(exchange) \in Nat
      /\ \A v : UpTo(Echoed(v), 0) = 0 /\ UpTo(ReadBy(v), 0) \in Nat
  BY TurnCounts
<1>2. Open(0) = {}
  BY <1>1 DEF Open
<1>3. Passed(0) = {}
  <2>1. \A m \in Marks : ~(m <= 0)
    BY <1>1
  <2> QED
    BY <2>1 DEF Passed
<1>4. /\ Start.unanswered = {} /\ Start.received = 0 /\ Start.latest_answered = 0 /\ Start.passed_over = {} /\ Start.blame = NoBlame
      /\ DOMAIN Start = Fields
  BY DEF Start, Fields
<1> HIDE DEF Start
<1>5. \A v : UpTo(Echoed(v), 0) <= UpTo(ReadBy(v), UpTo(Times, 0))
  BY <1>1
<1>6. \A p \in 1 .. UpTo(Times, 0) : reads[p] \in Values
  BY <1>1
<1>7. Clean(Start, 0)
  BY <1>1, <1>2, <1>3, <1>4, <1>5, <1>6 DEF Clean
<1> QED
  BY <1>4, <1>7 DEF Turned

LEMMA ClientTurn ==
    ASSUME RecorderOK, NEW n \in 1 .. Len(exchange), NEW j, Turned(j, n - 1), j.blame = NoBlame,
           exchange[n].type = "client/time"
    PROVE  /\ Turned(JudgeClientTime(j, exchange[n]), n)
           /\ reads[UpTo(Times, n)] \in Values => JudgeClientTime(j, exchange[n]).blame = NoBlame
<1> DEFINE r == UpTo(Times, n)
           e == exchange[n]
           blame == IF e.value = NotInteger THEN [kind |-> "client", position |-> j.received + 1] ELSE j.blame
           us == j.unanswered \cup {[position |-> j.received + 1, value |-> e.value]}
           k == JudgeClientTime(j, e)
<1>1. /\ DOMAIN j = Fields
      /\ Clean(j, n - 1)
  BY DEF Turned
<1>2. n \in Times /\ n \notin Marks
  BY TurnIs
<1>3. r = UpTo(Times, n - 1) + 1 /\ UpTo(Times, n - 1) \in Nat /\ r \in Nat /\ j.received + 1 = r
  <2>1. UpTo(Times, n - 1) \in Nat /\ UpTo(Times, n) \in Nat
    BY TurnCounts
  <2>2. r = UpTo(Times, n - 1) + 1
    BY <1>2, TurnIs
  <2> QED
    BY <1>1, <2>1, <2>2 DEF Clean
<1>4. e.value = reads[r]
  <2>1. e = ClientTime(reads[r])
    BY <1>2 DEF RecorderOK, TimesOK
  <2> QED
    BY <2>1, EntryIs
<1>6. /\ k.unanswered = us /\ k.received = r /\ k.latest_answered = j.latest_answered
      /\ k.passed_over = j.passed_over /\ k.blame = blame
      /\ DOMAIN k = Fields
  <2> DEFINE r1 == j.received + 1
  <2>1. k = [j EXCEPT !.received = r1, !.unanswered = us, !.blame = blame]
    BY DEF JudgeClientTime
  <2>2. r1 = r
    BY <1>3
  <2> HIDE DEF us, blame, k, r1
  <2> QED
    BY <1>1, <2>1, <2>2 DEF Fields
<1>7. us = j.unanswered \cup {Ask(r)}
  BY <1>3, <1>4 DEF Ask
<1>8. blame = IF reads[r] = NotInteger THEN [kind |-> "client", position |-> r] ELSE NoBlame
  BY <1>3, <1>4
<1> HIDE DEF us, blame, k, r
<1>9. CASE reads[r] = NotInteger
  <2>1. k.blame # NoBlame /\ k.blame.kind = "client" /\ k.blame.position = r
    BY <1>6, <1>8, <1>9, BlamesDiffer
  <2>2. Named(k.blame)
    BY <1>9, <2>1 DEF Named
  <2>3. NotInteger \notin Values
    BY ValuesAssumption
  <2> QED
    BY <1>6, <1>9, <2>1, <2>2, <2>3 DEF Turned, k, r
<1>10. CASE reads[r] # NotInteger
  <2>1. reads[r] \in Values
    <3>1. r \in 1 .. Len(reads)
      <4>1. UpTo(Times, n) <= Len(reads) /\ Len(reads) \in Nat
        BY TurnCounts
      <4> QED
        BY <1>3, <4>1 DEF r
    <3> QED
      BY <1>10, <3>1, ListsAre DEF RecorderOK
  <2>2. /\ Open(n) = Open(n - 1) \cup {r}
        /\ \A v \in Values : UpTo(Echoed(v), n) <= UpTo(ReadBy(v), r)
        /\ \A p \in 1 .. r : reads[p] \in Values
    BY <1>1, <1>2, <2>1, AskedNext DEF Clean, r
  <2>3. k.unanswered = {Ask(p) : p \in Open(n)}
    <3>1. j.unanswered = {Ask(p) : p \in Open(n - 1)}
      BY <1>1 DEF Clean
    <3> QED
      BY <1>6, <1>7, <2>2, <3>1
  <2>4. Passed(n) = Passed(n - 1)
    BY <1>2, PassedNext
  <2>5. k.latest_answered = 0 \/ k.latest_answered \in (1 .. r) \ Open(n)
    <3> DEFINE q == UpTo(Times, n - 1)
    <3>1. j.latest_answered = 0 \/ j.latest_answered \in (1 .. q) \ Open(n - 1)
      BY <1>1 DEF Clean
    <3>2. \A l \in 1 .. q : l \in 1 .. r /\ l # r
      BY <1>3
    <3> HIDE DEF q
    <3> QED
      BY <1>6, <2>2, <3>1, <3>2
  <2>6. Clean(k, n)
    BY <1>1, <1>6, <2>2, <2>3, <2>4, <2>5 DEF Clean, r
  <2>7. k.blame = NoBlame
    BY <1>6, <1>8, <1>10
  <2> QED
    BY <1>6, <2>6, <2>7 DEF Turned, k
<1> QED
  BY <1>9, <1>10

LEMMA OtherTurn ==
    ASSUME RecorderOK, NEW n \in 1 .. Len(exchange), NEW j, Turned(j, n - 1), j.blame = NoBlame,
           exchange[n].type = "other-sent"
    PROVE  Turned(JudgeOtherSent(j), n) /\ JudgeOtherSent(j).blame = NoBlame
<1> DEFINE k == JudgeOtherSent(j)
<1>1. /\ DOMAIN j = Fields
      /\ Clean(j, n - 1)
  BY DEF Turned
<1>2. n \notin Times /\ n \in Marks /\ n \notin Echoes
  BY TurnIs
<1>3. /\ k.unanswered = j.unanswered /\ k.received = j.received /\ k.latest_answered = j.latest_answered
      /\ k.passed_over = j.passed_over \cup {u.position : u \in j.unanswered} /\ k.blame = j.blame
      /\ DOMAIN k = Fields
  <2> DEFINE ps == j.passed_over \cup {u.position : u \in j.unanswered}
  <2>1. k = [j EXCEPT !.passed_over = ps]
    BY DEF JudgeOtherSent
  <2> HIDE DEF ps, k
  <2>2. k.passed_over = ps
    BY <1>1, <2>1 DEF Fields
  <2>3. /\ k.unanswered = j.unanswered /\ k.received = j.received /\ k.latest_answered = j.latest_answered
        /\ k.blame = j.blame /\ DOMAIN k = Fields
    BY <1>1, <2>1 DEF Fields
  <2> QED
    BY <2>2, <2>3 DEF ps
<1> HIDE DEF k
<1>4. /\ UpTo(Times, n) = UpTo(Times, n - 1) /\ Open(n) = Open(n - 1)
      /\ \A v : UpTo(Echoed(v), n) = UpTo(Echoed(v), n - 1)
  BY <1>2, PassedByNext
<1>5. {u.position : u \in j.unanswered} = Open(n)
  <2>1. j.unanswered = {Ask(p) : p \in Open(n)}
    BY <1>1, <1>4 DEF Clean
  <2>2. \A p : Ask(p).position = p
    BY AskIs
  <2>3. {Ask(p).position : p \in Open(n)} = Open(n)
    BY <2>2
  <2>4. {u.position : u \in {Ask(p) : p \in Open(n)}} = {Ask(p).position : p \in Open(n)}
    OBVIOUS
  <2> QED
    BY <2>1, <2>3, <2>4
<1>6. Passed(n) = Passed(n - 1) \cup Open(n)
  BY <1>2, PassedNext
<1>7. Clean(k, n)
  BY <1>1, <1>3, <1>4, <1>5, <1>6 DEF Clean
<1> QED
  BY <1>3, <1>7 DEF Turned, k

\* What the loop makes of a reply.
LEMMA JudgeServerTimeIs ==
    ASSUME NEW j, DOMAIN j = Fields, NEW e, e.value # NotInteger
    PROVE  LET same == {u \in j.unanswered : u.value = e.value}
               k == JudgeServerTime(j, e)
           IN  /\ same = {} => DOMAIN k = Fields /\ k.blame = [kind |-> "echo", position |-> 0]
               /\ same # {} =>
                    /\ k.unanswered = j.unanswered \ {First(same)} /\ k.received = j.received
                    /\ k.latest_answered = IF First(same).position > j.latest_answered THEN First(same).position ELSE j.latest_answered
                    /\ k.passed_over = j.passed_over /\ DOMAIN k = Fields
                    /\ k.blame = IF e.backwards THEN [kind |-> "backwards", position |-> 0] ELSE j.blame
<1> DEFINE same == {u \in j.unanswered : u.value = e.value}
           k == JudgeServerTime(j, e)
           a == j.unanswered \ {First(same)}
           b == IF First(same).position > j.latest_answered THEN First(same).position ELSE j.latest_answered
           c == IF e.backwards THEN [kind |-> "backwards", position |-> 0] ELSE j.blame
           d == [kind |-> "echo", position |-> 0]
<1>1. CASE same = {}
  <2>1. k = [j EXCEPT !.blame = d]
    BY <1>1 DEF JudgeServerTime
  <2> HIDE DEF k, d
  <2>2. DOMAIN k = Fields /\ k.blame = d
    BY <2>1 DEF Fields
  <2> QED
    BY <1>1, <2>2 DEF k, d
<1>2. CASE same # {}
  <2>1. k = [j EXCEPT !.unanswered = a, !.latest_answered = b, !.blame = c]
    BY <1>2 DEF JudgeServerTime
  <2> HIDE DEF k, a, b, c
  <2>2. /\ k.unanswered = a /\ k.received = j.received /\ k.latest_answered = b
        /\ k.passed_over = j.passed_over /\ DOMAIN k = Fields /\ k.blame = c
    BY <2>1 DEF Fields
  <2> QED
    BY <1>2, <2>2 DEF a, b, c, k
<1> QED
  BY <1>1, <1>2

LEMMA MalformedIs ==
    ASSUME NEW j, DOMAIN j = Fields, NEW e, e.value = NotInteger
    PROVE  DOMAIN JudgeServerTime(j, e) = Fields /\ JudgeServerTime(j, e).blame = [kind |-> "malformed", position |-> 0]
<1> DEFINE d == [kind |-> "malformed", position |-> 0]
           k == JudgeServerTime(j, e)
<1>1. k = [j EXCEPT !.blame = d]
  BY DEF JudgeServerTime
<1> HIDE DEF d, k
<1>2. DOMAIN k = Fields /\ k.blame = d
  BY <1>1 DEF Fields
<1> QED
  BY <1>2 DEF d, k

\* For each reply listed one was sent.
LEMMA ListedIsSent ==
    ASSUME RecorderOK, NEW n \in Echoes
    PROVE  \E i \in Replies : done[i].message = exchange[n]
BY DEF RecorderOK, RepliesOK, Is

LEMMA ServerTurn ==
    ASSUME RecorderOK, NEW n \in 1 .. Len(exchange), NEW j, Turned(j, n - 1), j.blame = NoBlame,
           exchange[n].type = "server/time"
    PROVE  /\ Turned(JudgeServerTime(j, exchange[n]), n)
           /\ exchange[n].value \in Values /\ ~exchange[n].backwards /\ (\E p \in Open(n - 1) : reads[p] = exchange[n].value)
                 => JudgeServerTime(j, exchange[n]).blame = NoBlame
<1> DEFINE e == exchange[n]
           v == e.value
           k == JudgeServerTime(j, e)
           same == {u \in j.unanswered : u.value = e.value}
           asked == {q \in Open(n - 1) : reads[q] = v}
<1>1. DOMAIN j = Fields /\ Clean(j, n - 1)
  BY DEF Turned
<1>2. n \in Echoes /\ n \notin Marks /\ v \in Values \cup {NotInteger} /\ e.backwards \in BOOLEAN /\ n \in Echoed(v)
  <2>1. e \in Entry /\ n \in Echoes /\ n \notin Marks /\ n \in Echoed(v)
    BY TurnIs
  <2>2. e \in Messages
    BY <2>1, EntryIs
  <2> QED
    BY <2>1, <2>2, EntryIs
<1>3. PICK i \in Replies : done[i].message = e
  BY <1>2, ListedIsSent
<1>4. NotInteger \notin Values
  BY ValuesAssumption
<1>5. same = {Ask(p) : p \in asked}
  <2>1. j.unanswered = {Ask(p) : p \in Open(n - 1)}
    BY <1>1 DEF Clean
  <2>2. ASSUME NEW u \in same PROVE u \in {Ask(p) : p \in asked}
    <3>1. PICK p \in Open(n - 1) : u = Ask(p)
      BY <2>1
    <3>2. reads[p] = v
      BY <3>1, AskIs
    <3> QED
      BY <3>1, <3>2
  <2>3. ASSUME NEW p \in asked PROVE Ask(p) \in same
    BY <2>1, AskIs
  <2> HIDE DEF same, asked
  <2> QED
    BY <2>2, <2>3
<1>6. same = {} <=> asked = {}
  BY <1>5
<1> HIDE DEF e
<1>7. CASE v = NotInteger
  <2>1. DOMAIN k = Fields /\ k.blame = [kind |-> "malformed", position |-> 0]
    BY <1>1, <1>7, MalformedIs
  <2> HIDE DEF k
  <2>2. k.blame # NoBlame /\ k.blame.kind = "malformed"
    BY <2>1, BlamesDiffer
  <2>3. Named(k.blame)
    BY <1>3, <1>7, <2>2 DEF Named
  <2> QED
    BY <1>4, <1>7, <2>1, <2>2, <2>3 DEF Turned, k, e
<1>8. CASE v # NotInteger /\ asked = {}
  <2>1. DOMAIN k = Fields /\ k.blame = [kind |-> "echo", position |-> 0]
    BY <1>1, <1>6, <1>8, JudgeServerTimeIs
  <2> HIDE DEF k
  <2>2. k.blame # NoBlame /\ k.blame.kind = "echo"
    BY <2>1, BlamesDiffer
  <2>3. \E d \in Replies : /\ done[d].message.value = v
                           /\ Cardinality(RepliesOf(v, d)) > Cardinality(ReadsOf(v, done[d].ended))
    <3> HIDE DEF v
    <3>1. v \in Values /\ \A p \in Open(n - 1) : reads[p] # v
      BY <1>2, <1>8
    <3> QED
      BY <1>2, <3>1, NothingAsked
  <2>4. Named(k.blame)
    BY <2>2, <2>3 DEF Named
  <2>5. ~ \E p \in Open(n - 1) : reads[p] = v
    BY <1>8
  <2> QED
    BY <2>1, <2>2, <2>4, <2>5 DEF Turned, k, e
<1>9. CASE v # NotInteger /\ asked # {}
  <2>1. v \in Values
    BY <1>2, <1>9
  <2>2. PICK p \in Open(n - 1) :
              /\ reads[p] = v /\ \A u \in Open(n - 1) : reads[u] = v => p <= u
              /\ Open(n) = Open(n - 1) \ {p}
              /\ UpTo(Times, n) = UpTo(Times, n - 1)
              /\ Rank(p) = UpTo(Echoed(v), n - 1) + 1
    <3>1. PICK o \in Open(n - 1) : reads[o] = v
      BY <1>9
    <3> HIDE DEF v
    <3> QED
      BY <1>2, <2>1, <3>1, AnsweredNext
  <2>3. First(same) = Ask(p)
    <3>1. asked \in SUBSET Nat /\ p \in asked /\ \A u \in asked : p <= u
      BY <2>2 DEF Open
    <3> HIDE DEF asked
    <3> QED
      BY <1>5, <3>1, FirstIs
  <2>4. First(same).position = p
    BY <2>3, AskIs
  <2>5. /\ k.unanswered = j.unanswered \ {Ask(p)} /\ k.received = j.received
        /\ k.latest_answered = IF p > j.latest_answered THEN p ELSE j.latest_answered
        /\ k.passed_over = j.passed_over /\ DOMAIN k = Fields
        /\ k.blame = IF e.backwards THEN [kind |-> "backwards", position |-> 0] ELSE NoBlame
    <3> HIDE DEF k, same
    <3>1. /\ k.unanswered = j.unanswered \ {First(same)} /\ k.received = j.received
          /\ k.latest_answered = IF First(same).position > j.latest_answered THEN First(same).position ELSE j.latest_answered
          /\ k.passed_over = j.passed_over /\ DOMAIN k = Fields
          /\ k.blame = IF e.backwards THEN [kind |-> "backwards", position |-> 0] ELSE j.blame
      BY <1>1, <1>6, <1>9, JudgeServerTimeIs DEF k, same
    <3> QED
      BY <2>3, <2>4, <3>1
  <2> HIDE DEF k, same, asked, v
  <2>6. CASE e.backwards
    <3>1. k.blame # NoBlame /\ k.blame.kind = "backwards"
      BY <2>5, <2>6, BlamesDiffer
    <3>2. Named(k.blame)
      BY <1>3, <2>6, <3>1 DEF Named
    <3> QED
      BY <2>5, <2>6, <3>1, <3>2 DEF Turned, k, e
  <2>7. CASE ~e.backwards
    <3>1. k.blame = NoBlame
      BY <2>5, <2>7
    <3>2. k.unanswered = {Ask(q) : q \in Open(n)}
      <4>1. j.unanswered = {Ask(q) : q \in Open(n - 1)}
        BY <1>1 DEF Clean
      <4>2. \A q \in Open(n - 1) : Ask(q) = Ask(p) => q = p
        BY AskIs
      <4>3. ASSUME NEW u \in k.unanswered PROVE u \in {Ask(q) : q \in Open(n)}
        BY <2>2, <2>5, <4>1
      <4>4. ASSUME NEW q \in Open(n) PROVE Ask(q) \in k.unanswered
        BY <2>2, <2>5, <4>1, <4>2
      <4> QED
        BY <4>3, <4>4
    <3>3. Passed(n) = Passed(n - 1)
      BY <1>2, PassedNext
    <3>4. k.latest_answered = 0 \/ k.latest_answered \in (1 .. UpTo(Times, n)) \ Open(n)
      <4>1. j.latest_answered = 0 \/ j.latest_answered \in (1 .. UpTo(Times, n)) \ Open(n - 1)
        BY <1>1, <2>2 DEF Clean
      <4>2. p \in 1 .. UpTo(Times, n)
        BY <2>2 DEF Open
      <4>3. k.latest_answered = p \/ k.latest_answered = j.latest_answered
        BY <2>5
      <4> QED
        BY <2>2, <4>1, <4>2, <4>3
    <3>5. \A w \in Values : UpTo(Echoed(w), n) <= UpTo(ReadBy(w), UpTo(Times, n))
      <4> TAKE w \in Values
      <4>1. UpTo(Echoed(w), n - 1) <= UpTo(ReadBy(w), UpTo(Times, n))
        BY <1>1, <2>2 DEF Clean
      <4>2. CASE w # v
        <5>1. n \notin Echoed(w)
          BY <4>2, TurnIs DEF v, e
        <5>2. UpTo(Echoed(w), n) = UpTo(Echoed(w), n - 1)
          BY <5>1, TurnIs
        <5> QED
          BY <4>1, <5>2
      <4>3. CASE w = v
        <5>1. UpTo(Echoed(v), n) = UpTo(Echoed(v), n - 1) + 1
          BY <1>2, TurnIs
        <5>2. p <= UpTo(Times, n) /\ p \in Nat /\ UpTo(Times, n) \in Nat
          <6>1. p \in 1 .. UpTo(Times, n)
            BY <2>2 DEF Open
          <6>2. UpTo(Times, n) \in Nat
            BY TurnCounts
          <6> QED
            BY <6>1, <6>2
        <5>3. Rank(p) = UpTo(ReadBy(v), p)
          BY <2>2 DEF Rank
        <5>4. UpTo(ReadBy(v), p) <= UpTo(ReadBy(v), UpTo(Times, n))
          <6>1. ReadBy(v) \in SUBSET (1 .. Len(reads)) /\ Len(reads) \in Nat
            BY TurnCounts
          <6> QED
            BY <5>2, <6>1, UpToGrows
        <5> QED
          BY <2>2, <4>3, <5>1, <5>3, <5>4
      <4> QED
        BY <4>2, <4>3
    <3>6. Clean(k, n)
      BY <1>1, <2>2, <2>5, <3>2, <3>3, <3>4, <3>5 DEF Clean
    <3> QED
      BY <2>5, <3>1, <3>6 DEF Turned, k, e
  <2> QED
    BY <1>2, <2>6, <2>7
<1> QED
  BY <1>7, <1>8, <1>9

\* One turn of the loop.
LEMMA TurnKeeps ==
    ASSUME RecorderOK, NEW n \in 1 .. Len(exchange), NEW j, Turned(j, n - 1)
    PROVE  Turned(JudgeEntry(j, exchange[n]), n)
<1> DEFINE e == exchange[n]
<1>1. CASE j.blame # NoBlame
  <2>1. JudgeEntry(j, e) = j
    BY <1>1 DEF JudgeEntry
  <2> QED
    BY <1>1, <2>1 DEF Turned
<1>2. CASE j.blame = NoBlame
  <2>1. e.type \in {"client/time", "server/time", "other-sent"}
    BY TurnIs, EntryIs
  <2>2. CASE e.type = "client/time"
    <3>1. JudgeEntry(j, e) = JudgeClientTime(j, e)
      BY <1>2, <2>2 DEF JudgeEntry
    <3> QED
      BY <1>2, <2>2, <3>1, ClientTurn
  <2>3. CASE e.type = "server/time"
    <3>1. JudgeEntry(j, e) = JudgeServerTime(j, e)
      BY <1>2, <2>3 DEF JudgeEntry
    <3> QED
      BY <1>2, <2>3, <3>1, ServerTurn
  <2>4. CASE e.type = "other-sent"
    <3>1. JudgeEntry(j, e) = JudgeOtherSent(j)
      BY <1>2, <2>4 DEF JudgeEntry
    <3> QED
      BY <1>2, <2>4, <3>1, OtherTurn
  <2> QED
    BY <2>1, <2>2, <2>3, <2>4
<1> QED
  BY <1>1, <1>2

LEMMA LoopTurned ==
    ASSUME RecorderOK
    PROVE  \A n \in 0 .. Len(exchange) : Turned(Loop[n], n)
<1> DEFINE N == Len(exchange)
           bad == {n \in Nat : n <= N /\ ~Turned(Loop[n], n)}
<1>1. N \in Nat
  BY TurnCounts
<1>2. bad = {}
  <2> SUFFICES ASSUME bad # {} PROVE FALSE
    OBVIOUS
  <2>1. PICK n \in bad : \A k \in bad : n <= k
    <3>1. bad \in SUBSET Nat
      OBVIOUS
    <3> HIDE DEF bad
    <3> QED
      BY <3>1, LeastOf
  <2>2. n \in Nat /\ n <= N /\ ~Turned(Loop[n], n)
    BY <2>1
  <2>3. CASE n = 0
    <3>1. Loop[0] = Start /\ Turned(Start, 0)
      BY LoopIs, TurnStart
    <3> QED
      BY <2>2, <2>3, <3>1
  <2>4. CASE n # 0
    <3>1. n - 1 \in Nat /\ n - 1 <= N /\ ~(n <= n - 1) /\ n \in 1 .. N
      BY <1>1, <2>2, <2>4
    <3>2. n - 1 \notin bad
      <4> HIDE DEF bad
      <4> QED
        BY <2>1, <3>1
    <3>3. Turned(Loop[n - 1], n - 1)
      BY <3>1, <3>2
    <3>4. Loop[n] = JudgeEntry(Loop[n - 1], exchange[n])
      BY <3>1, LoopIs
    <3>5. Turned(JudgeEntry(Loop[n - 1], exchange[n]), n)
      BY <3>1, <3>3, TurnKeeps
    <3> QED
      BY <2>2, <3>4, <3>5
  <2> QED
    BY <2>3, <2>4
<1>3. \A n \in 0 .. N : n \in Nat /\ n <= N
  BY <1>1
<1> QED
  BY <1>2, <1>3

\* What is answered, by the counts.
LEMMA AnsweredIs ==
    ASSUME RecorderOK, NEW p \in 1 .. Len(reads), reads[p] \in Values
    PROVE  Answered(p) <=> p \notin Open(Len(exchange))
<1> DEFINE v == reads[p]
           N == Len(exchange)
<1>1. /\ Len(reads) \in Nat /\ UpTo(Times, N) = Len(reads) /\ N \in Nat
      /\ UpTo(Echoed(v), N) \in Nat /\ UpTo(ReadBy(v), p) \in Nat /\ Echoed(v) \in SUBSET (1 .. N)
  BY TurnCounts
<1>2. DOMAIN reads = 1 .. Len(reads) /\ DOMAIN done = 1 .. Len(done) /\ Len(done) \in Nat /\ Replies \in SUBSET (1 .. Len(done))
  BY ListsAre DEF RecorderOK
<1>3. Cardinality(RepliesOf(v, Len(done))) = UpTo(Echoed(v), N)
  <2>1. RepliesOf(v, Len(done)) = Replied(v)
    <3>1. \A d \in Replies : d <= Len(done)
      BY <1>2
    <3> QED
      BY <3>1 DEF RepliesOf, Replied
  <2>2. Cardinality(Echoed(v)) = Cardinality(Replied(v))
    BY DEF RecorderOK, RepliesOK
  <2>3. UpTo(Echoed(v), N) = Cardinality(Echoed(v))
    BY <1>1, UpToIs
  <2> QED
    BY <2>1, <2>2, <2>3
<1>4. Cardinality(ReadsOf(v, p)) = Rank(p)
  <2>1. \A q \in 1 .. Len(reads) : q <= p <=> q \in 1 .. p
    BY <1>1
  <2>2. \A q \in 1 .. p : q \in 1 .. Len(reads)
    BY <1>1
  <2>3. ReadsOf(v, p) = {q \in ReadBy(v) : q <= p}
    BY <1>2, <2>1, <2>2 DEF ReadsOf, ReadBy
  <2> QED
    BY <2>3 DEF UpTo, Rank
<1>5. Answered(p) <=> UpTo(Echoed(v), N) >= Rank(p)
  BY <1>3, <1>4 DEF Answered
<1>6. p \in Open(N) <=> Rank(p) > UpTo(Echoed(v), N)
  BY <1>1 DEF Open
<1>7. Rank(p) \in Nat
  BY <1>1 DEF Rank
<1> QED
  BY <1>1, <1>5, <1>6, <1>7

\* The first of the client/time messages that the server went on without.
LEMMA LeftIs ==
    ASSUME RecorderOK, NEW j, Clean(j, Len(exchange))
    PROVE  \/ /\ LeftUnanswered(j) = NoBlame
              /\ \A p \in Open(Len(exchange)) : WentOn(j, p) = "none"
           \/ \E p \in Open(Len(exchange)) :
                 /\ WentOn(j, p) # "none"
                 /\ LeftUnanswered(j) = [kind |-> WentOn(j, p), position |-> p]
<1> DEFINE N == Len(exchange)
           P == {p \in Open(N) : WentOn(j, p) # "none"}
           left == {u \in j.unanswered : WentOn(j, u.position) # "none"}
<1>1. left = {Ask(p) : p \in P}
  <2>1. j.unanswered = {Ask(p) : p \in Open(N)}
    BY DEF Clean
  <2>2. ASSUME NEW u \in left PROVE u \in {Ask(p) : p \in P}
    <3>1. PICK p \in Open(N) : u = Ask(p)
      BY <2>1
    <3>2. WentOn(j, p) # "none"
      BY <3>1, AskIs
    <3> QED
      BY <3>1, <3>2
  <2>3. ASSUME NEW p \in P PROVE Ask(p) \in left
    BY <2>1, AskIs
  <2> HIDE DEF left, P
  <2> QED
    BY <2>2, <2>3
<1>2. CASE P = {}
  <2>1. left = {}
    BY <1>1, <1>2
  <2> QED
    BY <1>2, <2>1 DEF LeftUnanswered
<1>3. CASE P # {}
  <2>1. P \in SUBSET Nat
    BY DEF Open
  <2>2. PICK p \in P : \A q \in P : p <= q
    <3> HIDE DEF P
    <3> QED
      BY <1>3, <2>1, LeastOf
  <2>3. First(left) = Ask(p)
    <3> HIDE DEF P, left
    <3> QED
      BY <1>1, <2>1, <2>2, FirstIs
  <2>4. left # {} /\ First(left).position = p
    BY <1>1, <2>3, AskIs
  <2>5. LeftUnanswered(j) = [kind |-> WentOn(j, First(left).position), position |-> First(left).position]
    BY <2>4 DEF LeftUnanswered
  <2> QED
    BY <2>2, <2>4, <2>5
<1> QED
  BY <1>2, <1>3

LEMMA VerdictIsTrue == RecorderOK => BlameIsTrue
<1> SUFFICES ASSUME RecorderOK PROVE BlameIsTrue
  OBVIOUS
<1> DEFINE N == Len(exchange)
           j == Loop[N]
           b == Verdict
<1>1. N \in Nat /\ Len(reads) \in Nat /\ UpTo(Times, N) = Len(reads)
  BY TurnCounts
<1>2. Turned(j, N)
  BY <1>1, LoopTurned
<1>3. b = IF j.blame # NoBlame THEN j.blame ELSE LeftUnanswered(j)
  BY DEF Verdict
<1> HIDE DEF b, j
<1>4. CASE j.blame # NoBlame
  <2>1. Named(b) /\ b.kind \notin {"answered_later", "sent_past"}
    BY <1>2, <1>3, <1>4 DEF Turned, Named
  <2> QED
    BY <2>1 DEF Named, BlameIsTrue, b
<1>5. CASE j.blame = NoBlame
  <2>1. Clean(j, N)
    BY <1>2, <1>5 DEF Turned
  <2>2. b = LeftUnanswered(j)
    BY <1>3, <1>5
  <2>3. CASE b = NoBlame
    <3>1. b.kind = "none"
      BY <2>3 DEF NoBlame
    <3> QED
      BY <3>1 DEF BlameIsTrue, b
  <2>4. CASE b # NoBlame
    <3>1. PICK p \in Open(N) : WentOn(j, p) # "none" /\ b = [kind |-> WentOn(j, p), position |-> p]
      BY <2>1, <2>2, <2>4, LeftIs
    <3>2. b.kind = WentOn(j, p) /\ b.position = p
      BY <3>1
    <3>3. p \in 1 .. Len(reads) /\ reads[p] \in Values
      BY <1>1, <2>1 DEF Open, Clean
    <3>4. ~Answered(p)
      BY <3>3, AnsweredIs
    <3>5. b.kind \in {"answered_later", "sent_past"}
      BY <3>1, <3>2 DEF WentOn
    <3>6. b.kind = "answered_later" => \E q \in p + 1 .. Len(reads) : Answered(q)
      <4> SUFFICES ASSUME b.kind = "answered_later" PROVE \E q \in p + 1 .. Len(reads) : Answered(q)
        OBVIOUS
      <4> DEFINE q == j.latest_answered
      <4>1. p < q
        BY <3>2 DEF WentOn
      <4>2. q = 0 \/ q \in (1 .. Len(reads)) \ Open(N)
        BY <1>1, <2>1 DEF Clean
      <4>3. q \in 1 .. Len(reads) /\ q \notin Open(N) /\ q \in p + 1 .. Len(reads)
        BY <1>1, <3>3, <4>1, <4>2
      <4>4. reads[q] \in Values
        BY <1>1, <2>1, <4>3 DEF Clean
      <4>5. Answered(q)
        BY <4>3, <4>4, AnsweredIs
      <4> QED
        BY <4>3, <4>5
    <3>7. b.kind = "sent_past" => SentPast(p) /\ p < Len(reads)
      <4> SUFFICES ASSUME b.kind = "sent_past" PROVE SentPast(p) /\ p < Len(reads)
        OBVIOUS
      <4>1. p \in Passed(N) /\ p < Len(reads)
        BY <1>1, <2>1, <3>2 DEF WentOn, Clean
      <4>2. PICK m \in Marks : p \in Open(m)
        BY <4>1 DEF Passed
      <4>3. PICK d \in DOMAIN done \ Replies : UpTo(Times, m) <= done[d].began
        BY DEF RecorderOK, MarksOK
      <4>4. p <= UpTo(Times, m) /\ UpTo(Times, m) \in Nat /\ p \in Nat
        <5>1. UpTo(Times, m) \in Nat
          BY TurnCounts
        <5> QED
          BY <4>2, <5>1 DEF Open
      <4>5. done[d].began \in Nat
        BY ListsAre DEF RecorderOK, Sends
      <4>6. done[d].began >= p
        BY <4>3, <4>4, <4>5
      <4> QED
        BY <4>1, <4>6 DEF SentPast
    <3>8. b.kind \notin {"client", "malformed", "backwards", "echo"}
      BY <3>5
    <3> QED
      BY <3>2, <3>4, <3>5, <3>6, <3>7, <3>8 DEF BlameIsTrue, b
  <2> QED
    BY <2>3, <2>4
<1> QED
  BY <1>4, <1>5

LEMMA SilenceIsSeen == RecorderOK => SilenceIsNamed
<1> SUFFICES ASSUME RecorderOK, Verdict = NoBlame, ~overlapped, NEW p \in 1 .. Len(reads) - 1, SentPast(p)
             PROVE  Answered(p)
  BY DEF SilenceIsNamed
<1> DEFINE N == Len(exchange)
           j == Loop[N]
<1>1. N \in Nat /\ Len(reads) \in Nat /\ UpTo(Times, N) = Len(reads) /\ Marks \in SUBSET (1 .. N)
      /\ \A v : Echoed(v) \in SUBSET (1 .. N)
  BY TurnCounts
<1>2. Turned(j, N)
  BY <1>1, LoopTurned
<1>3. NoBlame = IF j.blame # NoBlame THEN j.blame ELSE LeftUnanswered(j)
  BY DEF Verdict
<1> HIDE DEF j
<1>4. Clean(j, N) /\ LeftUnanswered(j) = NoBlame
  BY <1>2, <1>3 DEF Turned
<1>5. \A q \in Open(N) : WentOn(j, q) = "none"
  <2>1. \A k, q : k # "none" => [kind |-> k, position |-> q] # NoBlame
    BY DEF NoBlame
  <2> QED
    BY <1>4, <2>1, LeftIs
<1>6. p \in 1 .. Len(reads) /\ p < Len(reads) /\ p \in Nat
  BY <1>1
<1>7. reads[p] \in Values
  BY <1>1, <1>4, <1>6 DEF Clean
<1>8. SUFFICES ASSUME p \in Open(N) PROVE FALSE
  BY <1>6, <1>7, AnsweredIs
<1>9. PICK d \in DOMAIN done \ Replies : done[d].began >= p
  BY DEF SentPast
<1>10. done[d].began \in Nat
  BY ListsAre DEF RecorderOK, Sends
<1>11. done[d].began # 0
  BY <1>6, <1>9, <1>10
<1>12. PICK m \in Marks : UpTo(Times, m) >= done[d].began
  BY <1>9, <1>11 DEF RecorderOK, AloneOK, Alone
<1>13. UpTo(Times, m) \in Nat /\ p <= UpTo(Times, m)
  <2>1. UpTo(Times, m) \in Nat
    BY TurnCounts
  <2> QED
    BY <1>6, <1>9, <1>10, <1>12, <2>1
<1>14. p \in Open(m)
  <2> DEFINE v == reads[p]
  <2>1. Rank(p) > UpTo(Echoed(v), N)
    BY <1>8 DEF Open
  <2>2. m \in Nat /\ m <= N
    BY <1>1
  <2>3. UpTo(Echoed(v), m) <= UpTo(Echoed(v), N)
    BY <1>1, <2>2, UpToGrows
  <2>4. Rank(p) \in Nat /\ UpTo(Echoed(v), N) \in Nat /\ UpTo(Echoed(v), m) \in Nat
    BY TurnCounts
  <2>5. Rank(p) > UpTo(Echoed(v), m)
    BY <2>1, <2>3, <2>4
  <2>6. p \in 1 .. UpTo(Times, m)
    BY <1>6, <1>13
  <2> QED
    BY <2>5, <2>6 DEF Open
<1>15. p \in Passed(N)
  BY <1>1, <1>6, <1>14 DEF Passed
<1>16. WentOn(j, p) # "none"
  BY <1>1, <1>4, <1>6, <1>15 DEF WentOn, Clean
<1> QED
  BY <1>5, <1>8, <1>16

-----------------------------------------------------------------------------
(* The SDK's list, and the three properties.                               *)

\* The SDK answers in the order of what it received: so many replies answer the first so many.
LEMMA SdkEchoes ==
    ASSUME RecorderOK, SdkListOK, NEW v
    PROVE  \A n \in 0 .. Len(exchange) : UpTo(Echoed(v), n) = UpTo(ReadBy(v), UpTo(Echoes, n))
<1>1. /\ Len(exchange) \in Nat /\ Len(reads) \in Nat /\ Echoes \in SUBSET (1 .. Len(exchange)) /\ DOMAIN reads = 1 .. Len(reads)
      /\ Cardinality(Echoes) \in Nat /\ \A i \in Echoes : UpTo(Echoes, i) \in 1 .. Cardinality(Echoes)
  BY CountsAre
<1>2. ReadBy(v) \in SUBSET (1 .. Len(reads)) /\ Echoed(v) \in SUBSET Echoes
  BY TurnCounts DEF Echoed
<1>3. ASSUME NEW i \in Echoes PROVE i \in Echoed(v) <=> UpTo(Echoes, i) \in ReadBy(v)
  <2>1. UpTo(Echoes, i) \in DOMAIN reads
    BY <1>1 DEF SdkListOK
  <2>2. exchange[i] = Reply(reads[UpTo(Echoes, i)]) /\ reads[UpTo(Echoes, i)] \in Values
    BY <2>1 DEF SdkListOK
  <2>3. exchange[i].value = reads[UpTo(Echoes, i)]
    BY <2>2, ReplyIs
  <2> QED
    BY <2>1, <2>3 DEF Echoed, ReadBy
<1> QED
  BY <1>1, <1>2, <1>3, UpToThrough

LEMMA SdkOpen ==
    ASSUME RecorderOK, SdkListOK, NEW n \in 0 .. Len(exchange), NEW p \in 1 .. UpTo(Times, n)
    PROVE  p \in Open(n) <=> p > UpTo(Echoes, n)
<1> DEFINE v == reads[p]
           k == UpTo(Echoes, n)
<1>1. k \in Nat /\ DOMAIN reads = 1 .. Len(reads)
  BY CountsAre
<1>2. /\ UpTo(Times, n) \in Nat /\ UpTo(Times, n) <= Len(reads) /\ Len(reads) \in Nat
      /\ ReadBy(v) \in SUBSET (1 .. Len(reads)) /\ UpTo(ReadBy(v), p) \in Nat /\ UpTo(ReadBy(v), k) \in Nat
  BY TurnCounts
<1>3. p \in ReadBy(v) /\ p \in Nat
  BY <1>1, <1>2 DEF ReadBy
<1>4. UpTo(Echoed(v), n) = UpTo(ReadBy(v), k)
  BY SdkEchoes
<1>5. p \in Open(n) <=> UpTo(ReadBy(v), p) > UpTo(ReadBy(v), k)
  BY <1>4 DEF Open, Rank
<1> HIDE DEF v, k
<1>6. CASE p > k
  <2>1. k < p /\ k <= p /\ p <= p
    BY <1>1, <1>3, <1>6
  <2>2. UpTo(ReadBy(v), k) < UpTo(ReadBy(v), p)
    BY <1>1, <1>2, <1>3, <2>1, UpToGrows
  <2> QED
    BY <1>2, <1>5, <1>6, <2>2 DEF k
<1>7. CASE ~(p > k)
  <2>1. p <= k
    BY <1>1, <1>3, <1>7
  <2>2. UpTo(ReadBy(v), p) <= UpTo(ReadBy(v), k)
    BY <1>1, <1>2, <1>3, <2>1, UpToGrows
  <2> QED
    BY <1>2, <1>5, <1>7, <2>2 DEF k
<1> QED
  BY <1>6, <1>7

LEMMA SdkTurn ==
    ASSUME RecorderOK, SdkListOK, NEW n \in 1 .. Len(exchange), NEW j, Turned(j, n - 1), j.blame = NoBlame
    PROVE  JudgeEntry(j, exchange[n]).blame = NoBlame
<1> DEFINE e == exchange[n]
<1>1. e.type \in {"client/time", "server/time", "other-sent"}
  BY TurnIs, EntryIs
<1>2. CASE e.type = "client/time"
  <2>1. JudgeEntry(j, e) = JudgeClientTime(j, e)
    BY <1>2 DEF JudgeEntry
  <2>2. n \in Times
    BY <1>2, TurnIs
  <2>3. UpTo(Times, n) \in DOMAIN reads
    <3>1. UpTo(Times, n) \in 1 .. Cardinality(Times)
      BY <2>2, CountsAre, UpToAt
    <3> QED
      BY <3>1, CountsAre
  <2>4. reads[UpTo(Times, n)] \in Values
    BY <2>3 DEF SdkListOK
  <2> QED
    BY <1>2, <2>1, <2>4, ClientTurn
<1>3. CASE e.type = "server/time"
  <2> DEFINE k == UpTo(Echoes, n)
  <2>1. JudgeEntry(j, e) = JudgeServerTime(j, e)
    BY <1>3 DEF JudgeEntry
  <2>2. n \in Echoes /\ n \notin Times
    BY <1>3, TurnIs
  <2>3. k \in 1 .. Cardinality(Echoes) /\ DOMAIN reads = 1 .. Len(reads) /\ Len(reads) \in Nat /\ Cardinality(Echoes) \in Nat
        /\ Len(exchange) \in Nat
    BY <2>2, CountsAre
  <2>4. k \in DOMAIN reads /\ k <= UpTo(Times, n) /\ e = Reply(reads[k])
    BY <2>2, <2>3 DEF SdkListOK
  <2>5. reads[k] \in Values
    BY <2>4 DEF SdkListOK
  <2>6. e.value = reads[k] /\ e.backwards = FALSE
    BY <2>4, <2>5, ReplyIs
  <2>7. UpTo(Times, n) = UpTo(Times, n - 1) /\ UpTo(Times, n) \in Nat
    BY <2>2, TurnIs, TurnCounts
  <2>8. k = UpTo(Echoes, n - 1) + 1 /\ UpTo(Echoes, n - 1) \in Nat /\ n - 1 \in 0 .. Len(exchange)
    <3> DEFINE m == n - 1
    <3>1. m \in Nat /\ m + 1 = n /\ m \in 0 .. Len(exchange)
      BY <2>3
    <3>2. Echoes \in SUBSET (1 .. Len(exchange)) /\ UpTo(Echoes, m) \in Nat
      BY CountsAre
    <3> HIDE DEF m
    <3>3. UpTo(Echoes, m + 1) = IF m + 1 \in Echoes THEN UpTo(Echoes, m) + 1 ELSE UpTo(Echoes, m)
      BY <2>3, <3>1, <3>2, UpToNext
    <3> QED
      BY <2>2, <3>1, <3>2, <3>3 DEF m
  <2> HIDE DEF k, e
  <2>9. k \in 1 .. UpTo(Times, n - 1) /\ k > UpTo(Echoes, n - 1)
    BY <2>3, <2>4, <2>7, <2>8
  <2>10. k \in Open(n - 1)
    BY <2>8, <2>9, SdkOpen
  <2> QED
    BY <1>3, <2>1, <2>5, <2>6, <2>10, ServerTurn DEF e
<1>4. CASE e.type = "other-sent"
  <2>1. JudgeEntry(j, e) = JudgeOtherSent(j)
    BY <1>4 DEF JudgeEntry
  <2> QED
    BY <1>4, <2>1, OtherTurn
<1> QED
  BY <1>1, <1>2, <1>3, <1>4

LEMMA SdkLoop ==
    ASSUME RecorderOK, SdkListOK
    PROVE  \A n \in 0 .. Len(exchange) : Loop[n].blame = NoBlame
<1> DEFINE N == Len(exchange)
           bad == {n \in Nat : n <= N /\ Loop[n].blame # NoBlame}
<1>1. N \in Nat
  BY TurnCounts
<1>2. bad = {}
  <2> SUFFICES ASSUME bad # {} PROVE FALSE
    OBVIOUS
  <2>1. PICK n \in bad : \A k \in bad : n <= k
    <3>1. bad \in SUBSET Nat
      OBVIOUS
    <3> HIDE DEF bad
    <3> QED
      BY <3>1, LeastOf
  <2>2. n \in Nat /\ n <= N /\ Loop[n].blame # NoBlame
    BY <2>1
  <2>3. CASE n = 0
    <3>1. Loop[0] = Start
      BY LoopIs
    <3> QED
      BY <2>2, <2>3, <3>1 DEF Start
  <2>4. CASE n # 0
    <3>1. n - 1 \in Nat /\ n - 1 <= N /\ ~(n <= n - 1) /\ n \in 1 .. N /\ n - 1 \in 0 .. N
      BY <1>1, <2>2, <2>4
    <3>2. n - 1 \notin bad
      <4> HIDE DEF bad
      <4> QED
        BY <2>1, <3>1
    <3>3. Loop[n - 1].blame = NoBlame
      BY <3>1, <3>2
    <3>4. Loop[n] = JudgeEntry(Loop[n - 1], exchange[n])
      BY <3>1, LoopIs
    <3>5. Turned(Loop[n - 1], n - 1)
      BY <3>1, LoopTurned
    <3>6. JudgeEntry(Loop[n - 1], exchange[n]).blame = NoBlame
      BY <3>1, <3>3, <3>5, SdkTurn
    <3> QED
      BY <2>2, <3>4, <3>6
  <2> QED
    BY <2>3, <2>4
<1>3. \A n \in 0 .. N : n \in Nat /\ n <= N
  BY <1>1
<1> QED
  BY <1>2, <1>3

LEMMA SdkVerdict == RecorderOK /\ SdkOK => SdkIsBlamedAtTheCut
<1> SUFFICES ASSUME RecorderOK, SdkOK PROVE SdkIsBlamedAtTheCut
  OBVIOUS
<1> DEFINE N == Len(exchange)
           j == Loop[N]
<1>1. N \in Nat /\ N \in 0 .. N /\ Marks \in SUBSET (1 .. N) /\ \A m : UpTo(Times, m) \in Nat
  BY TurnCounts
<1>2. SdkListOK
  BY DEF SdkOK
<1>3. Turned(j, N) /\ j.blame = NoBlame
  BY <1>1, <1>2, LoopTurned, SdkLoop
<1>4. Verdict = LeftUnanswered(j)
  BY <1>3 DEF Verdict
<1>5. /\ Cardinality(Echoes) \in Nat /\ UpTo(Echoes, N) = Cardinality(Echoes)
      /\ Len(reads) \in Nat /\ UpTo(Times, N) = Len(reads)
  BY CountsAre
<1> HIDE DEF j
<1>6. Clean(j, N)
  BY <1>3 DEF Turned
<1>7. ASSUME NEW p \in Open(N)
      PROVE  /\ WentOn(j, p) \in {"none", "sent_past"}
             /\ ~overtaken => WentOn(j, p) = "none"
             /\ Cardinality(Echoes) < Len(reads)
  <2>1. p \in 1 .. UpTo(Times, N)
    BY DEF Open
  <2>2. p > UpTo(Echoes, N)
    BY <1>1, <1>2, <2>1, SdkOpen
  <2>3. ~(p < j.latest_answered)
    <3>1. j.latest_answered = 0 \/ (j.latest_answered \in 1 .. UpTo(Times, N) /\ ~(j.latest_answered > UpTo(Echoes, N)))
      BY <1>1, <1>2, <1>6, SdkOpen DEF Clean
    <3> QED
      BY <1>1, <1>5, <2>1, <2>2, <3>1
  <2>4. ASSUME ~overtaken PROVE p \notin Passed(N)
    <3> SUFFICES ASSUME NEW m \in Marks, p \in Open(m) PROVE FALSE
      BY DEF Passed
    <3>1. p \in 1 .. UpTo(Times, m) /\ m \in 0 .. N
      BY <1>1 DEF Open
    <3>2. p > UpTo(Echoes, m)
      BY <1>2, <3>1, SdkOpen
    <3>3. UpTo(Echoes, m) = UpTo(Times, m)
      BY <1>2, <2>4 DEF SdkListOK
    <3> QED
      BY <1>1, <3>1, <3>2, <3>3
  <2>5. WentOn(j, p) = "none" \/ (WentOn(j, p) = "sent_past" /\ p \in j.passed_over)
    BY <2>3 DEF WentOn
  <2>6. ~overtaken => WentOn(j, p) = "none"
    BY <1>6, <2>3, <2>4 DEF WentOn, Clean
  <2>7. Cardinality(Echoes) < Len(reads)
    BY <1>1, <1>5, <2>1, <2>2
  <2> QED
    BY <2>5, <2>6, <2>7
<1>8. ASSUME NEW p \in Open(N), LeftUnanswered(j) = [kind |-> WentOn(j, p), position |-> p], WentOn(j, p) # "none"
      PROVE  Verdict.kind = "sent_past" /\ overtaken /\ Cardinality(Echoes) < Len(reads)
  BY <1>4, <1>7, <1>8
<1>9. \/ Verdict = NoBlame
      \/ Verdict.kind = "sent_past" /\ overtaken /\ Cardinality(Echoes) < Len(reads)
  BY <1>4, <1>6, <1>8, LeftIs
<1>10. ASSUME open, RepliesQueued = {}, ~Replying PROVE Cardinality(Echoes) = Len(reads)
  <2>1. PICK n \in Nat : n = Cardinality(Echoes)
    BY <1>5
  <2>2. Queued(n) /\ n <= Len(reads)
    BY <1>2, <1>10, <2>1 DEF SdkOK, SdkQueueOK, SdkListOK
  <2> QED
    BY <1>5, <1>10, <2>1, <2>2, NoneQueued
<1>11. NoBlame.kind = "none"
  BY DEF NoBlame
<1> QED
  BY <1>5, <1>9, <1>10, <1>11 DEF SdkIsBlamedAtTheCut

LEMMA RecordIsTyped == RecorderOK => TimeTypeOK
<1> SUFFICES ASSUME RecorderOK PROVE TimeTypeOK
  OBVIOUS
<1>1. \A i \in DOMAIN exchange : exchange[i] \in Messages \cup {ClientTime(v) : v \in Values \cup {NotInteger}}
  BY ListsAre DEF RecorderOK, Entry
<1>2. /\ \A i \in Times : exchange[i] = ClientTime(reads[UpTo(Times, i)])
      /\ Cardinality(Times) = Len(reads)
  BY DEF RecorderOK, TimesOK
<1>3. /\ \A i \in Echoes : \E d \in Replies : exchange[i] = done[d].message /\ UpTo(Replies, d) = UpTo(Echoes, i)
      /\ Cardinality(Echoes) = Cardinality(Replies)
  BY DEF RecorderOK, RepliesOK, Is
<1>4. \A i \in 1 .. Len(exchange) - 1 : exchange[i] = OtherSent => exchange[i + 1] # OtherSent
  <2> SUFFICES ASSUME NEW i \in 1 .. Len(exchange) - 1, exchange[i] = OtherSent, exchange[i + 1] = OtherSent PROVE FALSE
    OBVIOUS
  <2>1. i \in DOMAIN exchange /\ i + 1 \in DOMAIN exchange
    BY ListsAre DEF RecorderOK
  <2>2. i \in Marks /\ i + 1 \in Marks
    BY <2>1, EntryIs DEF Marks, Recorded
  <2> QED
    BY <2>2 DEF RecorderOK, MarksOK
<1> QED
  BY <1>1, <1>2, <1>3, <1>4 DEF TimeTypeOK, Times, Echoes

\* Whatever the server does, and however its sends overlap with what it reads, the verdict of
\* time_exchange_violation says what happened, for any senders, values and bounds.
THEOREM VerdictSaysWhatHappened == MCSpec => []BlameIsTrue
<1>1. TimeInv => BlameIsTrue
  BY VerdictIsTrue DEF TimeInv
<1> QED
  BY <1>1, TimeInvariant, PTL

\* While sends do not overlap, a server that is not blamed answered every client/time that it
\* sent another message past and that was not the last.
THEOREM NoSilenceOverlooked == MCSpec => []SilenceIsNamed
<1>1. TimeInv => SilenceIsNamed
  BY SilenceIsSeen DEF TimeInv
<1> QED
  BY <1>1, TimeInvariant, PTL

\* The SDK, whose one writer sends its priority queue first, is blamed at most for sending
\* something past a client/time, and only while a reply that another message overtook is not
\* written; and the list is typed, of any server.
THEOREM SdkBlamedAtTheCut == MCSpec => []BlamedOnlyAtTheCut
<1>1. TimeInv => BlamedOnlyAtTheCut
  BY RecordIsTyped, SdkVerdict DEF TimeInv, BlamedOnlyAtTheCut
<1> QED
  BY <1>1, TimeInvariant, PTL

=============================================================================
