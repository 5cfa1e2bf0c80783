---------------------------- MODULE TimeExchange ----------------------------
(***************************************************************************)
(* The client/time to server/time exchange as ControlMessageRecorder keeps *)
(* it (adapters/_aiosendspin_protocol_evidence.py) and as                  *)
(* time_exchange_violation judges it (protocol.py).                        *)
(*                                                                         *)
(* A client/time is recorded when the transport hands it over, a           *)
(* server/time once it is written, and any other message the server sends  *)
(* leaves a mark where its send began, inserted once the send has          *)
(* returned.  Sends overlap with what is read, and with each other when    *)
(* several tasks send.  The verdict is drawn from the list alone; the      *)
(* ghosts keep what really happened, in order.                             *)
(*                                                                         *)
(* The server is any server; TimeExchangeSdk narrows it to the SDK.        *)
(***************************************************************************)
EXTENDS Integers, FiniteSets, SequencesExt

CONSTANTS
    Senders,        \* tasks of the server that send on the connection
    Values,         \* client_transmitted values in use
    NotInteger,     \* a client_transmitted that is no integer, or missing
    MaxReads,       \* bound: client/time messages on the connection
    MaxSends        \* bound: messages the server sends

ASSUME BoundsAssumption == MaxReads \in Nat /\ MaxSends \in Nat
ASSUME ValuesAssumption == NotInteger \notin Values

VARIABLES
    exchange,       \* time_exchange: the list of the connection's socket
    flight,         \* per sender: the message being written, if there is one
    reads,          \* ghost: the value of each client/time handed over, in order
    done,           \* ghost: the completed sends, in order
    overlapped      \* ghost: two sends have been in flight at once

timevars == <<exchange, flight, reads, done, overlapped>>

\* server/time replies, one of them malformed, and everything else; `backwards'
\* is a server_received later than the server_transmitted.
Messages ==
    [type : {"server/time"}, value : Values, backwards : BOOLEAN]
        \cup {[type |-> "server/time", value |-> NotInteger, backwards |-> FALSE],
              [type |-> "other-sent"]}

Idle == [type |-> "idle"]

ClientTime(v) == [type |-> "client/time", value |-> v]

OtherSent == [type |-> "other-sent"]

-----------------------------------------------------------------------------
(* The connection and the recorder.                                        *)

TimeInit ==
    /\ exchange = <<>> /\ reads = <<>> /\ done = <<>>
    /\ flight = [s \in Senders |-> Idle] /\ overlapped = FALSE

\* observe: a client/time is handed to the server.
ReadClientTime(v) ==
    /\ Len(reads) < MaxReads
    /\ exchange' = Append(exchange, ClientTime(v))
    /\ reads' = Append(reads, v)
    /\ UNCHANGED <<flight, done, overlapped>>

InFlight == {s \in Senders : flight[s] # Idle}

\* send_str is called: `began_at' is where the list stands now.
BeginSend(s, m) ==
    /\ flight[s] = Idle
    /\ Len(done) + Cardinality(InFlight) < MaxSends
    /\ flight' = [flight EXCEPT ![s] = [type |-> m.type, message |-> m,
                                        began_at |-> Len(exchange), began |-> Len(reads)]]
    /\ overlapped' = (overlapped \/ InFlight # {})
    /\ UNCHANGED <<exchange, reads, done>>

\* Faulty variant: one mark anywhere before speaks for the send.
RecordOtherSentOnce(list, began_at) ==
    IF began_at = 0 \/ \E i \in 1 .. began_at : list[i] = OtherSent
      THEN list
      ELSE InsertAt(list, began_at + 1, OtherSent)

\* Faulty variant: the mark goes where the list stands when the send returns.
RecordOtherSentLast(list, began_at) ==
    IF list = <<>> \/ list[Len(list)] = OtherSent THEN list ELSE Append(list, OtherSent)

\* _record_other_sent: the mark follows the began_at-th entry, unless that
\* entry or the next one is a mark.
RecordOtherSent(list, began_at) ==
    IF began_at = 0 \/ \E i \in DOMAIN list : i \in began_at .. began_at + 1 /\ list[i] = OtherSent
      THEN list
      ELSE InsertAt(list, began_at + 1, OtherSent)

\* The awaited send returns, and what was sent is recorded.
EndSend(s) ==
    /\ flight[s] # Idle
    /\ LET f == flight[s]
       IN /\ exchange' = IF f.type = "server/time"
                           THEN Append(exchange, f.message)
                           ELSE RecordOtherSent(exchange, f.began_at)
          /\ done' = Append(done, [message |-> f.message, began |-> f.began,
                                   ended |-> Len(reads)])
    /\ flight' = [flight EXCEPT ![s] = Idle]
    /\ UNCHANGED <<reads, overlapped>>

\* The send raises or is cancelled by disconnect: nothing is recorded of it.
SendRaises(s) ==
    /\ flight[s] # Idle
    /\ flight' = [flight EXCEPT ![s] = Idle]
    /\ UNCHANGED <<exchange, reads, done, overlapped>>

\* The bounds are reached and nothing is being written.
Over == Len(reads) = MaxReads /\ Len(done) = MaxSends /\ InFlight = {} /\ UNCHANGED timevars

TimeNext ==
    \/ \E v \in Values \cup {NotInteger} : ReadClientTime(v)
    \/ \E s \in Senders, m \in Messages : BeginSend(s, m)
    \/ \E s \in Senders : EndSend(s) \/ SendRaises(s)
    \/ Over

TimeSpec == TimeInit /\ [][TimeNext]_timevars

-----------------------------------------------------------------------------
(* The verdict, drawn from the list as it stands in the summary.           *)

NoBlame == [kind |-> "none", position |-> 0]

\* `unanswered' grows by the latest position, so the first of its entries is the least.
Start == [unanswered |-> {}, received |-> 0, latest_answered |-> 0,
          passed_over |-> {}, blame |-> NoBlame]

First(us) == CHOOSE u \in us : \A o \in us : u.position <= o.position

JudgeClientTime(j, e) ==
    [j EXCEPT !.received = @ + 1,
              !.unanswered = @ \cup {[position |-> j.received + 1, value |-> e.value]},
              !.blame = IF e.value = NotInteger
                          THEN [kind |-> "client", position |-> j.received + 1] ELSE @]

\* The reply answers the first unanswered client/time of the value it echoes.
JudgeServerTime(j, e) ==
    LET same == {u \in j.unanswered : u.value = e.value}
        Blame(kind) == [kind |-> kind, position |-> 0]
    IN IF e.value = NotInteger THEN [j EXCEPT !.blame = Blame("malformed")]
       ELSE IF same = {} THEN [j EXCEPT !.blame = Blame("echo")]
       ELSE [j EXCEPT !.unanswered = @ \ {First(same)},
                      !.latest_answered = IF First(same).position > @ THEN First(same).position ELSE @,
                      !.blame = IF e.backwards THEN Blame("backwards") ELSE @]

JudgeOtherSent(j) ==
    [j EXCEPT !.passed_over = @ \cup {u.position : u \in j.unanswered}]

\* One turn of the loop; a blame ends it.
JudgeEntry(j, e) ==
    IF j.blame # NoBlame THEN j
    ELSE CASE e.type = "other-sent"  -> JudgeOtherSent(j)
           [] e.type = "client/time" -> JudgeClientTime(j, e)
           [] e.type = "server/time" -> JudgeServerTime(j, e)

\* After the loop: the first client/time the server went on without answering.
WentOn(j, p) == IF p < j.latest_answered THEN "answered_later"
                ELSE IF p \in j.passed_over /\ p < j.received THEN "sent_past"
                ELSE "none"

LeftUnanswered(j) ==
    LET left == {u \in j.unanswered : WentOn(j, u.position) # "none"}
    IN IF left = {} THEN NoBlame
       ELSE [kind |-> WentOn(j, First(left).position), position |-> First(left).position]

\* The loop, turn by turn.
Loop[n \in 0 .. Len(exchange)] == IF n = 0 THEN Start ELSE JudgeEntry(Loop[n - 1], exchange[n])

\* time_exchange_violation: whom and what the reason names.
Verdict ==
    LET j == Loop[Len(exchange)]
    IN IF j.blame # NoBlame THEN j.blame ELSE LeftUnanswered(j)

-----------------------------------------------------------------------------
(* What really happened.                                                   *)

Replies == {i \in DOMAIN done : done[i].message.type = "server/time"}

RepliesOf(v, i) == {k \in Replies : k <= i /\ done[k].message.value = v}

ReadsOf(v, n) == {p \in 1 .. n : reads[p] = v}

\* The server wrote a reply for client/time p: as many of its value as had
\* been received up to p.
Answered(p) ==
    Cardinality(RepliesOf(reads[p], Len(done))) >= Cardinality(ReadsOf(reads[p], p))

\* It completed another message that it began after receiving client/time p.
SentPast(p) == \E i \in DOMAIN done \ Replies : done[i].began >= p

-----------------------------------------------------------------------------
(* Properties.                                                             *)

Recorded(type) == {i \in DOMAIN exchange : exchange[i].type = type}

\* How many of ps are not after n.
UpTo(ps, n) == Cardinality({i \in ps : i <= n})

\* The list holds the client/time messages in the order they were received and
\* the replies in the order they were written, and no two marks in a row.
TimeTypeOK ==
    /\ \A i \in DOMAIN exchange :
         exchange[i] \in Messages \cup {ClientTime(v) : v \in Values \cup {NotInteger}}
    /\ \A i \in Recorded("client/time") : exchange[i] = ClientTime(reads[UpTo(Recorded("client/time"), i)])
    /\ Cardinality(Recorded("client/time")) = Len(reads)
    /\ \A i \in Recorded("server/time") :
         \E d \in Replies : exchange[i] = done[d].message /\ UpTo(Replies, d) = UpTo(Recorded("server/time"), i)
    /\ Cardinality(Recorded("server/time")) = Cardinality(Replies)
    /\ \A i \in 1 .. Len(exchange) - 1 : exchange[i] = OtherSent => exchange[i + 1] # OtherSent

\* Whatever the server does and however its sends overlap with what it reads,
\* the verdict of time_exchange_violation says what happened: a client/time it
\* names was not answered, the reply that shows it went on was to a later one,
\* the other message was begun after it was received and was completed, an
\* echo it rejects answers nothing the server had received by then.
BlameIsTrue ==
    LET b == Verdict
    IN /\ b.kind = "client" => reads[b.position] = NotInteger
       /\ b.kind = "malformed" => \E i \in Replies : done[i].message.value = NotInteger
       /\ b.kind = "backwards" => \E i \in Replies : done[i].message.backwards
       /\ b.kind = "echo" =>
            \E i \in Replies :
                LET v == done[i].message.value
                IN Cardinality(RepliesOf(v, i)) > Cardinality(ReadsOf(v, done[i].ended))
       /\ b.kind \in {"answered_later", "sent_past"} => ~ Answered(b.position)
       /\ b.kind = "answered_later" => \E q \in b.position + 1 .. Len(reads) : Answered(q)
       /\ b.kind = "sent_past" => SentPast(b.position) /\ b.position < Len(reads)

\* Unless sends overlap, no silence is overlooked: a server that is not blamed
\* at all answered every client/time that it sent another message past and
\* that was not the last one it received.
SilenceIsNamed ==
    Verdict = NoBlame /\ ~overlapped =>
        \A p \in 1 .. Len(reads) - 1 : SentPast(p) => Answered(p)

=============================================================================
