------------------------------ MODULE LinkProofs ------------------------------
(***************************************************************************)
(* The validator's view of the app's connections, and the pairing its      *)
(* suites make and dissolve, for any number of connections.                *)
(***************************************************************************)
EXTENDS MCLink, FiniteSetTheorems, SequenceTheorems, WellFoundedInduction, NaturalsInduction, TLAPS

-----------------------------------------------------------------------------
(* Numbers.                                                                  *)

LEMMA LeastOfNumbers ==
    ASSUME NEW S \in SUBSET Nat, S # {}
    PROVE  Min(S) \in S /\ \A y \in S : Min(S) <= y
<1>1. \E x \in S : \A y \in S : x <= y
  <2>1. PICK x \in S : \A y \in S : ~(<<y, x>> \in OpToRel(<, Nat))
    BY NatLessThanWellFounded, WFMin
  <2>2. \A y \in S : ~(y < x)
    BY <2>1 DEF OpToRel
  <2> QED
    BY <2>2
<1> QED
  BY <1>1 DEF Min

LEMMA GreatestOfNumbers ==
    ASSUME NEW N \in Nat, NEW S \in SUBSET (0 .. N), S # {}
    PROVE  Max(S) \in S /\ \A y \in S : y <= Max(S)
<1> DEFINE T == {i \in Nat : \A y \in S : y <= i}
<1>2. N \in T
  OBVIOUS
<1>3. Min(T) \in T /\ \A i \in T : Min(T) <= i
  <2> HIDE DEF T
  <2>1. T \in SUBSET Nat
    BY DEF T
  <2> QED
    BY <1>2, <2>1, LeastOfNumbers
<1> DEFINE m == Min(T)
<1>4. m \in Nat /\ \A y \in S : y <= m
  BY <1>3
<1>5. m \in S
  <2> SUFFICES ASSUME m \notin S PROVE FALSE
    OBVIOUS
  <2>1. PICK s \in S : TRUE
    OBVIOUS
  <2>2. \A y \in S : y <= m - 1
    <3> HIDE DEF m
    <3> QED
      BY <1>4
  <2>3. m - 1 \in T
    <3>1. s \in Nat /\ s <= m - 1
      BY <2>1, <2>2
    <3>2. m - 1 \in Nat
      <4> HIDE DEF m
      <4> QED
        BY <1>4, <3>1
    <3> HIDE DEF m
    <3> QED
      BY <2>2, <3>2
  <2>4. m <= m - 1
    BY <1>3, <2>3
  <2> HIDE DEF m
  <2> QED
    BY <1>4, <2>4
<1> HIDE DEF m
<1>6. \E x \in S : \A y \in S : y <= x
  BY <1>4, <1>5
<1> QED
  BY <1>6 DEF Max

-----------------------------------------------------------------------------
(* What Link reads out of the events.                                        *)

Events == [kind : {"keyed", "closed"}, connection : Conns]

KeyedAt(es) == {i \in 1 .. Len(es) : es[i].kind = "keyed"}

LEMMA LastKeyed ==
    ASSUME NEW es \in Seq(Events)
    PROVE  /\ KeyedAt(es) # {} => Max(KeyedAt(es)) \in KeyedAt(es)
           /\ \A i \in KeyedAt(es) : i <= Max(KeyedAt(es))
<1>1. Len(es) \in Nat /\ KeyedAt(es) \in SUBSET (0 .. Len(es))
  BY DEF KeyedAt
<1> QED
  BY <1>1, GreatestOfNumbers

\* The connection of the last KEYED event.
LastOf(es) == IF KeyedAt(es) = {} THEN 0 ELSE es[Max(KeyedAt(es))].connection

LEMMA CurrentIsLast ==
    ASSUME events \in Seq(Events)
    PROVE  current = LastOf(events)
<1>1. KeyedAt(events) # {} => Max(KeyedAt(events)) \in 1 .. Len(events)
  BY LastKeyed DEF KeyedAt
<1> QED
  BY <1>1 DEF current, SelectLastInSeq, LastOf, KeyedAt

LEMMA CurrentIsLastNext ==
    ASSUME events' \in Seq(Events)
    PROVE  current' = LastOf(events')
<1>1. KeyedAt(events') # {} => Max(KeyedAt(events')) \in 1 .. Len(events')
  BY LastKeyed DEF KeyedAt
<1> QED
  BY <1>1 DEF current, SelectLastInSeq, LastOf, KeyedAt

\* One event more.
LEMMA EventAdded ==
    ASSUME events \in Seq(Events), NEW k \in {"keyed", "closed"}, NEW n \in Conns,
           events' = Append(events, Event(k, n))
    PROVE  /\ events' \in Seq(Events)
           /\ \A j \in {"keyed", "closed"}, m \in Conns :
                 Is(j, m)' <=> (Is(j, m) \/ (j = k /\ m = n))
           /\ current' = IF k = "keyed" THEN n ELSE current
<1> DEFINE e == Event(k, n)
           L == Len(events)
<1>1. e \in Events /\ e.kind = k /\ e.connection = n /\ L \in Nat
  BY DEF Event, Events
<1> HIDE DEF e
<1>2. /\ events' \in Seq(Events) /\ Len(events') = L + 1
      /\ \A i \in 1 .. L : events'[i] = events[i]
      /\ events'[L + 1] = e
  BY <1>1 DEF e
<1>3. ASSUME NEW j \in {"keyed", "closed"}, NEW m \in Conns
      PROVE  Is(j, m)' <=> (Is(j, m) \/ (j = k /\ m = n))
  <2> DEFINE f == Event(j, m)
  <2>1. e = f <=> (j = k /\ m = n)
    BY DEF Event, e
  <2> HIDE DEF f
  <2>2. (\E i \in 1 .. (L + 1) : events'[i] = f) <=> ((\E i \in 1 .. L : events[i] = f) \/ e = f)
    BY <1>1, <1>2
  <2> QED
    BY <1>2, <2>1, <2>2 DEF Is, Contains, f
<1>4. current = LastOf(events) /\ current' = LastOf(events')
  BY <1>2, CurrentIsLast, CurrentIsLastNext
<1>5. CASE k = "keyed"
  <2>1. KeyedAt(events') \in SUBSET (1 .. (L + 1)) /\ L + 1 \in KeyedAt(events')
    BY <1>1, <1>2, <1>5 DEF KeyedAt
  <2>2. Max(KeyedAt(events')) = L + 1
    <3>1. Max(KeyedAt(events')) \in KeyedAt(events') /\ L + 1 <= Max(KeyedAt(events'))
      BY <1>2, <2>1, LastKeyed
    <3> QED
      BY <1>1, <2>1, <3>1
  <2> QED
    BY <1>1, <1>2, <1>3, <1>4, <1>5, <2>1, <2>2 DEF LastOf
<1>6. CASE k = "closed"
  <2>1. KeyedAt(events') = KeyedAt(events)
    BY <1>1, <1>2, <1>6 DEF KeyedAt
  <2>2. KeyedAt(events) # {} => events'[Max(KeyedAt(events))] = events[Max(KeyedAt(events))]
    BY <1>2, LastKeyed DEF KeyedAt
  <2> QED
    BY <1>2, <1>3, <1>4, <1>6, <2>1, <2>2 DEF LastOf
<1> QED
  BY <1>5, <1>6

LEMMA SameEvents ==
    ASSUME events \in Seq(Events), events' = events
    PROVE  current' = current /\ \A j, m : Is(j, m)' <=> Is(j, m)
<1>1. current' = current
  BY CurrentIsLast, CurrentIsLastNext
<1> QED
  BY <1>1 DEF Is

-----------------------------------------------------------------------------
(* The recorder, the server and Link.                                        *)

\* What was recorded of a connection, by the stage of its handler.
StagesRead ==
    /\ \A n \in Conns : stage[n] \in {"greeted", "keyed"} => n \in inits
    /\ \A n \in Conns : Is("keyed", n) => n \in inits /\ stage[n] \in {"keyed", "closing", "gone"}
    /\ \A n \in Conns : Is("closed", n) => stage[n] = "gone"
    /\ \A n \in Conns : stage[n] = "keyed" => n = attached
    /\ attached # 0 => stage[attached] \in {"keyed", "closing"}

\* The last session is the one the server has, until it was recorded as closed.
CurrentKnown ==
    /\ current \in Conns /\ Is("keyed", current)
    /\ attached # 0 => attached = current /\ ~Is("closed", attached)
    /\ attached = 0 => Is("closed", current)

\* A call knows which connections are behind it.
CallInv ==
    /\ result # 0 => result \in inits
    /\ pc # "idle" => number \in inits
    /\ pc = "awaitPrevious" => op = "await_reconnect"
    /\ pc \in {"dialing", "settling"} =>
          number <= watermark /\ (op = "reconnect" => \A n \in before : n <= watermark)

LinkInv == TypeOK /\ StagesRead /\ CurrentKnown /\ CallInv

LEMMA ConnsAreNumbers ==
    /\ MaxConns \in Nat /\ 1 \in Conns /\ Conns \in SUBSET Nat /\ 0 \notin Conns
    /\ 0 .. MaxConns = {0} \cup Conns /\ 0 \in 0 .. MaxConns
BY LinkAssumption DEF Conns

\* The tasks that dial and the url's entries have their types.
DialsOK ==
    /\ tasks \in [Tasks -> [at : {"over", "dialing", "running"}, conn : 0 .. MaxConns,
                            first : BOOLEAN, cancelled : BOOLEAN]]
    /\ dial \in [task : 0 .. MaxTasks, conn : 0 .. MaxConns,
                  persistent : BOOLEAN, succeeded : BOOLEAN, redial : BOOLEAN]
    /\ waiter \in {"none", "pending", "done", "cancelled", "error", "timeout"}
    /\ final \subseteq Conns

LEMMA DialsAreTyped == TypeOK => DialsOK
BY DEF TypeOK, DialsOK

LEMMA DialsRest == DialsOK /\ UNCHANGED dials => DialsOK'
BY DEF DialsOK, dials

LEMMA TasksAreNumbers ==
    /\ 0 \in 0 .. MaxTasks /\ 1 \in 0 .. MaxTasks /\ Tasks \subseteq 0 .. MaxTasks
    /\ 0 \in 0 .. MaxConns /\ Conns \subseteq 0 .. MaxConns
BY LinkAssumption DEF Tasks, Conns

LEMMA TaskTypes ==
    LET T == [at : {"over", "dialing", "running"}, conn : 0 .. MaxConns,
              first : BOOLEAN, cancelled : BOOLEAN]
        D == [task : 0 .. MaxTasks, conn : 0 .. MaxConns,
              persistent : BOOLEAN, succeeded : BOOLEAN, redial : BOOLEAN]
    IN  NoTask \in T /\ NewTask \in T /\ NoDial \in D
BY TasksAreNumbers DEF NoTask, NewTask, NoDial

LEMMA EventsType == TypeOK => events \in Seq(Events)
BY DEF TypeOK, Events

\* A handler may go on, and end, without an event.
Moved(n) ==
    \/ stage'[n] = stage[n]
    \/ stage[n] \in {"free", "accepted"} /\ stage'[n] = "accepted"
    \/ stage[n] \in {"free", "accepted"} /\ stage'[n] = "greeted" /\ n \in inits'
    \/ stage[n] # "gone" /\ stage'[n] = "closing"

LEMMA QuietKeeps ==
    ASSUME TypeOK, StagesRead, CurrentKnown, events' = events, attached' = attached,
           inits \subseteq inits', \A n \in Conns : Moved(n)
    PROVE  StagesRead' /\ CurrentKnown'
<1>1. current' = current /\ \A j, m : Is(j, m)' <=> Is(j, m)
  BY EventsType, SameEvents
<1>2. CurrentKnown'
  BY <1>1 DEF CurrentKnown
<1>3. attached # 0 => attached \in Conns
  BY ConnsAreNumbers DEF TypeOK
<1>4. StagesRead'
  BY <1>1, <1>3 DEF StagesRead, Moved
<1> QED
  BY <1>2, <1>4

LEMMA DetachKeeps ==
    ASSUME TypeOK, StagesRead, CurrentKnown, NEW n \in Conns, Detach(n), inits' = inits
    PROVE  /\ stage' \in [Conns -> {"free", "accepted", "greeted", "keyed", "closing", "gone"}]
           /\ attached' \in 0 .. MaxConns /\ events' \in Seq(Events)
           /\ StagesRead' /\ CurrentKnown'
<1>1. stage' = [stage EXCEPT ![n] = "gone"]
      /\ attached' = (IF attached = n THEN 0 ELSE attached)
      /\ events' = (IF attached = n THEN Append(events, Event("closed", n)) ELSE events)
  BY DEF Detach
<1>2. stage' \in [Conns -> {"free", "accepted", "greeted", "keyed", "closing", "gone"}]
      /\ \A m \in Conns : stage'[m] = IF m = n THEN "gone" ELSE stage[m]
  BY <1>1 DEF TypeOK
<1>3. attached' \in 0 .. MaxConns
  BY <1>1, ConnsAreNumbers DEF TypeOK
<1>4. CASE attached = n
  <2>1. /\ events' \in Seq(Events)
        /\ \A j \in {"keyed", "closed"}, m \in Conns : Is(j, m)' <=> (Is(j, m) \/ (j = "closed" /\ m = n))
        /\ current' = current
    BY <1>1, <1>4, EventsType, EventAdded
  <2>2. StagesRead'
    BY <1>1, <1>2, <1>4, <2>1, ConnsAreNumbers DEF StagesRead
  <2>3. CurrentKnown'
    BY <1>1, <1>4, <2>1, ConnsAreNumbers DEF CurrentKnown
  <2> QED
    BY <1>2, <1>3, <2>1, <2>2, <2>3
<1>5. CASE attached # n
  <2>1. events' = events /\ attached' = attached /\ events \in Seq(Events)
    BY <1>1, <1>5, EventsType
  <2>2. current' = current /\ \A j, m : Is(j, m)' <=> Is(j, m)
    BY <2>1, SameEvents
  <2>3. attached # 0 => attached \in Conns
    BY ConnsAreNumbers DEF TypeOK
  <2>4. StagesRead'
    BY <1>2, <1>5, <2>1, <2>2, <2>3 DEF StagesRead
  <2>5. CurrentKnown'
    BY <2>1, <2>2 DEF CurrentKnown
  <2> QED
    BY <1>2, <1>3, <2>1, <2>4, <2>5
<1> QED
  BY <1>4, <1>5

LEMMA IdleCall ==
    ASSUME CallInv, link' = link, inits \subseteq inits'
    PROVE  CallInv'
BY DEF CallInv, link

-----------------------------------------------------------------------------
(* The environment.                                                          *)

StageNames == {"free", "accepted", "greeted", "keyed", "closing", "gone"}

LEMMA NumberKeeps ==
    ASSUME LinkInv, NEW n \in Conns, NEW whose \in {"app", "other"}, Number(n, whose),
           dialing' = dialing, attached' = attached, DialsOK',
           recorder' = recorder, link' = link
    PROVE  LinkInv'
<1>1. TypeOK /\ StagesRead /\ CurrentKnown /\ CallInv
  BY DEF LinkInv
<1>2. stage[n] = "free" /\ owner' = [owner EXCEPT ![n] = whose] /\ stage' = [stage EXCEPT ![n] = "accepted"]
  BY DEF Number
<1>3. TypeOK'
  BY <1>1, <1>2, ConnsAreNumbers DEF TypeOK, DialsOK, recorder, link
<1>4. \A m \in Conns : Moved(m)
  BY <1>1, <1>2 DEF TypeOK, Moved
<1>5. StagesRead' /\ CurrentKnown'
  BY <1>1, <1>4, QuietKeeps DEF recorder
<1>6. CallInv'
  BY <1>1, IdleCall DEF recorder
<1> QED
  BY <1>3, <1>5, <1>6 DEF LinkInv

LEMMA AcceptKeeps ==
    ASSUME LinkInv, NEW n \in Conns, Accept(n)
    PROVE  LinkInv'
<1>1. DialsOK'
  BY DialsAreTyped, DialsRest DEF LinkInv, Accept
<1> QED
  BY <1>1, NumberKeeps DEF Accept

LEMMA ReceiveInitKeeps ==
    ASSUME LinkInv, NEW n \in Conns, ReceiveInit(n)
    PROVE  LinkInv'
<1>1. TypeOK /\ StagesRead /\ CurrentKnown /\ CallInv
  BY DEF LinkInv
<1>2. /\ stage[n] = "accepted" /\ stage' = [stage EXCEPT ![n] = "greeted"]
      /\ framed' = framed \cup {n} /\ inits' = inits \cup {n}
      /\ UNCHANGED <<dialing, owner, attached, dials, byes, rejected, events, link>>
  BY DEF ReceiveInit
<1>3. TypeOK'
  BY <1>1, <1>2 DEF TypeOK, dials, link
<1>4. \A m \in Conns : Moved(m)
  BY <1>1, <1>2 DEF TypeOK, Moved
<1>5. StagesRead' /\ CurrentKnown'
  BY <1>1, <1>2, <1>4, QuietKeeps
<1>6. CallInv'
  BY <1>1, <1>2, IdleCall
<1> QED
  BY <1>3, <1>5, <1>6 DEF LinkInv

\* A connection begins to close.
LEMMA ClosingKeeps ==
    ASSUME LinkInv, NEW n \in Conns, stage[n] # "gone", stage' = [stage EXCEPT ![n] = "closing"],
           dialing' = dialing, owner' = owner, attached' = attached, DialsOK',
           framed \subseteq framed', framed' \subseteq Conns, inits' = inits,
           byes' \subseteq inits, rejected' \subseteq framed', events' = events, link' = link
    PROVE  LinkInv'
<1>1. TypeOK /\ StagesRead /\ CurrentKnown /\ CallInv
  BY DEF LinkInv
<1>2. TypeOK'
  BY <1>1 DEF TypeOK, DialsOK, link
<1>3. \A m \in Conns : Moved(m)
  BY <1>1 DEF TypeOK, Moved
<1>4. StagesRead' /\ CurrentKnown'
  BY <1>1, <1>3, QuietKeeps
<1>5. CallInv'
  BY <1>1, IdleCall
<1> QED
  BY <1>2, <1>4, <1>5 DEF LinkInv

\* Which connections are not redialed may change.
LEMMA FinalKeeps ==
    ASSUME LinkInv, final' \subseteq Conns, UNCHANGED <<tasks, dial, waiter>>
    PROVE  DialsOK'
BY DialsAreTyped DEF LinkInv, DialsOK

LEMMA FinalGrows ==
    ASSUME LinkInv, NEW n \in Conns, MayBeFinal(n) \/ IsFinal({n})
    PROVE  final' \subseteq Conns
BY DEF LinkInv, TypeOK, MayBeFinal, IsFinal

LEMMA RejectKeeps ==
    ASSUME LinkInv, NEW n \in Conns, Reject(n)
    PROVE  LinkInv'
<1>1. TypeOK
  BY DEF LinkInv
<1>2. DialsOK'
  BY FinalGrows, FinalKeeps DEF Reject
<1> QED
  BY <1>1, <1>2, ClosingKeeps DEF Reject, TypeOK

LEMMA GoodbyeKeeps ==
    ASSUME LinkInv, NEW n \in Conns, Goodbye(n)
    PROVE  LinkInv'
<1>1. TypeOK /\ n \in inits
  BY DEF LinkInv, StagesRead, Goodbye
<1>2. DialsOK'
  BY FinalGrows, FinalKeeps DEF Goodbye
<1> QED
  BY <1>1, <1>2, ClosingKeeps DEF Goodbye, TypeOK

LEMMA LeaveKeeps ==
    ASSUME LinkInv, NEW n \in Conns, Leave(n)
    PROVE  LinkInv'
<1>1. TypeOK
  BY DEF LinkInv
<1>2. DialsOK'
  BY FinalGrows, FinalKeeps DEF Leave
<1> QED
  BY <1>1, <1>2, ClosingKeeps DEF Leave, TypeOK, recorder

\* A new session takes the place of the one there was.
LEMMA AttachKeeps ==
    ASSUME LinkInv, NEW n \in Conns, Attach(n)
    PROVE  LinkInv'
<1>1. TypeOK /\ StagesRead /\ CurrentKnown /\ CallInv
  BY DEF LinkInv
<1>2. /\ stage[n] = "greeted" /\ attached' = n /\ events' = Append(events, Event("keyed", n))
      /\ stage' = [m \in Conns |-> IF m = n THEN "keyed" ELSE IF m = attached THEN "closing" ELSE stage[m]]
      /\ UNCHANGED <<dialing, owner, tasks, dial, waiter, framed, inits, byes, rejected, link>>
      /\ IsFinal({attached} \ {0})
  BY DEF Attach
<1>3. /\ events' \in Seq(Events)
      /\ \A j \in {"keyed", "closed"}, m \in Conns : Is(j, m)' <=> (Is(j, m) \/ (j = "keyed" /\ m = n))
      /\ current' = n
  BY <1>1, <1>2, EventsType, EventAdded
<1>4. TypeOK'
  <2>1. final' \subseteq Conns
    BY <1>1, <1>2, ConnsAreNumbers DEF TypeOK, IsFinal
  <2>2. DialsOK'
    BY <1>2, <2>1, FinalKeeps
  <2> QED
    BY <1>1, <1>2, <1>3, <2>2, ConnsAreNumbers DEF TypeOK, DialsOK, Events, link
<1>5. n \in inits /\ ~Is("closed", n)
  BY <1>1, <1>2 DEF StagesRead
<1>6. \A m \in Conns : stage'[m] = IF m = n THEN "keyed" ELSE IF m = attached THEN "closing" ELSE stage[m]
  BY <1>2
<1>7. StagesRead'
  <2>1. attached # 0 => ~Is("closed", attached)
    BY <1>1 DEF CurrentKnown
  <2>2. \A m \in Conns : Is("closed", m)' => stage'[m] = "gone"
    BY <1>1, <1>3, <1>5, <1>6, <2>1, ConnsAreNumbers DEF StagesRead
  <2> QED
    BY <1>1, <1>2, <1>3, <1>5, <1>6, <2>2 DEF StagesRead
<1>8. CurrentKnown'
  BY <1>2, <1>3, <1>5, ConnsAreNumbers DEF CurrentKnown
<1>9. CallInv'
  BY <1>1, <1>2, IdleCall
<1> QED
  BY <1>4, <1>7, <1>8, <1>9 DEF LinkInv

LEMMA EndKeeps ==
    ASSUME LinkInv, NEW n \in Conns, End(n)
    PROVE  LinkInv'
<1>1. TypeOK /\ StagesRead /\ CurrentKnown /\ CallInv
  BY DEF LinkInv
<1>2. Detach(n) /\ UNCHANGED <<dialing, owner, dials, framed, inits, byes, rejected, link>>
  BY DEF End
<1>3. /\ stage' \in [Conns -> {"free", "accepted", "greeted", "keyed", "closing", "gone"}]
      /\ attached' \in 0 .. MaxConns /\ events' \in Seq(Events)
      /\ StagesRead' /\ CurrentKnown'
  BY <1>1, <1>2, DetachKeeps
<1>4. TypeOK'
  BY <1>1, <1>2, <1>3 DEF TypeOK, Events, dials, link
<1>5. CallInv'
  BY <1>1, <1>2, IdleCall
<1> QED
  BY <1>3, <1>4, <1>5 DEF LinkInv

-----------------------------------------------------------------------------
(* The tasks that dial.                                                      *)

LEMMA DialKeeps ==
    ASSUME LinkInv, NEW t \in Tasks, NEW n \in Conns, Dial(t, n)
    PROVE  LinkInv'
<1>1. DialsOK
  BY DialsAreTyped DEF LinkInv
<1>4. waiter' \in {waiter, "done"} /\ final' = final
  BY DEF Dial, Told
<1>5. tasks' \in [Tasks -> [at : {"over", "dialing", "running"}, conn : 0 .. MaxConns,
                            first : BOOLEAN, cancelled : BOOLEAN]]
  BY <1>1, TasksAreNumbers DEF Dial, DialsOK
<1>6. dial' \in [task : 0 .. MaxTasks, conn : 0 .. MaxConns,
                 persistent : BOOLEAN, succeeded : BOOLEAN, redial : BOOLEAN]
  <2> DEFINE known == dial.succeeded \/ ~tasks[t].first
  <2>1. known \in BOOLEAN /\ dial' = [dial EXCEPT !.conn = n, !.succeeded = known]
    BY DEF Dial
  <2> HIDE DEF known
  <2> QED
    BY <1>1, <2>1, TasksAreNumbers DEF DialsOK
<1>2. DialsOK'
  BY <1>1, <1>4, <1>5, <1>6 DEF DialsOK
<1> QED
  BY <1>2, NumberKeeps DEF Dial

\* What only the tasks and the url's entries change keeps the rest.
LEMMA TasksKeep ==
    ASSUME LinkInv, DialsOK', UNCHANGED <<dialing, server, recorder, link>>
    PROVE  LinkInv'
<1>1. TypeOK /\ StagesRead /\ CurrentKnown /\ CallInv
  BY DEF LinkInv
<1>2. TypeOK'
  BY <1>1 DEF TypeOK, DialsOK, server, recorder, link
<1>3. StagesRead' /\ CurrentKnown'
  BY <1>1, QuietKeeps DEF Moved, server, recorder
<1>4. CallInv'
  BY <1>1, IdleCall DEF recorder
<1> QED
  BY <1>2, <1>3, <1>4 DEF LinkInv

LEMMA OverKeeps ==
    ASSUME LinkInv, NEW t \in Tasks,
           NEW answer \in {"none", "pending", "done", "cancelled", "error", "timeout"},
           Over(t, answer)
    PROVE  LinkInv'
<1>1. DialsOK
  BY DialsAreTyped DEF LinkInv
<1>2. DialsOK'
  BY <1>1, TaskTypes DEF Over, Told, DialsOK
<1> QED
  BY <1>2, TasksKeep DEF Over

LEMMA DialFailsKeeps ==
    ASSUME LinkInv, NEW t \in Tasks, DialFails(t)
    PROVE  LinkInv'
BY OverKeeps DEF DialFails

LEMMA HandlerEndsKeeps ==
    ASSUME LinkInv, NEW t \in Tasks, HandlerEnds(t)
    PROVE  LinkInv'
<1>1. DialsOK
  BY DialsAreTyped DEF LinkInv
<1>2. CASE Over(t, waiter)
  BY <1>1, <1>2, OverKeeps DEF DialsOK
<1>3. CASE /\ tasks' = [tasks EXCEPT ![t] = [NewTask EXCEPT !.first = ~dial.redial]]
           /\ dial' = [dial EXCEPT !.conn = 0, !.redial = FALSE]
           /\ UNCHANGED <<dialing, server, waiter, final, recorder, link>>
  <2>1. dial.redial \in BOOLEAN
    BY <1>1 DEF DialsOK
  <2>2. DialsOK'
    BY <1>1, <1>3, <2>1, TasksAreNumbers DEF DialsOK, NewTask, NoTask
  <2> QED
    BY <1>3, <2>2, TasksKeep
<1> QED
  BY <1>2, <1>3 DEF HandlerEnds

LEMMA WindDownKeeps ==
    ASSUME LinkInv, NEW t \in Tasks, WindDown(t)
    PROVE  LinkInv'
BY OverKeeps DEF WindDown

-----------------------------------------------------------------------------
(* Link's calls.                                                             *)

\* Asking for a connection, with the tasks and entries of the moment.
LEMMA AskingKeeps ==
    ASSUME DialsOK,
           NEW ts \in [Tasks -> [at : {"over", "dialing", "running"}, conn : 0 .. MaxConns,
                                 first : BOOLEAN, cancelled : BOOLEAN]],
           NEW d \in [task : 0 .. MaxTasks, conn : 0 .. MaxConns,
                      persistent : BOOLEAN, succeeded : BOOLEAN, redial : BOOLEAN],
           Connect(ts, d), final' = final
    PROVE  DialsOK' /\ pc' \in {"dialing", "settling"}
<1> DEFINE again == /\ d.conn # 0 /\ d.conn \in final
                    /\ stage[d.conn] \in {"closing", "gone"}
           known == d.succeeded /\ ~again
           asked == [d EXCEPT !.persistent = TRUE, !.succeeded = known, !.redial = @ \/ again]
<1>1. again \in BOOLEAN /\ known \in BOOLEAN
  OBVIOUS
<1>2. asked \in [task : 0 .. MaxTasks, conn : 0 .. MaxConns,
                 persistent : BOOLEAN, succeeded : BOOLEAN, redial : BOOLEAN]
  <2> DEFINE wanted == d.redial \/ again
  <2>1. wanted \in BOOLEAN
    OBVIOUS
  <2>2. asked = [d EXCEPT !.persistent = TRUE, !.succeeded = known, !.redial = wanted]
    OBVIOUS
  <2> HIDE DEF again, known, wanted, asked
  <2> QED
    BY <1>1, <2>1, <2>2
<1>3. CASE pc' = "settling" /\ tasks' = ts /\ dial' = asked /\ waiter' = waiter
  <2> HIDE DEF asked
  <2> QED
    BY <1>2, <1>3 DEF DialsOK
<1>4. CASE pc' = "dialing" /\ waiter' = "pending" /\ tasks' = ts /\ dial' = asked
  <2> HIDE DEF asked
  <2> QED
    BY <1>2, <1>4 DEF DialsOK
<1>5. CASE /\ pc' = "dialing" /\ waiter' = "pending"
           /\ \E t \in Tasks :
                 /\ tasks' = [ts EXCEPT ![t] = NewTask]
                 /\ dial' = [asked EXCEPT !.task = t, !.conn = 0, !.redial = FALSE]
  <2> HIDE DEF asked
  <2>1. PICK t \in Tasks : /\ tasks' = [ts EXCEPT ![t] = NewTask]
                           /\ dial' = [asked EXCEPT !.task = t, !.conn = 0, !.redial = FALSE]
    BY <1>5
  <2>2. t \in 0 .. MaxTasks /\ 0 \in 0 .. MaxConns
    BY TasksAreNumbers
  <2>3. dial' \in [task : 0 .. MaxTasks, conn : 0 .. MaxConns,
                   persistent : BOOLEAN, succeeded : BOOLEAN, redial : BOOLEAN]
    BY <1>2, <2>1, <2>2
  <2>4. tasks' \in [Tasks -> [at : {"over", "dialing", "running"}, conn : 0 .. MaxConns,
                              first : BOOLEAN, cancelled : BOOLEAN]]
    BY <2>1, TaskTypes
  <2> QED
    BY <1>5, <2>3, <2>4 DEF DialsOK
<1> QED
  BY <1>3, <1>4, <1>5 DEF Connect

LEMMA WatermarkAbove ==
    ASSUME TypeOK
    PROVE  Watermark \in 0 .. MaxConns /\ \A n \in inits : n <= Watermark
<1> DEFINE S == framed \cup {0}
<1>1. MaxConns \in Nat /\ S \in SUBSET (0 .. MaxConns) /\ S # {} /\ inits \subseteq S
  BY ConnsAreNumbers DEF TypeOK
<1> HIDE DEF S
<1>2. Max(S) \in S /\ \A y \in S : y <= Max(S)
  BY <1>1, GreatestOfNumbers
<1> QED
  BY <1>1, <1>2 DEF Watermark, S

\* The search for the next connection begins, past what is behind the call.
LEMMA SeekKeeps ==
    ASSUME TypeOK, NEW mark \in 0 .. MaxConns, SeekNext(mark), number' \in inits,
           inits' = inits, result' = result, result # 0 => result \in inits,
           number' <= mark, op' = "reconnect" => \A n \in before' : n <= mark
    PROVE  /\ CallInv' /\ watermark' \in 0 .. MaxConns
           /\ pc' \in {"dialing", "settling"} /\ DialsOK'
<1>1. DialsOK
  BY DialsAreTyped
<1>2. watermark' = mark /\ final' = final
  BY DEF SeekNext
<1>3. pc' \in {"dialing", "settling"} /\ DialsOK'
  <2>1. CASE Connect(tasks, dial)
    BY <1>1, <1>2, <2>1, AskingKeeps DEF DialsOK
  <2>2. CASE pc' = "settling" /\ UNCHANGED <<tasks, dial, waiter>>
    BY <1>1, <1>2, <2>2 DEF DialsOK
  <2> QED
    BY <2>1, <2>2 DEF SeekNext
<1> QED
  BY <1>2, <1>3 DEF CallInv

LEMMA ReconnectWaitingKeeps ==
    ASSUME LinkInv, ReconnectWaiting
    PROVE  LinkInv'
<1>1. TypeOK /\ StagesRead /\ CurrentKnown /\ CallInv
  BY DEF LinkInv
<1>2. /\ pc = "idle" /\ op' = "reconnect" /\ number' = current /\ before' = inits
      /\ UNCHANGED <<dialing, owner, attached, recorder, result>>
  BY DEF ReconnectWaiting, Call
<1>3. current \in inits /\ current \in Conns
  BY <1>1 DEF CurrentKnown, StagesRead
<1>4. /\ dialing' = dialing /\ owner' = owner /\ attached' = attached
      /\ framed' = framed /\ inits' = inits /\ byes' = byes /\ rejected' = rejected
      /\ events' = events /\ result' = result
  BY <1>2 DEF recorder
<1>5. CASE ToDisconnect /\ stage' = [stage EXCEPT ![attached] = "closing"]
           /\ pc' = "disconnecting" /\ UNCHANGED <<watermark, dials>>
  <2>1. attached \in Conns /\ stage[attached] # "gone"
    BY <1>1, <1>5, ConnsAreNumbers DEF ToDisconnect, TypeOK, StagesRead
  <2>2. TypeOK'
    BY <1>1, <1>2, <1>3, <1>4, <1>5, ConnsAreNumbers DEF TypeOK, dials
  <2>3. \A m \in Conns : Moved(m)
    BY <1>1, <1>5, <2>1 DEF TypeOK, Moved
  <2>4. StagesRead' /\ CurrentKnown'
    BY <1>1, <1>4, <2>3, QuietKeeps
  <2>5. CallInv'
    BY <1>1, <1>2, <1>3, <1>4, <1>5 DEF CallInv
  <2> QED
    BY <2>2, <2>4, <2>5 DEF LinkInv
<1>6. CASE pc' = "awaitClosed" /\ UNCHANGED <<stage, watermark, dials>>
  <2>2. TypeOK'
    BY <1>1, <1>2, <1>3, <1>4, <1>6, ConnsAreNumbers DEF TypeOK, dials
  <2>4. StagesRead' /\ CurrentKnown'
    BY <1>1, <1>4, <1>6, QuietKeeps DEF Moved
  <2>5. CallInv'
    BY <1>1, <1>2, <1>3, <1>4, <1>6 DEF CallInv
  <2> QED
    BY <2>2, <2>4, <2>5 DEF LinkInv
<1>7. CASE SeekNext(Watermark) /\ stage' = stage
  <2>1. CallInv' /\ watermark' \in 0 .. MaxConns /\ pc' \in {"dialing", "settling"} /\ DialsOK'
    BY <1>1, <1>2, <1>3, <1>4, <1>7, WatermarkAbove, SeekKeeps DEF CallInv
  <2>2. TypeOK'
    BY <1>1, <1>2, <1>3, <1>4, <1>7, <2>1, ConnsAreNumbers DEF TypeOK, DialsOK
  <2>4. StagesRead' /\ CurrentKnown'
    BY <1>1, <1>4, <1>7, QuietKeeps DEF Moved
  <2> QED
    BY <2>1, <2>2, <2>4 DEF LinkInv
<1> QED
  BY <1>5, <1>6, <1>7 DEF ReconnectWaiting

LEMMA ReconnectDialingKeeps ==
    ASSUME LinkInv, ReconnectDialing
    PROVE  LinkInv'
<1>1. TypeOK /\ StagesRead /\ CurrentKnown /\ CallInv
  BY DEF LinkInv
<1>2. /\ pc = "idle" /\ op' = "reconnect" /\ number' = current /\ before' = inits
      /\ stage' = [n \in Conns |-> IF /\ dial.task # 0 /\ n = tasks[dial.task].conn
                                      /\ stage[n] # "gone"
                                   THEN "closing" ELSE stage[n]]
      /\ UNCHANGED <<dialing, owner, attached, final, recorder, result>>
      /\ \/ /\ pc' = "awaitClosed" /\ tasks' = Cancelled /\ dial' = Dropped
            /\ watermark' = watermark /\ waiter' = waiter
         \/ watermark' = Watermark /\ Connect(Cancelled, Dropped)
  BY DEF ReconnectDialing, Call
<1>3. current \in inits /\ current \in Conns
  BY <1>1 DEF CurrentKnown, StagesRead
<1>4. /\ dialing' = dialing /\ owner' = owner /\ attached' = attached
      /\ framed' = framed /\ inits' = inits /\ byes' = byes /\ rejected' = rejected
      /\ events' = events /\ result' = result
  BY <1>2 DEF recorder
<1>5. Watermark \in 0 .. MaxConns /\ \A n \in inits : n <= Watermark
  BY <1>1, WatermarkAbove
<1>10. DialsOK
  BY <1>1, DialsAreTyped
<1>11. /\ Cancelled \in [Tasks -> [at : {"over", "dialing", "running"}, conn : 0 .. MaxConns,
                                   first : BOOLEAN, cancelled : BOOLEAN]]
       /\ Dropped \in [task : 0 .. MaxTasks, conn : 0 .. MaxConns,
                        persistent : BOOLEAN, succeeded : BOOLEAN, redial : BOOLEAN]
  BY <1>10, TasksAreNumbers DEF Cancelled, Dropped, DialsOK
<1>12. /\ DialsOK'
       /\ \/ pc' = "awaitClosed" /\ watermark' = watermark
          \/ pc' \in {"dialing", "settling"} /\ watermark' = Watermark
  <2>1. CASE pc' = "awaitClosed" /\ tasks' = Cancelled /\ dial' = Dropped
             /\ watermark' = watermark /\ waiter' = waiter
    BY <1>2, <1>10, <1>11, <2>1 DEF DialsOK
  <2>2. CASE watermark' = Watermark /\ Connect(Cancelled, Dropped)
    BY <1>2, <1>10, <1>11, <2>2, AskingKeeps
  <2> QED
    BY <1>2, <2>1, <2>2
<1>6. TypeOK'
  BY <1>1, <1>2, <1>3, <1>4, <1>5, <1>12, ConnsAreNumbers DEF TypeOK, DialsOK
<1>7. \A m \in Conns : Moved(m)
  BY <1>1, <1>2 DEF TypeOK, Moved
<1>8. StagesRead' /\ CurrentKnown'
  BY <1>1, <1>4, <1>7, QuietKeeps
<1>9. CallInv'
  BY <1>1, <1>2, <1>3, <1>4, <1>5, <1>12 DEF CallInv
<1> QED
  BY <1>6, <1>8, <1>9 DEF LinkInv

LEMMA FinishDisconnectKeeps ==
    ASSUME LinkInv, FinishDisconnect
    PROVE  LinkInv'
<1>1. TypeOK /\ StagesRead /\ CurrentKnown /\ CallInv
  BY DEF LinkInv
<1>2. /\ pc = "disconnecting" /\ Detach(number)
      /\ UNCHANGED <<dialing, owner, framed, inits, byes, rejected, op, number, result, before>>
      /\ \/ pc' = "awaitClosed" /\ watermark' = watermark /\ UNCHANGED dials
         \/ SeekNext(Watermark)
  BY DEF FinishDisconnect
<1>3. number \in inits /\ number \in Conns
  BY <1>1, <1>2 DEF CallInv, TypeOK
<1>4. /\ stage' \in [Conns -> {"free", "accepted", "greeted", "keyed", "closing", "gone"}]
      /\ attached' \in 0 .. MaxConns /\ events' \in Seq(Events)
      /\ StagesRead' /\ CurrentKnown'
  BY <1>1, <1>2, <1>3, DetachKeeps
<1>5. Watermark \in 0 .. MaxConns /\ \A n \in inits : n <= Watermark
  BY <1>1, WatermarkAbove
<1>6. /\ CallInv' /\ watermark' \in 0 .. MaxConns
      /\ pc' \in {"awaitClosed", "dialing", "settling"} /\ DialsOK'
  <2>1. CASE SeekNext(Watermark)
    <3>1. \A n \in before : n \in inits
      BY <1>1 DEF TypeOK
    <3>2. result # 0 => result \in inits
      BY <1>1 DEF CallInv
    <3> QED
      BY <1>1, <1>2, <1>3, <1>5, <2>1, <3>1, <3>2, SeekKeeps
  <2>2. CASE pc' = "awaitClosed" /\ watermark' = watermark /\ UNCHANGED dials
    BY <1>1, <1>2, <1>3, <2>2, DialsAreTyped, DialsRest DEF CallInv, TypeOK
  <2> QED
    BY <1>2, <2>1, <2>2
<1>7. TypeOK'
  BY <1>1, <1>2, <1>4, <1>6 DEF TypeOK, DialsOK, Events
<1> QED
  BY <1>4, <1>6, <1>7 DEF LinkInv

\* The wait for the old connection is over, seen or not.
LEMMA ClosedKeeps ==
    ASSUME LinkInv, pc # "idle", NEW mark \in {Watermark, number}, SeekNext(mark),
           mark = Watermark \/ op = "await_reconnect",
           UNCHANGED <<dialing, server, recorder, op, number, result, before>>
    PROVE  LinkInv'
<1>1. TypeOK /\ StagesRead /\ CurrentKnown /\ CallInv
  BY DEF LinkInv
<1>2. /\ framed' = framed /\ inits' = inits /\ byes' = byes /\ rejected' = rejected
      /\ events' = events /\ owner' = owner /\ stage' = stage /\ attached' = attached
  BY DEF recorder, server
<1>3. number \in inits /\ (result # 0 => result \in inits)
  BY <1>1 DEF CallInv
<1>4. Watermark \in 0 .. MaxConns /\ (\A n \in inits : n <= Watermark) /\ before \subseteq inits
  BY <1>1, WatermarkAbove DEF TypeOK
<1>5. number \in 0 .. MaxConns /\ number <= number
  BY <1>1 DEF TypeOK
<1>6. mark \in 0 .. MaxConns /\ number <= mark /\ (op = "reconnect" => \A n \in before : n <= mark)
  BY <1>3, <1>4, <1>5
<1>7. CallInv' /\ watermark' \in 0 .. MaxConns /\ pc' \in {"dialing", "settling"} /\ DialsOK'
  BY <1>1, <1>2, <1>3, <1>6, SeekKeeps
<1>8. TypeOK'
  BY <1>1, <1>2, <1>7 DEF TypeOK, DialsOK
<1>9. StagesRead' /\ CurrentKnown'
  BY <1>1, <1>2, QuietKeeps DEF Moved
<1> QED
  BY <1>7, <1>8, <1>9 DEF LinkInv

LEMMA OpenConnectionKeeps ==
    ASSUME LinkInv, OpenConnection
    PROVE  LinkInv'
<1>1. TypeOK /\ StagesRead /\ CurrentKnown /\ CallInv
  BY DEF LinkInv
<1>2. /\ pc = "idle" /\ result' = current
      /\ UNCHANGED <<dialing, server, dials, recorder, pc, op, number, watermark, before>>
  BY DEF OpenConnection
<1>3. current \in inits /\ current \in 0 .. MaxConns
  BY <1>1, ConnsAreNumbers DEF CurrentKnown, StagesRead
<1>4. TypeOK'
  BY <1>1, <1>2, <1>3 DEF TypeOK, server, dials, recorder
<1>5. StagesRead' /\ CurrentKnown'
  BY <1>1, <1>2, QuietKeeps DEF Moved, server, recorder
<1>6. CallInv'
  BY <1>1, <1>2, <1>3 DEF CallInv, recorder
<1> QED
  BY <1>4, <1>5, <1>6 DEF LinkInv

LEMMA AwaitReconnectKeeps ==
    ASSUME LinkInv, AwaitReconnect
    PROVE  LinkInv'
<1>1. TypeOK /\ StagesRead /\ CurrentKnown /\ CallInv
  BY DEF LinkInv
<1>2. /\ pc = "idle" /\ result # 0 /\ op' = "await_reconnect" /\ number' = result /\ before' = inits
      /\ pc' = "awaitPrevious"
      /\ UNCHANGED <<dialing, server, dials, recorder, watermark, result>>
  BY DEF AwaitReconnect, Call
<1>3. result \in inits /\ result \in 0 .. MaxConns
  BY <1>1, <1>2 DEF CallInv, TypeOK
<1>4. TypeOK'
  BY <1>1, <1>2, <1>3 DEF TypeOK, server, dials, recorder
<1>5. StagesRead' /\ CurrentKnown'
  BY <1>1, <1>2, QuietKeeps DEF Moved, server, recorder
<1>6. CallInv'
  BY <1>1, <1>2, <1>3 DEF CallInv, recorder
<1> QED
  BY <1>4, <1>5, <1>6 DEF LinkInv

LEMMA HandBackKeeps ==
    ASSUME LinkInv, NEW n \in inits \cup {0}, HandBack(n)
    PROVE  LinkInv'
<1>1. TypeOK /\ StagesRead /\ CurrentKnown /\ CallInv
  BY DEF LinkInv
<1>2. /\ result' = n /\ pc' = "idle" /\ op' = "none" /\ number' = 0 /\ watermark' = 0 /\ before' = {}
      /\ waiter' = "none" /\ UNCHANGED <<dialing, server, tasks, dial, final, recorder>>
  BY DEF HandBack
<1>3. n \in 0 .. MaxConns
  BY <1>1, ConnsAreNumbers DEF TypeOK
<1>4. TypeOK'
  BY <1>1, <1>2, <1>3, ConnsAreNumbers DEF TypeOK, server, recorder
<1>5. StagesRead' /\ CurrentKnown'
  BY <1>1, <1>2, QuietKeeps DEF Moved, server, recorder
<1>6. CallInv'
  BY <1>1, <1>2, <1>3 DEF CallInv, recorder
<1> QED
  BY <1>4, <1>5, <1>6 DEF LinkInv

\* What a call returns is one of the app's connections past its watermark,
\* and one that was keyed if there is any.
LEMMA FirstIsOfThem ==
    ASSUME NEW new \in SUBSET Conns
    PROVE  LET n == FirstOf(new)
           IN  n # 0 => /\ n \in new
                        /\ Is("keyed", n) \/ \A m \in new : ~Is("keyed", m)
<1> DEFINE keyed == {n \in new : Is("keyed", n)}
<1>1. new \in SUBSET Nat /\ keyed \in SUBSET Nat
  BY ConnsAreNumbers
<1>2. keyed # {} => Min(keyed) \in keyed
  <2> HIDE DEF keyed
  <2> QED
    BY <1>1, LeastOfNumbers
<1>3. new # {} => Min(new) \in new
  BY <1>1, LeastOfNumbers
<1> QED
  BY <1>2, <1>3 DEF FirstOf

LEMMA SinceAreConns == TypeOK => connections_since(watermark) \in SUBSET Conns
BY DEF connections_since, TypeOK

LEMMA ReturnKeeps ==
    ASSUME LinkInv, Return
    PROVE  LinkInv'
<1>1. FirstOf(connections_since(watermark)) \in inits \cup {0}
  BY SinceAreConns, FirstIsOfThem DEF LinkInv, connections_since
<1> QED
  BY <1>1, HandBackKeeps DEF Return

\* The waiter was answered: Link goes on to wait, or ends in the exception.
LEMMA AnsweredKeeps ==
    ASSUME LinkInv, SeeDialed \/ DialRaises
    PROVE  LinkInv'
<1>1. TypeOK /\ StagesRead /\ CurrentKnown /\ CallInv
  BY DEF LinkInv
<1>2. /\ pc = "dialing" /\ pc' \in {"settling", "raised"} /\ waiter' = "none"
      /\ UNCHANGED <<dialing, server, tasks, dial, final, recorder, op, number, watermark, result, before>>
  BY DEF SeeDialed, DialRaises
<1>3. TypeOK'
  BY <1>1, <1>2 DEF TypeOK, server, recorder
<1>4. StagesRead' /\ CurrentKnown'
  BY <1>1, <1>2, QuietKeeps DEF Moved, server, recorder
<1>5. CallInv'
  BY <1>1, <1>2 DEF CallInv, recorder
<1> QED
  BY <1>3, <1>4, <1>5 DEF LinkInv

LEMMA LinkBegins == Init => LinkInv
<1> SUFFICES ASSUME Init PROVE LinkInv
  OBVIOUS
<1>1. events = <<Event("keyed", 1)>> /\ stage = [n \in Conns |-> IF n = 1 THEN "keyed" ELSE "free"]
      /\ attached = 1 /\ inits = {1} /\ pc = "idle" /\ result = 0
  BY DEF Init
<1>2. Event("keyed", 1) \in Events /\ Event("keyed", 1).kind = "keyed" /\ Event("keyed", 1).connection = 1
  BY ConnsAreNumbers DEF Event, Events
<1>3. events \in Seq(Events) /\ Len(events) = 1 /\ events[1] = Event("keyed", 1)
  BY <1>1, <1>2
<1>4. \A j \in {"keyed", "closed"}, m \in Conns : Is(j, m) <=> (j = "keyed" /\ m = 1)
  BY <1>3 DEF Is, Contains, Event
<1>5. current = 1
  <2>1. KeyedAt(events) = {1}
    BY <1>2, <1>3 DEF KeyedAt
  <2>2. Max(KeyedAt(events)) = 1
    BY <1>3, <2>1, LastKeyed
  <2> QED
    BY <1>2, <1>3, <2>1, <2>2, CurrentIsLast DEF LastOf
<1>6. TypeOK
  <2>1. DialsOK
    BY ConnsAreNumbers, TasksAreNumbers, TaskTypes DEF Init, DialsOK, NoTask, NoDial
  <2> QED
    BY <1>3, <2>1, ConnsAreNumbers DEF Init, TypeOK, DialsOK, Events
<1>7. StagesRead
  BY <1>1, <1>4, ConnsAreNumbers DEF StagesRead
<1>8. CurrentKnown
  BY <1>1, <1>4, <1>5, ConnsAreNumbers DEF CurrentKnown
<1>9. CallInv
  BY <1>1 DEF CallInv
<1> QED
  BY <1>6, <1>7, <1>8, <1>9 DEF LinkInv

LEMMA LinkKeeps == LinkInv /\ [Next]_vars => LinkInv'
<1> SUFFICES ASSUME LinkInv, [Next]_vars PROVE LinkInv'
  OBVIOUS
<1>1. CASE Environment
  <2>1. PICK n \in Conns : \/ Accept(n) \/ ReceiveInit(n) \/ Attach(n)
                           \/ Reject(n) \/ Goodbye(n) \/ Leave(n) \/ End(n)
    BY <1>1 DEF Environment
  <2> QED
    BY <2>1, AcceptKeeps, ReceiveInitKeeps, AttachKeeps, RejectKeeps, GoodbyeKeeps,
       LeaveKeeps, EndKeeps
<1>5. CASE Dialing
  BY <1>5, DialKeeps, DialFailsKeeps, HandlerEndsKeeps, WindDownKeeps DEF Dialing
<1>2. CASE Calls
  BY <1>2, OpenConnectionKeeps, ReconnectWaitingKeeps, ReconnectDialingKeeps, AwaitReconnectKeeps
     DEF Calls
<1>3. CASE Resume
  <2>1. CASE FinishDisconnect
    BY <2>1, FinishDisconnectKeeps
  <2>2. CASE SeeClosed \/ CloseTimesOut
    BY <2>2, ClosedKeeps DEF SeeClosed, CloseTimesOut
  <2>3. CASE SeePreviousClosed
    <3>1. op = "await_reconnect"
      BY <2>3 DEF LinkInv, CallInv, SeePreviousClosed
    <3> QED
      BY <2>3, <3>1, ClosedKeeps DEF SeePreviousClosed
  <2>4. CASE PreviousTimesOut
    BY <2>4, HandBackKeeps DEF PreviousTimesOut
  <2>5. CASE DialTimesOut \/ SeeSettled \/ NextTimesOut
    BY <2>5, ReturnKeeps DEF DialTimesOut, SeeSettled, NextTimesOut
  <2>6. CASE SeeDialed \/ DialRaises
    BY <2>6, AnsweredKeeps
  <2> QED
    BY <1>3, <2>1, <2>2, <2>3, <2>4, <2>5, <2>6 DEF Resume
<1>4. CASE UNCHANGED vars
  <2>1. UNCHANGED <<dialing, owner, stage, attached, tasks, dial, waiter, final, framed, inits,
                    byes, rejected, events, pc, op, number, watermark, result, before>>
    BY <1>4 DEF vars, server, dials, recorder, link
  <2>2. TypeOK /\ StagesRead /\ CurrentKnown /\ CallInv
    BY DEF LinkInv
  <2>3. StagesRead' /\ CurrentKnown'
    BY <2>1, <2>2, QuietKeeps DEF Moved
  <2>4. TypeOK' /\ CallInv'
    BY <2>1, <2>2 DEF TypeOK, CallInv
  <2> QED
    BY <2>3, <2>4 DEF LinkInv
<1> QED
  BY <1>1, <1>2, <1>3, <1>4, <1>5 DEF Next

\* The invariant says that Link and the server agree on the app's session.
LEMMA LinkInvAgrees == LinkInv => TypeOK /\ CurrentIsAttached
<1> SUFFICES ASSUME LinkInv PROVE TypeOK /\ CurrentIsAttached
  OBVIOUS
<1>1. TypeOK /\ StagesRead /\ CurrentKnown
  BY DEF LinkInv
<1>2. attached # 0 => current = attached /\ ~Is("closed", attached)
  BY <1>1 DEF CurrentKnown
<1>3. is_open(current) => attached = current
  BY <1>1 DEF CurrentKnown, is_open
<1>4. \A n \in Conns : stage[n] = "keyed" => n = attached
  BY <1>1 DEF StagesRead
<1> QED
  BY <1>1, <1>2, <1>3, <1>4 DEF CurrentIsAttached

\* The step in which a call returns.
LEMMA ReturnStep ==
    ASSUME LinkInv, [Next]_vars, pc # "idle", pc' = "idle", result' # 0
    PROVE  /\ result' \in inits /\ owner[result'] = "app"
           /\ result' > number
           /\ op = "reconnect" => result' \notin before
           /\ Is("keyed", result')
               \/ \A n \in Conns : owner[n] = "app" /\ n > watermark => ~Is("keyed", n)
<1>1. TypeOK /\ StagesRead /\ CallInv
  BY DEF LinkInv
<1>2. Return /\ pc \in {"dialing", "settling"}
  <2>1. ~ UNCHANGED vars
    BY DEF vars, link
  <2>2. ~ Environment
    BY DEF Environment, Accept, ReceiveInit, Attach, Reject, Goodbye, Leave, End, link
  <2>6. ~ Dialing
    BY DEF Dialing, Dial, DialFails, HandlerEnds, WindDown, Over, link
  <2>3. ~ Calls
    BY DEF Calls, OpenConnection, ReconnectWaiting, ReconnectDialing, AwaitReconnect, Call
  <2>4. ~ (FinishDisconnect \/ SeeClosed \/ CloseTimesOut \/ SeePreviousClosed)
    BY DEF FinishDisconnect, SeeClosed, CloseTimesOut, SeePreviousClosed, SeekNext, Connect
  <2>5. ~ PreviousTimesOut
    BY DEF PreviousTimesOut, HandBack
  <2>7. ~ SeeDialed /\ ~ DialRaises
    BY DEF SeeDialed, DialRaises
  <2> QED
    BY <2>1, <2>2, <2>3, <2>4, <2>5, <2>6, <2>7
       DEF Next, Resume, DialTimesOut, SeeSettled, NextTimesOut
<1> DEFINE new == connections_since(watermark)
<1>3. pc \in {"dialing", "settling"} /\ result' = FirstOf(new)
  BY <1>2 DEF Return, HandBack
<1>4. new \in SUBSET Conns /\ \A n \in new : n \in inits /\ n > watermark /\ owner[n] = "app"
  BY <1>1, SinceAreConns DEF connections_since
<1>5. result' \in new /\ (Is("keyed", result') \/ \A m \in new : ~Is("keyed", m))
  <2> HIDE DEF new
  <2> QED
    BY <1>3, <1>4, FirstIsOfThem
<1>6. result' \in Nat /\ watermark \in Nat /\ number \in Nat /\ result' > watermark
  BY <1>1, <1>4, <1>5, ConnsAreNumbers DEF TypeOK
<1>7. number <= watermark /\ (op = "reconnect" => \A n \in before : n <= watermark)
  BY <1>1, <1>3 DEF CallInv
<1>8. result' > number
  BY <1>6, <1>7
<1>9. op = "reconnect" => result' \notin before
  BY <1>6, <1>7
<1>10. \A n \in Conns : owner[n] = "app" /\ n > watermark /\ Is("keyed", n) => n \in new
  BY <1>1 DEF StagesRead, connections_since
<1> QED
  BY <1>4, <1>5, <1>8, <1>9, <1>10

-----------------------------------------------------------------------------
(* The pairing between the validator and the app.                            *)

\* Unless Ctrl-C cut a save off, one thread at most writes, what the store
\* holds, and otherwise the file has it.
StoreInv ==
    ~pr_cut =>
        /\ \A t \in P!Threads : t # pr_saving => pr_threads[t] = P!Idle
        /\ pr_saving = 0 => pr_disk = pr_memory /\ pr_tmp = P!NoFile
        /\ pr_saving # 0 =>
              /\ pr_threads[pr_saving].payload = pr_memory
              /\ \/ pr_threads[pr_saving].phase = "write" /\ pr_tmp = P!NoFile
                 \/ pr_threads[pr_saving].phase = "replace" /\ pr_tmp = pr_memory

\* The steps between the forgetting and the restoring.
UAway == {"U1 reconnect", "U2", "U restore"}
RAway == {"R3 withhold", "R3 reconnect", "R3 activated", "R3 restore"}

\* From R4's server/unpair on.
Untied == {"R4 goodbye", "R4 reconnect", "R4 forget", "over", "stopped"}

\* The steps after the pairing was made.
Paired == {"R1", "R3", "R3 admit", "R5", "R5 restart", "R5 return", "R4", "R4 open",
           "R4 unpair", "R4 tell", "R4 goodbye", "R4 reconnect"} \cup RAway

\* Which pairing the store has, and which one waits to be put back.
MemoryInv ==
    ~pr_cut =>
        /\ pr_pc \notin UAway \cup RAway /\ ~pr_unpairing => pr_memory = pr_agreed
        /\ pr_pc \in UAway \cup {"U1"} => pr_earlier = pr_agreed /\ pr_memory \in {0, pr_agreed}
        /\ pr_pc \in {"U1 reconnect", "R4 tell", "R4 goodbye"} \cup RAway => pr_memory = 0
        /\ pr_pc \in {"R4 open", "R4 unpair", "R4 tell", "R4 goodbye"} \cup RAway => pr_record = pr_agreed
        /\ pr_pc = "R4 reconnect" => pr_memory = pr_agreed
        /\ pr_pc \in P!Ends /\ pr_unpairing => pr_memory = 0
        /\ pr_pc \in Paired => pr_agreed # 0
        /\ pr_pc \notin (RAway \ {"R3 withhold"}) \cup {"R3 admit"} => pr_admit
        /\ pr_pc = "R3 reconnect" => ~pr_admit

\* How far the run has come.
PlaceInv ==
    /\ pr_cut => pr_stopping
    /\ pr_stopping => pr_pc \in {"U restore", "R3 restore", "R3 admit", "R4 forget", "stopped"}
    /\ pr_pc \notin {"R1 reconnect", "R5 reconnect"}
    /\ pr_unpairing => pr_pc \in Untied \cup {"R4 tell"}
    /\ pr_pc \in {"R4 tell", "R4 goodbye", "R4 reconnect", "R4 forget"} => pr_unpairing
    /\ pr_session.unpair = "sent" => pr_pc \in Untied
    /\ pr_told => pr_pc \in Untied /\ pr_app = 0
    /\ ~pr_told /\ pr_agreed # 0 => pr_app = pr_agreed

\* The sessions that are judged.
SessionInv ==
    /\ pr_pc \in {"unpaired", "U1"} /\ pr_memory = 0 => pr_session.initial = "sentinel"
    /\ pr_pc \in {"R3 activated", "R3 restore", "R3 admit"} /\ pr_number /\ ~pr_stopping =>
          /\ pr_session.initial = "sentinel" /\ pr_session.last = "sentinel"
          /\ ~pr_session.trusted /\ pr_session.activated # "roles"
    /\ pr_pc = "R4 goodbye" /\ pr_told => pr_session.goodbye

\* Who is blamed, and that it is too late for the app to be told.
BlameInv ==
    /\ pr_blamed \subseteq {<<"R4 goodbye", "FAIL">>, <<"R4 record", "FAIL">>}
    /\ pr_blamed # {} =>
          ~pr_told /\ pr_pc \in Untied \ {"R4 goodbye"} /\ ~(pr_session.open /\ P!Unpairable)

PairInv == P!TypeOK /\ StoreInv /\ MemoryInv /\ PlaceInv /\ SessionInv /\ BlameInv

-----------------------------------------------------------------------------
(* Sessions and the store.                                                   *)

LEMMA PairingTypes ==
    ASSUME P!TypeOK
    PROVE  /\ P!Keying \in P!Keyings /\ P!Session(P!Keying) \in P!Sessions /\ pr_session \in P!Sessions
           /\ [pr_session EXCEPT !.open = FALSE] \in P!Sessions
           /\ P!Idle \in [phase : {"idle", "write", "replace"}, payload : P!Records]
<1>1. P!Keying \in P!Keyings
  BY DEF P!Keying, P!Keyings
<1>2. P!Session(P!Keying) \in P!Sessions
  BY <1>1 DEF P!Session, P!Sessions, P!TypeOK
<1>3. pr_session \in P!Sessions /\ [pr_session EXCEPT !.open = FALSE] \in P!Sessions
  BY DEF P!Sessions, P!TypeOK
<1>4. P!Idle \in [phase : {"idle", "write", "replace"}, payload : P!Records]
  BY DEF P!Idle, P!Records
<1> QED
  BY <1>1, <1>2, <1>3, <1>4

\* A session ends, or a new one begins, with nothing sent on it.
LEMMA SessionBegins ==
    /\ P!Session(P!Keying).open /\ P!Session(P!Keying).trusted = pr_admit /\ P!Session(P!Keying).initial = P!Keying
    /\ P!Session(P!Keying).last = P!Keying /\ P!Session(P!Keying).activated = "pending"
    /\ P!Session(P!Keying).unpair = "none" /\ P!Session(P!Keying).goodbye = FALSE
BY DEF P!Session

LEMMA SessionEnds ==
    ASSUME P!TypeOK, pr_session' = [pr_session EXCEPT !.open = FALSE]
    PROVE  /\ pr_session' \in P!Sessions /\ pr_session'.open = FALSE
           /\ pr_session'.trusted = pr_session.trusted /\ pr_session'.initial = pr_session.initial
           /\ pr_session'.last = pr_session.last /\ pr_session'.activated = pr_session.activated
           /\ pr_session'.unpair = pr_session.unpair /\ pr_session'.goodbye = pr_session.goodbye
BY DEF P!TypeOK, P!Sessions

LEMMA Reconnected ==
    ASSUME P!TypeOK, P!Reconnect
    PROVE  /\ pr_session' \in P!Sessions
           /\ pr_session'.open => /\ pr_session'.initial = P!Keying /\ pr_session'.last = P!Keying
                               /\ pr_session'.trusted = pr_admit /\ pr_session'.activated = "pending"
                               /\ pr_session'.unpair = "none"
           /\ pr_session'.unpair = "sent" => pr_session.unpair = "sent"
           /\ pr_session'.initial \in {pr_session.initial, P!Keying}
<1>1. CASE pr_session' = P!Session(P!Keying)
  BY <1>1, PairingTypes, SessionBegins
<1>2. CASE pr_session' = [pr_session EXCEPT !.open = FALSE]
  BY <1>2, SessionEnds
<1> QED
  BY <1>1, <1>2 DEF P!Reconnect

LEMMA StoreRests ==
    ASSUME StoreInv, UNCHANGED P!store, pr_cut' = pr_cut
    PROVE  StoreInv'
<1>1. UNCHANGED <<pr_memory, pr_disk, pr_tmp, pr_threads, pr_saving>>
  BY DEF P!store
<1> QED
  BY <1>1 DEF StoreInv

\* What a write to the store leaves to a thread.
LEMMA Putting ==
    ASSUME P!TypeOK, StoreInv, pr_saving = 0, NEW rec \in P!Records, P!Put(rec), pr_cut' = pr_cut
    PROVE  /\ pr_memory' = rec /\ pr_saving' \in P!Threads /\ UNCHANGED <<pr_admit, pr_disk, pr_tmp>>
           /\ pr_threads' \in [P!Threads -> [phase : {"idle", "write", "replace"}, payload : P!Records]]
           /\ pr_threads'[pr_saving'].phase # "idle"
           /\ StoreInv'
<1>1. PICK t \in P!Threads :
          pr_threads[t] = P!Idle /\ pr_threads' = [pr_threads EXCEPT ![t] = [phase |-> "write", payload |-> rec]]
          /\ pr_saving' = t
  BY DEF P!Put, P!Save
<1> DEFINE new == [phase |-> "write", payload |-> rec]
<1>2. new \in [phase : {"idle", "write", "replace"}, payload : P!Records]
      /\ new.phase = "write" /\ new.payload = rec
  OBVIOUS
<1> HIDE DEF new
<1>3. /\ pr_threads' \in [P!Threads -> [phase : {"idle", "write", "replace"}, payload : P!Records]]
      /\ \A u \in P!Threads : pr_threads'[u] = IF u = t THEN new ELSE pr_threads[u]
  BY <1>1, <1>2 DEF P!TypeOK, new
<1>4. pr_memory' = rec /\ UNCHANGED <<pr_admit, pr_disk, pr_tmp>>
  BY DEF P!Put
<1>5. 0 \notin P!Threads
  BY DEF P!Threads
<1>6. StoreInv'
  <2> SUFFICES ASSUME ~pr_cut
        PROVE  /\ \A u \in P!Threads : u # pr_saving' => pr_threads'[u] = P!Idle
               /\ pr_saving' = 0 => pr_disk' = pr_memory' /\ pr_tmp' = P!NoFile
               /\ pr_saving' # 0 =>
                    /\ pr_threads'[pr_saving'].payload = pr_memory'
                    /\ \/ pr_threads'[pr_saving'].phase = "write" /\ pr_tmp' = P!NoFile
                       \/ pr_threads'[pr_saving'].phase = "replace" /\ pr_tmp' = pr_memory'
    BY DEF StoreInv, P!Idle
  <2>1. pr_tmp = P!NoFile /\ \A u \in P!Threads : pr_threads[u] = P!Idle
    BY <1>5 DEF StoreInv
  <2> QED
    BY <1>1, <1>2, <1>3, <1>4, <1>5, <2>1
<1> QED
  BY <1>1, <1>2, <1>3, <1>4, <1>6

\* What a step that may write to the store keeps.
LEMMA Writing ==
    ASSUME P!TypeOK, StoreInv, pr_saving = 0, NEW rec \in P!Records, P!Put(rec) \/ (pr_memory = rec /\ UNCHANGED P!store),
           pr_cut' = pr_cut
    PROVE  /\ pr_memory' = rec /\ pr_saving' \in {0} \cup P!Threads /\ UNCHANGED <<pr_admit, pr_disk, pr_tmp>>
           /\ pr_threads' \in [P!Threads -> [phase : {"idle", "write", "replace"}, payload : P!Records]]
           /\ pr_saving' # 0 => pr_threads'[pr_saving'].phase # "idle"
           /\ StoreInv'
<1>1. CASE P!Put(rec)
  BY <1>1, Putting
<1>2. CASE pr_memory = rec /\ UNCHANGED P!store
  BY <1>2, StoreRests DEF P!TypeOK, P!store
<1> QED
  BY <1>1, <1>2

LEMMA Removing ==
    ASSUME P!TypeOK, StoreInv, pr_saving = 0, P!Remove, pr_cut' = pr_cut
    PROVE  /\ pr_memory' = 0 /\ pr_saving' \in {0} \cup P!Threads /\ UNCHANGED <<pr_admit, pr_disk, pr_tmp>>
           /\ pr_threads' \in [P!Threads -> [phase : {"idle", "write", "replace"}, payload : P!Records]]
           /\ pr_saving' # 0 => pr_threads'[pr_saving'].phase # "idle"
           /\ StoreInv'
<1>1. 0 \in P!Records
  BY DEF P!Records
<1> QED
  BY <1>1, Writing DEF P!Remove

-----------------------------------------------------------------------------
(* Steps that only move on.                                                  *)

LEMMA SkipKeeps ==
    ASSUME PairInv, NEW label, NEW next, P!Skip(label, next),
           <<label, next>> \in {<<"U1", "U2">>, <<"U2", "U restore">>, <<"PAIR", "post-pairing">>,
               <<"R1", "R3">>, <<"R3", "R5">>, <<"R5", "R4">>, <<"R5 restart", "R4">>, <<"R4", "over">>,
               <<"R3 activated", "R3 restore">>, <<"R5 restart", "R5 return">>}
    PROVE  PairInv'
<1>1. P!TypeOK /\ StoreInv /\ MemoryInv /\ PlaceInv /\ SessionInv /\ BlameInv
  BY DEF PairInv
<1>2. /\ pr_pc = label /\ pr_saving = 0 /\ pr_pc' = next
      /\ UNCHANGED <<pr_suites, pr_stopping, P!store, pr_earlier, pr_record, pr_number, pr_app, pr_session, pr_blamed, P!ghosts>>
  BY DEF P!Skip, P!At, P!Go
<1>3. StoreInv'
  BY <1>1, <1>2, StoreRests DEF P!ghosts
<1>4. P!TypeOK'
  BY <1>1, <1>2 DEF P!TypeOK, P!store, P!ghosts, P!Prompts, P!Waits, P!Others, P!Ends
<1>5. MemoryInv'
  BY <1>1, <1>2 DEF MemoryInv, PlaceInv, P!store, P!ghosts, UAway, RAway, Paired, Untied, P!Ends
<1>6. PlaceInv'
  BY <1>1, <1>2 DEF PlaceInv, P!store, P!ghosts, Untied
<1>7. SessionInv'
  BY <1>1, <1>2 DEF SessionInv, PlaceInv, P!store, P!ghosts, Untied
<1>8. BlameInv'
  BY <1>1, <1>2 DEF BlameInv, P!Unpairable, P!store, P!ghosts, Untied
<1> QED
  BY <1>3, <1>4, <1>5, <1>6, <1>7, <1>8 DEF PairInv

-----------------------------------------------------------------------------
(* U1 and what comes before it.                                              *)

LEMMA UnpairedKeeps ==
    ASSUME PairInv, P!Unpaired
    PROVE  PairInv'
<1>1. P!TypeOK /\ StoreInv /\ MemoryInv /\ PlaceInv /\ SessionInv /\ BlameInv
  BY DEF PairInv
<1>2. /\ pr_pc = "unpaired" /\ pr_saving = 0
      /\ \/ pr_pc' = "U1" /\ pr_earlier' = pr_memory
         \/ pr_pc' = "pairing" /\ pr_earlier' = pr_earlier
      /\ UNCHANGED <<pr_suites, pr_stopping, P!store, pr_record, pr_number, pr_app, pr_session, pr_blamed, P!ghosts>>
  BY DEF P!Unpaired, P!At, P!Go
<1>3. StoreInv'
  BY <1>1, <1>2, StoreRests DEF P!ghosts
<1>4. P!TypeOK'
  BY <1>1, <1>2 DEF P!TypeOK, P!store, P!ghosts, P!Prompts, P!Waits, P!Others, P!Ends
<1>5. MemoryInv'
  BY <1>1, <1>2 DEF MemoryInv, PlaceInv, P!store, P!ghosts, UAway, RAway, Paired, Untied, P!Ends
<1>6. PlaceInv'
  BY <1>1, <1>2 DEF PlaceInv, P!store, P!ghosts, Untied
<1>7. SessionInv'
  BY <1>1, <1>2 DEF SessionInv, P!store, P!ghosts
<1>8. BlameInv'
  BY <1>1, <1>2 DEF BlameInv, P!Unpairable, P!store, P!ghosts, Untied
<1> QED
  BY <1>3, <1>4, <1>5, <1>6, <1>7, <1>8 DEF PairInv

LEMMA U1Keeps ==
    ASSUME PairInv, P!U1
    PROVE  PairInv'
<1>1. P!TypeOK /\ StoreInv /\ MemoryInv /\ PlaceInv /\ SessionInv /\ BlameInv
  BY DEF PairInv
<1>2. /\ pr_pc = "U1" /\ pr_saving = 0 /\ P!Remove
      /\ \/ pr_memory = 0 /\ pr_blamed' = pr_blamed \cup P!Judge("U1", "sentinel", pr_session.initial) /\ pr_pc' = "U2"
         \/ pr_memory # 0 /\ pr_blamed' = pr_blamed /\ pr_pc' = "U1 reconnect"
      /\ UNCHANGED <<pr_suites, pr_stopping, pr_earlier, pr_record, pr_number, pr_app, pr_session, P!ghosts>>
  BY DEF P!U1, P!At, P!Go
<1>3. pr_blamed' = pr_blamed
  BY <1>1, <1>2 DEF SessionInv, P!Judge
<1>4. /\ pr_memory' = 0 /\ pr_saving' \in {0} \cup P!Threads /\ UNCHANGED <<pr_admit, pr_disk, pr_tmp>>
      /\ pr_threads' \in [P!Threads -> [phase : {"idle", "write", "replace"}, payload : P!Records]]
      /\ pr_saving' # 0 => pr_threads'[pr_saving'].phase # "idle"
      /\ StoreInv'
  BY <1>1, <1>2, Removing DEF P!ghosts
<1>5. P!TypeOK'
  <2>1. pr_memory' \in P!Records
    BY <1>4 DEF P!Records
  <2>2. pr_pc' \in {"U2", "U1 reconnect"}
    BY <1>2
  <2>3. UNCHANGED <<pr_suites, pr_stopping, pr_earlier, pr_record, pr_number, pr_app, pr_session, P!ghosts>>
    BY <1>2
  <2> QED
    BY <1>1, <1>3, <1>4, <2>1, <2>2, <2>3 DEF P!TypeOK, P!ghosts, P!Prompts, P!Waits, P!Others, P!Ends
<1>6. MemoryInv'
  BY <1>1, <1>2, <1>4 DEF MemoryInv, PlaceInv, P!ghosts, UAway, RAway, Paired, Untied, P!Ends
<1>7. PlaceInv'
  BY <1>1, <1>2 DEF PlaceInv, P!ghosts, Untied
<1>8. SessionInv'
  BY <1>1, <1>2 DEF SessionInv, P!ghosts
<1>9. BlameInv'
  BY <1>1, <1>2, <1>3 DEF BlameInv, P!Unpairable, P!ghosts, Untied
<1> QED
  BY <1>4, <1>5, <1>6, <1>7, <1>8, <1>9 DEF PairInv

\* A session that reconnect returned is blamed for its keying.
LEMMA BlamedFor ==
    ASSUME P!TypeOK, NEW check, NEW expected \in {"sentinel", "long_term"},
           P!JudgeReconnected(check, expected), pr_session'.open => pr_session'.initial = expected
    PROVE  pr_blamed' = pr_blamed
BY DEF P!JudgeReconnected, P!Judge

LEMMA U1ReconnectKeeps ==
    ASSUME PairInv, P!U1Reconnect
    PROVE  PairInv'
<1>1. P!TypeOK /\ StoreInv /\ MemoryInv /\ PlaceInv /\ SessionInv /\ BlameInv
  BY DEF PairInv
<1>2. /\ pr_pc = "U1 reconnect" /\ pr_saving = 0 /\ pr_pc' = "U2"
      /\ P!Reconnect /\ P!JudgeReconnected("U1", "sentinel")
      /\ UNCHANGED <<pr_suites, pr_stopping, P!store, pr_earlier, pr_record, pr_number, pr_app, P!ghosts>>
  BY DEF P!U1Reconnect, P!At, P!Go
<1>3. /\ pr_session' \in P!Sessions /\ (pr_session'.open => pr_session'.initial = P!Keying)
      /\ pr_session'.unpair = "sent" => pr_session.unpair = "sent"
  BY <1>1, <1>2, Reconnected
<1>4. pr_blamed' = pr_blamed
  <2>1. pr_memory = 0
    BY <1>1, <1>2 DEF MemoryInv, PlaceInv
  <2> QED
    BY <1>1, <1>2, <1>3, <2>1, BlamedFor DEF P!Keying
<1>5. StoreInv'
  BY <1>1, <1>2, StoreRests DEF P!ghosts
<1>6. P!TypeOK'
  BY <1>1, <1>2, <1>3, <1>4 DEF P!TypeOK, P!store, P!ghosts, P!Prompts, P!Waits, P!Others, P!Ends
<1>7. MemoryInv'
  BY <1>1, <1>2 DEF MemoryInv, PlaceInv, P!store, P!ghosts, UAway, RAway, Paired, Untied, P!Ends
<1>8. PlaceInv'
  BY <1>1, <1>2, <1>3 DEF PlaceInv, P!store, P!ghosts, Untied
<1>9. SessionInv'
  BY <1>2 DEF SessionInv
<1>10. BlameInv'
  BY <1>1, <1>2, <1>4 DEF BlameInv, Untied
<1> QED
  BY <1>5, <1>6, <1>7, <1>8, <1>9, <1>10 DEF PairInv

LEMMA U2ToU3Keeps ==
    ASSUME PairInv, P!U2ToU3
    PROVE  PairInv'
<1>1. P!TypeOK /\ StoreInv /\ MemoryInv /\ PlaceInv /\ SessionInv /\ BlameInv
  BY DEF PairInv
<1>2. /\ pr_pc = "U2" /\ pr_saving = 0 /\ pr_pc' = pr_pc /\ P!Reconnect
      /\ UNCHANGED <<pr_suites, pr_stopping, P!store, pr_earlier, pr_record, pr_number, pr_app, pr_blamed, P!ghosts>>
  BY DEF P!U2ToU3, P!At, P!Go
<1>3. pr_session' \in P!Sessions /\ (pr_session'.unpair = "sent" => pr_session.unpair = "sent")
  BY <1>1, <1>2, Reconnected
<1>5. StoreInv'
  BY <1>1, <1>2, StoreRests DEF P!ghosts
<1>6. P!TypeOK'
  BY <1>1, <1>2, <1>3 DEF P!TypeOK, P!store, P!ghosts
<1>7. MemoryInv'
  BY <1>1, <1>2 DEF MemoryInv, P!store, P!ghosts
<1>8. PlaceInv'
  BY <1>1, <1>2, <1>3 DEF PlaceInv, P!store, P!ghosts
<1>9. SessionInv'
  BY <1>2 DEF SessionInv
<1>10. BlameInv'
  BY <1>1, <1>2 DEF BlameInv, Untied
<1> QED
  BY <1>5, <1>6, <1>7, <1>8, <1>9, <1>10 DEF PairInv

LEMMA URestoreKeeps ==
    ASSUME PairInv, P!URestore
    PROVE  PairInv'
<1>1. P!TypeOK /\ StoreInv /\ MemoryInv /\ PlaceInv /\ SessionInv /\ BlameInv
  BY DEF PairInv
<1>2. /\ pr_pc = "U restore" /\ pr_saving = 0
      /\ pr_pc' = IF pr_stopping THEN "stopped" ELSE "pairing"
      /\ IF pr_earlier # 0 THEN P!Put(pr_earlier) ELSE UNCHANGED P!store
      /\ UNCHANGED <<pr_suites, pr_stopping, pr_earlier, pr_record, pr_number, pr_app, pr_session, pr_blamed, P!ghosts>>
  BY DEF P!URestore, P!At, P!Go
<1> DEFINE rec == IF pr_earlier # 0 THEN pr_earlier ELSE pr_memory
<1>3. rec \in P!Records /\ (P!Put(rec) \/ (pr_memory = rec /\ UNCHANGED P!store))
  BY <1>1, <1>2 DEF P!TypeOK
<1>4. /\ pr_memory' = rec /\ pr_saving' \in {0} \cup P!Threads /\ UNCHANGED <<pr_admit, pr_disk, pr_tmp>>
      /\ pr_threads' \in [P!Threads -> [phase : {"idle", "write", "replace"}, payload : P!Records]]
      /\ pr_saving' # 0 => pr_threads'[pr_saving'].phase # "idle"
      /\ StoreInv'
  <2> HIDE DEF rec
  <2> QED
    BY <1>1, <1>2, <1>3, Writing DEF P!ghosts
<1>5. P!TypeOK'
  BY <1>1, <1>2, <1>3, <1>4 DEF P!TypeOK, P!ghosts, P!Prompts, P!Waits, P!Others, P!Ends
<1>6. MemoryInv'
  BY <1>1, <1>2, <1>4 DEF MemoryInv, PlaceInv, P!ghosts, UAway, RAway, Paired, Untied, P!Ends
<1>7. PlaceInv'
  BY <1>1, <1>2 DEF PlaceInv, P!ghosts, Untied
<1>8. SessionInv'
  BY <1>1, <1>2 DEF SessionInv, P!ghosts
<1>9. BlameInv'
  BY <1>1, <1>2 DEF BlameInv, P!Unpairable, P!ghosts, Untied
<1> QED
  BY <1>4, <1>5, <1>6, <1>7, <1>8, <1>9 DEF PairInv

-----------------------------------------------------------------------------
(* The pairing suite, R1 and R3.                                             *)

LEMMA PairingKeeps ==
    ASSUME PairInv, P!Pairing
    PROVE  PairInv'
<1>1. P!TypeOK /\ StoreInv /\ MemoryInv /\ PlaceInv /\ SessionInv /\ BlameInv
  BY DEF PairInv
<1>2. /\ pr_pc = "pairing" /\ pr_saving = 0 /\ pr_pc' \in {"PAIR", "post-pairing"}
      /\ UNCHANGED <<pr_suites, pr_stopping, P!store, pr_earlier, pr_record, pr_number, pr_app, pr_session, pr_blamed, P!ghosts>>
  BY DEF P!Pairing, P!At, P!Go
<1>3. StoreInv'
  BY <1>1, <1>2, StoreRests DEF P!ghosts
<1>4. P!TypeOK'
  BY <1>1, <1>2 DEF P!TypeOK, P!store, P!ghosts, P!Prompts, P!Waits, P!Others, P!Ends
<1>5. MemoryInv'
  BY <1>1, <1>2 DEF MemoryInv, P!store, P!ghosts, UAway, RAway, Paired, P!Ends
<1>6. PlaceInv'
  BY <1>1, <1>2 DEF PlaceInv, P!store, P!ghosts, Untied
<1>7. SessionInv'
  BY <1>2 DEF SessionInv
<1>8. BlameInv'
  BY <1>1, <1>2 DEF BlameInv, Untied
<1> QED
  BY <1>3, <1>4, <1>5, <1>6, <1>7, <1>8 DEF PairInv

LEMMA PairKeeps ==
    ASSUME PairInv, P!Pair
    PROVE  PairInv'
<1>1. P!TypeOK /\ StoreInv /\ MemoryInv /\ PlaceInv /\ SessionInv /\ BlameInv
  BY DEF PairInv
<1>2. /\ pr_pc = "PAIR" /\ pr_saving = 0 /\ pr_pc' = "post-pairing" /\ P!Put(2) /\ pr_app' = 2 /\ pr_agreed' = 2
      /\ pr_session' = [pr_session EXCEPT !.last = "long_term"]
      /\ UNCHANGED <<pr_suites, pr_stopping, pr_earlier, pr_record, pr_number, pr_blamed, pr_unpairing, pr_told, pr_cut>>
  BY DEF P!Pair, P!At, P!Go
<1>3. 2 \in P!Records
  BY DEF P!Records
<1>4. /\ pr_memory' = 2 /\ pr_saving' \in P!Threads /\ UNCHANGED <<pr_admit, pr_disk, pr_tmp>>
      /\ pr_threads' \in [P!Threads -> [phase : {"idle", "write", "replace"}, payload : P!Records]]
      /\ pr_threads'[pr_saving'].phase # "idle"
      /\ StoreInv'
  BY <1>1, <1>2, <1>3, Putting
<1>5. pr_session' \in P!Sessions /\ pr_session'.unpair = pr_session.unpair
  BY <1>1, <1>2 DEF P!TypeOK, P!Sessions, P!Keyings
<1>6. P!TypeOK'
  BY <1>1, <1>2, <1>3, <1>4, <1>5 DEF P!TypeOK, P!Prompts, P!Waits, P!Others, P!Ends
<1>7. MemoryInv'
  BY <1>1, <1>2, <1>4 DEF MemoryInv, UAway, RAway, Paired, P!Ends
<1>8. PlaceInv'
  BY <1>1, <1>2, <1>5 DEF PlaceInv, Untied
<1>9. SessionInv'
  BY <1>2 DEF SessionInv
<1>10. BlameInv'
  BY <1>1, <1>2 DEF BlameInv, Untied
<1> QED
  BY <1>4, <1>6, <1>7, <1>8, <1>9, <1>10 DEF PairInv

LEMMA PostPairingKeeps ==
    ASSUME PairInv, P!PostPairing
    PROVE  PairInv'
<1>1. P!TypeOK /\ StoreInv /\ MemoryInv /\ PlaceInv /\ SessionInv /\ BlameInv
  BY DEF PairInv
<1>2. /\ pr_pc = "post-pairing" /\ pr_saving = 0 /\ pr_pc' \in {"R1", "over"} /\ (pr_pc' = "R1" => pr_memory # 0)
      /\ UNCHANGED <<pr_suites, pr_stopping, P!store, pr_earlier, pr_record, pr_number, pr_app, pr_session, pr_blamed, P!ghosts>>
  BY DEF P!PostPairing, P!At, P!Go
<1>3. StoreInv'
  BY <1>1, <1>2, StoreRests DEF P!ghosts
<1>4. P!TypeOK'
  BY <1>1, <1>2 DEF P!TypeOK, P!store, P!ghosts, P!Prompts, P!Waits, P!Others, P!Ends
<1>5. MemoryInv'
  BY <1>1, <1>2 DEF MemoryInv, PlaceInv, P!store, P!ghosts, UAway, RAway, Paired, Untied, P!Ends
<1>6. PlaceInv'
  BY <1>1, <1>2 DEF PlaceInv, P!store, P!ghosts, Untied
<1>7. SessionInv'
  BY <1>2 DEF SessionInv
<1>8. BlameInv'
  BY <1>1, <1>2 DEF BlameInv, Untied
<1> QED
  BY <1>3, <1>4, <1>5, <1>6, <1>7, <1>8 DEF PairInv

LEMMA R1Keeps ==
    ASSUME PairInv, P!R1
    PROVE  PairInv'
<1>1. P!TypeOK /\ StoreInv /\ MemoryInv /\ PlaceInv /\ SessionInv /\ BlameInv
  BY DEF PairInv
<1>2. /\ pr_pc = "R1" /\ pr_saving = 0 /\ pr_pc' = "R3"
      /\ P!Reconnect /\ P!JudgeReconnected("R1", "long_term")
      /\ UNCHANGED <<pr_suites, pr_stopping, P!store, pr_earlier, pr_record, pr_number, pr_app, P!ghosts>>
  BY DEF P!R1, P!At, P!Go
<1>3. /\ pr_session' \in P!Sessions /\ (pr_session'.open => pr_session'.initial = P!Keying)
      /\ pr_session'.unpair = "sent" => pr_session.unpair = "sent"
  BY <1>1, <1>2, Reconnected
<1>4. pr_blamed' = pr_blamed
  <2>1. pr_memory # 0 /\ pr_app = pr_memory
    BY <1>1, <1>2 DEF MemoryInv, PlaceInv, UAway, RAway, Paired, Untied
  <2> QED
    BY <1>1, <1>2, <1>3, <2>1, BlamedFor DEF P!Keying
<1>5. StoreInv'
  BY <1>1, <1>2, StoreRests DEF P!ghosts
<1>6. P!TypeOK'
  BY <1>1, <1>2, <1>3, <1>4 DEF P!TypeOK, P!store, P!ghosts, P!Prompts, P!Waits, P!Others, P!Ends
<1>7. MemoryInv'
  BY <1>1, <1>2 DEF MemoryInv, P!store, P!ghosts, UAway, RAway, Paired, P!Ends
<1>8. PlaceInv'
  BY <1>1, <1>2, <1>3 DEF PlaceInv, P!store, P!ghosts, Untied
<1>9. SessionInv'
  BY <1>2 DEF SessionInv
<1>10. BlameInv'
  BY <1>1, <1>2, <1>4 DEF BlameInv, Untied
<1> QED
  BY <1>5, <1>6, <1>7, <1>8, <1>9, <1>10 DEF PairInv

LEMMA R3Keeps ==
    ASSUME PairInv, P!R3
    PROVE  PairInv'
<1>1. P!TypeOK /\ StoreInv /\ MemoryInv /\ PlaceInv /\ SessionInv /\ BlameInv
  BY DEF PairInv
<1>2. /\ pr_pc = "R3" /\ pr_saving = 0 /\ pr_pc' = "R3 withhold" /\ pr_record' = pr_memory /\ P!Remove
      /\ UNCHANGED <<pr_suites, pr_stopping, pr_earlier, pr_number, pr_app, pr_session, pr_blamed, P!ghosts>>
  BY DEF P!R3, P!At, P!Go
<1>3. /\ pr_memory' = 0 /\ pr_saving' \in {0} \cup P!Threads /\ UNCHANGED <<pr_admit, pr_disk, pr_tmp>>
      /\ pr_threads' \in [P!Threads -> [phase : {"idle", "write", "replace"}, payload : P!Records]]
      /\ pr_saving' # 0 => pr_threads'[pr_saving'].phase # "idle"
      /\ StoreInv'
  BY <1>1, <1>2, Removing DEF P!ghosts
<1>4. pr_memory' \in P!Records
  BY <1>3 DEF P!Records
<1>5. P!TypeOK'
  BY <1>1, <1>2, <1>3, <1>4 DEF P!TypeOK, P!ghosts, P!Prompts, P!Waits, P!Others, P!Ends
<1>6. MemoryInv'
  BY <1>1, <1>2, <1>3 DEF MemoryInv, PlaceInv, P!ghosts, UAway, RAway, Paired, Untied, P!Ends
<1>7. PlaceInv'
  BY <1>1, <1>2 DEF PlaceInv, P!ghosts, Untied
<1>8. SessionInv'
  BY <1>2 DEF SessionInv
<1>9. BlameInv'
  BY <1>1, <1>2 DEF BlameInv, Untied
<1> QED
  BY <1>3, <1>5, <1>6, <1>7, <1>8, <1>9 DEF PairInv

LEMMA R3WithholdKeeps ==
    ASSUME PairInv, P!R3Withhold
    PROVE  PairInv'
<1>1. P!TypeOK /\ StoreInv /\ MemoryInv /\ PlaceInv /\ SessionInv /\ BlameInv
  BY DEF PairInv
<1>2. /\ pr_pc = "R3 withhold" /\ pr_saving = 0 /\ pr_pc' = "R3 reconnect" /\ pr_admit' = FALSE
      /\ UNCHANGED <<pr_suites, pr_stopping, pr_memory, pr_disk, pr_tmp, pr_threads, pr_saving, pr_earlier, pr_record,
                     pr_number, pr_app, pr_session, pr_blamed, P!ghosts>>
  BY DEF P!R3Withhold, P!At, P!Go
<1>3. StoreInv'
  BY <1>1, <1>2 DEF StoreInv, P!ghosts
<1>4. P!TypeOK'
  BY <1>1, <1>2 DEF P!TypeOK, P!ghosts, P!Prompts, P!Waits, P!Others, P!Ends
<1>5. MemoryInv'
  BY <1>1, <1>2 DEF MemoryInv, P!ghosts, UAway, RAway, Paired, P!Ends
<1>6. PlaceInv'
  BY <1>1, <1>2 DEF PlaceInv, P!ghosts, Untied
<1>7. SessionInv'
  BY <1>2 DEF SessionInv
<1>8. BlameInv'
  BY <1>1, <1>2 DEF BlameInv, Untied
<1> QED
  BY <1>3, <1>4, <1>5, <1>6, <1>7, <1>8 DEF PairInv

LEMMA R3ReconnectKeeps ==
    ASSUME PairInv, P!R3Reconnect
    PROVE  PairInv'
<1>1. P!TypeOK /\ StoreInv /\ MemoryInv /\ PlaceInv /\ SessionInv /\ BlameInv
  BY DEF PairInv
<1>2. /\ pr_pc = "R3 reconnect" /\ pr_saving = 0 /\ P!Reconnect /\ pr_number' = pr_session'.open
      /\ pr_pc' = IF pr_number' THEN "R3 activated" ELSE "R3 restore"
      /\ UNCHANGED <<pr_suites, pr_stopping, P!store, pr_earlier, pr_record, pr_app, pr_blamed, P!ghosts>>
  BY DEF P!R3Reconnect, P!At, P!Go
<1>3. /\ pr_session' \in P!Sessions
      /\ pr_session'.open => /\ pr_session'.initial = P!Keying /\ pr_session'.last = P!Keying
                          /\ pr_session'.trusted = pr_admit /\ pr_session'.activated = "pending"
      /\ pr_session'.unpair = "sent" => pr_session.unpair = "sent"
  BY <1>1, <1>2, Reconnected
<1>4. pr_memory = 0 /\ ~pr_admit
  BY <1>1, <1>2 DEF MemoryInv, PlaceInv, RAway
<1>5. pr_number' \in BOOLEAN
  BY <1>2, <1>3 DEF P!Sessions
<1>6. StoreInv'
  BY <1>1, <1>2, StoreRests DEF P!ghosts
<1>7. P!TypeOK'
  BY <1>1, <1>2, <1>3, <1>5 DEF P!TypeOK, P!store, P!ghosts, P!Prompts, P!Waits, P!Others, P!Ends
<1>8. MemoryInv'
  BY <1>1, <1>2 DEF MemoryInv, P!store, P!ghosts, UAway, RAway, Paired, P!Ends
<1>9. PlaceInv'
  BY <1>1, <1>2, <1>3 DEF PlaceInv, P!store, P!ghosts, Untied
<1>10. SessionInv'
  BY <1>2, <1>3, <1>4 DEF SessionInv, P!Keying
<1>11. BlameInv'
  BY <1>1, <1>2 DEF BlameInv, Untied
<1> QED
  BY <1>6, <1>7, <1>8, <1>9, <1>10, <1>11 DEF PairInv

LEMMA R3RestoreKeeps ==
    ASSUME PairInv, P!R3Restore
    PROVE  PairInv'
<1>1. P!TypeOK /\ StoreInv /\ MemoryInv /\ PlaceInv /\ SessionInv /\ BlameInv
  BY DEF PairInv
<1>2. /\ pr_pc = "R3 restore" /\ pr_saving = 0 /\ pr_pc' = "R3 admit" /\ P!Put(pr_record)
      /\ UNCHANGED <<pr_suites, pr_stopping, pr_earlier, pr_record, pr_number, pr_app, pr_session, pr_blamed, P!ghosts>>
  BY DEF P!R3Restore, P!At, P!Go
<1>3. pr_record \in P!Records
  BY <1>1 DEF P!TypeOK
<1>4. /\ pr_memory' = pr_record /\ pr_saving' \in P!Threads /\ UNCHANGED <<pr_admit, pr_disk, pr_tmp>>
      /\ pr_threads' \in [P!Threads -> [phase : {"idle", "write", "replace"}, payload : P!Records]]
      /\ pr_threads'[pr_saving'].phase # "idle"
      /\ StoreInv'
  BY <1>1, <1>2, <1>3, Putting DEF P!ghosts
<1>5. P!TypeOK'
  BY <1>1, <1>2, <1>3, <1>4 DEF P!TypeOK, P!ghosts, P!Prompts, P!Waits, P!Others, P!Ends
<1>6. MemoryInv'
  BY <1>1, <1>2, <1>4 DEF MemoryInv, PlaceInv, P!ghosts, UAway, RAway, Paired, Untied, P!Ends
<1>7. PlaceInv'
  BY <1>1, <1>2 DEF PlaceInv, P!ghosts, Untied
<1>8. SessionInv'
  BY <1>1, <1>2 DEF SessionInv
<1>9. BlameInv'
  BY <1>1, <1>2 DEF BlameInv, Untied
<1> QED
  BY <1>4, <1>5, <1>6, <1>7, <1>8, <1>9 DEF PairInv

LEMMA R3AdmitKeeps ==
    ASSUME PairInv, P!R3Admit
    PROVE  PairInv'
<1>1. P!TypeOK /\ StoreInv /\ MemoryInv /\ PlaceInv /\ SessionInv /\ BlameInv
  BY DEF PairInv
<1>2. /\ pr_pc = "R3 admit" /\ pr_saving = 0 /\ pr_pc' = (IF pr_stopping THEN "stopped" ELSE "R5")
      /\ pr_admit' = TRUE /\ pr_number' = FALSE
      /\ UNCHANGED <<pr_suites, pr_stopping, pr_memory, pr_disk, pr_tmp, pr_threads, pr_saving, pr_earlier, pr_record,
                     pr_app, pr_session, P!ghosts>>
  BY DEF P!R3Admit, P!At, P!Go
<1>3. pr_blamed' = pr_blamed
  <2>1. pr_blamed' = pr_blamed \cup
          IF pr_stopping \/ ~pr_number THEN {}
          ELSE IF pr_session.activated = "roles" THEN {<<"R3", "TOOL_ERROR">>}
          ELSE P!Judge("R3", "sentinel", pr_session.initial)
    BY DEF P!R3Admit
  <2>2. pr_stopping \/ ~pr_number \/ (pr_session.activated # "roles" /\ pr_session.initial = "sentinel")
    BY <1>1, <1>2 DEF SessionInv
  <2> QED
    BY <2>1, <2>2 DEF P!Judge
<1>4. StoreInv'
  BY <1>1, <1>2 DEF StoreInv, P!ghosts
<1>5. P!TypeOK'
  BY <1>1, <1>2, <1>3 DEF P!TypeOK, P!ghosts, P!Prompts, P!Waits, P!Others, P!Ends
<1>6. MemoryInv'
  BY <1>1, <1>2 DEF MemoryInv, PlaceInv, P!ghosts, UAway, RAway, Paired, Untied, P!Ends
<1>7. PlaceInv'
  BY <1>1, <1>2 DEF PlaceInv, P!ghosts, Untied
<1>8. SessionInv'
  BY <1>2 DEF SessionInv
<1>9. BlameInv'
  BY <1>1, <1>2, <1>3 DEF BlameInv, Untied
<1> QED
  BY <1>4, <1>5, <1>6, <1>7, <1>8, <1>9 DEF PairInv

-----------------------------------------------------------------------------
(* R5 and R4.                                                                *)

\* A step that reconnects and blames nobody.
LEMMA ReconnectKeeps ==
    ASSUME PairInv, pr_saving = 0, P!Reconnect,
           UNCHANGED <<pr_suites, pr_stopping, P!store, pr_earlier, pr_record, pr_number, pr_app, pr_blamed, P!ghosts>>,
           \/ pr_pc = "R5" /\ pr_pc' \in {"R5 restart", "R4"}
           \/ pr_pc = "R4 open" /\ pr_pc' \in {"R4 unpair", "over"}
    PROVE  PairInv'
<1>1. P!TypeOK /\ StoreInv /\ MemoryInv /\ PlaceInv /\ SessionInv /\ BlameInv
  BY DEF PairInv
<1>3. pr_session' \in P!Sessions /\ (pr_session'.unpair = "sent" => pr_session.unpair = "sent")
  BY <1>1, Reconnected
<1>5. StoreInv'
  BY <1>1, StoreRests DEF P!ghosts
<1>6. P!TypeOK'
  BY <1>1, <1>3 DEF P!TypeOK, P!store, P!ghosts, P!Prompts, P!Waits, P!Others, P!Ends
<1>7. MemoryInv'
  BY <1>1 DEF MemoryInv, PlaceInv, P!store, P!ghosts, UAway, RAway, Paired, Untied, P!Ends
<1>8. PlaceInv'
  BY <1>1, <1>3 DEF PlaceInv, P!store, P!ghosts, Untied
<1>9. SessionInv'
  BY DEF SessionInv
<1>10. BlameInv'
  BY <1>1 DEF BlameInv, Untied
<1> QED
  BY <1>5, <1>6, <1>7, <1>8, <1>9, <1>10 DEF PairInv

LEMMA R5Keeps ==
    ASSUME PairInv, P!R5
    PROVE  PairInv'
BY ReconnectKeeps DEF P!R5, P!At, P!Go

LEMMA R4OpenKeeps ==
    ASSUME PairInv, P!R4Open
    PROVE  PairInv'
BY ReconnectKeeps DEF P!R4Open, P!At, P!Go

LEMMA R5ReturnKeeps ==
    ASSUME PairInv, P!R5Return
    PROVE  PairInv'
<1>1. P!TypeOK /\ StoreInv /\ MemoryInv /\ PlaceInv /\ SessionInv /\ BlameInv
  BY DEF PairInv
<1>2. /\ pr_pc = "R5 return" /\ pr_saving = 0 /\ pr_pc' = "R4"
      /\ \/ pr_session' = P!Session(P!Keying) /\ P!JudgeReconnected("R5", "long_term")
         \/ pr_session' \in {pr_session, [pr_session EXCEPT !.open = FALSE]} /\ UNCHANGED pr_blamed
      /\ UNCHANGED <<pr_suites, pr_stopping, P!store, pr_earlier, pr_record, pr_number, pr_app, P!ghosts>>
  BY DEF P!R5Return, P!At, P!Go
<1>3. /\ pr_session' \in P!Sessions /\ (pr_session'.unpair = "sent" => pr_session.unpair = "sent")
      /\ pr_blamed' = pr_blamed
  <2>1. CASE pr_session' = P!Session(P!Keying) /\ P!JudgeReconnected("R5", "long_term")
    <3>1. pr_memory # 0 /\ pr_app = pr_memory
      BY <1>1, <1>2 DEF MemoryInv, PlaceInv, UAway, RAway, Paired, Untied
    <3>2. pr_session' \in P!Sessions /\ pr_session'.initial = "long_term" /\ pr_session'.unpair = "none"
      BY <1>1, <2>1, <3>1, PairingTypes, SessionBegins DEF P!Keying
    <3> QED
      BY <1>1, <2>1, <3>2, BlamedFor
  <2>2. CASE pr_session' = pr_session /\ UNCHANGED pr_blamed
    BY <1>1, <2>2 DEF P!TypeOK
  <2>3. CASE pr_session' = [pr_session EXCEPT !.open = FALSE] /\ UNCHANGED pr_blamed
    BY <1>1, <2>3, SessionEnds
  <2> QED
    BY <1>2, <2>1, <2>2, <2>3
<1>5. StoreInv'
  BY <1>1, <1>2, StoreRests DEF P!ghosts
<1>6. P!TypeOK'
  BY <1>1, <1>2, <1>3 DEF P!TypeOK, P!store, P!ghosts, P!Prompts, P!Waits, P!Others, P!Ends
<1>7. MemoryInv'
  BY <1>1, <1>2 DEF MemoryInv, P!store, P!ghosts, UAway, RAway, Paired, P!Ends
<1>8. PlaceInv'
  BY <1>1, <1>2, <1>3 DEF PlaceInv, P!store, P!ghosts, Untied
<1>9. SessionInv'
  BY <1>2 DEF SessionInv
<1>10. BlameInv'
  BY <1>1, <1>2, <1>3 DEF BlameInv, Untied
<1> QED
  BY <1>5, <1>6, <1>7, <1>8, <1>9, <1>10 DEF PairInv

LEMMA R4Keeps ==
    ASSUME PairInv, P!R4
    PROVE  PairInv'
<1>1. P!TypeOK /\ StoreInv /\ MemoryInv /\ PlaceInv /\ SessionInv /\ BlameInv
  BY DEF PairInv
<1>2. /\ pr_pc = "R4" /\ pr_saving = 0 /\ pr_pc' \in {"R4 unpair", "R4 open"} /\ pr_record' = pr_memory
      /\ UNCHANGED <<pr_suites, pr_stopping, P!store, pr_earlier, pr_number, pr_app, pr_session, pr_blamed, P!ghosts>>
  BY DEF P!R4, P!At, P!Go
<1>3. StoreInv'
  BY <1>1, <1>2, StoreRests DEF P!ghosts
<1>4. P!TypeOK'
  BY <1>1, <1>2 DEF P!TypeOK, P!store, P!ghosts, P!Prompts, P!Waits, P!Others, P!Ends
<1>5. MemoryInv'
  BY <1>1, <1>2 DEF MemoryInv, PlaceInv, P!store, P!ghosts, UAway, RAway, Paired, Untied, P!Ends
<1>6. PlaceInv'
  BY <1>1, <1>2 DEF PlaceInv, P!store, P!ghosts, Untied
<1>7. SessionInv'
  BY <1>2 DEF SessionInv
<1>8. BlameInv'
  BY <1>1, <1>2 DEF BlameInv, Untied
<1> QED
  BY <1>3, <1>4, <1>5, <1>6, <1>7, <1>8 DEF PairInv

LEMMA R4UnpairKeeps ==
    ASSUME PairInv, P!R4Unpair
    PROVE  PairInv'
<1>1. P!TypeOK /\ StoreInv /\ MemoryInv /\ PlaceInv /\ SessionInv /\ BlameInv
  BY DEF PairInv
<1>2. /\ pr_pc = "R4 unpair" /\ pr_saving = 0
      /\ UNCHANGED <<pr_suites, pr_stopping, pr_earlier, pr_record, pr_number, pr_app, pr_session, pr_blamed, pr_agreed, pr_told, pr_cut>>
  BY DEF P!R4Unpair, P!At
<1>3. CASE pr_pc' = "over" /\ UNCHANGED <<P!store, pr_unpairing>>
  <2>1. StoreInv'
    BY <1>1, <1>2, <1>3, StoreRests
  <2>2. P!TypeOK'
    BY <1>1, <1>2, <1>3 DEF P!TypeOK, P!store, P!Prompts, P!Waits, P!Others, P!Ends
  <2>3. MemoryInv'
    BY <1>1, <1>2, <1>3 DEF MemoryInv, PlaceInv, P!store, UAway, RAway, Paired, Untied, P!Ends
  <2>4. PlaceInv'
    BY <1>1, <1>2, <1>3 DEF PlaceInv, P!store, Untied
  <2>5. SessionInv' /\ BlameInv'
    BY <1>1, <1>2, <1>3 DEF SessionInv, BlameInv, Untied
  <2> QED
    BY <2>1, <2>2, <2>3, <2>4, <2>5 DEF PairInv
<1>4. CASE pr_pc' = "R4 tell" /\ P!Remove /\ pr_unpairing' = TRUE
  <2>1. /\ pr_memory' = 0 /\ pr_saving' \in {0} \cup P!Threads /\ UNCHANGED <<pr_admit, pr_disk, pr_tmp>>
        /\ pr_threads' \in [P!Threads -> [phase : {"idle", "write", "replace"}, payload : P!Records]]
        /\ pr_saving' # 0 => pr_threads'[pr_saving'].phase # "idle"
        /\ StoreInv'
    BY <1>1, <1>2, <1>4, Removing
  <2>2. pr_memory' \in P!Records
    BY <2>1 DEF P!Records
  <2>3. P!TypeOK'
    BY <1>1, <1>2, <1>4, <2>1, <2>2 DEF P!TypeOK, P!Prompts, P!Waits, P!Others, P!Ends
  <2>4. MemoryInv'
    BY <1>1, <1>2, <1>4, <2>1 DEF MemoryInv, PlaceInv, UAway, RAway, Paired, Untied, P!Ends
  <2>5. PlaceInv'
    BY <1>1, <1>2, <1>4 DEF PlaceInv, Untied
  <2>6. SessionInv' /\ BlameInv'
    BY <1>1, <1>2, <1>4 DEF SessionInv, BlameInv, Untied
  <2> QED
    BY <2>1, <2>3, <2>4, <2>5, <2>6 DEF PairInv
<1> QED
  BY <1>3, <1>4 DEF P!R4Unpair, P!Go

LEMMA R4TellKeeps ==
    ASSUME PairInv, P!R4Tell
    PROVE  PairInv'
<1>1. P!TypeOK /\ StoreInv /\ MemoryInv /\ PlaceInv /\ SessionInv /\ BlameInv
  BY DEF PairInv
<1>2. /\ pr_pc = "R4 tell" /\ pr_saving = 0 /\ pr_pc' = "R4 goodbye"
      /\ pr_session' = [pr_session EXCEPT !.unpair = IF pr_session.open THEN "sent" ELSE "none"]
      /\ UNCHANGED <<pr_suites, pr_stopping, P!store, pr_earlier, pr_record, pr_number, pr_app, pr_blamed, P!ghosts>>
  BY DEF P!R4Tell, P!At, P!Go
<1>3. pr_session' \in P!Sessions
  BY <1>1, <1>2 DEF P!TypeOK, P!Sessions
<1>4. StoreInv'
  BY <1>1, <1>2, StoreRests DEF P!ghosts
<1>5. P!TypeOK'
  BY <1>1, <1>2, <1>3 DEF P!TypeOK, P!store, P!ghosts, P!Prompts, P!Waits, P!Others, P!Ends
<1>6. MemoryInv'
  BY <1>1, <1>2 DEF MemoryInv, P!store, P!ghosts, UAway, RAway, Paired, P!Ends
<1>7. PlaceInv'
  BY <1>1, <1>2 DEF PlaceInv, P!store, P!ghosts, Untied
<1>8. SessionInv'
  BY <1>1, <1>2 DEF SessionInv, PlaceInv, Untied, P!ghosts
<1>9. BlameInv'
  BY <1>1, <1>2 DEF BlameInv, Untied
<1> QED
  BY <1>4, <1>5, <1>6, <1>7, <1>8, <1>9 DEF PairInv

LEMMA R4Blames ==
    {<<"R4 goodbye", "FAIL">>, <<"R4 record", "FAIL">>}
        \subseteq {"U1", "R1", "R3", "R5", "R4 goodbye", "R4 record"} \X {"FAIL", "TOOL_ERROR"}
<1> DEFINE A == {"U1", "R1", "R3", "R5", "R4 goodbye", "R4 record"}
           B == {"FAIL", "TOOL_ERROR"}
<1>1. "R4 goodbye" \in A /\ "R4 record" \in A /\ "FAIL" \in B
  OBVIOUS
<1> HIDE DEF A, B
<1>2. <<"R4 goodbye", "FAIL">> \in A \X B /\ <<"R4 record", "FAIL">> \in A \X B
  BY <1>1
<1>3. {<<"R4 goodbye", "FAIL">>, <<"R4 record", "FAIL">>} \subseteq A \X B
  BY <1>2, Zenon
<1> QED
  BY <1>3 DEF A, B

LEMMA R4GoodbyeKeeps ==
    ASSUME PairInv, P!R4Goodbye
    PROVE  PairInv'
<1>1. P!TypeOK /\ StoreInv /\ MemoryInv /\ PlaceInv /\ SessionInv /\ BlameInv
  BY DEF PairInv
<1>2. /\ pr_pc = "R4 goodbye" /\ pr_saving = 0 /\ pr_pc' = "R4 reconnect"
      /\ ~(pr_session.open /\ P!Unpairable) /\ P!Put(pr_record)
      /\ pr_blamed' = pr_blamed \cup IF P!Unpairable /\ ~pr_session.goodbye THEN {<<"R4 goodbye", "FAIL">>} ELSE {}
      /\ UNCHANGED <<pr_suites, pr_stopping, pr_earlier, pr_record, pr_number, pr_app, pr_session, P!ghosts>>
  BY DEF P!R4Goodbye, P!At, P!Go
<1>3. pr_record \in P!Records
  BY <1>1 DEF P!TypeOK
<1>4. /\ pr_memory' = pr_record /\ pr_saving' \in P!Threads /\ UNCHANGED <<pr_admit, pr_disk, pr_tmp>>
      /\ pr_threads' \in [P!Threads -> [phase : {"idle", "write", "replace"}, payload : P!Records]]
      /\ pr_threads'[pr_saving'].phase # "idle"
      /\ StoreInv'
  BY <1>1, <1>2, <1>3, Putting DEF P!ghosts
<1>5. pr_blamed = {} /\ (pr_blamed' # {} => ~pr_told) /\ pr_blamed' \subseteq {<<"R4 goodbye", "FAIL">>}
  BY <1>1, <1>2 DEF BlameInv, SessionInv
<1>6. P!TypeOK'
  <2>1. pr_blamed' \subseteq {"U1", "R1", "R3", "R5", "R4 goodbye", "R4 record"} \X {"FAIL", "TOOL_ERROR"}
    BY <1>5, R4Blames, Zenon
  <2>2. UNCHANGED <<pr_suites, pr_stopping, pr_earlier, pr_record, pr_number, pr_app, pr_session, P!ghosts>>
        /\ pr_pc' = "R4 reconnect"
    BY <1>2
  <2> QED
    BY <1>1, <1>3, <1>4, <2>1, <2>2 DEF P!TypeOK, P!ghosts, P!Prompts, P!Waits, P!Others, P!Ends
<1>7. MemoryInv'
  BY <1>1, <1>2, <1>4 DEF MemoryInv, PlaceInv, P!ghosts, UAway, RAway, Paired, Untied, P!Ends
<1>8. PlaceInv'
  BY <1>1, <1>2 DEF PlaceInv, P!ghosts, Untied
<1>9. SessionInv'
  BY <1>2 DEF SessionInv
<1>10. BlameInv'
  BY <1>2, <1>5 DEF BlameInv, Untied, P!Unpairable, P!ghosts
<1> QED
  BY <1>4, <1>6, <1>7, <1>8, <1>9, <1>10 DEF PairInv

LEMMA R4ReconnectKeeps ==
    ASSUME PairInv, P!R4Reconnect
    PROVE  PairInv'
<1>1. P!TypeOK /\ StoreInv /\ MemoryInv /\ PlaceInv /\ SessionInv /\ BlameInv
  BY DEF PairInv
<1>2. /\ pr_pc = "R4 reconnect" /\ pr_saving = 0 /\ pr_pc' = "R4 forget"
      /\ P!Reconnect /\ P!JudgeReconnected("R4 record", "fallback")
      /\ UNCHANGED <<pr_suites, pr_stopping, P!store, pr_earlier, pr_record, pr_number, pr_app, P!ghosts>>
  BY DEF P!R4Reconnect, P!At, P!Go
<1>3. /\ pr_session' \in P!Sessions
      /\ pr_session'.open => pr_session'.initial = P!Keying /\ pr_session'.unpair = "none"
      /\ pr_session'.unpair = "sent" => pr_session.unpair = "sent"
  BY <1>1, <1>2, Reconnected
<1>4. pr_memory # 0 /\ pr_memory = pr_agreed
  BY <1>1, <1>2 DEF MemoryInv, PlaceInv, Paired
<1>5. pr_blamed' \subseteq pr_blamed \cup (IF pr_told THEN {} ELSE {<<"R4 record", "FAIL">>})
  <2>1. CASE pr_told
    <3>1. P!Keying = "fallback"
      BY <1>1, <1>4, <2>1 DEF PlaceInv, P!Keying
    <3> QED
      BY <1>2, <1>3, <3>1 DEF P!JudgeReconnected, P!Judge
  <2>2. CASE ~pr_told
    <3>1. P!Keying = "long_term"
      BY <1>1, <1>4, <2>2 DEF PlaceInv, P!Keying
    <3> QED
      BY <1>2, <1>3, <2>2, <3>1 DEF P!JudgeReconnected, P!Judge, P!Referenced
  <2> QED
    BY <2>1, <2>2
<1>6. StoreInv'
  BY <1>1, <1>2, StoreRests DEF P!ghosts
<1>7. P!TypeOK'
  <2>1. pr_blamed' \subseteq {"U1", "R1", "R3", "R5", "R4 goodbye", "R4 record"} \X {"FAIL", "TOOL_ERROR"}
    <3>1. pr_blamed' \subseteq {<<"R4 goodbye", "FAIL">>, <<"R4 record", "FAIL">>}
      BY <1>1, <1>5 DEF BlameInv
    <3> QED
      BY <3>1, R4Blames, Zenon
  <2> QED
    BY <1>1, <1>2, <1>3, <2>1 DEF P!TypeOK, P!store, P!ghosts, P!Prompts, P!Waits, P!Others, P!Ends
<1>8. MemoryInv'
  BY <1>1, <1>2 DEF MemoryInv, P!store, P!ghosts, UAway, RAway, Paired, P!Ends
<1>9. PlaceInv'
  BY <1>1, <1>2, <1>3 DEF PlaceInv, P!store, P!ghosts, Untied
<1>10. SessionInv'
  BY <1>2 DEF SessionInv
<1>11. BlameInv'
  <2>1. ~(pr_session'.open /\ P!Unpairable')
    BY <1>3 DEF P!Unpairable
  <2>2. pr_blamed' # {} => ~pr_told
    BY <1>1, <1>5 DEF BlameInv
  <2>3. pr_blamed' \subseteq {<<"R4 goodbye", "FAIL">>, <<"R4 record", "FAIL">>}
    BY <1>1, <1>5 DEF BlameInv
  <2> QED
    BY <1>2, <2>1, <2>2, <2>3 DEF BlameInv, Untied, P!ghosts
<1> QED
  BY <1>6, <1>7, <1>8, <1>9, <1>10, <1>11 DEF PairInv

LEMMA R4ForgetKeeps ==
    ASSUME PairInv, P!R4Forget
    PROVE  PairInv'
<1>1. P!TypeOK /\ StoreInv /\ MemoryInv /\ PlaceInv /\ SessionInv /\ BlameInv
  BY DEF PairInv
<1>2. /\ pr_pc = "R4 forget" /\ pr_saving = 0 /\ pr_pc' \in {"stopped", "over"} /\ (pr_stopping => pr_pc' = "stopped")
      /\ P!Remove
      /\ UNCHANGED <<pr_suites, pr_stopping, pr_earlier, pr_record, pr_number, pr_app, pr_session, pr_blamed, P!ghosts>>
  BY DEF P!R4Forget, P!At, P!Go
<1>3. /\ pr_memory' = 0 /\ pr_saving' \in {0} \cup P!Threads /\ UNCHANGED <<pr_admit, pr_disk, pr_tmp>>
      /\ pr_threads' \in [P!Threads -> [phase : {"idle", "write", "replace"}, payload : P!Records]]
      /\ pr_saving' # 0 => pr_threads'[pr_saving'].phase # "idle"
      /\ StoreInv'
  BY <1>1, <1>2, Removing DEF P!ghosts
<1>4. pr_memory' \in P!Records
  BY <1>3 DEF P!Records
<1>5. P!TypeOK'
  BY <1>1, <1>2, <1>3, <1>4 DEF P!TypeOK, P!ghosts, P!Prompts, P!Waits, P!Others, P!Ends
<1>6. MemoryInv'
  BY <1>1, <1>2, <1>3 DEF MemoryInv, PlaceInv, P!ghosts, UAway, RAway, Paired, Untied, P!Ends
<1>7. PlaceInv'
  BY <1>1, <1>2 DEF PlaceInv, P!ghosts, Untied
<1>8. SessionInv'
  BY <1>2 DEF SessionInv
<1>9. BlameInv'
  BY <1>1, <1>2 DEF BlameInv, Untied, P!Unpairable, P!ghosts
<1> QED
  BY <1>3, <1>5, <1>6, <1>7, <1>8, <1>9 DEF PairInv

-----------------------------------------------------------------------------
(* Ctrl-C, the threads that write the file, and the app.                     *)

LEMMA InterruptKeeps ==
    ASSUME PairInv, P!Interrupt
    PROVE  PairInv'
<1>1. P!TypeOK /\ StoreInv /\ MemoryInv /\ PlaceInv /\ SessionInv /\ BlameInv
  BY DEF PairInv
<1>2. /\ ~pr_stopping /\ pr_stopping' = TRUE /\ pr_saving' = 0
      /\ UNCHANGED <<pr_suites, pr_memory, pr_admit, pr_disk, pr_tmp, pr_earlier, pr_record, pr_number, pr_app,
                     pr_session, pr_blamed, pr_agreed, pr_unpairing, pr_told>>
  BY DEF P!Interrupt
<1>3. \/ pr_saving = 0 /\ pr_pc \in P!Prompts \cup P!Waits /\ UNCHANGED <<pr_threads, pr_cut>>
      \/ pr_cut' = TRUE
  BY DEF P!Interrupt
<1>4. pr_pc' = CASE pr_pc \in {"U1", "U1 reconnect", "U2"} -> "U restore"
              [] pr_pc \in {"R3 reconnect", "R3 activated"} -> "R3 restore"
              [] pr_pc \in {"R4 goodbye", "R4 reconnect"} -> "R4 forget"
              [] OTHER -> "stopped"
  BY DEF P!Interrupt
<1>5. \/ pr_pc \in {"U1", "U1 reconnect", "U2"} /\ pr_pc' = "U restore"
      \/ pr_pc \in {"R3 reconnect", "R3 activated"} /\ pr_pc' = "R3 restore"
      \/ pr_pc \in {"R4 goodbye", "R4 reconnect"} /\ pr_pc' = "R4 forget"
      \/ /\ pr_pc \notin {"U1", "U1 reconnect", "U2", "R3 reconnect", "R3 activated",
                       "R4 goodbye", "R4 reconnect"}
         /\ pr_pc' = "stopped"
  BY <1>4
<1>6. /\ pr_threads' \in [P!Threads -> [phase : {"idle", "write", "replace"}, payload : P!Records]]
      /\ pr_cut' \in BOOLEAN
  <2>1. CASE UNCHANGED <<pr_threads, pr_cut>>
    BY <1>1, <2>1 DEF P!TypeOK
  <2>2. CASE pr_cut' = TRUE /\ pr_threads' = pr_threads
    BY <1>1, <2>2 DEF P!TypeOK
  <2>3. CASE pr_cut' = TRUE /\ \E t \in P!Threads : pr_threads' = [pr_threads EXCEPT ![t] = P!Idle]
    BY <1>1, <2>3, PairingTypes DEF P!TypeOK
  <2> QED
    BY <2>1, <2>2, <2>3 DEF P!Interrupt
<1>7. StoreInv'
  BY <1>1, <1>2, <1>3 DEF StoreInv
<1>8. P!TypeOK'
  BY <1>1, <1>2, <1>5, <1>6 DEF P!TypeOK, P!Prompts, P!Waits, P!Others, P!Ends
<1>9. MemoryInv'
  <2>1. CASE pr_cut' = TRUE
    BY <2>1 DEF MemoryInv
  <2>2. CASE pr_pc \in P!Prompts \cup P!Waits /\ pr_cut' = pr_cut
    <3>1. pr_pc \in {"U1", "U2", "PAIR", "R1", "R3", "R5", "R5 restart", "R4", "U1 reconnect",
                  "R3 reconnect", "R3 activated", "R5 return", "R4 open", "R4 goodbye", "R4 reconnect"}
      BY <1>1, <2>2 DEF PlaceInv, P!Prompts, P!Waits
    <3> QED
      BY <1>1, <1>2, <1>5, <2>2, <3>1 DEF MemoryInv, PlaceInv, UAway, RAway, Paired, Untied, P!Ends
  <2> QED
    BY <1>3, <2>1, <2>2
<1>10. PlaceInv'
  BY <1>1, <1>2, <1>5 DEF PlaceInv, Untied
<1>11. SessionInv'
  BY <1>2, <1>5 DEF SessionInv
<1>12. BlameInv'
  BY <1>1, <1>2, <1>5 DEF BlameInv, Untied, P!Unpairable
<1> QED
  BY <1>7, <1>8, <1>9, <1>10, <1>11, <1>12 DEF PairInv

LEMMA WriteTmpKeeps ==
    ASSUME PairInv, NEW t \in P!Threads, P!WriteTmp(t)
    PROVE  PairInv'
<1>1. P!TypeOK /\ StoreInv /\ MemoryInv /\ PlaceInv /\ SessionInv /\ BlameInv
  BY DEF PairInv
<1>2. /\ pr_threads[t].phase = "write" /\ pr_tmp' = pr_threads[t].payload
      /\ pr_threads' = [pr_threads EXCEPT ![t].phase = "replace"]
      /\ UNCHANGED <<pr_suites, pr_pc, pr_stopping, pr_memory, pr_admit, pr_disk, pr_saving, pr_earlier, pr_record,
                     pr_number, pr_app, pr_session, pr_blamed, P!ghosts>>
  BY DEF P!WriteTmp
<1> DEFINE new == [pr_threads[t] EXCEPT !.phase = "replace"]
<1>3. /\ pr_threads[t] \in [phase : {"idle", "write", "replace"}, payload : P!Records]
      /\ new \in [phase : {"idle", "write", "replace"}, payload : P!Records]
      /\ new.phase = "replace" /\ new.payload = pr_threads[t].payload
  BY <1>1 DEF P!TypeOK
<1> HIDE DEF new
<1>4. /\ pr_threads' \in [P!Threads -> [phase : {"idle", "write", "replace"}, payload : P!Records]]
      /\ \A u \in P!Threads : pr_threads'[u] = IF u = t THEN new ELSE pr_threads[u]
  BY <1>1, <1>2, <1>3 DEF P!TypeOK, new
<1>5. StoreInv'
  <2> SUFFICES ASSUME ~pr_cut PROVE StoreInv'
    BY <1>2 DEF StoreInv, P!ghosts
  <2>1. pr_threads[t] # P!Idle
    BY <1>2 DEF P!Idle
  <2>2. t = pr_saving
    BY <1>1, <2>1 DEF StoreInv
  <2>3. pr_saving # 0 /\ pr_threads[t].payload = pr_memory /\ pr_tmp' = pr_memory
    BY <1>1, <1>2, <2>2 DEF StoreInv, P!Threads
  <2> QED
    BY <1>1, <1>2, <1>3, <1>4, <2>2, <2>3 DEF StoreInv
<1>6. P!TypeOK'
  <2>1. pr_tmp' \in P!Records \cup {P!NoFile}
    BY <1>2, <1>3
  <2>2. pr_saving # 0 => pr_threads'[pr_saving].phase # "idle"
    BY <1>1, <1>3, <1>4 DEF P!TypeOK
  <2> QED
    BY <1>1, <1>2, <1>4, <2>1, <2>2 DEF P!TypeOK, P!ghosts
<1>7. MemoryInv'
  BY <1>1, <1>2 DEF MemoryInv, P!ghosts
<1>8. PlaceInv' /\ SessionInv' /\ BlameInv'
  BY <1>1, <1>2 DEF PlaceInv, SessionInv, BlameInv, P!Unpairable, P!ghosts
<1> QED
  BY <1>5, <1>6, <1>7, <1>8 DEF PairInv

\* A thread that is done.
LEMMA ThreadEnds ==
    ASSUME P!TypeOK, NEW t \in P!Threads, pr_threads' = [pr_threads EXCEPT ![t] = P!Idle], P!Awaited(t)
    PROVE  /\ pr_threads' \in [P!Threads -> [phase : {"idle", "write", "replace"}, payload : P!Records]]
           /\ \A u \in P!Threads : pr_threads'[u] = IF u = t THEN P!Idle ELSE pr_threads[u]
           /\ pr_saving' \in {0} \cup P!Threads /\ (pr_saving' # 0 => pr_threads'[pr_saving'].phase # "idle")
           /\ pr_saving' = IF pr_saving = t THEN 0 ELSE pr_saving
<1>1. /\ pr_threads' \in [P!Threads -> [phase : {"idle", "write", "replace"}, payload : P!Records]]
      /\ \A u \in P!Threads : pr_threads'[u] = IF u = t THEN P!Idle ELSE pr_threads[u]
  BY PairingTypes DEF P!TypeOK
<1>2. pr_saving' = IF pr_saving = t THEN 0 ELSE pr_saving
  BY DEF P!Awaited
<1> QED
  BY <1>1, <1>2 DEF P!TypeOK

LEMMA ReplaceKeeps ==
    ASSUME PairInv, NEW t \in P!Threads, P!Replace(t)
    PROVE  PairInv'
<1>1. P!TypeOK /\ StoreInv /\ MemoryInv /\ PlaceInv /\ SessionInv /\ BlameInv
  BY DEF PairInv
<1>2. /\ pr_threads[t].phase = "replace" /\ pr_tmp # P!NoFile /\ pr_disk' = pr_tmp /\ pr_tmp' = P!NoFile
      /\ pr_threads' = [pr_threads EXCEPT ![t] = P!Idle] /\ P!Awaited(t)
      /\ UNCHANGED <<pr_suites, pr_pc, pr_stopping, pr_memory, pr_admit, pr_earlier, pr_record, pr_number, pr_app, pr_session,
                     pr_blamed, P!ghosts>>
  BY DEF P!Replace
<1>3. /\ pr_threads' \in [P!Threads -> [phase : {"idle", "write", "replace"}, payload : P!Records]]
      /\ \A u \in P!Threads : pr_threads'[u] = IF u = t THEN P!Idle ELSE pr_threads[u]
      /\ pr_saving' \in {0} \cup P!Threads /\ (pr_saving' # 0 => pr_threads'[pr_saving'].phase # "idle")
      /\ pr_saving' = IF pr_saving = t THEN 0 ELSE pr_saving
  BY <1>1, <1>2, ThreadEnds
<1>4. StoreInv'
  <2> SUFFICES ASSUME ~pr_cut PROVE StoreInv'
    BY <1>2 DEF StoreInv, P!ghosts
  <2>1. pr_threads[t] # P!Idle
    BY <1>2 DEF P!Idle
  <2>2. t = pr_saving /\ 0 \notin P!Threads
    BY <1>1, <2>1 DEF StoreInv, P!Threads
  <2>3. pr_tmp = pr_memory
    BY <1>1, <1>2, <2>2 DEF StoreInv
  <2> QED
    BY <1>1, <1>2, <1>3, <2>2, <2>3 DEF StoreInv
<1>5. P!TypeOK'
  BY <1>1, <1>2, <1>3 DEF P!TypeOK, P!ghosts
<1>6. MemoryInv'
  BY <1>1, <1>2 DEF MemoryInv, P!ghosts
<1>7. PlaceInv' /\ SessionInv' /\ BlameInv'
  BY <1>1, <1>2 DEF PlaceInv, SessionInv, BlameInv, P!Unpairable, P!ghosts
<1> QED
  BY <1>4, <1>5, <1>6, <1>7 DEF PairInv

\* Only a write that Ctrl-C left behind takes the temporary file from another.
LEMMA ReplaceFailsKeeps ==
    ASSUME PairInv, NEW t \in P!Threads, P!ReplaceFails(t)
    PROVE  PairInv'
<1>1. P!TypeOK /\ StoreInv /\ MemoryInv /\ PlaceInv /\ SessionInv /\ BlameInv
  BY DEF PairInv
<1>2. /\ pr_threads[t].phase = "replace" /\ pr_tmp = P!NoFile
      /\ pr_threads' = [pr_threads EXCEPT ![t] = P!Idle] /\ P!Awaited(t)
      /\ pr_pc' = (IF pr_saving = t THEN "stopped" ELSE pr_pc)
      /\ pr_stopping' = (pr_stopping \/ pr_saving = t)
      /\ UNCHANGED <<pr_suites, pr_memory, pr_admit, pr_disk, pr_tmp, pr_earlier, pr_record, pr_number, pr_app, pr_session,
                     pr_blamed, P!ghosts>>
  BY DEF P!ReplaceFails
<1>3. /\ pr_threads' \in [P!Threads -> [phase : {"idle", "write", "replace"}, payload : P!Records]]
      /\ pr_saving' \in {0} \cup P!Threads /\ (pr_saving' # 0 => pr_threads'[pr_saving'].phase # "idle")
  BY <1>1, <1>2, ThreadEnds
<1>4. pr_cut /\ pr_cut' = pr_cut
  <2> SUFFICES ASSUME ~pr_cut PROVE FALSE
    BY <1>2 DEF P!ghosts
  <2>1. pr_threads[t] # P!Idle
    BY <1>2 DEF P!Idle
  <2>2. t = pr_saving /\ pr_saving # 0
    BY <1>1, <2>1 DEF StoreInv, P!Threads
  <2>3. pr_tmp = pr_memory
    BY <1>1, <1>2, <2>2 DEF StoreInv
  <2>4. P!NoFile \notin P!Records
    BY DEF P!NoFile, P!Records
  <2> QED
    BY <1>1, <1>2, <2>3, <2>4 DEF P!TypeOK
<1>5. StoreInv' /\ MemoryInv'
  BY <1>4 DEF StoreInv, MemoryInv
<1>6. pr_stopping /\ pr_stopping' = TRUE /\ pr_pc' \in {pr_pc, "stopped"}
  BY <1>1, <1>2, <1>4 DEF PlaceInv, P!TypeOK
<1>7. P!TypeOK'
  BY <1>1, <1>2, <1>3, <1>6 DEF P!TypeOK, P!ghosts, P!Ends
<1>8. PlaceInv'
  BY <1>1, <1>2, <1>6 DEF PlaceInv, P!ghosts, Untied
<1>9. SessionInv'
  BY <1>1, <1>2, <1>6 DEF SessionInv, PlaceInv, P!ghosts
<1>10. BlameInv'
  BY <1>1, <1>2, <1>6 DEF BlameInv, Untied, P!Unpairable, P!ghosts
<1> QED
  BY <1>5, <1>7, <1>8, <1>9, <1>10 DEF PairInv

\* Only the session changes, and only in what the server activated or in
\* whether it is open.
SessionStep ==
    /\ UNCHANGED <<pr_suites, pr_pc, pr_stopping, P!store, pr_earlier, pr_record, pr_number, pr_app, pr_blamed, P!ghosts>>
    /\ pr_session' \in P!Sessions
    /\ pr_session'.unpair = pr_session.unpair /\ pr_session'.initial = pr_session.initial
    /\ pr_session'.last = pr_session.last /\ pr_session'.trusted = pr_session.trusted
    /\ pr_session'.goodbye = pr_session.goodbye /\ (pr_session'.open => pr_session.open)
    /\ \/ pr_session'.activated = pr_session.activated
       \/ pr_session.last = "sentinel" /\ ~pr_session.trusted => pr_session'.activated = "nothing"

LEMMA SessionMoves ==
    ASSUME PairInv, SessionStep
    PROVE  PairInv'
<1>1. P!TypeOK /\ StoreInv /\ MemoryInv /\ PlaceInv /\ SessionInv /\ BlameInv
  BY DEF PairInv
<1>2. UNCHANGED <<pr_suites, pr_pc, pr_stopping, P!store, pr_earlier, pr_record, pr_number, pr_app, pr_blamed, P!ghosts>>
  BY DEF SessionStep
<1>3. pr_session'.unpair = pr_session.unpair /\ pr_session'.last = pr_session.last
  BY DEF SessionStep
<1>4. pr_session'.open => pr_session.open
  BY DEF SessionStep
<1>5. pr_told' = pr_told /\ pr_session'.goodbye = pr_session.goodbye
  BY <1>2 DEF SessionStep, P!ghosts
<1>6. StoreInv'
  BY <1>1, <1>2, StoreRests DEF P!ghosts
<1>7. P!TypeOK'
  BY <1>1, <1>2 DEF P!TypeOK, P!store, P!ghosts, SessionStep
<1>8. MemoryInv'
  BY <1>1, <1>2 DEF MemoryInv, P!store, P!ghosts
<1>9. PlaceInv'
  BY <1>1, <1>2, <1>3 DEF PlaceInv, P!ghosts
<1>10. SessionInv'
  <2>1. (pr_pc \in {"unpaired", "U1"} /\ pr_memory = 0 => pr_session.initial = "sentinel")'
    BY <1>1, <1>2 DEF SessionInv, SessionStep, P!store
  <2>2. (pr_pc = "R4 goodbye" /\ pr_told => pr_session.goodbye)'
    BY <1>1, <1>2, <1>5 DEF SessionInv
  <2>3. ASSUME pr_pc \in {"R3 activated", "R3 restore", "R3 admit"}, pr_number, ~pr_stopping
        PROVE  /\ pr_session'.initial = "sentinel" /\ pr_session'.last = "sentinel"
               /\ ~pr_session'.trusted /\ pr_session'.activated # "roles"
    <3>1. /\ pr_session.initial = "sentinel" /\ pr_session.last = "sentinel"
          /\ ~pr_session.trusted /\ pr_session.activated # "roles"
      BY <1>1, <2>3 DEF SessionInv
    <3> QED
      BY <3>1 DEF SessionStep
  <2>4. pr_pc' = pr_pc /\ pr_number' = pr_number /\ pr_stopping' = pr_stopping
    BY <1>2
  <2> QED
    BY <2>1, <2>2, <2>3, <2>4 DEF SessionInv
<1>11. BlameInv'
  BY <1>1, <1>2, <1>3, <1>4 DEF BlameInv, P!Unpairable, P!ghosts
<1> QED
  BY <1>6, <1>7, <1>8, <1>9, <1>10, <1>11 DEF PairInv

LEMMA ActivateKeeps ==
    ASSUME PairInv, P!Activate
    PROVE  PairInv'
<1>1. P!TypeOK
  BY DEF PairInv
<1>2. PICK what \in {"roles", "nothing"} :
          /\ pr_session.last = "sentinel" /\ ~pr_session.trusted => what = "nothing"
          /\ pr_session' = [pr_session EXCEPT !.activated = what]
  BY DEF P!Activate
<1>3. /\ pr_session' \in P!Sessions /\ pr_session'.unpair = pr_session.unpair /\ pr_session'.initial = pr_session.initial
      /\ pr_session'.last = pr_session.last /\ pr_session'.trusted = pr_session.trusted
      /\ pr_session'.goodbye = pr_session.goodbye /\ pr_session'.open = pr_session.open
      /\ pr_session'.activated = what
  BY <1>1, <1>2 DEF P!TypeOK, P!Sessions
<1>4. UNCHANGED <<pr_suites, pr_pc, pr_stopping, P!store, pr_earlier, pr_record, pr_number, pr_app, pr_blamed, P!ghosts>>
  BY DEF P!Activate
<1> QED
  BY <1>2, <1>3, <1>4, SessionMoves DEF SessionStep

LEMMA LoseConnectionKeeps ==
    ASSUME PairInv, P!LoseConnection
    PROVE  PairInv'
<1>1. P!TypeOK
  BY DEF PairInv
<1> QED
  BY <1>1, SessionEnds, SessionMoves DEF P!LoseConnection, SessionStep

LEMMA HandleUnpairKeeps ==
    ASSUME PairInv, P!HandleUnpair
    PROVE  PairInv'
<1>1. P!TypeOK /\ StoreInv /\ MemoryInv /\ PlaceInv /\ SessionInv /\ BlameInv
  BY DEF PairInv
<1>2. /\ pr_session.open /\ P!Unpairable /\ pr_app' = 0 /\ pr_told' = TRUE
      /\ pr_session' = [pr_session EXCEPT !.open = FALSE, !.goodbye = TRUE]
      /\ UNCHANGED <<pr_suites, pr_pc, pr_stopping, P!store, pr_earlier, pr_record, pr_number, pr_blamed, pr_agreed, pr_unpairing, pr_cut>>
  BY DEF P!HandleUnpair, P!Unpairable
<1>3. pr_session' \in P!Sessions /\ pr_session'.goodbye = TRUE
  BY <1>1, <1>2 DEF P!TypeOK, P!Sessions
<1>4. pr_pc \in Untied /\ pr_blamed = {}
  BY <1>1, <1>2 DEF PlaceInv, BlameInv, P!Unpairable
<1>5. StoreInv'
  BY <1>1, <1>2, StoreRests
<1>6. 0 \in P!Records
  BY DEF P!Records
<1>7. P!TypeOK'
  BY <1>1, <1>2, <1>3, <1>6 DEF P!TypeOK, P!store
<1>8. MemoryInv'
  BY <1>1, <1>2 DEF MemoryInv, P!store
<1>9. PlaceInv'
  BY <1>1, <1>2, <1>4 DEF PlaceInv
<1>10. SessionInv'
  BY <1>2, <1>3, <1>4 DEF SessionInv, Untied
<1>11. BlameInv'
  BY <1>2, <1>4 DEF BlameInv
<1> QED
  BY <1>5, <1>7, <1>8, <1>9, <1>10, <1>11 DEF PairInv

LEMMA ConnectKeeps ==
    ASSUME PairInv, P!Connect
    PROVE  PairInv'
<1>1. P!TypeOK /\ StoreInv /\ MemoryInv /\ PlaceInv /\ SessionInv /\ BlameInv
  BY DEF PairInv
<1>2. /\ pr_pc \in P!Prompts /\ pr_session' = P!Session(P!Keying)
      /\ UNCHANGED <<pr_suites, pr_pc, pr_stopping, P!store, pr_earlier, pr_record, pr_number, pr_app, pr_blamed, P!ghosts>>
  BY DEF P!Connect
<1>3. pr_session' \in P!Sessions /\ pr_session'.initial = P!Keying /\ pr_session'.unpair = "none"
  BY <1>1, <1>2, PairingTypes, SessionBegins
<1>4. pr_pc \notin Untied /\ pr_pc \notin {"R3 activated", "R3 restore", "R3 admit"}
  BY <1>2 DEF P!Prompts, Untied
<1>5. StoreInv'
  BY <1>1, <1>2, StoreRests DEF P!ghosts
<1>6. P!TypeOK'
  BY <1>1, <1>2, <1>3 DEF P!TypeOK, P!store, P!ghosts
<1>7. MemoryInv'
  BY <1>1, <1>2 DEF MemoryInv, P!store, P!ghosts
<1>8. PlaceInv'
  BY <1>1, <1>2, <1>3 DEF PlaceInv, P!ghosts
<1>9. SessionInv'
  BY <1>2, <1>3, <1>4 DEF SessionInv, P!Keying, P!store, Untied
<1>10. BlameInv'
  BY <1>1, <1>2, <1>4 DEF BlameInv
<1> QED
  BY <1>5, <1>6, <1>7, <1>8, <1>9, <1>10 DEF PairInv

-----------------------------------------------------------------------------
LEMMA PairingBegins == P!Init => PairInv
<1> SUFFICES ASSUME P!Init PROVE PairInv
  OBVIOUS
<1>1. /\ pr_pc = "unpaired" /\ pr_stopping = FALSE /\ pr_disk = pr_memory /\ pr_tmp = P!NoFile /\ pr_admit = TRUE
      /\ pr_threads = [t \in P!Threads |-> P!Idle] /\ pr_saving = 0 /\ (pr_memory # 0 => pr_app = pr_memory)
      /\ pr_blamed = {} /\ pr_agreed = pr_memory /\ pr_unpairing = FALSE /\ pr_told = FALSE /\ pr_cut = FALSE
  BY DEF P!Init
<1>2. pr_memory \in P!Records /\ pr_app \in P!Records /\ 0 \in P!Records
  BY DEF P!Init, P!Records
<1>3. P!Idle \in [phase : {"idle", "write", "replace"}, payload : P!Records]
  BY DEF P!Idle, P!Records
<1>4. P!Session(P!Keying) \in P!Sessions
  <2>1. P!Keying \in P!Keyings
    BY DEF P!Keying, P!Keyings
  <2> QED
    BY <1>1, <2>1 DEF P!Session, P!Sessions
<1>5. /\ pr_session \in P!Sessions /\ pr_session.unpair = "none" /\ pr_session.initial = P!Keying
  <2>1. pr_session = [P!Session(P!Keying) EXCEPT !.activated = "nothing"]
    BY DEF P!Init
  <2> QED
    BY <1>4, <2>1, SessionBegins DEF P!Sessions
<1>6. P!TypeOK
  BY <1>1, <1>2, <1>3, <1>5 DEF P!Init, P!TypeOK, P!Prompts, P!Waits, P!Others, P!Ends
<1>7. StoreInv
  BY <1>1 DEF StoreInv
<1>8. MemoryInv
  BY <1>1 DEF MemoryInv, UAway, RAway, Paired, P!Ends
<1>9. PlaceInv
  BY <1>1, <1>5 DEF PlaceInv
<1>10. SessionInv
  BY <1>1, <1>5 DEF SessionInv, P!Keying
<1>11. BlameInv
  BY <1>1 DEF BlameInv
<1> QED
  BY <1>6, <1>7, <1>8, <1>9, <1>10, <1>11 DEF PairInv

LEMMA SkipsKeep ==
    ASSUME PairInv, P!Skips \/ P!R3Activated \/ P!R5Restarted
    PROVE  PairInv'
<1>1. P!R3Activated => P!Skip("R3 activated", "R3 restore")
  BY DEF P!R3Activated, P!Skip
<1>2. P!R5Restarted => P!Skip("R5 restart", "R5 return")
  BY DEF P!R5Restarted, P!Skip
<1> QED
  BY <1>1, <1>2, SkipKeeps DEF P!Skips

LEMMA StepsKeep ==
    ASSUME PairInv, P!Steps
    PROVE  PairInv'
BY SkipsKeep, UnpairedKeeps, U1Keeps, U1ReconnectKeeps, U2ToU3Keeps, URestoreKeeps, PairingKeeps,
   PairKeeps, PostPairingKeeps, R1Keeps, R3Keeps, R3WithholdKeeps, R3ReconnectKeeps, R3RestoreKeeps,
   R3AdmitKeeps, R5Keeps, R5ReturnKeeps, R4Keeps, R4OpenKeeps, R4UnpairKeeps, R4TellKeeps,
   R4GoodbyeKeeps, R4ReconnectKeeps, R4ForgetKeeps DEF P!Steps

LEMMA PairingKept == PairInv /\ [P!Next]_(P!vars) => PairInv'
<1> SUFFICES ASSUME PairInv, [P!Next]_(P!vars) PROVE PairInv'
  OBVIOUS
<1>1. CASE P!Skips
  BY <1>1, SkipsKeep
<1>2. CASE P!Steps
  BY <1>2, StepsKeep
<1>3. CASE P!Interrupt
  BY <1>3, InterruptKeeps
<1>4. CASE \E t \in P!Threads : P!Thread(t)
  BY <1>4, WriteTmpKeeps, ReplaceKeeps, ReplaceFailsKeeps DEF P!Thread
<1>5. CASE P!Activate \/ P!HandleUnpair \/ P!LoseConnection \/ P!Connect
  BY <1>5, ActivateKeeps, HandleUnpairKeeps, LoseConnectionKeeps, ConnectKeeps
<1>6. CASE UNCHANGED P!vars
  <2>1. /\ UNCHANGED <<pr_suites, pr_pc, pr_stopping, P!store, pr_earlier, pr_record, pr_number, pr_app, pr_blamed, P!ghosts>>
        /\ pr_session' = pr_session
    BY <1>6 DEF P!vars
  <2>2. pr_session \in P!Sessions
    BY DEF PairInv, P!TypeOK
  <2> QED
    BY <2>1, <2>2, SessionMoves DEF SessionStep
<1> QED
  BY <1>1, <1>2, <1>3, <1>4, <1>5, <1>6 DEF P!Next

\* The invariant is what the pairing is to satisfy.
LEMMA PairInvSuffices ==
    PairInv => P!TypeOK /\ P!PairingIsKept /\ P!ValidatorNotToBlame /\ P!FailedAppWasNotTold
<1> SUFFICES ASSUME PairInv PROVE P!TypeOK /\ P!PairingIsKept /\ P!ValidatorNotToBlame /\ P!FailedAppWasNotTold
  OBVIOUS
<1>1. P!TypeOK /\ StoreInv /\ MemoryInv /\ PlaceInv /\ SessionInv /\ BlameInv
  BY DEF PairInv
<1>2. P!PairingIsKept
  <2> SUFFICES ASSUME ~pr_cut PROVE P!Kept
    BY DEF P!PairingIsKept
  <2>1. ASSUME pr_pc \in P!Prompts \ {"U2"}, pr_saving = 0 PROVE pr_memory = pr_agreed /\ pr_disk = pr_agreed /\ pr_admit
    <3>1. pr_pc \notin UAway \cup RAway /\ ~pr_unpairing /\ pr_pc # "R3 admit"
      BY <1>1, <2>1 DEF PlaceInv, P!Prompts, UAway, RAway, Untied
    <3> QED
      BY <1>1, <2>1, <3>1 DEF StoreInv, MemoryInv
  <2>2. ASSUME pr_pc \in P!Ends, \A t \in P!Threads : pr_threads[t] = P!Idle
        PROVE  pr_disk = IF pr_unpairing THEN 0 ELSE pr_agreed
    <3>1. pr_saving = 0
      <4>1. P!Idle.phase = "idle"
        BY DEF P!Idle
      <4>2. pr_saving \in P!Threads => pr_threads[pr_saving].phase = "idle"
        BY <2>2, <4>1
      <4> QED
        BY <1>1, <4>2 DEF P!TypeOK
    <3>2. pr_pc \notin UAway \cup RAway
      BY <2>2 DEF P!Ends, UAway, RAway
    <3> QED
      BY <1>1, <2>2, <3>1, <3>2 DEF StoreInv, MemoryInv
  <2> QED
    BY <2>1, <2>2 DEF P!Kept
<1>3. \A b \in pr_blamed : b[2] = "FAIL" /\ b[1] \in {"R4 goodbye", "R4 record"} /\ ~pr_told
  <2> SUFFICES ASSUME NEW b \in pr_blamed
        PROVE  b[2] = "FAIL" /\ b[1] \in {"R4 goodbye", "R4 record"} /\ ~pr_told
    OBVIOUS
  <2>1. ~pr_told /\ (b = <<"R4 goodbye", "FAIL">> \/ b = <<"R4 record", "FAIL">>)
    BY <1>1 DEF BlameInv
  <2>2. CASE b = <<"R4 goodbye", "FAIL">>
    BY <2>1, <2>2
  <2>3. CASE b = <<"R4 record", "FAIL">>
    BY <2>1, <2>3
  <2> QED
    BY <2>1, <2>2, <2>3
<1> QED
  BY <1>1, <1>2, <1>3 DEF P!ValidatorNotToBlame, P!FailedAppWasNotTold

-----------------------------------------------------------------------------
(* The two together: each runs, and the other stays where it began.          *)

LEMMA BothBegin == MCInit => LinkInv /\ PairInv
BY LinkBegins, PairingBegins DEF MCInit

LEMMA BothGoOn ==
    [MCNext]_<<which, vars, pairing>> => [Next]_vars /\ [P!Next]_(P!vars)
<1>1. UNCHANGED pairing => UNCHANGED P!vars
  BY DEF pairing, P!vars, P!store, P!ghosts
<1> QED
  BY <1>1 DEF MCNext

\* The strengthened invariants of Link and of the pairing hold throughout.
THEOREM BothInvHold == MCSpec => [](LinkInv /\ PairInv)
<1>1. LinkInv /\ PairInv /\ [MCNext]_<<which, vars, pairing>> => (LinkInv /\ PairInv)'
  BY BothGoOn, LinkKeeps, PairingKept
<1> QED
  BY <1>1, BothBegin, PTL DEF MCSpec

\* Whatever the user skips and the app does, and if Ctrl-C stops the run at a
\* question or a wait, U1 and R3 of the suites give the pairing back.
THEOREM SuitesKeepThePairing == MCSpec => []PairingIsKept
<1>1. PairInv => PairingIsKept
  BY PairInvSuffices DEF PairingIsKept
<1> QED
  BY <1>1, BothInvHold, PTL

\* Link and the server agree on the app's session, and the checks blame an app
\* that keeps the spec for nothing but an R4 it was never told of.
THEOREM AppIsJudgedFairly == MCSpec => []StepsAreFair
<1>1. LinkInv /\ PairInv => StepsAreFair
  BY LinkInvAgrees, PairInvSuffices DEF StepsAreFair
<1> QED
  BY <1>1, BothInvHold, PTL

\* reconnect and await_reconnect return a connection of the app that they did
\* not know, never the one they left behind.
THEOREM NextOneIsReturned == MCSpec => ReturnsTheNextOne
<1>1. LinkInv /\ [MCNext]_<<which, vars, pairing>> =>
        [pc # "idle" /\ pc' = "idle" /\ result' # 0 =>
           /\ result' \in inits /\ owner[result'] = "app"
           /\ result' > number
           /\ op = "reconnect" => result' \notin before
           /\ Is("keyed", result')
               \/ \A n \in Conns : owner[n] = "app" /\ n > watermark => ~Is("keyed", n)]_vars
  BY BothGoOn, ReturnStep
<1> QED
  BY <1>1, BothInvHold, PTL DEF MCSpec, ReturnsTheNextOne
=============================================================================
