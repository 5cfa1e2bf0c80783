----------------------------- MODULE WriterProofs -----------------------------
(***************************************************************************)
(* Proofs about what MCWriter composes: the states that are sent ahead of   *)
(* their time (Scheduled), and the queues and the writer of a connection    *)
(* (Writer). For any set of members, old and new, any states, any lead and  *)
(* any lateness of the loop's timers below it, the clients show and hold    *)
(* what the server means them to. For any finite set of roles, any queue    *)
(* bound and buffer, no role is forgotten and no wake-up is lost, every     *)
(* chunk meets its own stream open, and the client's buffer is not overrun. *)
(*                                                                          *)
(* The inductive invariants, in order: ScInv of the scheduled states,       *)
(* WriterInv of the schedule and the head chunk, StreamInv of the streams   *)
(* in the queues, BufferInv of the tracker. Each rests on those before it.  *)
(***************************************************************************)
EXTENDS MCWriter, FiniteSetTheorems, WellFoundedInduction, TLAPS

-----------------------------------------------------------------------------
(* The scheduled states: the inductive invariant.                            *)

SomeState == S!States \cup {S!Blank}
Times == 0..S!Never
Items == [kind : {"state", "drop"}, st : SomeState, at : 0..StateNow]

ScTypeOK ==
    /\ sc_now \in 0..StateNow /\ sc_cur \in SomeState
    /\ sc_pend \in [st : SomeState, at : Times] /\ (sc_pend.at = S!Never \/ sc_pend.at <= StateNow)
    /\ sc_sent \in BOOLEAN
    /\ sc_timer \in [kind : {"none", "send", "due"}, at : Int, st : SomeState]
    /\ sc_chan \in [Members -> Seq(Items)]
    /\ sc_shown \in [Members -> [st : SomeState, at : Times, early : BOOLEAN]]
    /\ sc_held \in [Members -> [st : SomeState, at : Times]]
    /\ sc_subs \subseteq Members

\* What the one timer is for. It is late by less than the lead, so no state is due unsent.
TimerOK ==
    /\ sc_timer.kind = "none" => sc_timer.at = S!Never /\ (sc_pend.at # S!Never => sc_sent /\ S!Due)
    /\ sc_timer.kind = "send" => ~sc_sent /\ sc_pend.at # S!Never /\ sc_timer.at = sc_pend.at - StateLead /\ sc_now <= sc_timer.at + Slack
    /\ sc_timer.kind = "due" =>
          /\ sc_sent /\ sc_timer.at >= 0
          /\ \/ sc_pend.at # S!Never /\ sc_timer.st = sc_pend.st /\ sc_timer.at = sc_pend.at
             \/ sc_pend.at = S!Never /\ sc_timer.st = sc_cur /\ sc_timer.at <= sc_now

\* The state is one the members were told of ahead, the pending one or one it replaced.
IsAhead(x) == sc_sent /\ sc_pend.at > sc_now /\ sc_pend.at # S!Never /\ (x = sc_pend \/ x \in sc_replaced)
StateOf(x) == [st |-> x.st, at |-> x.at]

AllAhead(m, i) == \A j \in (i + 1)..Len(sc_chan[m]) : sc_chan[m][j].kind = "state" /\ IsAhead(StateOf(sc_chan[m][j]))

\* What the client was last told of the present is the state in effect; all it was told since is ahead.
ToldNow(m, i) ==
    /\ sc_chan[m][i].kind = "state" /\ sc_chan[m][i].st = S!Current /\ sc_chan[m][i].at <= sc_now
    /\ AllAhead(m, i)

ShownRight(m) ==
    /\ \/ sc_shown[m].st = S!Current \/ sc_shown[m].early
       \/ IsAhead(StateOf(sc_shown[m])) /\ sc_shown[m].at <= sc_now
    /\ sc_held[m].at # S!Never => IsAhead(sc_held[m])
    /\ AllAhead(m, 0)

HeldRight(m) == sc_held[m].st = S!Current /\ sc_held[m].at <= sc_now /\ AllAhead(m, 0)

IsSettled(m) == (\E i \in 1..Len(sc_chan[m]) : ToldNow(m, i)) \/ ShownRight(m) \/ HeldRight(m)

\* A legacy member is told of a due state by the timer.
ToBeTold(m) == m \in Legacy /\ sc_timer.kind = "due" /\ sc_timer.at <= sc_now

\* The last a client was told is ahead only if it is what the server has pending, and no legacy
\* client is told ahead.
Newest(m, x) == x.at > sc_now => m \notin Legacy /\ sc_sent /\ StateOf(x) = sc_pend

NewestOK(m) ==
    IF sc_chan[m] # <<>> THEN Newest(m, sc_chan[m][Len(sc_chan[m])])
    ELSE sc_held[m].at # S!Never => Newest(m, sc_held[m])

\* Who was told ahead has the pending state as the last of what it was told.
LastIs(m, x) ==
    IF sc_chan[m] # <<>> THEN sc_chan[m][Len(sc_chan[m])].kind = "state" /\ StateOf(sc_chan[m][Len(sc_chan[m])]) = x
    ELSE IF sc_held[m].at # S!Never THEN sc_held[m] = x ELSE StateOf(sc_shown[m]) = x

ToldAhead(m) == m \notin Legacy /\ sc_sent /\ sc_pend.at # S!Never => LastIs(m, sc_pend)

MemberOK(m) == (IsSettled(m) \/ ToBeTold(m)) /\ NewestOK(m) /\ ToldAhead(m)

ScInv == ScTypeOK /\ TimerOK /\ \A m \in sc_subs : MemberOK(m)

-----------------------------------------------------------------------------
(* What the actions are made of.                                             *)

LEMMA Constants ==
    /\ S!Never \in Nat /\ S!Never > StateNow /\ S!Blank \in SomeState /\ S!Blank.moving = FALSE
    /\ S!NoPend \in [st : SomeState, at : Times] /\ S!NoPend.at = S!Never
    /\ S!NoTimer.kind = "none" /\ S!NoTimer.at = S!Never /\ S!NoTimer.st \in SomeState
    /\ S!Nothing \in [st : SomeState, at : Times, early : BOOLEAN] /\ S!Drop \in Items
<1>1. S!Never \in Nat /\ S!Never > StateNow /\ S!Blank \in SomeState /\ S!Blank.moving = FALSE
  BY ScheduledAssumption DEF S!Never, SomeState, S!Blank
<1>2. S!Never \in Times /\ 0 \in Times /\ 0 \in 0..StateNow
  BY <1>1, ScheduledAssumption DEF Times
<1> HIDE DEF S!Never, Times, SomeState
<1> QED
  BY <1>1, <1>2 DEF S!NoPend, S!NoTimer, S!Nothing, S!Drop, Items

LEMMA MsgIs ==
    ASSUME NEW st \in SomeState, NEW at \in 0..StateNow
    PROVE  /\ S!Msg(st, at) \in Items /\ S!Msg(st, at).kind = "state" /\ S!Msg(st, at).st = st /\ S!Msg(st, at).at = at
           /\ StateOf(S!Msg(st, at)) = [st |-> st, at |-> at]
BY DEF S!Msg, Items, StateOf

\* What is in effect, and what is still to come, when the state is read.
LEMMA CurrentIs ==
    ASSUME ScTypeOK
    PROVE  /\ sc_now \in Nat /\ sc_now <= StateNow /\ sc_now \in Times /\ sc_now < S!Never
           /\ sc_pend.at \in Nat /\ sc_pend.at \in Times /\ sc_pend.st \in SomeState /\ sc_pend.at <= S!Never
           /\ S!Current \in SomeState /\ S!Remaining \in [st : SomeState, at : Times]
           /\ S!Remaining.at = S!Never \/ (S!Remaining = sc_pend /\ sc_pend.at > sc_now /\ sc_pend.at <= StateNow)
           /\ S!Remaining.at = S!Never <=> S!Due \/ sc_pend.at = S!Never
           /\ S!Due => sc_pend.at # S!Never /\ S!Current = sc_pend.st /\ S!Remaining = S!NoPend
           /\ ~S!Due => S!Current = sc_cur /\ S!Remaining = sc_pend
           /\ StateOf(sc_pend) = sc_pend
<1>1. sc_now \in Nat /\ sc_now <= StateNow /\ sc_now \in Times /\ sc_now < S!Never
  BY Constants, ScheduledAssumption DEF ScTypeOK, Times
<1>2. sc_pend.at \in Nat /\ sc_pend.at <= S!Never /\ sc_pend.at \in Times /\ sc_pend.st \in SomeState
  BY Constants DEF ScTypeOK, Times
<1>3. StateOf(sc_pend) = sc_pend
  BY DEF ScTypeOK, StateOf
<1> HIDE DEF SomeState, Times, S!Never, S!NoPend
<1>4. S!Due \in BOOLEAN /\ (S!Due => sc_pend.at # S!Never /\ S!Current = sc_pend.st /\ S!Remaining = S!NoPend)
      /\ (~S!Due => S!Current = sc_cur /\ S!Remaining = sc_pend)
  BY <1>1, <1>2, Constants DEF S!Due, S!Current, S!Remaining
<1>5. ~S!Due => sc_pend.at > sc_now
  BY <1>1, <1>2 DEF S!Due
<1>6. S!Current \in SomeState /\ S!Remaining \in [st : SomeState, at : Times]
  BY <1>2, <1>4, Constants DEF ScTypeOK
<1>7. S!Remaining.at = S!Never \/ (S!Remaining = sc_pend /\ sc_pend.at > sc_now /\ sc_pend.at <= StateNow)
  BY <1>4, <1>5, Constants DEF ScTypeOK
<1>8. S!Remaining.at = S!Never <=> S!Due \/ sc_pend.at = S!Never
  BY <1>4, Constants
<1> QED
  BY <1>1, <1>2, <1>3, <1>4, <1>6, <1>7, <1>8

LEMMA ToIs ==
    ASSUME NEW ch \in [Members -> Seq(Items)], NEW ms, NEW msg \in Items
    PROVE  /\ S!To(ch, ms, msg) \in [Members -> Seq(Items)]
           /\ \A m \in Members : S!To(ch, ms, msg)[m] = IF m \in ms THEN Append(ch[m], msg) ELSE ch[m]
<1> HIDE DEF Items
<1>1. \A m \in Members : ch[m] \in Seq(Items) /\ Append(ch[m], msg) \in Seq(Items)
  OBVIOUS
<1> QED
  BY <1>1 DEF S!To

LEMMA AppendIs ==
    ASSUME NEW s \in Seq(Items), NEW x \in Items
    PROVE  /\ Append(s, x) \in Seq(Items) /\ Append(s, x) # <<>> /\ Len(Append(s, x)) = Len(s) + 1
           /\ Append(s, x)[Len(s) + 1] = x /\ \A i \in 1..Len(s) : Append(s, x)[i] = s[i]
           /\ Len(s) \in Nat
<1> HIDE DEF Items
<1> QED
  OBVIOUS

\* Reading promotes the state whose time has come.
LEMMA PromoteIs ==
    ASSUME ScTypeOK, S!Promote, sc_now' = sc_now
    PROVE  /\ sc_cur' \in SomeState /\ sc_pend' \in [st : SomeState, at : Times] /\ (sc_pend'.at = S!Never \/ sc_pend'.at <= StateNow)
           /\ S!Current' = S!Current /\ sc_pend' = S!Remaining /\ sc_cur' = S!Current
           /\ (sc_pend'.at # S!Never => sc_pend' = sc_pend /\ sc_replaced' = sc_replaced /\ sc_pend.at > sc_now)
           /\ ~S!Due'
<1>1. sc_cur' = S!Current /\ sc_pend' = S!Remaining /\ (~S!Due => sc_replaced' = sc_replaced)
  BY DEF S!Promote
<1> HIDE DEF S!Never, SomeState, Times, S!NoPend
<1>2. /\ S!Current \in SomeState /\ S!Remaining \in [st : SomeState, at : Times]
      /\ S!Remaining.at = S!Never \/ (S!Remaining = sc_pend /\ sc_pend.at > sc_now /\ sc_pend.at <= StateNow)
      /\ S!Remaining.at = S!Never <=> S!Due \/ sc_pend.at = S!Never
      /\ sc_now \in Nat /\ sc_now < S!Never
  BY CurrentIs
<1>3. ~S!Due'
  <2>1. sc_pend'.at > sc_now /\ sc_pend'.at \in Int
    BY <1>1, <1>2, CurrentIs, Constants
  <2> QED
    BY <1>2, <2>1 DEF S!Due
<1>4. S!Current' = sc_cur'
  BY <1>3 DEF S!Current
<1> QED
  BY <1>1, <1>2, <1>3, <1>4

-----------------------------------------------------------------------------
(* One member.                                                               *)

SameFor(m) == sc_chan'[m] = sc_chan[m] /\ sc_held'[m] = sc_held[m] /\ sc_shown'[m] = sc_shown[m]

\* Nothing but the promotion of the pending state.
Quiet ==
    /\ sc_now' = sc_now /\ sc_sent' = sc_sent /\ S!Current' = S!Current
    /\ \/ sc_pend' = sc_pend /\ sc_replaced' = sc_replaced
       \/ sc_pend'.at = S!Never /\ (sc_pend.at = S!Never \/ S!Due)

LEMMA MemberIs ==
    ASSUME ScTypeOK, NEW m \in Members
    PROVE  /\ sc_chan[m] \in Seq(Items) /\ Len(sc_chan[m]) \in Nat
           /\ \A i \in 1..Len(sc_chan[m]) : sc_chan[m][i] \in Items /\ sc_chan[m][i].at \in Nat /\ sc_chan[m][i].at < S!Never
           /\ sc_chan[m] # <<>> => Len(sc_chan[m]) \in 1..Len(sc_chan[m])
           /\ sc_held[m] \in [st : SomeState, at : Times] /\ sc_held[m].at \in Nat
           /\ sc_shown[m] \in [st : SomeState, at : Times, early : BOOLEAN]
<1> USE DEF ScTypeOK
<1>1. sc_chan[m] \in Seq(Items) /\ sc_held[m] \in [st : SomeState, at : Times]
      /\ sc_shown[m] \in [st : SomeState, at : Times, early : BOOLEAN]
  OBVIOUS
<1>2. \A x \in Items : x.at \in Nat /\ x.at < S!Never
  BY Constants, ScheduledAssumption DEF Items
<1>3. \A i \in 1..Len(sc_chan[m]) : sc_chan[m][i] \in Items
  BY <1>1
<1>4. Len(sc_chan[m]) \in Nat /\ (sc_chan[m] # <<>> => Len(sc_chan[m]) \in 1..Len(sc_chan[m]))
  <2> HIDE DEF Items
  <2> QED
    BY <1>1
<1>5. sc_held[m].at \in Nat
  BY <1>1, Constants DEF Times
<1> QED
  BY <1>1, <1>2, <1>3, <1>4, <1>5

LEMMA StaysOK ==
    ASSUME ScTypeOK, NEW m \in Members, MemberOK(m), SameFor(m), Quiet, ToBeTold(m) => ToBeTold(m)'
    PROVE  MemberOK(m)'
<1>1. sc_now \in Nat /\ sc_now < S!Never /\ sc_pend.at \in Nat /\ S!Never \in Nat
  BY CurrentIs, Constants
<1>2. /\ sc_chan[m] # <<>> => Len(sc_chan[m]) \in 1..Len(sc_chan[m])
      /\ \A i \in 1..Len(sc_chan[m]) : sc_chan[m][i].at \in Nat /\ sc_chan[m][i].at < S!Never
      /\ sc_held[m].at \in Nat
  BY MemberIs
<1>3. sc_now' = sc_now /\ sc_sent' = sc_sent /\ S!Current' = S!Current /\ sc_chan'[m] = sc_chan[m] /\ sc_held'[m] = sc_held[m] /\ sc_shown'[m] = sc_shown[m]
  BY DEF Quiet, SameFor
<1>4. CASE sc_pend' = sc_pend /\ sc_replaced' = sc_replaced
  <2>1. \A x : IsAhead(x)' <=> IsAhead(x)
    BY <1>3, <1>4 DEF IsAhead
  <2>2. \A i : AllAhead(m, i)' <=> AllAhead(m, i)
    BY <1>3, <2>1 DEF AllAhead, StateOf
  <2>3. (\E i \in 1..Len(sc_chan[m]) : ToldNow(m, i)) => (\E i \in 1..Len(sc_chan'[m]) : ToldNow(m, i)')
    BY <1>3, <2>2 DEF ToldNow
  <2>4. ShownRight(m) => ShownRight(m)'
    BY <1>3, <1>4, <2>1, <2>2 DEF ShownRight, StateOf
  <2>5. HeldRight(m) => HeldRight(m)'
    BY <1>3, <2>2 DEF HeldRight
  <2>6. IsSettled(m)' \/ ToBeTold(m)'
    BY <2>3, <2>4, <2>5 DEF MemberOK, IsSettled
  <2>7. NewestOK(m)'
    BY <1>3, <1>4 DEF MemberOK, NewestOK, Newest, StateOf
  <2>8. ToldAhead(m)'
    BY <1>3, <1>4 DEF MemberOK, ToldAhead, LastIs, StateOf
  <2> QED
    BY <2>6, <2>7, <2>8 DEF MemberOK
<1>5. CASE sc_pend'.at = S!Never /\ (sc_pend.at = S!Never \/ S!Due)
  <2>1. \A x : ~IsAhead(x)
    BY <1>1, <1>5 DEF IsAhead, S!Due
  <2>2. \A i : AllAhead(m, i) => AllAhead(m, i)'
    BY <1>3, <2>1 DEF AllAhead
  <2>3. (\E i \in 1..Len(sc_chan[m]) : ToldNow(m, i)) => (\E i \in 1..Len(sc_chan'[m]) : ToldNow(m, i)')
    BY <1>3, <2>2 DEF ToldNow
  <2>4. ShownRight(m) => ShownRight(m)'
    BY <1>3, <2>1, <2>2 DEF ShownRight
  <2>5. HeldRight(m) => HeldRight(m)'
    BY <1>3, <2>2 DEF HeldRight
  <2>6. IsSettled(m)' \/ ToBeTold(m)'
    BY <2>3, <2>4, <2>5 DEF MemberOK, IsSettled
  <2>7. NewestOK(m)'
    <3>1. CASE sc_chan[m] # <<>>
      <4> DEFINE x == sc_chan[m][Len(sc_chan[m])]
      <4>1. x.at \in Nat /\ x.at < S!Never
        BY <1>2, <3>1
      <4>2. x.at > sc_now => [st |-> x.st, at |-> x.at] = sc_pend
        BY <3>1 DEF MemberOK, NewestOK, Newest, StateOf
      <4> HIDE DEF x
      <4>3. x.at > sc_now => x.at = sc_pend.at
        BY <4>2
      <4>4. ~(x.at > sc_now)
        BY <1>1, <1>5, <4>1, <4>3 DEF S!Due
      <4> QED
        BY <1>3, <3>1, <4>4 DEF NewestOK, Newest, x
    <3>2. CASE sc_chan[m] = <<>>
      <4>1. sc_held[m].at > sc_now /\ sc_held[m].at # S!Never => [st |-> sc_held[m].st, at |-> sc_held[m].at] = sc_pend
        BY <3>2 DEF MemberOK, NewestOK, Newest, StateOf
      <4>2. sc_held[m].at > sc_now /\ sc_held[m].at # S!Never => sc_held[m].at = sc_pend.at
        BY <4>1
      <4>3. ~(sc_held[m].at > sc_now /\ sc_held[m].at # S!Never)
        BY <1>1, <1>5, <4>2 DEF S!Due
      <4> QED
        BY <1>3, <3>2, <4>3 DEF NewestOK, Newest
    <3> QED
      BY <3>1, <3>2
  <2>8. ToldAhead(m)'
    BY <1>5 DEF ToldAhead
  <2> QED
    BY <2>6, <2>7, <2>8 DEF MemberOK
<1> QED
  BY <1>4, <1>5 DEF Quiet

\* A member that is told the state in effect.
LEMMA PresentOK ==
    ASSUME ScTypeOK, NEW m \in Members, NEW msg \in Items, sc_chan'[m] = Append(sc_chan[m], msg),
           msg.kind = "state", msg.st = S!Current', sc_now' = sc_now, msg.at <= sc_now,
           m \in Legacy \/ ~sc_sent' \/ sc_pend'.at = S!Never
    PROVE  MemberOK(m)'
<1>1. /\ sc_chan'[m] # <<>> /\ Len(sc_chan'[m]) = Len(sc_chan[m]) + 1 /\ sc_chan'[m][Len(sc_chan[m]) + 1] = msg
      /\ Len(sc_chan[m]) \in Nat
  BY AppendIs, MemberIs
<1> SUFFICES ASSUME NEW n, n = Len(sc_chan[m]) + 1
      PROVE  MemberOK(m)'
  OBVIOUS
<1>2. n \in 1..Len(sc_chan'[m]) /\ n = Len(sc_chan'[m]) /\ n \in Nat
  BY <1>1
<1>3. sc_chan'[m][n] = msg /\ Len(sc_chan'[m]) = n
  BY <1>1
<1>4. AllAhead(m, n)'
  BY <1>2, <1>3 DEF AllAhead
<1>5. ToldNow(m, n)'
  BY <1>3, <1>4 DEF ToldNow
<1>6. IsSettled(m)'
  BY <1>2, <1>5 DEF IsSettled
<1>7. NewestOK(m)'
  <2>1. sc_now \in Nat /\ msg.at \in Int
    BY CurrentIs, ScheduledAssumption DEF Items
  <2> QED
    BY <1>1, <1>3, <2>1 DEF NewestOK, Newest
<1>8. ToldAhead(m)'
  BY DEF ToldAhead
<1> QED
  BY <1>6, <1>7, <1>8 DEF MemberOK

\* A member that joins when the others have been told ahead.
LEMMA JoinedOK ==
    ASSUME ScTypeOK, NEW m \in Members, m \notin Legacy, NEW a \in Items, NEW b \in Items,
           sc_chan'[m] = Append(Append(sc_chan[m], a), b), a.kind = "state", a.st = S!Current', sc_now' = sc_now, a.at <= sc_now,
           b.kind = "state", StateOf(b) = sc_pend', sc_sent', sc_pend'.at > sc_now, sc_pend'.at # S!Never
    PROVE  MemberOK(m)'
<1>1. /\ Len(sc_chan[m]) \in Nat /\ sc_chan[m] \in Seq(Items)
  BY MemberIs
<1> SUFFICES ASSUME NEW n, n = Len(sc_chan[m]) + 1
      PROVE  MemberOK(m)'
  OBVIOUS
<1>2. /\ Append(sc_chan[m], a) \in Seq(Items) /\ Len(Append(sc_chan[m], a)) = n /\ Append(sc_chan[m], a)[n] = a /\ n \in Nat
  BY <1>1, AppendIs
<1>3. /\ sc_chan'[m] # <<>> /\ Len(sc_chan'[m]) = n + 1 /\ sc_chan'[m][n + 1] = b /\ sc_chan'[m][n] = a
  <2>1. n \in 1..n
    BY <1>1
  <2> QED
    BY <1>2, <2>1, AppendIs
<1>4. IsAhead(StateOf(b))'
  BY DEF IsAhead, StateOf
<1>5. AllAhead(m, n)'
  <2>1. \A j \in (n + 1)..Len(sc_chan'[m]) : j = n + 1
    BY <1>2, <1>3
  <2> QED
    BY <1>3, <1>4, <2>1 DEF AllAhead, StateOf
<1>6. ToldNow(m, n)' /\ n \in 1..Len(sc_chan'[m])
  BY <1>1, <1>2, <1>3, <1>5 DEF ToldNow
<1>7. IsSettled(m)'
  BY <1>6 DEF IsSettled
<1>8. NewestOK(m)'
  BY <1>3 DEF NewestOK, Newest, StateOf
<1>9. ToldAhead(m)'
  BY <1>3 DEF ToldAhead, LastIs, StateOf
<1> QED
  BY <1>7, <1>8, <1>9 DEF MemberOK

\* A member that is told of the pending state.
LEMMA AheadOK ==
    ASSUME ScTypeOK, NEW m \in Members, m \notin Legacy, MemberOK(m), NEW b \in Items,
           sc_chan'[m] = Append(sc_chan[m], b), sc_held'[m] = sc_held[m], sc_shown'[m] = sc_shown[m], sc_now' = sc_now, S!Current' = S!Current,
           b.kind = "state", StateOf(b) = sc_pend', sc_sent', sc_pend'.at > sc_now, sc_pend'.at # S!Never,
           \A x : IsAhead(x) => IsAhead(x)'
    PROVE  MemberOK(m)'
<1>1. /\ Len(sc_chan[m]) \in Nat /\ sc_chan[m] \in Seq(Items)
  BY MemberIs
<1>2. /\ sc_chan'[m] # <<>> /\ Len(sc_chan'[m]) = Len(sc_chan[m]) + 1 /\ sc_chan'[m][Len(sc_chan[m]) + 1] = b
      /\ \A i \in 1..Len(sc_chan[m]) : sc_chan'[m][i] = sc_chan[m][i]
  BY <1>1, AppendIs
<1>3. IsAhead(StateOf(b))'
  BY DEF IsAhead, StateOf
<1>4. ASSUME NEW i \in Nat, AllAhead(m, i) PROVE AllAhead(m, i)'
  <2> SUFFICES ASSUME NEW j \in (i + 1)..Len(sc_chan'[m])
        PROVE  sc_chan'[m][j].kind = "state" /\ IsAhead(StateOf(sc_chan[m][j]))'
    BY DEF AllAhead
  <2>1. CASE j = Len(sc_chan[m]) + 1
    BY <1>2, <1>3, <2>1 DEF StateOf
  <2>2. CASE j # Len(sc_chan[m]) + 1
    <3>1. j \in (i + 1)..Len(sc_chan[m]) /\ j \in 1..Len(sc_chan[m])
      BY <1>1, <1>2, <2>2
    <3>2. sc_chan[m][j].kind = "state" /\ IsAhead(StateOf(sc_chan[m][j])) /\ sc_chan'[m][j] = sc_chan[m][j]
      BY <1>2, <1>4, <3>1 DEF AllAhead
    <3>3. IsAhead([st |-> sc_chan[m][j].st, at |-> sc_chan[m][j].at])'
      <4> SUFFICES ASSUME NEW x, x = [st |-> sc_chan[m][j].st, at |-> sc_chan[m][j].at]
            PROVE  IsAhead([st |-> sc_chan[m][j].st, at |-> sc_chan[m][j].at])'
        OBVIOUS
      <4>1. IsAhead(x)'
        BY <3>2 DEF StateOf
      <4> QED
        BY <3>2, <4>1 DEF IsAhead
    <3> QED
      BY <3>2, <3>3 DEF StateOf
  <2> QED
    BY <2>1, <2>2
<1>5. IsSettled(m)
  BY DEF MemberOK, ToBeTold
<1>6. IsSettled(m)'
  <2>1. ASSUME NEW i \in 1..Len(sc_chan[m]), ToldNow(m, i)
        PROVE  IsSettled(m)'
    <3>1. i \in Nat /\ i \in 1..Len(sc_chan'[m])
      BY <1>1, <1>2
    <3>2. ToldNow(m, i)'
      BY <1>2, <1>4, <2>1, <3>1 DEF ToldNow
    <3> QED
      BY <3>1, <3>2 DEF IsSettled
  <2>2. CASE ShownRight(m)
    <3>1. AllAhead(m, 0)'
      BY <1>4, <2>2 DEF ShownRight
    <3>2. \/ sc_shown[m].st = S!Current' \/ sc_shown[m].early
          \/ IsAhead(StateOf(sc_shown[m])) /\ sc_shown[m].at <= sc_now
      BY <2>2 DEF ShownRight
    <3>3. IsAhead([st |-> sc_shown[m].st, at |-> sc_shown[m].at]) => IsAhead(StateOf(sc_shown[m]))'
      <4> SUFFICES ASSUME NEW x, x = [st |-> sc_shown[m].st, at |-> sc_shown[m].at], IsAhead(x)
            PROVE  IsAhead(StateOf(sc_shown[m]))'
        OBVIOUS
      <4>1. IsAhead(x)' /\ StateOf(sc_shown'[m]) = x
        BY DEF StateOf
      <4> QED
        BY <4>1 DEF IsAhead, StateOf
    <3>4. sc_held[m].at # S!Never => IsAhead(sc_held[m])'
      <4> SUFFICES ASSUME NEW x, x = sc_held[m], sc_held[m].at # S!Never
            PROVE  IsAhead(sc_held[m])'
        OBVIOUS
      <4>1. IsAhead(x)'
        BY <2>2 DEF ShownRight
      <4> QED
        BY <4>1 DEF IsAhead
    <3>5. ShownRight(m)'
      BY <3>1, <3>2, <3>3, <3>4 DEF ShownRight, StateOf
    <3> QED
      BY <3>5 DEF IsSettled
  <2>3. CASE HeldRight(m)
    <3>1. HeldRight(m)'
      BY <1>4, <2>3 DEF HeldRight
    <3> QED
      BY <3>1 DEF IsSettled
  <2> QED
    BY <1>5, <2>1, <2>2, <2>3 DEF IsSettled
<1>7. NewestOK(m)'
  BY <1>2 DEF NewestOK, Newest, StateOf
<1>8. ToldAhead(m)'
  BY <1>2 DEF ToldAhead, LastIs, StateOf
<1> QED
  BY <1>6, <1>7, <1>8 DEF MemberOK

-----------------------------------------------------------------------------
(* The server's actions.                                                     *)

LEMMA PromoteKeeps ==
    ASSUME ScTypeOK, TimerOK, S!Promote, UNCHANGED <<sc_now, sc_sent, sc_timer>>
    PROVE  TimerOK' /\ Quiet
<1>1. /\ sc_now \in Nat /\ sc_pend.at \in Nat /\ sc_now < S!Never
      /\ S!Due => sc_pend.at # S!Never /\ S!Current = sc_pend.st /\ S!Remaining = S!NoPend
      /\ ~S!Due => S!Current = sc_cur /\ S!Remaining = sc_pend
      /\ S!NoPend.at = S!Never /\ S!Never \in Nat
  BY CurrentIs, Constants
<1>2. sc_cur' = S!Current /\ sc_pend' = S!Remaining /\ (~S!Due => sc_replaced' = sc_replaced) /\ S!Current' = S!Current /\ ~S!Due'
  BY PromoteIs DEF S!Promote
<1>3. Quiet
  BY <1>1, <1>2 DEF Quiet
<1>4. sc_timer.kind = "none" => sc_pend'.at = S!Never
  BY <1>1, <1>2 DEF TimerOK
<1>5. sc_timer.kind = "send" => ~S!Due
  <2>1. sc_timer.at \in Int
    BY DEF ScTypeOK
  <2> QED
    BY <1>1, <2>1, ScheduledAssumption DEF TimerOK, S!Due
<1>6. sc_timer.kind = "due" /\ S!Due => sc_timer.st = sc_cur' /\ sc_timer.at <= sc_now /\ sc_pend'.at = S!Never
  BY <1>1, <1>2 DEF TimerOK, S!Due
<1>7. TimerOK'
  <2>1. CASE sc_timer.kind = "none"
    BY <1>4, <2>1 DEF TimerOK
  <2>2. CASE sc_timer.kind = "send"
    BY <1>1, <1>2, <1>5, <2>2 DEF TimerOK
  <2>3. CASE sc_timer.kind = "due"
    BY <1>1, <1>2, <1>6, <2>3 DEF TimerOK
  <2> QED
    BY <2>1, <2>2, <2>3 DEF ScTypeOK
<1> QED
  BY <1>3, <1>7

\* Only a promotion happens.
LEMMA ReadsKeep ==
    ASSUME ScInv, S!Promote, UNCHANGED <<sc_now, sc_sent, sc_timer, sc_subs, sc_chan, sc_shown, sc_held>>
    PROVE  ScInv'
<1>1. ScTypeOK /\ TimerOK /\ \A m \in sc_subs : MemberOK(m) /\ m \in Members
  BY DEF ScInv, ScTypeOK
<1>2. TimerOK' /\ Quiet
  BY <1>1, PromoteKeeps
<1>3. ScTypeOK'
  BY <1>1, PromoteIs DEF ScTypeOK
<1>4. \A m \in sc_subs : MemberOK(m)'
  BY <1>1, <1>2, StaysOK DEF SameFor, ToBeTold
<1> QED
  BY <1>2, <1>3, <1>4 DEF ScInv

LEMMA ApplyKeeps ==
    ASSUME ScInv, NEW st \in SomeState, S!Apply(st), UNCHANGED <<sc_now, sc_subs, sc_shown, sc_held>>
    PROVE  ScInv'
<1>1. ScTypeOK /\ TimerOK /\ \A m \in sc_subs : m \in Members
  BY DEF ScInv, ScTypeOK
<1>2. /\ sc_cur' = st /\ sc_pend' = S!NoPend /\ sc_sent' = FALSE /\ sc_timer' = S!NoTimer
      /\ sc_chan' = S!To(sc_chan, sc_subs, S!Msg(st, sc_now))
  BY DEF S!Apply
<1>3. sc_now \in 0..StateNow /\ sc_now \in Nat /\ sc_now < S!Never /\ sc_chan \in [Members -> Seq(Items)]
  BY <1>1, CurrentIs DEF ScTypeOK
<1> DEFINE msg == S!Msg(st, sc_now)
<1>4. msg \in Items /\ msg.kind = "state" /\ msg.st = st /\ msg.at = sc_now
  BY <1>3, MsgIs
<1> HIDE DEF msg
<1>5. /\ sc_chan' \in [Members -> Seq(Items)]
      /\ \A m \in Members : sc_chan'[m] = IF m \in sc_subs THEN Append(sc_chan[m], msg) ELSE sc_chan[m]
  BY <1>2, <1>3, <1>4, ToIs DEF msg
<1>6. sc_pend'.at = S!Never /\ S!Never \in Nat
  BY <1>2, Constants
<1>7. ~S!Due'
  BY <1>3, <1>6 DEF S!Due
<1>8. S!Current' = st
  BY <1>2, <1>7 DEF S!Current
<1>9. ScTypeOK'
  <2>1. sc_timer' \in [kind : {"none", "send", "due"}, at : Int, st : SomeState]
    BY <1>2, Constants DEF S!NoTimer
  <2> QED
    BY <1>1, <1>2, <1>5, <1>6, <2>1, Constants DEF ScTypeOK
<1>10. TimerOK'
  BY <1>2, <1>6, Constants DEF TimerOK
<1>11. \A m \in sc_subs : MemberOK(m)'
  BY <1>1, <1>2, <1>3, <1>4, <1>5, <1>8, PresentOK
<1> QED
  BY <1>9, <1>10, <1>11 DEF ScInv

\* What a member that joins, or is restated to, is sent.
LEMMA JoiningIs ==
    ASSUME ScTypeOK, NEW m \in Members
    PROVE  LET a == S!Msg(S!Current, sc_now)
               b == S!Msg(sc_pend.st, sc_pend.at)
               two == S!Remaining.at # S!Never /\ sc_sent /\ m \notin Legacy
           IN  /\ S!Joining(sc_chan, m, S!Remaining) \in [Members -> Seq(Items)]
               /\ a \in Items /\ (two => b \in Items)
               /\ \A j \in Members \ {m} : S!Joining(sc_chan, m, S!Remaining)[j] = sc_chan[j]
               /\ two => S!Joining(sc_chan, m, S!Remaining)[m] = Append(Append(sc_chan[m], a), b)
               /\ ~two => S!Joining(sc_chan, m, S!Remaining)[m] = Append(sc_chan[m], a)
<1>1. /\ sc_now \in 0..StateNow /\ S!Current \in SomeState /\ sc_pend.st \in SomeState /\ sc_pend.at \in Nat
      /\ S!Remaining.at = S!Never \/ (S!Remaining = sc_pend /\ sc_pend.at <= StateNow)
  BY CurrentIs DEF ScTypeOK
<1> DEFINE a == S!Msg(S!Current, sc_now)
           b == S!Msg(sc_pend.st, sc_pend.at)
           one == S!To(sc_chan, {m}, a)
           both == S!To(one, {m}, b)
           two == S!Remaining.at # S!Never /\ sc_sent /\ m \notin Legacy
<1>2. a \in Items
  BY <1>1, MsgIs
<1>3. two => b \in Items /\ S!Remaining = sc_pend
  <2>1. two => sc_pend.at \in 0..StateNow /\ S!Remaining = sc_pend
    BY <1>1, ScheduledAssumption
  <2> QED
    BY <1>1, <2>1, MsgIs
<1>4. S!Joining(sc_chan, m, S!Remaining) = IF two THEN both ELSE one
  BY <1>3 DEF S!Joining
<1> HIDE DEF a, b, two
<1>5. /\ one \in [Members -> Seq(Items)]
      /\ \A j \in Members : one[j] = IF j \in {m} THEN Append(sc_chan[j], a) ELSE sc_chan[j]
  <2>1. sc_chan \in [Members -> Seq(Items)]
    BY DEF ScTypeOK
  <2> QED
    BY <1>2, <2>1, ToIs
<1> HIDE DEF one
<1>6. two => /\ both \in [Members -> Seq(Items)]
             /\ \A j \in Members : both[j] = IF j \in {m} THEN Append(one[j], b) ELSE one[j]
  BY <1>3, <1>5, ToIs
<1> HIDE DEF both
<1> QED
  BY <1>2, <1>3, <1>4, <1>5, <1>6 DEF a, b, two

LEMMA JoinsKeep ==
    ASSUME ScInv, NEW m \in Members, sc_chan' = S!Joining(sc_chan, m, S!Remaining), S!Promote, sc_subs' = sc_subs \cup {m},
           UNCHANGED <<sc_now, sc_sent, sc_timer, sc_shown, sc_held>>
    PROVE  ScInv'
<1>1. ScTypeOK /\ TimerOK /\ \A j \in sc_subs : MemberOK(j) /\ j \in Members
  BY DEF ScInv, ScTypeOK
<1>2. TimerOK' /\ Quiet
  BY <1>1, PromoteKeeps
<1> DEFINE a == S!Msg(S!Current, sc_now)
           b == S!Msg(sc_pend.st, sc_pend.at)
           two == S!Remaining.at # S!Never /\ sc_sent /\ m \notin Legacy
<1>3. /\ sc_chan' \in [Members -> Seq(Items)] /\ a \in Items /\ (two => b \in Items)
      /\ \A j \in Members \ {m} : sc_chan'[j] = sc_chan[j]
      /\ two => sc_chan'[m] = Append(Append(sc_chan[m], a), b)
      /\ ~two => sc_chan'[m] = Append(sc_chan[m], a)
  BY <1>1, JoiningIs
<1>4. /\ S!Current' = S!Current /\ sc_pend' = S!Remaining /\ sc_now \in Nat /\ sc_now \in 0..StateNow /\ S!Current \in SomeState
      /\ S!Remaining.at = S!Never \/ (S!Remaining = sc_pend /\ sc_pend.at > sc_now /\ sc_pend.at \in 0..StateNow)
      /\ StateOf(sc_pend) = sc_pend /\ sc_pend.st \in SomeState
  BY <1>1, PromoteIs, CurrentIs, ScheduledAssumption DEF ScTypeOK
<1>5. ScTypeOK'
  <2>1. /\ sc_cur' \in SomeState /\ sc_pend' \in [st : SomeState, at : Times] /\ (sc_pend'.at = S!Never \/ sc_pend'.at <= StateNow)
    BY <1>1, PromoteIs
  <2> QED
    BY <1>1, <1>3, <2>1 DEF ScTypeOK
<1>6. MemberOK(m)'
  <2>1. a.kind = "state" /\ a.st = S!Current' /\ a.at = sc_now
    BY <1>4, MsgIs
  <2>2. CASE two
    <3>1. S!Remaining = sc_pend /\ sc_pend' = sc_pend /\ sc_pend.at > sc_now /\ sc_pend.at \in 0..StateNow /\ sc_pend.at # S!Never
      BY <1>4, <2>2
    <3>2. b.kind = "state" /\ StateOf(b) = sc_pend
      BY <1>4, <3>1, MsgIs DEF StateOf
    <3>3. sc_sent' /\ m \notin Legacy
      BY <2>2
    <3> HIDE DEF a, b, two
    <3> QED
      BY <1>1, <1>3, <1>4, <2>1, <2>2, <3>1, <3>2, <3>3, JoinedOK
  <2>3. CASE ~two
    <3>1. m \in Legacy \/ ~sc_sent' \/ sc_pend'.at = S!Never
      BY <1>4, <2>3
    <3> HIDE DEF a, b, two
    <3> QED
      BY <1>1, <1>3, <1>4, <2>1, <2>3, <3>1, PresentOK
  <2> QED
    BY <2>2, <2>3
<1>7. \A j \in sc_subs \ {m} : MemberOK(j)'
  BY <1>1, <1>2, <1>3, StaysOK DEF SameFor, ToBeTold
<1> QED
  BY <1>2, <1>5, <1>6, <1>7 DEF ScInv

LEMMA JoinKeeps ==
    ASSUME ScInv, NEW m \in Members, S!Join(m) \/ S!Restate(m)
    PROVE  ScInv'
<1>1. sc_chan' = S!Joining(sc_chan, m, S!Remaining) /\ S!Promote /\ UNCHANGED <<sc_now, sc_sent, sc_timer, sc_shown, sc_held>>
  BY DEF S!Join, S!Restate, S!clients
<1>2. sc_subs' = sc_subs \cup {m}
  BY DEF S!Join, S!Restate
<1> QED
  BY <1>1, <1>2, JoinsKeep

LEMMA LeaveKeeps ==
    ASSUME ScInv, NEW m \in Members, S!Leave(m)
    PROVE  ScInv'
<1>1. ScTypeOK /\ TimerOK /\ \A j \in sc_subs : MemberOK(j) /\ j \in Members
  BY DEF ScInv, ScTypeOK
<1>2. sc_subs' = sc_subs \ {m} /\ sc_chan' = S!To(sc_chan, {m}, S!Drop) /\ UNCHANGED <<sc_now, sc_cur, sc_pend, sc_sent, sc_timer, sc_replaced, sc_shown, sc_held>>
  BY DEF S!Leave, S!served, S!clients
<1>3. /\ sc_chan' \in [Members -> Seq(Items)]
      /\ \A j \in Members : sc_chan'[j] = IF j \in {m} THEN Append(sc_chan[j], S!Drop) ELSE sc_chan[j]
  <2>1. sc_chan \in [Members -> Seq(Items)] /\ S!Drop \in Items
    BY <1>1, Constants DEF ScTypeOK
  <2> QED
    BY <1>2, <2>1, ToIs
<1>4. ScTypeOK'
  BY <1>1, <1>2, <1>3 DEF ScTypeOK
<1>5. Quiet
  BY <1>2 DEF Quiet, S!Current, S!Due
<1>6. TimerOK'
  BY <1>1, <1>2 DEF TimerOK, S!Due
<1>7. \A j \in sc_subs' : MemberOK(j)'
  <2>1. \A j \in sc_subs' : SameFor(j) /\ j \in sc_subs
    BY <1>1, <1>2, <1>3 DEF SameFor
  <2> QED
    BY <1>1, <1>2, <1>5, <2>1, StaysOK DEF ToBeTold
<1> QED
  BY <1>4, <1>6, <1>7 DEF ScInv

LEMMA DisconnectKeeps ==
    ASSUME ScInv, NEW m \in Members, S!Disconnect(m)
    PROVE  ScInv'
<1>1. ScTypeOK /\ TimerOK /\ \A j \in sc_subs : MemberOK(j) /\ j \in Members
  BY DEF ScInv, ScTypeOK
<1>2. /\ sc_subs' = sc_subs \ {m} /\ sc_chan' = [sc_chan EXCEPT ![m] = <<>>] /\ sc_shown' = [sc_shown EXCEPT ![m] = S!Nothing]
      /\ sc_held' = [sc_held EXCEPT ![m] = S!NoPend] /\ UNCHANGED <<sc_now, sc_cur, sc_pend, sc_sent, sc_timer, sc_replaced>>
  BY DEF S!Disconnect, S!served
<1>3. ScTypeOK'
  <2>1. sc_chan' \in [Members -> Seq(Items)] /\ sc_shown' \in [Members -> [st : SomeState, at : Times, early : BOOLEAN]]
    BY <1>1, <1>2, Constants DEF ScTypeOK
  <2>2. sc_held' \in [Members -> [st : SomeState, at : Times]]
    BY <1>1, <1>2, Constants DEF ScTypeOK
  <2> QED
    BY <1>1, <1>2, <2>1, <2>2 DEF ScTypeOK
<1>5. Quiet
  BY <1>2 DEF Quiet, S!Current, S!Due
<1>6. TimerOK'
  BY <1>1, <1>2 DEF TimerOK, S!Due
<1>7. \A j \in sc_subs' : MemberOK(j)'
  <2>1. \A j \in sc_subs' : SameFor(j) /\ j \in sc_subs
    BY <1>1, <1>2 DEF SameFor, ScTypeOK
  <2> QED
    BY <1>1, <1>2, <1>5, <2>1, StaysOK DEF ToBeTold
<1> QED
  BY <1>3, <1>6, <1>7 DEF ScInv

LEMMA SetNowKeeps ==
    ASSUME ScInv, NEW st \in SomeState, NEW force, S!SetNow(st, force)
    PROVE  ScInv'
<1>1. UNCHANGED <<sc_now, sc_subs, sc_shown, sc_held>>
  BY DEF S!SetNow, S!clients
<1>2. CASE S!Promote /\ UNCHANGED <<sc_sent, sc_timer, sc_chan>>
  BY <1>1, <1>2, ReadsKeep
<1>3. CASE S!Apply(st)
  BY <1>1, <1>3, ApplyKeeps
<1> QED
  BY <1>2, <1>3 DEF S!SetNow

\* The timer is dropped with a state nobody was told of.
LEMMA UntoldKeeps ==
    ASSUME ScInv, S!Remaining.at # S!Never, ~sc_sent, sc_cur' = S!Current, sc_pend' = S!NoPend, sc_timer' = S!NoTimer, sc_replaced' = {},
           UNCHANGED <<sc_now, sc_subs, sc_shown, sc_held, sc_sent, sc_chan>>
    PROVE  ScInv'
<1>1. ScTypeOK /\ TimerOK /\ \A j \in sc_subs : MemberOK(j) /\ j \in Members
  BY DEF ScInv, ScTypeOK
<1>2. /\ ~S!Due /\ S!Current \in SomeState /\ S!NoPend \in [st : SomeState, at : Times] /\ S!NoPend.at = S!Never
      /\ sc_now \in Nat /\ sc_now < S!Never /\ S!Never \in Nat
  BY <1>1, CurrentIs, Constants
<1>3. ~S!Due' /\ S!Current' = S!Current
  <2>1. ~S!Due'
    BY <1>2 DEF S!Due
  <2> QED
    BY <2>1 DEF S!Current
<1>4. ScTypeOK'
  <2>1. sc_timer' \in [kind : {"none", "send", "due"}, at : Int, st : SomeState]
    BY Constants DEF S!NoTimer
  <2> QED
    BY <1>1, <1>2, <2>1 DEF ScTypeOK
<1>5. TimerOK'
  BY <1>2, Constants DEF TimerOK
<1>6. ASSUME NEW m \in sc_subs PROVE MemberOK(m)'
  <2>1. \A x : ~IsAhead(x)
    BY DEF IsAhead
  <2>2. IsSettled(m)
    BY <1>1, <1>6 DEF MemberOK, ToBeTold, TimerOK
  <2>3. \A i : AllAhead(m, i) => AllAhead(m, i)'
    BY <2>1 DEF AllAhead
  <2>4. (\E i \in 1..Len(sc_chan[m]) : ToldNow(m, i)) => (\E i \in 1..Len(sc_chan'[m]) : ToldNow(m, i)')
    BY <1>3, <2>3 DEF ToldNow
  <2>5. ShownRight(m) => ShownRight(m)'
    BY <1>3, <2>1, <2>3 DEF ShownRight
  <2>6. HeldRight(m) => HeldRight(m)'
    BY <1>3, <2>3 DEF HeldRight
  <2>7. IsSettled(m)'
    BY <2>2, <2>4, <2>5, <2>6 DEF IsSettled
  <2>8. NewestOK(m)'
    BY <1>1, <1>6 DEF MemberOK, NewestOK, Newest
  <2>9. ToldAhead(m)'
    BY <1>2 DEF ToldAhead
  <2> QED
    BY <2>7, <2>8, <2>9 DEF MemberOK
<1> QED
  BY <1>4, <1>5, <1>6 DEF ScInv

LEMMA CancelScheduledKeeps ==
    ASSUME ScInv, S!CancelScheduled, UNCHANGED <<sc_now, sc_subs, sc_shown, sc_held>>
    PROVE  ScInv'
<1>1. sc_sent \in BOOLEAN /\ S!Current \in SomeState
  BY CurrentIs DEF ScInv, ScTypeOK
<1>2. CASE S!Remaining.at = S!Never
  <2>1. S!Promote /\ UNCHANGED <<sc_sent, sc_timer, sc_chan>>
    BY <1>2 DEF S!CancelScheduled
  <2> QED
    BY <2>1, ReadsKeep
<1>3. CASE S!Remaining.at # S!Never /\ sc_sent
  <2>1. S!Apply(S!Current)
    BY <1>3 DEF S!CancelScheduled
  <2> QED
    BY <1>1, <2>1, ApplyKeeps
<1>4. CASE S!Remaining.at # S!Never /\ ~sc_sent
  <2>1. sc_cur' = S!Current /\ sc_pend' = S!NoPend /\ sc_timer' = S!NoTimer /\ sc_replaced' = {} /\ UNCHANGED <<sc_sent, sc_chan>>
    BY <1>4 DEF S!CancelScheduled
  <2> QED
    BY <1>4, <2>1, UntoldKeeps
<1> QED
  BY <1>1, <1>2, <1>3, <1>4

LEMMA FrozenIs ==
    ASSUME ScTypeOK, S!Current.moving
    PROVE  [S!Current EXCEPT !.moving = FALSE] \in SomeState
<1>1. S!Current \in SomeState
  BY CurrentIs
<1>2. S!Current \in S!States
  BY <1>1 DEF SomeState, S!Blank
<1> QED
  BY <1>2 DEF SomeState, S!States

LEMMA ResetKeeps ==
    ASSUME ScInv, S!ResetProgress
    PROVE  ScInv'
<1>1. UNCHANGED <<sc_now, sc_subs, sc_shown, sc_held>>
  BY DEF S!ResetProgress, S!clients
<1>2. CASE S!Current.moving
  <2>1. S!Apply([S!Current EXCEPT !.moving = FALSE])
    BY <1>2 DEF S!ResetProgress
  <2>2. [S!Current EXCEPT !.moving = FALSE] \in SomeState
    BY <1>2, FrozenIs DEF ScInv
  <2> QED
    BY <1>1, <2>1, <2>2, ApplyKeeps
<1>3. CASE ~S!Current.moving
  BY <1>1, <1>3, CancelScheduledKeeps DEF S!ResetProgress
<1> QED
  BY <1>2, <1>3

LEMMA FreezeKeeps ==
    ASSUME ScInv, S!FreezeProgress
    PROVE  ScInv'
<1>1. [S!Current EXCEPT !.moving = FALSE] \in SomeState
  BY FrozenIs DEF ScInv, S!FreezeProgress
<1>2. S!SetNow([S!Current EXCEPT !.moving = FALSE], FALSE)
  BY DEF S!FreezeProgress
<1> QED
  BY <1>1, <1>2, SetNowKeeps

LEMMA TimerDueKeeps ==
    ASSUME ScInv, S!TimerDue
    PROVE  ScInv'
<1>1. ScTypeOK /\ TimerOK /\ \A j \in sc_subs : MemberOK(j) /\ j \in Members
  BY DEF ScInv, ScTypeOK
<1>2. /\ sc_timer.kind = "due" /\ sc_timer.at <= sc_now /\ sc_timer' = S!NoTimer
      /\ sc_chan' = S!To(sc_chan, sc_subs \cap Legacy, S!Msg(sc_timer.st, sc_timer.at))
      /\ UNCHANGED <<sc_now, sc_cur, sc_pend, sc_sent, sc_replaced, sc_subs, sc_shown, sc_held>>
  BY DEF S!TimerDue, S!clients
<1>3. /\ sc_now \in Nat /\ sc_pend.at \in Nat /\ sc_now < S!Never /\ S!Never \in Nat
      /\ S!Due => sc_pend.at # S!Never /\ S!Current = sc_pend.st
      /\ ~S!Due => S!Current = sc_cur
  BY <1>1, CurrentIs, Constants
<1>4. sc_timer.st = S!Current
  BY <1>1, <1>2, <1>3 DEF TimerOK, S!Due
<1>5. sc_sent /\ (sc_pend.at # S!Never => S!Due)
  BY <1>1, <1>2, <1>3 DEF TimerOK, S!Due
<1>6. S!Due' <=> S!Due
  BY <1>2 DEF S!Due
<1>7. S!Current' = S!Current
  BY <1>2, <1>6 DEF S!Current
<1>8. sc_timer.at \in 0..StateNow
  <2>1. sc_timer.at \in Int /\ sc_now <= StateNow
    BY <1>1, ScheduledAssumption DEF ScTypeOK
  <2>2. CASE sc_pend.at # S!Never
    BY <1>1, <1>2, <1>3, <2>1, <2>2, ScheduledAssumption DEF TimerOK
  <2>3. CASE sc_pend.at = S!Never
    BY <1>1, <1>2, <1>3, <2>1, <2>3, ScheduledAssumption DEF TimerOK
  <2> QED
    BY <2>2, <2>3
<1> DEFINE msg == S!Msg(sc_timer.st, sc_timer.at)
<1>9. msg \in Items /\ msg.kind = "state" /\ msg.st = S!Current /\ msg.at <= sc_now
  <2>1. sc_timer.st \in SomeState
    BY <1>1 DEF ScTypeOK
  <2> QED
    BY <1>2, <1>4, <1>8, <2>1, MsgIs
<1> HIDE DEF msg
<1>10. /\ sc_chan' \in [Members -> Seq(Items)]
       /\ \A m \in Members : sc_chan'[m] = IF m \in sc_subs \cap Legacy THEN Append(sc_chan[m], msg) ELSE sc_chan[m]
  <2>1. sc_chan \in [Members -> Seq(Items)]
    BY <1>1 DEF ScTypeOK
  <2> QED
    BY <1>2, <1>9, <2>1, ToIs DEF msg
<1>11. ScTypeOK'
  <2>1. sc_timer' \in [kind : {"none", "send", "due"}, at : Int, st : SomeState]
    BY <1>2, Constants DEF S!NoTimer
  <2> QED
    BY <1>1, <1>2, <1>10, <2>1 DEF ScTypeOK
<1>12. TimerOK'
  BY <1>2, <1>5, <1>6, Constants DEF TimerOK
<1>13. ASSUME NEW m \in sc_subs PROVE MemberOK(m)'
  <2>1. CASE m \in Legacy
    BY <1>1, <1>2, <1>7, <1>9, <1>10, <2>1, PresentOK
  <2>2. CASE m \notin Legacy
    <3>1. SameFor(m) /\ Quiet
      BY <1>1, <1>2, <1>7, <1>10, <2>2 DEF SameFor, Quiet
    <3> QED
      BY <1>1, <2>2, <3>1, StaysOK DEF ToBeTold
  <2> QED
    BY <2>1, <2>2
<1> QED
  BY <1>2, <1>11, <1>12, <1>13 DEF ScInv

\* A member that is told nothing while more is ahead than before.
LEMMA KeepsSettled ==
    ASSUME NEW m \in Members, IsSettled(m), SameFor(m), sc_now' = sc_now, S!Current' = S!Current,
           \A x : IsAhead(x) => IsAhead(x)'
    PROVE  IsSettled(m)'
<1>1. sc_chan'[m] = sc_chan[m] /\ sc_held'[m] = sc_held[m] /\ sc_shown'[m] = sc_shown[m]
  BY DEF SameFor
<1>2. ASSUME NEW y, IsAhead(y) PROVE IsAhead(y)'
  BY <1>2
<1>3. ASSUME NEW i, AllAhead(m, i) PROVE AllAhead(m, i)'
  <2> SUFFICES ASSUME NEW j \in (i + 1)..Len(sc_chan[m])
        PROVE  sc_chan[m][j].kind = "state" /\ IsAhead(StateOf(sc_chan[m][j]))'
    BY <1>1 DEF AllAhead
  <2> SUFFICES ASSUME NEW x, x = StateOf(sc_chan[m][j])
        PROVE  sc_chan[m][j].kind = "state" /\ IsAhead(StateOf(sc_chan[m][j]))'
    OBVIOUS
  <2>1. sc_chan[m][j].kind = "state" /\ IsAhead(x)
    BY <1>3 DEF AllAhead
  <2>2. IsAhead(x)' /\ StateOf(sc_chan[m][j])' = x
    BY <1>1, <2>1 DEF StateOf
  <2> QED
    BY <2>1, <2>2 DEF IsAhead
<1>4. ASSUME NEW i \in 1..Len(sc_chan[m]), ToldNow(m, i) PROVE IsSettled(m)'
  <2>1. ToldNow(m, i)'
    BY <1>1, <1>3, <1>4 DEF ToldNow
  <2> QED
    BY <1>1, <2>1 DEF IsSettled
<1>5. CASE ShownRight(m)
  <2>1. AllAhead(m, 0)'
    BY <1>3, <1>5 DEF ShownRight
  <2>2. IsAhead(StateOf(sc_shown[m])) => IsAhead(StateOf(sc_shown[m]))'
    <3> SUFFICES ASSUME NEW x, x = StateOf(sc_shown[m]), IsAhead(x)
          PROVE  IsAhead(StateOf(sc_shown[m]))'
      OBVIOUS
    <3>1. IsAhead(x)' /\ StateOf(sc_shown[m])' = x
      BY <1>1 DEF StateOf
    <3> QED
      BY <3>1 DEF IsAhead
  <2>3. sc_held[m].at # S!Never => IsAhead(sc_held[m])'
    <3> SUFFICES ASSUME NEW x, x = sc_held[m], sc_held[m].at # S!Never
          PROVE  IsAhead(sc_held[m])'
      OBVIOUS
    <3>1. IsAhead(x)'
      BY <1>5 DEF ShownRight
    <3> QED
      BY <1>1, <3>1 DEF IsAhead
  <2>4. ShownRight(m)'
    BY <1>1, <1>5, <2>1, <2>2, <2>3 DEF ShownRight
  <2> QED
    BY <2>4 DEF IsSettled
<1>6. CASE HeldRight(m)
  <2>1. HeldRight(m)'
    BY <1>1, <1>3, <1>6 DEF HeldRight
  <2> QED
    BY <2>1 DEF IsSettled
<1> QED
  BY <1>4, <1>5, <1>6 DEF IsSettled

\* Whoever is ahead of nothing has nothing ahead as the last it was told.
LEMMA NothingAhead ==
    ASSUME ScTypeOK, NEW m \in Members, MemberOK(m), SameFor(m), sc_now' = sc_now,
           m \in Legacy \/ ~(sc_sent /\ S!Remaining.at # S!Never)
    PROVE  NewestOK(m)'
<1>1. sc_chan'[m] = sc_chan[m] /\ sc_held'[m] = sc_held[m]
  BY DEF SameFor
<1>3. sc_now \in Nat /\ sc_pend.at \in Nat
  BY CurrentIs
<1>4. ASSUME NEW x, x.at \in Nat, x.at # S!Never, Newest(m, x) PROVE ~(x.at > sc_now)
  <2> SUFFICES ASSUME x.at > sc_now PROVE FALSE
    OBVIOUS
  <2>1. m \notin Legacy /\ sc_sent /\ [st |-> x.st, at |-> x.at] = sc_pend
    BY <1>4 DEF Newest, StateOf
  <2>2. x.at = sc_pend.at
    BY <2>1
  <2>3. S!Remaining.at = S!Never
    BY <2>1
  <2>4. S!Remaining.at = S!Never <=> S!Due \/ sc_pend.at = S!Never
    BY CurrentIs
  <2> QED
    BY <1>3, <1>4, <2>2, <2>3, <2>4 DEF S!Due
<1>5. CASE sc_chan[m] # <<>>
  <2> DEFINE x == sc_chan[m][Len(sc_chan[m])]
  <2>1. x.at \in Nat /\ x.at < S!Never /\ S!Never \in Nat
    BY <1>5, MemberIs, Constants
  <2>2. Newest(m, x)
    BY <1>5 DEF MemberOK, NewestOK
  <2> HIDE DEF x
  <2>3. x.at # S!Never
    BY <2>1
  <2>4. ~(x.at > sc_now)
    BY <1>4, <2>1, <2>2, <2>3
  <2> QED
    BY <1>1, <1>5, <2>4 DEF NewestOK, Newest, x
<1>6. CASE sc_chan[m] = <<>>
  <2>1. sc_held[m].at \in Nat
    BY MemberIs
  <2>2. sc_held[m].at # S!Never => ~(sc_held[m].at > sc_now)
    BY <1>4, <1>6, <2>1 DEF MemberOK, NewestOK
  <2> QED
    BY <1>1, <1>6, <2>2 DEF NewestOK, Newest
<1> QED
  BY <1>5, <1>6

LEMMA TimerSendsKeeps ==
    ASSUME ScInv, S!TimerSends
    PROVE  ScInv'
<1>1. ScTypeOK /\ TimerOK /\ \A j \in sc_subs : MemberOK(j) /\ j \in Members
  BY DEF ScInv, ScTypeOK
<1>2. /\ sc_timer.kind = "send" /\ UNCHANGED <<sc_now, sc_cur, sc_pend, sc_replaced, sc_subs, sc_shown, sc_held>>
      /\ ~sc_sent /\ sc_pend.at # S!Never /\ sc_timer.at = sc_pend.at - StateLead /\ sc_now <= sc_timer.at + Slack
  BY <1>1 DEF S!TimerSends, TimerOK, S!clients
<1>3. /\ sc_sent' = TRUE /\ sc_timer' = [kind |-> "due", at |-> sc_pend.at, st |-> sc_pend.st]
      /\ sc_chan' = S!To(sc_chan, sc_subs \ Legacy, S!Msg(sc_pend.st, sc_pend.at))
  BY <1>2 DEF S!TimerSends, S!SendScheduled
<1>4. sc_now \in Nat /\ sc_pend.at \in Nat /\ sc_pend.st \in SomeState /\ StateOf(sc_pend) = sc_pend
  BY <1>1, CurrentIs
<1>5. sc_pend.at > sc_now /\ sc_pend.at \in 0..StateNow
  <2>1. sc_timer.at \in Int /\ sc_pend.at <= StateNow
    BY <1>1, <1>2 DEF ScTypeOK
  <2> QED
    BY <1>2, <1>4, <2>1, ScheduledAssumption
<1>6. ~S!Due /\ ~S!Due'
  BY <1>2, <1>4, <1>5 DEF S!Due
<1>7. S!Current' = S!Current
  BY <1>2, <1>6 DEF S!Current
<1> DEFINE msg == S!Msg(sc_pend.st, sc_pend.at)
<1>8. msg \in Items /\ msg.kind = "state" /\ StateOf(msg) = sc_pend
  BY <1>4, <1>5, MsgIs DEF StateOf
<1> HIDE DEF msg
<1>9. /\ sc_chan' \in [Members -> Seq(Items)]
      /\ \A m \in Members : sc_chan'[m] = IF m \in sc_subs \ Legacy THEN Append(sc_chan[m], msg) ELSE sc_chan[m]
  <2>1. sc_chan \in [Members -> Seq(Items)]
    BY <1>1 DEF ScTypeOK
  <2> QED
    BY <1>3, <1>8, <2>1, ToIs DEF msg
<1>10. ScTypeOK'
  <2>1. sc_timer' \in [kind : {"none", "send", "due"}, at : Int, st : SomeState]
    BY <1>3, <1>4
  <2> QED
    BY <1>1, <1>2, <1>3, <1>9, <2>1 DEF ScTypeOK
<1>11. TimerOK'
  BY <1>2, <1>3, <1>4 DEF TimerOK
<1>12. \A x : ~IsAhead(x)
  BY <1>2 DEF IsAhead
<1>13. ASSUME NEW m \in sc_subs PROVE MemberOK(m)'
  <2>1. CASE m \notin Legacy
    <3>1. sc_chan'[m] = Append(sc_chan[m], msg) /\ sc_held'[m] = sc_held[m] /\ sc_shown'[m] = sc_shown[m]
      BY <1>1, <1>2, <1>9, <2>1
    <3>2. sc_sent' /\ sc_pend' = sc_pend /\ sc_now' = sc_now /\ m \in Members /\ MemberOK(m) /\ sc_pend'.at > sc_now /\ sc_pend'.at # S!Never
      BY <1>1, <1>2, <1>3, <1>5
    <3> QED
      BY <1>1, <1>7, <1>8, <1>12, <2>1, <3>1, <3>2, AheadOK
  <2>2. CASE m \in Legacy
    <3>1. SameFor(m) /\ m \in Members
      BY <1>1, <1>2, <1>9, <2>2 DEF SameFor
    <3>2. IsSettled(m)
      BY <1>1, <1>2 DEF MemberOK, ToBeTold
    <3>3. IsSettled(m)'
      BY <1>2, <1>7, <1>12, <3>1, <3>2, KeepsSettled
    <3>4. NewestOK(m)'
      BY <1>1, <1>2, <2>2, <3>1, NothingAhead
    <3>5. ToldAhead(m)'
      BY <2>2 DEF ToldAhead
    <3> QED
      BY <3>3, <3>4, <3>5 DEF MemberOK
  <2> QED
    BY <2>1, <2>2
<1> QED
  BY <1>2, <1>10, <1>11, <1>13 DEF ScInv

LEMMA ScheduleKeeps ==
    ASSUME ScInv, NEW st \in S!States, NEW at \in 1..StateNow, S!Schedule(st, at)
    PROVE  ScInv'
<1>1. ScTypeOK /\ TimerOK /\ \A j \in sc_subs : MemberOK(j) /\ j \in Members
  BY DEF ScInv, ScTypeOK
<1> DEFINE msg == S!Msg(S!Current, sc_now)
           new == S!Msg(st, at)
           flushed == IF S!Overtaken THEN S!To(sc_chan, sc_subs \cap Legacy, msg) ELSE sc_chan
<1>2. /\ at > sc_now /\ sc_cur' = S!Current /\ sc_pend' = [st |-> st, at |-> at]
      /\ sc_replaced' = (IF S!ReplacedSent THEN sc_replaced \cup {S!Remaining} ELSE IF S!Due THEN {} ELSE sc_replaced)
      /\ UNCHANGED <<sc_now, sc_subs, sc_shown, sc_held>>
  BY DEF S!Schedule, S!clients
<1>3. /\ sc_now \in Nat /\ sc_now \in 0..StateNow /\ sc_pend.at \in Nat /\ sc_pend.st \in SomeState /\ StateOf(sc_pend) = sc_pend
      /\ S!Current \in SomeState /\ sc_now < S!Never /\ S!Never \in Nat /\ sc_sent \in BOOLEAN
      /\ S!Remaining.at = S!Never \/ (S!Remaining = sc_pend /\ sc_pend.at > sc_now /\ sc_pend.at <= StateNow)
  BY <1>1, CurrentIs, Constants DEF ScTypeOK
<1>4. S!Remaining.at = S!Never <=> S!Due \/ sc_pend.at = S!Never
  BY <1>1, CurrentIs
<1>5. st \in SomeState /\ at \in Nat /\ at \in 0..StateNow /\ at \in Times /\ at < S!Never /\ at # S!Never
  BY Constants, ScheduledAssumption DEF SomeState, Times
<1>6. sc_pend'.at = at /\ sc_pend'.st = st /\ ~S!Due'
  BY <1>2, <1>3, <1>5 DEF S!Due
<1>7. S!Current' = S!Current
  BY <1>2, <1>6 DEF S!Current
<1>8. msg \in Items /\ msg.kind = "state" /\ msg.st = S!Current /\ msg.at = sc_now
  BY <1>3, MsgIs
<1>9. new \in Items /\ new.kind = "state" /\ StateOf(new) = sc_pend'
  BY <1>2, <1>5, MsgIs DEF StateOf
<1>10. sc_chan \in [Members -> Seq(Items)]
  BY <1>1 DEF ScTypeOK
<1>11. IF at - StateLead <= sc_now
       THEN /\ sc_sent' = TRUE /\ sc_timer' = [kind |-> "due", at |-> at, st |-> st]
            /\ sc_chan' = S!To(flushed, sc_subs \ Legacy, new)
       ELSE /\ sc_sent' = FALSE /\ sc_timer' = [kind |-> "send", at |-> at - StateLead, st |-> st]
            /\ sc_chan' = IF S!ReplacedSent THEN S!To(flushed, sc_subs, msg) ELSE flushed
  BY DEF S!Schedule, S!SendScheduled
<1> HIDE DEF msg, new
<1>12. /\ flushed \in [Members -> Seq(Items)]
       /\ S!Overtaken => \A m \in Members : flushed[m] = IF m \in sc_subs \cap Legacy THEN Append(sc_chan[m], msg) ELSE sc_chan[m]
       /\ ~S!Overtaken => flushed = sc_chan
  BY <1>8, <1>10, ToIs
<1> HIDE DEF flushed
<1>13. ASSUME NEW m \in sc_subs, ~(S!Overtaken /\ m \in Legacy) PROVE IsSettled(m)
  <2>1. ASSUME ToBeTold(m) PROVE FALSE
    <3>1. sc_timer.kind = "due" /\ sc_timer.at <= sc_now /\ m \in Legacy
      BY <2>1 DEF ToBeTold
    <3>2. sc_sent /\ (sc_pend.at # S!Never => S!Due)
      BY <1>1, <3>1 DEF TimerOK, S!Due
    <3> QED
      BY <1>4, <1>13, <3>1, <3>2 DEF S!Overtaken
  <2> QED
    BY <1>1, <2>1 DEF MemberOK
<1>14. CASE at - StateLead <= sc_now
  <2>1. /\ sc_sent' = TRUE /\ sc_timer' = [kind |-> "due", at |-> at, st |-> st]
        /\ sc_chan' = S!To(flushed, sc_subs \ Legacy, new)
    BY <1>11, <1>14
  <2>2. /\ sc_chan' \in [Members -> Seq(Items)]
        /\ \A m \in Members : sc_chan'[m] = IF m \in sc_subs \ Legacy THEN Append(flushed[m], new) ELSE flushed[m]
    BY <1>9, <1>12, <2>1, ToIs
  <2>3. ASSUME NEW x, IsAhead(x) PROVE IsAhead(x)'
    <3>1. sc_sent /\ sc_pend.at > sc_now /\ sc_pend.at # S!Never /\ (x = sc_pend \/ x \in sc_replaced)
      BY <2>3 DEF IsAhead
    <3>2. ~S!Due
      BY <1>3, <3>1 DEF S!Due
    <3>3. S!Remaining.at # S!Never /\ S!Remaining = sc_pend
      BY <1>3, <1>4, <3>1, <3>2
    <3>4. x \in sc_replaced'
      BY <1>2, <3>1, <3>3 DEF S!ReplacedSent
    <3> QED
      BY <1>2, <1>5, <1>6, <2>1, <3>4 DEF IsAhead
  <2>4. ScTypeOK'
    <3>1. sc_timer' \in [kind : {"none", "send", "due"}, at : Int, st : SomeState]
      BY <1>5, <2>1
    <3>2. sc_pend' \in [st : SomeState, at : Times] /\ sc_pend'.at <= StateNow
      BY <1>2, <1>5, <1>6
    <3> QED
      BY <1>1, <1>2, <1>3, <2>1, <2>2, <3>1, <3>2 DEF ScTypeOK
  <2>5. TimerOK'
    BY <1>5, <1>6, <2>1 DEF TimerOK
  <2>6. ASSUME NEW m \in sc_subs PROVE MemberOK(m)'
    <3>1. m \in Members /\ MemberOK(m)
      BY <1>1
    <3>2. CASE m \notin Legacy
      <4>1. sc_chan'[m] = Append(sc_chan[m], new) /\ sc_held'[m] = sc_held[m] /\ sc_shown'[m] = sc_shown[m]
        BY <1>2, <1>12, <2>2, <3>1, <3>2
      <4>2. sc_sent' /\ sc_now' = sc_now /\ sc_pend'.at > sc_now /\ sc_pend'.at # S!Never
        BY <1>2, <1>5, <1>6, <2>1
      <4>3. \A x : IsAhead(x) => IsAhead(x)'
        BY <2>3
      <4> QED
        BY <1>1, <1>7, <1>9, <3>1, <3>2, <4>1, <4>2, <4>3, AheadOK
    <3>3. CASE m \in Legacy /\ S!Overtaken
      <4>1. sc_chan'[m] = Append(sc_chan[m], msg)
        BY <1>12, <2>2, <3>1, <3>3
      <4> QED
        BY <1>1, <1>2, <1>3, <1>7, <1>8, <3>1, <3>3, <4>1, PresentOK
    <3>4. CASE m \in Legacy /\ ~S!Overtaken
      <4>1. SameFor(m)
        BY <1>2, <1>12, <2>2, <3>1, <3>4 DEF SameFor
      <4>2. \A x : IsAhead(x) => IsAhead(x)'
        BY <2>3
      <4>3. IsSettled(m)'
        BY <1>2, <1>7, <1>13, <3>1, <3>4, <4>1, <4>2, KeepsSettled
      <4>4. NewestOK(m)'
        BY <1>1, <1>2, <3>1, <3>4, <4>1, NothingAhead
      <4>5. ToldAhead(m)'
        BY <3>4 DEF ToldAhead
      <4> QED
        BY <4>3, <4>4, <4>5 DEF MemberOK
    <3> QED
      BY <3>2, <3>3, <3>4
  <2> QED
    BY <1>2, <2>4, <2>5, <2>6 DEF ScInv
<1>15. CASE ~(at - StateLead <= sc_now)
  <2>1. /\ sc_sent' = FALSE /\ sc_timer' = [kind |-> "send", at |-> at - StateLead, st |-> st]
        /\ sc_chan' = IF S!ReplacedSent THEN S!To(flushed, sc_subs, msg) ELSE flushed
    BY <1>11, <1>15
  <2>2. /\ sc_chan' \in [Members -> Seq(Items)]
        /\ S!ReplacedSent => \A m \in Members : sc_chan'[m] = IF m \in sc_subs THEN Append(sc_chan[m], msg) ELSE sc_chan[m]
        /\ ~S!ReplacedSent => sc_chan' = flushed
    <3>1. S!ReplacedSent => flushed = sc_chan
      BY <1>12 DEF S!ReplacedSent, S!Overtaken
    <3> QED
      BY <1>8, <1>12, <2>1, <3>1, ToIs
  <2>4. ScTypeOK'
    <3>1. sc_timer' \in [kind : {"none", "send", "due"}, at : Int, st : SomeState]
      BY <1>5, <2>1, ScheduledAssumption
    <3>2. sc_pend' \in [st : SomeState, at : Times] /\ sc_pend'.at <= StateNow
      BY <1>2, <1>5, <1>6
    <3> QED
      BY <1>1, <1>2, <1>3, <2>1, <2>2, <3>1, <3>2 DEF ScTypeOK
  <2>5. TimerOK'
    <3>1. sc_now <= at - StateLead + Slack
      BY <1>3, <1>5, <1>15, ScheduledAssumption
    <3> QED
      BY <1>2, <1>5, <1>6, <2>1, <3>1 DEF TimerOK
  <2>6. ASSUME NEW m \in sc_subs PROVE MemberOK(m)'
    <3>1. m \in Members /\ MemberOK(m) /\ ~sc_sent'
      BY <1>1, <2>1
    <3>2. CASE S!ReplacedSent
      <4>1. sc_chan'[m] = Append(sc_chan[m], msg)
        BY <2>2, <3>1, <3>2
      <4> QED
        BY <1>1, <1>2, <1>3, <1>7, <1>8, <3>1, <4>1, PresentOK
    <3>3. CASE ~S!ReplacedSent /\ S!Overtaken /\ m \in Legacy
      <4>1. sc_chan'[m] = Append(sc_chan[m], msg)
        BY <1>12, <2>2, <3>1, <3>3
      <4> QED
        BY <1>1, <1>2, <1>3, <1>7, <1>8, <3>1, <4>1, PresentOK
    <3>4. CASE ~S!ReplacedSent /\ ~(S!Overtaken /\ m \in Legacy)
      <4>1. SameFor(m)
        BY <1>2, <1>12, <2>2, <3>1, <3>4 DEF SameFor
      <4>2. \A x : ~IsAhead(x)
        BY <1>3, <1>4, <3>4 DEF IsAhead, S!ReplacedSent, S!Due
      <4>3. IsSettled(m)'
        BY <1>2, <1>7, <1>13, <3>1, <3>4, <4>1, <4>2, KeepsSettled
      <4>4. NewestOK(m)'
        BY <1>1, <1>2, <3>1, <3>4, <4>1, NothingAhead DEF S!ReplacedSent
      <4>5. ToldAhead(m)'
        BY <3>1 DEF ToldAhead
      <4> QED
        BY <4>3, <4>4, <4>5 DEF MemberOK
    <3> QED
      BY <3>2, <3>3, <3>4
  <2> QED
    BY <1>2, <2>4, <2>5, <2>6 DEF ScInv
<1> QED
  BY <1>14, <1>15

-----------------------------------------------------------------------------
(* The clients' actions, and the clock.                                      *)

LEMMA TailIs ==
    ASSUME NEW s \in Seq(Items), s # <<>>
    PROVE  /\ Tail(s) \in Seq(Items) /\ Len(Tail(s)) = Len(s) - 1 /\ Len(s) \in Nat /\ Len(s) >= 1
           /\ \A i \in 1..(Len(s) - 1) : Tail(s)[i] = s[i + 1]
           /\ Head(s) = s[1] /\ Head(s) \in Items /\ (Len(s) = 1 <=> Tail(s) = <<>>)
<1> HIDE DEF Items
<1>1. Len(s) \in Nat /\ Len(s) >= 1 /\ Tail(s) \in Seq(Items) /\ Len(Tail(s)) = Len(s) - 1
  OBVIOUS
<1>2. \A i \in 1..(Len(s) - 1) : Tail(s)[i] = s[i + 1]
  OBVIOUS
<1>3. Head(s) = s[1] /\ Head(s) \in Items
  BY <1>1
<1>4. Len(s) = 1 <=> Tail(s) = <<>>
  BY <1>1
<1> QED
  BY <1>1, <1>2, <1>3, <1>4

\* The client has read a message.
ReadsState(m, msg) ==
    IF msg.at > sc_now /\ m \in sc_synced
    THEN sc_held'[m] = [st |-> msg.st, at |-> msg.at] /\ sc_shown'[m] = sc_shown[m]
    ELSE sc_held'[m] = S!NoPend /\ sc_shown'[m] = [st |-> msg.st, at |-> msg.at, early |-> msg.at > sc_now]

LEMMA ReadOK ==
    ASSUME ScTypeOK, NEW m \in Members, MemberOK(m), sc_chan[m] # <<>>, sc_chan'[m] = Tail(sc_chan[m]),
           sc_held[m].at > sc_now, Head(sc_chan[m]).kind = "state" => ReadsState(m, Head(sc_chan[m])),
           UNCHANGED <<sc_now, sc_cur, sc_pend, sc_sent, sc_timer, sc_replaced>>
    PROVE  Head(sc_chan[m]).kind = "state" \/ Len(sc_chan[m]) > 1 => MemberOK(m)'
<1> SUFFICES ASSUME NEW msg, msg = Head(sc_chan[m]), NEW n, n = Len(sc_chan[m]), msg.kind = "state" \/ n > 1
      PROVE  MemberOK(m)'
  OBVIOUS
<1>1. /\ sc_chan[m] \in Seq(Items) /\ \A i \in 1..n : sc_chan[m][i].at \in Nat /\ sc_chan[m][i].at < S!Never
      /\ sc_now \in Nat /\ S!Never \in Nat /\ sc_now < S!Never /\ sc_pend.at \in Nat
      /\ sc_held[m].at \in Nat
  BY MemberIs, CurrentIs, Constants
<1>2. /\ Len(sc_chan'[m]) = n - 1 /\ n \in Nat /\ n >= 1 /\ \A i \in 1..(n - 1) : sc_chan'[m][i] = sc_chan[m][i + 1]
      /\ msg = sc_chan[m][1] /\ (n = 1 <=> sc_chan'[m] = <<>>)
  BY <1>1, TailIs
<1>3. msg.at \in Nat /\ msg.at < S!Never
  BY <1>1, <1>2
<1>4. S!Current' = S!Current /\ \A x : IsAhead(x)' <=> IsAhead(x)
  BY DEF S!Current, S!Due, IsAhead
<1>5. ASSUME NEW i \in 0..(n - 1), AllAhead(m, i + 1) PROVE AllAhead(m, i)'
  <2> SUFFICES ASSUME NEW j \in (i + 1)..(n - 1)
        PROVE  sc_chan'[m][j].kind = "state" /\ IsAhead(StateOf(sc_chan[m][j]))'
    BY <1>2 DEF AllAhead
  <2>1. j + 1 \in (i + 2)..n /\ j \in 1..(n - 1) /\ (i + 1) + 1 = i + 2
    BY <1>2
  <2>2. sc_chan[m][j + 1].kind = "state" /\ IsAhead(StateOf(sc_chan[m][j + 1])) /\ sc_chan'[m][j] = sc_chan[m][j + 1]
    BY <1>2, <1>5, <2>1 DEF AllAhead
  <2> SUFFICES ASSUME NEW x, x = StateOf(sc_chan[m][j + 1]), IsAhead(x)'
        PROVE  sc_chan'[m][j].kind = "state" /\ IsAhead(StateOf(sc_chan[m][j]))'
    BY <1>4, <2>2
  <2>3. StateOf(sc_chan[m][j])' = x
    BY <2>2 DEF StateOf
  <2> QED
    BY <2>2, <2>3 DEF IsAhead
<1>6. ASSUME AllAhead(m, 0) PROVE AllAhead(m, 0)' /\ msg.kind = "state" /\ IsAhead([st |-> msg.st, at |-> msg.at])
  <2>1. AllAhead(m, 0 + 1)
    BY <1>2, <1>6 DEF AllAhead
  <2>2. AllAhead(m, 0)'
    BY <1>2, <1>5, <2>1
  <2>3. 1 \in (0 + 1)..n
    BY <1>2
  <2>4. msg.kind = "state" /\ IsAhead(StateOf(msg))
    BY <1>2, <1>6, <2>3 DEF AllAhead
  <2> QED
    BY <2>2, <2>4 DEF StateOf
<1>7. IsSettled(m)' \/ ToBeTold(m)'
  <2>1. ASSUME NEW i \in 1..n, ToldNow(m, i), i > 1 PROVE IsSettled(m)'
    <3>1. i - 1 \in 1..Len(sc_chan'[m]) /\ i - 1 \in 0..(n - 1) /\ (i - 1) + 1 = i /\ i - 1 \in 1..(n - 1)
      BY <1>2, <2>1
    <3>2. AllAhead(m, i - 1)'
      BY <1>5, <2>1, <3>1 DEF ToldNow
    <3>3. ToldNow(m, i - 1)'
      BY <1>2, <1>4, <2>1, <3>1, <3>2 DEF ToldNow
    <3> QED
      BY <3>1, <3>3 DEF IsSettled
  <2>2. ASSUME ToldNow(m, 1) PROVE IsSettled(m)'
    <3>1. msg.kind = "state" /\ msg.st = S!Current /\ msg.at <= sc_now /\ AllAhead(m, 0 + 1)
      BY <1>2, <2>2 DEF ToldNow
    <3>2. AllAhead(m, 0)'
      BY <1>2, <1>5, <3>1
    <3>3. sc_held'[m].at = S!Never /\ sc_shown'[m].st = S!Current
      BY <1>1, <1>3, <3>1, Constants DEF ReadsState
    <3>4. ShownRight(m)'
      BY <1>4, <3>2, <3>3 DEF ShownRight
    <3> QED
      BY <3>4 DEF IsSettled
  <2>3. CASE ShownRight(m)
    <3>1. AllAhead(m, 0)' /\ msg.kind = "state" /\ IsAhead([st |-> msg.st, at |-> msg.at])
      BY <1>6, <2>3 DEF ShownRight
    <3>2. ReadsState(m, msg)
      BY <3>1
    <3>3. CASE msg.at > sc_now /\ m \in sc_synced
      <4>1. sc_held'[m] = [st |-> msg.st, at |-> msg.at] /\ sc_shown'[m] = sc_shown[m]
        BY <3>2, <3>3 DEF ReadsState
      <4>2. IsAhead(sc_held[m])'
        BY <3>1, <4>1 DEF IsAhead
      <4>3. IsAhead(StateOf(sc_shown[m])) => IsAhead(StateOf(sc_shown[m]))'
        BY <4>1 DEF IsAhead, StateOf
      <4>4. ShownRight(m)'
        BY <1>4, <2>3, <3>1, <4>1, <4>2, <4>3 DEF ShownRight
      <4> QED
        BY <4>4 DEF IsSettled
    <3>4. CASE ~(msg.at > sc_now /\ m \in sc_synced)
      <4>1. sc_held'[m].at = S!Never /\ sc_shown'[m] = [st |-> msg.st, at |-> msg.at, early |-> msg.at > sc_now]
        BY <3>2, <3>4, Constants DEF ReadsState
      <4>2. CASE msg.at > sc_now
        <5>1. sc_shown'[m].early
          <6> DEFINE e == msg.at > sc_now
          <6>1. sc_shown'[m] = [st |-> msg.st, at |-> msg.at, early |-> e]
            BY <4>1
          <6> HIDE DEF e
          <6>2. sc_shown'[m].early = e
            BY <6>1
          <6> QED
            BY <4>2, <6>2 DEF e
        <5>2. ShownRight(m)'
          BY <3>1, <4>1, <5>1 DEF ShownRight
        <5> QED
          BY <5>2 DEF IsSettled
      <4>3. CASE ~(msg.at > sc_now)
        <5>1. sc_shown'[m].at = msg.at /\ sc_shown'[m].st = msg.st /\ msg.at <= sc_now
          BY <1>1, <1>3, <4>1, <4>3
        <5>2. IsAhead(StateOf(sc_shown[m]))'
          BY <3>1, <5>1 DEF IsAhead, StateOf
        <5>3. ShownRight(m)'
          BY <3>1, <4>1, <5>1, <5>2 DEF ShownRight
        <5> QED
          BY <5>3 DEF IsSettled
      <4> QED
        BY <4>2, <4>3
    <3> QED
      BY <3>3, <3>4
  <2>4. CASE HeldRight(m)
    BY <1>1, <2>4 DEF HeldRight
  <2>5. ASSUME ToBeTold(m) PROVE ToBeTold(m)'
    BY <2>5 DEF ToBeTold
  <2>6. \A i \in 1..n : i = 1 \/ i > 1
    BY <1>2
  <2> QED
    BY <2>1, <2>2, <2>3, <2>4, <2>5, <2>6 DEF MemberOK, IsSettled
<1>8. CASE n = 1
  <2>1. sc_chan'[m] = <<>> /\ sc_chan[m][Len(sc_chan[m])] = msg /\ msg.kind = "state" /\ ReadsState(m, msg)
    BY <1>2, <1>8
  <2>2. NewestOK(m)'
    <3>1. Newest(m, msg)
      BY <2>1 DEF MemberOK, NewestOK
    <3>2. CASE msg.at > sc_now /\ m \in sc_synced
      <4>1. sc_held'[m] = [st |-> msg.st, at |-> msg.at]
        BY <2>1, <3>2 DEF ReadsState
      <4> QED
        BY <2>1, <3>1, <4>1 DEF NewestOK, Newest, StateOf
    <3>3. CASE ~(msg.at > sc_now /\ m \in sc_synced)
      <4>1. sc_held'[m].at = S!Never
        BY <2>1, <3>3, Constants DEF ReadsState
      <4> QED
        BY <2>1, <4>1 DEF NewestOK
    <3> QED
      BY <3>2, <3>3
  <2>3. ToldAhead(m)'
    <3> SUFFICES ASSUME m \notin Legacy, sc_sent, sc_pend.at # S!Never PROVE LastIs(m, sc_pend)'
      BY DEF ToldAhead
    <3>1. [st |-> msg.st, at |-> msg.at] = sc_pend
      BY <2>1 DEF MemberOK, ToldAhead, LastIs, StateOf
    <3>2. CASE msg.at > sc_now /\ m \in sc_synced
      <4>1. sc_held'[m] = sc_pend
        BY <2>1, <3>1, <3>2 DEF ReadsState
      <4> QED
        BY <2>1, <4>1 DEF LastIs
    <3>3. CASE ~(msg.at > sc_now /\ m \in sc_synced)
      <4>1. sc_held'[m].at = S!Never /\ sc_shown'[m].st = msg.st /\ sc_shown'[m].at = msg.at
        BY <2>1, <3>3, Constants DEF ReadsState
      <4> QED
        BY <2>1, <3>1, <4>1 DEF LastIs, StateOf
    <3> QED
      BY <3>2, <3>3
  <2> QED
    BY <1>7, <2>2, <2>3 DEF MemberOK
<1>9. CASE n # 1
  <2>1. sc_chan'[m] # <<>> /\ sc_chan'[m][Len(sc_chan'[m])] = sc_chan[m][Len(sc_chan[m])]
    <3>1. n - 1 \in 1..(n - 1) /\ (n - 1) + 1 = n
      BY <1>2, <1>9
    <3> QED
      BY <1>2, <1>9, <3>1
  <2>2. NewestOK(m)'
    BY <2>1 DEF MemberOK, NewestOK, Newest, StateOf
  <2>3. ToldAhead(m)'
    BY <2>1 DEF MemberOK, ToldAhead, LastIs, StateOf
  <2> QED
    BY <1>7, <2>2, <2>3 DEF MemberOK
<1> QED
  BY <1>8, <1>9

LEMMA ReceiveKeeps ==
    ASSUME ScInv, NEW m \in Members, S!Receive(m)
    PROVE  ScInv'
<1>1. ScTypeOK /\ TimerOK /\ \A j \in sc_subs : MemberOK(j) /\ j \in Members
  BY DEF ScInv, ScTypeOK
<1> DEFINE msg == Head(sc_chan[m])
<1>2. /\ sc_chan[m] # <<>> /\ sc_held[m].at > sc_now /\ sc_chan' = [sc_chan EXCEPT ![m] = Tail(sc_chan[m])]
      /\ UNCHANGED <<sc_now, sc_cur, sc_pend, sc_sent, sc_timer, sc_replaced, sc_subs>>
  BY <1>1 DEF S!Receive, S!served, ScTypeOK
<1>3. /\ sc_chan \in [Members -> Seq(Items)] /\ sc_held \in [Members -> [st : SomeState, at : Times]]
      /\ sc_shown \in [Members -> [st : SomeState, at : Times, early : BOOLEAN]]
  BY <1>1 DEF ScTypeOK
<1>4. msg \in Items /\ Tail(sc_chan[m]) \in Seq(Items)
  BY <1>2, <1>3, TailIs
<1> HIDE DEF msg
<1>5. msg.kind \in {"state", "drop"} /\ msg.st \in SomeState /\ msg.at \in Times
  <2>1. 0..StateNow \subseteq Times
    BY Constants, ScheduledAssumption DEF Times
  <2> QED
    BY <1>4, <2>1 DEF Items
<1> DEFINE e == msg.at > sc_now
           ahead == msg.at > sc_now /\ m \in sc_synced
           h == IF msg.kind = "drop" \/ ~ahead THEN S!NoPend ELSE [st |-> msg.st, at |-> msg.at]
           s == IF msg.kind = "drop" THEN S!Nothing
                ELSE IF ahead THEN sc_shown[m] ELSE [st |-> msg.st, at |-> msg.at, early |-> e]
<1>6. sc_held' = [sc_held EXCEPT ![m] = h]
  <2>1. CASE msg.kind = "drop"
    BY <2>1 DEF S!Receive, msg
  <2>2. CASE msg.kind = "state"
    BY <2>2 DEF S!Receive, S!HeldAfter, msg
  <2> QED
    BY <1>5, <2>1, <2>2
<1>7. sc_shown' = [sc_shown EXCEPT ![m] = s]
  <2>1. CASE msg.kind = "drop"
    BY <2>1 DEF S!Receive, msg
  <2>2. CASE msg.kind = "state" /\ ahead
    <3>1. sc_shown' = sc_shown
      BY <2>2 DEF S!Receive, msg
    <3> QED
      BY <1>3, <2>2, <3>1
  <2>3. CASE msg.kind = "state" /\ ~ahead
    BY <2>3 DEF S!Receive, msg
  <2> QED
    BY <1>5, <2>1, <2>2, <2>3
<1>8. e \in BOOLEAN
  OBVIOUS
<1> HIDE DEF e
<1>9. h \in [st : SomeState, at : Times] /\ s \in [st : SomeState, at : Times, early : BOOLEAN]
  <2>1. sc_shown[m] \in [st : SomeState, at : Times, early : BOOLEAN]
    BY <1>3
  <2> HIDE DEF ahead
  <2> QED
    BY <1>5, <1>8, <2>1, Constants
<1>10. ScTypeOK'
  <2> HIDE DEF h, s
  <2>1. sc_held' \in [Members -> [st : SomeState, at : Times]]
    BY <1>3, <1>6, <1>9
  <2>2. sc_shown' \in [Members -> [st : SomeState, at : Times, early : BOOLEAN]]
    BY <1>3, <1>7, <1>9
  <2>3. sc_chan' \in [Members -> Seq(Items)]
    BY <1>2, <1>3, <1>4
  <2> QED
    BY <1>1, <1>2, <2>1, <2>2, <2>3 DEF ScTypeOK
<1>11. TimerOK'
  BY <1>1, <1>2 DEF TimerOK, S!Due
<1>12. sc_chan'[m] = Tail(sc_chan[m]) /\ sc_held'[m] = h /\ sc_shown'[m] = s
  <2> HIDE DEF h, s
  <2> QED
    BY <1>2, <1>3, <1>6, <1>7
<1>13. \A j \in Members \ {m} : SameFor(j)
  <2> HIDE DEF h, s
  <2> QED
    BY <1>2, <1>3, <1>6, <1>7 DEF SameFor
<1>14. Quiet
  BY <1>2 DEF Quiet, S!Current, S!Due
<1>15. \A j \in sc_subs \ {m} : MemberOK(j)'
  BY <1>1, <1>2, <1>13, <1>14, StaysOK DEF ToBeTold
<1>16. ASSUME m \in sc_subs PROVE MemberOK(m)'
  <2>1. MemberOK(m)
    BY <1>1, <1>16
  <2>2. msg.kind = "state" => ReadsState(m, msg)
    BY <1>12 DEF ReadsState, e
  <2>3. CASE msg.kind = "state" \/ Len(sc_chan[m]) > 1
    BY <1>1, <1>2, <1>12, <2>1, <2>2, <2>3, ReadOK DEF msg
  <2>4. CASE msg.kind = "drop" /\ ~(Len(sc_chan[m]) > 1)
    <3>1. Len(sc_chan[m]) = 1 /\ sc_chan'[m] = <<>> /\ sc_chan[m][1] = msg
      BY <1>2, <1>3, <1>12, <2>4, TailIs, SMTT(30) DEF msg
    <3>2. ~AllAhead(m, 0) /\ \A i \in 1..Len(sc_chan[m]) : ~ToldNow(m, i)
      <4>1. 1 \in (0 + 1)..Len(sc_chan[m]) /\ \A i \in 1..Len(sc_chan[m]) : i = 1
        BY <3>1
      <4> QED
        BY <2>4, <3>1, <4>1 DEF AllAhead, ToldNow
    <3>3. ToBeTold(m)
      BY <2>1, <3>2 DEF MemberOK, IsSettled, ShownRight, HeldRight
    <3>4. ToBeTold(m)' /\ m \in Legacy
      BY <1>2, <3>3 DEF ToBeTold
    <3>5. sc_held'[m].at = S!Never
      BY <1>12, <2>4, Constants
    <3>6. NewestOK(m)' /\ ToldAhead(m)'
      BY <3>1, <3>4, <3>5 DEF NewestOK, ToldAhead
    <3> QED
      BY <3>4, <3>6 DEF MemberOK
  <2> QED
    BY <1>5, <2>3, <2>4
<1> QED
  BY <1>2, <1>10, <1>11, <1>15, <1>16 DEF ScInv

LEMMA ApplyHeldKeeps ==
    ASSUME ScInv, NEW m \in Members, S!ApplyHeld(m)
    PROVE  ScInv'
<1>1. ScTypeOK /\ TimerOK /\ \A j \in sc_subs : MemberOK(j) /\ j \in Members
  BY DEF ScInv, ScTypeOK
<1> DEFINE s == [st |-> sc_held[m].st, at |-> sc_held[m].at, early |-> FALSE]
<1>2. /\ sc_held[m].at <= sc_now /\ sc_shown' = [sc_shown EXCEPT ![m] = s] /\ sc_held' = [sc_held EXCEPT ![m] = S!NoPend]
      /\ UNCHANGED <<sc_now, sc_cur, sc_pend, sc_sent, sc_timer, sc_replaced, sc_subs, sc_chan>>
  BY DEF S!ApplyHeld, S!served
<1>3. /\ sc_held[m] \in [st : SomeState, at : Times] /\ sc_held[m].at \in Nat /\ sc_now \in Nat /\ sc_now < S!Never /\ S!Never \in Nat
      /\ sc_pend.at \in Nat
  BY <1>1, MemberIs, CurrentIs, Constants
<1>4. s \in [st : SomeState, at : Times, early : BOOLEAN] /\ s.st = sc_held[m].st /\ s.at = sc_held[m].at
      /\ StateOf(s) = sc_held[m]
  BY <1>3 DEF StateOf
<1> HIDE DEF s
<1>5. ScTypeOK'
  <2>1. sc_held' \in [Members -> [st : SomeState, at : Times]]
    BY <1>1, <1>2, Constants DEF ScTypeOK
  <2>2. sc_shown' \in [Members -> [st : SomeState, at : Times, early : BOOLEAN]]
    BY <1>1, <1>2, <1>4 DEF ScTypeOK
  <2> QED
    BY <1>1, <1>2, <2>1, <2>2 DEF ScTypeOK
<1>6. TimerOK'
  BY <1>1, <1>2 DEF TimerOK, S!Due
<1>7. \A j \in Members \ {m} : SameFor(j)
  BY <1>1, <1>2 DEF SameFor, ScTypeOK
<1>8. Quiet
  BY <1>2 DEF Quiet, S!Current, S!Due
<1>9. \A j \in sc_subs \ {m} : MemberOK(j)'
  BY <1>1, <1>2, <1>7, <1>8, StaysOK DEF ToBeTold
<1>10. sc_shown'[m] = s /\ sc_held'[m] = S!NoPend /\ sc_held'[m].at = S!Never /\ sc_held[m].at # S!Never
  BY <1>1, <1>2, <1>3, Constants DEF ScTypeOK
<1>11. ASSUME m \in sc_subs PROVE MemberOK(m)'
  <2>1. MemberOK(m)
    BY <1>1, <1>11
  <2>2. S!Current' = S!Current /\ \A x : IsAhead(x)' <=> IsAhead(x)
    BY <1>2 DEF S!Current, S!Due, IsAhead
  <2>3. \A i : AllAhead(m, i) => AllAhead(m, i)'
    BY <1>2, <2>2 DEF AllAhead, StateOf
  <2>4. (\E i \in 1..Len(sc_chan[m]) : ToldNow(m, i)) => (\E i \in 1..Len(sc_chan'[m]) : ToldNow(m, i)')
    BY <1>2, <2>2, <2>3 DEF ToldNow
  <2>5. ShownRight(m) => ShownRight(m)'
    <3> SUFFICES ASSUME ShownRight(m) PROVE ShownRight(m)'
      OBVIOUS
    <3>1. IsAhead(sc_held[m]) /\ AllAhead(m, 0)'
      BY <1>10, <2>3 DEF ShownRight
    <3>2. IsAhead(StateOf(sc_shown[m]))'
      BY <1>2, <1>4, <1>10, <3>1 DEF IsAhead, StateOf
    <3> QED
      BY <1>2, <1>4, <1>10, <3>1, <3>2 DEF ShownRight
  <2>6. HeldRight(m) => ShownRight(m)'
    BY <1>4, <1>10, <2>2, <2>3 DEF HeldRight, ShownRight
  <2>7. IsSettled(m)' \/ ToBeTold(m)'
    BY <1>2, <2>1, <2>4, <2>5, <2>6 DEF MemberOK, IsSettled, ToBeTold
  <2>8. NewestOK(m)'
    BY <1>2, <1>10, <2>1 DEF MemberOK, NewestOK, Newest, StateOf
  <2>9. ToldAhead(m)'
    <3> SUFFICES ASSUME m \notin Legacy, sc_sent, sc_pend.at # S!Never PROVE LastIs(m, sc_pend)'
      BY <1>2 DEF ToldAhead
    <3>1. LastIs(m, sc_pend)
      BY <2>1 DEF MemberOK, ToldAhead
    <3>2. CASE sc_chan[m] # <<>>
      BY <1>2, <3>1, <3>2 DEF LastIs, StateOf
    <3>3. CASE sc_chan[m] = <<>>
      <4>1. sc_held[m] = sc_pend
        BY <1>10, <3>1, <3>3 DEF LastIs
      <4>2. StateOf(sc_shown[m])' = sc_pend
        BY <1>4, <1>10, <4>1 DEF StateOf
      <4> QED
        BY <1>2, <1>10, <3>3, <4>2 DEF LastIs
    <3> QED
      BY <3>2, <3>3
  <2> QED
    BY <2>7, <2>8, <2>9 DEF MemberOK
<1> QED
  BY <1>2, <1>5, <1>6, <1>9, <1>11 DEF ScInv

\* Nothing changes but what the invariant does not read.
LEMMA NothingKeeps ==
    ASSUME ScInv, UNCHANGED <<sc_now, sc_cur, sc_pend, sc_sent, sc_timer, sc_replaced, sc_subs, sc_chan, sc_shown, sc_held>>
    PROVE  ScInv'
<1>1. ScTypeOK /\ TimerOK /\ \A j \in sc_subs : MemberOK(j) /\ j \in Members
  BY DEF ScInv, ScTypeOK
<1>2. ScTypeOK' /\ TimerOK'
  BY <1>1 DEF ScTypeOK, TimerOK, S!Due
<1>3. Quiet /\ \A m \in Members : SameFor(m)
  BY DEF Quiet, S!Current, S!Due, SameFor
<1>4. \A m \in sc_subs : MemberOK(m)'
  BY <1>1, <1>3, StaysOK DEF ToBeTold
<1> QED
  BY <1>2, <1>4 DEF ScInv

LEMMA TickKeeps ==
    ASSUME ScInv, S!Tick
    PROVE  ScInv'
<1>1. ScTypeOK /\ TimerOK /\ \A j \in sc_subs : MemberOK(j) /\ j \in Members
  BY DEF ScInv, ScTypeOK
<1>2. /\ sc_now < StateNow /\ sc_now < sc_timer.at + Slack /\ sc_now' = sc_now + 1
      /\ UNCHANGED <<sc_cur, sc_pend, sc_sent, sc_timer, sc_replaced, sc_subs, sc_chan, sc_shown, sc_held>>
  BY DEF S!Tick, S!served, S!clients
<1>3. sc_now \in Nat /\ sc_pend.at \in Nat /\ sc_now < S!Never /\ S!Never \in Nat /\ sc_timer.at \in Int
  BY <1>1, CurrentIs, Constants DEF ScTypeOK
<1>4. ScTypeOK'
  <2>1. sc_now' \in 0..StateNow
    BY <1>2, <1>3, ScheduledAssumption
  <2> QED
    BY <1>1, <1>2, <2>1 DEF ScTypeOK
<1>5. TimerOK'
  <2>1. CASE sc_timer.kind = "none"
    BY <1>1, <1>2, <1>3, <2>1 DEF TimerOK, S!Due
  <2>2. CASE sc_timer.kind = "send"
    BY <1>1, <1>2, <1>3, <2>2, ScheduledAssumption DEF TimerOK
  <2>3. CASE sc_timer.kind = "due"
    BY <1>1, <1>2, <1>3, <2>3 DEF TimerOK
  <2> QED
    BY <1>1, <2>1, <2>2, <2>3 DEF ScTypeOK
<1>6. ASSUME NEW m \in sc_subs PROVE MemberOK(m)'
  <2>1. MemberOK(m) /\ m \in Members
    BY <1>1, <1>6
  <2>2. /\ sc_held[m].at \in Nat /\ (sc_chan[m] # <<>> => Len(sc_chan[m]) \in 1..Len(sc_chan[m])) /\ Len(sc_chan[m]) \in Nat
        /\ \A i \in 1..Len(sc_chan[m]) : sc_chan[m][i].at \in Nat /\ sc_chan[m][i].at < S!Never
        /\ sc_shown[m].at \in Nat
    <3>1. sc_shown[m].at \in Nat
      BY <1>1, <2>1, MemberIs, Constants DEF Times
    <3> QED
      BY <1>1, <2>1, <3>1, MemberIs
  <2>3. NewestOK(m)'
    <3>1. ASSUME NEW x, x.at \in Nat, Newest(m, x) PROVE x.at > sc_now + 1 => m \notin Legacy /\ sc_sent /\ [st |-> x.st, at |-> x.at] = sc_pend
      BY <1>3, <3>1 DEF Newest, StateOf
    <3>2. CASE sc_chan[m] # <<>>
      <4>1. Newest(m, sc_chan[m][Len(sc_chan[m])]) /\ sc_chan[m][Len(sc_chan[m])].at \in Nat
        BY <2>1, <2>2, <3>2 DEF MemberOK, NewestOK
      <4> QED
        BY <1>2, <3>1, <3>2, <4>1 DEF NewestOK, Newest, StateOf
    <3>3. CASE sc_chan[m] = <<>>
      <4>1. sc_held[m].at # S!Never => Newest(m, sc_held[m])
        BY <2>1, <3>3 DEF MemberOK, NewestOK
      <4> QED
        BY <1>2, <2>2, <3>1, <3>3, <4>1 DEF NewestOK, Newest, StateOf
    <3> QED
      BY <3>2, <3>3
  <2>4. ToldAhead(m)'
    BY <1>2, <2>1 DEF MemberOK, ToldAhead, LastIs, StateOf
  <2>5. IsSettled(m)' \/ ToBeTold(m)'
    <3>1. CASE S!Due <=> S!Due'
      <4>1. S!Current' = S!Current
        BY <1>2, <3>1 DEF S!Current
      <4>2. \A x : IsAhead(x)' <=> IsAhead(x)
        BY <1>2, <1>3, <3>1 DEF IsAhead, S!Due
      <4>3. \A i : AllAhead(m, i) => AllAhead(m, i)'
        BY <1>2, <4>2 DEF AllAhead, StateOf
      <4>4. (\E i \in 1..Len(sc_chan[m]) : ToldNow(m, i)) => (\E i \in 1..Len(sc_chan'[m]) : ToldNow(m, i)')
        BY <1>2, <1>3, <2>2, <4>1, <4>3 DEF ToldNow
      <4>5. ShownRight(m) => ShownRight(m)'
        <5>1. sc_shown[m].at <= sc_now => sc_shown[m].at <= sc_now'
          BY <1>2, <1>3, <2>2
        <5> QED
          BY <1>2, <4>1, <4>2, <4>3, <5>1 DEF ShownRight, StateOf
      <4>6. HeldRight(m) => HeldRight(m)'
        BY <1>2, <1>3, <2>2, <4>1, <4>3 DEF HeldRight
      <4>7. ToBeTold(m) => ToBeTold(m)'
        BY <1>2, <1>3 DEF ToBeTold
      <4> QED
        BY <2>1, <4>4, <4>5, <4>6, <4>7 DEF MemberOK, IsSettled
    <3>2. CASE ~S!Due /\ S!Due'
      <4>1. sc_pend.at = sc_now' /\ sc_pend.at # S!Never
        BY <1>2, <1>3, <3>2, ScheduledAssumption, Constants DEF S!Due
      <4>2. sc_timer.kind # "none"
        BY <1>1, <3>2, <4>1 DEF TimerOK
      <4>3. sc_timer.kind # "send"
        BY <1>1, <1>2, <1>3, <4>1, ScheduledAssumption DEF TimerOK
      <4>4. sc_timer.kind = "due" /\ sc_sent /\ sc_timer.at = sc_pend.at
        <5>1. sc_timer.kind = "due"
          BY <1>1, <4>2, <4>3 DEF ScTypeOK
        <5> QED
          BY <1>1, <4>1, <5>1 DEF TimerOK
      <4>5. S!Current' = sc_pend.st
        BY <1>2, <3>2 DEF S!Current
      <4>6. CASE m \in Legacy
        BY <1>2, <1>3, <4>1, <4>4, <4>6 DEF ToBeTold
      <4>7. CASE m \notin Legacy
        <5>1. LastIs(m, sc_pend)
          BY <2>1, <4>1, <4>4, <4>7 DEF MemberOK, ToldAhead
        <5>2. CASE sc_chan[m] # <<>>
          <6> SUFFICES ASSUME NEW n, n = Len(sc_chan[m]) PROVE IsSettled(m)'
            OBVIOUS
          <6>1. sc_chan[m][n].kind = "state" /\ [st |-> sc_chan[m][n].st, at |-> sc_chan[m][n].at] = sc_pend
            BY <5>1, <5>2 DEF LastIs, StateOf
          <6>2. sc_chan[m][n].st = sc_pend.st /\ sc_chan[m][n].at = sc_pend.at
            BY <6>1
          <6>3. AllAhead(m, n)'
            BY <1>2, <2>2 DEF AllAhead
          <6>4. ToldNow(m, n)'
            BY <1>2, <1>3, <4>1, <4>5, <6>1, <6>2, <6>3 DEF ToldNow
          <6> QED
            BY <1>2, <2>2, <5>2, <6>4 DEF IsSettled
        <5>3. CASE sc_chan[m] = <<>> /\ sc_held[m].at # S!Never
          <6>1. sc_held[m] = sc_pend
            BY <5>1, <5>3 DEF LastIs
          <6>2. AllAhead(m, 0)'
            BY <1>2, <5>3 DEF AllAhead
          <6>3. HeldRight(m)'
            BY <1>2, <1>3, <4>1, <4>5, <6>1, <6>2 DEF HeldRight
          <6> QED
            BY <6>3 DEF IsSettled
        <5>4. CASE sc_chan[m] = <<>> /\ sc_held[m].at = S!Never
          <6>1. [st |-> sc_shown[m].st, at |-> sc_shown[m].at] = sc_pend
            BY <5>1, <5>4 DEF LastIs, StateOf
          <6>2. AllAhead(m, 0)'
            BY <1>2, <5>4 DEF AllAhead
          <6>3. sc_shown[m].st = sc_pend.st
            BY <6>1
          <6>4. ShownRight(m)'
            BY <1>2, <4>5, <5>4, <6>2, <6>3 DEF ShownRight
          <6> QED
            BY <6>4 DEF IsSettled
        <5> QED
          BY <5>2, <5>3, <5>4
      <4> QED
        BY <4>6, <4>7
    <3>3. S!Due => S!Due'
      BY <1>2, <1>3 DEF S!Due
    <3> QED
      BY <3>1, <3>2, <3>3
  <2> QED
    BY <2>3, <2>4, <2>5 DEF MemberOK
<1> QED
  BY <1>2, <1>4, <1>5, <1>6 DEF ScInv

-----------------------------------------------------------------------------
LEMMA InitIs == S!Init => ScInv
<1> SUFFICES ASSUME S!Init PROVE ScInv
  OBVIOUS
<1>1. /\ sc_now = 0 /\ sc_cur = S!Blank /\ sc_pend = S!NoPend /\ sc_sent = FALSE /\ sc_timer = S!NoTimer
      /\ sc_subs = {} /\ sc_chan = [m \in Members |-> <<>>]
      /\ sc_shown = [m \in Members |-> S!Nothing] /\ sc_held = [m \in Members |-> S!NoPend]
  BY DEF S!Init
<1>2. ScTypeOK
  <2>1. sc_timer \in [kind : {"none", "send", "due"}, at : Int, st : SomeState]
    BY <1>1, Constants DEF S!NoTimer
  <2>2. sc_now \in 0..StateNow
    BY <1>1, ScheduledAssumption
  <2>3. sc_chan \in [Members -> Seq(Items)] /\ sc_subs \subseteq Members
    BY <1>1
  <2>4. sc_shown \in [Members -> [st : SomeState, at : Times, early : BOOLEAN]]
    BY <1>1, Constants
  <2>5. sc_held \in [Members -> [st : SomeState, at : Times]]
    BY <1>1, Constants
  <2>6. sc_cur \in SomeState /\ sc_pend \in [st : SomeState, at : Times] /\ sc_pend.at = S!Never /\ sc_sent \in BOOLEAN
    BY <1>1, Constants
  <2> QED
    BY <2>1, <2>2, <2>3, <2>4, <2>5, <2>6 DEF ScTypeOK
<1>3. TimerOK
  BY <1>1, Constants DEF TimerOK
<1> QED
  BY <1>1, <1>2, <1>3 DEF ScInv

LEMMA NextKeeps ==
    ASSUME ScInv, [S!Next]_(S!vars)
    PROVE  ScInv'
<1>1. CASE S!Tick
  BY <1>1, TickKeeps
<1>2. CASE \E m \in Members : S!Join(m) \/ S!Restate(m)
  BY <1>2, JoinKeeps
<1>3. CASE \E m \in Members : S!Leave(m)
  BY <1>3, LeaveKeeps
<1>4. CASE \E m \in Members : S!Disconnect(m)
  BY <1>4, DisconnectKeeps
<1>5. CASE S!Read
  <2>1. S!Promote /\ UNCHANGED <<sc_now, sc_sent, sc_timer, sc_subs, sc_chan, sc_shown, sc_held>>
    BY <1>5 DEF S!Read, S!clients
  <2> QED
    BY <2>1, ReadsKeep
<1>6. CASE \E st \in S!States \cup {S!Blank}, force \in BOOLEAN : S!SetNow(st, force)
  BY <1>6, SetNowKeeps DEF SomeState
<1>7. CASE \E st \in S!States, at \in 1..StateNow : S!Schedule(st, at)
  BY <1>7, ScheduleKeeps
<1>8. CASE S!TimerSends
  BY <1>8, TimerSendsKeeps
<1>9. CASE S!TimerDue
  BY <1>9, TimerDueKeeps
<1>10. CASE S!Cancel
  <2>1. S!CancelScheduled /\ UNCHANGED <<sc_now, sc_subs, sc_shown, sc_held>>
    BY <1>10 DEF S!Cancel, S!clients
  <2> QED
    BY <2>1, CancelScheduledKeeps
<1>11. CASE S!ResetProgress
  BY <1>11, ResetKeeps
<1>12. CASE S!FreezeProgress
  BY <1>12, FreezeKeeps
<1>13. CASE \E m \in Members : S!Receive(m)
  BY <1>13, ReceiveKeeps
<1>14. CASE \E m \in Members : S!ApplyHeld(m)
  BY <1>14, ApplyHeldKeeps
<1>15. CASE \E m \in Members : S!Sync(m)
  <2>1. UNCHANGED <<sc_now, sc_cur, sc_pend, sc_sent, sc_timer, sc_replaced, sc_subs, sc_chan, sc_shown, sc_held>>
    BY <1>15 DEF S!Sync, S!served
  <2> QED
    BY <2>1, NothingKeeps
<1>16. CASE UNCHANGED S!vars
  <2>1. UNCHANGED <<sc_now, sc_cur, sc_pend, sc_sent, sc_timer, sc_replaced, sc_subs, sc_chan, sc_shown, sc_held>>
    BY <1>16 DEF S!vars
  <2> QED
    BY <2>1, NothingKeeps
<1> QED
  BY <1>1, <1>2, <1>3, <1>4, <1>5, <1>6, <1>7, <1>8, <1>9, <1>10, <1>11, <1>12, <1>13, <1>14, <1>15, <1>16 DEF S!Next

LEMMA InSyncFollows ==
    ASSUME ScInv
    PROVE  S!InSync
<1>1. ScTypeOK /\ TimerOK /\ \A j \in sc_subs : MemberOK(j) /\ j \in Members
  BY DEF ScInv, ScTypeOK
<1>2. /\ sc_now \in Nat /\ sc_pend.at \in Nat /\ S!Never \in Nat
  BY <1>1, CurrentIs, Constants
<1>3. S!ShowsCurrent
  <2> SUFFICES ASSUME NEW m \in sc_subs, sc_chan[m] = <<>>, sc_timer.at > sc_now, sc_held[m].at > sc_now
        PROVE  \/ sc_shown[m].st = S!Current \/ sc_shown[m].early
               \/ S!Remaining.at # S!Never /\ [st |-> sc_shown[m].st, at |-> sc_shown[m].at] \in sc_replaced
    BY DEF S!ShowsCurrent
  <2>1. sc_timer.at \in Int /\ sc_held[m].at \in Nat /\ sc_shown[m].at \in Nat
    BY <1>1, MemberIs, Constants DEF ScTypeOK, Times
  <2>2. ~ToBeTold(m) /\ ~HeldRight(m)
    BY <1>2, <2>1 DEF ToBeTold, HeldRight
  <2>3. ~(\E i \in 1..Len(sc_chan[m]) : ToldNow(m, i))
    <3>1. 1..Len(sc_chan[m]) = {}
      OBVIOUS
    <3> QED
      BY <3>1
  <2>4. ShownRight(m)
    BY <1>1, <2>2, <2>3 DEF MemberOK, IsSettled
  <2>5. CASE IsAhead([st |-> sc_shown[m].st, at |-> sc_shown[m].at]) /\ sc_shown[m].at <= sc_now
    <3>1. /\ sc_pend.at > sc_now /\ sc_pend.at # S!Never
          /\ [st |-> sc_shown[m].st, at |-> sc_shown[m].at] = sc_pend \/ [st |-> sc_shown[m].st, at |-> sc_shown[m].at] \in sc_replaced
      BY <2>5 DEF IsAhead
    <3>2. [st |-> sc_shown[m].st, at |-> sc_shown[m].at] = sc_pend => sc_shown[m].at = sc_pend.at
      OBVIOUS
    <3>3. [st |-> sc_shown[m].st, at |-> sc_shown[m].at] \in sc_replaced
      BY <1>2, <2>1, <2>5, <3>1, <3>2
    <3>4. S!Remaining.at # S!Never
      <4>1. S!Remaining.at = S!Never <=> S!Due \/ sc_pend.at = S!Never
        BY <1>1, CurrentIs
      <4> QED
        BY <1>2, <3>1, <4>1 DEF S!Due
    <3> QED
      BY <3>3, <3>4
  <2> QED
    BY <2>4, <2>5 DEF ShownRight, StateOf
<1>4. S!HeldIsScheduled
  <2> SUFFICES ASSUME NEW m \in sc_subs, sc_chan[m] = <<>>, sc_held[m].at > sc_now, sc_held[m].at # S!Never
        PROVE  sc_held[m] = sc_pend
    BY DEF S!HeldIsScheduled
  <2>1. sc_held[m] \in [st : SomeState, at : Times]
    BY <1>1, MemberIs
  <2>2. [st |-> sc_held[m].st, at |-> sc_held[m].at] = sc_pend
    BY <1>1 DEF MemberOK, NewestOK, Newest, StateOf
  <2> QED
    BY <2>1, <2>2
<1> QED
  BY <1>3, <1>4 DEF S!InSync

-----------------------------------------------------------------------------
\* The inductive invariant holds: what the one timer is for, and that the messages under way to a
\* member, read in their order at any pace, leave its client with the state in effect (_schedule,
\* _send_scheduled, _send_due, on_member_join, _handle_server_state).
THEOREM ScInvHolds == MCSpec => []ScInv
<1>1. MCInit => ScInv
  BY InitIs DEF MCInit
<1>2. ScInv /\ [MCNext]_<<which, vars, scheduled>> => ScInv'
  <2> SUFFICES ASSUME ScInv, [MCNext]_<<which, vars, scheduled>>
        PROVE  ScInv'
    OBVIOUS
  <2>1. CASE S!Next
    BY <2>1, NextKeeps
  <2>2. CASE UNCHANGED scheduled
    <3>1. UNCHANGED <<sc_now, sc_cur, sc_pend, sc_sent, sc_timer, sc_replaced, sc_subs, sc_chan, sc_shown, sc_held>>
      BY <2>2 DEF scheduled
    <3> QED
      BY <3>1, NothingKeeps
  <2> QED
    BY <2>1, <2>2 DEF MCNext
<1> QED
  BY <1>1, <1>2, PTL DEF MCSpec

\* A client that has read what it was sent, with no timer overdue, shows the state its group has at
\* this time, whatever was scheduled, replaced, cancelled or overtaken by the clock on the way, but
\* for the two exceptions ShowsCurrent names; and what it holds is what the server has scheduled.
THEOREM ClientsAreInSync == MCSpec => []InSync
<1>1. ScInv => InSync
  BY InSyncFollows DEF InSync
<1> QED
  BY <1>1, ScInvHolds, PTL

-----------------------------------------------------------------------------
(* Least elements, by which the proofs below do induction.                   *)

Below == {p \in Nat \X Nat : p[1] < p[2]}

LEMMA BelowIsWellFounded == IsWellFoundedOn(Below, Nat)
  BY NatLessThanWellFounded DEF OpToRel, Below

LEMMA LeastOf ==
  ASSUME NEW T \in SUBSET Nat, T # {}
  PROVE  \E x \in T : \A y \in T : x <= y
<1>1. PICK x \in T : \A y \in T : <<y, x>> \notin Below
  BY BelowIsWellFounded, WFMin
<1>2. \A y \in T : ~(y < x)
  BY <1>1 DEF Below
<1> QED
  BY <1>2

-----------------------------------------------------------------------------
(* The queues.                                                               *)

Kinds == {"start", "clear", "end", "chunk"}
Entries == [ts : Nat, seq : Nat, play : Nat, kind : Kinds, role : Roles, n : Nat, epoch : Nat]
Control == [ts : Nat, seq : Nat, play : Nat, kind : {"activate"}, role : {None}, n : SUBSET Roles, epoch : Nat]
Others == [ts : Nat, seq : Nat, play : Nat, kind : {"other"}, role : {None}, n : Nat, epoch : Nat]
Urgent == Entries \cup Control \cup Others
Tickets == [ts : Nat, seq : Nat, role : Roles]
Delays == [at : Nat, gen : Nat, role : Roles]
HeldChunks == [ts : Nat, n : Nat, epoch : Nat]

Queues ==
    [prio : Seq(Urgent), of : [Roles -> SUBSET Entries], ready : SUBSET Tickets, seq : Nat,
     lastTs : [Roles -> Nat], epoch : [Roles -> Nat], streaming : SUBSET Roles,
     blocked : [Roles -> Nat \cup {None}], delayed : SUBSET Delays, gen : [Roles -> Nat],
     held : [Roles -> Seq(HeldChunks)], wake : BOOLEAN, broken : BOOLEAN]

\* An entry is in the queue of its role, and its number is its own.
Numbered(x) ==
    \A r \in Roles : \A e \in x.of[r] :
        /\ e.role = r /\ e.seq < x.seq
        /\ \A s \in Roles : \A f \in x.of[s] : f.seq = e.seq => f = e

Bounded(x) == \A r \in Roles : IsFiniteSet(x.of[r]) /\ Cardinality(x.of[r]) <= MaxPending

\* A role that waits for room is on the list of those that wait, with its time.
Waits(x) ==
    \A r \in Roles : x.blocked[r] # None =>
        \E d \in x.delayed : d.role = r /\ d.at = x.blocked[r] /\ d.gen = x.gen[r]

QOK(x) == x \in Queues /\ Numbered(x) /\ Bounded(x) /\ Waits(x)

\* What the role has queued will be looked at.
Cared(x, r) == x.of[r] # {} => x.blocked[r] # None \/ \E t \in x.ready : t.role = r

SameWork(x, y) ==
    y.prio = x.prio /\ y.of = x.of /\ y.ready = x.ready /\ y.blocked = x.blocked /\ y.delayed = x.delayed

\* What a call does to the queues: it forgets no role and wakes the writer if there is work.
Keeps(x, y) ==
    /\ QOK(y)
    /\ \A r \in Roles : Cared(x, r) => Cared(y, r)
    /\ x.broken => y.broken
    /\ x.wake => y.wake
    /\ y.wake \/ y.broken \/ SameWork(x, y)

LEMMA NoneIsNoRole == None \notin Roles /\ None \notin Nat
  BY WriterAssumption DEF None

LEMMA KeepsTrans ==
  ASSUME NEW x, NEW y, NEW z, Keeps(x, y), Keeps(y, z)
  PROVE  Keeps(x, z)
  BY DEF Keeps, SameWork, Cared

\* A set of entries with numbers of their own has a first one.
LEMMA FirstExists ==
  ASSUME NEW es, es # {}, \A e \in es : e.ts \in Nat /\ e.seq \in Nat,
         \A e, f \in es : e.seq = f.seq => e = f
  PROVE  /\ Head1(es) \in es
         /\ \A f \in es \ {Head1(es)} : Before(Head1(es), f)
<1> DEFINE times == {e.ts : e \in es}
<1>0. times \in SUBSET Nat /\ times # {}
  OBVIOUS
<1>1. PICK t \in times : \A u \in times : t <= u
  <2> HIDE DEF times
  <2> QED
    BY <1>0, LeastOf
<1> DEFINE early == {e \in es : e.ts = t}
           numbers == {e.seq : e \in early}
<1>2. numbers \in SUBSET Nat /\ numbers # {}
  OBVIOUS
<1>3. PICK n \in numbers : \A m \in numbers : n <= m
  <2> HIDE DEF numbers
  <2> QED
    BY <1>2, LeastOf
<1>4. PICK e \in es : e.ts = t /\ e.seq = n
  BY <1>3
<1>5. \A f \in es \ {e} : Before(e, f)
  <2> TAKE f \in es \ {e}
  <2>1. t <= f.ts
    BY <1>1
  <2>2. CASE t < f.ts
    BY <2>2, <1>4 DEF Before
  <2>3. CASE t = f.ts
    <3>1. n <= f.seq /\ n # f.seq
      BY <2>3, <1>3, <1>4
    <3> QED
      BY <3>1, <1>4, <2>3 DEF Before
  <2> QED
    BY <2>1, <2>2, <2>3, <1>4
<1> QED
  BY <1>5 DEF Head1

LEMMA HeadOfQueue ==
  ASSUME NEW x, QOK(x), NEW r \in Roles, x.of[r] # {}
  PROVE  /\ Head1(x.of[r]) \in x.of[r] /\ Head1(x.of[r]) \in Entries
         /\ Head1(x.of[r]).role = r
         /\ \A f \in x.of[r] \ {Head1(x.of[r])} : Before(Head1(x.of[r]), f)
<1>1. \A e \in x.of[r] : e \in Entries /\ e.role = r /\ \A f \in x.of[r] : f.seq = e.seq => f = e
  BY DEF QOK, Queues, Numbered
<1>2. \A e \in x.of[r] : e.ts \in Nat /\ e.seq \in Nat
  BY <1>1 DEF Entries
<1> QED
  BY <1>1, <1>2, FirstExists

LEMMA WakeKeeps ==
  ASSUME NEW x, QOK(x)
  PROVE  Keeps(x, Wake(x)) /\ Wake(x).wake /\ Wake(x) = [x EXCEPT !.wake = TRUE]
  BY DEF Wake, Keeps, QOK, Queues, Numbered, Bounded, Waits, Cared, SameWork

LEMMA OverflowKeeps ==
  ASSUME NEW x, QOK(x)
  PROVE  Keeps(x, Overflow(x))
  BY DEF Overflow, Keeps, QOK, Queues, Numbered, Bounded, Waits, Cared, SameWork

LEMMA ScheduleHeadKeeps ==
  ASSUME NEW x, QOK(x), NEW r \in Roles
  PROVE  /\ QOK(ScheduleHead(x, r)) /\ Cared(ScheduleHead(x, r), r)
         /\ \A s \in Roles : Cared(x, s) => Cared(ScheduleHead(x, r), s)
         /\ ScheduleHead(x, r) = [x EXCEPT !.ready = ScheduleHead(x, r).ready]
         /\ x.ready \subseteq ScheduleHead(x, r).ready
<1>1. CASE x.blocked[r] # None \/ x.of[r] = {}
  <2>1. ScheduleHead(x, r) = x
    BY <1>1 DEF ScheduleHead
  <2> QED
    BY <1>1, <2>1 DEF Cared, QOK, Queues
<1>2. CASE x.blocked[r] = None /\ x.of[r] # {}
  <2> DEFINE h == Head1(x.of[r])
             y == [x EXCEPT !.ready = @ \cup {Ticket(h)}]
  <2>1. ScheduleHead(x, r) = y
    BY <1>2 DEF ScheduleHead
  <2>2. h \in Entries /\ h.role = r
    BY <1>2, HeadOfQueue
  <2>3. Ticket(h) \in Tickets /\ Ticket(h).role = r
    BY <2>2 DEF Ticket, Tickets, Entries
  <2> HIDE DEF h
  <2>4. y \in Queues
    BY <2>3 DEF QOK, Queues
  <2>5. QOK(y)
    BY <2>4 DEF QOK, Numbered, Bounded, Waits, Queues
  <2>6. Cared(y, r) /\ \A s \in Roles : Cared(x, s) => Cared(y, s)
    BY <2>3 DEF Cared, QOK, Queues
  <2>7. y = [x EXCEPT !.ready = y.ready] /\ x.ready \subseteq y.ready
    BY DEF QOK, Queues
  <2> QED
    BY <2>1, <2>5, <2>6, <2>7
<1> QED
  BY <1>1, <1>2

LEMMA ScheduleHeadUnblocked ==
  ASSUME NEW x, QOK(x), NEW r \in Roles
  PROVE  Keeps([x EXCEPT !.wake = TRUE], Wake(ScheduleHead(x, r)))
<1> DEFINE y == ScheduleHead(x, r)
           w == [x EXCEPT !.wake = TRUE]
<1>1. QOK(y) /\ \A s \in Roles : Cared(x, s) => Cared(y, s)
  BY ScheduleHeadKeeps
<1>2. y = [x EXCEPT !.ready = y.ready]
  BY ScheduleHeadKeeps
<1>3. Keeps(y, Wake(y)) /\ Wake(y).wake
  BY <1>1, WakeKeeps
<1>4. \A s \in Roles : Cared(w, s) <=> Cared(x, s)
  BY DEF Cared, QOK, Queues
<1>5. \A s \in Roles : Cared(w, s) => Cared(Wake(y), s)
  BY <1>1, <1>3, <1>4 DEF Keeps
<1>6. w.broken = x.broken /\ y.broken = x.broken
  BY <1>2 DEF QOK, Queues
<1>7. w.broken => Wake(y).broken
  BY <1>3, <1>6 DEF Keeps
<1> HIDE DEF y, w
<1> QED
  BY <1>3, <1>5, <1>7 DEF Keeps, y, w

LEMMA EnqueueKeeps ==
  ASSUME NEW x, QOK(x), NEW e \in Entries, Cardinality(x.of[e.role]) < MaxPending
  PROVE  /\ Keeps(x, Enqueue(x, e)) /\ Enqueue(x, e).wake
         /\ Enqueue(x, e).of = [x.of EXCEPT ![e.role] = @ \cup {[e EXCEPT !.seq = x.seq]}]
         /\ Enqueue(x, e) = [x EXCEPT !.of = Enqueue(x, e).of, !.ready = Enqueue(x, e).ready,
                                      !.seq = x.seq + 1, !.wake = TRUE]
<1> DEFINE r == e.role
           f == [e EXCEPT !.seq = x.seq]
           y == [x EXCEPT !.seq = @ + 1, !.of[r] = @ \cup {f}]
           h == Head1(y.of[r])
           z == IF y.blocked[r] = None /\ h = f THEN [y EXCEPT !.ready = @ \cup {Ticket(f)}] ELSE y
<1>1. r \in Roles /\ f \in Entries /\ f.role = r /\ f.seq = x.seq
  BY DEF Entries, QOK, Queues
<1>2. Enqueue(x, e) = Wake(z)
  BY DEF Enqueue
<1>4. y.of = [x.of EXCEPT ![r] = @ \cup {f}] /\ y.seq = x.seq + 1 /\ x.seq \in Nat
  BY <1>1 DEF QOK, Queues
<1>3. y \in Queues
  <2>1. [x.of EXCEPT ![r] = @ \cup {f}] \in [Roles -> SUBSET Entries]
    <3> HIDE DEF f
    <3> QED
      BY <1>1 DEF QOK, Queues
  <2>2. y = [x EXCEPT !.seq = x.seq + 1, !.of = [x.of EXCEPT ![r] = @ \cup {f}]]
    BY DEF QOK, Queues
  <2> DEFINE ofs == [x.of EXCEPT ![r] = @ \cup {f}]
  <2>3. ofs \in [Roles -> SUBSET Entries] /\ y = [x EXCEPT !.seq = x.seq + 1, !.of = ofs]
    BY <2>1, <2>2
  <2>4. x \in Queues /\ x.seq + 1 \in Nat
    BY DEF QOK, Queues
  <2> HIDE DEF y, f, r, ofs
  <2> QED
    BY <2>3, <2>4 DEF Queues
<1>5. Numbered(y)
  <2>1. \A s \in Roles : \A g \in y.of[s] : (g \in x.of[s] /\ g.seq < x.seq) \/ (g = f /\ s = r)
    BY <1>1, <1>4 DEF QOK, Numbered, Queues
  <2>2. \A s \in Roles : \A g \in x.of[s] : g.role = s /\ g.seq \in Nat /\ g.seq < x.seq
    BY DEF QOK, Numbered, Queues, Entries
  <2>3. \A s, u \in Roles : \A g \in x.of[s], k \in x.of[u] : k.seq = g.seq => k = g
    BY DEF QOK, Numbered
  <2> SUFFICES ASSUME NEW s \in Roles, NEW g \in y.of[s]
        PROVE  g.role = s /\ g.seq < y.seq /\ \A u \in Roles : \A k \in y.of[u] : k.seq = g.seq => k = g
    BY DEF Numbered
  <2>4. g.role = s /\ g.seq < y.seq
    <3> HIDE DEF y, f, r
    <3> QED
      BY <2>1, <2>2, <1>1, <1>4
  <2>5. ASSUME NEW u \in Roles, NEW k \in y.of[u], k.seq = g.seq PROVE k = g
    <3> HIDE DEF y, f
    <3> QED
      BY <2>1, <2>2, <2>3, <2>5, <1>1, <1>4
  <2> QED
    BY <2>4, <2>5
<1>6. Bounded(y)
  <2> SUFFICES ASSUME NEW s \in Roles PROVE IsFiniteSet(y.of[s]) /\ Cardinality(y.of[s]) <= MaxPending
    BY DEF Bounded
  <2>1. IsFiniteSet(x.of[s]) /\ Cardinality(x.of[s]) <= MaxPending /\ Cardinality(x.of[s]) \in Nat
    BY FS_CardinalityType DEF QOK, Bounded
  <2>2. CASE s = r
    <3>1. y.of[s] = x.of[s] \cup {f}
      BY <1>4, <2>2 DEF QOK, Queues
    <3>2. IsFiniteSet(x.of[s] \cup {f}) /\ Cardinality(x.of[s] \cup {f}) <= Cardinality(x.of[s]) + 1
      <4> HIDE DEF f
      <4>1. Cardinality(x.of[s] \cup {f}) =
              IF f \in x.of[s] THEN Cardinality(x.of[s]) ELSE Cardinality(x.of[s]) + 1
        BY <2>1, FS_AddElement
      <4>2. IsFiniteSet(x.of[s] \cup {f})
        BY <2>1, FS_AddElement
      <4> QED
        BY <4>1, <4>2, <2>1
    <3> QED
      BY <3>1, <3>2, <2>1, <2>2, WriterAssumption, FS_CardinalityType
  <2>3. CASE s # r
    BY <1>4, <2>1, <2>3 DEF QOK, Queues
  <2> QED
    BY <2>2, <2>3
<1>7. Waits(y)
  BY <1>1 DEF QOK, Waits, Queues
<1>8. QOK(y)
  BY <1>3, <1>5, <1>6, <1>7 DEF QOK
<1>9. f \in y.of[r]
  BY <1>1, <1>4 DEF QOK, Queues
<1>10. z \in Queues /\ z = [y EXCEPT !.ready = z.ready] /\ y.ready \subseteq z.ready
  <2>1. Ticket(f) \in Tickets
    BY <1>1 DEF Ticket, Tickets, Entries
  <2> HIDE DEF f, h, y
  <2> QED
    BY <2>1, <1>3 DEF Queues
<1>11. QOK(z)
  <2> HIDE DEF y, z
  <2>1. z.of = y.of /\ z.seq = y.seq /\ z.blocked = y.blocked /\ z.delayed = y.delayed /\ z.gen = y.gen
    BY <1>3, <1>10 DEF Queues
  <2> QED
    BY <2>1, <1>8, <1>10 DEF QOK, Numbered, Bounded, Waits
<1>12. Cared(x, r) => Cared(z, r)
  <2> SUFFICES ASSUME Cared(x, r), z.blocked[r] = None PROVE \E t \in z.ready : t.role = r
    BY DEF Cared
  <2>1. y.blocked[r] = None /\ x.blocked[r] = None /\ x.ready = y.ready
    BY <1>10, <1>3 DEF QOK, Queues
  <2>2. CASE h = f
    <3>1. Ticket(f).role = r
      BY <1>1 DEF Ticket
    <3>2. z = [y EXCEPT !.ready = @ \cup {Ticket(f)}]
      BY <2>1, <2>2
    <3>3. z.ready = y.ready \cup {Ticket(f)}
      <4> HIDE DEF y, f
      <4> QED
        BY <3>2, <1>3 DEF Queues
    <3> QED
      BY <3>1, <3>3
  <2>3. CASE h # f
    <3>1. h \in y.of[r]
      BY <1>1, <1>8, <1>9, HeadOfQueue
    <3>2. x.of[r] # {}
      BY <3>1, <2>3, <1>1, <1>4 DEF QOK, Queues
    <3>3. \E t \in x.ready : t.role = r
      BY <3>2, <2>1 DEF Cared
    <3> QED
      BY <3>3, <2>1, <1>10
  <2> QED
    BY <2>2, <2>3
<1>13. \A s \in Roles \ {r} : Cared(x, s) => Cared(z, s)
  <2>1. \A s \in Roles \ {r} : z.of[s] = x.of[s] /\ z.blocked[s] = x.blocked[s]
    <3>1. z.of = y.of /\ z.blocked = y.blocked /\ y.blocked = x.blocked
      BY <1>10, <1>3 DEF QOK, Queues
    <3> QED
      BY <3>1, <1>4, <1>1 DEF QOK, Queues
  <2>2. x.ready \subseteq z.ready
    BY <1>10 DEF QOK, Queues
  <2> HIDE DEF z, y, r
  <2> QED
    BY <2>1, <2>2 DEF Cared
<1>14. z.broken = x.broken
  BY <1>10, <1>3 DEF QOK, Queues
<1>15. Keeps(z, Wake(z)) /\ Wake(z).wake /\ Wake(z) = [z EXCEPT !.wake = TRUE]
  <2> HIDE DEF z
  <2> QED
    BY <1>11, WakeKeeps
<1>16. Keeps(x, Wake(z))
  <2> HIDE DEF z
  <2> QED
    BY <1>1, <1>12, <1>13, <1>14, <1>15 DEF Keeps
<1>17. Wake(z).of = [x.of EXCEPT ![r] = @ \cup {f}]
  BY <1>15, <1>10, <1>3, <1>4, ZenonT(40) DEF Queues
<1>18. Wake(z) = [x EXCEPT !.of = Wake(z).of, !.ready = Wake(z).ready, !.seq = x.seq + 1, !.wake = TRUE]
  <2>1. y = [x EXCEPT !.of = y.of, !.seq = x.seq + 1]
    BY <1>4 DEF QOK, Queues
  <2> HIDE DEF y, z
  <2> QED
    BY <2>1, <1>15, <1>10, <1>3, ZenonT(40) DEF QOK, Queues
<1> QED
  BY <1>2, <1>15, <1>16, <1>17, <1>18

LEMMA DropPendingKeeps ==
  ASSUME NEW x, QOK(x), NEW r \in Roles
  PROVE  /\ Keeps(x, DropPending(x, r)) /\ DropPending(x, r).wake
         /\ DropPending(x, r) =
              [x EXCEPT !.epoch[r] = @ + 1, !.blocked = DropPending(x, r).blocked,
                        !.gen = DropPending(x, r).gen, !.ready = DropPending(x, r).ready, !.wake = TRUE]
<1> DEFINE y == [x EXCEPT !.epoch[r] = @ + 1]
<1> DEFINE epochs == [x.epoch EXCEPT ![r] = @ + 1]
<1>0. epochs \in [Roles -> Nat] /\ y = [x EXCEPT !.epoch = epochs]
  BY DEF QOK, Queues
<1>1. QOK(y) /\ \A s \in Roles : Cared(y, s) <=> Cared(x, s)
  <2> HIDE DEF epochs, y
  <2>1. y \in Queues /\ y.of = x.of /\ y.seq = x.seq /\ y.blocked = x.blocked /\ y.delayed = x.delayed
        /\ y.gen = x.gen /\ y.ready = x.ready
    BY <1>0 DEF QOK, Queues
  <2> QED
    BY <2>1 DEF QOK, Numbered, Bounded, Waits, Cared
<1>2. y.broken = x.broken /\ y.blocked = x.blocked
  BY DEF QOK, Queues
<1>3. CASE y.blocked[r] = None
  <2>1. DropPending(x, r) = Wake(y)
    BY <1>3 DEF DropPending
  <2>2. Keeps(y, Wake(y)) /\ Wake(y).wake /\ Wake(y) = [y EXCEPT !.wake = TRUE]
    BY <1>1, WakeKeeps
  <2>3. Keeps(x, Wake(y))
    <3> HIDE DEF y
    <3> QED
      BY <2>2, <1>1, <1>2 DEF Keeps
  <2> QED
    BY <2>1, <2>2, <2>3 DEF QOK, Queues
<1>4. CASE y.blocked[r] # None
  <2> DEFINE u == [y EXCEPT !.blocked[r] = None, !.gen[r] = @ + 1]
             z == ScheduleHead(u, r)
  <2>1. DropPending(x, r) = Wake(z)
    BY <1>4 DEF DropPending
  <2>2. QOK(u)
    <3>0. /\ [y.blocked EXCEPT ![r] = None] \in [Roles -> Nat \cup {None}]
          /\ [y.gen EXCEPT ![r] = @ + 1] \in [Roles -> Nat]
          /\ u = [y EXCEPT !.blocked = [y.blocked EXCEPT ![r] = None], !.gen = [y.gen EXCEPT ![r] = @ + 1]]
      <4> HIDE DEF y
      <4> QED
        BY <1>1 DEF QOK, Queues
    <3>1. u \in Queues
      <4> HIDE DEF y, u
      <4> QED
        BY <1>1, <3>0 DEF QOK, Queues
    <3>2. Numbered(u) /\ Bounded(u)
      BY <1>1 DEF QOK, Numbered, Bounded, Queues
    <3>3. Waits(u)
      <4>1. \A s \in Roles : u.blocked[s] # None => s # r /\ u.blocked[s] = y.blocked[s] /\ u.gen[s] = y.gen[s]
        <5> HIDE DEF y, u
        <5> QED
          BY <1>1, <3>0 DEF QOK, Queues
      <4>2. u.delayed = y.delayed
        <5> HIDE DEF y, u
        <5> QED
          BY <1>1, <3>0 DEF QOK, Queues
      <4> HIDE DEF y, u
      <4> QED
        BY <1>1, <4>1, <4>2 DEF QOK, Waits
    <3> QED
      BY <3>1, <3>2, <3>3 DEF QOK
  <2>3. \A s \in Roles \ {r} : Cared(x, s) => Cared(u, s)
    BY DEF QOK, Queues, Cared
  <2>4. QOK(z) /\ Cared(z, r) /\ (\A s \in Roles : Cared(u, s) => Cared(z, s)) /\ z = [u EXCEPT !.ready = z.ready]
    BY <2>2, ScheduleHeadKeeps
  <2>5. z.broken = x.broken
    BY <2>4, <2>2, <1>1, <1>2, ZenonT(40) DEF QOK, Queues
  <2>6. Keeps(z, Wake(z)) /\ Wake(z).wake /\ Wake(z) = [z EXCEPT !.wake = TRUE]
    BY <2>4, WakeKeeps
  <2>7. Keeps(x, Wake(z))
    <3> HIDE DEF z, u
    <3> QED
      BY <2>3, <2>4, <2>5, <2>6 DEF Keeps
  <2>8. Wake(z) = [x EXCEPT !.epoch[r] = @ + 1, !.blocked = Wake(z).blocked, !.gen = Wake(z).gen,
                            !.ready = Wake(z).ready, !.wake = TRUE]
    <3>1. u = [x EXCEPT !.epoch = epochs, !.blocked = u.blocked, !.gen = u.gen]
      <4> HIDE DEF epochs
      <4> QED
        BY <1>0 DEF QOK, Queues
    <3>2. u \in Queues /\ z \in Queues
      BY <2>2, <2>4 DEF QOK
    <3>3. Wake(z) = [x EXCEPT !.epoch = epochs, !.blocked = Wake(z).blocked, !.gen = Wake(z).gen,
                              !.ready = Wake(z).ready, !.wake = TRUE]
      <4>1. z = [x EXCEPT !.epoch = epochs, !.blocked = z.blocked, !.gen = z.gen, !.ready = z.ready]
        <5>1. z.blocked = u.blocked /\ z.gen = u.gen
          <6> HIDE DEF u, z
          <6> QED
            BY <2>4, <3>2 DEF Queues
        <5> HIDE DEF u, z, epochs
        <5> QED
          BY <2>4, <3>1, <3>2, <5>1 DEF QOK, Queues
      <4>2. x \in Queues
        BY DEF QOK
      <4> HIDE DEF u, z, epochs
      <4> QED
        BY <2>6, <3>2, <4>1, <4>2 DEF Queues
    <3> QED
      BY <3>3
  <2> QED
    BY <2>1, <2>6, <2>7, <2>8
<1> QED
  BY <1>3, <1>4

LEMMA SendPriorityKeeps ==
  ASSUME NEW x, QOK(x), NEW e \in Urgent
  PROVE  Keeps(x, SendPriority(x, e))
<1>1. CASE Len(x.prio) >= MaxPending
  BY <1>1, OverflowKeeps DEF SendPriority
<1>2. CASE ~(Len(x.prio) >= MaxPending)
  <2> DEFINE p == Append(x.prio, e)
             k == x.seq + 1
             y == [x EXCEPT !.prio = p, !.seq = k]
  <2>1. x \in Queues /\ x.seq \in Nat /\ x.prio \in Seq(Urgent)
    BY DEF QOK, Queues
  <2>2. p \in Seq(Urgent)
    <3> HIDE DEF Urgent
    <3> QED
      BY <2>1
  <2>8. k \in Nat /\ x.seq < k
    BY <2>1
  <2> HIDE DEF p, k
  <2>3. y \in Queues /\ y.of = x.of /\ y.seq = k /\ y.ready = x.ready /\ y.gen = x.gen
        /\ y.blocked = x.blocked /\ y.delayed = x.delayed /\ y.broken = x.broken
    BY <2>1, <2>2, <2>8 DEF Queues
  <2> HIDE DEF y
  <2>4. QOK(y)
    <3>1. \A r \in Roles : \A f \in x.of[r] : f.seq \in Nat
      BY <2>1 DEF Queues, Entries
    <3>2. Numbered(y)
      BY <2>1, <2>8, <2>3, <3>1 DEF QOK, Numbered
    <3> QED
      BY <2>3, <3>2 DEF QOK, Bounded, Waits
  <2>5. \A s \in Roles : Cared(x, s) => Cared(y, s)
    BY <2>3 DEF Cared
  <2>6. Keeps(y, Wake(y)) /\ Wake(y).wake
    BY <2>4, WakeKeeps
  <2>7. SendPriority(x, e) = Wake(y)
    BY <1>2 DEF SendPriority, y, p, k
  <2> QED
    BY <2>3, <2>5, <2>6, <2>7 DEF Keeps
<1> QED
  BY <1>1, <1>2

LEMMA LaterOf ==
  ASSUME NEW a \in Nat, NEW b \in Nat
  PROVE  Max({a, b}) = IF a <= b THEN b ELSE a
<1>1. \E m \in {a, b} : \A n \in {a, b} : m >= n
  BY SMT
<1> QED
  BY <1>1 DEF Max

LEMMA KeepsRefl ==
  ASSUME NEW x, QOK(x)
  PROVE  Keeps(x, x)
  BY DEF Keeps, SameWork

\* Fewer entries, the same timers.
LEMMA FewerKeeps ==
  ASSUME NEW x, QOK(x), NEW r \in Roles, NEW es \in SUBSET x.of[r]
  PROVE  /\ QOK([x EXCEPT !.of[r] = es])
         /\ \A s \in Roles : Cared(x, s) => Cared([x EXCEPT !.of[r] = es], s)
         /\ [x EXCEPT !.of[r] = es] = [x EXCEPT !.of = [x.of EXCEPT ![r] = es]]
<1> DEFINE ofs == [x.of EXCEPT ![r] = es]
           y == [x EXCEPT !.of[r] = es]
<1>1. x \in Queues /\ x.of \in [Roles -> SUBSET Entries]
  BY DEF QOK, Queues
<1>2. ofs \in [Roles -> SUBSET Entries] /\ y = [x EXCEPT !.of = ofs]
        /\ \A s \in Roles : ofs[s] \subseteq x.of[s]
  BY <1>1 DEF Queues
<1> HIDE DEF ofs, y
<1>3. y \in Queues /\ y.of = ofs /\ y.seq = x.seq /\ y.blocked = x.blocked /\ y.delayed = x.delayed
        /\ y.gen = x.gen /\ y.ready = x.ready
  BY <1>1, <1>2 DEF Queues
<1>4. Numbered(y)
  BY <1>2, <1>3 DEF QOK, Numbered
<1>5. Bounded(y)
  <2> SUFFICES ASSUME NEW s \in Roles PROVE IsFiniteSet(ofs[s]) /\ Cardinality(ofs[s]) <= MaxPending
    BY <1>3 DEF Bounded
  <2>1. IsFiniteSet(x.of[s]) /\ Cardinality(x.of[s]) <= MaxPending /\ ofs[s] \subseteq x.of[s]
    BY <1>2 DEF QOK, Bounded
  <2>2. IsFiniteSet(ofs[s]) /\ Cardinality(ofs[s]) <= Cardinality(x.of[s])
    BY <2>1, FS_Subset
  <2>3. Cardinality(ofs[s]) \in Nat /\ Cardinality(x.of[s]) \in Nat
    BY <2>1, <2>2, FS_CardinalityType
  <2> QED
    BY <2>1, <2>2, <2>3, WriterAssumption
<1>6. Waits(y)
  BY <1>3 DEF QOK, Waits
<1>7. \A s \in Roles : Cared(x, s) => Cared(y, s)
  BY <1>2, <1>3 DEF Cared
<1> QED
  BY <1>2, <1>3, <1>4, <1>5, <1>6, <1>7 DEF QOK, y, ofs

LEMMA SupersedeKeeps ==
  ASSUME NEW x, QOK(x), NEW r \in Roles
  PROVE  /\ QOK(Supersede(x, r))
         /\ \A s \in Roles : Cared(x, s) => Cared(Supersede(x, r), s)
         /\ Supersede(x, r) = [x EXCEPT !.of = [x.of EXCEPT
                ![r] = {e \in x.of[r] : e.kind \notin {"start", "clear"}}]]
<1> DEFINE es == {e \in x.of[r] : e.kind \notin {"start", "clear"}}
<1>1. Supersede(x, r) = [x EXCEPT !.of[r] = es]
  BY DEF Supersede
<1>2. es \in SUBSET x.of[r]
  OBVIOUS
<1>3. /\ QOK([x EXCEPT !.of[r] = es])
      /\ \A s \in Roles : Cared(x, s) => Cared([x EXCEPT !.of[r] = es], s)
      /\ [x EXCEPT !.of[r] = es] = [x EXCEPT !.of = [x.of EXCEPT ![r] = es]]
  <2> HIDE DEF es
  <2> QED
    BY <1>2, FewerKeeps
<1> QED
  BY <1>1, <1>3

LEMMA FullOrNot ==
  ASSUME NEW x, QOK(x), NEW r \in Roles, ~IsFull(x, r)
  PROVE  Cardinality(x.of[r]) < MaxPending
<1>1. Cardinality(x.of[r]) \in Nat
  BY FS_CardinalityType DEF QOK, Bounded
<1> QED
  BY <1>1, WriterAssumption DEF IsFull

Messages(r) == [ts : Nat, seq : Nat, play : Nat, kind : Kinds \ {"chunk"}, role : {r}, n : Nat, epoch : Nat]

LEMMA LastTsKeeps ==
  ASSUME NEW x, QOK(x), NEW r \in Roles, NEW ts \in Nat
  PROVE  /\ QOK([x EXCEPT !.lastTs[r] = ts]) /\ SameWork(x, [x EXCEPT !.lastTs[r] = ts])
         /\ [x EXCEPT !.lastTs[r] = ts].broken = x.broken /\ [x EXCEPT !.lastTs[r] = ts].wake = x.wake
         /\ \A s \in Roles : Cared(x, s) => Cared([x EXCEPT !.lastTs[r] = ts], s)
         /\ [x EXCEPT !.lastTs[r] = ts] = [x EXCEPT !.lastTs = [x.lastTs EXCEPT ![r] = ts]]
<1> DEFINE last == [x.lastTs EXCEPT ![r] = ts]
           y == [x EXCEPT !.lastTs[r] = ts]
<1>1. last \in [Roles -> Nat] /\ y = [x EXCEPT !.lastTs = last]
  BY DEF QOK, Queues
<1> HIDE DEF last, y
<1>2. y \in Queues /\ y.of = x.of /\ y.seq = x.seq /\ y.blocked = x.blocked /\ y.delayed = x.delayed
        /\ y.gen = x.gen /\ y.ready = x.ready /\ y.prio = x.prio /\ y.broken = x.broken /\ y.wake = x.wake
  BY <1>1 DEF QOK, Queues
<1>3. QOK(y)
  BY <1>2 DEF QOK, Numbered, Bounded, Waits
<1> QED
  BY <1>1, <1>2, <1>3 DEF Cared, SameWork, last, y

\* Placing an entry at a time of its own.
LEMMA PlaceKeeps ==
  ASSUME NEW x, QOK(x), NEW r \in Roles, NEW ts \in Nat, NEW e \in Entries, e.role = r, ~IsFull(x, r)
  PROVE  Keeps(x, Enqueue([x EXCEPT !.lastTs[r] = ts], e)) /\ Enqueue([x EXCEPT !.lastTs[r] = ts], e).wake
<1> DEFINE y == [x EXCEPT !.lastTs[r] = ts]
<1>1. QOK(y) /\ SameWork(x, y) /\ y.broken = x.broken /\ y.wake = x.wake
      /\ \A s \in Roles : Cared(x, s) => Cared(y, s)
  BY LastTsKeeps, SMTT(30)
<1>2. Cardinality(y.of[r]) < MaxPending
  <2> HIDE DEF y
  <2> QED
    BY <1>1, FullOrNot DEF SameWork
<1> HIDE DEF y
<1>3. Keeps(y, Enqueue(y, e)) /\ Enqueue(y, e).wake
  BY <1>1, <1>2, EnqueueKeeps
<1>4. Keeps(x, y)
  BY <1>1 DEF Keeps
<1> QED
  BY <1>3, <1>4, KeepsTrans DEF y

LEMMA EnqueueMessageKeeps ==
  ASSUME NEW x, QOK(x), NEW r \in Roles, NEW e \in Messages(r), NEW retiring \in BOOLEAN, now \in Nat
  PROVE  Keeps(x, EnqueueMessage(x, r, e, retiring))
<1>0. x.lastTs[r] \in Nat /\ x.epoch[r] \in Nat
  BY DEF QOK, Queues
<1>1. CASE retiring
  <2>1. e \in Urgent
    BY DEF Messages, Urgent, Entries
  <2> QED
    BY <1>1, <2>1, SendPriorityKeeps DEF EnqueueMessage
<1>2. CASE ~retiring /\ IsFull(x, r)
  BY <1>2, OverflowKeeps DEF EnqueueMessage
<1>3. CASE ~retiring /\ ~IsFull(x, r)
  <2> DEFINE ts == CASE e.kind = "end" -> now
                     [] e.kind = "start" -> Max({now, x.lastTs[r]})
                     [] OTHER -> x.lastTs[r]
             at == IF e.kind = "clear" THEN x.lastTs[r] ELSE ts
             f == [e EXCEPT !.ts = ts, !.epoch = x.epoch[r]]
  <2>1. ts \in Nat /\ at \in Nat
    BY <1>0, LaterOf
  <2>2. EnqueueMessage(x, r, e, retiring) = Enqueue([x EXCEPT !.lastTs[r] = at], f)
    BY <1>3 DEF EnqueueMessage
  <2>3. f \in Entries /\ f.role = r
    <3> HIDE DEF ts
    <3> QED
      BY <2>1, <1>0 DEF Messages, Entries
  <2> HIDE DEF ts, at, f
  <2> QED
    BY <2>1, <2>2, <2>3, <1>3, PlaceKeeps
<1> QED
  BY <1>1, <1>2, <1>3

LEMMA SendBinaryKeeps ==
  ASSUME NEW x, QOK(x), NEW r \in Roles, NEW ts \in Nat, NEW n \in Nat
  PROVE  Keeps(x, SendBinary(x, r, ts, n))
<1>0. x.lastTs[r] \in Nat /\ x.epoch[r] \in Nat
  BY DEF QOK, Queues
<1>1. CASE IsFull(x, r)
  BY <1>1, OverflowKeeps DEF SendBinary
<1>2. CASE ~IsFull(x, r)
  <2> DEFINE at == Max({ts, x.lastTs[r]})
             f == [NoEntry EXCEPT !.ts = at, !.play = ts, !.kind = "chunk", !.role = r,
                                  !.n = n, !.epoch = x.epoch[r]]
  <2>1. at \in Nat
    BY <1>0, LaterOf
  <2>2. SendBinary(x, r, ts, n) = Enqueue([x EXCEPT !.lastTs[r] = at], f)
    BY <1>2 DEF SendBinary
  <2>3. f \in Entries /\ f.role = r
    <3> HIDE DEF at
    <3> QED
      BY <2>1, <1>0 DEF NoEntry, Entries, Kinds
  <2> HIDE DEF at, f
  <2> QED
    BY <2>1, <2>2, <2>3, <1>2, PlaceKeeps
<1> QED
  BY <1>1, <1>2

LEMMA SendRoleMessageKeeps ==
  ASSUME NEW x, QOK(x), NEW r \in Roles, NEW k \in Kinds \ {"chunk"}, NEW n \in Nat, NEW retiring \in BOOLEAN,
         now \in Nat
  PROVE  Keeps(x, SendRoleMessage(x, r, k, n, retiring))
<1> DEFINE e == [NoEntry EXCEPT !.kind = k, !.role = r, !.n = n]
           y == IF k \in {"clear", "end"} THEN DropPending(x, r) ELSE x
           z == IF k = "end" THEN Supersede(y, r) ELSE y
<1>1. e \in Messages(r)
  BY DEF NoEntry, Messages
<1>2. Keeps(x, y) /\ QOK(y) /\ (k = "end" => y.wake)
  BY DropPendingKeeps, KeepsRefl DEF Keeps
<1>3. Keeps(x, z) /\ QOK(z)
  <2>1. CASE k = "end"
    <3>0. z = Supersede(y, r) /\ y.wake
      BY <1>2, <2>1
    <3> HIDE DEF y, z
    <3>1. QOK(z) /\ (\A s \in Roles : Cared(y, s) => Cared(z, s)) /\ z.broken = y.broken /\ z.wake = y.wake
      <4>1. z = [y EXCEPT !.of = [y.of EXCEPT ![r] = {g \in y.of[r] : g.kind \notin {"start", "clear"}}]]
            /\ QOK(z) /\ \A s \in Roles : Cared(y, s) => Cared(z, s)
        BY <3>0, <1>2, SupersedeKeeps
      <4>2. y \in Queues
        BY <1>2 DEF QOK
      <4> DEFINE ofs == [y.of EXCEPT ![r] = {g \in y.of[r] : g.kind \notin {"start", "clear"}}]
      <4>3. z = [y EXCEPT !.of = ofs]
        BY <4>1
      <4> HIDE DEF ofs
      <4> QED
        BY <4>1, <4>2, <4>3 DEF Queues
    <3> QED
      BY <3>0, <3>1, <1>2 DEF Keeps
  <2>2. CASE k # "end"
    <3>1. z = y
      BY <2>2
    <3> QED
      BY <3>1, <1>2
  <2> QED
    BY <2>1, <2>2
<1>4. Keeps(z, EnqueueMessage(z, r, e, retiring))
  <2> HIDE DEF e, z
  <2> QED
    BY <1>1, <1>3, EnqueueMessageKeeps
<1>5. SendRoleMessage(x, r, k, n, retiring) = IF k = "end" /\ ~EndOwed(z, r) THEN z
                                            ELSE EnqueueMessage(z, r, e, retiring)
  BY DEF SendRoleMessage
<1> HIDE DEF e, z
<1> QED
  BY <1>3, <1>4, <1>5, KeepsTrans

-----------------------------------------------------------------------------
(* The folds: held chunks in their order, retiring roles one by one.         *)

HeldStep(x, r, g, i) ==
    IF i = 0 THEN [x EXCEPT !.held[r] = <<>>] ELSE SendHeld(g[i - 1], r, x.held[r][i])

LEMMA HeldPath ==
  ASSUME NEW x, QOK(x), NEW r \in Roles
  PROVE  \E g : /\ g = [i \in 0..Len(x.held[r]) |-> HeldStep(x, r, g, i)]
                /\ Flushed(x, r) = g[Len(x.held[r])]
<1> DEFINE n == Len(x.held[r])
           IsPath(g, m) == g = [i \in 0..m |-> HeldStep(x, r, g, i)]
           bad == {m \in Nat : m <= n /\ ~\E g : IsPath(g, m)}
<1>1. n \in Nat
  BY DEF QOK, Queues
<1>2. bad = {}
  <2> SUFFICES ASSUME bad # {} PROVE FALSE
    OBVIOUS
  <2>1. PICK m \in bad : \A k \in bad : m <= k
    <3>1. bad \in SUBSET Nat
      OBVIOUS
    <3> HIDE DEF bad
    <3> QED
      BY <3>1, LeastOf
  <2>2. CASE m = 0
    <3> DEFINE g == [i \in 0..0 |-> [x EXCEPT !.held[r] = <<>>]]
    <3>1. IsPath(g, 0)
      BY DEF HeldStep
    <3> QED
      BY <3>1, <2>1, <2>2
  <2>3. CASE m # 0
    <3>1. m \in Nat /\ m - 1 \in Nat /\ m <= n /\ m - 1 \notin bad
      BY <2>1, <2>3
    <3>2. PICK g : IsPath(g, m - 1)
      BY <3>1, <1>1
    <3> DEFINE h == [i \in 0..m |-> IF i < m THEN g[i] ELSE HeldStep(x, r, g, m)]
    <3>3. \A i \in 0..m : HeldStep(x, r, h, i) = h[i]
      <4> SUFFICES ASSUME NEW i \in 0..m PROVE HeldStep(x, r, h, i) = h[i]
        OBVIOUS
      <4>1. CASE i = 0
        BY <4>1, <3>1, <3>2, <2>3 DEF HeldStep
      <4>2. CASE i # 0
        <5>1. i - 1 \in 0..m /\ i - 1 < m /\ h[i - 1] = g[i - 1]
          BY <4>2, <3>1
        <5>2. HeldStep(x, r, h, i) = HeldStep(x, r, g, i)
          BY <5>1, <4>2 DEF HeldStep
        <5>3. CASE i < m
          BY <5>2, <5>3, <3>1, <3>2
        <5>4. CASE i = m
          BY <5>2, <5>4
        <5> QED
          BY <5>3, <5>4, <3>1
      <4> QED
        BY <4>1, <4>2
    <3>4. h = [i \in 0..m |-> HeldStep(x, r, h, i)]
      BY <3>3
    <3> QED
      BY <3>4, <2>1
  <2> QED
    BY <2>2, <2>3
<1>3. \E g : IsPath(g, n)
  BY <1>1, <1>2
<1> DEFINE h == CHOOSE g : IsPath(g, n)
<1>4. IsPath(h, n)
  BY <1>3
<1>5. Flushed(x, r) = h[n]
  BY DEF Flushed, HeldStep
<1> QED
  BY <1>4, <1>5

LEMMA SendHeldKeeps ==
  ASSUME NEW x, QOK(x), NEW r \in Roles, NEW c \in HeldChunks
  PROVE  Keeps(x, SendHeld(x, r, c))
  BY SendBinaryKeeps, KeepsRefl DEF SendHeld, HeldChunks

LEMMA FlushedKeeps ==
  ASSUME NEW x, QOK(x), NEW r \in Roles
  PROVE  Keeps(x, Flushed(x, r))
<1>1. PICK g : /\ g = [i \in 0..Len(x.held[r]) |-> HeldStep(x, r, g, i)]
               /\ Flushed(x, r) = g[Len(x.held[r])]
  BY HeldPath
<1> DEFINE n == Len(x.held[r])
           bad == {m \in Nat : m <= n /\ ~Keeps(x, g[m])}
<1>2. n \in Nat /\ \A i \in 1..n : x.held[r][i] \in HeldChunks
  BY DEF QOK, Queues
<1>3. bad = {}
  <2> SUFFICES ASSUME bad # {} PROVE FALSE
    OBVIOUS
  <2>1. PICK m \in bad : \A k \in bad : m <= k
    <3>1. bad \in SUBSET Nat
      OBVIOUS
    <3> HIDE DEF bad
    <3> QED
      BY <3>1, LeastOf
  <2>2. m \in Nat /\ m <= n /\ ~Keeps(x, g[m]) /\ g[m] = HeldStep(x, r, g, m)
    BY <1>1, <1>2, <2>1
  <2>3. CASE m = 0
    <3> DEFINE helds == [x.held EXCEPT ![r] = <<>>]
               y == [x EXCEPT !.held[r] = <<>>]
    <3>1. helds \in [Roles -> Seq(HeldChunks)] /\ y = [x EXCEPT !.held = helds]
      BY DEF QOK, Queues
    <3>2. g[m] = y
      BY <2>2, <2>3 DEF HeldStep
    <3> HIDE DEF helds, y
    <3>3. y \in Queues /\ SameWork(x, y) /\ y.broken = x.broken /\ y.wake = x.wake /\ y.seq = x.seq /\ y.gen = x.gen
      BY <3>1 DEF QOK, Queues, SameWork
    <3>4. Keeps(x, y)
      BY <3>3 DEF Keeps, QOK, Numbered, Bounded, Waits, Cared, SameWork
    <3> QED
      BY <3>2, <3>4, <2>2
  <2>4. CASE m # 0
    <3>1. m - 1 \in Nat /\ m - 1 <= n /\ m - 1 \notin bad /\ m \in 1..n
      BY <2>1, <2>2, <2>4, <1>2
    <3>2. Keeps(x, g[m - 1])
      BY <3>1
    <3>3. g[m] = SendHeld(g[m - 1], r, x.held[r][m])
      BY <2>2, <2>4 DEF HeldStep
    <3>4. Keeps(g[m - 1], g[m])
      BY <3>2, <3>3, <1>2, <3>1, SendHeldKeeps DEF Keeps
    <3> QED
      BY <3>2, <3>4, <2>2, KeepsTrans
  <2> QED
    BY <2>3, <2>4
<1>4. Keeps(x, g[n])
  BY <1>2, <1>3
<1> QED
  BY <1>1, <1>4

\* A finite set of entries with numbers of their own has a last one.
LEMMA LastExists ==
  ASSUME NEW es, es # {}, IsFiniteSet(es), \A e \in es : e.ts \in Nat /\ e.seq \in Nat,
         \A e, f \in es : e.seq = f.seq => e = f
  PROVE  \E e \in es : \A f \in es \ {e} : Before(f, e)
<1>1. PICK all \in Seq(es) : \A e \in es : \E i \in 1..Len(all) : all[i] = e
  BY DEF IsFiniteSet
<1>2. PICK n \in Nat : n = Len(all) /\ \A i \in 1..n : all[i] \in es
  OBVIOUS
<1> DEFINE Final(e, k) == \A i \in 1..k : all[i] = e \/ Before(all[i], e)
           bad == {k \in Nat : k <= n /\ ~\E e \in es : Final(e, k)}
<1>3. bad = {}
  <2> SUFFICES ASSUME bad # {} PROVE FALSE
    OBVIOUS
  <2>1. PICK m \in bad : \A k \in bad : m <= k
    <3>1. bad \in SUBSET Nat
      OBVIOUS
    <3> HIDE DEF bad
    <3> QED
      BY <3>1, LeastOf
  <2>2. m \in Nat /\ m <= n /\ ~\E e \in es : Final(e, m)
    BY <2>1
  <2>3. m # 0
    BY <2>2
  <2>4. m - 1 \in Nat /\ m - 1 <= n /\ m - 1 \notin bad /\ m \in 1..n
    <3>1. m - 1 \in Nat /\ m - 1 < m /\ m - 1 <= n /\ m \in 1..n
      BY <2>2, <2>3
    <3> HIDE DEF bad
    <3> QED
      BY <2>1, <3>1
  <2>5. PICK e \in es : Final(e, m - 1)
    BY <2>4
  <2> DEFINE f == all[m]
  <2>6. f \in es
    BY <1>2, <2>4
  <2>7. \A i \in 1..m : i = m \/ i \in 1..(m - 1)
    BY <2>2
  <2>8. \A i \in 1..m : all[i] \in es
    <3>1. \A i \in 1..m : i \in 1..n
      BY <2>2
    <3> QED
      BY <1>2, <3>1
  <2>9. CASE f = e \/ Before(f, e)
    <3>1. Final(e, m)
      BY <2>5, <2>7, <2>9
    <3> QED
      BY <3>1, <2>2
  <2>10. CASE ~(f = e \/ Before(f, e))
    <3>1. Before(e, f)
      <4> HIDE DEF f, Final, bad
      <4> QED
        BY <2>6, <2>10 DEF Before
    <3>2. Final(f, m)
      <4> SUFFICES ASSUME NEW i \in 1..m PROVE all[i] = f \/ Before(all[i], f)
        OBVIOUS
      <4>1. CASE i = m
        BY <4>1
      <4>2. CASE i # m
        <5>1. all[i] = e \/ Before(all[i], e)
          BY <2>5, <2>7, <4>2
        <5>2. all[i] \in es
          BY <2>8
        <5> HIDE DEF f, Final
        <5> QED
          BY <3>1, <5>1, <5>2, <2>6, SMTT(30) DEF Before
      <4> QED
        BY <4>1, <4>2
    <3> QED
      BY <3>2, <2>2, <2>6
  <2> QED
    BY <2>9, <2>10
<1>4. n \notin bad
  BY <1>3
<1>5. PICK e \in es : Final(e, n)
  BY <1>4
<1>6. \A f \in es \ {e} : Before(f, e)
  BY <1>1, <1>2, <1>5
<1> QED
  BY <1>6

LEMMA DiscardRoleQueueKeeps ==
  ASSUME NEW x, QOK(x), NEW r \in Roles
  PROVE  Keeps(x, DiscardRoleQueue(x, r))
<1> DEFINE life == {e \in x.of[r] : e.kind \in {"start", "end"}}
           newest == CHOOSE e \in life : \A f \in life \ {e} : Before(f, e)
           u == [x EXCEPT !.of[r] = {}]
           y == [x EXCEPT !.of[r] = {}, !.lastTs[r] = 0]
           z == IF life # {} /\ newest.kind = "end" THEN SendPriority(y, newest) ELSE y
<1>1. QOK(u) /\ (\A s \in Roles : Cared(x, s) => Cared(u, s)) /\ u = [x EXCEPT !.of = [x.of EXCEPT ![r] = {}]]
  BY FewerKeeps
<1>2. QOK(y) /\ (\A s \in Roles : Cared(x, s) => Cared(y, s)) /\ y.broken = x.broken
  <2>1. y = [u EXCEPT !.lastTs[r] = 0] /\ u.broken = x.broken
    BY DEF QOK, Queues
  <2> HIDE DEF u, y
  <2>2. QOK(y) /\ y.broken = u.broken /\ \A s \in Roles : Cared(u, s) => Cared(y, s)
    <3>1. PICK zero \in Nat : zero = 0
      OBVIOUS
    <3>2. y = [u EXCEPT !.lastTs[r] = zero]
      BY <2>1, <3>1
    <3>3. QOK(u)
      BY <1>1
    <3>4. QOK([u EXCEPT !.lastTs[r] = zero])
      BY <3>3, LastTsKeeps
    <3>5. [u EXCEPT !.lastTs[r] = zero].broken = u.broken
      BY <3>3, LastTsKeeps
    <3>6. \A s \in Roles : Cared(u, s) => Cared([u EXCEPT !.lastTs[r] = zero], s)
      BY <3>3, LastTsKeeps
    <3> QED
      BY <3>2, <3>4, <3>5, <3>6
  <2> QED
    BY <1>1, <2>1, <2>2
<1>3. QOK(z) /\ (\A s \in Roles : Cared(x, s) => Cared(z, s)) /\ (x.broken => z.broken)
  <2>1. CASE life # {} /\ newest.kind = "end"
    <3>1. newest \in Urgent
      <4>1. \A e \in life : e \in Entries
        BY DEF QOK, Queues
      <4>2. life # {} /\ \A e, f \in life : e.seq = f.seq => e = f
        BY <2>1 DEF QOK, Numbered
      <4>3. \E e \in life : \A f \in life \ {e} : Before(f, e)
        <5>1. IsFiniteSet(life)
          <6>1. IsFiniteSet(x.of[r])
            BY DEF QOK, Bounded
          <6> QED
            BY <6>1, FS_Subset
        <5> HIDE DEF life
        <5> QED
          BY <4>1, <4>2, <5>1, LastExists DEF Entries
      <4> HIDE DEF life
      <4>4. newest \in life
        BY <4>3
      <4> QED
        BY <4>1, <4>4 DEF Urgent
    <3>2. z = SendPriority(y, newest)
      BY <2>1
    <3> HIDE DEF newest, y, z
    <3> QED
      BY <3>1, <3>2, <1>2, SendPriorityKeeps DEF Keeps
  <2>2. CASE ~(life # {} /\ newest.kind = "end")
    <3>1. z = y
      BY <2>2
    <3> QED
      BY <3>1, <1>2
  <2> QED
    BY <2>1, <2>2
<1>4. DiscardRoleQueue(x, r) = DropPending(z, r)
  BY DEF DiscardRoleQueue
<1> HIDE DEF z
<1>5. Keeps(z, DropPending(z, r)) /\ DropPending(z, r).wake
  BY <1>3, DropPendingKeeps
<1> QED
  BY <1>3, <1>4, <1>5 DEF Keeps

LEMMA RetireKeeps ==
  ASSUME NEW x, QOK(x), NEW r \in Roles, role[r].n \in Nat, now \in Nat
  PROVE  Keeps(x, Retire(x, r))
<1> DEFINE y == DiscardRoleQueue(x, r)
<1>1. Keeps(x, y) /\ QOK(y)
  BY DiscardRoleQueueKeeps DEF Keeps
<1> HIDE DEF y
<1>2. Keeps(y, SendRoleMessage(y, r, "end", role[r].n, TRUE))
  BY <1>1, SendRoleMessageKeeps DEF Kinds
<1>3. Retire(x, r) = IF role[r].started THEN SendRoleMessage(y, r, "end", role[r].n, TRUE) ELSE y
  BY DEF Retire, y
<1> QED
  BY <1>1, <1>2, <1>3, KeepsTrans

\* SetToSeq lists the members of a finite set.
LEMMA OrderIsThere ==
  ASSUME NEW rs, IsFiniteSet(rs)
  PROVE  /\ SetToSeq(rs) \in [1..Cardinality(rs) -> rs] /\ Cardinality(rs) \in Nat
         /\ Len(SetToSeq(rs)) = Cardinality(rs)
         /\ \A i, j \in 1..Cardinality(rs) : SetToSeq(rs)[i] = SetToSeq(rs)[j] => i = j
<1>1. Cardinality(rs) \in Nat /\ ExistsBijection(1..Cardinality(rs), rs)
  BY FS_CardinalityType
<1>2. \E f \in [1..Cardinality(rs) -> rs] : IsInjective(f)
  BY <1>1 DEF ExistsBijection, Bijection, Injection
<1>3. SetToSeq(rs) \in [1..Cardinality(rs) -> rs] /\ IsInjective(SetToSeq(rs))
  BY <1>2 DEF SetToSeq
<1> QED
  BY <1>1, <1>3 DEF IsInjective

RetireStep(x, order, g, i) == IF i = 0 THEN x ELSE Retire(g[i - 1], order[i])

LEMMA RetirePath ==
  ASSUME NEW x, NEW rs, IsFiniteSet(rs)
  PROVE  \E g : /\ g = [i \in 0..Cardinality(rs) |-> RetireStep(x, SetToSeq(rs), g, i)]
                /\ RetireAll(x, rs) = g[Cardinality(rs)]
<1> DEFINE n == Cardinality(rs)
           order == SetToSeq(rs)
           IsPath(g, m) == g = [i \in 0..m |-> RetireStep(x, order, g, i)]
           bad == {m \in Nat : m <= n /\ ~\E g : IsPath(g, m)}
<1>1. n \in Nat /\ Len(order) = n
  BY OrderIsThere
<1>2. bad = {}
  <2> SUFFICES ASSUME bad # {} PROVE FALSE
    OBVIOUS
  <2>1. PICK m \in bad : \A k \in bad : m <= k
    <3>1. bad \in SUBSET Nat
      OBVIOUS
    <3> HIDE DEF bad
    <3> QED
      BY <3>1, LeastOf
  <2>2. CASE m = 0
    <3> DEFINE g == [i \in 0..0 |-> x]
    <3>1. IsPath(g, 0)
      BY DEF RetireStep
    <3> QED
      BY <3>1, <2>1, <2>2
  <2>3. CASE m # 0
    <3>1. m \in Nat /\ m - 1 \in Nat /\ m <= n /\ m - 1 \notin bad
      BY <2>1, <2>3
    <3>2. PICK g : IsPath(g, m - 1)
      BY <3>1, <1>1
    <3> DEFINE h == [i \in 0..m |-> IF i < m THEN g[i] ELSE RetireStep(x, order, g, m)]
    <3>3. \A i \in 0..m : RetireStep(x, order, h, i) = h[i]
      <4> SUFFICES ASSUME NEW i \in 0..m PROVE RetireStep(x, order, h, i) = h[i]
        OBVIOUS
      <4>1. CASE i = 0
        BY <4>1, <3>1, <3>2, <2>3 DEF RetireStep
      <4>2. CASE i # 0
        <5>1. i - 1 \in 0..m /\ i - 1 < m /\ h[i - 1] = g[i - 1]
          BY <4>2, <3>1
        <5>2. RetireStep(x, order, h, i) = RetireStep(x, order, g, i)
          BY <5>1, <4>2 DEF RetireStep
        <5>3. CASE i < m
          BY <5>2, <5>3, <3>1, <3>2
        <5>4. CASE i = m
          BY <5>2, <5>4
        <5> QED
          BY <5>3, <5>4, <3>1
      <4> QED
        BY <4>1, <4>2
    <3>4. h = [i \in 0..m |-> RetireStep(x, order, h, i)]
      BY <3>3
    <3> QED
      BY <3>4, <2>1
  <2> QED
    BY <2>2, <2>3
<1>3. \E g : IsPath(g, n)
  BY <1>1, <1>2
<1> DEFINE h == CHOOSE g : IsPath(g, n)
<1>4. IsPath(h, n)
  BY <1>3
<1>5. RetireAll(x, rs) = h[n]
  BY <1>1 DEF RetireAll, RetireStep
<1> QED
  BY <1>4, <1>5

LEMMA RetireAllKeeps ==
  ASSUME NEW x, QOK(x), NEW rs \in SUBSET Roles, \A r \in Roles : role[r].n \in Nat, now \in Nat
  PROVE  Keeps(x, RetireAll(x, rs))
<1>0. IsFiniteSet(rs)
  BY WriterAssumption, FS_Subset
<1>1. PICK g : /\ g = [i \in 0..Cardinality(rs) |-> RetireStep(x, SetToSeq(rs), g, i)]
               /\ RetireAll(x, rs) = g[Cardinality(rs)]
  BY <1>0, RetirePath
<1> DEFINE n == Cardinality(rs)
           bad == {m \in Nat : m <= n /\ ~Keeps(x, g[m])}
<1>2. n \in Nat /\ \A i \in 1..n : SetToSeq(rs)[i] \in Roles
  BY <1>0, OrderIsThere
<1>3. bad = {}
  <2> SUFFICES ASSUME bad # {} PROVE FALSE
    OBVIOUS
  <2>1. PICK m \in bad : \A k \in bad : m <= k
    <3>1. bad \in SUBSET Nat
      OBVIOUS
    <3> HIDE DEF bad
    <3> QED
      BY <3>1, LeastOf
  <2>2. m \in Nat /\ m <= n /\ ~Keeps(x, g[m]) /\ g[m] = RetireStep(x, SetToSeq(rs), g, m)
    BY <1>1, <1>2, <2>1
  <2>3. CASE m = 0
    BY <2>2, <2>3, KeepsRefl DEF RetireStep
  <2>4. CASE m # 0
    <3>1. m - 1 \in Nat /\ m - 1 <= n /\ m - 1 \notin bad /\ m \in 1..n
      BY <2>1, <2>2, <2>4, <1>2
    <3>2. Keeps(x, g[m - 1])
      BY <3>1
    <3>3. g[m] = Retire(g[m - 1], SetToSeq(rs)[m])
      BY <2>2, <2>4 DEF RetireStep
    <3>4. Keeps(g[m - 1], g[m])
      BY <3>2, <3>3, <1>2, <3>1, RetireKeeps DEF Keeps
    <3> QED
      BY <3>2, <3>4, <2>2, KeepsTrans
  <2> QED
    BY <2>3, <2>4
<1>4. Keeps(x, g[n])
  BY <1>2, <1>3
<1> QED
  BY <1>1, <1>4

-----------------------------------------------------------------------------
(* The writer.                                                               *)

\* What the writer does to the queues, but for the roles of rs.
Looks(x, y, rs) == QOK(y) /\ \A s \in Roles \ rs : Cared(x, s) => Cared(y, s)

LEMMA PromoteLooks ==
  ASSUME NEW x, QOK(x), now \in Nat
  PROVE  /\ Looks(x, Promote(x), {})
         /\ \E rd, bl, dl : Promote(x) = [x EXCEPT !.delayed = dl, !.blocked = bl, !.ready = rd]
<1> DEFINE due == {d \in x.delayed : d.at <= now}
           free == {r \in Roles : \E d \in due : d.role = r /\ d.gen = x.gen[r] /\ x.blocked[r] = d.at}
           heads == {Ticket(Head1(x.of[r])) : r \in {f \in free : x.of[f] # {}}}
           bl == [r \in Roles |-> IF r \in free THEN None ELSE x.blocked[r]]
           y == [x EXCEPT !.delayed = x.delayed \ due, !.blocked = bl, !.ready = x.ready \cup heads]
<1>1. Promote(x) = y
  BY DEF Promote
<1>2. \A r \in Roles : x.of[r] # {} => Ticket(Head1(x.of[r])) \in Tickets /\ Ticket(Head1(x.of[r])).role = r
  <2> SUFFICES ASSUME NEW r \in Roles, x.of[r] # {}
        PROVE Ticket(Head1(x.of[r])) \in Tickets /\ Ticket(Head1(x.of[r])).role = r
    OBVIOUS
  <2>1. Head1(x.of[r]) \in Entries /\ Head1(x.of[r]).role = r
    BY HeadOfQueue
  <2> QED
    BY <2>1 DEF Ticket, Tickets, Entries
<1>3. heads \subseteq Tickets
  BY <1>2
<1>4. \A r \in free : x.of[r] # {} => \E t \in heads : t.role = r
  BY <1>2
<1>5. x \in Queues /\ bl \in [Roles -> Nat \cup {None}]
  BY DEF QOK, Queues
<1>6. \A r \in Roles : bl[r] # None => r \notin free /\ bl[r] = x.blocked[r]
  OBVIOUS
<1>7. y \in Queues /\ y.of = x.of /\ y.seq = x.seq /\ y.gen = x.gen /\ y.blocked = bl
      /\ y.delayed = x.delayed \ due /\ y.ready = x.ready \cup heads
  <2> HIDE DEF due, free, heads, bl
  <2> QED
    BY <1>3, <1>5 DEF Queues
<1>8. Waits(y)
  <2> SUFFICES ASSUME NEW r \in Roles, bl[r] # None
        PROVE \E d \in x.delayed \ due : d.role = r /\ d.at = bl[r] /\ d.gen = x.gen[r]
    BY <1>7 DEF Waits
  <2>1. PICK d \in x.delayed : d.role = r /\ d.at = x.blocked[r] /\ d.gen = x.gen[r]
    BY <1>6 DEF QOK, Waits
  <2>2. d \notin due
    BY <2>1, <1>6
  <2> QED
    BY <2>1, <2>2, <1>6
<1>9. QOK(y)
  BY <1>7, <1>8 DEF QOK, Numbered, Bounded
<1>10. \A s \in Roles : Cared(x, s) => Cared(y, s)
  <2> SUFFICES ASSUME NEW s \in Roles, Cared(x, s), x.of[s] # {}, bl[s] = None
        PROVE \E t \in x.ready \cup heads : t.role = s
    BY <1>7 DEF Cared
  <2>1. CASE s \in free
    BY <2>1, <1>4
  <2>2. CASE s \notin free
    <3>1. x.blocked[s] = None
      BY <2>2
    <3> QED
      BY <3>1 DEF Cared
  <2> QED
    BY <2>1, <2>2
<1> HIDE DEF y, due, bl, heads, free
<1>11. \E rd, b, dl : y = [x EXCEPT !.delayed = dl, !.blocked = b, !.ready = rd]
  BY DEF y
<1> QED
  BY <1>1, <1>9, <1>10, <1>11 DEF Looks

LEMMA PromoteSame ==
  ASSUME NEW x, QOK(x), now \in Nat
  PROVE  /\ Promote(x).of = x.of /\ Promote(x).prio = x.prio /\ Promote(x).seq = x.seq
         /\ Promote(x).epoch = x.epoch /\ Promote(x).lastTs = x.lastTs /\ Promote(x).held = x.held
         /\ Promote(x).streaming = x.streaming /\ Promote(x).broken = x.broken
<1>1. PICK rd, b, dl : Promote(x) = [x EXCEPT !.delayed = dl, !.blocked = b, !.ready = rd]
  BY PromoteLooks
<1> QED
  BY <1>1 DEF QOK, Queues

NextEntry(x) == Head1({Head1(x.of[r]) : r \in Serviceable(x)})

LEMMA NextEntryIs ==
  ASSUME NEW x, QOK(x), Serviceable(x) # {}
  PROVE  /\ NextEntry(x).role \in Serviceable(x) /\ NextEntry(x).role \in Roles
         /\ NextEntry(x) \in x.of[NextEntry(x).role] /\ NextEntry(x) \in Entries
         /\ NextEntry(x) = Head1(x.of[NextEntry(x).role])
         /\ x.blocked[NextEntry(x).role] = None
         /\ \A f \in x.of[NextEntry(x).role] \ {NextEntry(x)} : Before(NextEntry(x), f)
<1> DEFINE heads == {Head1(x.of[r]) : r \in Serviceable(x)}
<1>1. \A r \in Serviceable(x) : r \in Roles /\ x.of[r] # {} /\ x.blocked[r] = None
  BY DEF Serviceable, QOK, Queues, Tickets
<1>2. \A r \in Serviceable(x) : Head1(x.of[r]) \in x.of[r] /\ Head1(x.of[r]) \in Entries /\ Head1(x.of[r]).role = r
  <2> SUFFICES ASSUME NEW r \in Serviceable(x)
        PROVE Head1(x.of[r]) \in x.of[r] /\ Head1(x.of[r]) \in Entries /\ Head1(x.of[r]).role = r
    OBVIOUS
  <2> QED
    BY <1>1, HeadOfQueue
<1>3. \A e \in heads : e \in Entries /\ e.role \in Serviceable(x) /\ e \in x.of[e.role] /\ e = Head1(x.of[e.role])
  BY <1>2
<1>4. \A e \in heads : e.ts \in Nat /\ e.seq \in Nat
  BY <1>3 DEF Entries
<1>5. \A e, f \in heads : e.seq = f.seq => e = f
  BY <1>1, <1>3 DEF QOK, Numbered
<1>6. heads # {}
  OBVIOUS
<1>7. Head1(heads) \in heads
  <2> HIDE DEF heads
  <2> QED
    BY <1>4, <1>5, <1>6, FirstExists
<1>8. NextEntry(x) = Head1(heads)
  BY DEF NextEntry
<1>9. /\ NextEntry(x).role \in Serviceable(x) /\ NextEntry(x) \in x.of[NextEntry(x).role]
      /\ NextEntry(x) \in Entries /\ NextEntry(x) = Head1(x.of[NextEntry(x).role])
  BY <1>3, <1>7, <1>8
<1>10. \A f \in x.of[NextEntry(x).role] \ {NextEntry(x)} : Before(NextEntry(x), f)
  BY <1>1, <1>9, HeadOfQueue
<1> QED
  BY <1>1, <1>9, <1>10

LEMMA PoppedLooks ==
  ASSUME NEW x, QOK(x), NEW e \in Entries, e.role \in Serviceable(x)
  PROVE  /\ Looks(x, Popped(x, e), {e.role})
         /\ Popped(x, e) = [x EXCEPT !.ready = Popped(x, e).ready]
<1> DEFINE gone == {t \in x.ready : ~Before(e, t)}
           met == {t.role : t \in gone} \cap (Serviceable(x) \ {e.role})
           rd == (x.ready \ gone) \cup {Ticket(Head1(x.of[r])) : r \in met}
           y == [x EXCEPT !.ready = rd]
<1>1. Popped(x, e) = y
  BY DEF Popped
<1>2. \A r \in Serviceable(x) : r \in Roles /\ x.of[r] # {} /\ x.blocked[r] = None
  BY DEF Serviceable, QOK, Queues, Tickets
<1>3. \A r \in met : Ticket(Head1(x.of[r])) \in Tickets /\ Ticket(Head1(x.of[r])).role = r
  <2> SUFFICES ASSUME NEW r \in met
        PROVE Ticket(Head1(x.of[r])) \in Tickets /\ Ticket(Head1(x.of[r])).role = r
    OBVIOUS
  <2>1. r \in Roles /\ x.of[r] # {}
    BY <1>2
  <2>2. Head1(x.of[r]) \in Entries /\ Head1(x.of[r]).role = r
    BY <2>1, HeadOfQueue
  <2> QED
    BY <2>2 DEF Ticket, Tickets, Entries
<1>4. rd \subseteq Tickets
  BY <1>3 DEF QOK, Queues
<1>5. y \in Queues /\ y.of = x.of /\ y.seq = x.seq /\ y.gen = x.gen /\ y.blocked = x.blocked
      /\ y.delayed = x.delayed /\ y.ready = rd
  <2> HIDE DEF rd
  <2> QED
    BY <1>4 DEF QOK, Queues
<1>6. QOK(y)
  BY <1>5 DEF QOK, Numbered, Bounded, Waits
<1>7. \A s \in Roles \ {e.role} : Cared(x, s) => Cared(y, s)
  <2> SUFFICES ASSUME NEW s \in Roles \ {e.role}, Cared(x, s), x.of[s] # {}, x.blocked[s] = None
        PROVE \E t \in rd : t.role = s
    BY <1>5 DEF Cared
  <2>1. PICK t \in x.ready : t.role = s
    BY DEF Cared
  <2>2. CASE t \notin gone
    BY <2>1, <2>2
  <2>3. CASE t \in gone
    <3>1. s \in Serviceable(x)
      BY <2>1 DEF Serviceable
    <3>2. s \in met
      BY <2>1, <2>3, <3>1
    <3> QED
      BY <3>2, <1>3
  <2> QED
    BY <2>2, <2>3
<1> HIDE DEF rd
<1> QED
  BY <1>1, <1>5, <1>6, <1>7 DEF Looks

LEMMA DiscardHeadLooks ==
  ASSUME NEW x, QOK(x), NEW e \in Entries
  PROVE  /\ Looks(x, DiscardHead(x, e), {})
         /\ DiscardHead(x, e) = [x EXCEPT !.of = [x.of EXCEPT ![e.role] = x.of[e.role] \ {e}]]
<1> DEFINE es == x.of[e.role] \ {e}
<1>1. e.role \in Roles /\ es \in SUBSET x.of[e.role]
  BY DEF Entries
<1>2. DiscardHead(x, e) = [x EXCEPT !.of[e.role] = es]
  BY DEF DiscardHead
<1>3. /\ QOK([x EXCEPT !.of[e.role] = es])
      /\ \A s \in Roles : Cared(x, s) => Cared([x EXCEPT !.of[e.role] = es], s)
      /\ [x EXCEPT !.of[e.role] = es] = [x EXCEPT !.of = [x.of EXCEPT ![e.role] = es]]
  <2> HIDE DEF es
  <2> QED
    BY <1>1, FewerKeeps
<1> QED
  BY <1>2, <1>3 DEF Looks

LEMMA NoteLooks ==
  ASSUME NEW x, QOK(x), NEW e \in Urgent
  PROVE  /\ Looks(x, Note(x, e), {}) /\ SameWork(x, Note(x, e)) /\ Note(x, e).wake = x.wake
         /\ Note(x, e).broken = x.broken
         /\ Note(x, e) = [x EXCEPT !.streaming = Note(x, e).streaming]
<1>1. \E st \in SUBSET Roles : Note(x, e) = [x EXCEPT !.streaming = st]
  BY DEF Note, Urgent, Entries, Control, Others, QOK, Queues
<1>2. PICK st \in SUBSET Roles : Note(x, e) = [x EXCEPT !.streaming = st]
  BY <1>1
<1> DEFINE y == Note(x, e)
<1> HIDE DEF y
<1>3. y \in Queues /\ y = [x EXCEPT !.streaming = y.streaming] /\ SameWork(x, y) /\ y.wake = x.wake
      /\ y.broken = x.broken /\ y.seq = x.seq /\ y.gen = x.gen
  BY <1>2 DEF QOK, Queues, SameWork, y
<1>4. QOK(y) /\ \A s \in Roles : Cared(x, s) => Cared(y, s)
  BY <1>3 DEF QOK, Numbered, Bounded, Waits, Cared, SameWork
<1> QED
  BY <1>3, <1>4 DEF Looks, y

LEMMA BlockLooks ==
  ASSUME NEW x, QOK(x), NEW r \in Roles, NEW wait \in Nat, now \in Nat
  PROVE  Looks(x, Block(x, r, wait), {r}) /\ Cared(Block(x, r, wait), r)
<1> DEFINE d == [at |-> now + wait, gen |-> x.gen[r] + 1, role |-> r]
           bl == [x.blocked EXCEPT ![r] = now + wait]
           gn == [x.gen EXCEPT ![r] = @ + 1]
           y == [x EXCEPT !.blocked = bl, !.gen = gn, !.delayed = x.delayed \cup {d}]
<1>1. Block(x, r, wait) = y
  BY DEF Block, QOK, Queues
<1>2. d \in Delays /\ bl \in [Roles -> Nat \cup {None}] /\ gn \in [Roles -> Nat] /\ bl[r] = d.at /\ gn[r] = d.gen
  BY DEF QOK, Queues, Delays
<1>3. \A s \in Roles \ {r} : bl[s] = x.blocked[s] /\ gn[s] = x.gen[s]
  BY DEF QOK, Queues
<1>4. bl[r] # None /\ d.role = r
  BY <1>2, NoneIsNoRole DEF Delays
<1> HIDE DEF d, bl, gn
<1>5. y \in Queues /\ y.of = x.of /\ y.seq = x.seq /\ y.gen = gn /\ y.blocked = bl
      /\ y.delayed = x.delayed \cup {d} /\ y.ready = x.ready
  BY <1>2 DEF QOK, Queues
<1> HIDE DEF y
<1>6. QOK(y)
  <2>1. Waits(y)
    BY <1>2, <1>3, <1>4, <1>5 DEF QOK, Waits
  <2> QED
    BY <2>1, <1>5 DEF QOK, Numbered, Bounded
<1>7. Cared(y, r) /\ \A s \in Roles \ {r} : Cared(x, s) => Cared(y, s)
  BY <1>3, <1>4, <1>5 DEF Cared
<1> QED
  BY <1>1, <1>6, <1>7 DEF Looks

LEMMA MaxOfRange ==
  ASSUME NEW n \in Nat \ {0}, NEW f \in [1..n -> Int]
  PROVE  \E i \in 1..n : \A j \in 1..n : f[i] >= f[j]
<1> DEFINE Best(i, k) == \A j \in 1..k : f[i] >= f[j]
           bad == {k \in Nat : k >= 1 /\ k <= n /\ ~\E i \in 1..n : Best(i, k)}
<1>1. bad = {}
  <2> SUFFICES ASSUME bad # {} PROVE FALSE
    OBVIOUS
  <2>1. PICK m \in bad : \A k \in bad : m <= k
    <3>1. bad \in SUBSET Nat
      OBVIOUS
    <3> HIDE DEF bad
    <3> QED
      BY <3>1, LeastOf
  <2>2. m \in Nat /\ m >= 1 /\ m <= n /\ ~\E i \in 1..n : Best(i, m)
    BY <2>1
  <2>3. m # 1
    <3>1. Best(1, 1) /\ 1 \in 1..n
      OBVIOUS
    <3> QED
      BY <2>2, <3>1
  <2>4. m - 1 \in Nat /\ m - 1 >= 1 /\ m - 1 <= n /\ m - 1 < m /\ m \in 1..n
    BY <2>2, <2>3
  <2>5. m - 1 \notin bad
    <3> HIDE DEF bad
    <3> QED
      BY <2>1, <2>4
  <2>6. PICK i \in 1..n : Best(i, m - 1)
    BY <2>4, <2>5
  <2>7. \A j \in 1..m : j \in 1..(m - 1) \/ j = m
    BY <2>2
  <2>8. \A j \in 1..m : f[j] \in Int
    BY <2>2
  <2>9. CASE f[i] >= f[m]
    <3>1. Best(i, m)
      BY <2>6, <2>7, <2>9
    <3> QED
      BY <3>1, <2>2
  <2>10. CASE ~(f[i] >= f[m])
    <3>1. f[m] >= f[m] /\ f[m] >= f[i] /\ f[i] \in Int /\ f[m] \in Int
      BY <2>4, <2>10
    <3>2. Best(m, m)
      <4> SUFFICES ASSUME NEW j \in 1..m PROVE f[m] >= f[j]
        OBVIOUS
      <4>1. CASE j = m
        BY <3>1, <4>1
      <4>2. CASE j # m
        <5>1. f[i] >= f[j] /\ f[j] \in Int
          BY <2>6, <2>7, <2>8, <4>2
        <5> QED
          BY <3>1, <5>1, SMTT(30)
      <4> QED
        BY <4>1, <4>2
    <3> QED
      BY <3>2, <2>2, <2>4
  <2> QED
    BY <2>9, <2>10
<1>2. n \notin bad
  BY <1>1
<1> QED
  BY <1>2

LEMMA WaitIsNat ==
  ASSUME NEW t \in [ends : Seq(Nat), sending : BOOLEAN], now \in Nat
  PROVE  TimeUntilCapacity(t) \in Int
<1> DEFINE over == Len(t.ends) + 1 - Capacity
<1>1. Len(t.ends) \in Nat /\ over \in Int /\ over <= Len(t.ends)
  BY WriterAssumption
<1>2. CASE over <= 0
  BY <1>2 DEF TimeUntilCapacity
<1>3. CASE ~(over <= 0)
  <2> DEFINE f == [i \in 1..over |-> t.ends[i] - now]
  <2>1. over \in Nat \ {0} /\ \A i \in 1..over : t.ends[i] \in Nat
    BY <1>1, <1>3
  <2>2. f \in [1..over -> Int]
    BY <2>1
  <2>3. PICK i \in 1..over : \A j \in 1..over : f[i] >= f[j]
    <3> HIDE DEF f, over
    <3> QED
      BY <2>1, <2>2, MaxOfRange
  <2>4. {t.ends[j] - now : j \in 1..over} = {f[j] : j \in 1..over}
    OBVIOUS
  <2>5. \E m \in {f[j] : j \in 1..over} : \A k \in {f[j] : j \in 1..over} : m >= k
    BY <2>3
  <2>6. Max({f[j] : j \in 1..over}) \in {f[j] : j \in 1..over}
    BY <2>5 DEF Max
  <2>7. Max({f[j] : j \in 1..over}) \in Int
    BY <2>2, <2>6
  <2>8. TimeUntilCapacity(t) = Max({t.ends[j] - now : j \in 1..over})
    BY <1>3 DEF TimeUntilCapacity
  <2> QED
    BY <2>4, <2>7, <2>8
<1> QED
  BY <1>2, <1>3

Trackers == [ends : Seq(Nat), sending : BOOLEAN]

\* What is pruned is the oldest chunks, up to the first that counts.
LEMMA PruneIs ==
  ASSUME NEW t \in Trackers, now \in Nat
  PROVE  \E first \in 1..(Len(t.ends) + 1) :
            /\ Prune(t) = [t EXCEPT !.ends = SubSeq(t.ends, first, Len(t.ends))]
            /\ Prune(t) \in Trackers
            /\ \A i \in 1..(first - 1) : t.ends[i] <= now
            /\ first <= Len(t.ends) /\ ~t.sending => t.ends[first] > now
<1> DEFINE n == Len(t.ends)
           Counts(i) == t.ends[i] > now \/ (t.sending /\ i = n)
           live == {i \in 1..n : Counts(i)}
           first == IF \E i \in 1..n : Counts(i) THEN Min(live) ELSE n + 1
<1>1. n \in Nat /\ \A i \in 1..n : t.ends[i] \in Nat
  BY DEF Trackers
<1>2. /\ first \in 1..(n + 1) /\ \A i \in 1..(first - 1) : i \in 1..n /\ ~Counts(i)
      /\ first <= n => Counts(first)
  <2>1. CASE \E i \in 1..n : Counts(i)
    <3>1. live \in SUBSET Nat /\ live # {}
      BY <2>1
    <3>2. PICK m \in live : \A k \in live : m <= k
      <4> HIDE DEF live
      <4> QED
        BY <3>1, LeastOf
    <3>3. \E u \in live : \A k \in live : u <= k
      BY <3>2
    <3>4. Min(live) \in live /\ \A k \in live : Min(live) <= k
      <4> HIDE DEF live
      <4> QED
        BY <3>3 DEF Min
    <3>5. first = Min(live)
      BY <2>1
    <3>6. first \in 1..n /\ \A k \in live : first <= k
      BY <3>4, <3>5
    <3>7. \A i \in 1..(first - 1) : i \in 1..n /\ i \notin live
      <4> HIDE DEF first, live
      <4> QED
        BY <1>1, <3>6
    <3>8. Counts(first)
      BY <3>4, <3>5
    <3> QED
      BY <1>1, <3>6, <3>7, <3>8
  <2>2. CASE ~\E i \in 1..n : Counts(i)
    <3>1. first = n + 1
      BY <2>2
    <3>2. ~(first <= n)
      BY <1>1, <3>1
    <3> QED
      BY <1>1, <2>2, <3>1, <3>2
  <2> QED
    BY <2>1, <2>2
<1>3. Prune(t) = [t EXCEPT !.ends = SubSeq(t.ends, first, n)]
  BY DEF Prune
<1> HIDE DEF first
<1>4. SubSeq(t.ends, first, n) \in Seq(Nat)
  BY <1>1, <1>2 DEF Trackers
<1>5. Prune(t) \in Trackers
  BY <1>3, <1>4 DEF Trackers
<1>6. \A i \in 1..(first - 1) : t.ends[i] <= now
  BY <1>1, <1>2
<1>7. first <= n /\ ~t.sending => t.ends[first] > now
  BY <1>2
<1> QED
  BY <1>2, <1>3, <1>5, <1>6, <1>7

-----------------------------------------------------------------------------
(* The invariant of the writer: no role is forgotten, and the writer does not *)
(* sleep over work.                                                          *)

Views == [active : BOOLEAN, hold : BOOLEAN, started : BOOLEAN, n : Nat, since : Nat \cup {None}]

WriterTypes ==
    /\ now \in Nat
    /\ role \in [Roles -> Views]
    /\ track \in [Roles -> Trackers]
    /\ writer \in [pc : {"run", "send", "wait", "paused"}, role : Roles \cup {None}, until : Nat \cup {None}]
    /\ act \in [pc : {"idle", "pausing", "drain", "announce"}, roles : SUBSET Roles]
    /\ (writer.pc = "paused") <=> (act.pc \in {"drain", "announce"})

LEMMA ResetIsTracker ==
  ASSUME NEW t \in Trackers
  PROVE  ResetTracker(t) \in Trackers
<1>1. <<>> \in Seq(Nat)
  OBVIOUS
<1> QED
  BY <1>1 DEF ResetTracker, Trackers

WriterInv ==
    /\ WriterTypes
    /\ QOK(q)
    /\ \A r \in Roles : Cared(q, r) \/ (writer.pc = "send" /\ writer.role = r)
    /\ NoLostWakeup

LEMMA SameWorkServes ==
  ASSUME NEW x, NEW y, SameWork(x, y)
  PROVE  Serviceable(x) = Serviceable(y)
  BY DEF SameWork, Serviceable

\* A call of a role, or of the activation, leaves the writer as it is.
LEMMA CallKeeps ==
  ASSUME WriterInv, WriterTypes', Keeps(q, q'), UNCHANGED writer
  PROVE  WriterInv'
<1>1. QOK(q') /\ \A r \in Roles : Cared(q', r) \/ (writer.pc = "send" /\ writer.role = r)
  BY DEF WriterInv, Keeps
<1>2. NoLostWakeup'
  <2> SUFFICES ASSUME writer.pc = "wait", ~q'.broken, ~q'.wake
        PROVE  q'.prio = <<>> /\ Serviceable(q') = {}
               /\ (q'.delayed # {} => writer.until = Min({d.at : d \in q'.delayed}))
    BY DEF NoLostWakeup, Serviceable
  <2>1. SameWork(q, q') /\ ~q.broken /\ ~q.wake
    BY DEF Keeps, WriterInv, QOK, Queues
  <2>2. Serviceable(q') = Serviceable(q)
    BY <2>1, SameWorkServes
  <2>3. q.prio = <<>> /\ Serviceable(q) = {} /\ (q.delayed # {} => writer.until = Min({d.at : d \in q.delayed}))
    BY <2>1 DEF WriterInv, NoLostWakeup
  <2> QED
    BY <2>1, <2>2, <2>3 DEF SameWork
<1>3. \A r \in Roles : Cared(q, r)' = Cared(q', r)
  BY DEF Cared
<1>4. QOK(q)' = QOK(q')
  BY DEF QOK, Numbered, Bounded, Waits
<1> QED
  BY <1>1, <1>2, <1>3, <1>4 DEF WriterInv

LEMMA StreamStartWrites ==
  ASSUME WriterInv, NEW r \in Roles, StreamStart(r)
  PROVE  WriterInv'
<1>1. QOK(q) /\ now \in Nat /\ role[r].n + 1 \in Nat
  BY DEF WriterInv, WriterTypes, Views
<1>2. q' = SendRoleMessage(q, r, "start", role[r].n + 1, FALSE)
  BY DEF StreamStart
<1>3. Keeps(q, q')
  BY <1>1, <1>2, SendRoleMessageKeeps DEF Kinds
<1>4. WriterTypes' /\ UNCHANGED writer
  BY DEF StreamStart, WriterInv, WriterTypes, Views
<1> QED
  BY <1>3, <1>4, CallKeeps

LEMMA AudioChunkWrites ==
  ASSUME WriterInv, NEW r \in Roles, NEW ts \in Nat, AudioChunk(r, ts)
  PROVE  WriterInv'
<1>1. QOK(q) /\ now \in Nat /\ role[r].n \in Nat
  BY DEF WriterInv, WriterTypes, Views
<1>2. ASSUME role[r].hold PROVE Keeps(q, q')
  <2> DEFINE c == [ts |-> ts, n |-> role[r].n, epoch |-> q.epoch[r]]
             hs == Append(q.held[r], c)
             held == [q.held EXCEPT ![r] = hs]
  <2>1. c \in HeldChunks
    BY <1>1 DEF QOK, Queues, HeldChunks
  <2>2. held \in [Roles -> Seq(HeldChunks)]
    <3>1. q.held \in [Roles -> Seq(HeldChunks)]
      BY <1>1 DEF QOK, Queues
    <3>2. hs \in Seq(HeldChunks)
      <4> HIDE DEF c
      <4> QED
        BY <2>1, <3>1
    <3> HIDE DEF hs
    <3> QED
      BY <3>1, <3>2
  <2>3. q' = [q EXCEPT !.held = held]
    BY <1>1, <1>2 DEF AudioChunk, QOK, Queues
  <2> HIDE DEF held
  <2>4. q' \in Queues /\ SameWork(q, q') /\ q'.seq = q.seq /\ q'.gen = q.gen /\ q'.wake = q.wake /\ q'.broken = q.broken
    BY <1>1, <2>2, <2>3 DEF QOK, Queues, SameWork
  <2> QED
    BY <1>1, <2>4 DEF Keeps, QOK, Numbered, Bounded, Waits, Cared, SameWork
<1>3. ASSUME ~role[r].hold PROVE Keeps(q, q')
  <2>1. q' = SendBinary(q, r, ts, role[r].n)
    BY <1>3 DEF AudioChunk
  <2> QED
    BY <1>1, <2>1, SendBinaryKeeps
<1>4. Keeps(q, q')
  BY <1>2, <1>3
<1>5. WriterTypes' /\ UNCHANGED writer
  BY DEF AudioChunk, WriterInv, WriterTypes
<1> QED
  BY <1>4, <1>5, CallKeeps

LEMMA StreamClearWrites ==
  ASSUME WriterInv, NEW r \in Roles, StreamClear(r)
  PROVE  WriterInv'
<1>1. QOK(q) /\ now \in Nat /\ role[r].n + 1 \in Nat
  BY DEF WriterInv, WriterTypes, Views
<1>2. q' = SendRoleMessage(q, r, "clear", role[r].n + 1, FALSE)
  BY DEF StreamClear
<1>3. Keeps(q, q')
  BY <1>1, <1>2, SendRoleMessageKeeps DEF Kinds
<1>4. track' \in [Roles -> Trackers]
  BY ResetIsTracker DEF StreamClear, WriterInv, WriterTypes
<1>5. role' \in [Roles -> Views]
  <2>1. role \in [Roles -> Views] /\ None \in Nat \cup {None}
    BY DEF WriterInv, WriterTypes
  <2>2. [role[r] EXCEPT !.n = @ + 1, !.since = None] \in Views
    BY <1>1, <2>1 DEF Views
  <2>3. role' = [role EXCEPT ![r] = [role[r] EXCEPT !.n = @ + 1, !.since = None]]
    BY <2>1 DEF StreamClear, Views
  <2> QED
    BY <2>1, <2>2, <2>3
<1>6. WriterTypes' /\ UNCHANGED writer
  BY <1>4, <1>5 DEF StreamClear, WriterInv, WriterTypes
<1> QED
  BY <1>3, <1>6, CallKeeps

LEMMA StreamEndWrites ==
  ASSUME WriterInv, NEW r \in Roles, StreamEnd(r)
  PROVE  WriterInv'
<1>1. QOK(q) /\ now \in Nat /\ role[r].n \in Nat
  BY DEF WriterInv, WriterTypes, Views
<1>2. q' = SendRoleMessage(q, r, "end", role[r].n, FALSE)
  BY DEF StreamEnd
<1>3. Keeps(q, q')
  BY <1>1, <1>2, SendRoleMessageKeeps DEF Kinds
<1>4. track' \in [Roles -> Trackers]
  BY ResetIsTracker DEF StreamEnd, WriterInv, WriterTypes
<1>5. role' \in [Roles -> Views]
  <2>1. role \in [Roles -> Views] /\ None \in Nat \cup {None}
    BY DEF WriterInv, WriterTypes
  <2>2. [role[r] EXCEPT !.started = FALSE, !.since = None] \in Views
    BY <2>1 DEF Views
  <2>3. role' = [role EXCEPT ![r] = [role[r] EXCEPT !.started = FALSE, !.since = None]]
    BY <2>1 DEF StreamEnd, Views
  <2> QED
    BY <2>1, <2>2, <2>3
<1>6. WriterTypes' /\ UNCHANGED writer
  BY <1>4, <1>5 DEF StreamEnd, WriterInv, WriterTypes
<1> QED
  BY <1>3, <1>6, CallKeeps

LEMMA ReleaseRoleWrites ==
  ASSUME WriterInv, NEW r \in Roles, ReleaseRole(r)
  PROVE  WriterInv'
<1>1. Keeps(q, q')
  BY FlushedKeeps DEF WriterInv, ReleaseRole
<1>2. role' \in [Roles -> Views]
  <2>1. role \in [Roles -> Views]
    BY DEF WriterInv, WriterTypes
  <2>2. [role[r] EXCEPT !.hold = FALSE] \in Views
    BY <2>1 DEF Views
  <2>3. role' = [role EXCEPT ![r] = [role[r] EXCEPT !.hold = FALSE]]
    BY <2>1 DEF ReleaseRole, Views
  <2> QED
    BY <2>1, <2>2, <2>3
<1>3. WriterTypes' /\ UNCHANGED writer
  BY <1>2 DEF ReleaseRole, WriterInv, WriterTypes
<1> QED
  BY <1>1, <1>3, CallKeeps

LEMMA PriorityMessageWrites ==
  ASSUME WriterInv, PriorityMessage
  PROVE  WriterInv'
<1>1. [NoEntry EXCEPT !.kind = "other"] \in Urgent
  BY DEF NoEntry, Urgent, Others
<1>2. Keeps(q, q')
  BY <1>1, SendPriorityKeeps DEF WriterInv, PriorityMessage
<1>3. WriterTypes' /\ UNCHANGED writer
  BY DEF PriorityMessage, WriterInv, WriterTypes
<1> QED
  BY <1>2, <1>3, CallKeeps

LEMMA ActivateWrites ==
  ASSUME WriterInv, NEW rs \in SUBSET Roles, Activate(rs)
  PROVE  WriterInv'
<1>1. q' = Wake(q)
  BY DEF Activate, Wake
<1>2. Keeps(q, q')
  BY <1>1, WakeKeeps DEF WriterInv
<1>3. WriterTypes' /\ UNCHANGED writer
  BY DEF Activate, WriterInv, WriterTypes
<1> QED
  BY <1>2, <1>3, CallKeeps

LEMMA SendActivationWrites ==
  ASSUME WriterInv, SendActivation
  PROVE  WriterInv'
<1> DEFINE rs == act.roles
           x == RetireAll(q, Retiring(rs))
           msg == [NoEntry EXCEPT !.kind = "activate", !.n = rs]
<1>1. QOK(q) /\ now \in Nat /\ Retiring(rs) \in SUBSET Roles /\ \A r \in Roles : role[r].n \in Nat
  BY DEF WriterInv, WriterTypes, Retiring, Views
<1>2. Keeps(q, x) /\ QOK(x)
  BY <1>1, RetireAllKeeps DEF Keeps
<1>3. msg \in Urgent
  BY DEF NoEntry, Urgent, Control, WriterInv, WriterTypes
<1>4. q' = SendPriority(x, msg)
  BY DEF SendActivation
<1>5. Keeps(x, q')
  <2> HIDE DEF x, msg
  <2> QED
    BY <1>2, <1>3, <1>4, SendPriorityKeeps
<1>6. Keeps(q, q')
  <2> HIDE DEF x
  <2> QED
    BY <1>2, <1>5, KeepsTrans
<1>7. track' \in [Roles -> Trackers]
  BY ResetIsTracker DEF SendActivation, WriterInv, WriterTypes
<1>8. role' \in [Roles -> Views]
  <2>1. role \in [Roles -> Views]
    BY DEF WriterInv, WriterTypes
  <2>2. PICK hold : role' = [r \in Roles |->
            IF r \in Retiring(rs) THEN [role[r] EXCEPT !.active = FALSE, !.started = FALSE, !.hold = FALSE]
            ELSE IF r \in rs /\ ~role[r].active THEN [role[r] EXCEPT !.active = TRUE, !.hold = r \in hold]
            ELSE role[r]]
    BY DEF SendActivation
  <2>3. \A v \in Views : \A b \in BOOLEAN :
            /\ [v EXCEPT !.active = FALSE, !.started = FALSE, !.hold = FALSE] \in Views
            /\ [v EXCEPT !.active = TRUE, !.hold = b] \in Views
    BY DEF Views
  <2>4. \A r \in Roles : [role[r] EXCEPT !.active = TRUE, !.hold = r \in hold] \in Views
    <3> SUFFICES ASSUME NEW r \in Roles
          PROVE [role[r] EXCEPT !.active = TRUE, !.hold = r \in hold] \in Views
      OBVIOUS
    <3>1. (r \in hold) \in BOOLEAN /\ role[r] \in Views
      BY <2>1
    <3> QED
      BY <2>3, <3>1
  <2>5. \A r \in Roles : role'[r] \in Views
    BY <2>1, <2>2, <2>3, <2>4
  <2> QED
    BY <2>2, <2>5
<1>9. WriterTypes' /\ UNCHANGED writer
  BY <1>7, <1>8 DEF SendActivation, WriterInv, WriterTypes
<1> QED
  BY <1>6, <1>9, CallKeeps

-----------------------------------------------------------------------------
(* The writer's own steps.                                                   *)

\* Awake, the writer has only to have every role looked after.
LEMMA AwakeKeeps ==
  ASSUME WriterTypes', QOK(q'), writer'.pc # "wait",
         \A r \in Roles : Cared(q', r) \/ (writer'.pc = "send" /\ writer'.role = r)
  PROVE  WriterInv'
<1>1. \A r \in Roles : Cared(q, r)' = Cared(q', r)
  BY DEF Cared
<1>2. QOK(q)' = QOK(q')
  BY DEF QOK, Numbered, Bounded, Waits
<1>3. NoLostWakeup'
  BY DEF NoLostWakeup
<1> QED
  BY <1>1, <1>2, <1>3 DEF WriterInv

\* Between two messages every role is looked after.
LEMMA RunningCares ==
  ASSUME WriterInv, writer.pc = "run" \/ writer.pc = "paused"
  PROVE  \A r \in Roles : Cared(q, r)
  BY DEF WriterInv

LEMMA TailLooks ==
  ASSUME NEW x, QOK(x), x.prio # <<>>
  PROVE  /\ Looks(x, [x EXCEPT !.prio = Tail(@)], {}) /\ Head(x.prio) \in Urgent
         /\ [x EXCEPT !.prio = Tail(@)].wake = x.wake /\ [x EXCEPT !.prio = Tail(@)].broken = x.broken
<1>1. x \in Queues /\ x.prio \in Seq(Urgent)
  BY DEF QOK, Queues
<1>2. Head(x.prio) \in Urgent /\ Tail(x.prio) \in Seq(Urgent)
  <2> HIDE DEF Urgent
  <2> QED
    BY <1>1
<1> DEFINE p == Tail(x.prio)
           y == [x EXCEPT !.prio = p]
<1> HIDE DEF p
<1>3. y \in Queues /\ y.of = x.of /\ y.ready = x.ready /\ y.seq = x.seq /\ y.gen = x.gen /\ y.blocked = x.blocked
      /\ y.delayed = x.delayed /\ y.wake = x.wake /\ y.broken = x.broken
  BY <1>1, <1>2 DEF Queues, p
<1> HIDE DEF y
<1>4. QOK(y) /\ \A s \in Roles : Cared(x, s) => Cared(y, s)
  BY <1>3 DEF QOK, Numbered, Bounded, Waits, Cared
<1> QED
  BY <1>2, <1>3, <1>4 DEF Looks, y, p

LEMMA SendPriorityMessageWrites ==
  ASSUME WriterInv, SendPriorityMessage
  PROVE  WriterInv'
<1> DEFINE x == [q EXCEPT !.prio = Tail(@)]
           e == Head(q.prio)
<1>1. QOK(q) /\ q.prio # <<>> /\ writer.pc = "run" /\ q' = Note(x, e)
  BY DEF WriterInv, SendPriorityMessage, Writing
<1>2. Looks(q, x, {}) /\ e \in Urgent
  BY <1>1, TailLooks
<1> HIDE DEF x, e
<1>3. QOK(x) /\ Looks(x, q', {})
  BY <1>1, <1>2, NoteLooks DEF Looks
<1>4. QOK(q') /\ \A r \in Roles : Cared(q', r)
  BY <1>1, <1>2, <1>3, RunningCares DEF Looks
<1>5. WriterTypes' /\ writer'.pc # "wait"
  BY DEF SendPriorityMessage, Writing, WriterInv, WriterTypes
<1> QED
  BY <1>4, <1>5, AwakeKeeps

LEMMA SentWrites ==
  ASSUME WriterInv, Sent
  PROVE  WriterInv'
<1> DEFINE r == writer.role
<1>1. QOK(q) /\ writer.pc = "send" /\ r \in Roles \cup {None}
  BY DEF WriterInv, WriterTypes, Sent
<1>2. QOK(q') /\ \A s \in Roles : Cared(q', s)
  <2>1. CASE r = None
    <3>1. q' = q /\ \A s \in Roles : s # r
      BY <2>1, NoneIsNoRole DEF Sent
    <3> QED
      BY <1>1, <3>1 DEF WriterInv
  <2>2. CASE r \in Roles
    <3>1. q' = ScheduleHead(q, r)
      BY <2>2, NoneIsNoRole DEF Sent
    <3>2. \A s \in Roles : s # r => Cared(q, s)
      BY DEF WriterInv
    <3> QED
      BY <1>1, <2>2, <3>1, <3>2, ScheduleHeadKeeps
  <2> QED
    BY <1>1, <2>1, <2>2
<1>3. track' \in [Roles -> Trackers]
  <2>1. track \in [Roles -> Trackers]
    BY DEF WriterInv, WriterTypes
  <2>2. CASE r = None
    BY <2>1, <2>2 DEF Sent
  <2>3. CASE r # None
    <3>1. track' = [track EXCEPT ![r].sending = FALSE]
      BY <2>3 DEF Sent
    <3> QED
      BY <2>1, <3>1 DEF Trackers
  <2> QED
    BY <2>2, <2>3
<1>4. WriterTypes' /\ writer'.pc # "wait"
  BY <1>3 DEF Sent, WriterInv, WriterTypes
<1> QED
  BY <1>2, <1>4, AwakeKeeps

LEMMA LeastOfTimes ==
  ASSUME NEW ds \in SUBSET Delays, ds # {}
  PROVE  Min({d.at : d \in ds}) \in Nat
<1> DEFINE times == {d.at : d \in ds}
<1>1. times \in SUBSET Nat /\ times # {}
  BY DEF Delays
<1> HIDE DEF times
<1>2. \E m \in times : \A k \in times : m <= k
  BY <1>1, LeastOf
<1>3. Min(times) \in times
  BY <1>2 DEF Min
<1> QED
  BY <1>1, <1>3 DEF times

LEMMA WaitForWorkWrites ==
  ASSUME WriterInv, WaitForWork
  PROVE  WriterInv'
<1> DEFINE p == Promote(q)
           x == [p EXCEPT !.ready = {}, !.wake = FALSE]
<1>1. QOK(q) /\ now \in Nat /\ writer.pc = "run" /\ q.prio = <<>> /\ Serviceable(p) = {} /\ q' = x
      /\ writer' = [writer EXCEPT !.pc = "wait", !.until = IF x.delayed = {} THEN None ELSE Min({d.at : d \in x.delayed})]
  BY DEF WriterInv, WriterTypes, WaitForWork, Writing
<1>2. QOK(p) /\ (\A r \in Roles : Cared(p, r)) /\ p.prio = <<>>
  BY <1>1, PromoteLooks, PromoteSame, RunningCares DEF Looks
<1> HIDE DEF p
<1>3. x \in Queues /\ x.of = p.of /\ x.ready = {} /\ x.seq = p.seq /\ x.gen = p.gen /\ x.blocked = p.blocked
      /\ x.delayed = p.delayed /\ x.prio = <<>>
  BY <1>2 DEF QOK, Queues
<1> HIDE DEF x
<1>4. QOK(x)
  BY <1>2, <1>3 DEF QOK, Numbered, Bounded, Waits
<1>5. \A r \in Roles : Cared(x, r)
  <2> SUFFICES ASSUME NEW r \in Roles, p.of[r] # {}
        PROVE p.blocked[r] # None
    BY <1>3 DEF Cared
  <2>1. ASSUME p.blocked[r] = None PROVE FALSE
    <3>1. PICK t \in p.ready : t.role = r
      BY <1>2, <2>1 DEF Cared
    <3>2. r \in Serviceable(p)
      BY <2>1, <3>1 DEF Serviceable
    <3> QED
      BY <1>1, <3>2
  <2> QED
    BY <2>1
<1>6. Serviceable(x) = {}
  BY <1>3 DEF Serviceable
<1>7. writer' \in [pc : {"run", "send", "wait", "paused"}, role : Roles \cup {None}, until : Nat \cup {None}]
      /\ writer'.pc = "wait" /\ (x.delayed # {} => writer'.until = Min({d.at : d \in x.delayed}))
  <2>1. writer \in [pc : {"run", "send", "wait", "paused"}, role : Roles \cup {None}, until : Nat \cup {None}]
    BY DEF WriterInv, WriterTypes
  <2>2. x.delayed # {} => Min({d.at : d \in x.delayed}) \in Nat
    <3>1. x.delayed \in SUBSET Delays
      BY <1>3 DEF Queues
    <3> QED
      BY <3>1, LeastOfTimes
  <2> DEFINE until == IF x.delayed = {} THEN None ELSE Min({d.at : d \in x.delayed})
  <2>3. until \in Nat \cup {None} /\ (x.delayed # {} => until = Min({d.at : d \in x.delayed}))
    BY <2>2
  <2> HIDE DEF until
  <2>4. writer' = [writer EXCEPT !.pc = "wait", !.until = until]
    BY <1>1 DEF until
  <2> QED
    BY <2>1, <2>3, <2>4
<1>8. WriterTypes'
  <2>1. act.pc \notin {"drain", "announce"}
    BY <1>1 DEF WriterInv, WriterTypes
  <2> QED
    BY <1>7, <2>1 DEF WaitForWork, WriterInv, WriterTypes
<1>9. NoLostWakeup'
  BY <1>1, <1>3, <1>6, <1>7 DEF NoLostWakeup, Serviceable
<1>10. (\A r \in Roles : Cared(q, r)') /\ QOK(q)'
  BY <1>1, <1>4, <1>5 DEF Cared, QOK, Numbered, Bounded, Waits
<1> QED
  BY <1>8, <1>9, <1>10 DEF WriterInv

LEMMA WakeUpWrites ==
  ASSUME WriterInv, WakeUp
  PROVE  WriterInv'
<1>1. QOK(q') /\ \A r \in Roles : Cared(q', r)
  BY DEF WakeUp, Writing, WriterInv
<1>2. WriterTypes' /\ writer'.pc # "wait"
  BY DEF WakeUp, Writing, WriterInv, WriterTypes
<1> QED
  BY <1>1, <1>2, AwakeKeeps

LEMMA WriterPausedWrites ==
  ASSUME WriterInv, WriterPaused
  PROVE  WriterInv'
<1>1. QOK(q') /\ \A r \in Roles : Cared(q', r)
  BY DEF WriterPaused, Writing, WriterInv
<1>2. WriterTypes' /\ writer'.pc # "wait"
  BY DEF WriterPaused, Writing, WriterInv, WriterTypes
<1> QED
  BY <1>1, <1>2, AwakeKeeps

LEMMA DrainWrites ==
  ASSUME WriterInv, Drain
  PROVE  WriterInv'
<1> DEFINE x == [q EXCEPT !.prio = Tail(@)]
           e == Head(q.prio)
<1>1. QOK(q) /\ q.prio # <<>> /\ writer.pc = "paused" /\ q' = Note(x, e)
  BY DEF WriterInv, WriterTypes, Drain
<1>2. Looks(q, x, {}) /\ e \in Urgent
  BY <1>1, TailLooks
<1> HIDE DEF x, e
<1>3. QOK(x) /\ Looks(x, q', {})
  BY <1>1, <1>2, NoteLooks DEF Looks
<1>4. QOK(q') /\ \A r \in Roles : Cared(q', r)
  BY <1>1, <1>2, <1>3, RunningCares DEF Looks
<1>5. WriterTypes' /\ writer'.pc # "wait"
  BY <1>1 DEF Drain, WriterInv, WriterTypes
<1> QED
  BY <1>4, <1>5, AwakeKeeps

LEMMA ResumeWrites ==
  ASSUME WriterInv, Resume
  PROVE  WriterInv'
<1>1. writer.pc = "paused" /\ q' = q
  BY DEF Resume, WriterInv, WriterTypes
<1>2. QOK(q') /\ \A r \in Roles : Cared(q', r)
  BY <1>1, RunningCares DEF WriterInv
<1>3. WriterTypes' /\ writer'.pc # "wait"
  BY DEF Resume, WriterInv, WriterTypes
<1> QED
  BY <1>2, <1>3, AwakeKeeps

LEMMA StillWrites ==
  ASSUME WriterInv, WriterTypes', UNCHANGED <<q, writer>>
  PROVE  WriterInv'
<1>1. Keeps(q, q')
  BY KeepsRefl DEF WriterInv
<1> QED
  BY <1>1, CallKeeps

LEMMA TickWrites ==
  ASSUME WriterInv, Tick
  PROVE  WriterInv'
<1>1. WriterTypes'
  BY DEF Tick, WriterInv, WriterTypes
<1> QED
  BY <1>1, StillWrites DEF Tick

\* A role's head taken: the message that follows is scheduled when this one is sent.
LEMMA TransmitLooks ==
  ASSUME NEW y, QOK(y), NEW e \in Entries, \A s \in Roles \ {e.role} : Cared(y, s)
  PROVE  QOK(Note(DiscardHead(y, e), e)) /\ \A s \in Roles \ {e.role} : Cared(Note(DiscardHead(y, e), e), s)
<1> DEFINE z == DiscardHead(y, e)
<1>1. Looks(y, z, {}) /\ e \in Urgent
  BY DiscardHeadLooks DEF Urgent
<1> HIDE DEF z
<1>2. Looks(z, Note(z, e), {})
  BY <1>1, NoteLooks DEF Looks
<1> QED
  BY <1>1, <1>2 DEF Looks, z

LEMMA SkipLooks ==
  ASSUME NEW y, QOK(y), NEW e \in Entries, \A s \in Roles \ {e.role} : Cared(y, s)
  PROVE  /\ QOK(ScheduleHead(DiscardHead(y, e), e.role))
         /\ \A s \in Roles : Cared(ScheduleHead(DiscardHead(y, e), e.role), s)
<1> DEFINE z == DiscardHead(y, e)
<1>1. Looks(y, z, {}) /\ e.role \in Roles
  BY DiscardHeadLooks DEF Entries
<1> HIDE DEF z
<1>2. QOK(z) /\ \A s \in Roles \ {e.role} : Cared(z, s)
  BY <1>1 DEF Looks
<1>3. QOK(ScheduleHead(z, e.role)) /\ \A s \in Roles : Cared(ScheduleHead(z, e.role), s)
  BY <1>1, <1>2, ScheduleHeadKeeps
<1> QED
  BY <1>3 DEF z

\* A turn for a chunk of the current epoch: late, no room yet, or sent.
LEMMA ProcessChunkWrites ==
  ASSUME WriterInv, writer.pc = "run", act.pc \notin {"drain", "announce"},
         NEW y, QOK(y), NEW e \in Entries, \A s \in Roles \ {e.role} : Cared(y, s),
         ProcessChunk(y, e), UNCHANGED <<now, act>>
  PROVE  WriterInv'
<1> DEFINE r == e.role
           t == Prune(track[r])
           wait == TimeUntilCapacity(t)
<1>1. now \in Nat /\ r \in Roles /\ role \in [Roles -> Views] /\ track \in [Roles -> Trackers] /\ e.play + 1 \in Nat
  BY DEF WriterInv, WriterTypes, Entries
<1>2. t \in Trackers
  BY <1>1, PruneIs
<1>3. wait \in Int
  <2> HIDE DEF t
  <2> QED
    BY <1>1, <1>2, WaitIsNat DEF Trackers
<1>4. role' \in [Roles -> Views]
  <2>1. SinceOf(r) \in Nat
    BY <1>1 DEF SinceOf, Views
  <2>2. role' = [role EXCEPT ![r].since = SinceOf(r)]
    BY DEF ProcessChunk
  <2>3. [role[r] EXCEPT !.since = SinceOf(r)] \in Views
    BY <1>1, <2>1 DEF Views
  <2>4. role' = [role EXCEPT ![r] = [role[r] EXCEPT !.since = SinceOf(r)]]
    BY <1>1, <2>2 DEF Views
  <2> QED
    BY <1>1, <2>3, <2>4
<1>5. CASE /\ Late(e) /\ q' = ScheduleHead(DiscardHead(y, e), r)
           /\ UNCHANGED <<track, writer, client>>
  <2>1. QOK(q') /\ \A s \in Roles : Cared(q', s)
    BY <1>5, SkipLooks
  <2>2. WriterTypes' /\ writer'.pc # "wait"
    BY <1>4, <1>5 DEF WriterInv, WriterTypes
  <2> QED
    BY <2>1, <2>2, AwakeKeeps
<1>6. CASE /\ ~Late(e) /\ wait > 0 /\ q' = Block(y, r, wait) /\ track' = [track EXCEPT ![r] = t]
           /\ UNCHANGED <<writer, client>>
  <2>1. wait \in Nat
    <3> HIDE DEF wait
    <3> QED
      BY <1>3, <1>6
  <2>2. Looks(y, q', {r}) /\ Cared(q', r)
    <3> HIDE DEF wait
    <3> QED
      BY <1>1, <1>6, <2>1, BlockLooks
  <2>3. QOK(q') /\ \A s \in Roles : Cared(q', s)
    BY <2>2 DEF Looks
  <2>4. track' \in [Roles -> Trackers]
    <3> HIDE DEF t, wait
    <3> QED
      BY <1>1, <1>2, <1>6
  <2>5. WriterTypes' /\ writer'.pc # "wait"
    <3> HIDE DEF wait
    <3> QED
      BY <1>4, <1>6, <2>4 DEF WriterInv, WriterTypes
  <2> QED
    BY <2>3, <2>5, AwakeKeeps
<1>7. CASE /\ ~Late(e) /\ wait = 0 /\ Transmit(y, e)
           /\ track' = [track EXCEPT ![r].ends = Append(t.ends, e.play + 1), ![r].sending = TRUE]
  <2>1. QOK(q') /\ (\A s \in Roles \ {r} : Cared(q', s))
    BY <1>7, TransmitLooks DEF Transmit
  <2>2. track' \in [Roles -> Trackers]
    <3> DEFINE ends == Append(t.ends, e.play + 1)
    <3>1. ends \in Seq(Nat)
      <4> HIDE DEF t
      <4> QED
        BY <1>1, <1>2 DEF Trackers
    <3>2. track' = [track EXCEPT ![r].ends = ends, ![r].sending = TRUE]
      BY <1>7
    <3> HIDE DEF ends, t, wait
    <3>3. [track[r] EXCEPT !.ends = ends, !.sending = TRUE] \in Trackers
      BY <1>1, <3>1 DEF Trackers
    <3>4. track' = [track EXCEPT ![r] = [track[r] EXCEPT !.ends = ends, !.sending = TRUE]]
      BY <1>1, <3>2 DEF Trackers
    <3> QED
      BY <1>1, <3>3, <3>4
  <2>3. writer' = [writer EXCEPT !.pc = "send", !.role = r]
    BY <1>7 DEF Transmit
  <2>4. writer'.pc = "send" /\ writer'.role = r /\ WriterTypes'
    BY <1>1, <1>4, <2>2, <2>3 DEF WriterInv, WriterTypes
  <2> QED
    BY <2>1, <2>4, AwakeKeeps
<1> QED
  BY <1>5, <1>6, <1>7 DEF ProcessChunk

LEMMA ServeRoleWrites ==
  ASSUME WriterInv, ServeRole
  PROVE  WriterInv'
<1> DEFINE x == Promote(q)
           e == NextEntry(x)
           y == Popped(x, e)
<1>1. QOK(q) /\ now \in Nat /\ writer.pc = "run" /\ Serviceable(x) # {} /\ act.pc \notin {"drain", "announce"}
      /\ UNCHANGED <<now, act>>
  BY DEF WriterInv, WriterTypes, ServeRole, Writing
<1>2. \/ /\ e.kind = "chunk" /\ e.epoch /= q.epoch[e.role]
         /\ Skip(y, e)
      \/ /\ e.kind = "chunk" /\ e.epoch = q.epoch[e.role]
         /\ ProcessChunk(y, e)
      \/ /\ e.kind /= "chunk"
         /\ Transmit(y, e)
         /\ UNCHANGED <<role, track>>
  BY DEF ServeRole, NextEntry
<1>3. QOK(x) /\ \A s \in Roles : Cared(x, s)
  BY <1>1, PromoteLooks, RunningCares DEF Looks
<1> HIDE DEF x
<1>4. e \in Entries /\ e.role \in Serviceable(x) /\ e.role \in Roles
  BY <1>1, <1>3, NextEntryIs
<1> HIDE DEF e
<1>5. QOK(y) /\ \A s \in Roles \ {e.role} : Cared(y, s)
  BY <1>3, <1>4, PoppedLooks DEF Looks
<1> HIDE DEF y
<1>6. CASE Skip(y, e)
  <2>1. QOK(q') /\ \A s \in Roles : Cared(q', s)
    BY <1>4, <1>5, <1>6, SkipLooks DEF Skip
  <2>2. WriterTypes' /\ writer'.pc # "wait"
    BY <1>1, <1>6 DEF Skip, WriterInv, WriterTypes
  <2> QED
    BY <2>1, <2>2, AwakeKeeps
<1>7. CASE ProcessChunk(y, e)
  BY <1>1, <1>4, <1>5, <1>7, ProcessChunkWrites
<1>8. CASE Transmit(y, e) /\ UNCHANGED <<role, track>>
  <2>1. QOK(q') /\ \A s \in Roles \ {e.role} : Cared(q', s)
    BY <1>4, <1>5, <1>8, TransmitLooks DEF Transmit
  <2>2. writer' = [writer EXCEPT !.pc = "send", !.role = e.role]
    BY <1>8 DEF Transmit
  <2>3. writer'.pc = "send" /\ writer'.role = e.role /\ WriterTypes'
    BY <1>1, <1>4, <1>8, <2>2 DEF WriterInv, WriterTypes
  <2> QED
    BY <2>1, <2>3, AwakeKeeps
<1> QED
  BY <1>2, <1>6, <1>7, <1>8

LEMMA WriterInvInit ==
  ASSUME Init
  PROVE  WriterInv
<1>1. IsFiniteSet({}) /\ Cardinality({}) = 0 /\ MaxPending \in Nat
  BY FS_EmptySet, WriterAssumption
<1>2. q = [prio |-> <<>>, of |-> [r \in Roles |-> {}], ready |-> {}, seq |-> 0,
           lastTs |-> [r \in Roles |-> 0], epoch |-> [r \in Roles |-> 0],
           streaming |-> {}, blocked |-> [r \in Roles |-> None], delayed |-> {},
           gen |-> [r \in Roles |-> 0], held |-> [r \in Roles |-> <<>>], wake |-> FALSE,
           broken |-> FALSE]
  BY DEF Init
<1>3. <<>> \in Seq(Urgent) /\ <<>> \in Seq(HeldChunks) /\ <<>> \in Seq(Nat)
  OBVIOUS
<1>4. q \in Queues
  BY <1>2, <1>3 DEF Queues
<1>5. QOK(q) /\ \A r \in Roles : Cared(q, r)
  BY <1>1, <1>2, <1>4 DEF QOK, Numbered, Bounded, Waits, Cared
<1>6. track \in [Roles -> Trackers]
  BY <1>3 DEF Init, Trackers
<1>7. WriterTypes
  BY <1>6 DEF Init, WriterTypes, Views
<1>8. NoLostWakeup
  BY DEF Init, NoLostWakeup
<1> QED
  BY <1>5, <1>7, <1>8 DEF WriterInv

LEMMA WriterInvNext ==
  ASSUME WriterInv, Next
  PROVE  WriterInv'
<1>1. ASSUME NEW r \in Roles, NEW d \in 0..Ahead, AudioChunk(r, now + d)
      PROVE  WriterInv'
  <2>1. now + d \in Nat
    BY WriterAssumption DEF WriterInv, WriterTypes
  <2> QED
    BY <1>1, <2>1, AudioChunkWrites
<1>2. ASSUME NEW r \in Roles, StreamStart(r) \/ StreamClear(r) \/ StreamEnd(r) \/ ReleaseRole(r)
      PROVE  WriterInv'
  BY <1>2, StreamStartWrites, StreamClearWrites, StreamEndWrites, ReleaseRoleWrites
<1>3. CASE PriorityMessage \/ SendPriorityMessage \/ ServeRole \/ Sent \/ WaitForWork \/ WakeUp
  BY <1>3, PriorityMessageWrites, SendPriorityMessageWrites, ServeRoleWrites, SentWrites, WaitForWorkWrites,
     WakeUpWrites
<1>4. ASSUME NEW rs \in SUBSET Roles, Activate(rs)
      PROVE  WriterInv'
  BY <1>4, ActivateWrites
<1>5. CASE WriterPaused \/ Drain \/ SendActivation \/ Resume \/ Tick
  BY <1>5, WriterPausedWrites, DrainWrites, SendActivationWrites, ResumeWrites, TickWrites
<1> QED
  BY <1>1, <1>2, <1>3, <1>4, <1>5 DEF Next

\* No role is forgotten, as the invariant says more precisely.
LEMMA WriterInvAttends ==
  ASSUME WriterInv
  PROVE  NoRoleForgotten /\ NoLostWakeup
<1>1. NoRoleForgotten
  BY DEF NoRoleForgotten, WriterInv, Cared, QOK, Waits
<1> QED
  BY <1>1 DEF WriterInv

-----------------------------------------------------------------------------
\* The inductive invariant holds: entries are numbered and bounded, a role that waits for room is
\* on the list the writer looks at, a role with something queued is scheduled, waits, or is being
\* served, and the writer sleeps only while nothing is ready (_writer, _wait_for_writer_work,
\* _activate and every call that queues or drops).
THEOREM WriterInvHolds == MCSpec => []WriterInv
<1>1. MCInit => WriterInv
  BY WriterInvInit DEF MCInit
<1>2. WriterInv /\ [MCNext]_<<which, vars, scheduled>> => WriterInv'
  <2> SUFFICES ASSUME WriterInv, [MCNext]_<<which, vars, scheduled>>
        PROVE  WriterInv'
    OBVIOUS
  <2>1. CASE Next
    BY <2>1, WriterInvNext
  <2>2. CASE UNCHANGED vars
    <3>1. WriterTypes' /\ UNCHANGED <<q, writer>>
      BY <2>2 DEF vars, WriterInv, WriterTypes
    <3> QED
      BY <3>1, StillWrites
  <2> QED
    BY <2>1, <2>2 DEF MCNext
<1> QED
  BY <1>1, <1>2, PTL DEF MCSpec

\* Whatever the roles, the client's activations and the clock do, the writer forgets no role that
\* has something queued and does not sleep over work.
THEOREM WriterForgetsNoRole == MCSpec => []WriterAttends
<1>1. WriterInv => WriterAttends
  BY WriterInvAttends DEF WriterAttends
<1> QED
  BY <1>1, WriterInvHolds, PTL

-----------------------------------------------------------------------------
(* A stream, as its role, its queue and its client have it.                  *)

Listeners == [active : BOOLEAN, open : BOOLEAN, n : Nat, device : SUBSET [end : Nat, seq : Nat], stray : {{}}]

\* The entries that still count: stream messages, and chunks of the current epoch.
Moving(e) == e.kind \in {"start", "clear"}
Ending(e) == e.kind = "end"
Current(e, ep) == e.kind = "chunk" /\ e.epoch = ep
Counts(e, ep) == e.kind # "chunk" \/ e.epoch = ep

\* They are sent in the order in which they were queued, an end before all others, and a stream's
\* chunks between its own stream/start or stream/clear and the next.
Sorted(e, f, ep) ==
    /\ Counts(e, ep) /\ Counts(f, ep) /\ e.seq < f.seq => e.ts <= f.ts
    /\ Ending(e) /\ Counts(f, ep) /\ f # e => e.seq < f.seq
    /\ Moving(e) /\ Moving(f) /\ e.seq < f.seq => e.n < f.n
    /\ Current(e, ep) /\ Moving(f) => (f.seq < e.seq <=> f.n <= e.n)

InOrder(es, ep, last) ==
    /\ \A e \in es : e.epoch <= ep /\ (Counts(e, ep) => e.ts <= last)
    /\ \A e, f \in es : Sorted(e, f, ep)

NoEnd(es) == \A e \in es : ~Ending(e)

\* Stream n will be the client's, with what it has and what is queued.
Opens(es, c, n) == n = c.n \/ \E f \in es : Moving(f) /\ f.n = n

\* The client's stream follows the role's, and every chunk meets its stream open.
Follows(es, ep, v, c) ==
    /\ c.n <= v.n
    /\ \A f \in es : Moving(f) => c.n < f.n /\ f.n <= v.n
    /\ \A e \in es : Current(e, ep) =>
          /\ e.n <= v.n /\ Opens(es, c, e.n)
          /\ (c.open /\ NoEnd(es)) \/ \E f \in es : f.kind = "start" /\ f.seq < e.seq
    /\ v.started =>
          /\ v.active /\ Opens(es, c, v.n)
          /\ (c.open /\ NoEnd(es)) \/ \E f \in es : f.kind = "start"
    /\ ~v.started => \A f \in es : ~Moving(f)

\* Held chunks of the current epoch are of the current stream.
HeldFit(hs, ep, v) ==
    \A i \in 1..Len(hs) :
        /\ hs[i].epoch <= ep
        /\ hs[i].epoch = ep => v.started /\ v.hold /\ hs[i].n = v.n

\* An inactive role has nothing queued; a stream that is over will be ended.
Ended(es, v, c, owed) ==
    /\ ~v.active => ~v.started /\ ~v.hold /\ es = {}
    /\ ~v.started /\ c.open => ~NoEnd(es) \/ owed
    /\ ~c.open => c.device = {}

StreamOK(es, ep, last, hs, v, c, owed) ==
    /\ InOrder(es, ep, last)
    /\ Follows(es, ep, v, c)
    /\ HeldFit(hs, ep, v)
    /\ Ended(es, v, c, owed)

LEMMA EntryIs ==
  ASSUME NEW e \in Entries
  PROVE  e.seq \in Nat /\ e.n \in Nat /\ e.ts \in Nat /\ e.epoch \in Nat /\ e.kind \in Kinds /\ e.play \in Nat
  BY DEF Entries

LEMMA InOrderFewer ==
  ASSUME NEW es, NEW js \in SUBSET es, NEW ep, NEW last, InOrder(es, ep, last)
  PROVE  InOrder(js, ep, last)
  BY DEF InOrder

\* A new epoch: no chunk counts any more.
LEMMA InOrderBumped ==
  ASSUME NEW es \in SUBSET Entries, NEW ep \in Nat, NEW last, InOrder(es, ep, last)
  PROVE  InOrder(es, ep + 1, last) /\ \A e \in es : ~Current(e, ep + 1)
<1>1. \A e \in es : e.epoch \in Nat /\ e.epoch <= ep
  BY EntryIs DEF InOrder
<1>2. \A e \in es : e.epoch <= ep + 1 /\ e.epoch # ep + 1
  BY <1>1
<1>3. \A e \in es : (Counts(e, ep + 1) => Counts(e, ep)) /\ ~Current(e, ep + 1)
  BY <1>2 DEF Counts, Current
<1> DEFINE k == ep + 1
<1> HIDE DEF k
<1>4. \A e, f \in es : Sorted(e, f, ep) => Sorted(e, f, k)
  BY <1>3 DEF Sorted, k
<1> QED
  BY <1>2, <1>3, <1>4 DEF InOrder, k

\* A new entry comes last.
LEMMA InOrderJoined ==
  ASSUME NEW es \in SUBSET Entries, NEW ep \in Nat, NEW last \in Nat, InOrder(es, ep, last),
         NEW f \in Entries, f.epoch = ep, \A e \in es : e.seq < f.seq,
         f.ts >= last \/ \A e \in es : ~Counts(e, ep),
         Ending(f) => \A e \in es : ~Counts(e, ep),
         Moving(f) => \A e \in es : Moving(e) \/ Current(e, ep) => e.n < f.n,
         Current(f, ep) => \A e \in es : Moving(e) => e.n <= f.n
  PROVE  InOrder(es \cup {f}, ep, f.ts)
<1>1. \A e \in es : Counts(e, ep) => e.ts <= f.ts
  <2> SUFFICES ASSUME NEW e \in es, Counts(e, ep), f.ts >= last PROVE e.ts <= f.ts
    OBVIOUS
  <2>1. e.ts <= last /\ e.ts \in Nat /\ f.ts \in Nat
    BY EntryIs DEF InOrder
  <2> QED
    BY <2>1
<1>2. \A e \in es : e.seq \in Nat /\ f.seq \in Nat /\ e.n \in Nat /\ f.n \in Nat /\ ~(f.seq < e.seq) /\ e # f
  <2> SUFFICES ASSUME NEW e \in es
        PROVE e.seq \in Nat /\ f.seq \in Nat /\ e.n \in Nat /\ f.n \in Nat /\ ~(f.seq < e.seq) /\ e # f
    OBVIOUS
  <2>1. e.seq \in Nat /\ f.seq \in Nat /\ e.n \in Nat /\ f.n \in Nat /\ e.seq < f.seq
    BY EntryIs
  <2> QED
    BY <2>1
<1>3. \A e \in es : Sorted(e, f, ep) /\ Sorted(f, e, ep)
  <2> SUFFICES ASSUME NEW e \in es PROVE Sorted(e, f, ep) /\ Sorted(f, e, ep)
    OBVIOUS
  <2>1. e.seq < f.seq /\ ~(f.seq < e.seq) /\ e # f /\ (Counts(e, ep) => e.ts <= f.ts)
    BY <1>1, <1>2
  <2>2. Ending(f) => ~Counts(e, ep)
    OBVIOUS
  <2>3. Moving(f) /\ (Moving(e) \/ Current(e, ep)) => e.n < f.n /\ ~(f.n <= e.n)
    BY <1>2
  <2>4. Current(f, ep) /\ Moving(e) => e.n <= f.n
    OBVIOUS
  <2>5. Current(f, ep) => Counts(f, ep) /\ ~Moving(f) /\ ~Ending(f)
    BY DEF Current, Counts, Moving, Ending
  <2> QED
    BY <2>1, <2>2, <2>3, <2>4 DEF Sorted
<1>4. Sorted(f, f, ep)
  <2>1. ~(f.seq < f.seq) /\ ~(Current(f, ep) /\ Moving(f))
    BY EntryIs DEF Current, Moving
  <2> QED
    BY <2>1 DEF Sorted
<1>5. f.ts <= f.ts /\ f.epoch <= ep
  BY EntryIs
<1>6. \A e \in es \cup {f} : e.epoch <= ep /\ (Counts(e, ep) => e.ts <= f.ts)
  BY <1>1, <1>5 DEF InOrder
<1>7. \A e, h \in es \cup {f} : Sorted(e, h, ep)
  BY <1>3, <1>4 DEF InOrder
<1> QED
  BY <1>6, <1>7 DEF InOrder

LEMMA HeldBumped ==
  ASSUME NEW hs \in Seq(HeldChunks), NEW ep \in Nat, NEW v, HeldFit(hs, ep, v), NEW w
  PROVE  HeldFit(hs, ep + 1, w)
<1> SUFFICES ASSUME NEW i \in 1..Len(hs)
      PROVE hs[i].epoch <= ep + 1 /\ hs[i].epoch # ep + 1
  BY DEF HeldFit
<1>1. hs[i] \in HeldChunks /\ hs[i].epoch <= ep
  BY DEF HeldFit
<1>2. hs[i].epoch \in Nat
  BY <1>1 DEF HeldChunks
<1> QED
  BY <1>1, <1>2

\* on_stream_start: a stream/start queued.
LEMMA StartStreams ==
  ASSUME NEW es \in SUBSET Entries, NEW ep \in Nat, NEW last \in Nat, NEW hs \in Seq(HeldChunks),
         NEW v \in Views, NEW c \in Listeners, NEW owed, StreamOK(es, ep, last, hs, v, c, owed),
         v.active, ~(v.hold /\ v.started),
         NEW f \in Entries, f.kind = "start", f.n = v.n + 1, f.epoch = ep, f.ts >= last,
         \A e \in es : e.seq < f.seq
  PROVE  StreamOK(es \cup {f}, ep, f.ts, hs, [v EXCEPT !.started = TRUE, !.n = @ + 1, !.since = None], c, owed)
<1> DEFINE w == [v EXCEPT !.started = TRUE, !.n = @ + 1, !.since = None]
           js == es \cup {f}
<1>1. w.started /\ w.n = v.n + 1 /\ w.active /\ w.hold = v.hold /\ v.n \in Nat /\ c.n \in Nat
  BY DEF Views, Listeners
<1>2. Moving(f) /\ ~Ending(f) /\ ~Current(f, ep)
  BY DEF Moving, Ending, Current
<1>3. \A e \in es : e.n \in Nat
  BY EntryIs
<1> HIDE DEF w
<1>4. \A e \in es : Moving(e) \/ Current(e, ep) => e.n <= v.n /\ e.n < f.n
  BY <1>1, <1>3 DEF StreamOK, Follows
<1>5. InOrder(js, ep, f.ts)
  BY <1>2, <1>4, InOrderJoined DEF StreamOK
<1>6. \A n : Opens(es, c, n) => Opens(js, c, n)
  BY DEF Opens
<1>7. Opens(js, c, w.n) /\ \E g \in js : g.kind = "start"
  BY <1>1, <1>2 DEF Opens
<1>8. NoEnd(es) <=> NoEnd(js)
  BY <1>2 DEF NoEnd
<1>9. Follows(js, ep, w, c)
  <2>1. c.n <= w.n /\ c.n < f.n /\ f.n <= w.n
    BY <1>1 DEF StreamOK, Follows
  <2>2. \A g \in js : Moving(g) => c.n < g.n /\ g.n <= w.n
    <3>1. \A g \in es : Moving(g) => c.n < g.n /\ g.n <= w.n
      BY <1>1, <1>3, <1>4 DEF StreamOK, Follows
    <3> QED
      BY <2>1, <3>1
  <2>3. \A e \in js : Current(e, ep) =>
          /\ e.n <= w.n /\ Opens(js, c, e.n)
          /\ (c.open /\ NoEnd(js)) \/ \E g \in js : g.kind = "start" /\ g.seq < e.seq
    <3>1. \A e \in es : Current(e, ep) => e.n <= w.n
      BY <1>1, <1>3, <1>4
    <3> QED
      BY <3>1, <1>2, <1>6, <1>8 DEF StreamOK, Follows
  <2> QED
    BY <1>1, <1>7, <2>1, <2>2, <2>3 DEF Follows
<1>10. HeldFit(hs, ep, w)
  BY <1>1 DEF StreamOK, HeldFit
<1>11. Ended(js, w, c, owed)
  BY <1>1 DEF StreamOK, Ended
<1> QED
  BY <1>5, <1>9, <1>10, <1>11 DEF StreamOK, w

\* on_stream_clear: a new epoch, and a stream/clear queued.
LEMMA ClearStreams ==
  ASSUME NEW es \in SUBSET Entries, NEW ep \in Nat, NEW last \in Nat, NEW hs \in Seq(HeldChunks),
         NEW v \in Views, NEW c \in Listeners, NEW owed, StreamOK(es, ep, last, hs, v, c, owed),
         v.started,
         NEW f \in Entries, f.kind = "clear", f.n = v.n + 1, f.epoch = ep + 1, f.ts >= last,
         \A e \in es : e.seq < f.seq
  PROVE  StreamOK(es \cup {f}, ep + 1, f.ts, hs, [v EXCEPT !.n = @ + 1, !.since = None], c, owed)
<1> DEFINE w == [v EXCEPT !.n = @ + 1, !.since = None]
           js == es \cup {f}
           k == ep + 1
<1>0. k \in Nat
  OBVIOUS
<1>1. w.started /\ w.n = v.n + 1 /\ w.active /\ w.hold = v.hold /\ v.n \in Nat /\ c.n \in Nat
  BY DEF Views, Listeners, StreamOK, Follows
<1>2. Moving(f) /\ ~Ending(f) /\ ~Current(f, k) /\ f.kind # "start"
  BY DEF Moving, Ending, Current
<1>3. \A e \in es : e.n \in Nat
  BY EntryIs
<1>4. InOrder(es, k, last) /\ \A e \in es : ~Current(e, k)
  BY InOrderBumped DEF StreamOK
<1>5. HeldFit(hs, k, w)
  BY HeldBumped DEF StreamOK
<1> HIDE DEF w, k
<1>6. \A e \in es : Moving(e) \/ Current(e, k) => e.n <= v.n /\ e.n < f.n
  BY <1>1, <1>3, <1>4 DEF StreamOK, Follows
<1>7. InOrder(js, k, f.ts)
  BY <1>0, <1>2, <1>4, <1>6, InOrderJoined DEF k
<1>8. Opens(js, c, w.n)
  BY <1>1, <1>2 DEF Opens
<1>9. NoEnd(es) <=> NoEnd(js)
  BY <1>2 DEF NoEnd
<1>10. Follows(js, k, w, c)
  <2>1. c.n <= w.n /\ c.n < f.n /\ f.n <= w.n
    BY <1>1 DEF StreamOK, Follows
  <2>2. \A g \in js : Moving(g) => c.n < g.n /\ g.n <= w.n
    <3>1. \A g \in es : Moving(g) => c.n < g.n /\ g.n <= w.n
      BY <1>1, <1>3, <1>6 DEF StreamOK, Follows
    <3> QED
      BY <2>1, <3>1
  <2>3. \A e \in js : ~Current(e, k)
    BY <1>2, <1>4
  <2>4. (c.open /\ NoEnd(js)) \/ \E g \in js : g.kind = "start"
    BY <1>9 DEF StreamOK, Follows
  <2> QED
    BY <1>1, <1>8, <2>1, <2>2, <2>3, <2>4 DEF Follows
<1>11. Ended(js, w, c, owed)
  BY <1>1 DEF StreamOK, Ended
<1> QED
  BY <1>5, <1>7, <1>10, <1>11 DEF StreamOK, w, k

Stays(es) == {e \in es : e.kind \notin {"start", "clear"}}

\* on_stream_end: a new epoch, unsent starts and clears superseded, and a stream/end if it is owed.
LEMMA EndStreams ==
  ASSUME NEW es \in SUBSET Entries, NEW ep \in Nat, NEW last \in Nat, NEW hs \in Seq(HeldChunks),
         NEW v \in Views, NEW c \in Listeners, NEW owed, StreamOK(es, ep, last, hs, v, c, owed),
         v.active
  PROVE  /\ NoEnd(es) => \A f \in Entries :
               f.kind = "end" /\ f.epoch = ep + 1 /\ (\A e \in Stays(es) : e.seq < f.seq) =>
               StreamOK(Stays(es) \cup {f}, ep + 1, f.ts, hs, [v EXCEPT !.started = FALSE, !.since = None], c, owed)
         /\ ~NoEnd(es) \/ ~c.open =>
               StreamOK(Stays(es), ep + 1, last, hs, [v EXCEPT !.started = FALSE, !.since = None], c, owed)
<1> DEFINE w == [v EXCEPT !.started = FALSE, !.since = None]
           js == Stays(es)
           k == ep + 1
<1>0. k \in Nat
  OBVIOUS
<1>1. ~w.started /\ w.n = v.n /\ w.active
  BY DEF Views
<1>2. js \in SUBSET es /\ \A e \in js : ~Moving(e)
  BY DEF Stays, Moving
<1>3. NoEnd(es) <=> NoEnd(js)
  BY DEF NoEnd, Stays, Ending
<1>4. InOrder(es, k, last) /\ \A e \in es : ~Current(e, k)
  BY InOrderBumped DEF StreamOK
<1>5. HeldFit(hs, k, w)
  BY HeldBumped DEF StreamOK
<1> HIDE DEF w, k, js
<1>6. InOrder(js, k, last)
  BY <1>2, <1>4, InOrderFewer
<1>7. c.n <= w.n
  BY <1>1 DEF StreamOK, Follows
<1>8. Follows(js, k, w, c)
  BY <1>1, <1>2, <1>4, <1>7 DEF Follows
<1>9. ASSUME NoEnd(es), NEW f \in Entries, f.kind = "end", f.epoch = k, \A e \in js : e.seq < f.seq
      PROVE  StreamOK(js \cup {f}, k, f.ts, hs, w, c, owed)
  <2>1. Ending(f) /\ ~Moving(f) /\ ~Current(f, k)
    BY <1>9 DEF Moving, Ending, Current
  <2>2. \A e \in js : ~Counts(e, k)
    <3> SUFFICES ASSUME NEW e \in js PROVE ~Counts(e, k)
      OBVIOUS
    <3>1. e.kind \in Kinds /\ ~Moving(e) /\ ~Ending(e) /\ ~Current(e, k)
      BY <1>2, <1>3, <1>4, <1>9, EntryIs DEF NoEnd
    <3> QED
      BY <3>1 DEF Kinds, Moving, Ending, Current, Counts
  <2>3. InOrder(js \cup {f}, k, f.ts)
    BY <1>0, <1>2, <1>6, <1>9, <2>1, <2>2, InOrderJoined
  <2>4. Follows(js \cup {f}, k, w, c)
    BY <1>1, <1>2, <1>4, <1>7, <2>1 DEF Follows
  <2>5. ~NoEnd(js \cup {f})
    BY <2>1 DEF NoEnd
  <2>6. Ended(js \cup {f}, w, c, owed)
    BY <1>1, <2>5 DEF StreamOK, Ended
  <2> QED
    BY <1>5, <2>3, <2>4, <2>6 DEF StreamOK
<1>10. ASSUME ~NoEnd(es) \/ ~c.open
       PROVE  StreamOK(js, k, last, hs, w, c, owed)
  <2>1. Ended(js, w, c, owed)
    BY <1>1, <1>3, <1>10 DEF StreamOK, Ended
  <2> QED
    BY <1>5, <1>6, <1>8, <2>1 DEF StreamOK
<1> QED
  BY <1>9, <1>10 DEF js, k, w

\* A chunk of the current stream queued.
LEMMA ChunkStreams ==
  ASSUME NEW es \in SUBSET Entries, NEW ep \in Nat, NEW last \in Nat, NEW hs \in Seq(HeldChunks),
         NEW v \in Views, NEW c \in Listeners, NEW owed, StreamOK(es, ep, last, hs, v, c, owed),
         v.started,
         NEW f \in Entries, f.kind = "chunk", f.n = v.n, f.epoch = ep, f.ts >= last,
         \A e \in es : e.seq < f.seq
  PROVE  StreamOK(es \cup {f}, ep, f.ts, hs, v, c, owed)
<1> DEFINE js == es \cup {f}
<1>1. ~Moving(f) /\ ~Ending(f) /\ Current(f, ep) /\ f.kind # "start" /\ v.n \in Nat
  BY DEF Moving, Ending, Current, Views
<1>2. \A e \in es : Moving(e) => e.n <= f.n
  BY DEF StreamOK, Follows
<1>3. InOrder(js, ep, f.ts)
  BY <1>1, <1>2, InOrderJoined DEF StreamOK
<1>4. \A n : Opens(es, c, n) => Opens(js, c, n)
  BY DEF Opens
<1>5. NoEnd(es) <=> NoEnd(js)
  BY <1>1 DEF NoEnd
<1>6. /\ f.n <= v.n /\ Opens(js, c, f.n)
      /\ (c.open /\ NoEnd(js)) \/ \E g \in js : g.kind = "start" /\ g.seq < f.seq
  <2>1. f.n <= v.n
    BY <1>1
  <2>2. Opens(es, c, f.n) /\ ((c.open /\ NoEnd(es)) \/ \E g \in es : g.kind = "start")
    BY DEF StreamOK, Follows
  <2> QED
    BY <1>4, <1>5, <2>1, <2>2
<1>7. Follows(js, ep, v, c)
  BY <1>1, <1>4, <1>5, <1>6 DEF StreamOK, Follows
<1>8. Ended(js, v, c, owed)
  BY <1>5 DEF StreamOK, Ended, Follows
<1> QED
  BY <1>3, <1>7, <1>8 DEF StreamOK

\* A chunk of the current stream held.
LEMMA HoldStreams ==
  ASSUME NEW es \in SUBSET Entries, NEW ep \in Nat, NEW last \in Nat, NEW hs \in Seq(HeldChunks),
         NEW v \in Views, NEW c \in Listeners, NEW owed, StreamOK(es, ep, last, hs, v, c, owed),
         v.started, v.hold, NEW h \in HeldChunks, h.n = v.n, h.epoch = ep
  PROVE  StreamOK(es, ep, last, Append(hs, h), v, c, owed)
<1>1. \A i \in 1..Len(Append(hs, h)) : Append(hs, h)[i] = h \/ (i \in 1..Len(hs) /\ Append(hs, h)[i] = hs[i])
  OBVIOUS
<1>2. ep <= ep
  OBVIOUS
<1>3. HeldFit(Append(hs, h), ep, v)
  BY <1>1, <1>2 DEF StreamOK, HeldFit
<1> QED
  BY <1>3 DEF StreamOK

\* Nothing that counts was queued before the head.
LEMMA HeadIsFirst ==
  ASSUME NEW es \in SUBSET Entries, NEW ep, NEW last, InOrder(es, ep, last), NEW e \in es, Counts(e, ep),
         \A f \in es \ {e} : Before(e, f), \A f \in es : f.seq = e.seq => f = e,
         NEW f \in es, Counts(f, ep), f # e
  PROVE  e.seq < f.seq
<1>1. Sorted(f, e, ep) /\ Before(e, f) /\ f.seq # e.seq
  BY DEF InOrder
<1>2. e.ts \in Nat /\ f.ts \in Nat /\ e.seq \in Nat /\ f.seq \in Nat
  BY EntryIs
<1>3. f.seq < e.seq => f.ts <= e.ts
  BY <1>1 DEF Sorted
<1> QED
  BY <1>1, <1>2, <1>3 DEF Before

LEMMA ChunkDropped ==
  ASSUME NEW es \in SUBSET Entries, NEW ep, NEW last, NEW hs, NEW v, NEW c, NEW owed,
         StreamOK(es, ep, last, hs, v, c, owed), NEW e \in es, e.kind = "chunk"
  PROVE  StreamOK(es \ {e}, ep, last, hs, v, c, owed)
<1> DEFINE js == es \ {e}
<1>1. ~Moving(e) /\ ~Ending(e) /\ e.kind # "start"
  BY DEF Moving, Ending
<1>2. InOrder(js, ep, last)
  BY InOrderFewer DEF StreamOK
<1>3. (NoEnd(es) <=> NoEnd(js)) /\ \A n : Opens(es, c, n) => Opens(js, c, n)
  BY <1>1 DEF NoEnd, Opens
<1>4. Follows(js, ep, v, c)
  BY <1>1, <1>3 DEF StreamOK, Follows
<1>5. Ended(js, v, c, owed)
  BY <1>3 DEF StreamOK, Ended
<1> QED
  BY <1>2, <1>4, <1>5 DEF StreamOK

\* The head sent, as the client takes it.
LEMMA HeadSent ==
  ASSUME NEW es \in SUBSET Entries, NEW ep \in Nat, NEW last, NEW hs,
         NEW v \in Views, NEW c \in Listeners, NEW owed, StreamOK(es, ep, last, hs, v, c, owed),
         NEW e \in es, Counts(e, ep), \A f \in es \ {e} : Before(e, f),
         \A f, g \in es : f.seq = g.seq => f = g, now \in Nat
  PROVE  Told(c, e) \in Listeners /\ Told(c, e).active = c.active
         /\ StreamOK(es \ {e}, ep, last, hs, v, Told(c, e), owed)
         /\ (e.kind = "chunk" => c.open)
<1> DEFINE js == es \ {e}
           d == Told(c, e)
<1>1. e \in Entries /\ e.kind \in {"start", "clear", "end", "chunk"} /\ e.n \in Nat /\ e.seq \in Nat /\ e.play + 1 \in Nat
      /\ c.n \in Nat /\ v.n \in Nat
  BY EntryIs DEF Kinds, Listeners, Views
<1>2. \A f \in es : f.n \in Nat /\ f.seq \in Nat
  BY EntryIs
<1>3. \A f \in js : Counts(f, ep) => e.seq < f.seq /\ ~(f.seq < e.seq)
  <2> SUFFICES ASSUME NEW f \in js, Counts(f, ep) PROVE e.seq < f.seq /\ ~(f.seq < e.seq)
    OBVIOUS
  <2>1. e.seq < f.seq
    BY HeadIsFirst DEF StreamOK
  <2> QED
    BY <2>1, <1>2
<1>4. \A f \in es : (Moving(f) \/ Ending(f) \/ f.kind = "start" \/ Current(f, ep) => Counts(f, ep))
  BY DEF Moving, Ending, Current, Counts
<1>5. \A f, g \in es : Sorted(f, g, ep)
  BY DEF StreamOK, InOrder
<1>6. InOrder(js, ep, last)
  BY InOrderFewer DEF StreamOK
<1>7. CASE e.kind = "start"
  <2>1. d = [c EXCEPT !.open = TRUE, !.n = e.n] /\ Moving(e) /\ ~Ending(e) /\ ~Current(e, ep)
    BY <1>7 DEF Told, Moving, Ending, Current
  <2>2. d \in Listeners /\ d.open /\ d.n = e.n /\ d.active = c.active /\ d.device = c.device
    BY <1>1, <2>1 DEF Listeners
  <2> HIDE DEF d
  <2>3. NoEnd(es) /\ NoEnd(js) /\ v.started
    BY <1>3, <1>4, <1>5, <2>1 DEF NoEnd, Sorted, StreamOK, Follows
  <2>4. c.n < e.n /\ e.n <= v.n /\ \A f \in js : Moving(f) => e.n < f.n /\ f.n <= v.n
    BY <1>3, <1>4, <1>5, <2>1 DEF Sorted, StreamOK, Follows
  <2>5. \A f \in js : Current(f, ep) => e.n <= f.n
    BY <1>3, <1>4, <1>5, <2>1 DEF Sorted
  <2>6. \A n \in Nat : e.n <= n /\ Opens(es, c, n) => Opens(js, d, n)
    BY <1>1, <2>2, <2>4 DEF Opens
  <2>7. Follows(js, ep, v, d)
    <3>1. \A f \in js : Current(f, ep) => f.n <= v.n /\ Opens(js, d, f.n) /\ d.open /\ NoEnd(js)
      BY <1>2, <2>2, <2>3, <2>5, <2>6 DEF StreamOK, Follows
    <3>2. v.active /\ Opens(js, d, v.n) /\ d.open /\ NoEnd(js)
      BY <1>1, <2>2, <2>3, <2>4, <2>6 DEF StreamOK, Follows
    <3> QED
      BY <2>2, <2>3, <2>4, <3>1, <3>2 DEF Follows
  <2>8. Ended(js, v, d, owed)
    BY <2>2, <2>3 DEF StreamOK, Ended
  <2> QED
    BY <1>6, <1>7, <2>2, <2>7, <2>8 DEF StreamOK, d
<1>8. CASE e.kind = "clear"
  <2>1. d = [c EXCEPT !.n = e.n, !.device = {}] /\ Moving(e) /\ ~Ending(e) /\ ~Current(e, ep) /\ e.kind # "start"
    BY <1>8 DEF Told, Moving, Ending, Current
  <2>2. d \in Listeners /\ d.open = c.open /\ d.n = e.n /\ d.active = c.active /\ d.device = {}
    BY <1>1, <2>1 DEF Listeners
  <2> HIDE DEF d
  <2>3. NoEnd(es) /\ NoEnd(js) /\ v.started
    BY <1>3, <1>4, <1>5, <2>1 DEF NoEnd, Sorted, StreamOK, Follows
  <2>4. c.n < e.n /\ e.n <= v.n /\ \A f \in js : Moving(f) => e.n < f.n /\ f.n <= v.n
    BY <1>3, <1>4, <1>5, <2>1 DEF Sorted, StreamOK, Follows
  <2>5. \A f \in js : Current(f, ep) => e.n <= f.n
    BY <1>3, <1>4, <1>5, <2>1 DEF Sorted
  <2>6. \A n \in Nat : e.n <= n /\ Opens(es, c, n) => Opens(js, d, n)
    BY <1>1, <2>2, <2>4 DEF Opens
  <2>7. Follows(js, ep, v, d)
    <3>1. \A f \in js : Current(f, ep) =>
            /\ f.n <= v.n /\ Opens(js, d, f.n)
            /\ (d.open /\ NoEnd(js)) \/ \E g \in js : g.kind = "start" /\ g.seq < f.seq
      BY <1>2, <2>1, <2>2, <2>3, <2>5, <2>6 DEF StreamOK, Follows
    <3>2. v.active /\ Opens(js, d, v.n) /\ ((d.open /\ NoEnd(js)) \/ \E g \in js : g.kind = "start")
      BY <1>1, <2>1, <2>2, <2>3, <2>4, <2>6 DEF StreamOK, Follows
    <3> QED
      BY <2>2, <2>3, <2>4, <3>1, <3>2 DEF Follows
  <2>8. Ended(js, v, d, owed)
    BY <2>2, <2>3 DEF StreamOK, Ended
  <2> QED
    BY <1>6, <1>8, <2>2, <2>7, <2>8 DEF StreamOK, d
<1>9. CASE e.kind = "end"
  <2>1. d = [c EXCEPT !.open = FALSE, !.device = {}] /\ ~Moving(e) /\ Ending(e) /\ ~Current(e, ep) /\ e.kind # "start"
    BY <1>9 DEF Told, Moving, Ending, Current
  <2>2. d \in Listeners /\ ~d.open /\ d.n = c.n /\ d.active = c.active /\ d.device = {}
    BY <2>1 DEF Listeners
  <2> HIDE DEF d
  <2>3. ~NoEnd(es) /\ \A n : Opens(es, c, n) => Opens(js, d, n)
    BY <2>1, <2>2 DEF NoEnd, Opens
  <2>4. Follows(js, ep, v, d)
    BY <2>1, <2>2, <2>3 DEF StreamOK, Follows
  <2>5. Ended(js, v, d, owed)
    BY <2>2 DEF StreamOK, Ended
  <2> QED
    BY <1>6, <1>9, <2>2, <2>4, <2>5 DEF StreamOK, d
<1>10. CASE e.kind = "chunk"
  <2>1. Current(e, ep) /\ ~Moving(e)
    BY <1>10 DEF Counts, Current, Moving
  <2>2. c.n = e.n /\ c.open
    <3>1. ASSUME NEW g \in es, Moving(g) PROVE ~(g.seq < e.seq) /\ ~(g.n <= e.n)
      <4>1. g \in js /\ Counts(g, ep)
        BY <1>4, <2>1, <3>1
      <4>2. ~(g.seq < e.seq)
        BY <1>3, <4>1
      <4> QED
        BY <1>5, <2>1, <3>1, <4>2 DEF Sorted
    <3>2. \A g \in es : Moving(g) => g.n # e.n
      BY <1>1, <3>1
    <3>3. ~ \E g \in es : g.kind = "start" /\ g.seq < e.seq
      BY <3>1 DEF Moving
    <3> QED
      BY <2>1, <3>2, <3>3 DEF StreamOK, Follows, Opens
  <2> DEFINE new == {x \in {[end |-> e.play + 1, seq |-> e.seq]} : x.end > now}
             dev == c.device \cup new
  <2>3. dev \in SUBSET [end : Nat, seq : Nat]
    BY <1>1 DEF Listeners
  <2> HIDE DEF dev
  <2>4. d = [c EXCEPT !.device = dev, !.stray = c.stray]
    BY <1>10, <2>2 DEF Told, dev
  <2>5. d \in Listeners /\ d.open = c.open /\ d.n = c.n /\ d.active = c.active
    BY <2>3, <2>4 DEF Listeners
  <2> HIDE DEF d
  <2>6. StreamOK(js, ep, last, hs, v, c, owed)
    BY <1>10, ChunkDropped
  <2>7. StreamOK(js, ep, last, hs, v, d, owed)
    BY <2>2, <2>5, <2>6 DEF StreamOK, Follows, Opens, Ended
  <2> QED
    BY <2>2, <2>5, <2>7 DEF d
<1> QED
  BY <1>1, <1>7, <1>8, <1>9, <1>10

-----------------------------------------------------------------------------
(* What a call does to its role's stream.                                    *)

\* A stream/end of the role is among the messages that go ahead.
Owed(p, r) == \E i \in 1..Len(p) : p[i].kind = "end" /\ p[i].role = r

Streams(x, r, v, c) == StreamOK(x.of[r], x.epoch[r], x.lastTs[r], x.held[r], v, c, Owed(x.prio, r))

SameQueue(x, y, s) ==
    y.of[s] = x.of[s] /\ y.epoch[s] = x.epoch[s] /\ y.lastTs[s] = x.lastTs[s] /\ y.held[s] = x.held[s]

\* Only the queue of r changes, if any.
Apart(x, y, r) == y.streaming = x.streaming /\ \A s \in Roles \ {r} : SameQueue(x, y, s)

\* The client's buffer will be emptied before the next chunk of the role.
Emptying(e) == e.kind \in {"clear", "end"}

WillEmpty(x, r) ==
    \/ Owed(x.prio, r)
    \/ \E g \in x.of[r] : Emptying(g) /\ \A e \in x.of[r] : Current(e, x.epoch[r]) => g.seq < e.seq

LEMMA EmptyJoined ==
  ASSUME NEW x, NEW y, NEW r, NEW f, y.of[r] = x.of[r] \cup {f}, \A g \in x.of[r] : g.seq < f.seq,
         y.epoch[r] = x.epoch[r], y.prio = x.prio, WillEmpty(x, r)
  PROVE  WillEmpty(y, r)
  BY DEF WillEmpty

LEMMA QueueTypes ==
  ASSUME NEW x, QOK(x), NEW r \in Roles
  PROVE  /\ x \in Queues /\ x.of[r] \in SUBSET Entries /\ x.epoch[r] \in Nat /\ x.lastTs[r] \in Nat
         /\ x.held[r] \in Seq(HeldChunks) /\ Owed(x.prio, r) \in BOOLEAN /\ x.seq \in Nat
         /\ x.of \in [Roles -> SUBSET Entries] /\ x.epoch \in [Roles -> Nat] /\ x.lastTs \in [Roles -> Nat]
         /\ x.held \in [Roles -> Seq(HeldChunks)]
  BY DEF QOK, Queues, Owed

\* _enqueue_role_entry, the entry placed at a time of its own.
Place(x, r, ts, e) == Enqueue([x EXCEPT !.lastTs[r] = ts], e)

LEMMA EnqueueDoes ==
  ASSUME NEW x, QOK(x), NEW r \in Roles, NEW ts \in Nat, NEW e \in Entries, e.role = r, ~IsFull(x, r),
         NEW y, y = Place(x, r, ts, e)
  PROVE  /\ QOK(y) /\ Apart(x, y, r) /\ y.prio = x.prio /\ y.broken = x.broken
         /\ y.lastTs[r] = ts /\ y.epoch[r] = x.epoch[r] /\ y.held[r] = x.held[r]
         /\ \E f \in Entries :
              /\ f.kind = e.kind /\ f.n = e.n /\ f.epoch = e.epoch /\ f.ts = e.ts
              /\ y.of[r] = x.of[r] \cup {f} /\ \A g \in x.of[r] : g.seq < f.seq
<1> DEFINE u == [x EXCEPT !.lastTs[r] = ts]
           f == [e EXCEPT !.seq = x.seq]
<1>1. QOK(u) /\ u = [x EXCEPT !.lastTs = [x.lastTs EXCEPT ![r] = ts]]
  BY LastTsKeeps
<1>2. f \in Entries /\ f.seq = x.seq /\ f.kind = e.kind /\ f.n = e.n /\ f.epoch = e.epoch /\ f.ts = e.ts
  BY QueueTypes DEF Entries
<1>3. \A g \in x.of[r] : g.seq < f.seq
  BY <1>2 DEF QOK, Numbered
<1> DEFINE last == [x.lastTs EXCEPT ![r] = ts]
<1>4. u = [x EXCEPT !.lastTs = last] /\ x \in Queues /\ last[r] = ts /\ \A s \in Roles \ {r} : last[s] = x.lastTs[s]
  BY <1>1, QueueTypes
<1> HIDE DEF u, last
<1>5. u.of = x.of /\ u.seq = x.seq /\ u.lastTs = last /\ u.epoch = x.epoch /\ u.held = x.held
      /\ u.prio = x.prio /\ u.broken = x.broken /\ u.streaming = x.streaming /\ u \in Queues
  BY <1>1, <1>4 DEF QOK, Queues
<1>6. Cardinality(u.of[r]) < MaxPending
  BY <1>5, FullOrNot
<1>7. /\ Keeps(u, y) /\ y.of = [u.of EXCEPT ![r] = @ \cup {f}]
      /\ y = [u EXCEPT !.of = y.of, !.ready = y.ready, !.seq = u.seq + 1, !.wake = TRUE]
  <2>1. y = Enqueue(u, e)
    BY DEF u, Place
  <2>2. QOK(u) /\ Cardinality(u.of[e.role]) < MaxPending
    BY <1>1, <1>6
  <2>3. /\ Keeps(u, Enqueue(u, e))
        /\ Enqueue(u, e).of = [u.of EXCEPT ![e.role] = @ \cup {[e EXCEPT !.seq = u.seq]}]
        /\ Enqueue(u, e) = [u EXCEPT !.of = Enqueue(u, e).of, !.ready = Enqueue(u, e).ready,
                                      !.seq = u.seq + 1, !.wake = TRUE]
    BY <2>2, EnqueueKeeps
  <2>4. [e EXCEPT !.seq = u.seq] = f
    BY <1>5
  <2>5. [u.of EXCEPT ![e.role] = @ \cup {[e EXCEPT !.seq = u.seq]}] = [u.of EXCEPT ![r] = @ \cup {f}]
    BY <2>4
  <2> QED
    BY <2>1, <2>3, <2>5
<1> HIDE DEF f
<1>8. y.lastTs = last /\ y.epoch = x.epoch /\ y.held = x.held /\ y.prio = x.prio /\ y.broken = x.broken
      /\ y.streaming = x.streaming
  BY <1>5, <1>7 DEF Queues
<1>9. y.of[r] = x.of[r] \cup {f} /\ \A s \in Roles \ {r} : y.of[s] = x.of[s]
  <2>1. u.of \in [Roles -> SUBSET Entries] /\ u.of = x.of
    BY <1>5 DEF Queues
  <2> QED
    BY <1>7, <2>1
<1>10. Apart(x, y, r) /\ QOK(y)
  BY <1>4, <1>7, <1>8, <1>9 DEF Apart, SameQueue, Keeps
<1> QED
  BY <1>2, <1>3, <1>4, <1>8, <1>9, <1>10

LEMMA DropPendingDoes ==
  ASSUME NEW x, QOK(x), NEW r \in Roles, NEW y, y = DropPending(x, r)
  PROVE  /\ QOK(y) /\ Apart(x, y, r) /\ y.prio = x.prio /\ y.broken = x.broken /\ y.seq = x.seq
         /\ y.of = x.of /\ y.lastTs = x.lastTs /\ y.held = x.held /\ y.epoch[r] = x.epoch[r] + 1
<1> DEFINE ep == [x.epoch EXCEPT ![r] = @ + 1]
<1>1. QOK(y) /\ y = [x EXCEPT !.epoch[r] = @ + 1, !.blocked = y.blocked, !.gen = y.gen, !.ready = y.ready, !.wake = TRUE]
  BY DropPendingKeeps DEF Keeps
<1>2. x \in Queues /\ ep[r] = x.epoch[r] + 1 /\ \A s \in Roles \ {r} : ep[s] = x.epoch[s]
  BY QueueTypes
<1>3. y = [x EXCEPT !.epoch = ep, !.blocked = y.blocked, !.gen = y.gen, !.ready = y.ready, !.wake = TRUE]
  BY <1>1, <1>2 DEF Queues
<1> HIDE DEF ep
<1>4. y.of = x.of /\ y.lastTs = x.lastTs /\ y.held = x.held /\ y.epoch = ep /\ y.prio = x.prio
      /\ y.broken = x.broken /\ y.streaming = x.streaming /\ y.seq = x.seq
  BY <1>2, <1>3 DEF Queues
<1> QED
  BY <1>1, <1>2, <1>4 DEF Apart, SameQueue

LEMMA SupersedeDoes ==
  ASSUME NEW x, QOK(x), NEW r \in Roles, NEW y, y = Supersede(x, r)
  PROVE  /\ QOK(y) /\ Apart(x, y, r) /\ y.prio = x.prio /\ y.broken = x.broken /\ y.seq = x.seq
         /\ y.of[r] = Stays(x.of[r]) /\ y.lastTs = x.lastTs /\ y.held = x.held /\ y.epoch = x.epoch
<1> DEFINE ofs == [x.of EXCEPT ![r] = Stays(x.of[r])]
<1>1. QOK(y) /\ y = [x EXCEPT !.of = ofs]
  BY SupersedeKeeps DEF Stays
<1>2. x \in Queues /\ ofs[r] = Stays(x.of[r]) /\ \A s \in Roles \ {r} : ofs[s] = x.of[s]
  BY QueueTypes
<1> HIDE DEF ofs
<1>4. y.of = ofs /\ y.lastTs = x.lastTs /\ y.held = x.held /\ y.epoch = x.epoch /\ y.prio = x.prio
      /\ y.broken = x.broken /\ y.streaming = x.streaming /\ y.seq = x.seq
  BY <1>1, <1>2 DEF Queues
<1> QED
  BY <1>1, <1>2, <1>4 DEF Apart, SameQueue

LEMMA OverflowBreaks ==
  ASSUME NEW x, QOK(x)
  PROVE  Overflow(x).broken /\ QOK(Overflow(x))
<1>1. x \in Queues
  BY DEF QOK
<1> QED
  BY <1>1, OverflowKeeps DEF Overflow, Queues, Keeps

\* send_binary of a chunk of the role's stream
LEMMA SendBinaryDoes ==
  ASSUME NEW x, QOK(x), NEW r \in Roles, NEW ts \in Nat, NEW v \in Views, v.started, NEW c \in Listeners,
         Streams(x, r, v, c), NEW y, y = SendBinary(x, r, ts, v.n)
  PROVE  QOK(y) /\ (y.broken \/ (Apart(x, y, r) /\ y.prio = x.prio /\ y.epoch[r] = x.epoch[r]
                                 /\ y.held[r] = x.held[r] /\ y.broken = x.broken /\ Streams(y, r, v, c)
                                 /\ (WillEmpty(x, r) => WillEmpty(y, r))))
<1>0. x.lastTs[r] \in Nat /\ x.epoch[r] \in Nat /\ v.n \in Nat
  BY QueueTypes DEF Views
<1>1. CASE IsFull(x, r)
  BY <1>1, OverflowBreaks DEF SendBinary
<1>2. CASE ~IsFull(x, r)
  <2> DEFINE at == Max({ts, x.lastTs[r]})
             e == [NoEntry EXCEPT !.ts = at, !.play = ts, !.kind = "chunk", !.role = r,
                                  !.n = v.n, !.epoch = x.epoch[r]]
  <2>1. at \in Nat /\ at >= x.lastTs[r]
    BY <1>0, LaterOf
  <2>2. y = Place(x, r, at, e)
    BY <1>2 DEF SendBinary, Place
  <2> HIDE DEF at
  <2>3. e \in Entries /\ e.role = r /\ e.kind = "chunk" /\ e.n = v.n /\ e.epoch = x.epoch[r] /\ e.ts = at
    BY <2>1, <1>0 DEF NoEntry, Entries, Kinds
  <2> HIDE DEF e
  <2>4. /\ QOK(y) /\ Apart(x, y, r) /\ y.prio = x.prio /\ y.broken = x.broken
        /\ y.lastTs[r] = at /\ y.epoch[r] = x.epoch[r] /\ y.held[r] = x.held[r]
        /\ \E f \in Entries :
             /\ f.kind = e.kind /\ f.n = e.n /\ f.epoch = e.epoch /\ f.ts = e.ts
             /\ y.of[r] = x.of[r] \cup {f} /\ \A g \in x.of[r] : g.seq < f.seq
    BY <1>2, <2>1, <2>2, <2>3, EnqueueDoes
  <2>5. PICK f \in Entries :
             /\ f.kind = "chunk" /\ f.n = v.n /\ f.epoch = x.epoch[r] /\ f.ts = at
             /\ y.of[r] = x.of[r] \cup {f} /\ \A g \in x.of[r] : g.seq < f.seq
    BY <2>3, <2>4
  <2>6. StreamOK(x.of[r] \cup {f}, x.epoch[r], f.ts, x.held[r], v, c, Owed(x.prio, r))
    <3>1. StreamOK(x.of[r], x.epoch[r], x.lastTs[r], x.held[r], v, c, Owed(x.prio, r))
      BY DEF Streams
    <3>2. x.of[r] \in SUBSET Entries /\ x.epoch[r] \in Nat /\ x.lastTs[r] \in Nat
          /\ x.held[r] \in Seq(HeldChunks) /\ Owed(x.prio, r) \in BOOLEAN
      BY QueueTypes
    <3>3. f.ts >= x.lastTs[r]
      BY <2>1, <2>5
    <3>4. v.started /\ f \in Entries /\ f.kind = "chunk" /\ f.n = v.n /\ f.epoch = x.epoch[r] /\ \A g \in x.of[r] : g.seq < f.seq
      BY <2>5
    <3> QED
      BY <3>1, <3>2, <3>3, <3>4, ChunkStreams
  <2>7. Streams(y, r, v, c)
    BY <2>4, <2>5, <2>6 DEF Streams
  <2>8. WillEmpty(x, r) => WillEmpty(y, r)
    BY <2>4, <2>5, EmptyJoined
  <2> QED
    BY <2>4, <2>7, <2>8
<1> QED
  BY <1>1, <1>2

\* A stream message has joined the queue, as the last.
Joined(x, r, k, n, y) ==
    /\ Apart(x, y, r) /\ y.prio = x.prio /\ y.epoch[r] = x.epoch[r] /\ y.held[r] = x.held[r]
    /\ \E f \in Entries :
          /\ f.kind = k /\ f.n = n /\ f.epoch = x.epoch[r]
          /\ k # "end" => f.ts >= x.lastTs[r]
          /\ \A g \in x.of[r] : g.seq < f.seq
          /\ y.of[r] = x.of[r] \cup {f} /\ y.lastTs[r] = f.ts

\* A stream message, in the queue or ahead of all.
QueueMessage(x, r, m) == EnqueueMessage(x, r, m, FALSE)
CallMessage(x, r, k, n) == SendRoleMessage(x, r, k, n, FALSE)

\* A role's view of its stream after a call.
StartedView(v) == [v EXCEPT !.started = TRUE, !.n = @ + 1, !.since = None]
ClearedView(v) == [v EXCEPT !.n = @ + 1, !.since = None]
EndedView(v) == [v EXCEPT !.started = FALSE, !.since = None]

LEMMA MessageDoes ==
  ASSUME NEW x, QOK(x), NEW r \in Roles, now \in Nat, NEW m \in Messages(r),
         NEW y, y = QueueMessage(x, r, m)
  PROVE  y.broken \/ Joined(x, r, m.kind, m.n, y)
<1>0. x.lastTs[r] \in Nat /\ x.epoch[r] \in Nat
  BY QueueTypes
<1>1. CASE IsFull(x, r)
  BY <1>1, OverflowBreaks DEF EnqueueMessage, QueueMessage
<1>2. CASE ~IsFull(x, r)
  <2> DEFINE ts == CASE m.kind = "end" -> now
                     [] m.kind = "start" -> Max({now, x.lastTs[r]})
                     [] OTHER -> x.lastTs[r]
             at == IF m.kind = "clear" THEN x.lastTs[r] ELSE ts
             e == [m EXCEPT !.ts = ts, !.epoch = x.epoch[r]]
  <2>1. ts \in Nat /\ at = ts /\ (m.kind # "end" => ts >= x.lastTs[r])
    BY <1>0, LaterOf
  <2>2. y = Place(x, r, at, e)
    BY <1>2 DEF EnqueueMessage, QueueMessage, Place
  <2> HIDE DEF ts, at
  <2>3. e \in Entries /\ e.role = r /\ e.kind = m.kind /\ e.n = m.n /\ e.epoch = x.epoch[r] /\ e.ts = ts
    BY <2>1, <1>0 DEF Messages, Entries
  <2> HIDE DEF e
  <2>4. /\ QOK(y) /\ Apart(x, y, r) /\ y.prio = x.prio /\ y.broken = x.broken
        /\ y.lastTs[r] = at /\ y.epoch[r] = x.epoch[r] /\ y.held[r] = x.held[r]
        /\ \E f \in Entries :
             /\ f.kind = e.kind /\ f.n = e.n /\ f.epoch = e.epoch /\ f.ts = e.ts
             /\ y.of[r] = x.of[r] \cup {f} /\ \A g \in x.of[r] : g.seq < f.seq
    <3>1. at \in Nat /\ e \in Entries /\ e.role = r
      BY <2>1, <2>3
    <3> HIDE DEF e
    <3> QED
      BY <1>2, <2>2, <3>1, EnqueueDoes
  <2> QED
    BY <2>1, <2>3, <2>4 DEF Joined
<1> QED
  BY <1>1, <1>2

\* on_stream_start
LEMMA StartDoes ==
  ASSUME NEW x, QOK(x), NEW r \in Roles, now \in Nat, NEW v \in Views, v.active, ~(v.hold /\ v.started),
         NEW c \in Listeners, Streams(x, r, v, c),
         NEW y, y = CallMessage(x, r, "start", v.n + 1)
  PROVE  y.broken \/ (Apart(x, y, r) /\ y.prio = x.prio /\ Streams(y, r, StartedView(v), c)
                      /\ (WillEmpty(x, r) => WillEmpty(y, r)))
<1> DEFINE w == StartedView(v)
           m == [NoEntry EXCEPT !.kind = "start", !.role = r, !.n = v.n + 1]
<1>1. y = QueueMessage(x, r, m)
  BY DEF SendRoleMessage, CallMessage, QueueMessage
<1>2. m \in Messages(r) /\ m.kind = "start" /\ m.n = v.n + 1
  <2>1. v.n + 1 \in Nat
    BY DEF Views
  <2> QED
    BY <2>1 DEF NoEntry, Messages, Kinds
<1> HIDE DEF w, m
<1> SUFFICES ASSUME ~y.broken PROVE Apart(x, y, r) /\ y.prio = x.prio /\ Streams(y, r, w, c)
             /\ (WillEmpty(x, r) => WillEmpty(y, r))
  BY DEF w
<1>3. PICK f \in Entries :
           /\ f.kind = "start" /\ f.n = v.n + 1 /\ f.epoch = x.epoch[r] /\ f.ts >= x.lastTs[r]
           /\ \A g \in x.of[r] : g.seq < f.seq
           /\ Apart(x, y, r) /\ y.prio = x.prio /\ y.of[r] = x.of[r] \cup {f} /\ y.lastTs[r] = f.ts
           /\ y.epoch[r] = x.epoch[r] /\ y.held[r] = x.held[r]
  <2>1. Joined(x, r, "start", v.n + 1, y)
    BY <1>1, <1>2, MessageDoes
  <2> QED
    BY <2>1 DEF Joined
<1>4. StreamOK(x.of[r], x.epoch[r], x.lastTs[r], x.held[r], v, c, Owed(x.prio, r))
  BY DEF Streams
<1>5. x.of[r] \in SUBSET Entries /\ x.epoch[r] \in Nat /\ x.lastTs[r] \in Nat /\ x.held[r] \in Seq(HeldChunks)
  BY QueueTypes
<1>6. StreamOK(x.of[r] \cup {f}, x.epoch[r], f.ts, x.held[r], w, c, Owed(x.prio, r))
  BY <1>3, <1>4, <1>5, StartStreams DEF w, StartedView
<1>7. Streams(y, r, w, c)
  BY <1>3, <1>6 DEF Streams
<1>8. WillEmpty(x, r) => WillEmpty(y, r)
  BY <1>3, EmptyJoined
<1> QED
  BY <1>3, <1>7, <1>8

\* on_stream_clear
LEMMA ClearDoes ==
  ASSUME NEW x, QOK(x), NEW r \in Roles, now \in Nat, NEW v \in Views, v.started,
         NEW c \in Listeners, Streams(x, r, v, c),
         NEW y, y = CallMessage(x, r, "clear", v.n + 1)
  PROVE  y.broken \/ (Apart(x, y, r) /\ y.prio = x.prio /\ Streams(y, r, ClearedView(v), c)
                      /\ WillEmpty(y, r))
<1> DEFINE w == ClearedView(v)
           m == [NoEntry EXCEPT !.kind = "clear", !.role = r, !.n = v.n + 1]
           u == DropPending(x, r)
<1>1. y = QueueMessage(u, r, m)
  BY DEF SendRoleMessage, CallMessage, QueueMessage
<1>2. m \in Messages(r) /\ m.kind = "clear" /\ m.n = v.n + 1
  <2>1. v.n + 1 \in Nat
    BY DEF Views
  <2> QED
    BY <2>1 DEF NoEntry, Messages, Kinds
<1>3. /\ QOK(u) /\ Apart(x, u, r) /\ u.prio = x.prio
      /\ u.of = x.of /\ u.lastTs = x.lastTs /\ u.held = x.held /\ u.epoch[r] = x.epoch[r] + 1
  BY DropPendingDoes
<1> HIDE DEF w, m, u
<1> SUFFICES ASSUME ~y.broken PROVE Apart(x, y, r) /\ y.prio = x.prio /\ Streams(y, r, w, c) /\ WillEmpty(y, r)
  BY DEF w
<1>4. PICK f \in Entries :
           /\ f.kind = "clear" /\ f.n = v.n + 1 /\ f.epoch = u.epoch[r] /\ f.ts >= u.lastTs[r]
           /\ \A g \in u.of[r] : g.seq < f.seq
           /\ Apart(u, y, r) /\ y.prio = u.prio /\ y.of[r] = u.of[r] \cup {f} /\ y.lastTs[r] = f.ts
           /\ y.epoch[r] = u.epoch[r] /\ y.held[r] = u.held[r]
  <2>1. Joined(u, r, "clear", v.n + 1, y)
    BY <1>1, <1>2, <1>3, MessageDoes
  <2> QED
    BY <2>1 DEF Joined
<1>5. StreamOK(x.of[r], x.epoch[r], x.lastTs[r], x.held[r], v, c, Owed(x.prio, r))
  BY DEF Streams
<1>6. x.of[r] \in SUBSET Entries /\ x.epoch[r] \in Nat /\ x.lastTs[r] \in Nat /\ x.held[r] \in Seq(HeldChunks)
  BY QueueTypes
<1>7. StreamOK(x.of[r] \cup {f}, x.epoch[r] + 1, f.ts, x.held[r], w, c, Owed(x.prio, r))
  BY <1>3, <1>4, <1>5, <1>6, ClearStreams DEF w, ClearedView
<1>8. WillEmpty(y, r)
  <2>1. \A e \in x.of[r] : ~Current(e, x.epoch[r] + 1)
    BY <1>5, <1>6, InOrderBumped DEF StreamOK
  <2>2. Emptying(f) /\ ~Current(f, x.epoch[r] + 1)
    BY <1>4 DEF Emptying, Current
  <2>3. y.of[r] = x.of[r] \cup {f} /\ y.epoch[r] = x.epoch[r] + 1
    BY <1>3, <1>4
  <2> QED
    BY <2>1, <2>2, <2>3 DEF WillEmpty
<1>9. Streams(y, r, w, c)
  BY <1>3, <1>4, <1>7 DEF Streams
<1> QED
  BY <1>3, <1>4, <1>8, <1>9 DEF Apart, SameQueue

\* on_stream_end
LEMMA EndDoes ==
  ASSUME NEW x, QOK(x), NEW r \in Roles, now \in Nat, NEW v \in Views, v.active,
         NEW c \in Listeners, Streams(x, r, v, c), c.open <=> r \in x.streaming,
         NEW y, y = CallMessage(x, r, "end", v.n)
  PROVE  y.broken \/ (Apart(x, y, r) /\ y.prio = x.prio /\ Streams(y, r, EndedView(v), c)
                      /\ (WillEmpty(y, r) \/ c.device = {}))
<1> DEFINE w == EndedView(v)
           m == [NoEntry EXCEPT !.kind = "end", !.role = r, !.n = v.n]
           u == DropPending(x, r)
           z == Supersede(u, r)
<1>1. y = IF ~EndOwed(z, r) THEN z ELSE QueueMessage(z, r, m)
  BY DEF SendRoleMessage, CallMessage, QueueMessage
<1>2. m \in Messages(r) /\ m.kind = "end"
  BY DEF NoEntry, Messages, Kinds, Views
<1>3. /\ QOK(u) /\ Apart(x, u, r) /\ u.prio = x.prio
      /\ u.of = x.of /\ u.lastTs = x.lastTs /\ u.held = x.held /\ u.epoch[r] = x.epoch[r] + 1
  BY DropPendingDoes
<1> HIDE DEF w, m, u
<1>4. /\ QOK(z) /\ Apart(u, z, r) /\ z.prio = u.prio
      /\ z.of[r] = Stays(u.of[r]) /\ z.lastTs = u.lastTs /\ z.held = u.held /\ z.epoch = u.epoch
  BY <1>3, SupersedeDoes
<1> HIDE DEF z
<1>5. Apart(x, z, r) /\ z.prio = x.prio /\ z.of[r] = Stays(x.of[r]) /\ z.epoch[r] = x.epoch[r] + 1
      /\ z.held[r] = x.held[r] /\ z.lastTs[r] = x.lastTs[r]
  BY <1>3, <1>4 DEF Apart, SameQueue
<1>6. EndOwed(z, r) <=> NoEnd(x.of[r]) /\ c.open
  BY <1>5 DEF EndOwed, NoEnd, Ending, Stays, Apart
<1>7. StreamOK(x.of[r], x.epoch[r], x.lastTs[r], x.held[r], v, c, Owed(x.prio, r))
  BY DEF Streams
<1>8. x.of[r] \in SUBSET Entries /\ x.epoch[r] \in Nat /\ x.lastTs[r] \in Nat /\ x.held[r] \in Seq(HeldChunks)
  BY QueueTypes
<1>9. /\ NoEnd(x.of[r]) => \A f \in Entries :
               f.kind = "end" /\ f.epoch = x.epoch[r] + 1 /\ (\A e \in Stays(x.of[r]) : e.seq < f.seq) =>
               StreamOK(Stays(x.of[r]) \cup {f}, x.epoch[r] + 1, f.ts, x.held[r], w, c, Owed(x.prio, r))
      /\ ~NoEnd(x.of[r]) \/ ~c.open =>
               StreamOK(Stays(x.of[r]), x.epoch[r] + 1, x.lastTs[r], x.held[r], w, c, Owed(x.prio, r))
  BY <1>7, <1>8, EndStreams DEF w, EndedView
<1> SUFFICES ASSUME ~y.broken PROVE Apart(x, y, r) /\ y.prio = x.prio /\ Streams(y, r, w, c) /\ (WillEmpty(y, r) \/ c.device = {})
  BY DEF w
<1>12. \A e \in x.of[r] : ~Current(e, x.epoch[r] + 1)
  BY <1>7, <1>8, InOrderBumped DEF StreamOK
<1>10. CASE ~EndOwed(z, r)
  <2>1. y = z /\ (~NoEnd(x.of[r]) \/ ~c.open)
    BY <1>1, <1>6, <1>10
  <2>2. Streams(y, r, w, c)
    BY <2>1, <1>5, <1>9 DEF Streams
  <2>3. ~NoEnd(x.of[r]) => WillEmpty(z, r)
    BY <1>5, <1>12 DEF NoEnd, Ending, Emptying, Stays, WillEmpty
  <2>4. ~c.open => c.device = {}
    BY <1>7 DEF StreamOK, Ended
  <2> QED
    BY <2>1, <2>2, <2>3, <2>4, <1>5
<1>11. CASE EndOwed(z, r)
  <2>1. PICK f \in Entries :
           /\ f.kind = "end" /\ f.epoch = z.epoch[r]
           /\ \A g \in z.of[r] : g.seq < f.seq
           /\ Apart(z, y, r) /\ y.prio = z.prio /\ y.of[r] = z.of[r] \cup {f} /\ y.lastTs[r] = f.ts
           /\ y.epoch[r] = z.epoch[r] /\ y.held[r] = z.held[r]
    <3>1. Joined(z, r, "end", m.n, y)
      BY <1>1, <1>2, <1>4, <1>11, MessageDoes
    <3> QED
      BY <3>1 DEF Joined
  <2>2. NoEnd(x.of[r])
    BY <1>6, <1>11
  <2>3. Apart(x, y, r) /\ y.prio = x.prio
    BY <2>1, <1>5 DEF Apart, SameQueue
  <2>5. StreamOK(Stays(x.of[r]) \cup {f}, x.epoch[r] + 1, f.ts, x.held[r], w, c, Owed(x.prio, r))
    BY <2>1, <2>2, <1>5, <1>9
  <2>6. Streams(y, r, w, c)
    BY <2>1, <2>3, <2>5, <1>5 DEF Streams
  <2>7. WillEmpty(y, r)
    <3>1. Emptying(f) /\ ~Current(f, x.epoch[r] + 1)
      BY <2>1 DEF Emptying, Current
    <3>2. y.of[r] = Stays(x.of[r]) \cup {f} /\ y.epoch[r] = x.epoch[r] + 1
      BY <1>5, <2>1
    <3> QED
      BY <1>12, <3>1, <3>2 DEF Stays, WillEmpty
  <2> QED
    BY <2>3, <2>6, <2>7
<1> QED
  BY <1>10, <1>11

\* What the released role had held is queued, as far as it is of its stream.
LEMMA FlushedDoes ==
  ASSUME NEW x, QOK(x), NEW r \in Roles, NEW v \in Views, v.active, NEW c \in Listeners, Streams(x, r, v, c),
         NEW y, y = Flushed(x, r)
  PROVE  y.broken \/ (Apart(x, y, r) /\ y.prio = x.prio /\ Streams(y, r, [v EXCEPT !.hold = FALSE], c)
                      /\ (WillEmpty(x, r) => WillEmpty(y, r)))
<1> DEFINE w == [v EXCEPT !.hold = FALSE]
           n == Len(x.held[r])
           Good(z) == /\ Apart(x, z, r) /\ z.prio = x.prio /\ z.epoch[r] = x.epoch[r]
                      /\ Streams(z, r, w, c) /\ (WillEmpty(x, r) => WillEmpty(z, r))
           Fine(z) == QOK(z) /\ (z.broken \/ Good(z))
<1>1. PICK g : /\ g = [i \in 0..n |-> HeldStep(x, r, g, i)]
               /\ Flushed(x, r) = g[n]
  BY HeldPath
<1>2. n \in Nat /\ \A i \in 1..n : x.held[r][i] \in HeldChunks
  BY QueueTypes
<1>3. w \in Views /\ w.started = v.started /\ w.active = v.active /\ w.n = v.n
  BY DEF Views
<1>4. HeldFit(x.held[r], x.epoch[r], v)
  BY DEF Streams, StreamOK
<1> HIDE DEF w
<1> DEFINE bad == {m \in Nat : m <= n /\ ~Fine(g[m])}
<1>5. bad = {}
  <2> SUFFICES ASSUME bad # {} PROVE FALSE
    OBVIOUS
  <2>1. PICK m \in bad : \A k \in bad : m <= k
    <3>1. bad \in SUBSET Nat
      OBVIOUS
    <3> HIDE DEF bad
    <3> QED
      BY <3>1, LeastOf
  <2>2. m \in Nat /\ m <= n /\ ~Fine(g[m]) /\ g[m] = HeldStep(x, r, g, m)
    BY <1>1, <1>2, <2>1
  <2>3. CASE m = 0
    <3> DEFINE helds == [x.held EXCEPT ![r] = <<>>]
               z == [x EXCEPT !.held[r] = <<>>]
    <3>1. helds \in [Roles -> Seq(HeldChunks)] /\ z = [x EXCEPT !.held = helds] /\ x \in Queues
          /\ helds[r] = <<>> /\ \A s \in Roles \ {r} : helds[s] = x.held[s]
      BY QueueTypes
    <3>2. g[m] = z
      BY <2>2, <2>3 DEF HeldStep
    <3> HIDE DEF helds, z
    <3>3. z \in Queues /\ z.held = helds /\ z.of = x.of /\ z.epoch = x.epoch /\ z.lastTs = x.lastTs
          /\ z.prio = x.prio /\ z.streaming = x.streaming /\ z.seq = x.seq /\ z.gen = x.gen
          /\ z.blocked = x.blocked /\ z.delayed = x.delayed
      BY <3>1 DEF Queues
    <3>4. QOK(z)
      BY <3>3 DEF QOK, Numbered, Bounded, Waits
    <3>5. Apart(x, z, r)
      BY <3>1, <3>3 DEF Apart, SameQueue
    <3>6. HeldFit(<<>>, x.epoch[r], w)
      BY DEF HeldFit
    <3>7. Follows(x.of[r], x.epoch[r], w, c) /\ Ended(x.of[r], w, c, Owed(x.prio, r)) /\ InOrder(x.of[r], x.epoch[r], x.lastTs[r])
      BY <1>3 DEF Streams, StreamOK, Follows, Ended
    <3>8. Streams(z, r, w, c)
      BY <3>1, <3>3, <3>6, <3>7 DEF Streams, StreamOK
    <3>9. WillEmpty(x, r) => WillEmpty(z, r)
      BY <3>3 DEF WillEmpty
    <3> QED
      BY <2>2, <3>2, <3>3, <3>4, <3>5, <3>8, <3>9
  <2>4. CASE m # 0
    <3>1. m - 1 \in Nat /\ m - 1 <= n /\ m - 1 \notin bad /\ m \in 1..n
      BY <2>1, <2>2, <2>4, <1>2
    <3>2. Fine(g[m - 1])
      BY <3>1
    <3> DEFINE z == g[m - 1]
               h == x.held[r][m]
    <3>3. g[m] = SendHeld(z, r, h) /\ h \in HeldChunks
      BY <1>2, <2>2, <2>4, <3>1 DEF HeldStep
    <3>4. h.epoch = x.epoch[r] => v.started /\ h.n = v.n
      BY <1>4, <3>1 DEF HeldFit
    <3> HIDE DEF z, h
    <3>5. QOK(z) /\ (z.broken \/ Good(z))
      BY <3>2 DEF z
    <3>6. QOK(g[m]) /\ (z.broken => g[m].broken)
      BY <3>3, <3>5, SendHeldKeeps DEF Keeps
    <3>7. ~Good(g[m]) /\ ~g[m].broken
      BY <2>2, <3>6
    <3>8. Good(z) /\ g[m] # z
      BY <3>5, <3>6, <3>7
    <3>9. g[m] = SendBinary(z, r, h.ts, w.n) /\ w.started /\ h.ts \in Nat
      BY <1>3, <3>3, <3>4, <3>8 DEF SendHeld, HeldChunks
    <3>10. Apart(z, g[m], r) /\ g[m].prio = z.prio /\ g[m].epoch[r] = z.epoch[r] /\ Streams(g[m], r, w, c)
           /\ (WillEmpty(z, r) => WillEmpty(g[m], r))
      BY <1>3, <3>5, <3>7, <3>8, <3>9, SendBinaryDoes
    <3> QED
      BY <3>7, <3>8, <3>10 DEF Apart, SameQueue
  <2> QED
    BY <2>3, <2>4
<1>6. Fine(g[n])
  BY <1>2, <1>5
<1> QED
  BY <1>1, <1>6 DEF w

-----------------------------------------------------------------------------
(* Roles that retire.                                                        *)

\* p is followed by ends of the roles of rs.
Longer(p, u, rs) ==
    /\ Len(p) <= Len(u)
    /\ \A i \in 1..Len(p) : u[i] = p[i]
    /\ \A i \in 1..Len(u) : i > Len(p) => u[i].kind = "end" /\ u[i].role \in rs

LEMMA LongerRefl ==
  ASSUME NEW p \in Seq(Urgent), NEW rs
  PROVE  Longer(p, p, rs)
<1>1. Len(p) \in Nat
  OBVIOUS
<1> QED
  BY <1>1 DEF Longer

LEMMA LongerTrans ==
  ASSUME NEW p \in Seq(Urgent), NEW u \in Seq(Urgent), NEW w \in Seq(Urgent), NEW rs, NEW ss, NEW ts,
         Longer(p, u, rs), Longer(u, w, ss), rs \subseteq ts, ss \subseteq ts
  PROVE  Longer(p, w, ts)
<1>1. PICK k \in Nat, m \in Nat, n \in Nat : k = Len(p) /\ m = Len(u) /\ n = Len(w)
  OBVIOUS
<1>2. k <= m /\ m <= n
  BY <1>1 DEF Longer
<1>3. \A i \in 1..k : w[i] = p[i]
  BY <1>1, <1>2 DEF Longer
<1>4. ASSUME NEW i \in 1..n, i > k PROVE w[i].kind = "end" /\ w[i].role \in ts
  <2>1. CASE i <= m
    <3>1. i \in 1..m /\ w[i] = u[i]
      BY <1>1, <2>1 DEF Longer
    <3> QED
      BY <1>1, <1>4, <3>1 DEF Longer
  <2>2. CASE ~(i <= m)
    <3>1. i > m
      BY <2>2
    <3> QED
      BY <1>1, <3>1 DEF Longer
  <2> QED
    BY <2>1, <2>2
<1> QED
  BY <1>1, <1>2, <1>3, <1>4 DEF Longer

LEMMA LongerOwes ==
  ASSUME NEW p \in Seq(Urgent), NEW u \in Seq(Urgent), NEW rs, Longer(p, u, rs), NEW r, Owed(p, r)
  PROVE  Owed(u, r)
<1>1. PICK i \in 1..Len(p) : p[i].kind = "end" /\ p[i].role = r
  BY DEF Owed
<1>2. Len(p) \in Nat /\ Len(u) \in Nat /\ Len(p) <= Len(u)
  BY DEF Longer
<1>3. i \in 1..Len(u) /\ u[i] = p[i]
  BY <1>2 DEF Longer
<1> QED
  BY <1>1, <1>3 DEF Owed

LEMMA SendPriorityDoes ==
  ASSUME NEW x, QOK(x), NEW e \in Urgent, NEW y, y = SendPriority(x, e)
  PROVE  QOK(y) /\ (y.broken \/ (/\ y.streaming = x.streaming /\ y.prio = Append(x.prio, e)
                                 /\ \A s \in Roles : SameQueue(x, y, s)))
<1>0. QOK(y)
  BY SendPriorityKeeps DEF Keeps
<1>1. CASE Len(x.prio) >= MaxPending
  BY <1>0, <1>1, OverflowBreaks DEF SendPriority
<1>2. CASE ~(Len(x.prio) >= MaxPending)
  <2> DEFINE p == Append(x.prio, e)
  <2>1. x \in Queues
    BY QueueTypes DEF QOK
  <2>2. y = [x EXCEPT !.prio = p, !.seq = x.seq + 1, !.wake = TRUE]
    BY <1>2, <2>1 DEF SendPriority, Wake, Queues
  <2> HIDE DEF p
  <2>3. y.streaming = x.streaming /\ y.prio = p /\ y.of = x.of /\ y.epoch = x.epoch /\ y.lastTs = x.lastTs
        /\ y.held = x.held
    BY <2>1, <2>2 DEF Queues
  <2> QED
    BY <1>0, <2>3 DEF SameQueue, p
<1> QED
  BY <1>1, <1>2

\* An end of the role goes ahead.
LEMMA EndAhead ==
  ASSUME NEW x, QOK(x), NEW r \in Roles, NEW e \in Entries, e.kind = "end", e.role = r,
         NEW y, y = SendPriority(x, e)
  PROVE  QOK(y) /\ (y.broken \/ (/\ y.streaming = x.streaming /\ Longer(x.prio, y.prio, {r}) /\ Owed(y.prio, r)
                                 /\ \A s \in Roles : SameQueue(x, y, s)))
<1>1. e \in Urgent
  BY DEF Urgent
<1>2. QOK(y) /\ (y.broken \/ (/\ y.streaming = x.streaming /\ y.prio = Append(x.prio, e)
                              /\ \A s \in Roles : SameQueue(x, y, s)))
  BY <1>1, SendPriorityDoes
<1>3. PICK p \in Seq(Urgent) : p = x.prio
  BY DEF QOK, Queues
<1> SUFFICES ASSUME y.prio = Append(p, e) PROVE Longer(p, y.prio, {r}) /\ Owed(y.prio, r)
  BY <1>2, <1>3
<1>4. PICK n \in Nat : n = Len(p)
  OBVIOUS
<1>5. Len(y.prio) = n + 1 /\ y.prio[n + 1] = e /\ \A i \in 1..n : y.prio[i] = p[i]
  <2> HIDE DEF Urgent
  <2> QED
    BY <1>1, <1>4
<1>6. \A i \in 1..(n + 1) : i > n => i = n + 1
  OBVIOUS
<1> QED
  BY <1>4, <1>5, <1>6 DEF Longer, Owed

\* The role has left: nothing is queued, its chunks do not count, an end is owed if its stream is open.
Left(x, y, r) ==
    /\ Apart(x, y, r) /\ Longer(x.prio, y.prio, {r})
    /\ y.of[r] = {} /\ y.held[r] = x.held[r] /\ y.epoch[r] > x.epoch[r]

LEMMA DiscardDoes ==
  ASSUME NEW x, QOK(x), NEW r \in Roles, NEW v \in Views, NEW c \in Listeners, Streams(x, r, v, c),
         NEW y, y = DiscardRoleQueue(x, r)
  PROVE  QOK(y) /\ (y.broken \/ (Left(x, y, r) /\ (~v.started /\ c.open => Owed(y.prio, r))))
<1> DEFINE life == {e \in x.of[r] : e.kind \in {"start", "end"}}
           newest == CHOOSE e \in life : \A f \in life \ {e} : Before(f, e)
           u == [x EXCEPT !.of[r] = {}, !.lastTs[r] = 0]
           z == IF life # {} /\ newest.kind = "end" THEN SendPriority(u, newest) ELSE u
<1>1. y = DropPending(z, r)
  BY DEF DiscardRoleQueue
<1>2. QOK(u) /\ Apart(x, u, r) /\ u.prio = x.prio /\ u.of[r] = {} /\ u.held[r] = x.held[r] /\ u.epoch[r] = x.epoch[r]
  <2> DEFINE w == [x EXCEPT !.of[r] = {}]
             ofs == [x.of EXCEPT ![r] = {}]
  <2>1. QOK(w) /\ w = [x EXCEPT !.of = ofs]
    BY FewerKeeps
  <2>2. PICK zero \in Nat : zero = 0
    OBVIOUS
  <2>3. u = [w EXCEPT !.lastTs[r] = zero] /\ x \in Queues /\ ofs[r] = {} /\ \A s \in Roles \ {r} : ofs[s] = x.of[s]
    BY <2>2, QueueTypes DEF Queues
  <2> HIDE DEF u, w, ofs
  <2>4. w.prio = x.prio /\ w.of = ofs /\ w.held = x.held /\ w.epoch = x.epoch /\ w.lastTs = x.lastTs
        /\ w.streaming = x.streaming
    BY <2>1, <2>3 DEF Queues
  <2> DEFINE last == [w.lastTs EXCEPT ![r] = zero]
  <2>5. QOK(u) /\ u = [w EXCEPT !.lastTs = last]
    BY <2>1, <2>3, LastTsKeeps
  <2>6. w \in Queues /\ \A s \in Roles \ {r} : last[s] = w.lastTs[s]
    BY <2>1, QueueTypes
  <2> HIDE DEF last
  <2>7. u.prio = x.prio /\ u.of = ofs /\ u.held = x.held /\ u.epoch = x.epoch /\ u.lastTs = last
        /\ u.streaming = x.streaming
    BY <2>4, <2>5, <2>6 DEF Queues
  <2> QED
    BY <2>3, <2>4, <2>5, <2>6, <2>7 DEF Apart, SameQueue
<1>3. life # {} => newest \in life
  <2> SUFFICES ASSUME life # {} PROVE newest \in life
    OBVIOUS
  <2>1. \A e \in life : e \in Entries
    BY QueueTypes
  <2>2. \A e, f \in life : e.seq = f.seq => e = f
    BY DEF QOK, Numbered
  <2>3. IsFiniteSet(life)
    <3>1. IsFiniteSet(x.of[r])
      BY DEF QOK, Bounded
    <3> QED
      BY <3>1, FS_Subset
  <2>4. \E e \in life : \A f \in life \ {e} : Before(f, e)
    <3> HIDE DEF life
    <3> QED
      BY <2>1, <2>2, <2>3, LastExists DEF Entries
  <2> HIDE DEF life
  <2> QED
    BY <2>4
<1>4. \A e \in life : e \in Entries /\ e.role = r
  BY QueueTypes DEF QOK, Numbered
<1>5. ~v.started /\ c.open => (life # {} /\ newest.kind = "end") \/ Owed(x.prio, r)
  <2> SUFFICES ASSUME ~v.started, c.open, ~Owed(x.prio, r) PROVE life # {} /\ newest.kind = "end"
    OBVIOUS
  <2>1. ~NoEnd(x.of[r]) /\ \A f \in x.of[r] : ~Moving(f)
    BY DEF Streams, StreamOK, Ended, Follows
  <2>2. life # {} /\ \A f \in life : f.kind = "end"
    BY <2>1 DEF NoEnd, Ending, Moving
  <2> HIDE DEF life, newest
  <2> QED
    BY <1>3, <2>2
<1>6. x.prio \in Seq(Urgent) /\ u.prio \in Seq(Urgent)
  BY <1>2 DEF QOK, Queues
<1> HIDE DEF life, newest, u
<1>7. QOK(z) /\ (z.broken \/ (/\ Apart(x, z, r) /\ Longer(x.prio, z.prio, {r}) /\ z.of[r] = {}
                              /\ z.held[r] = x.held[r] /\ z.epoch[r] = x.epoch[r]
                              /\ (~v.started /\ c.open => Owed(z.prio, r))))
  <2>1. CASE life # {} /\ newest.kind = "end"
    <3>1. z = SendPriority(u, newest) /\ newest \in Entries /\ newest.role = r
      BY <1>3, <1>4, <2>1
    <3> HIDE DEF z
    <3>2. QOK(z) /\ (z.broken \/ (/\ z.streaming = u.streaming /\ Longer(u.prio, z.prio, {r}) /\ Owed(z.prio, r)
                                  /\ \A s \in Roles : SameQueue(u, z, s)))
      BY <1>2, <2>1, <3>1, EndAhead
    <3> QED
      BY <1>2, <3>2 DEF Apart, SameQueue
  <2>2. CASE ~(life # {} /\ newest.kind = "end")
    <3>1. z = u
      BY <2>2
    <3> HIDE DEF z
    <3> QED
      BY <1>2, <1>5, <1>6, <2>2, <3>1, LongerRefl
  <2> QED
    BY <2>1, <2>2
<1> HIDE DEF z
<1>8. /\ QOK(y) /\ Apart(z, y, r) /\ y.prio = z.prio /\ y.broken = z.broken
      /\ y.of = z.of /\ y.held = z.held /\ y.epoch[r] = z.epoch[r] + 1
  BY <1>1, <1>7, DropPendingDoes
<1>9. x.epoch[r] \in Nat
  BY QueueTypes
<1> QED
  BY <1>7, <1>8, <1>9 DEF Left, Apart, SameQueue

LEMMA RetireDoes ==
  ASSUME NEW x, QOK(x), NEW r \in Roles, role[r] \in Views, NEW c \in Listeners,
         Streams(x, r, role[r], c), c.open <=> r \in x.streaming, NEW y, y = Retire(x, r)
  PROVE  y.broken \/ (QOK(y) /\ Left(x, y, r) /\ (c.open => Owed(y.prio, r)))
<1> DEFINE u == DiscardRoleQueue(x, r)
           v == role[r]
           w == DropPending(u, r)
           z == Supersede(w, r)
           e == [NoEntry EXCEPT !.kind = "end", !.role = r, !.n = v.n]
<1>1. QOK(u) /\ (u.broken \/ (Left(x, u, r) /\ (~v.started /\ c.open => Owed(u.prio, r))))
  BY DiscardDoes
<1>2. CASE ~v.started
  <2>1. y = u
    BY <1>2 DEF Retire
  <2> HIDE DEF u
  <2> QED
    BY <1>1, <1>2, <2>1
<1>3. CASE v.started
  <2>1. y = IF ~EndOwed(z, r) THEN z ELSE SendPriority(z, e)
    BY <1>3 DEF Retire, SendRoleMessage, EnqueueMessage
  <2>2. e \in Entries /\ e.kind = "end" /\ e.role = r
    <3>1. v.n \in Nat
      BY DEF Views
    <3> QED
      BY <3>1 DEF NoEntry, Entries, Kinds
  <2> HIDE DEF u, e
  <2>3. /\ QOK(w) /\ Apart(u, w, r) /\ w.prio = u.prio /\ w.broken = u.broken
        /\ w.of = u.of /\ w.held = u.held /\ w.epoch[r] = u.epoch[r] + 1
    BY <1>1, DropPendingDoes
  <2> HIDE DEF w
  <2>4. /\ QOK(z) /\ Apart(w, z, r) /\ z.prio = w.prio /\ z.broken = w.broken
        /\ z.of[r] = Stays(w.of[r]) /\ z.held = w.held /\ z.epoch = w.epoch
    BY <2>3, SupersedeDoes
  <2> HIDE DEF z
  <2>5. CASE u.broken
    <3>1. z.broken
      BY <2>3, <2>4, <2>5
    <3>2. e \in Urgent
      BY <2>2 DEF Urgent
    <3>3. Keeps(z, SendPriority(z, e))
      BY <2>4, <3>2, SendPriorityKeeps
    <3> QED
      BY <2>1, <3>1, <3>3 DEF Keeps
  <2>6. CASE ~u.broken
    <3>1. Left(x, u, r)
      BY <1>1, <2>6
    <3>2. x.epoch[r] \in Nat /\ u.epoch[r] \in Nat /\ x.prio \in Seq(Urgent) /\ z.prio \in Seq(Urgent)
      BY <1>1, <2>4, QueueTypes DEF QOK, Queues
    <3>3. z.of[r] = {}
      BY <2>3, <2>4, <3>1 DEF Left, Stays
    <3>4. Apart(x, z, r) /\ z.held[r] = x.held[r]
      BY <2>3, <2>4, <3>1 DEF Left, Apart, SameQueue
    <3>5. z.epoch[r] > x.epoch[r]
      BY <2>3, <2>4, <3>1, <3>2 DEF Left
    <3>6. Longer(x.prio, z.prio, {r})
      BY <2>3, <2>4, <3>1 DEF Left
    <3>7. EndOwed(z, r) <=> c.open
      BY <3>3, <3>4 DEF EndOwed, Apart
    <3>8. CASE ~EndOwed(z, r)
      BY <2>1, <2>4, <3>3, <3>4, <3>5, <3>6, <3>7, <3>8 DEF Left
    <3>9. CASE EndOwed(z, r)
      <4>1. y = SendPriority(z, e)
        BY <2>1, <3>9
      <4>2. QOK(y) /\ (y.broken \/ (/\ y.streaming = z.streaming /\ Longer(z.prio, y.prio, {r}) /\ Owed(y.prio, r)
                                    /\ \A s \in Roles : SameQueue(z, y, s)))
        BY <2>2, <2>4, <4>1, EndAhead
      <4>3. y.prio \in Seq(Urgent)
        BY <4>2 DEF QOK, Queues
      <4>4. ~y.broken => Longer(x.prio, y.prio, {r})
        BY <3>2, <3>6, <4>2, <4>3, LongerTrans
      <4> QED
        BY <3>3, <3>4, <3>5, <4>2, <4>4 DEF Left, Apart, SameQueue
    <3> QED
      BY <3>8, <3>9
  <2> QED
    BY <2>5, <2>6
<1> QED
  BY <1>2, <1>3

\* SetToSeq lists every member.
LEMMA OrderIsAll ==
  ASSUME NEW rs, IsFiniteSet(rs)
  PROVE  \A s \in rs : \E i \in 1..Cardinality(rs) : SetToSeq(rs)[i] = s
<1> DEFINE f == SetToSeq(rs)
           n == Cardinality(rs)
<1>1. f \in [1..n -> rs] /\ n \in Nat /\ \A i, j \in 1..n : f[i] = f[j] => i = j
  BY OrderIsThere
<1> HIDE DEF f
<1>2. f \in Injection(1..n, rs)
  BY <1>1 DEF Injection, IsInjective
<1>3. IsFiniteSet(1..n) /\ Cardinality(1..n) = n
  BY <1>1, FS_Interval
<1>4. f \in Surjection(1..n, rs)
  BY <1>2, <1>3, FS_Injection
<1> QED
  BY <1>4 DEF Surjection, f

LEMMA OwedMore ==
  ASSUME NEW es, NEW ep, NEW last, NEW hs, NEW v, NEW c, NEW owed, StreamOK(es, ep, last, hs, v, c, owed),
         NEW more, owed => more
  PROVE  StreamOK(es, ep, last, hs, v, c, more)
  BY DEF StreamOK, Ended

\* Every role of rs has left.
AllLeft(x, y, rs) ==
    /\ y.streaming = x.streaming /\ Longer(x.prio, y.prio, rs)
    /\ \A s \in Roles \ rs : SameQueue(x, y, s)
    /\ \A s \in rs : /\ y.of[s] = {} /\ y.held[s] = x.held[s] /\ y.epoch[s] > x.epoch[s]
                     /\ client[s].open => Owed(y.prio, s)

LEMMA OneMoreLeft ==
  ASSUME NEW x, QOK(x), NEW z, QOK(z), NEW y, QOK(y), NEW rs \in SUBSET Roles, AllLeft(x, z, rs),
         NEW r \in Roles \ rs, Left(z, y, r), client[r].open => Owed(y.prio, r)
  PROVE  AllLeft(x, y, rs \cup {r})
<1>1. x.prio \in Seq(Urgent) /\ y.prio \in Seq(Urgent) /\ z.prio \in Seq(Urgent)
  BY DEF QOK, Queues
<1>2. Longer(x.prio, z.prio, rs) /\ Longer(z.prio, y.prio, {r})
  BY DEF AllLeft, Left
<1>3. Longer(x.prio, y.prio, rs \cup {r})
  BY <1>1, <1>2, LongerTrans
<1>4. \A s \in Roles : Owed(z.prio, s) => Owed(y.prio, s)
  BY <1>1, <1>2, LongerOwes
<1> QED
  BY <1>3, <1>4 DEF AllLeft, Left, Apart, SameQueue

LEMMA RetireAllDoes ==
  ASSUME NEW x, QOK(x), NEW rs \in SUBSET Roles, now \in Nat, role \in [Roles -> Views],
         client \in [Roles -> Listeners], \A r \in Roles : Streams(x, r, role[r], client[r]),
         \A r \in Roles : client[r].open <=> r \in x.streaming, NEW y, y = RetireAll(x, rs)
  PROVE  y.broken \/ AllLeft(x, y, rs)
<1>0. IsFiniteSet(rs)
  BY WriterAssumption, FS_Subset
<1>1. PICK g : /\ g = [i \in 0..Cardinality(rs) |-> RetireStep(x, SetToSeq(rs), g, i)]
               /\ RetireAll(x, rs) = g[Cardinality(rs)]
  BY <1>0, RetirePath
<1> DEFINE n == Cardinality(rs)
           order == SetToSeq(rs)
           Done(m) == {order[i] : i \in 1..m}
           Fine(m) == QOK(g[m]) /\ (g[m].broken \/ AllLeft(x, g[m], Done(m)))
           bad == {m \in Nat : m <= n /\ ~Fine(m)}
<1>2. n \in Nat /\ \A i \in 1..n : order[i] \in rs /\ \A j \in 1..n : order[i] = order[j] => i = j
  BY <1>0, OrderIsThere
<1>3. x.prio \in Seq(Urgent)
  BY DEF QOK, Queues
<1>4. bad = {}
  <2> SUFFICES ASSUME bad # {} PROVE FALSE
    OBVIOUS
  <2>1. PICK m \in bad : \A k \in bad : m <= k
    <3>1. bad \in SUBSET Nat
      OBVIOUS
    <3> HIDE DEF bad
    <3> QED
      BY <3>1, LeastOf
  <2>2. m \in Nat /\ m <= n /\ ~Fine(m) /\ g[m] = RetireStep(x, order, g, m)
    BY <1>1, <1>2, <2>1
  <2>3. CASE m = 0
    <3>1. g[m] = x /\ Done(m) = {}
      BY <2>2, <2>3 DEF RetireStep
    <3>2. Longer(x.prio, x.prio, {})
      BY <1>3, LongerRefl
    <3>3. AllLeft(x, x, {})
      BY <3>2 DEF AllLeft, SameQueue
    <3> HIDE DEF order
    <3> QED
      BY <2>2, <3>1, <3>3
  <2>4. CASE m # 0
    <3> DEFINE r == order[m]
               z == g[m - 1]
               w == g[m]
               old == Done(m - 1)
    <3>1. m - 1 \in Nat /\ m - 1 <= n /\ m - 1 \notin bad /\ m \in 1..n
      <4> HIDE DEF bad, n
      <4>1. m - 1 \in Nat /\ m - 1 <= n /\ m - 1 < m /\ m \in 1..n
        BY <2>2, <2>4, <1>2
      <4> QED
        BY <2>1, <2>2, <4>1
    <3>2. Fine(m - 1)
      BY <3>1
    <3>3. w = Retire(z, r)
      BY <2>2, <2>4 DEF RetireStep
    <3>4. r \in Roles /\ r \notin old /\ Done(m) = old \cup {r} /\ old \in SUBSET Roles
      <4>1. \A i \in 1..(m - 1) : i \in 1..n /\ i # m
        BY <1>2, <3>1
      <4>2. \A i \in 1..m : i \in 1..(m - 1) \/ i = m
        BY <3>1
      <4> HIDE DEF order
      <4> QED
        BY <1>2, <3>1, <4>1, <4>2
    <3>5. QOK(z) /\ (z.broken \/ AllLeft(x, z, old))
      BY <3>2
    <3>6. ~(QOK(w) /\ (w.broken \/ AllLeft(x, w, old \cup {r})))
      BY <2>2, <3>4
    <3> HIDE DEF order, r, z, w, old
    <3>7. role[r].n \in Nat /\ role[r] \in Views /\ client[r] \in Listeners
      BY <3>4 DEF Views
    <3>8. Keeps(z, w)
      <4>1. \A s \in Roles : role[s].n \in Nat
        BY DEF Views
      <4> QED
        BY <3>3, <3>4, <3>5, <4>1, RetireKeeps
    <3>9. QOK(w) /\ ~w.broken /\ ~z.broken /\ AllLeft(x, z, old)
      BY <3>5, <3>6, <3>8 DEF Keeps
    <3>10. SameQueue(x, z, r) /\ z.streaming = x.streaming
      BY <3>4, <3>9 DEF AllLeft
    <3>11. Owed(x.prio, r) => Owed(z.prio, r)
      <4>1. z.prio \in Seq(Urgent) /\ Longer(x.prio, z.prio, old)
        BY <3>5, <3>9 DEF QOK, Queues, AllLeft
      <4> QED
        BY <1>3, <4>1, LongerOwes
    <3>12. StreamOK(z.of[r], z.epoch[r], z.lastTs[r], z.held[r], role[r], client[r], Owed(x.prio, r))
      BY <3>4, <3>10 DEF SameQueue, Streams
    <3>13. Streams(z, r, role[r], client[r])
      BY <3>11, <3>12, OwedMore DEF Streams
    <3>14. client[r].open <=> r \in z.streaming
      BY <3>4, <3>10
    <3>15. Left(z, w, r) /\ (client[r].open => Owed(w.prio, r))
      BY <3>3, <3>4, <3>5, <3>7, <3>9, <3>13, <3>14, RetireDoes
    <3>16. AllLeft(x, w, old \cup {r})
      BY <3>4, <3>5, <3>9, <3>15, OneMoreLeft
    <3> QED
      BY <3>6, <3>9, <3>16
  <2> QED
    BY <2>3, <2>4
<1>5. Fine(n)
  <2>1. n \notin bad /\ n <= n
    <3> HIDE DEF bad, n
    <3> QED
      BY <1>2, <1>4
  <2> HIDE DEF Fine
  <2> QED
    BY <1>2, <2>1
<1>6. Done(n) = rs
  <2>1. \A s \in rs : \E i \in 1..n : order[i] = s
    BY <1>0, OrderIsAll
  <2> HIDE DEF order
  <2> QED
    BY <1>2, <2>1
<1> HIDE DEF order
<1> QED
  BY <1>1, <1>5, <1>6

-----------------------------------------------------------------------------
(* The invariant of the streams.                                             *)

\* After the first k messages that go ahead, none is of a role or of an activation.
OnlyOthers(p, k) == \A i \in 1..Len(p) : i > k => p[i].kind = "other"

SentActive == \A r \in Roles : client[r].active <=> role[r].active

\* The activation, and before it the ends of the roles that it retires.
Announced(p, j) ==
    /\ p[j].kind = "activate" /\ p[j].n = act.roles
    /\ OnlyOthers(p, j)
    /\ \A i \in 1..Len(p) : i < j =>
          /\ p[i].kind = "end" /\ p[i].role \in Roles
          /\ client[p[i].role].active /\ ~role[p[i].role].active

\* The client takes a role for active as the server does, but for an activation under way.
PrioOK ==
    \/ OnlyOthers(q.prio, 0) /\ SentActive
    \/ act.pc = "announce" /\ \E j \in 1..Len(q.prio) : Announced(q.prio, j)

StreamingOK == \A r \in Roles : client[r].open <=> r \in q.streaming

AllStreams == \A r \in Roles : Streams(q, r, role[r], client[r])

StreamInv ==
    /\ client \in [Roles -> Listeners]
    /\ ~q.broken =>
          /\ StreamingOK
          /\ PrioOK
          /\ act.pc = "announce" => \A r \in Roles : role[r].active <=> r \in act.roles
          /\ AllStreams

LEMMA StreamsPrimed ==
  ASSUME \A r \in Roles : Streams(q', r, role'[r], client'[r])
  PROVE  AllStreams'
  BY DEF AllStreams, Streams, StreamOK, InOrder, Sorted, Counts, Moving, Ending, Current, Follows, Opens, NoEnd,
         HeldFit, Ended, Owed

\* What a stream depends on.
LEMMA StreamsAlike ==
  ASSUME NEW x, NEW y, NEW r, SameQueue(x, y, r), Owed(x.prio, r) => Owed(y.prio, r),
         NEW v, NEW w, w.active = v.active, w.started = v.started, w.hold = v.hold, w.n = v.n,
         NEW c, NEW d, d.open = c.open, d.n = c.n, c.device = {} => d.device = {},
         Streams(x, r, v, c)
  PROVE  Streams(y, r, w, d)
<1>1. Follows(x.of[r], x.epoch[r], w, d) /\ HeldFit(x.held[r], x.epoch[r], w)
      /\ InOrder(x.of[r], x.epoch[r], x.lastTs[r]) /\ Ended(x.of[r], w, d, Owed(y.prio, r))
  BY DEF Streams, StreamOK, Follows, HeldFit, Ended, Opens
<1> QED
  BY <1>1 DEF Streams, StreamOK, SameQueue

\* One role's stream changes and nothing else.
LEMMA RoleStreams ==
  ASSUME WriterTypes, StreamInv, ~q.broken, NEW r \in Roles, act' = act, q'.prio = q.prio,
         NEW w, role' = [role EXCEPT ![r] = w], w.active = role[r].active,
         NEW d \in Listeners, client' = [client EXCEPT ![r] = d], d.active = client[r].active,
         \A s \in Roles \ {r} : SameQueue(q, q', s) /\ (s \in q'.streaming <=> s \in q.streaming),
         d.open <=> r \in q'.streaming, Streams(q', r, w, d)
  PROVE  StreamInv'
<1>1. role \in [Roles -> Views] /\ client \in [Roles -> Listeners]
  BY DEF WriterTypes, StreamInv
<1>2. role'[r] = w /\ client'[r] = d /\ \A s \in Roles \ {r} : role'[s] = role[s] /\ client'[s] = client[s]
  BY <1>1
<1>3. \A s \in Roles : role'[s].active = role[s].active /\ client'[s].active = client[s].active
  BY <1>2
<1>4. client' \in [Roles -> Listeners]
  BY <1>1
<1>5. StreamingOK'
  BY <1>2 DEF StreamInv, StreamingOK
<1>6. PrioOK'
  <2>1. SentActive => SentActive'
    BY <1>3 DEF SentActive
  <2>2. \A j : Announced(q.prio, j) => Announced(q.prio, j)'
    BY <1>3 DEF Announced, OnlyOthers
  <2> QED
    BY <2>1, <2>2 DEF StreamInv, PrioOK, OnlyOthers
<1>7. ASSUME NEW s \in Roles \ {r} PROVE Streams(q', s, role'[s], client'[s])
  <2>1. SameQueue(q, q', s) /\ Streams(q, s, role[s], client[s])
    BY DEF StreamInv, AllStreams
  <2> QED
    BY <1>2, <2>1 DEF Streams, SameQueue
<1>8. AllStreams'
  BY <1>2, <1>7, StreamsPrimed
<1>9. act'.pc = "announce" => \A s \in Roles : role'[s].active <=> s \in act'.roles
  BY <1>3 DEF StreamInv
<1> QED
  BY <1>4, <1>5, <1>6, <1>8, <1>9 DEF StreamInv

LEMMA BrokenStreams ==
  ASSUME StreamInv, UNCHANGED client, q'.broken
  PROVE  StreamInv'
  BY DEF StreamInv

\* A call of a role changes its stream, not what the client was told.
LEMMA CallStreams ==
  ASSUME WriterTypes, StreamInv, ~q.broken, NEW r \in Roles, NEW w, role' = [role EXCEPT ![r] = w],
         w.active = role[r].active, UNCHANGED <<client, act>>,
         q'.broken \/ (Apart(q, q', r) /\ q'.prio = q.prio /\ Streams(q', r, w, client[r]))
  PROVE  StreamInv'
<1> SUFFICES ASSUME Apart(q, q', r), q'.prio = q.prio, Streams(q', r, w, client[r]) PROVE StreamInv'
  BY BrokenStreams
<1> DEFINE d == client[r]
<1>1. d \in Listeners /\ client' = [client EXCEPT ![r] = d] /\ (d.open <=> r \in q.streaming)
  BY DEF StreamInv, StreamingOK
<1>2. q'.streaming = q.streaming /\ \A s \in Roles \ {r} : SameQueue(q, q', s)
  BY DEF Apart
<1> HIDE DEF d
<1> QED
  BY <1>1, <1>2, RoleStreams DEF d

LEMMA StreamStartStreams ==
  ASSUME WriterInv, StreamInv, NEW r \in Roles, StreamStart(r)
  PROVE  StreamInv'
<1> DEFINE w == StartedView(role[r])
<1>1. WriterTypes /\ QOK(q) /\ now \in Nat /\ role[r] \in Views /\ role \in [Roles -> Views]
  BY DEF WriterInv, WriterTypes
<1>2. ~q.broken /\ role[r].active /\ ~(role[r].hold /\ role[r].started) /\ UNCHANGED <<client, act>>
      /\ q' = CallMessage(q, r, "start", role[r].n + 1)
  BY DEF CallMessage, StreamStart, CanCall
<1>3. client[r] \in Listeners /\ Streams(q, r, role[r], client[r])
  BY <1>2 DEF StreamInv, AllStreams
<1>4. q'.broken \/ (Apart(q, q', r) /\ q'.prio = q.prio /\ Streams(q', r, w, client[r]))
  BY <1>1, <1>2, <1>3, StartDoes
<1>5. role' = [role EXCEPT ![r] = w] /\ w.active = role[r].active
  BY <1>1 DEF StreamStart, Views, StartedView
<1> HIDE DEF w
<1> QED
  BY <1>1, <1>2, <1>4, <1>5, CallStreams

LEMMA AudioChunkStreams ==
  ASSUME WriterInv, StreamInv, NEW r \in Roles, NEW ts \in Nat, AudioChunk(r, ts)
  PROVE  StreamInv'
<1>1. WriterTypes /\ QOK(q) /\ role[r] \in Views /\ role \in [Roles -> Views]
  BY DEF WriterInv, WriterTypes
<1>2. ~q.broken /\ role[r].active /\ role[r].started /\ UNCHANGED <<role, client, act>>
  BY DEF AudioChunk, CanCall
<1>3. client[r] \in Listeners /\ Streams(q, r, role[r], client[r])
  BY <1>2 DEF StreamInv, AllStreams
<1>4. ASSUME role[r].hold
      PROVE  Apart(q, q', r) /\ q'.prio = q.prio /\ Streams(q', r, role[r], client[r])
  <2> DEFINE h == [ts |-> ts, n |-> role[r].n, epoch |-> q.epoch[r]]
             hs == Append(q.held[r], h)
             held == [q.held EXCEPT ![r] = hs]
  <2>1. h \in HeldChunks /\ h.n = role[r].n /\ h.epoch = q.epoch[r]
    BY <1>1, QueueTypes DEF HeldChunks, Views
  <2>2. q' = [q EXCEPT !.held = held] /\ q \in Queues /\ held[r] = hs /\ \A s \in Roles \ {r} : held[s] = q.held[s]
    BY <1>1, <1>4, QueueTypes DEF AudioChunk, Queues
  <2> HIDE DEF h, held
  <2>3. StreamOK(q.of[r], q.epoch[r], q.lastTs[r], hs, role[r], client[r], Owed(q.prio, r))
    <3>1. StreamOK(q.of[r], q.epoch[r], q.lastTs[r], q.held[r], role[r], client[r], Owed(q.prio, r))
      BY <1>3 DEF Streams
    <3>2. q.of[r] \in SUBSET Entries /\ q.epoch[r] \in Nat /\ q.lastTs[r] \in Nat /\ q.held[r] \in Seq(HeldChunks)
      BY <1>1, QueueTypes
    <3> QED
      BY <1>1, <1>2, <1>3, <1>4, <2>1, <3>1, <3>2, HoldStreams
  <2> HIDE DEF hs
  <2>4. q'.held = held /\ q'.of = q.of /\ q'.epoch = q.epoch /\ q'.lastTs = q.lastTs /\ q'.prio = q.prio
        /\ q'.streaming = q.streaming
    BY <2>2 DEF Queues
  <2> QED
    BY <2>2, <2>3, <2>4 DEF Apart, SameQueue, Streams
<1>5. ASSUME ~role[r].hold
      PROVE  q'.broken \/ (Apart(q, q', r) /\ q'.prio = q.prio /\ Streams(q', r, role[r], client[r]))
  <2>1. q' = SendBinary(q, r, ts, role[r].n)
    BY <1>5 DEF AudioChunk
  <2> QED
    BY <1>1, <1>2, <1>3, <2>1, SendBinaryDoes
<1>6. role' = [role EXCEPT ![r] = role[r]]
  BY <1>1, <1>2
<1> QED
  BY <1>1, <1>2, <1>4, <1>5, <1>6, CallStreams

LEMMA StreamClearStreams ==
  ASSUME WriterInv, StreamInv, NEW r \in Roles, StreamClear(r)
  PROVE  StreamInv'
<1> DEFINE w == ClearedView(role[r])
<1>1. WriterTypes /\ QOK(q) /\ now \in Nat /\ role[r] \in Views /\ role \in [Roles -> Views]
  BY DEF WriterInv, WriterTypes
<1>2. ~q.broken /\ role[r].started /\ UNCHANGED <<client, act>>
      /\ q' = CallMessage(q, r, "clear", role[r].n + 1)
  BY DEF CallMessage, StreamClear, CanCall
<1>3. client[r] \in Listeners /\ Streams(q, r, role[r], client[r])
  BY <1>2 DEF StreamInv, AllStreams
<1>4. q'.broken \/ (Apart(q, q', r) /\ q'.prio = q.prio /\ Streams(q', r, w, client[r]))
  BY <1>1, <1>2, <1>3, ClearDoes
<1>5. role' = [role EXCEPT ![r] = w] /\ w.active = role[r].active
  BY <1>1 DEF StreamClear, Views, ClearedView
<1> HIDE DEF w
<1> QED
  BY <1>1, <1>2, <1>4, <1>5, CallStreams

LEMMA StreamEndStreams ==
  ASSUME WriterInv, StreamInv, NEW r \in Roles, StreamEnd(r)
  PROVE  StreamInv'
<1> DEFINE w == EndedView(role[r])
<1>1. WriterTypes /\ QOK(q) /\ now \in Nat /\ role[r] \in Views /\ role \in [Roles -> Views]
  BY DEF WriterInv, WriterTypes
<1>2. ~q.broken /\ role[r].active /\ UNCHANGED <<client, act>>
      /\ q' = CallMessage(q, r, "end", role[r].n)
  BY DEF CallMessage, StreamEnd, CanCall
<1>3. client[r] \in Listeners /\ Streams(q, r, role[r], client[r]) /\ (client[r].open <=> r \in q.streaming)
  BY <1>2 DEF StreamInv, AllStreams, StreamingOK
<1>4. q'.broken \/ (Apart(q, q', r) /\ q'.prio = q.prio /\ Streams(q', r, w, client[r]))
  BY <1>1, <1>2, <1>3, EndDoes
<1>5. role' = [role EXCEPT ![r] = w] /\ w.active = role[r].active
  BY <1>1 DEF StreamEnd, Views, EndedView
<1> HIDE DEF w
<1> QED
  BY <1>1, <1>2, <1>4, <1>5, CallStreams

LEMMA ReleaseRoleStreams ==
  ASSUME WriterInv, StreamInv, NEW r \in Roles, ReleaseRole(r)
  PROVE  StreamInv'
<1> DEFINE w == [role[r] EXCEPT !.hold = FALSE]
<1>1. WriterTypes /\ QOK(q) /\ role[r] \in Views /\ role \in [Roles -> Views]
  BY DEF WriterInv, WriterTypes
<1>2. ~q.broken /\ role[r].hold /\ UNCHANGED <<client, act>> /\ q' = Flushed(q, r)
  BY DEF ReleaseRole
<1>3. client[r] \in Listeners /\ Streams(q, r, role[r], client[r])
  BY <1>2 DEF StreamInv, AllStreams
<1>4. role[r].active
  BY <1>2, <1>3 DEF Streams, StreamOK, Ended
<1>5. q'.broken \/ (Apart(q, q', r) /\ q'.prio = q.prio /\ Streams(q', r, w, client[r]))
  BY <1>1, <1>2, <1>3, <1>4, FlushedDoes
<1>6. role' = [role EXCEPT ![r] = w] /\ w.active = role[r].active
  BY <1>1 DEF ReleaseRole, Views
<1> HIDE DEF w
<1> QED
  BY <1>1, <1>2, <1>5, <1>6, CallStreams

\* What the streams depend on is as it was.
SameView(v, w) == w.active = v.active /\ w.started = v.started /\ w.hold = v.hold /\ w.n = v.n

SameShow(c, d) == d.open = c.open /\ d.n = c.n /\ (c.device = {} => d.device = {})

LEMMA StreamsStay ==
  ASSUME AllStreams, \A s \in Roles : SameQueue(q, q', s) /\ (Owed(q.prio, s) => Owed(q'.prio, s))
                                      /\ SameView(role[s], role'[s]) /\ SameShow(client[s], client'[s])
  PROVE  AllStreams'
<1>1. ASSUME NEW s \in Roles PROVE Streams(q', s, role'[s], client'[s])
  <2>1. Streams(q, s, role[s], client[s])
    BY DEF AllStreams
  <2>2. /\ SameQueue(q, q', s) /\ (Owed(q.prio, s) => Owed(q'.prio, s))
        /\ role'[s].active = role[s].active /\ role'[s].started = role[s].started
        /\ role'[s].hold = role[s].hold /\ role'[s].n = role[s].n
        /\ client'[s].open = client[s].open /\ client'[s].n = client[s].n
        /\ (client[s].device = {} => client'[s].device = {})
    BY DEF SameView, SameShow
  <2> QED
    BY <2>1, <2>2, StreamsAlike
<1> QED
  BY <1>1, StreamsPrimed

\* The writer and the activation move on, the streams do not.
LEMMA StillStreams ==
  ASSUME StreamInv, ~q.broken, q'.prio = q.prio, q'.streaming = q.streaming, \A s \in Roles : SameQueue(q, q', s),
         act' = act \/ (act'.pc # "announce" /\ (act.pc = "announce" => q.prio = <<>>)),
         \A s \in Roles : SameView(role[s], role'[s]) /\ SameShow(client[s], client'[s]) /\ client'[s].active = client[s].active,
         client' \in [Roles -> Listeners]
  PROVE  StreamInv'
<1>1. AllStreams'
  BY StreamsStay DEF StreamInv
<1>2. StreamingOK'
  BY DEF StreamInv, StreamingOK, SameShow
<1>3. SentActive => SentActive'
  BY DEF SentActive, SameView
<1>4. PrioOK'
  <2>1. CASE act' = act
    <3>1. \A j : Announced(q.prio, j) => Announced(q.prio, j)'
      BY <2>1 DEF Announced, OnlyOthers, SameView
    <3> QED
      BY <1>3, <2>1, <3>1 DEF StreamInv, PrioOK, OnlyOthers
  <2>2. CASE act'.pc # "announce" /\ (act.pc = "announce" => q.prio = <<>>)
    <3>1. OnlyOthers(q.prio, 0) /\ SentActive
      BY <2>2 DEF StreamInv, PrioOK
    <3> QED
      BY <1>3, <3>1 DEF PrioOK, OnlyOthers
  <2> QED
    BY <2>1, <2>2
<1>5. act'.pc = "announce" => \A s \in Roles : role'[s].active <=> s \in act'.roles
  BY DEF StreamInv, SameView
<1> QED
  BY <1>1, <1>2, <1>4, <1>5 DEF StreamInv

LEMMA SameIsSame ==
  ASSUME StreamInv, UNCHANGED <<role, client>>
  PROVE  /\ client' \in [Roles -> Listeners]
         /\ \A s \in Roles : SameView(role[s], role'[s]) /\ SameShow(client[s], client'[s]) /\ client'[s].active = client[s].active
  BY DEF StreamInv, SameView, SameShow

\* Steps that look at the queues, schedule or wake, and take nothing off them.
LEMMA QuietQueues ==
  ASSUME WriterInv, Sent \/ WaitForWork \/ \E rs \in SUBSET Roles : Activate(rs)
  PROVE  q'.prio = q.prio /\ q'.streaming = q.streaming /\ \A s \in Roles : SameQueue(q, q', s)
<1>1. q \in Queues /\ QOK(q) /\ now \in Nat /\ writer.role \in Roles \cup {None}
  BY DEF WriterInv, WriterTypes, QOK
<1>2. CASE Sent
  <2>1. q' = q \/ \E rd : q' = [q EXCEPT !.ready = rd]
    <3>1. CASE writer.role = None
      BY <1>2, <3>1 DEF Sent
    <3>2. CASE writer.role # None
      BY <1>1, <1>2, <3>2, ScheduleHeadKeeps DEF Sent
    <3> QED
      BY <3>1, <3>2
  <2> QED
    BY <1>1, <2>1 DEF Queues, SameQueue
<1>3. CASE WaitForWork
  <2> DEFINE x == Promote(q)
  <2>1. x \in Queues /\ x.of = q.of /\ x.prio = q.prio /\ x.epoch = q.epoch /\ x.lastTs = q.lastTs /\ x.held = q.held
        /\ x.streaming = q.streaming
    BY <1>1, PromoteLooks, PromoteSame DEF Looks, QOK
  <2>2. q' = [x EXCEPT !.ready = {}, !.wake = FALSE]
    BY <1>3 DEF WaitForWork
  <2> HIDE DEF x
  <2> QED
    BY <2>1, <2>2 DEF Queues, SameQueue
<1>4. CASE \E rs \in SUBSET Roles : Activate(rs)
  <2>1. q' = [q EXCEPT !.wake = TRUE]
    BY <1>4 DEF Activate
  <2> QED
    BY <1>1, <2>1 DEF Queues, SameQueue
<1> QED
  BY <1>2, <1>3, <1>4

LEMMA ActivateStreams ==
  ASSUME WriterInv, StreamInv, NEW rs \in SUBSET Roles, Activate(rs)
  PROVE  StreamInv'
<1>1. act'.pc # "announce" /\ act.pc # "announce" /\ ~q.broken /\ UNCHANGED <<role, client>>
  BY DEF Activate, WriterInv, WriterTypes
<1> QED
  BY <1>1, QuietQueues, SameIsSame, StillStreams

LEMMA UntouchedStreams ==
  ASSUME StreamInv, ~q.broken, UNCHANGED <<q, role, client>>,
         act' = act \/ (act'.pc # "announce" /\ (act.pc = "announce" => q.prio = <<>>))
  PROVE  StreamInv'
<1>1. q'.prio = q.prio /\ q'.streaming = q.streaming /\ \A s \in Roles : SameQueue(q, q', s)
  BY DEF SameQueue
<1>2. UNCHANGED <<role, client>>
  OBVIOUS
<1> QED
  BY <1>1, <1>2, SameIsSame, StillStreams

LEMMA WriterPausedStreams ==
  ASSUME WriterInv, StreamInv, WriterPaused
  PROVE  StreamInv'
  BY UntouchedStreams DEF WriterPaused, Writing, WriterInv, WriterTypes

LEMMA WakeUpStreams ==
  ASSUME StreamInv, WakeUp
  PROVE  StreamInv'
  BY UntouchedStreams DEF WakeUp, Writing

LEMMA ResumeStreams ==
  ASSUME WriterInv, StreamInv, Resume
  PROVE  StreamInv'
  BY UntouchedStreams DEF Resume, WriterInv, WriterTypes

LEMMA SentStreams ==
  ASSUME WriterInv, StreamInv, Sent
  PROVE  StreamInv'
<1>1. ~q.broken /\ act' = act /\ UNCHANGED <<role, client>>
  BY DEF Sent
<1> QED
  BY <1>1, QuietQueues, SameIsSame, StillStreams

LEMMA WaitForWorkStreams ==
  ASSUME WriterInv, StreamInv, WaitForWork
  PROVE  StreamInv'
<1>1. ~q.broken /\ act' = act /\ UNCHANGED <<role, client>>
  BY DEF WaitForWork, Writing
<1> QED
  BY <1>1, QuietQueues, SameIsSame, StillStreams

LEMMA TickStreams ==
  ASSUME WriterInv, StreamInv, Tick
  PROVE  StreamInv'
<1>1. client \in [Roles -> Listeners] /\ UNCHANGED <<q, role, act>>
      /\ client' = [r \in Roles |-> [client[r] EXCEPT !.device = {d \in @ : d.end > now + 1}]]
  BY DEF Tick, StreamInv
<1>2. ASSUME NEW c \in Listeners, NEW d, NEW s \in SUBSET c.device, d = [c EXCEPT !.device = s]
      PROVE  d \in Listeners /\ SameShow(c, d) /\ d.active = c.active
  BY <1>2 DEF Listeners, SameShow
<1>3. ASSUME NEW r \in Roles
      PROVE  client'[r] \in Listeners /\ SameShow(client[r], client'[r]) /\ client'[r].active = client[r].active
  <2> DEFINE c == client[r]
             s == {d \in c.device : d.end > now + 1}
  <2>1. c \in Listeners /\ client'[r] = [c EXCEPT !.device = s] /\ s \in SUBSET c.device
    BY <1>1
  <2> HIDE DEF c, s
  <2> QED
    BY <1>2, <2>1 DEF c
<1>4. client' \in [Roles -> Listeners]
  BY <1>1, <1>3
<1>5. CASE q.broken
  BY <1>1, <1>4, <1>5 DEF StreamInv
<1>6. CASE ~q.broken
  <2>1. q'.prio = q.prio /\ q'.streaming = q.streaming /\ \A s \in Roles : SameQueue(q, q', s) /\ SameView(role[s], role'[s])
    BY <1>1 DEF SameQueue, SameView
  <2> QED
    BY <1>1, <1>3, <1>4, <1>6, <2>1, StillStreams
<1> QED
  BY <1>5, <1>6

LEMMA PriorityMessageStreams ==
  ASSUME WriterInv, StreamInv, PriorityMessage
  PROVE  StreamInv'
<1> DEFINE e == [NoEntry EXCEPT !.kind = "other"]
<1>1. QOK(q) /\ ~q.broken /\ UNCHANGED <<role, client, act>> /\ q' = SendPriority(q, e)
  BY DEF PriorityMessage, WriterInv
<1>2. e \in Urgent /\ e.kind = "other"
  BY DEF NoEntry, Urgent, Others
<1> HIDE DEF e
<1>3. q'.broken \/ (/\ q'.streaming = q.streaming /\ q'.prio = Append(q.prio, e)
                    /\ \A s \in Roles : SameQueue(q, q', s))
  BY <1>1, <1>2, SendPriorityDoes
<1> SUFFICES ASSUME q'.streaming = q.streaming, q'.prio = Append(q.prio, e), \A s \in Roles : SameQueue(q, q', s)
      PROVE  StreamInv'
  BY <1>1, <1>3, BrokenStreams
<1>4. PICK p \in Seq(Urgent) : p = q.prio
  BY <1>1 DEF QOK, Queues
<1>5. PICK n \in Nat : n = Len(p)
  OBVIOUS
<1> DEFINE u == Append(p, e)
<1>6. q'.prio = u /\ Len(u) = n + 1 /\ u[n + 1] = e /\ \A i \in 1..n : u[i] = p[i]
  <2> HIDE DEF Urgent
  <2> QED
    BY <1>2, <1>4, <1>5
<1> HIDE DEF u
<1>7. \A k \in Nat : OnlyOthers(p, k) => OnlyOthers(u, k)
  <2> SUFFICES ASSUME NEW k \in Nat, OnlyOthers(p, k), NEW i \in 1..(n + 1), i > k PROVE u[i].kind = "other"
    BY <1>6 DEF OnlyOthers
  <2>1. CASE i = n + 1
    BY <1>2, <1>6, <2>1
  <2>2. CASE i # n + 1
    <3>1. i \in 1..n
      BY <2>2
    <3> QED
      BY <1>5, <1>6, <3>1 DEF OnlyOthers
  <2> QED
    BY <2>1, <2>2
<1>8. \A s \in Roles : Owed(p, s) => Owed(u, s)
  BY <1>5, <1>6 DEF Owed
<1>9. AllStreams'
  <2>1. \A s \in Roles : Owed(q.prio, s) => Owed(q'.prio, s)
    BY <1>4, <1>6, <1>8
  <2>2. \A s \in Roles : SameView(role[s], role'[s]) /\ SameShow(client[s], client'[s])
    BY <1>1, SameIsSame
  <2> QED
    BY <1>1, <2>1, <2>2, StreamsStay DEF StreamInv
<1>10. StreamingOK'
  BY <1>1 DEF StreamInv, StreamingOK
<1>11. PrioOK'
  <2>1. CASE OnlyOthers(q.prio, 0) /\ SentActive
    BY <1>1, <1>4, <1>6, <1>7, <2>1 DEF PrioOK, SentActive
  <2>2. CASE act.pc = "announce" /\ \E j \in 1..Len(q.prio) : Announced(q.prio, j)
    <3>1. PICK j \in 1..n : Announced(p, j)
      BY <1>4, <1>5, <2>2
    <3>2. j \in 1..(n + 1) /\ j \in Nat /\ \A i \in 1..(n + 1) : i < j => i \in 1..n
      OBVIOUS
    <3>3. Announced(q.prio, j)'
      BY <1>1, <1>5, <1>6, <1>7, <3>1, <3>2 DEF Announced
    <3> QED
      BY <1>1, <1>6, <2>2, <3>2, <3>3 DEF PrioOK
  <2> QED
    BY <1>1, <2>1, <2>2 DEF StreamInv, PrioOK
<1> QED
  BY <1>1, <1>9, <1>10, <1>11 DEF StreamInv

\* The first of the messages that go ahead, sent by the writer or by the activation.
LEMMA HeadAhead ==
  ASSUME WriterInv, StreamInv, ~q.broken, q.prio # <<>>, client' = Receive(Head(q.prio)),
         q' = Note([q EXCEPT !.prio = Tail(@)], Head(q.prio)), UNCHANGED <<role, act>>
  PROVE  StreamInv'
<1>1. QOK(q) /\ q \in Queues /\ role \in [Roles -> Views] /\ client \in [Roles -> Listeners]
  BY DEF WriterInv, WriterTypes, QOK, StreamInv
<1>2. PICK p \in Seq(Urgent) : p = q.prio /\ p # <<>>
  BY <1>1 DEF Queues
<1>3. PICK n \in Nat : Len(p) = n + 1
  <2> HIDE DEF Urgent
  <2>1. Len(p) \in Nat /\ Len(p) # 0
    BY <1>2
  <2>2. Len(p) - 1 \in Nat /\ Len(p) = (Len(p) - 1) + 1
    BY <2>1
  <2> QED
    BY <2>2
<1> DEFINE u == Tail(p)
           e == Head(p)
           x == [q EXCEPT !.prio = u]
<1>4. u \in Seq(Urgent) /\ e \in Urgent /\ e = p[1] /\ Len(u) = n /\ \A i \in 1..n : u[i] = p[i + 1]
  <2> HIDE DEF Urgent
  <2> QED
    BY <1>2, <1>3
<1>5. q' = Note(x, e) /\ client' = Receive(e)
  BY <1>2
<1> HIDE DEF u, e
<1>6. x \in Queues /\ x.prio = u /\ x.of = q.of /\ x.epoch = q.epoch /\ x.lastTs = q.lastTs /\ x.held = q.held
      /\ x.streaming = q.streaming
  BY <1>1, <1>4 DEF Queues
<1> HIDE DEF x
<1>7. PICK st : q' = [x EXCEPT !.streaming = st]
                /\ (e.kind = "end" => st = q.streaming \ {e.role})
                /\ (e.kind = "other" \/ e.kind = "activate" => st = q.streaming)
  <2>1. CASE e.kind = "start"
    <3>1. Note(x, e) = [x EXCEPT !.streaming = q.streaming \cup {e.role}]
      BY <1>6, <2>1 DEF Note
    <3> QED
      BY <1>5, <2>1, <3>1
  <2>2. CASE e.kind = "end"
    <3>1. Note(x, e) = [x EXCEPT !.streaming = q.streaming \ {e.role}]
      BY <1>6, <2>2 DEF Note
    <3> QED
      BY <1>5, <2>2, <3>1
  <2>3. CASE e.kind # "start" /\ e.kind # "end"
    <3>1. Note(x, e) = [x EXCEPT !.streaming = q.streaming]
      BY <1>6, <2>3 DEF Note, Queues
    <3> QED
      BY <1>5, <2>3, <3>1
  <2> QED
    BY <2>1, <2>2, <2>3
<1>8. q'.prio = u /\ q'.streaming = st /\ \A s \in Roles : SameQueue(q, q', s)
  BY <1>6, <1>7 DEF Queues, SameQueue
<1>9. \A i \in 1..(n + 1) : i # 1 => i - 1 \in 1..n /\ u[i - 1] = p[i]
  <2> SUFFICES ASSUME NEW i \in 1..(n + 1), i # 1 PROVE i - 1 \in 1..n /\ u[i - 1] = p[i]
    OBVIOUS
  <2>1. i - 1 \in 1..n /\ (i - 1) + 1 = i
    OBVIOUS
  <2> QED
    BY <1>4, <2>1
<1>10. \A k \in Nat : OnlyOthers(p, k + 1) => OnlyOthers(u, k)
  <2> SUFFICES ASSUME NEW k \in Nat, OnlyOthers(p, k + 1), NEW i \in 1..n, i > k PROVE u[i].kind = "other"
    BY <1>4 DEF OnlyOthers
  <2>1. i + 1 \in 1..(n + 1) /\ i + 1 > k + 1
    OBVIOUS
  <2> QED
    BY <1>3, <1>4, <2>1 DEF OnlyOthers
<1>11. ASSUME NEW s \in Roles, Owed(p, s), e.kind # "end" \/ e.role # s PROVE Owed(u, s)
  <2>1. PICK i \in 1..(n + 1) : p[i].kind = "end" /\ p[i].role = s
    BY <1>3, <1>11 DEF Owed
  <2>2. i # 1
    BY <1>4, <1>11, <2>1
  <2> QED
    BY <1>4, <1>9, <2>1, <2>2 DEF Owed
<1>12. CASE OnlyOthers(p, 0) /\ SentActive
  <2>1. e.kind = "other"
    <3>1. 1 \in 1..Len(p) /\ 1 > 0
      BY <1>3
    <3> QED
      BY <1>4, <1>12, <3>1 DEF OnlyOthers
  <2>2. client' = client /\ st = q.streaming
    BY <1>5, <1>7, <2>1 DEF Receive
  <2>3. OnlyOthers(u, 0)
    BY <1>4, <1>9, <1>12, <1>3 DEF OnlyOthers
  <2>4. AllStreams'
    <3>1. \A s \in Roles : Owed(q.prio, s) => Owed(q'.prio, s)
      BY <1>2, <1>8, <1>11, <2>1
    <3>2. \A s \in Roles : SameView(role[s], role'[s]) /\ SameShow(client[s], client'[s])
      BY <2>2, SameIsSame
    <3> QED
      BY <1>8, <3>1, <3>2, StreamsStay DEF StreamInv
  <2>5. StreamingOK'
    BY <1>8, <2>2 DEF StreamInv, StreamingOK
  <2>6. PrioOK'
    BY <1>8, <1>12, <2>2, <2>3 DEF PrioOK, SentActive
  <2> QED
    BY <1>1, <2>2, <2>4, <2>5, <2>6 DEF StreamInv
<1>13. ASSUME act.pc = "announce", NEW j \in 1..(n + 1), Announced(p, j)
       PROVE  StreamInv'
  <2>0. \A s \in Roles : role[s].active <=> s \in act.roles
    BY <1>13 DEF StreamInv
  <2>1. CASE j = 1
    <3>1. e.kind = "activate" /\ e.n = act.roles /\ OnlyOthers(p, 1)
      BY <1>4, <1>13, <2>1 DEF Announced
    <3>2. client' = [r \in Roles |-> [client[r] EXCEPT !.active = r \in act.roles]] /\ st = q.streaming
      BY <1>5, <1>7, <3>1 DEF Receive
    <3>3. ASSUME NEW c \in Listeners, NEW d, NEW b \in BOOLEAN, d = [c EXCEPT !.active = b]
          PROVE  d \in Listeners /\ SameShow(c, d) /\ d.active = b
      BY <3>3 DEF Listeners, SameShow
    <3>4. ASSUME NEW s \in Roles
          PROVE  client'[s] \in Listeners /\ SameShow(client[s], client'[s]) /\ (client'[s].active <=> s \in act.roles)
      <4> DEFINE b == s \in act.roles
      <4>1. b \in BOOLEAN /\ client'[s] = [client[s] EXCEPT !.active = b] /\ client[s] \in Listeners
        BY <1>1, <3>2
      <4> HIDE DEF b
      <4>2. client'[s] \in Listeners /\ SameShow(client[s], client'[s]) /\ client'[s].active = b
        BY <3>3, <4>1
      <4> QED
        BY <4>2 DEF b
    <3>5. client' \in [Roles -> Listeners]
      BY <3>2, <3>4
    <3>6. SentActive'
      BY <2>0, <3>4 DEF SentActive
    <3>7. OnlyOthers(u, 0)
      <4>1. \A i \in 1..n : i + 1 \in 1..(n + 1) /\ i + 1 > 1
        OBVIOUS
      <4> QED
        BY <1>3, <1>4, <3>1, <4>1 DEF OnlyOthers
    <3>8. AllStreams'
      <4>1. \A s \in Roles : Owed(q.prio, s) => Owed(q'.prio, s)
        BY <1>2, <1>8, <1>11, <3>1
      <4>2. \A s \in Roles : SameView(role[s], role'[s])
        BY DEF SameView
      <4> QED
        BY <1>8, <3>4, <4>1, <4>2, StreamsStay DEF StreamInv
    <3>9. StreamingOK'
      BY <1>8, <3>2, <3>4 DEF StreamInv, StreamingOK, SameShow
    <3>10. PrioOK'
      BY <1>8, <3>6, <3>7 DEF PrioOK
    <3> QED
      BY <2>0, <3>5, <3>8, <3>9, <3>10 DEF StreamInv
  <2>2. CASE j # 1
    <3> DEFINE r == e.role
               c == client[r]
               d == [c EXCEPT !.open = FALSE, !.device = {}]
    <3>1. e.kind = "end" /\ r \in Roles /\ c.active /\ ~role[r].active /\ c \in Listeners
      <4>1. 1 \in 1..Len(p) /\ 1 < j
        BY <1>3, <2>2
      <4> QED
        BY <1>1, <1>4, <1>13, <4>1 DEF Announced
    <3>2. c.stray = {}
      BY <3>1 DEF Listeners
    <3>3. client' = [client EXCEPT ![r] = d]
      <4>1. Told(c, e) = d /\ d.stray = {} /\ d \in Listeners
        BY <3>1 DEF Told, Listeners
      <4>2. client' = [client EXCEPT ![r] = [Told(c, e) EXCEPT !.stray = @ \cup {}]]
        BY <1>5, <3>1 DEF Receive
      <4> HIDE DEF d
      <4>3. [d EXCEPT !.stray = @ \cup {}] = d
        BY <4>1 DEF Listeners
      <4> QED
        BY <4>1, <4>2, <4>3
    <3>4. d \in Listeners /\ ~d.open /\ d.device = {} /\ d.n = c.n /\ d.active = c.active
      BY <3>1 DEF Listeners
    <3> HIDE DEF d
    <3>5. client' \in [Roles -> Listeners] /\ client'[r] = d /\ \A s \in Roles \ {r} : client'[s] = client[s]
      BY <1>1, <3>1, <3>3, <3>4
    <3>6. \A s \in Roles : client'[s].active = client[s].active
      BY <3>4, <3>5
    <3>7. StreamingOK'
      BY <1>7, <1>8, <3>1, <3>4, <3>5 DEF StreamInv, StreamingOK
    <3>8. PrioOK'
      <4> DEFINE k == j - 1
      <4>1. k \in 1..n /\ k + 1 = j /\ k \in Nat /\ j \in 1..(n + 1)
        BY <2>2
      <4>2. u[k] = p[j]
        BY <1>4, <4>1
      <4>3. OnlyOthers(u, k)
        BY <1>10, <1>13, <4>1 DEF Announced
      <4>4. ASSUME NEW i \in 1..n, i < k
            PROVE  u[i].kind = "end" /\ u[i].role \in Roles /\ client[u[i].role].active /\ ~role[u[i].role].active
        <5>0. u[i] = p[i + 1]
          BY <1>4
        <5> HIDE DEF k
        <5>1. i + 1 \in 1..(n + 1) /\ i + 1 < j
          BY <4>1, <4>4
        <5> QED
          BY <1>3, <1>13, <5>0, <5>1 DEF Announced
      <4> HIDE DEF k
      <4>5. Announced(q.prio, k)'
        BY <1>4, <1>8, <1>13, <3>6, <4>2, <4>3, <4>4 DEF Announced
      <4> QED
        BY <1>4, <1>8, <1>13, <4>1, <4>5 DEF PrioOK
    <3>9. ASSUME NEW s \in Roles PROVE Streams(q', s, role'[s], client'[s])
      <4>1. SameQueue(q, q', s) /\ Streams(q, s, role[s], client[s])
        BY <1>8 DEF StreamInv, AllStreams
      <4>2. CASE s = r
        <5>1. q.of[s] = {} /\ ~role[s].started
          BY <3>1, <4>1, <4>2 DEF Streams, StreamOK, Ended
        <5>2. Follows(q.of[s], q.epoch[s], role[s], d)
          BY <3>4, <4>1, <4>2, <5>1 DEF Streams, StreamOK, Follows
        <5>3. Ended(q.of[s], role[s], d, Owed(u, s))
          BY <3>4, <4>1, <4>2, <5>1 DEF Streams, StreamOK, Ended
        <5> QED
          BY <1>8, <3>5, <4>1, <4>2, <5>2, <5>3 DEF Streams, StreamOK, SameQueue
      <4>3. CASE s # r
        <5>1. Owed(q.prio, s) => Owed(q'.prio, s)
          BY <1>2, <1>8, <1>11, <4>3
        <5>2. role'[s] = role[s] /\ client'[s] = client[s]
          BY <3>5, <4>3
        <5> QED
          BY <4>1, <5>1, <5>2, StreamsAlike
      <4> QED
        BY <4>2, <4>3
    <3>10. AllStreams'
      BY <3>9, StreamsPrimed
    <3> QED
      BY <2>0, <3>5, <3>7, <3>8, <3>10 DEF StreamInv
  <2> QED
    BY <2>1, <2>2
<1> QED
  BY <1>2, <1>3, <1>12, <1>13 DEF StreamInv, PrioOK

LEMMA SendPriorityMessageStreams ==
  ASSUME WriterInv, StreamInv, SendPriorityMessage
  PROVE  StreamInv'
  BY HeadAhead DEF SendPriorityMessage, Writing

LEMMA DrainStreams ==
  ASSUME WriterInv, StreamInv, Drain
  PROVE  StreamInv'
  BY HeadAhead DEF Drain

\* What an activation makes of a role's view.
Activated(r, rs, v, w) ==
    /\ w.n = v.n /\ (w.active <=> r \in rs)
    /\ v.active /\ r \notin rs => ~w.started /\ ~w.hold
    /\ v.active /\ r \in rs => w = v
    /\ ~v.active => w.started = v.started
    /\ ~v.active /\ r \notin rs => w = v

\* A role that leaves has nothing queued, a role that joins has not begun.
LEMMA ActivatedStreams ==
  ASSUME NEW x, QOK(x), NEW r \in Roles, NEW v \in Views, NEW c \in Listeners, Streams(x, r, v, c),
         ~Owed(x.prio, r), NEW rs, NEW w \in Views, Activated(r, rs, v, w), NEW y,
         IF v.active /\ r \notin rs
         THEN /\ y.of[r] = {} /\ y.held[r] = x.held[r] /\ y.epoch[r] > x.epoch[r] /\ y.epoch[r] \in Nat
              /\ c.open => Owed(y.prio, r)
         ELSE SameQueue(x, y, r)
  PROVE  Streams(y, r, w, c)
<1>1. StreamOK(x.of[r], x.epoch[r], x.lastTs[r], x.held[r], v, c, Owed(x.prio, r))
  BY DEF Streams
<1>2. x.of[r] \in SUBSET Entries /\ x.epoch[r] \in Nat /\ x.lastTs[r] \in Nat /\ x.held[r] \in Seq(HeldChunks)
  BY QueueTypes
<1>3. CASE v.active /\ r \notin rs
  <2>1. ~w.active /\ ~w.started /\ ~w.hold /\ w.n = v.n
    BY <1>3 DEF Activated
  <2>2. \A i \in 1..Len(x.held[r]) : x.held[r][i].epoch \in Nat
    <3>1. PICK hs \in Seq(HeldChunks) : hs = x.held[r]
      BY <1>2
    <3>2. \A i \in 1..Len(hs) : hs[i] \in HeldChunks
      OBVIOUS
    <3> QED
      BY <3>1, <3>2 DEF HeldChunks
  <2>3. HeldFit(y.held[r], y.epoch[r], w)
    <3> SUFFICES ASSUME NEW i \in 1..Len(x.held[r])
          PROVE x.held[r][i].epoch <= y.epoch[r] /\ x.held[r][i].epoch # y.epoch[r]
      BY <1>3 DEF HeldFit
    <3>1. x.held[r][i].epoch <= x.epoch[r]
      BY <1>1 DEF StreamOK, HeldFit
    <3>2. x.held[r][i].epoch \in Nat /\ y.epoch[r] > x.epoch[r] /\ y.epoch[r] \in Nat
      BY <1>3, <2>2
    <3> QED
      BY <1>2, <3>1, <3>2
  <2>4. InOrder(y.of[r], y.epoch[r], y.lastTs[r])
    BY <1>3 DEF InOrder
  <2>5. Follows(y.of[r], y.epoch[r], w, c)
    BY <1>1, <1>3, <2>1 DEF Follows, StreamOK
  <2>6. Ended(y.of[r], w, c, Owed(y.prio, r))
    BY <1>1, <1>3, <2>1 DEF Ended, StreamOK
  <2> QED
    BY <2>3, <2>4, <2>5, <2>6 DEF Streams, StreamOK
<1>4. CASE ~(v.active /\ r \notin rs)
  <2>1. SameQueue(x, y, r)
    BY <1>4
  <2>2. CASE v.active
    <3>1. w = v
      BY <1>4, <2>2 DEF Activated
    <3> QED
      BY <2>1, <3>1, StreamsAlike
  <2>3. CASE ~v.active
    <3>1. ~v.started /\ ~v.hold /\ x.of[r] = {} /\ ~w.started /\ w.n = v.n
      BY <1>1, <2>3 DEF StreamOK, Ended, Activated
    <3>2. ~c.open
      BY <1>1, <3>1 DEF StreamOK, Ended, NoEnd
    <3>3. HeldFit(x.held[r], x.epoch[r], w)
      BY <1>1, <3>1 DEF StreamOK, HeldFit
    <3>4. Follows(x.of[r], x.epoch[r], w, c)
      BY <1>1, <3>1 DEF StreamOK, Follows
    <3>5. Ended(x.of[r], w, c, Owed(y.prio, r))
      <4>1. ~w.active => ~w.hold
        BY <2>3, <3>1 DEF Activated
      <4> QED
        BY <1>1, <3>1, <3>2, <4>1 DEF StreamOK, Ended
    <3> QED
      BY <1>1, <2>1, <3>3, <3>4, <3>5 DEF Streams, StreamOK, SameQueue
  <2> QED
    BY <2>2, <2>3
<1> QED
  BY <1>3, <1>4

\* The roles that the activation retires have left, with the ends that are owed, and it follows.
ActivateEntry(rs) == [NoEntry EXCEPT !.kind = "activate", !.n = rs]

Announces(x, y, rs) ==
    /\ AllLeft(x, y, Retiring(rs)) /\ QOK(y) /\ y.prio \in Seq(Urgent)
    /\ q'.streaming = y.streaming /\ q'.prio = Append(y.prio, ActivateEntry(rs))
    /\ \A s \in Roles : SameQueue(y, q', s)

LEMMA ActivationSends ==
  ASSUME WriterInv, StreamInv, SendActivation
  PROVE  /\ QOK(q) /\ q \in Queues /\ now \in Nat /\ role \in [Roles -> Views] /\ client \in [Roles -> Listeners]
         /\ act.roles \in SUBSET Roles /\ act.pc = "drain" /\ q.prio = <<>> /\ ~q.broken
         /\ client' = client /\ act'.pc = "announce" /\ act'.roles = act.roles
         /\ ActivateEntry(act.roles) \in Urgent /\ AllStreams /\ SentActive
         /\ (\A r \in Roles : client[r].open <=> r \in q.streaming)
         /\ (q'.broken \/ \E x : Announces(q, x, act.roles))
<1> DEFINE rs == act.roles
           gone == Retiring(rs)
           x == RetireAll(q, gone)
           msg == ActivateEntry(rs)
<1>1. /\ QOK(q) /\ q \in Queues /\ now \in Nat /\ role \in [Roles -> Views] /\ client \in [Roles -> Listeners]
      /\ gone \in SUBSET Roles /\ rs \in SUBSET Roles /\ act.pc = "drain" /\ q.prio = <<>> /\ ~q.broken
      /\ q' = SendPriority(x, msg) /\ client' = client /\ act'.pc = "announce" /\ act'.roles = rs
  BY DEF SendActivation, WriterInv, WriterTypes, QOK, StreamInv, Retiring, ActivateEntry
<1>2. msg \in Urgent
  BY <1>1 DEF NoEntry, Urgent, Control, ActivateEntry
<1> HIDE DEF gone, msg
<1>4. Keeps(q, x)
  <2>1. \A r \in Roles : role[r].n \in Nat
    BY <1>1 DEF Views
  <2> QED
    BY <1>1, <2>1, RetireAllKeeps
<1>5. AllStreams /\ SentActive /\ \A r \in Roles : client[r].open <=> r \in q.streaming
  BY <1>1 DEF StreamInv, PrioOK, StreamingOK
<1>6. x.broken \/ AllLeft(q, x, gone)
  BY <1>1, <1>5, RetireAllDoes DEF AllStreams
<1> HIDE DEF x
<1>7. QOK(x)
  BY <1>4 DEF Keeps
<1>8. q'.broken \/ (/\ q'.streaming = x.streaming /\ q'.prio = Append(x.prio, msg)
                    /\ \A s \in Roles : SameQueue(x, q', s))
  BY <1>1, <1>2, <1>7, SendPriorityDoes
<1>9. Keeps(x, q')
  BY <1>1, <1>2, <1>7, SendPriorityKeeps
<1>10. ~q'.broken => Announces(q, x, rs)
  BY <1>6, <1>7, <1>8, <1>9 DEF Keeps, Announces, QOK, Queues, gone, msg
<1> QED
  BY <1>1, <1>2, <1>5, <1>10 DEF msg

LEMMA SendActivationStreams ==
  ASSUME WriterInv, StreamInv, SendActivation
  PROVE  StreamInv'
<1> DEFINE rs == act.roles
           gone == Retiring(rs)
           msg == ActivateEntry(rs)
<1>1. /\ QOK(q) /\ q \in Queues /\ now \in Nat /\ role \in [Roles -> Views] /\ client \in [Roles -> Listeners]
      /\ gone \in SUBSET Roles /\ rs \in SUBSET Roles /\ act.pc = "drain" /\ q.prio = <<>> /\ ~q.broken
      /\ client' = client /\ act'.pc = "announce" /\ act'.roles = rs
  BY ActivationSends DEF Retiring
<1>2. msg \in Urgent /\ msg.kind = "activate" /\ msg.n = rs
  BY ActivationSends DEF NoEntry, ActivateEntry
<1>3. \A r \in Roles : r \in gone <=> role[r].active /\ r \notin rs
  BY DEF Retiring
<1>5. AllStreams /\ SentActive /\ \A r \in Roles : client[r].open <=> r \in q.streaming
  BY ActivationSends
<1> HIDE DEF gone, msg
<1> SUFFICES ASSUME ~q'.broken PROVE StreamInv'
  BY <1>1, BrokenStreams
<1>6. PICK x : Announces(q, x, rs)
  BY ActivationSends
<1>10. /\ AllLeft(q, x, gone) /\ q'.streaming = x.streaming /\ q'.prio = Append(x.prio, msg)
       /\ \A s \in Roles : SameQueue(x, q', s)
  BY <1>6 DEF Announces, gone, msg
<1>11. PICK p \in Seq(Urgent) : p = x.prio
  BY <1>6 DEF Announces
<1>12. PICK n \in Nat : n = Len(p)
  OBVIOUS
<1> DEFINE u == Append(p, msg)
<1>13. q'.prio = u /\ Len(u) = n + 1 /\ u[n + 1] = msg /\ \A i \in 1..n : u[i] = p[i]
  <2> HIDE DEF Urgent
  <2> QED
    BY <1>2, <1>10, <1>11, <1>12
<1> HIDE DEF u
<1>14. \A i \in 1..n : p[i].kind = "end" /\ p[i].role \in gone
  <2>1. Len(q.prio) = 0
    BY <1>1
  <2>2. \A i \in 1..n : i > 0
    OBVIOUS
  <2> QED
    BY <1>10, <1>11, <1>12, <2>1, <2>2 DEF AllLeft, Longer
<1>15. ASSUME NEW r \in Roles PROVE Activated(r, rs, role[r], role'[r]) /\ role'[r] \in Views
  <2>1. PICK hold : role' = [s \in Roles |->
            IF s \in gone THEN [role[s] EXCEPT !.active = FALSE, !.started = FALSE, !.hold = FALSE]
            ELSE IF s \in rs /\ ~role[s].active THEN [role[s] EXCEPT !.active = TRUE, !.hold = s \in hold]
            ELSE role[s]]
    BY DEF SendActivation, gone
  <2>2. PICK v \in Views : v = role[r]
    BY <1>1
  <2>3. PICK b \in BOOLEAN : b = (r \in hold)
    <3>1. (r \in hold) \in BOOLEAN
      OBVIOUS
    <3> QED
      BY <3>1, Zenon
  <2>4. role'[r] = IF v.active /\ r \notin rs THEN [v EXCEPT !.active = FALSE, !.started = FALSE, !.hold = FALSE]
                   ELSE IF r \in rs /\ ~v.active THEN [v EXCEPT !.active = TRUE, !.hold = b] ELSE v
    BY <1>3, <2>1, <2>2, <2>3
  <2>5. CASE v.active /\ r \notin rs
    <3>1. role'[r] = [v EXCEPT !.active = FALSE, !.started = FALSE, !.hold = FALSE]
      BY <2>4, <2>5
    <3> QED
      BY <2>2, <2>5, <3>1 DEF Activated, Views
  <2>6. CASE r \in rs /\ ~v.active
    <3>1. role'[r] = [v EXCEPT !.active = TRUE, !.hold = b]
      BY <2>4, <2>6
    <3> QED
      BY <2>2, <2>6, <3>1 DEF Activated, Views
  <2>7. CASE ~(v.active /\ r \notin rs) /\ ~(r \in rs /\ ~v.active)
    <3>1. role'[r] = v
      BY <2>4, <2>7
    <3> QED
      BY <2>2, <2>7, <3>1 DEF Activated, Views
  <2> QED
    BY <2>5, <2>6, <2>7
<1>16. \A r \in Roles : role'[r].active <=> r \in rs
  BY <1>15 DEF Activated
<1>17. StreamingOK'
  BY <1>1, <1>5, <1>10 DEF AllLeft, StreamingOK
<1>18. PrioOK'
  <2>1. n + 1 \in 1..(n + 1) /\ (\A i \in 1..(n + 1) : ~(i > n + 1)) /\ \A i \in 1..(n + 1) : i < n + 1 => i \in 1..n
    OBVIOUS
  <2>2. ASSUME NEW i \in 1..n
        PROVE  u[i].kind = "end" /\ u[i].role \in Roles /\ client[u[i].role].active /\ ~role'[u[i].role].active
    <3>1. u[i].kind = "end" /\ u[i].role \in gone
      BY <1>13, <1>14
    <3> QED
      BY <1>1, <1>3, <1>5, <1>16, <3>1 DEF SentActive
  <2>3. Announced(q.prio, n + 1)'
    BY <1>1, <1>2, <1>13, <2>1, <2>2 DEF Announced, OnlyOthers
  <2> QED
    BY <1>1, <1>13, <2>1, <2>3 DEF PrioOK
<1>19. ASSUME NEW r \in Roles PROVE Streams(q', r, role'[r], client'[r])
  <2>1. Owed(x.prio, r) => Owed(q'.prio, r)
    BY <1>11, <1>12, <1>13 DEF Owed
  <2>2. ~Owed(q.prio, r)
    BY <1>1 DEF Owed
  <2>3. Streams(q, r, role[r], client[r]) /\ role[r] \in Views /\ client[r] \in Listeners /\ x.epoch[r] \in Nat
    BY <1>1, <1>5, <1>6, QueueTypes DEF AllStreams, Announces
  <2>4. CASE r \in gone
    <3>1. /\ x.of[r] = {} /\ x.held[r] = q.held[r] /\ x.epoch[r] > q.epoch[r]
          /\ client[r].open => Owed(x.prio, r)
      BY <1>10, <2>4 DEF AllLeft
    <3>2. /\ q'.of[r] = {} /\ q'.held[r] = q.held[r] /\ q'.epoch[r] > q.epoch[r] /\ q'.epoch[r] \in Nat
          /\ client[r].open => Owed(q'.prio, r)
      BY <1>10, <2>1, <2>3, <3>1 DEF SameQueue
    <3>3. role[r].active /\ r \notin rs
      BY <1>3, <2>4
    <3>4. Streams(q', r, role'[r], client[r])
      BY <1>1, <1>15, <2>2, <2>3, <3>2, <3>3, ActivatedStreams
    <3> QED
      BY <1>1, <3>4
  <2>5. CASE r \notin gone
    <3>1. SameQueue(q, q', r)
      BY <1>10, <2>5 DEF AllLeft, SameQueue
    <3>2. ~(role[r].active /\ r \notin rs)
      BY <1>3, <2>5
    <3>3. Streams(q', r, role'[r], client[r])
      BY <1>1, <1>15, <2>2, <2>3, <3>1, <3>2, ActivatedStreams
    <3> QED
      BY <1>1, <3>3
  <2> QED
    BY <2>4, <2>5
<1>20. AllStreams'
  BY <1>19, StreamsPrimed
<1> QED
  BY <1>1, <1>16, <1>17, <1>18, <1>20 DEF StreamInv

\* The turn of a role: the entry e is taken off its queue, or not.
LEMMA DiscardSame ==
  ASSUME NEW y, QOK(y), NEW e \in Entries, NEW z, z = DiscardHead(y, e)
  PROVE  /\ QOK(z) /\ z.prio = y.prio /\ z.streaming = y.streaming /\ z.epoch = y.epoch /\ z.lastTs = y.lastTs
         /\ z.held = y.held /\ z.of[e.role] = y.of[e.role] \ {e} /\ \A s \in Roles \ {e.role} : z.of[s] = y.of[s]
<1> DEFINE ofs == [y.of EXCEPT ![e.role] = y.of[e.role] \ {e}]
<1>1. QOK(z) /\ z = [y EXCEPT !.of = ofs] /\ e.role \in Roles /\ y \in Queues
  BY DiscardHeadLooks DEF Looks, QOK, Entries
<1>2. y.of \in [Roles -> SUBSET Entries]
  BY <1>1 DEF Queues
<1>3. ofs[e.role] = y.of[e.role] \ {e} /\ \A s \in Roles \ {e.role} : ofs[s] = y.of[s]
  BY <1>1, <1>2
<1> HIDE DEF ofs
<1> QED
  BY <1>1, <1>3 DEF Queues

LEMMA ScheduleSame ==
  ASSUME NEW y, QOK(y), NEW r \in Roles, NEW z, z = ScheduleHead(y, r)
  PROVE  /\ QOK(z) /\ z.prio = y.prio /\ z.streaming = y.streaming /\ z.epoch = y.epoch /\ z.lastTs = y.lastTs
         /\ z.held = y.held /\ z.of = y.of
<1>1. QOK(z) /\ z = [y EXCEPT !.ready = z.ready] /\ y \in Queues
  BY ScheduleHeadKeeps DEF QOK
<1> QED
  BY <1>1 DEF Queues

LEMMA DroppedSame ==
  ASSUME NEW y, QOK(y), NEW e \in Entries, NEW z, z = ScheduleHead(DiscardHead(y, e), e.role)
  PROVE  /\ z.prio = y.prio /\ z.streaming = y.streaming /\ z.epoch = y.epoch /\ z.lastTs = y.lastTs
         /\ z.held = y.held /\ z.of[e.role] = y.of[e.role] \ {e} /\ \A s \in Roles \ {e.role} : z.of[s] = y.of[s]
<1> DEFINE u == DiscardHead(y, e)
<1>1. /\ QOK(u) /\ u.prio = y.prio /\ u.streaming = y.streaming /\ u.epoch = y.epoch /\ u.lastTs = y.lastTs
      /\ u.held = y.held /\ u.of[e.role] = y.of[e.role] \ {e} /\ \A s \in Roles \ {e.role} : u.of[s] = y.of[s]
  BY DiscardSame
<1>2. e.role \in Roles
  BY DEF Entries
<1> HIDE DEF u
<1>3. /\ z.prio = u.prio /\ z.streaming = u.streaming /\ z.epoch = u.epoch /\ z.lastTs = u.lastTs
      /\ z.held = u.held /\ z.of = u.of
  BY <1>1, <1>2, ScheduleSame DEF u
<1> QED
  BY <1>1, <1>3

\* The queues hold the same.
SameQueues(x, y) ==
    /\ y.prio = x.prio /\ y.streaming = x.streaming /\ y.epoch = x.epoch /\ y.lastTs = x.lastTs
    /\ y.held = x.held /\ y.of = x.of

\* A chunk that is dropped: its epoch is over, or it is too late.
LEMMA DroppedStreams ==
  ASSUME WriterInv, StreamInv, ~q.broken, NEW y, QOK(y), SameQueues(q, y), NEW e \in Entries, e.kind = "chunk",
         e \in q.of[e.role], q' = ScheduleHead(DiscardHead(y, e), e.role), NEW w, SameView(role[e.role], w),
         role' = [role EXCEPT ![e.role] = w], UNCHANGED <<client, act>>
  PROVE  StreamInv'
<1> DEFINE r == e.role
           c == client[r]
<1>1. r \in Roles /\ QOK(q) /\ WriterTypes
  BY DEF Entries, WriterInv
<1>2. /\ q'.prio = y.prio /\ q'.streaming = y.streaming /\ q'.epoch = y.epoch /\ q'.lastTs = y.lastTs
      /\ q'.held = y.held /\ q'.of[r] = y.of[r] \ {e} /\ \A s \in Roles \ {r} : q'.of[s] = y.of[s]
  BY DroppedSame
<1>4. /\ q'.prio = q.prio /\ q'.streaming = q.streaming /\ q'.epoch = q.epoch /\ q'.lastTs = q.lastTs
      /\ q'.held = q.held /\ q'.of[r] = q.of[r] \ {e} /\ \A s \in Roles \ {r} : q'.of[s] = q.of[s]
  BY <1>2 DEF SameQueues
<1>5. StreamOK(q.of[r] \ {e}, q.epoch[r], q.lastTs[r], q.held[r], role[r], c, Owed(q.prio, r))
  <2>1. StreamOK(q.of[r], q.epoch[r], q.lastTs[r], q.held[r], role[r], c, Owed(q.prio, r))
    BY <1>1 DEF StreamInv, AllStreams, Streams
  <2>2. q.of[r] \in SUBSET Entries
    BY <1>1, QueueTypes
  <2> QED
    BY <2>1, <2>2, ChunkDropped
<1>6. Streams(q', r, role[r], c)
  BY <1>4, <1>5 DEF Streams
<1>7. Streams(q', r, w, c)
  <2>1. SameQueue(q', q', r) /\ w.active = role[r].active /\ w.started = role[r].started /\ w.hold = role[r].hold
        /\ w.n = role[r].n
    BY DEF SameQueue, SameView
  <2> QED
    BY <1>6, <2>1, StreamsAlike
<1>8. Apart(q, q', r)
  BY <1>4 DEF Apart, SameQueue
<1>9. w.active = role[r].active
  BY DEF SameView
<1> HIDE DEF r, c
<1> QED
  BY <1>1, <1>4, <1>7, <1>8, <1>9, CallStreams DEF r, c

\* The head of a role's queue goes to the client.
LEMMA TransmitStreams ==
  ASSUME WriterInv, StreamInv, ~q.broken, SentActive, NEW y, QOK(y), SameQueues(q, y), NEW e \in Entries,
         e \in q.of[e.role], Counts(e, q.epoch[e.role]), \A f \in q.of[e.role] \ {e} : Before(e, f),
         Transmit(y, e), NEW w, SameView(role[e.role], w),
         role' = [role EXCEPT ![e.role] = w], UNCHANGED act
  PROVE  StreamInv'
<1> DEFINE r == e.role
           z == DiscardHead(y, e)
           c == client[r]
           d == Told(c, e)
<1>1. r \in Roles /\ QOK(q) /\ WriterTypes /\ role[r] \in Views /\ c \in Listeners /\ now \in Nat
      /\ client \in [Roles -> Listeners]
  BY DEF Entries, WriterInv, WriterTypes, StreamInv
<1>2. /\ QOK(z) /\ z.prio = y.prio /\ z.streaming = y.streaming /\ z.epoch = y.epoch /\ z.lastTs = y.lastTs
      /\ z.held = y.held /\ z.of[r] = y.of[r] \ {e} /\ \A s \in Roles \ {r} : z.of[s] = y.of[s]
  BY DiscardSame
<1> HIDE DEF z
<1>3. q' = Note(z, e) /\ client' = Receive(e)
  BY DEF Transmit, z
<1>4. PICK st : q' = [z EXCEPT !.streaming = st]
                /\ st = IF e.kind = "start" THEN q.streaming \cup {r}
                        ELSE IF e.kind = "end" THEN q.streaming \ {r} ELSE q.streaming
  <2>1. z.streaming = q.streaming /\ z \in Queues
    BY <1>2 DEF SameQueues, QOK
  <2>2. CASE e.kind = "start"
    <3>1. q' = [z EXCEPT !.streaming = q.streaming \cup {r}]
      BY <1>3, <2>1, <2>2 DEF Note
    <3> QED
      BY <2>2, <3>1
  <2>3. CASE e.kind = "end"
    <3>1. q' = [z EXCEPT !.streaming = q.streaming \ {r}]
      BY <1>3, <2>1, <2>3 DEF Note
    <3> QED
      BY <2>3, <3>1
  <2>4. CASE e.kind # "start" /\ e.kind # "end"
    <3>1. q' = [z EXCEPT !.streaming = q.streaming]
      BY <1>3, <2>1, <2>4 DEF Note, Queues
    <3> QED
      BY <2>4, <3>1
  <2> QED
    BY <2>2, <2>3, <2>4
<1>5. /\ q'.prio = q.prio /\ q'.streaming = st /\ q'.epoch = q.epoch /\ q'.lastTs = q.lastTs
      /\ q'.held = q.held /\ q'.of[r] = q.of[r] \ {e} /\ \A s \in Roles \ {r} : q'.of[s] = q.of[s]
  <2>1. z \in Queues
    BY <1>2 DEF QOK
  <2>2. /\ q'.prio = z.prio /\ q'.streaming = st /\ q'.epoch = z.epoch /\ q'.lastTs = z.lastTs
        /\ q'.held = z.held /\ q'.of = z.of
    BY <1>4, <2>1 DEF Queues
  <2> QED
    BY <1>2, <2>2 DEF SameQueues
<1>6. StreamOK(q.of[r], q.epoch[r], q.lastTs[r], q.held[r], role[r], c, Owed(q.prio, r))
  BY <1>1 DEF StreamInv, AllStreams, Streams
<1>7. d \in Listeners /\ d.active = c.active
      /\ StreamOK(q.of[r] \ {e}, q.epoch[r], q.lastTs[r], q.held[r], role[r], d, Owed(q.prio, r))
  <2>1. q.of[r] \in SUBSET Entries /\ q.epoch[r] \in Nat
    BY <1>1, QueueTypes
  <2>2. \A f, g \in q.of[r] : f.seq = g.seq => f = g
    BY <1>1 DEF QOK, Numbered
  <2>3. e \in q.of[r] /\ Counts(e, q.epoch[r]) /\ \A f \in q.of[r] \ {e} : Before(e, f)
    OBVIOUS
  <2> HIDE DEF r, c, d
  <2>7. PICK last, hs, owed : last = q.lastTs[r] /\ hs = q.held[r] /\ owed = Owed(q.prio, r)
    OBVIOUS
  <2>4. PICK es \in SUBSET Entries, ep \in Nat, v \in Views, b \in Listeners :
             es = q.of[r] /\ ep = q.epoch[r] /\ v = role[r] /\ b = c
    BY <1>1, <2>1
  <2>5. StreamOK(es, ep, last, hs, v, b, owed) /\ e \in es /\ Counts(e, ep) /\ (\A f \in es \ {e} : Before(e, f))
        /\ \A f, g \in es : f.seq = g.seq => f = g
    BY <1>6, <2>2, <2>3, <2>4, <2>7
  <2>6. Told(b, e) \in Listeners /\ Told(b, e).active = b.active
         /\ StreamOK(es \ {e}, ep, last, hs, v, Told(b, e), owed)
         /\ (e.kind = "chunk" => b.open)
    BY <1>1, <2>5, HeadSent
  <2> QED
    BY <2>4, <2>6, <2>7 DEF d
<1>8. d.open <=> r \in st
  <2>1. c.open <=> r \in q.streaming
    BY <1>1 DEF StreamInv, StreamingOK
  <2>2. CASE e.kind = "start"
    BY <1>1, <1>4, <2>2 DEF Told, Listeners
  <2>3. CASE e.kind = "end"
    BY <1>1, <1>4, <2>3 DEF Told, Listeners
  <2>4. CASE e.kind = "clear"
    BY <1>1, <1>4, <2>1, <2>4 DEF Told, Listeners
  <2>5. CASE e.kind = "chunk"
    <3>1. d.open = c.open
      BY <1>1, <2>5 DEF Told, Listeners
    <3> QED
      BY <1>4, <2>1, <2>5, <3>1
  <2> QED
    BY <2>2, <2>3, <2>4, <2>5 DEF Entries, Kinds
<1>9. c.active
  <2>1. role[r].active
    BY <1>6 DEF StreamOK, Ended
  <2> QED
    BY <1>1, <2>1 DEF SentActive
<1>10. client' = [client EXCEPT ![r] = d]
  <2>1. e.kind # "other" /\ e.kind # "activate"
    BY DEF Entries, Kinds
  <2> HIDE DEF d
  <2>2. client' = [client EXCEPT ![r] = [d EXCEPT !.stray = @ \cup {}]]
    BY <1>3, <1>9, <2>1 DEF Receive, d
  <2>3. [d EXCEPT !.stray = @ \cup {}] = d
    BY <1>7 DEF Listeners
  <2> QED
    BY <2>2, <2>3
<1>11. Streams(q', r, role[r], d)
  BY <1>5, <1>7 DEF Streams
<1> HIDE DEF r, c, d
<1>12. Streams(q', r, w, d)
  <2>1. SameQueue(q', q', r) /\ w.active = role[r].active /\ w.started = role[r].started /\ w.hold = role[r].hold
        /\ w.n = role[r].n
    BY DEF SameQueue, SameView, r
  <2> QED
    BY <1>11, <2>1, StreamsAlike
<1>13. \A s \in Roles \ {r} : SameQueue(q, q', s) /\ (s \in q'.streaming <=> s \in q.streaming)
  BY <1>4, <1>5 DEF SameQueue
<1>14. w.active = role[r].active /\ role' = [role EXCEPT ![r] = w] /\ d.active = client[r].active /\ act' = act
       /\ (d.open <=> r \in q'.streaming) /\ q'.prio = q.prio
  BY <1>5, <1>7, <1>8 DEF SameView, r, c
<1> QED
  BY <1>1, <1>7, <1>10, <1>12, <1>13, <1>14, RoleStreams

LEMMA ProcessChunkStreams ==
  ASSUME WriterInv, StreamInv, ~q.broken, SentActive, NEW y, QOK(y), SameQueues(q, y), NEW e \in Entries,
         e \in q.of[e.role], e.kind = "chunk", Counts(e, q.epoch[e.role]), \A f \in q.of[e.role] \ {e} : Before(e, f),
         ProcessChunk(y, e), UNCHANGED act
  PROVE  StreamInv'
<1> DEFINE r == e.role
           w == [role[r] EXCEPT !.since = SinceOf(r)]
           wait == TimeUntilCapacity(Prune(track[r]))
<1>1. r \in Roles /\ role \in [Roles -> Views] /\ y \in Queues /\ role[r] \in Views
  BY DEF Entries, WriterInv, WriterTypes, QOK
<1>2. role' = [role EXCEPT ![r] = w] /\ SameView(role[r], w)
  BY <1>1 DEF ProcessChunk, SameView, Views
<1> HIDE DEF w
<1>3. CASE q' = ScheduleHead(DiscardHead(y, e), r) /\ UNCHANGED client
  BY <1>2, <1>3, DroppedStreams
<1>4. CASE q' = Block(y, r, wait) /\ UNCHANGED client
  <2>1. q'.prio = q.prio /\ q'.streaming = q.streaming /\ \A s \in Roles : SameQueue(q, q', s)
    BY <1>1, <1>4 DEF Block, Queues, SameQueue, SameQueues
  <2>2. \A s \in Roles : SameView(role[s], role'[s]) /\ SameShow(client[s], client'[s]) /\ client'[s].active = client[s].active
    BY <1>1, <1>2, <1>4 DEF SameView, SameShow
  <2>3. client' \in [Roles -> Listeners]
    BY <1>4 DEF StreamInv
  <2> QED
    BY <2>1, <2>2, <2>3, StillStreams
<1>5. CASE Transmit(y, e)
  BY <1>2, <1>5, TransmitStreams
<1> QED
  BY <1>3, <1>4, <1>5 DEF ProcessChunk

LEMMA ServeRoleStreams ==
  ASSUME WriterInv, StreamInv, ServeRole
  PROVE  StreamInv'
<1> DEFINE x == Promote(q)
           e == NextEntry(x)
           y == Popped(x, e)
<1>1. /\ QOK(q) /\ now \in Nat /\ Serviceable(x) # {} /\ act.pc # "announce" /\ ~q.broken /\ act' = act
      /\ role \in [Roles -> Views]
  BY DEF WriterInv, WriterTypes, ServeRole, Writing
<1>2. \/ /\ e.kind = "chunk" /\ e.epoch /= q.epoch[e.role]
         /\ Skip(y, e)
      \/ /\ e.kind = "chunk" /\ e.epoch = q.epoch[e.role]
         /\ ProcessChunk(y, e)
      \/ /\ e.kind /= "chunk"
         /\ Transmit(y, e)
         /\ UNCHANGED <<role, track>>
  BY DEF ServeRole, NextEntry
<1>3. QOK(x) /\ SameQueues(q, x)
  BY <1>1, PromoteLooks, PromoteSame DEF Looks, SameQueues
<1> HIDE DEF x
<1>4. /\ e \in Entries /\ e.role \in Serviceable(x) /\ e.role \in Roles /\ e \in x.of[e.role]
      /\ \A f \in x.of[e.role] \ {e} : Before(e, f)
  BY <1>1, <1>3, NextEntryIs
<1> HIDE DEF e
<1>5. QOK(y) /\ SameQueues(x, y)
  <2>1. QOK(y) /\ y = [x EXCEPT !.ready = y.ready] /\ x \in Queues
    BY <1>3, <1>4, PoppedLooks DEF Looks, QOK
  <2> HIDE DEF y
  <2> QED
    BY <2>1 DEF SameQueues, Queues
<1> HIDE DEF y
<1>6. SameQueues(q, y) /\ e \in q.of[e.role] /\ \A f \in q.of[e.role] \ {e} : Before(e, f)
  BY <1>3, <1>4, <1>5 DEF SameQueues
<1>7. SentActive
  BY <1>1 DEF StreamInv, PrioOK
<1>8. SameView(role[e.role], role[e.role]) /\ role = [role EXCEPT ![e.role] = role[e.role]]
  BY <1>1, <1>4 DEF SameView
<1>9. CASE Skip(y, e) /\ e.kind = "chunk"
  <2>1. q' = ScheduleHead(DiscardHead(y, e), e.role) /\ UNCHANGED <<client, act>> /\ role' = [role EXCEPT ![e.role] = role[e.role]]
    BY <1>1, <1>8, <1>9 DEF Skip
  <2> QED
    BY <1>1, <1>4, <1>5, <1>6, <1>8, <1>9, <2>1, DroppedStreams
<1>10. CASE e.kind = "chunk" /\ e.epoch = q.epoch[e.role] /\ ProcessChunk(y, e)
  <2>1. Counts(e, q.epoch[e.role])
    BY <1>10 DEF Counts
  <2> QED
    BY <1>1, <1>4, <1>5, <1>6, <1>7, <1>10, <2>1, ProcessChunkStreams
<1>11. CASE e.kind # "chunk" /\ Transmit(y, e) /\ UNCHANGED role
  <2>1. Counts(e, q.epoch[e.role]) /\ role' = [role EXCEPT ![e.role] = role[e.role]]
    BY <1>8, <1>11 DEF Counts
  <2> QED
    BY <1>1, <1>4, <1>5, <1>6, <1>7, <1>8, <1>11, <2>1, TransmitStreams
<1> QED
  BY <1>2, <1>9, <1>10, <1>11

LEMMA StreamInvInit ==
  ASSUME Init
  PROVE  StreamInv
<1>1. \A r \in Roles : role[r] = [active |-> TRUE, hold |-> FALSE, started |-> FALSE, n |-> 0, since |-> None]
      /\ client[r] = [active |-> TRUE, open |-> FALSE, n |-> 0, device |-> {}, stray |-> {}]
      /\ q.of[r] = {} /\ q.held[r] = <<>>
  BY DEF Init
<1>2. client \in [Roles -> Listeners]
  <2>1. [active |-> TRUE, open |-> FALSE, n |-> 0, device |-> {}, stray |-> {}] \in Listeners
    BY DEF Listeners
  <2> QED
    BY <2>1 DEF Init
<1>3. q.prio = <<>> /\ q.streaming = {} /\ act.pc = "idle"
  BY DEF Init
<1>4. StreamingOK
  BY <1>1, <1>3 DEF StreamingOK
<1>5. PrioOK
  <2>1. Len(q.prio) = 0
    BY <1>3
  <2>2. OnlyOthers(q.prio, 0)
    BY <2>1 DEF OnlyOthers
  <2> QED
    BY <1>1, <2>2 DEF PrioOK, SentActive
<1>6. ASSUME NEW r \in Roles PROVE Streams(q, r, role[r], client[r])
  <2>1. InOrder(q.of[r], q.epoch[r], q.lastTs[r])
    BY <1>1 DEF InOrder
  <2>2. Follows(q.of[r], q.epoch[r], role[r], client[r])
    BY <1>1 DEF Follows
  <2>3. HeldFit(q.held[r], q.epoch[r], role[r])
    <3>1. Len(q.held[r]) = 0
      BY <1>1
    <3> QED
      BY <3>1 DEF HeldFit
  <2>4. Ended(q.of[r], role[r], client[r], Owed(q.prio, r))
    BY <1>1 DEF Ended
  <2> QED
    BY <2>1, <2>2, <2>3, <2>4 DEF Streams, StreamOK
<1> QED
  BY <1>2, <1>3, <1>4, <1>5, <1>6 DEF StreamInv, AllStreams

LEMMA StreamInvNext ==
  ASSUME WriterInv, StreamInv, Next
  PROVE  StreamInv'
<1>1. ASSUME NEW r \in Roles, NEW d \in 0..Ahead, AudioChunk(r, now + d)
      PROVE  StreamInv'
  <2>1. now + d \in Nat
    BY WriterAssumption DEF WriterInv, WriterTypes
  <2> QED
    BY <1>1, <2>1, AudioChunkStreams
<1>2. ASSUME NEW r \in Roles, StreamStart(r) \/ StreamClear(r) \/ StreamEnd(r) \/ ReleaseRole(r)
      PROVE  StreamInv'
  BY <1>2, StreamStartStreams, StreamClearStreams, StreamEndStreams, ReleaseRoleStreams
<1>3. CASE PriorityMessage \/ SendPriorityMessage \/ ServeRole \/ Sent \/ WaitForWork \/ WakeUp
  BY <1>3, PriorityMessageStreams, SendPriorityMessageStreams, ServeRoleStreams, SentStreams, WaitForWorkStreams,
     WakeUpStreams
<1>4. ASSUME NEW rs \in SUBSET Roles, Activate(rs)
      PROVE  StreamInv'
  BY <1>4, ActivateStreams
<1>5. CASE WriterPaused \/ Drain \/ SendActivation \/ Resume \/ Tick
  BY <1>5, WriterPausedStreams, DrainStreams, SendActivationStreams, ResumeStreams, TickStreams
<1> QED
  BY <1>1, <1>2, <1>3, <1>4, <1>5 DEF Next

\* The bounds of the model.
Bounds == now \in 0..MaxNow /\ ops \in 0..MaxOps

LEMMA BoundsNext ==
  ASSUME WriterInv, Bounds, Next
  PROVE  Bounds'
<1>1. now' = now \/ (now < MaxNow /\ now' = now + 1)
  BY DEF Next, StreamStart, AudioChunk, StreamClear, StreamEnd, ReleaseRole, PriorityMessage, SendPriorityMessage,
         ServeRole, Sent, WaitForWork, WakeUp, Activate, WriterPaused, Drain, SendActivation, Resume, Tick
<1>2. ops' = ops \/ (ops < MaxOps /\ ops' = ops + 1)
  BY DEF Next, StreamStart, AudioChunk, StreamClear, StreamEnd, ReleaseRole, PriorityMessage, SendPriorityMessage,
         ServeRole, Sent, WaitForWork, WakeUp, Activate, WriterPaused, Drain, SendActivation, Resume, Tick, CanCall
<1> QED
  BY <1>1, <1>2, WriterAssumption DEF Bounds

\* What the invariant of the streams says of a client, and of one that has been sent everything.
LEMMA StreamInvTells ==
  ASSUME WriterInv, StreamInv, Bounds
  PROVE  TypeOK /\ InStream /\ Settled
<1>1. TypeOK
  BY DEF TypeOK, Bounds, WriterInv, WriterTypes, QOK, Bounded, Numbered
<1>2. InStream
  BY DEF InStream, StreamInv, Listeners
<1>3. Settled
  <2> SUFFICES ASSUME ~q.broken, q.prio = <<>>, NEW r \in Roles, q.of[r] = {}, role[r].active
        PROVE  client[r].open <=> role[r].started
    BY DEF Settled
  <2>1. StreamOK({}, q.epoch[r], q.lastTs[r], q.held[r], role[r], client[r], Owed(q.prio, r))
    BY DEF StreamInv, AllStreams, Streams
  <2>2. ~Owed(q.prio, r)
    BY DEF Owed
  <2>3. role[r].started => client[r].open
    BY <2>1 DEF StreamOK, Follows
  <2>4. client[r].open => role[r].started
    BY <2>1, <2>2 DEF StreamOK, Ended, NoEnd
  <2>5. client[r] \in Listeners /\ role[r] \in Views
    BY DEF StreamInv, WriterInv, WriterTypes
  <2> QED
    BY <2>3, <2>4, <2>5 DEF Listeners, Views
<1> QED
  BY <1>1, <1>2, <1>3

\* The inductive invariant of the streams: what counts in a role's queue is in the order of the calls, the
\* client is behind the role by exactly what is queued, an end that is owed is queued or among the messages
\* that go ahead, and those are led by the ends of the roles that retire (send_role_message, send_binary,
\* drop_pending_binary, _supersede_queued_stream, _discard_role_queue, _activate, _process_role_messages).
THEOREM StreamInvHolds == MCSpec => [](StreamInv /\ Bounds)
<1>1. MCInit => StreamInv /\ Bounds
  <2>1. Init => Bounds
    BY WriterAssumption DEF Init, Bounds
  <2> QED
    BY <2>1, StreamInvInit DEF MCInit
<1>2. WriterInv /\ (StreamInv /\ Bounds) /\ [MCNext]_<<which, vars, scheduled>> => (StreamInv /\ Bounds)'
  <2> SUFFICES ASSUME WriterInv, StreamInv, Bounds, [MCNext]_<<which, vars, scheduled>>
        PROVE  StreamInv' /\ Bounds'
    OBVIOUS
  <2>1. CASE Next
    BY <2>1, StreamInvNext, BoundsNext
  <2>2. CASE UNCHANGED vars
    <3>1. Bounds' /\ UNCHANGED <<q, role, client, act>>
      BY <2>2 DEF vars, Bounds
    <3>2. CASE q.broken
      BY <3>1, <3>2, BrokenStreams
    <3>3. CASE ~q.broken
      BY <3>1, <3>3, UntouchedStreams
    <3> QED
      BY <3>1, <3>2, <3>3
  <2> QED
    BY <2>1, <2>2 DEF MCNext
<1> QED
  BY <1>1, <1>2, WriterInvHolds, PTL DEF MCSpec

\* Whatever the roles call, and however their calls fall between the writer's steps, audio reaches the
\* client only inside the stream it was made for, nothing of a role while it is not active, and when all is
\* sent the client has a stream open exactly where the role has.
THEOREM AudioStaysInItsStream == MCSpec => []OnlyTheStream
<1>1. WriterInv /\ StreamInv /\ Bounds => OnlyTheStream
  BY StreamInvTells DEF OnlyTheStream
<1> QED
  BY <1>1, WriterInvHolds, StreamInvHolds, PTL

-----------------------------------------------------------------------------
(* The client's buffer: the inductive invariant.                             *)

\* Every chunk in the buffer is one of those the tracker counts.
Counted(dev, ends) ==
    \E h : \A d \in dev : \E i \in 1..Len(ends) : h[i] = d /\ d.end = ends[i]

\* The buffer and the tracker are within their bound, and what was played is gone.
Room(dev, ends) ==
    /\ IsFiniteSet(dev) /\ Cardinality(dev) <= Capacity /\ Len(ends) <= Capacity
    /\ \A d \in dev : d.end > now

SendingOK == \A r \in Roles : track[r].sending => writer.pc = "send" /\ writer.role = r

Accounted(x, r, dev, ends) == Counted(dev, ends) \/ WillEmpty(x, r)

\* A tracker that was reset counts nothing while the buffer is full; but then the buffer will be emptied
\* before the next chunk.
BufferInv ==
    /\ SendingOK
    /\ \A r \in Roles : Room(client[r].device, track[r].ends)
    /\ ~q.broken => \A r \in Roles : Accounted(q, r, client[r].device, track[r].ends)

LEMMA FewerFit ==
  ASSUME NEW dev, NEW ends, Room(dev, ends), NEW less \in SUBSET dev, NEW es, Len(es) \in Nat, Len(ends) \in Nat,
         Len(es) <= Len(ends)
  PROVE  Room(less, es)
<1>1. IsFiniteSet(less) /\ Cardinality(less) <= Cardinality(dev) /\ Cardinality(dev) \in Nat /\ Cardinality(less) \in Nat
  BY FS_Subset, FS_CardinalityType DEF Room
<1> QED
  BY <1>1, WriterAssumption DEF Room

LEMMA CountedFit ==
  ASSUME NEW dev, NEW ends \in Seq(Nat), Counted(dev, ends)
  PROVE  IsFiniteSet(dev) /\ Cardinality(dev) <= Len(ends)
<1>1. PICK h : \A d \in dev : \E i \in 1..Len(ends) : h[i] = d /\ d.end = ends[i]
  BY DEF Counted
<1>2. PICK n \in Nat : n = Len(ends)
  OBVIOUS
<1> DEFINE from == {i \in 1..n : h[i] \in dev}
           f == [i \in from |-> h[i]]
<1>3. f \in Surjection(from, dev)
  <2>1. f \in [from -> dev]
    OBVIOUS
  <2>2. \A d \in dev : \E i \in from : f[i] = d
    BY <1>1, <1>2
  <2> HIDE DEF f, from
  <2> QED
    BY <2>1, <2>2 DEF Surjection
<1>4. IsFiniteSet(from) /\ Cardinality(from) <= n /\ Cardinality(from) \in Nat
  <2>1. IsFiniteSet(1..n) /\ Cardinality(1..n) = n
    BY FS_Interval
  <2>2. from \in SUBSET (1..n)
    OBVIOUS
  <2> HIDE DEF from
  <2> QED
    BY <2>1, <2>2, FS_Subset, FS_CardinalityType
<1> HIDE DEF f, from
<1>5. IsFiniteSet(dev) /\ Cardinality(dev) <= Cardinality(from)
  BY <1>3, <1>4, FS_Surjection
<1>6. Cardinality(dev) \in Nat
  BY <1>5, FS_CardinalityType
<1> QED
  BY <1>2, <1>4, <1>5, <1>6

LEMMA CountedFewer ==
  ASSUME NEW dev, NEW ends, Counted(dev, ends), NEW less \in SUBSET dev
  PROVE  Counted(less, ends)
  BY DEF Counted

LEMMA FromFirst ==
  ASSUME NEW s \in Seq(Nat), NEW n \in Nat, n = Len(s), NEW first \in 1..(n + 1)
  PROVE  /\ Len(SubSeq(s, first, n)) = n - first + 1
         /\ \A j \in 1..n : j <= n - first + 1 => SubSeq(s, first, n)[j] = s[j + first - 1]
  OBVIOUS

\* What was played does not count any more.
LEMMA CountedPruned ==
  ASSUME NEW t \in Trackers, now \in Nat, NEW dev, Counted(dev, t.ends), \A d \in dev : d.end > now,
         NEW p, p = Prune(t)
  PROVE  Counted(dev, p.ends)
<1>1. PICK h : \A d \in dev : \E i \in 1..Len(t.ends) : h[i] = d /\ d.end = t.ends[i]
  BY DEF Counted
<1>2. PICK n \in Nat : n = Len(t.ends) /\ \A i \in 1..n : t.ends[i] \in Nat
  BY DEF Trackers
<1>3. PICK first \in 1..(n + 1) :
            /\ p = [t EXCEPT !.ends = SubSeq(t.ends, first, n)]
            /\ \A i \in 1..(first - 1) : t.ends[i] <= now
  BY <1>2, PruneIs
<1> DEFINE es == SubSeq(t.ends, first, n)
           g == [j \in 1..Len(es) |-> h[j + first - 1]]
<1>4. p.ends = es
  BY <1>3 DEF Trackers
<1>5. \A i \in 1..n : i >= first => i - first + 1 \in 1..Len(es) /\ es[i - first + 1] = t.ends[i] /\ g[i - first + 1] = h[i]
  <2> SUFFICES ASSUME NEW i \in 1..n, i >= first
        PROVE i - first + 1 \in 1..Len(es) /\ es[i - first + 1] = t.ends[i] /\ g[i - first + 1] = h[i]
    OBVIOUS
  <2>1. PICK s \in Seq(Nat) : s = t.ends
    BY DEF Trackers
  <2>2. PICK j \in 1..n : j = i - first + 1 /\ j + first - 1 = i
    OBVIOUS
  <2>3. Len(SubSeq(s, first, n)) = n - first + 1 /\ SubSeq(s, first, n)[j] = s[j + first - 1]
    <3>1. j <= n - first + 1
      BY <2>2
    <3> QED
      BY <1>2, <2>1, <3>1, FromFirst
  <2>4. j \in 1..Len(es) /\ es[j] = t.ends[i]
    BY <2>1, <2>2, <2>3
  <2> HIDE DEF es
  <2> QED
    BY <2>2, <2>4
<1>6. ASSUME NEW d \in dev PROVE \E j \in 1..Len(es) : g[j] = d /\ d.end = es[j]
  <2>1. PICK i \in 1..n : h[i] = d /\ d.end = t.ends[i]
    BY <1>1, <1>2
  <2>2. i >= first
    <3> SUFFICES ASSUME ~(i >= first) PROVE FALSE
      OBVIOUS
    <3>1. i \in 1..(first - 1)
      OBVIOUS
    <3>2. t.ends[i] <= now /\ t.ends[i] > now /\ t.ends[i] \in Nat
      BY <1>2, <1>3, <2>1, <3>1
    <3> QED
      BY <3>2
  <2> HIDE DEF es, g
  <2> QED
    BY <1>5, <2>1, <2>2
<1>7. Counted(dev, es)
  <2> HIDE DEF es, g
  <2> QED
    BY <1>6 DEF Counted
<1> QED
  BY <1>4, <1>7

LEMMA PruneFewer ==
  ASSUME NEW t \in Trackers, now \in Nat, NEW p, p = Prune(t)
  PROVE  /\ p \in Trackers /\ Len(p.ends) \in Nat /\ Len(p.ends) <= Len(t.ends)
         /\ ~t.sending /\ Len(p.ends) > 0 => p.ends[1] > now
<1>1. PICK n \in Nat : n = Len(t.ends) /\ \A i \in 1..n : t.ends[i] \in Nat
  BY DEF Trackers
<1>2. PICK first \in 1..(n + 1) :
            /\ p = [t EXCEPT !.ends = SubSeq(t.ends, first, n)]
            /\ p \in Trackers
            /\ first <= n /\ ~t.sending => t.ends[first] > now
  BY <1>1, PruneIs
<1>3. PICK s \in Seq(Nat) : s = t.ends
  BY DEF Trackers
<1>4. p.ends = SubSeq(s, first, n)
  BY <1>2, <1>3 DEF Trackers
<1>5. Len(p.ends) = n - first + 1 /\ (1 <= n - first + 1 => p.ends[1] = s[1 + first - 1])
  <2>1. 1 <= n - first + 1 => 1 \in 1..n
    OBVIOUS
  <2> QED
    BY <1>1, <1>3, <1>4, <2>1, FromFirst
<1>6. n - first + 1 \in Nat /\ n - first + 1 <= n /\ 1 + first - 1 = first /\ (n - first + 1 > 0 => 1 <= n - first + 1 /\ first <= n)
  OBVIOUS
<1> QED
  BY <1>1, <1>2, <1>3, <1>5, <1>6

\* No wait: there is room for one more chunk.
LEMMA NoWaitIsRoom ==
  ASSUME NEW t \in Trackers, now \in Nat, TimeUntilCapacity(t) = 0, Len(t.ends) > 0 => t.ends[1] > now
  PROVE  Len(t.ends) + 1 <= Capacity
<1> DEFINE over == Len(t.ends) + 1 - Capacity
<1>1. Len(t.ends) \in Nat /\ over \in Int /\ over <= Len(t.ends) /\ \A i \in 1..Len(t.ends) : t.ends[i] \in Nat
  BY WriterAssumption DEF Trackers
<1> SUFFICES ASSUME ~(over <= 0) PROVE FALSE
  BY <1>1, WriterAssumption
<1> DEFINE f == [i \in 1..over |-> t.ends[i] - now]
           best == Max({f[j] : j \in 1..over})
<1>2. over \in Nat \ {0} /\ 1 \in 1..over /\ \A i \in 1..over : t.ends[i] \in Nat
  BY <1>1
<1>3. f \in [1..over -> Int]
  BY <1>2
<1>4. PICK i \in 1..over : \A j \in 1..over : f[i] >= f[j]
  <2> HIDE DEF f, over
  <2> QED
    BY <1>2, <1>3, MaxOfRange
<1>5. \E m \in {f[j] : j \in 1..over} : \A k \in {f[j] : j \in 1..over} : m >= k
  BY <1>4
<1>6. best \in {f[j] : j \in 1..over} /\ \A k \in {f[j] : j \in 1..over} : best >= k
  BY <1>5 DEF Max
<1>7. best >= f[1]
  <2> HIDE DEF f, over, best
  <2> QED
    BY <1>2, <1>6
<1>8. f[1] = t.ends[1] - now /\ t.ends[1] > now
  BY <1>1, <1>2
<1>9. {t.ends[j] - now : j \in 1..over} = {f[j] : j \in 1..over}
  OBVIOUS
<1>10. TimeUntilCapacity(t) = best
  BY <1>9 DEF TimeUntilCapacity
<1>11. best \in Int
  BY <1>3, <1>6
<1> HIDE DEF f, over, best
<1> QED
  BY <1>2, <1>7, <1>8, <1>10, <1>11

\* One more chunk, counted by the tracker.
LEMMA OneMoreCounted ==
  ASSUME NEW dev, NEW ends \in Seq(Nat), Counted(dev, ends), NEW d, NEW end \in Nat, d.end = end,
         NEW more \in SUBSET {d}
  PROVE  Counted(dev \cup more, Append(ends, end))
<1>1. PICK h : \A c \in dev : \E i \in 1..Len(ends) : h[i] = c /\ c.end = ends[i]
  BY DEF Counted
<1>2. PICK n \in Nat : n = Len(ends)
  OBVIOUS
<1> DEFINE es == Append(ends, end)
           g == [i \in 1..(n + 1) |-> IF i = n + 1 THEN d ELSE h[i]]
<1>3. Len(es) = n + 1 /\ es[n + 1] = end /\ \A i \in 1..n : es[i] = ends[i]
  BY <1>2
<1>4. g[n + 1] = d /\ (\A i \in 1..n : g[i] = h[i]) /\ n + 1 \in 1..(n + 1) /\ \A i \in 1..n : i \in 1..(n + 1)
  OBVIOUS
<1> HIDE DEF es, g
<1>5. \A c \in dev \cup more : \E i \in 1..Len(es) : g[i] = c /\ c.end = es[i]
  BY <1>1, <1>2, <1>3, <1>4
<1>6. Counted(dev \cup more, es)
  BY <1>5 DEF Counted
<1> QED
  BY <1>6 DEF es

-----------------------------------------------------------------------------
(* The client's buffer: the steps.                                           *)

\* What a step that sends no chunk of the role does to its account.
Gentle(r) ==
    /\ client'[r].device \subseteq client[r].device
    /\ track'[r].ends = track[r].ends \/ track'[r].ends = <<>>
    /\ ~q'.broken =>
          \/ track'[r].ends = track[r].ends /\ (WillEmpty(q, r) => WillEmpty(q', r))
          \/ WillEmpty(q', r)
          \/ client'[r].device = {}

\* The account after the step, the clock aside.
Fair(r) ==
    /\ Room(client'[r].device, track'[r].ends)
    /\ ~q'.broken => Accounted(q', r, client'[r].device, track'[r].ends)

LEMMA GentleIsFair ==
  ASSUME WriterTypes, BufferInv, ~q.broken \/ q'.broken, NEW r \in Roles, Gentle(r)
  PROVE  Fair(r)
<1> DEFINE dev == client[r].device
           ends == track[r].ends
           less == client'[r].device
           es == track'[r].ends
<1>1. ends \in Seq(Nat) /\ Room(dev, ends) /\ (~q.broken => Accounted(q, r, dev, ends))
  BY DEF WriterTypes, Trackers, BufferInv
<1>2. less \in SUBSET dev /\ (es = ends \/ es = <<>>)
      /\ (~q'.broken => (es = ends /\ (WillEmpty(q, r) => WillEmpty(q', r))) \/ WillEmpty(q', r) \/ less = {})
  BY DEF Gentle
<1> HIDE DEF dev, ends, less, es
<1>3. Len(ends) \in Nat /\ Len(es) \in Nat /\ Len(es) <= Len(ends)
  <2>1. Len(ends) \in Nat /\ Len(<<>>) = 0
    BY <1>1
  <2> QED
    BY <1>2, <2>1
<1>4. Room(less, es)
  BY <1>1, <1>2, <1>3, FewerFit
<1>5. ~q'.broken => Accounted(q', r, less, es)
  <2>1. Counted({}, es)
    BY DEF Counted
  <2>2. Counted(dev, ends) => Counted(less, ends)
    BY <1>2, CountedFewer
  <2> QED
    BY <1>1, <1>2, <2>1, <2>2 DEF Accounted
<1> QED
  BY <1>4, <1>5 DEF Fair, less, es

LEMMA BufferPrimed ==
  ASSUME SendingOK', \A r \in Roles : Fair(r), \A r \in Roles : \A d \in client'[r].device : d.end > now'
  PROVE  BufferInv'
  BY DEF BufferInv, Fair, Room, Accounted, Counted, WillEmpty, Owed, Emptying, Current

LEMMA StepFits ==
  ASSUME WriterTypes, BufferInv, ~q.broken \/ q'.broken, now' = now, SendingOK',
         \A r \in Roles : Gentle(r) \/ Fair(r)
  PROVE  BufferInv'
<1>1. \A r \in Roles : Fair(r)
  BY GentleIsFair
<1>2. \A r \in Roles : \A d \in client'[r].device : d.end > now'
  BY <1>1 DEF Fair, Room
<1> QED
  BY <1>1, <1>2, BufferPrimed

LEMMA EmptySame ==
  ASSUME NEW x, NEW y, NEW r, SameQueue(x, y, r), Owed(x.prio, r) => Owed(y.prio, r), WillEmpty(x, r)
  PROVE  WillEmpty(y, r)
  BY DEF WillEmpty, SameQueue

\* No chunk is sent, and no queue is touched.
LEMMA StillFits ==
  ASSUME WriterTypes, BufferInv, ~q.broken \/ q'.broken, UNCHANGED <<now, client>>, SendingOK',
         \A s \in Roles : track'[s].ends = track[s].ends,
         \A s \in Roles : SameQueue(q, q', s) /\ (Owed(q.prio, s) => Owed(q'.prio, s))
  PROVE  BufferInv'
<1>1. \A s \in Roles : Gentle(s)
  BY EmptySame DEF Gentle
<1> QED
  BY <1>1, StepFits

LEMMA NoneIsSent ==
  ASSUME SendingOK, writer.pc # "send", UNCHANGED track
  PROVE  SendingOK'
  BY DEF SendingOK

LEMMA ResetIs ==
  ASSUME NEW t \in Trackers
  PROVE  ResetTracker(t).ends = <<>> /\ ~ResetTracker(t).sending
  BY DEF ResetTracker, Trackers

\* A call of a role.
LEMMA CallFits ==
  ASSUME WriterTypes, BufferInv, ~q.broken, NEW r \in Roles, UNCHANGED <<now, writer, client>>,
         track' = track \/ track' = [track EXCEPT ![r] = ResetTracker(@)],
         q'.broken \/ (/\ Apart(q, q', r) /\ q'.prio = q.prio
                       /\ \/ track' = track /\ (WillEmpty(q, r) => WillEmpty(q', r))
                          \/ WillEmpty(q', r) \/ client[r].device = {})
  PROVE  BufferInv'
<1>1. track \in [Roles -> Trackers]
  BY DEF WriterTypes
<1>2. \A s \in Roles : /\ track'[s] = track[s] \/ (s = r /\ track'[s].ends = <<>> /\ ~track'[s].sending)
                       /\ s # r => track'[s] = track[s]
  BY <1>1, ResetIs
<1>3. SendingOK'
  BY <1>2 DEF BufferInv, SendingOK
<1>4. ASSUME NEW s \in Roles, s # r PROVE Gentle(s)
  <2>1. ~q'.broken => SameQueue(q, q', s) /\ q'.prio = q.prio
    BY <1>4 DEF Apart
  <2>2. ~q'.broken /\ WillEmpty(q, s) => WillEmpty(q', s)
    BY <2>1, EmptySame
  <2> QED
    BY <1>2, <1>4, <2>2 DEF Gentle
<1>5. Gentle(r)
  BY <1>2 DEF Gentle
<1> QED
  BY <1>3, <1>4, <1>5, StepFits

LEMMA StreamStartFits ==
  ASSUME WriterInv, StreamInv, BufferInv, NEW r \in Roles, StreamStart(r)
  PROVE  BufferInv'
<1>1. WriterTypes /\ QOK(q) /\ now \in Nat /\ role[r] \in Views
  BY DEF WriterInv, WriterTypes
<1>2. ~q.broken /\ role[r].active /\ ~(role[r].hold /\ role[r].started) /\ UNCHANGED <<now, writer, client, track>>
      /\ q' = CallMessage(q, r, "start", role[r].n + 1)
  BY DEF CallMessage, StreamStart, CanCall
<1>3. client[r] \in Listeners /\ Streams(q, r, role[r], client[r])
  BY <1>2 DEF StreamInv, AllStreams
<1>4. q'.broken \/ (Apart(q, q', r) /\ q'.prio = q.prio /\ (WillEmpty(q, r) => WillEmpty(q', r)))
  BY <1>1, <1>2, <1>3, StartDoes
<1> QED
  BY <1>1, <1>2, <1>4, CallFits

LEMMA AudioChunkFits ==
  ASSUME WriterInv, StreamInv, BufferInv, NEW r \in Roles, NEW ts \in Nat, AudioChunk(r, ts)
  PROVE  BufferInv'
<1>1. WriterTypes /\ QOK(q) /\ q \in Queues /\ role[r] \in Views
  BY DEF WriterInv, WriterTypes, QOK
<1>2. ~q.broken /\ role[r].started /\ UNCHANGED <<now, writer, client, track>>
  BY DEF AudioChunk, CanCall
<1>3. client[r] \in Listeners /\ Streams(q, r, role[r], client[r])
  BY <1>2 DEF StreamInv, AllStreams
<1>4. CASE role[r].hold
  <2>1. PICK held : q' = [q EXCEPT !.held = held] /\ \A s \in Roles \ {r} : held[s] = q.held[s]
    <3> DEFINE held == [q.held EXCEPT ![r] = Append(@, [ts |-> ts, n |-> role[r].n, epoch |-> q.epoch[r]])]
    <3>1. q' = [q EXCEPT !.held = held] /\ \A s \in Roles \ {r} : held[s] = q.held[s]
      BY <1>1, <1>4, QueueTypes DEF AudioChunk, Queues
    <3> HIDE DEF held
    <3> QED
      BY <3>1
  <2>2. q'.of = q.of /\ q'.epoch = q.epoch /\ q'.prio = q.prio /\ q'.lastTs = q.lastTs /\ q'.held = held
        /\ q'.streaming = q.streaming
    BY <1>1, <2>1 DEF Queues
  <2>3. Apart(q, q', r) /\ (WillEmpty(q, r) => WillEmpty(q', r))
    BY <2>1, <2>2 DEF Apart, SameQueue, WillEmpty
  <2> QED
    BY <1>1, <1>2, <2>2, <2>3, CallFits
<1>5. CASE ~role[r].hold
  <2>1. q' = SendBinary(q, r, ts, role[r].n)
    BY <1>5 DEF AudioChunk
  <2>2. q'.broken \/ (Apart(q, q', r) /\ q'.prio = q.prio /\ (WillEmpty(q, r) => WillEmpty(q', r)))
    BY <1>1, <1>2, <1>3, <2>1, SendBinaryDoes
  <2> QED
    BY <1>1, <1>2, <2>2, CallFits
<1> QED
  BY <1>4, <1>5

LEMMA StreamClearFits ==
  ASSUME WriterInv, StreamInv, BufferInv, NEW r \in Roles, StreamClear(r)
  PROVE  BufferInv'
<1>1. WriterTypes /\ QOK(q) /\ now \in Nat /\ role[r] \in Views
  BY DEF WriterInv, WriterTypes
<1>2. ~q.broken /\ role[r].started /\ UNCHANGED <<now, writer, client>>
      /\ track' = [track EXCEPT ![r] = ResetTracker(@)]
      /\ q' = CallMessage(q, r, "clear", role[r].n + 1)
  BY DEF CallMessage, StreamClear, CanCall
<1>3. client[r] \in Listeners /\ Streams(q, r, role[r], client[r])
  BY <1>2 DEF StreamInv, AllStreams
<1>4. q'.broken \/ (Apart(q, q', r) /\ q'.prio = q.prio /\ WillEmpty(q', r))
  BY <1>1, <1>2, <1>3, ClearDoes
<1> QED
  BY <1>1, <1>2, <1>4, CallFits

LEMMA StreamEndFits ==
  ASSUME WriterInv, StreamInv, BufferInv, NEW r \in Roles, StreamEnd(r)
  PROVE  BufferInv'
<1>1. WriterTypes /\ QOK(q) /\ now \in Nat /\ role[r] \in Views
  BY DEF WriterInv, WriterTypes
<1>2. ~q.broken /\ role[r].active /\ UNCHANGED <<now, writer, client>>
      /\ track' = [track EXCEPT ![r] = ResetTracker(@)]
      /\ q' = CallMessage(q, r, "end", role[r].n)
  BY DEF CallMessage, StreamEnd, CanCall
<1>3. client[r] \in Listeners /\ Streams(q, r, role[r], client[r]) /\ (client[r].open <=> r \in q.streaming)
  BY <1>2 DEF StreamInv, AllStreams, StreamingOK
<1>4. q'.broken \/ (Apart(q, q', r) /\ q'.prio = q.prio /\ (WillEmpty(q', r) \/ client[r].device = {}))
  BY <1>1, <1>2, <1>3, EndDoes
<1> QED
  BY <1>1, <1>2, <1>4, CallFits

LEMMA ReleaseRoleFits ==
  ASSUME WriterInv, StreamInv, BufferInv, NEW r \in Roles, ReleaseRole(r)
  PROVE  BufferInv'
<1>1. WriterTypes /\ QOK(q) /\ role[r] \in Views
  BY DEF WriterInv, WriterTypes
<1>2. ~q.broken /\ role[r].hold /\ UNCHANGED <<now, writer, client, track>> /\ q' = Flushed(q, r)
  BY DEF ReleaseRole
<1>3. client[r] \in Listeners /\ Streams(q, r, role[r], client[r])
  BY <1>2 DEF StreamInv, AllStreams
<1>4. role[r].active
  BY <1>2, <1>3 DEF Streams, StreamOK, Ended
<1>5. q'.broken \/ (Apart(q, q', r) /\ q'.prio = q.prio /\ (WillEmpty(q, r) => WillEmpty(q', r)))
  BY <1>1, <1>2, <1>3, <1>4, FlushedDoes
<1> QED
  BY <1>1, <1>2, <1>5, CallFits

LEMMA PriorityMessageFits ==
  ASSUME WriterInv, BufferInv, PriorityMessage
  PROVE  BufferInv'
<1> DEFINE e == [NoEntry EXCEPT !.kind = "other"]
<1>1. WriterTypes /\ QOK(q) /\ ~q.broken /\ UNCHANGED <<now, writer, client, track>> /\ q' = SendPriority(q, e)
  BY DEF PriorityMessage, WriterInv
<1>2. e \in Urgent
  BY DEF NoEntry, Urgent, Others
<1> HIDE DEF e
<1>3. q'.broken \/ (/\ q'.prio = Append(q.prio, e) /\ \A s \in Roles : SameQueue(q, q', s))
  BY <1>1, <1>2, SendPriorityDoes
<1>4. ~q'.broken => \A s \in Roles : Owed(q.prio, s) => Owed(q'.prio, s)
  <2> SUFFICES ASSUME ~q'.broken, NEW s \in Roles, Owed(q.prio, s) PROVE Owed(q'.prio, s)
    OBVIOUS
  <2>1. PICK p \in Seq(Urgent) : p = q.prio
    BY <1>1 DEF QOK, Queues
  <2>2. PICK n \in Nat : n = Len(p)
    OBVIOUS
  <2>3. Len(Append(p, e)) = n + 1 /\ \A i \in 1..n : Append(p, e)[i] = p[i]
    <3> HIDE DEF Urgent
    <3> QED
      BY <1>2, <2>2
  <2>4. q'.prio = Append(p, e)
    BY <1>3, <2>1
  <2> QED
    BY <2>1, <2>2, <2>3, <2>4 DEF Owed
<1>5. SendingOK'
  BY <1>1 DEF BufferInv, SendingOK
<1>6. ASSUME NEW s \in Roles PROVE Gentle(s)
  <2>1. ~q'.broken /\ WillEmpty(q, s) => WillEmpty(q', s)
    BY <1>3, <1>4, EmptySame
  <2> QED
    BY <1>1, <2>1 DEF Gentle
<1> QED
  BY <1>1, <1>5, <1>6, StepFits

LEMMA ActivateFits ==
  ASSUME WriterInv, BufferInv, NEW rs \in SUBSET Roles, Activate(rs)
  PROVE  BufferInv'
<1>1. WriterTypes /\ ~q.broken /\ UNCHANGED <<now, track, writer, client>>
  BY DEF Activate, WriterInv
<1>2. SendingOK'
  BY <1>1 DEF BufferInv, SendingOK
<1> QED
  BY <1>1, <1>2, QuietQueues, StillFits

LEMMA WaitForWorkFits ==
  ASSUME WriterInv, BufferInv, WaitForWork
  PROVE  BufferInv'
<1>1. WriterTypes /\ ~q.broken /\ writer.pc = "run" /\ UNCHANGED <<now, track, client>>
  BY DEF WaitForWork, Writing, WriterInv
<1>2. SendingOK'
  BY <1>1, NoneIsSent DEF BufferInv
<1> QED
  BY <1>1, <1>2, QuietQueues, StillFits

LEMMA SentFits ==
  ASSUME WriterInv, BufferInv, Sent
  PROVE  BufferInv'
<1>1. WriterTypes /\ ~q.broken /\ track \in [Roles -> Trackers] /\ UNCHANGED <<now, client>>
  BY DEF Sent, WriterInv, WriterTypes
<1>2. \A s \in Roles : track'[s].ends = track[s].ends /\ ~track'[s].sending
  <2>1. CASE writer.role = None
    <3>1. track' = track /\ \A s \in Roles : ~track[s].sending
      BY <2>1, NoneIsNoRole DEF Sent, BufferInv, SendingOK
    <3> QED
      BY <3>1
  <2>2. CASE writer.role # None
    <3>1. track' = [track EXCEPT ![writer.role].sending = FALSE]
      BY <2>2 DEF Sent
    <3>2. \A s \in Roles : track[s].sending => s = writer.role
      BY DEF BufferInv, SendingOK
    <3> QED
      BY <1>1, <3>1, <3>2 DEF Trackers
  <2> QED
    BY <2>1, <2>2
<1>3. SendingOK'
  BY <1>2 DEF SendingOK
<1> QED
  BY <1>1, <1>2, <1>3, QuietQueues, StillFits

\* The writer is woken or paused, or resumes: nothing is being sent.
LEMMA WriterMovesFits ==
  ASSUME WriterInv, BufferInv, WakeUp \/ WriterPaused \/ Resume
  PROVE  BufferInv'
<1>1. WriterTypes /\ ~q.broken /\ writer.pc # "send" /\ UNCHANGED <<now, q, track, client>>
  BY DEF WakeUp, WriterPaused, Resume, Writing, WriterInv, WriterTypes
<1>2. SendingOK'
  BY <1>1, NoneIsSent DEF BufferInv
<1>3. \A s \in Roles : SameQueue(q, q', s) /\ (Owed(q.prio, s) => Owed(q'.prio, s))
  BY <1>1 DEF SameQueue
<1> QED
  BY <1>1, <1>2, <1>3, StillFits

\* _send_message changes no queue.
LEMMA NoteSame ==
  ASSUME NEW x \in Queues, NEW e, NEW y, y = Note(x, e)
  PROVE  y.prio = x.prio /\ y.of = x.of /\ y.epoch = x.epoch /\ y.lastTs = x.lastTs /\ y.held = x.held
         /\ y.broken = x.broken
<1>1. PICK st : y = [x EXCEPT !.streaming = st]
  <2>1. CASE e.kind = "start"
    BY <2>1 DEF Note
  <2>2. CASE e.kind = "end"
    BY <2>2 DEF Note
  <2>3. CASE e.kind # "start" /\ e.kind # "end"
    <3>1. y = [x EXCEPT !.streaming = x.streaming]
      BY <2>3 DEF Note, Queues
    <3> QED
      BY <3>1
  <2> QED
    BY <2>1, <2>2, <2>3
<1> QED
  BY <1>1 DEF Queues

\* The chunk as the client's buffer has it, if it is not over already.
Slot(e) == [end |-> e.play + 1, seq |-> e.seq]

LEMMA ReceiveDoes ==
  ASSUME client \in [Roles -> Listeners], NEW e \in Entries, client' = Receive(e)
  PROVE  /\ \A s \in Roles \ {e.role} : client'[s].device = client[s].device
         /\ e.kind = "start" => client'[e.role].device = client[e.role].device
         /\ Emptying(e) => client'[e.role].device = {}
         /\ e.kind = "chunk" => client'[e.role].device = client[e.role].device \cup {d \in {Slot(e)} : d.end > now}
<1> DEFINE c == client[e.role]
           idle == IF c.active THEN {} ELSE {e.kind}
           z == Told(c, e)
<1>1. e.role \in Roles /\ e.kind # "other" /\ e.kind # "activate" /\ c \in Listeners
  BY DEF Entries, Kinds
<1>2. client' = [client EXCEPT ![e.role] = [z EXCEPT !.stray = @ \cup idle]]
  BY <1>1 DEF Receive
<1> HIDE DEF z, idle
<1>3. client'[e.role] = [z EXCEPT !.stray = @ \cup idle] /\ \A s \in Roles \ {e.role} : client'[s] = client[s]
  BY <1>1, <1>2
<1>4. ASSUME NEW n, NEW o, NEW dev, NEW stray, z = [c EXCEPT !.n = n, !.open = o, !.device = dev, !.stray = stray]
      PROVE  client'[e.role].device = dev
  BY <1>1, <1>3, <1>4 DEF Listeners
<1>5. CASE e.kind = "start"
  <2>1. z = [c EXCEPT !.open = TRUE, !.n = e.n]
    BY <1>5 DEF z, Told
  <2>2. z = [c EXCEPT !.n = e.n, !.open = TRUE, !.device = c.device, !.stray = c.stray]
    BY <1>1, <2>1 DEF Listeners
  <2> QED
    BY <1>3, <1>4, <1>5, <2>2 DEF Emptying
<1>6. CASE e.kind = "clear"
  <2>1. z = [c EXCEPT !.n = e.n, !.device = {}]
    BY <1>6 DEF z, Told
  <2>2. z = [c EXCEPT !.n = e.n, !.open = c.open, !.device = {}, !.stray = c.stray]
    BY <1>1, <2>1 DEF Listeners
  <2> QED
    BY <1>3, <1>4, <1>6, <2>2
<1>7. CASE e.kind = "end"
  <2>1. z = [c EXCEPT !.open = FALSE, !.device = {}]
    BY <1>7 DEF z, Told
  <2>2. z = [c EXCEPT !.n = c.n, !.open = FALSE, !.device = {}, !.stray = c.stray]
    BY <1>1, <2>1 DEF Listeners
  <2> QED
    BY <1>3, <1>4, <1>7, <2>2
<1>8. CASE e.kind = "chunk"
  <2> DEFINE dev == c.device \cup {d \in {Slot(e)} : d.end > now}
             stray == IF c.open /\ c.n = e.n THEN c.stray ELSE c.stray \cup {"chunk"}
  <2>1. z = [c EXCEPT !.device = dev, !.stray = stray]
    BY <1>8 DEF z, Told, Slot
  <2> HIDE DEF dev, stray
  <2>2. z = [c EXCEPT !.n = c.n, !.open = c.open, !.device = dev, !.stray = stray]
    BY <1>1, <2>1 DEF Listeners
  <2> QED
    BY <1>3, <1>4, <1>8, <2>2 DEF dev, Emptying
<1> QED
  BY <1>1, <1>3, <1>5, <1>6, <1>7, <1>8 DEF Entries, Kinds, Emptying

\* The first of the messages that go ahead.
LEMMA HeadFits ==
  ASSUME WriterInv, StreamInv, BufferInv, ~q.broken, q.prio # <<>>, client' = Receive(Head(q.prio)),
         q' = Note([q EXCEPT !.prio = Tail(@)], Head(q.prio)), UNCHANGED <<now, track>>, SendingOK'
  PROVE  BufferInv'
<1>1. WriterTypes /\ q \in Queues /\ client \in [Roles -> Listeners]
  BY DEF WriterInv, QOK, StreamInv
<1>2. PICK p \in Seq(Urgent) : p = q.prio /\ p # <<>>
  BY <1>1 DEF Queues
<1>3. PICK n \in Nat : Len(p) = n + 1
  <2> HIDE DEF Urgent
  <2>1. Len(p) \in Nat /\ Len(p) # 0
    BY <1>2
  <2>2. Len(p) - 1 \in Nat /\ Len(p) = (Len(p) - 1) + 1
    BY <2>1
  <2> QED
    BY <2>2
<1> DEFINE u == Tail(p)
           e == Head(p)
           x == [q EXCEPT !.prio = u]
<1>4. u \in Seq(Urgent) /\ e \in Urgent /\ e = p[1] /\ Len(u) = n /\ \A i \in 1..n : u[i] = p[i + 1]
  <2> HIDE DEF Urgent
  <2> QED
    BY <1>2, <1>3
<1>5. q' = Note(x, e) /\ client' = Receive(e)
  BY <1>2
<1> HIDE DEF u, e
<1>6. x \in Queues /\ x.prio = u /\ x.of = q.of /\ x.epoch = q.epoch /\ x.lastTs = q.lastTs /\ x.held = q.held
  BY <1>1, <1>4 DEF Queues
<1> HIDE DEF x
<1>7. q'.prio = u /\ \A s \in Roles : SameQueue(q, q', s)
  <2>1. q'.prio = x.prio /\ q'.of = x.of /\ q'.epoch = x.epoch /\ q'.lastTs = x.lastTs /\ q'.held = x.held
    <3>1. PICK y : y = Note(x, e)
      OBVIOUS
    <3>2. y.prio = x.prio /\ y.of = x.of /\ y.epoch = x.epoch /\ y.lastTs = x.lastTs /\ y.held = x.held
      BY <1>6, <3>1, NoteSame
    <3> QED
      BY <1>5, <3>1, <3>2
  <2> QED
    BY <1>6, <2>1 DEF SameQueue
<1>8. ASSUME NEW s \in Roles, Owed(p, s), e.kind # "end" \/ e.role # s PROVE Owed(u, s)
  <2>1. PICK i \in 1..(n + 1) : p[i].kind = "end" /\ p[i].role = s
    BY <1>3, <1>8 DEF Owed
  <2>2. i # 1
    BY <1>4, <1>8, <2>1
  <2>3. i - 1 \in 1..n /\ (i - 1) + 1 = i
    BY <2>2
  <2> QED
    BY <1>4, <2>1, <2>3 DEF Owed
<1>9. e.kind = "other" \/ e.kind = "activate" \/ (e.kind = "end" /\ e \in Entries)
  <2>1. 1 \in 1..Len(p) /\ 1 > 0
    BY <1>3
  <2>2. CASE OnlyOthers(p, 0)
    BY <1>4, <2>1, <2>2 DEF OnlyOthers
  <2>3. ASSUME NEW j \in 1..Len(p), Announced(p, j)
        PROVE  e.kind = "activate" \/ (e.kind = "end" /\ e \in Entries)
    <3>1. j = 1 \/ 1 < j
      BY <1>3
    <3>2. e.kind = "end" => e \in Entries
      BY <1>4 DEF Urgent, Control, Others
    <3> QED
      BY <1>4, <2>1, <2>3, <3>1, <3>2 DEF Announced
  <2> QED
    BY <1>2, <2>2, <2>3 DEF StreamInv, PrioOK
<1>10. ASSUME NEW s \in Roles PROVE Gentle(s)
  <2>1. CASE e.kind = "end" /\ e \in Entries
    <3>1. client'[s].device = IF s = e.role THEN {} ELSE client[s].device
      BY <1>1, <1>5, <2>1, ReceiveDoes DEF Emptying
    <3>2. s # e.role /\ WillEmpty(q, s) => WillEmpty(q', s)
      BY <1>2, <1>7, <1>8, EmptySame
    <3> QED
      BY <3>1, <3>2 DEF Gentle
  <2>2. CASE e.kind = "other" \/ e.kind = "activate"
    <3>1. client'[s].device = client[s].device
      BY <1>1, <1>5, <2>2 DEF Receive, Listeners
    <3>2. WillEmpty(q, s) => WillEmpty(q', s)
      BY <1>2, <1>7, <1>8, <2>2, EmptySame
    <3> QED
      BY <3>1, <3>2 DEF Gentle
  <2> QED
    BY <1>9, <2>1, <2>2
<1> QED
  BY <1>1, <1>10, StepFits

LEMMA SendPriorityMessageFits ==
  ASSUME WriterInv, StreamInv, BufferInv, SendPriorityMessage
  PROVE  BufferInv'
<1>1. writer.pc = "run" /\ ~q.broken /\ q.prio # <<>> /\ UNCHANGED <<now, track>> /\ client' = Receive(Head(q.prio))
      /\ q' = Note([q EXCEPT !.prio = Tail(@)], Head(q.prio))
  BY DEF SendPriorityMessage, Writing
<1>2. SendingOK'
  BY <1>1, NoneIsSent DEF BufferInv
<1> QED
  BY <1>1, <1>2, HeadFits

LEMMA DrainFits ==
  ASSUME WriterInv, StreamInv, BufferInv, Drain
  PROVE  BufferInv'
<1>1. ~q.broken /\ q.prio # <<>> /\ UNCHANGED <<now, track, writer>> /\ client' = Receive(Head(q.prio))
      /\ q' = Note([q EXCEPT !.prio = Tail(@)], Head(q.prio))
  BY DEF Drain
<1>2. SendingOK'
  BY <1>1 DEF BufferInv, SendingOK
<1> QED
  BY <1>1, <1>2, HeadFits

\* A role that retires: its tracker starts over, and the end that empties the buffer goes ahead.
LEMMA SendActivationFits ==
  ASSUME WriterInv, StreamInv, BufferInv, SendActivation
  PROVE  BufferInv'
<1> DEFINE gone == Retiring(act.roles)
           msg == ActivateEntry(act.roles)
<1>1. WriterTypes /\ ~q.broken /\ q.prio = <<>> /\ AllStreams /\ msg \in Urgent
      /\ UNCHANGED <<now, writer, client>> /\ (q'.broken \/ \E x : Announces(q, x, act.roles))
      /\ track \in [Roles -> Trackers]
  BY ActivationSends DEF WriterInv, WriterTypes, SendActivation
<1>2. track' = [r \in Roles |-> IF r \in gone THEN ResetTracker(track[r]) ELSE track[r]]
  BY DEF SendActivation
<1>3. \A r \in Roles : IF r \in gone THEN track'[r].ends = <<>> /\ ~track'[r].sending ELSE track'[r] = track[r]
  BY <1>1, <1>2, ResetIs
<1>4. SendingOK'
  BY <1>1, <1>3 DEF BufferInv, SendingOK
<1> HIDE DEF gone, msg
<1>5. ASSUME ~q'.broken, NEW r \in Roles
      PROVE  IF r \in gone THEN Owed(q'.prio, r) \/ client[r].device = {} ELSE WillEmpty(q, r) => WillEmpty(q', r)
  <2>1. PICK x : Announces(q, x, act.roles)
    BY <1>1, <1>5
  <2>2. PICK p \in Seq(Urgent) : p = x.prio
    BY <2>1 DEF Announces
  <2>3. PICK n \in Nat : n = Len(p)
    OBVIOUS
  <2>4. q'.prio = Append(p, msg)
    BY <2>1, <2>2 DEF Announces, msg
  <2>5. Len(Append(p, msg)) = n + 1 /\ \A i \in 1..n : Append(p, msg)[i] = p[i]
    <3> HIDE DEF Urgent
    <3> QED
      BY <1>1, <2>3
  <2>6. Owed(p, r) => Owed(q'.prio, r)
    BY <2>3, <2>4, <2>5 DEF Owed
  <2>7. AllLeft(q, x, gone) /\ SameQueue(x, q', r)
    BY <2>1 DEF Announces, gone
  <2>8. CASE r \in gone
    <3>1. client[r].open => Owed(q'.prio, r)
      BY <2>2, <2>6, <2>7, <2>8 DEF AllLeft
    <3>2. ~client[r].open => client[r].device = {}
      BY <1>1 DEF AllStreams, Streams, StreamOK, Ended
    <3> QED
      BY <2>8, <3>1, <3>2
  <2>9. CASE r \notin gone
    <3>1. SameQueue(q, q', r)
      BY <2>7, <2>9 DEF AllLeft, SameQueue
    <3>2. ~Owed(q.prio, r)
      BY <1>1 DEF Owed
    <3> QED
      BY <2>9, <3>1, <3>2, EmptySame
  <2> QED
    BY <2>8, <2>9
<1>6. ASSUME NEW r \in Roles PROVE Gentle(r)
  <2>1. ~q'.broken /\ Owed(q'.prio, r) => WillEmpty(q', r)
    BY DEF WillEmpty
  <2> QED
    BY <1>1, <1>3, <1>5, <2>1 DEF Gentle
<1> QED
  BY <1>1, <1>4, <1>6, StepFits

LEMMA TickFits ==
  ASSUME WriterInv, StreamInv, BufferInv, Tick
  PROVE  BufferInv'
<1>1. WriterTypes /\ now \in Nat /\ client \in [Roles -> Listeners] /\ UNCHANGED <<q, track, writer>> /\ now' = now + 1
      /\ client' = [r \in Roles |-> [client[r] EXCEPT !.device = {d \in @ : d.end > now + 1}]]
  BY DEF Tick, StreamInv, WriterInv, WriterTypes
<1>2. \A r \in Roles : client'[r].device = {d \in client[r].device : d.end > now + 1}
  BY <1>1 DEF Listeners
<1>3. SendingOK'
  BY <1>1 DEF BufferInv, SendingOK
<1>4. ASSUME NEW r \in Roles PROVE Gentle(r)
  BY <1>1, <1>2 DEF Gentle
<1>5. \A r \in Roles : Fair(r)
  <2>1. ~q.broken \/ q'.broken
    BY <1>1
  <2> QED
    BY <1>1, <1>4, <2>1, GentleIsFair
<1> QED
  BY <1>1, <1>2, <1>3, <1>5, BufferPrimed

\* An entry that does not empty the buffer leaves its queue.
LEMMA EmptyStays ==
  ASSUME NEW x, NEW y, NEW r, NEW e, ~Emptying(e), y.of[r] = x.of[r] \ {e}, y.epoch[r] = x.epoch[r],
         y.prio = x.prio, WillEmpty(x, r)
  PROVE  WillEmpty(y, r)
  BY DEF WillEmpty

\* The head of a queue is a chunk that counts: nothing queued before it empties the buffer.
LEMMA HeadMeansCounted ==
  ASSUME NEW x, QOK(x), NEW r \in Roles, x.prio = <<>>, NEW last, InOrder(x.of[r], x.epoch[r], last),
         NEW e \in x.of[r], Current(e, x.epoch[r]), \A f \in x.of[r] \ {e} : Before(e, f)
  PROVE  ~WillEmpty(x, r)
<1>1. ~Owed(x.prio, r)
  BY DEF Owed
<1>2. x.of[r] \in SUBSET Entries /\ (\A f, g \in x.of[r] : f.seq = g.seq => f = g)
  BY QueueTypes DEF QOK, Numbered
<1>3. ASSUME NEW g \in x.of[r], Emptying(g), g.seq < e.seq PROVE FALSE
  <2>1. Counts(e, x.epoch[r]) /\ Counts(g, x.epoch[r]) /\ g # e
    BY <1>3 DEF Counts, Current, Emptying
  <2>2. PICK es \in SUBSET Entries, ep \in Nat : es = x.of[r] /\ ep = x.epoch[r]
    BY <1>2, QueueTypes
  <2>3. e.seq < g.seq
    BY <1>2, <2>1, <2>2, HeadIsFirst
  <2>4. e.seq \in Nat /\ g.seq \in Nat
    BY <1>2, EntryIs
  <2> QED
    BY <1>3, <2>3, <2>4
<1> QED
  BY <1>1, <1>3 DEF WillEmpty

\* A chunk that is dropped.
LEMMA DroppedFits ==
  ASSUME WriterInv, BufferInv, ~q.broken, NEW y, QOK(y), SameQueues(q, y), NEW e \in Entries, e.kind = "chunk",
         q' = ScheduleHead(DiscardHead(y, e), e.role), UNCHANGED <<now, track, writer, client>>
  PROVE  BufferInv'
<1>1. WriterTypes
  BY DEF WriterInv
<1>2. /\ q'.prio = y.prio /\ q'.streaming = y.streaming /\ q'.epoch = y.epoch /\ q'.lastTs = y.lastTs
      /\ q'.held = y.held /\ q'.of[e.role] = y.of[e.role] \ {e} /\ \A s \in Roles \ {e.role} : q'.of[s] = y.of[s]
  BY DroppedSame
<1>3. SendingOK'
  BY DEF BufferInv, SendingOK
<1>4. ASSUME NEW s \in Roles PROVE WillEmpty(q, s) => WillEmpty(q', s)
  <2>1. CASE s = e.role
    <3>1. ~Emptying(e) /\ q'.of[s] = q.of[s] \ {e} /\ q'.epoch[s] = q.epoch[s] /\ q'.prio = q.prio
      BY <1>2, <2>1 DEF Emptying, SameQueues
    <3> QED
      BY <3>1, EmptyStays
  <2>2. CASE s # e.role
    <3>1. SameQueue(q, q', s) /\ q'.prio = q.prio
      BY <1>2, <2>2 DEF SameQueue, SameQueues
    <3> QED
      BY <3>1, EmptySame
  <2> QED
    BY <2>1, <2>2
<1>5. \A s \in Roles : Gentle(s)
  BY <1>4 DEF Gentle
<1> QED
  BY <1>1, <1>3, <1>5, StepFits

\* What the writer sends of a role's queue, the buffer and the tracker of the other roles aside.
LEMMA TransmitDoes ==
  ASSUME WriterInv, StreamInv, NEW y, QOK(y), SameQueues(q, y), NEW e \in Entries, Transmit(y, e)
  PROVE  /\ q'.prio = q.prio /\ q'.epoch = q.epoch /\ q'.of[e.role] = q.of[e.role] \ {e}
         /\ \A s \in Roles \ {e.role} : SameQueue(q, q', s) /\ client'[s].device = client[s].device
         /\ client' = Receive(e) /\ writer'.pc = "send" /\ writer'.role = e.role
<1>1. client \in [Roles -> Listeners] /\ e.role \in Roles
  BY DEF StreamInv, Entries
<1> DEFINE z == DiscardHead(y, e)
<1>2. /\ QOK(z) /\ z.prio = y.prio /\ z.streaming = y.streaming /\ z.epoch = y.epoch /\ z.lastTs = y.lastTs
      /\ z.held = y.held /\ z.of[e.role] = y.of[e.role] \ {e} /\ \A s \in Roles \ {e.role} : z.of[s] = y.of[s]
  BY DiscardSame
<1>3. q' = Note(z, e) /\ client' = Receive(e) /\ writer' = [writer EXCEPT !.pc = "send", !.role = e.role]
  BY DEF Transmit
<1> HIDE DEF z
<1>4. q'.prio = z.prio /\ q'.of = z.of /\ q'.epoch = z.epoch /\ q'.lastTs = z.lastTs /\ q'.held = z.held
  <2>1. PICK x : x = Note(z, e)
    OBVIOUS
  <2>2. z \in Queues
    BY <1>2 DEF QOK
  <2>3. x.prio = z.prio /\ x.of = z.of /\ x.epoch = z.epoch /\ x.lastTs = z.lastTs /\ x.held = z.held
    BY <2>1, <2>2, NoteSame
  <2> QED
    BY <1>3, <2>1, <2>3
<1>5. \A s \in Roles \ {e.role} : client'[s].device = client[s].device
  BY <1>1, <1>3, ReceiveDoes
<1>6. writer'.pc = "send" /\ writer'.role = e.role
  BY <1>3 DEF WriterInv, WriterTypes
<1> QED
  BY <1>2, <1>3, <1>4, <1>5, <1>6 DEF SameQueue, SameQueues

LEMMA OthersGentle ==
  ASSUME NEW s \in Roles, SameQueue(q, q', s), q'.prio = q.prio, client'[s].device = client[s].device,
         track'[s].ends = track[s].ends
  PROVE  Gentle(s)
  BY EmptySame DEF Gentle

\* A stream message of the head of a queue: only a clear or an end empties the buffer.
LEMMA MessageFits ==
  ASSUME WriterInv, StreamInv, BufferInv, ~q.broken, writer.pc = "run", NEW y, QOK(y), SameQueues(q, y),
         NEW e \in Entries, e.kind # "chunk", Transmit(y, e), UNCHANGED <<now, track>>
  PROVE  BufferInv'
<1> DEFINE r == e.role
<1>1. WriterTypes /\ client \in [Roles -> Listeners] /\ r \in Roles /\ SendingOK
  BY DEF WriterInv, StreamInv, BufferInv, Entries
<1>2. /\ q'.prio = q.prio /\ q'.epoch = q.epoch /\ q'.of[r] = q.of[r] \ {e} /\ client' = Receive(e)
      /\ \A s \in Roles \ {r} : SameQueue(q, q', s) /\ client'[s].device = client[s].device
  BY TransmitDoes
<1>3. SendingOK'
  BY <1>1, NoneIsSent
<1>4. Gentle(r)
  <2>1. CASE Emptying(e)
    <3>1. client'[r].device = {}
      BY <1>1, <1>2, <2>1, ReceiveDoes
    <3> QED
      BY <3>1 DEF Gentle
  <2>2. CASE ~Emptying(e)
    <3>1. client'[r].device = client[r].device
      BY <1>1, <1>2, <2>2, ReceiveDoes DEF Entries, Kinds, Emptying
    <3>2. WillEmpty(q, r) => WillEmpty(q', r)
      BY <1>2, <2>2, EmptyStays
    <3> QED
      BY <3>1, <3>2 DEF Gentle
  <2> QED
    BY <2>1, <2>2
<1>5. \A s \in Roles \ {r} : Gentle(s)
  BY <1>2, OthersGentle
<1> QED
  BY <1>1, <1>3, <1>4, <1>5, StepFits

\* A chunk of the current epoch: late, no room yet, or sent into the room there is.
LEMMA ProcessChunkFits ==
  ASSUME WriterInv, StreamInv, BufferInv, ~q.broken, writer.pc = "run", q.prio = <<>>, NEW y, QOK(y),
         SameQueues(q, y), NEW e \in Entries, e \in q.of[e.role], Current(e, q.epoch[e.role]),
         \A f \in q.of[e.role] \ {e} : Before(e, f), ProcessChunk(y, e), UNCHANGED now
  PROVE  BufferInv'
<1> DEFINE r == e.role
           t == track[r]
           p == Prune(t)
           wait == TimeUntilCapacity(p)
           dev == client[r].device
<1>1. WriterTypes /\ QOK(q) /\ now \in Nat /\ client \in [Roles -> Listeners] /\ r \in Roles /\ SendingOK
      /\ track \in [Roles -> Trackers] /\ y \in Queues /\ e.kind = "chunk" /\ e.play + 1 \in Nat
      /\ Streams(q, r, role[r], client[r])
  BY DEF WriterInv, WriterTypes, StreamInv, AllStreams, BufferInv, Entries, QOK, Current
<1>2. ~t.sending /\ t \in Trackers /\ Room(dev, t.ends)
  BY <1>1 DEF BufferInv, SendingOK
<1>3. Counted(dev, t.ends)
  <2>1. Accounted(q, r, dev, t.ends)
    BY <1>1 DEF BufferInv
  <2>2. InOrder(q.of[r], q.epoch[r], q.lastTs[r])
    BY <1>1 DEF Streams, StreamOK
  <2>3. ~WillEmpty(q, r)
    BY <1>1, <2>2, HeadMeansCounted
  <2> QED
    BY <2>1, <2>3 DEF Accounted
<1>4. /\ p \in Trackers /\ Len(p.ends) \in Nat /\ Len(p.ends) <= Len(t.ends)
      /\ Len(p.ends) > 0 => p.ends[1] > now
      /\ Counted(dev, p.ends)
  <2>1. \A d \in dev : d.end > now
    BY <1>2 DEF Room
  <2> HIDE DEF dev, t
  <2> QED
    BY <1>1, <1>2, <1>3, <2>1, PruneFewer, CountedPruned
<1>5. CASE q' = ScheduleHead(DiscardHead(y, e), r) /\ UNCHANGED <<track, writer, client>>
  BY <1>1, <1>5, DroppedFits
<1>6. CASE q' = Block(y, r, wait) /\ track' = [track EXCEPT ![r] = p] /\ UNCHANGED <<writer, client>>
  <2>1. q'.prio = q.prio /\ \A s \in Roles : SameQueue(q, q', s)
    <3> HIDE DEF wait
    <3> QED
      BY <1>1, <1>6 DEF Block, Queues, SameQueue, SameQueues
  <2>2. track'[r] = p /\ \A s \in Roles \ {r} : track'[s] = track[s]
    <3> HIDE DEF p
    <3> QED
      BY <1>1, <1>6
  <2>3. ~p.sending
    <3>1. PICK s \in Seq(Nat) : p = [t EXCEPT !.ends = s]
      <4>1. PICK first \in 1..(Len(t.ends) + 1) : p = [t EXCEPT !.ends = SubSeq(t.ends, first, Len(t.ends))]
        BY <1>1, <1>2, PruneIs
      <4>2. p.ends = SubSeq(t.ends, first, Len(t.ends)) /\ p.ends \in Seq(Nat)
        BY <1>2, <1>4, <4>1 DEF Trackers
      <4> QED
        BY <4>1, <4>2
    <3> HIDE DEF p, t
    <3> QED
      BY <1>2, <3>1 DEF Trackers
  <2>4. SendingOK'
    BY <1>1, <1>6, <2>2, <2>3 DEF SendingOK
  <2>5. Fair(r)
    <3>1. client'[r].device = dev /\ track'[r].ends = p.ends /\ dev \in SUBSET dev /\ Len(t.ends) \in Nat
      BY <1>2, <1>6, <2>2 DEF Trackers
    <3> HIDE DEF dev, t, p
    <3>2. Room(dev, p.ends)
      BY <1>2, <1>4, <3>1, FewerFit
    <3> QED
      BY <1>4, <3>1, <3>2 DEF Fair, Accounted
  <2>6. \A s \in Roles \ {r} : Gentle(s)
    BY <1>6, <2>1, <2>2, OthersGentle
  <2> QED
    BY <1>1, <2>4, <2>5, <2>6, StepFits
<1>7. CASE /\ wait = 0 /\ Transmit(y, e)
           /\ track' = [track EXCEPT ![r].ends = Append(p.ends, e.play + 1), ![r].sending = TRUE]
  <2> DEFINE end == e.play + 1
             ends == Append(p.ends, end)
             new == {d \in {Slot(e)} : d.end > now}
  <2>1. /\ q'.prio = q.prio /\ client' = Receive(e) /\ writer'.pc = "send" /\ writer'.role = r
        /\ \A s \in Roles \ {r} : SameQueue(q, q', s) /\ client'[s].device = client[s].device
    BY <1>7, TransmitDoes
  <2>2. client'[r].device = dev \cup new
    BY <1>1, <2>1, ReceiveDoes
  <2>3. Len(p.ends) + 1 <= Capacity
    <3> HIDE DEF p
    <3> QED
      BY <1>1, <1>4, <1>7, NoWaitIsRoom
  <2>4. p.ends \in Seq(Nat)
    BY <1>4 DEF Trackers
  <2>5. ends \in Seq(Nat) /\ Len(ends) = Len(p.ends) + 1
    <3> HIDE DEF p
    <3> QED
      BY <1>1, <2>4
  <2>6. track'[r].ends = ends /\ \A s \in Roles \ {r} : track'[s] = track[s]
    <3> HIDE DEF p, ends
    <3> QED
      BY <1>1, <1>7 DEF Trackers, ends
  <2>7. Counted(dev \cup new, ends)
    <3>1. Slot(e).end = end /\ new \in SUBSET {Slot(e)} /\ end \in Nat
      BY <1>1 DEF Slot
    <3> HIDE DEF new, p, dev, end
    <3> QED
      BY <1>4, <2>4, <3>1, OneMoreCounted
  <2>8. \A d \in dev \cup new : d.end > now
    BY <1>2 DEF Room
  <2> HIDE DEF new, ends, p, dev
  <2>9. Room(dev \cup new, ends)
    <3>1. IsFiniteSet(dev \cup new) /\ Cardinality(dev \cup new) <= Len(ends)
      BY <2>5, <2>7, CountedFit
    <3>2. Cardinality(dev \cup new) \in Nat
      BY <3>1, FS_CardinalityType
    <3> QED
      BY <1>4, <2>3, <2>5, <2>8, <3>1, <3>2, WriterAssumption DEF Room
  <2>10. Fair(r)
    BY <2>2, <2>6, <2>7, <2>9 DEF Fair, Accounted
  <2>11. \A s \in Roles \ {r} : Gentle(s)
    BY <2>1, <2>6, OthersGentle
  <2>12. SendingOK'
    BY <1>1, <2>1, <2>6 DEF SendingOK
  <2> QED
    BY <1>1, <2>10, <2>11, <2>12, StepFits
<1> QED
  BY <1>5, <1>6, <1>7 DEF ProcessChunk

LEMMA ServeRoleFits ==
  ASSUME WriterInv, StreamInv, BufferInv, ServeRole
  PROVE  BufferInv'
<1> DEFINE x == Promote(q)
           e == NextEntry(x)
           y == Popped(x, e)
<1>1. /\ QOK(q) /\ now \in Nat /\ Serviceable(x) # {} /\ ~q.broken /\ writer.pc = "run" /\ q.prio = <<>>
      /\ now' = now
  BY DEF WriterInv, WriterTypes, ServeRole, Writing
<1>2. \/ /\ e.kind = "chunk" /\ e.epoch /= q.epoch[e.role]
         /\ Skip(y, e)
      \/ /\ e.kind = "chunk" /\ e.epoch = q.epoch[e.role]
         /\ ProcessChunk(y, e)
      \/ /\ e.kind /= "chunk"
         /\ Transmit(y, e)
         /\ UNCHANGED <<role, track>>
  BY DEF ServeRole, NextEntry
<1>3. QOK(x) /\ SameQueues(q, x)
  BY <1>1, PromoteLooks, PromoteSame DEF Looks, SameQueues
<1> HIDE DEF x
<1>4. /\ e \in Entries /\ e.role \in Serviceable(x) /\ e.role \in Roles /\ e \in x.of[e.role]
      /\ \A f \in x.of[e.role] \ {e} : Before(e, f)
  BY <1>1, <1>3, NextEntryIs
<1> HIDE DEF e
<1>5. QOK(y) /\ SameQueues(x, y)
  <2>1. QOK(y) /\ y = [x EXCEPT !.ready = y.ready] /\ x \in Queues
    BY <1>3, <1>4, PoppedLooks DEF Looks, QOK
  <2> HIDE DEF y
  <2> QED
    BY <2>1 DEF SameQueues, Queues
<1> HIDE DEF y
<1>6. SameQueues(q, y) /\ e \in q.of[e.role] /\ \A f \in q.of[e.role] \ {e} : Before(e, f)
  BY <1>3, <1>4, <1>5 DEF SameQueues
<1>7. CASE Skip(y, e) /\ e.kind = "chunk"
  BY <1>1, <1>4, <1>5, <1>6, <1>7, DroppedFits DEF Skip
<1>8. CASE e.kind = "chunk" /\ e.epoch = q.epoch[e.role] /\ ProcessChunk(y, e)
  BY <1>1, <1>4, <1>5, <1>6, <1>8, ProcessChunkFits DEF Current
<1>9. CASE e.kind # "chunk" /\ Transmit(y, e) /\ UNCHANGED track
  BY <1>1, <1>4, <1>5, <1>6, <1>9, MessageFits
<1> QED
  BY <1>2, <1>7, <1>8, <1>9

LEMMA BufferInvInit ==
  ASSUME Init
  PROVE  BufferInv
<1>1. \A r \in Roles : client[r].device = {} /\ track[r].ends = <<>> /\ ~track[r].sending
  BY DEF Init
<1>2. Room({}, <<>>) /\ Counted({}, <<>>)
  <2>1. Len(<<>>) = 0 /\ IsFiniteSet({}) /\ Cardinality({}) = 0
    BY FS_EmptySet
  <2> QED
    BY <2>1, WriterAssumption DEF Room, Counted
<1> QED
  BY <1>1, <1>2 DEF BufferInv, SendingOK, Accounted

LEMMA BufferInvNext ==
  ASSUME WriterInv, StreamInv, BufferInv, Next
  PROVE  BufferInv'
<1>1. ASSUME NEW r \in Roles, NEW d \in 0..Ahead, AudioChunk(r, now + d)
      PROVE  BufferInv'
  <2>1. now + d \in Nat
    BY WriterAssumption DEF WriterInv, WriterTypes
  <2> QED
    BY <1>1, <2>1, AudioChunkFits
<1>2. ASSUME NEW r \in Roles, StreamStart(r) \/ StreamClear(r) \/ StreamEnd(r) \/ ReleaseRole(r)
      PROVE  BufferInv'
  BY <1>2, StreamStartFits, StreamClearFits, StreamEndFits, ReleaseRoleFits
<1>3. CASE PriorityMessage \/ SendPriorityMessage \/ ServeRole \/ Sent \/ WaitForWork
  BY <1>3, PriorityMessageFits, SendPriorityMessageFits, ServeRoleFits, SentFits, WaitForWorkFits
<1>4. ASSUME NEW rs \in SUBSET Roles, Activate(rs)
      PROVE  BufferInv'
  BY <1>4, ActivateFits
<1>5. CASE WakeUp \/ WriterPaused \/ Resume \/ Drain \/ SendActivation \/ Tick
  BY <1>5, WriterMovesFits, DrainFits, SendActivationFits, TickFits
<1> QED
  BY <1>1, <1>2, <1>3, <1>4, <1>5 DEF Next

LEMMA BufferInvStays ==
  ASSUME WriterInv, BufferInv, UNCHANGED vars
  PROVE  BufferInv'
<1>1. WriterTypes /\ UNCHANGED <<now, q, track, writer, client>>
  BY DEF WriterInv, vars
<1>2. SendingOK'
  BY <1>1 DEF BufferInv, SendingOK
<1>3. \A s \in Roles : SameQueue(q, q', s) /\ (Owed(q.prio, s) => Owed(q'.prio, s))
  BY <1>1 DEF SameQueue
<1>4. ~q.broken \/ q'.broken
  BY <1>1
<1> QED
  BY <1>1, <1>2, <1>3, <1>4, StillFits

\* The chunks a client has not played fit in its buffer, whatever streams are cleared, ended or retired
\* while their chunks are on the way: the tracker counts every one of them, or forgot them with a
\* stream/clear or stream/end that empties the buffer before the next chunk (BufferTracker.reset,
\* prune_consumed, time_until_capacity, _process_binary_role_messages).
THEOREM BufferNeverOverruns == MCSpec => []BufferBound
<1>1. MCInit => BufferInv
  BY BufferInvInit DEF MCInit
<1>2. WriterInv /\ StreamInv /\ BufferInv /\ [MCNext]_<<which, vars, scheduled>> => BufferInv'
  BY BufferInvNext, BufferInvStays DEF MCNext
<1>3. BufferInv => BufferBound
  BY DEF BufferInv, BufferBound, Room
<1> QED
  BY <1>1, <1>2, <1>3, WriterInvHolds, StreamInvHolds, PTL DEF MCSpec
=============================================================================
