---------------------------- MODULE TimelineProofs ----------------------------
(***************************************************************************)
(* Safety of Timeline for every set of channels, every sample rate and any *)
(* number of commits, alone and beside the stream (MCAudio).               *)
(***************************************************************************)
EXTENDS MCAudio, Sequences, FiniteSetTheorems, WellFoundedInduction, TLAPS

-----------------------------------------------------------------------------
(* Least and greatest elements.                                            *)

\* An integer-valued function on a finite set takes a least value: otherwise some
\* prefix of an enumeration is the shortest one without.
LEMMA LeastValue ==
    ASSUME NEW S, IsFiniteSet(S), S # {}, NEW f \in [S -> Int]
    PROVE  \E x \in S : \A y \in S : f[x] <= f[y]
<1>1. PICK seq \in Seq(S) : \A s \in S : \E n \in 1..Len(seq) : seq[n] = s
  BY DEF IsFiniteSet
<1> DEFINE Best(k) == \E x \in S : \A i \in 1..k : f[x] <= f[seq[i]]
           Bad == {k \in Nat : k <= Len(seq) /\ ~Best(k)}
<1>2. Len(seq) \in Nat /\ \A i \in 1..Len(seq) : seq[i] \in S
  OBVIOUS
<1>3. Bad = {}
  <2> SUFFICES ASSUME Bad # {} PROVE FALSE
    OBVIOUS
  <2>1. PICK m \in Bad : \A k \in Bad : ~ (<<k, m>> \in OpToRel(<, Nat))
    BY NatLessThanWellFounded, WFMin
  <2>2. \A k \in Bad : ~ (k < m)
    BY <2>1 DEF OpToRel
  <2>3. m # 0
    <3>1. Best(0)
      OBVIOUS
    <3> QED
      BY <3>1
  <2>4. m - 1 \in Nat /\ m - 1 <= Len(seq) /\ Best(m - 1)
    <3>1. m \in Nat /\ m - 1 \in Nat /\ m - 1 < m /\ m - 1 <= Len(seq)
      BY <1>2, <2>3
    <3>2. m - 1 \notin Bad
      BY <2>2, <3>1
    <3> QED
      BY <3>1, <3>2
  <2>5. PICK x \in S : \A i \in 1..(m - 1) : f[x] <= f[seq[i]]
    BY <2>4
  <2>6. seq[m] \in S
    BY <1>2, <2>3
  <2>7. Best(m)
    <3>1. CASE f[x] <= f[seq[m]]
      <4>1. \A i \in 1..m : i = m \/ i \in 1..(m - 1)
        OBVIOUS
      <4>2. \A i \in 1..m : f[x] <= f[seq[i]]
        BY <2>5, <3>1, <4>1
      <4> QED
        BY <4>2
    <3>2. CASE ~ (f[x] <= f[seq[m]])
      <4>1. \A i \in 1..m : f[seq[m]] <= f[seq[i]]
        <5> TAKE i \in 1..m
        <5> m \in Nat /\ m <= Len(seq)
          OBVIOUS
        <5> HIDE DEF Best, Bad
        <5>1. i \in 1..Len(seq) /\ (i = m \/ i \in 1..(m - 1))
          BY <1>2
        <5>2. f[x] \in Int /\ f[seq[m]] \in Int /\ f[seq[i]] \in Int
          BY <1>2, <2>6, <5>1
        <5>3. CASE i \in 1..(m - 1)
          BY <2>5, <3>2, <5>2, <5>3
        <5>4. CASE i = m
          BY <5>2, <5>4
        <5> QED
          BY <5>1, <5>3, <5>4
      <4> QED
        BY <2>6, <4>1
    <3> QED
      BY <3>1, <3>2
  <2> QED
    BY <2>7
<1>4. Best(Len(seq))
  <2>1. ~Best(Len(seq)) => Len(seq) \in Bad
    <3> HIDE DEF Best
    <3> QED
      BY <1>2
  <2> HIDE DEF Best, Bad
  <2> QED
    BY <1>3, <2>1
<1> QED
  BY <1>1, <1>4

\* What Min and Max return on the values of an integer-valued function.
LEMMA MinOfValues ==
    ASSUME NEW S, IsFiniteSet(S), S # {}, NEW f \in [S -> Int]
    PROVE  /\ \E x \in S : Min({f[y] : y \in S}) = f[x]
           /\ \A y \in S : Min({f[z] : z \in S}) <= f[y]
<1>1. PICK x \in S : \A y \in S : f[x] <= f[y]
  BY LeastValue
<1>2. f[x] \in {f[y] : y \in S} /\ \A v \in {f[y] : y \in S} : f[x] <= v
  BY <1>1
<1> QED
  BY <1>2 DEF Min

LEMMA MaxOfValues ==
    ASSUME NEW S, IsFiniteSet(S), S # {}, NEW f \in [S -> Int]
    PROVE  /\ \E x \in S : Max({f[y] : y \in S}) = f[x]
           /\ \A y \in S : Max({f[z] : z \in S}) >= f[y]
<1> DEFINE g == [y \in S |-> - f[y]]
<1>1. g \in [S -> Int]
  OBVIOUS
<1>2. PICK x \in S : \A y \in S : g[x] <= g[y]
  BY <1>1, LeastValue
<1>3. \A y \in S : f[x] >= f[y]
  BY <1>2
<1>4. f[x] \in {f[y] : y \in S} /\ \A v \in {f[y] : y \in S} : f[x] >= v
  BY <1>3
<1> QED
  BY <1>4 DEF Max

LEMMA PairExtrema ==
    ASSUME NEW a \in Int, NEW b \in Int
    PROVE  /\ Min({a, b}) = IF a <= b THEN a ELSE b
           /\ Max({a, b}) = IF a >= b THEN a ELSE b
BY DEF Min, Max

-----------------------------------------------------------------------------
(* One timeline.                                                           *)

\* What a timeline carries is what whole ticks lost, as DriftFree says of it.
Counted(l) ==
    l.rate # 0 => l.res < l.rate /\ l.at * l.rate + l.res = l.base * l.rate + l.fed

Exact(l) == l \in Line /\ l.at >= 0 /\ Counted(l)

\* An exact timeline that is not behind the end of its audio.
Sound(l) == Exact(l) /\ l.end >= 0 /\ l.at >= l.end

LEMMA Distribute ==
    \A a, b, c \in Int : (a + b) * c = a * c + b * c /\ a * b \in Int
OBVIOUS

LEMMA DivisionLaw ==
    \A n \in Nat, r \in Nat \ {0} :
        n \div r \in Nat /\ n % r \in Nat /\ n % r < r /\ n = (n \div r) * r + (n % r)
OBVIOUS

LEMMA MakeLine ==
    ASSUME NEW a \in Int, NEW s \in Nat, NEW r \in Nat, NEW b \in Int, NEW f \in Nat, NEW e \in Int
    PROVE  [at |-> a, res |-> s, rate |-> r, base |-> b, fed |-> f, end |-> e] \in Line
BY DEF Line

LEMMA PlaceExact ==
    ASSUME NEW l \in Line, NEW x \in Int, x >= 0
    PROVE  /\ Exact(Place(l, x))
           /\ Place(l, x).end = l.end /\ Place(l, x).at = x
<1>1. /\ Place(l, x) \in Line
      /\ Place(l, x).at = x /\ Place(l, x).base = x /\ Place(l, x).res = 0
      /\ Place(l, x).fed = 0 /\ Place(l, x).rate = l.rate /\ Place(l, x).end = l.end
  BY DEF Place, Line
<1>2. l.rate \in Nat /\ x * l.rate \in Int
  BY DEF Line
<1> QED
  BY <1>1, <1>2 DEF Exact, Counted

LEMMA ShiftSound ==
    ASSUME NEW l, Sound(l), NEW d \in Int, d >= 0
    PROVE  Sound(Shift(l, d)) /\ Shift(l, d).end = l.end /\ Shift(l, d).at = l.at + d
<1>1. l \in Line
  BY DEF Sound, Exact
<1>2. /\ l.at \in Int /\ l.base \in Int /\ l.rate \in Nat /\ l.res \in Nat
      /\ l.fed \in Nat /\ l.end \in Int
  BY <1>1 DEF Line
<1>3. /\ Shift(l, d) \in Line
      /\ Shift(l, d).at = l.at + d /\ Shift(l, d).base = l.base + d
      /\ Shift(l, d).res = l.res /\ Shift(l, d).fed = l.fed
      /\ Shift(l, d).rate = l.rate /\ Shift(l, d).end = l.end
  <2>1. l.at + d \in Int /\ l.base + d \in Int
    BY <1>2
  <2>2. [l EXCEPT !.at = l.at + d] \in Line
    BY <1>1, <2>1 DEF Line
  <2>3. Shift(l, d) = [[l EXCEPT !.at = l.at + d] EXCEPT !.base = l.base + d]
    BY <1>1 DEF Shift, Line
  <2> QED
    BY <1>1, <2>1, <2>2, <2>3 DEF Line
<1>4. /\ (l.at + d) * l.rate = l.at * l.rate + d * l.rate
      /\ (l.base + d) * l.rate = l.base * l.rate + d * l.rate
      /\ l.at * l.rate \in Int /\ l.base * l.rate \in Int /\ d * l.rate \in Int
  BY <1>2, Distribute
<1>5. Counted(Shift(l, d))
  BY <1>2, <1>3, <1>4 DEF Sound, Exact, Counted
<1> QED
  BY <1>2, <1>3, <1>5 DEF Sound, Exact

\* A buffer of n samples at rate r keeps the count exact, whatever the rate was before.
LEMMA AdvanceSound ==
    ASSUME NEW l, Exact(l), NEW n \in Nat, NEW r \in Nat \ {0}
    PROVE  Sound(Advance(l, n, r)) /\ Advance(l, n, r).at >= l.at
<1>1. l \in Line /\ Second \in Nat
  BY TimelineAssumption DEF Exact
<1>2. /\ l.at \in Int /\ l.at >= 0 /\ l.base \in Int /\ l.rate \in Nat /\ l.res \in Nat
      /\ l.fed \in Nat
  BY <1>1 DEF Line, Exact
<1> DEFINE same == l.rate = r
           fill == n * Second
           num == (IF same THEN l.res ELSE 0) + fill
           q == num \div r
           m == num % r
           a == Advance(l, n, r)
<1>3. fill \in Nat
  BY <1>1
<1>4. num \in Nat
  BY <1>2, <1>3
<1>5. q \in Nat /\ m \in Nat /\ m < r /\ num = q * r + m
  BY <1>4, DivisionLaw
<1>6. /\ a.at = l.at + q /\ a.end = l.at + q /\ a.res = m /\ a.rate = r
      /\ a.base = (IF same THEN l.base ELSE l.at)
      /\ a.fed = (IF same THEN l.fed + fill ELSE fill)
  BY DEF Advance
<1>7. a \in Line
  <2>1. a = [at |-> l.at + q, res |-> m, rate |-> r, end |-> l.at + q,
             base |-> IF same THEN l.base ELSE l.at,
             fed |-> IF same THEN l.fed + fill ELSE fill]
    BY DEF Advance
  <2> HIDE DEF a, q, m, fill
  <2>2. /\ l.at + q \in Int /\ m \in Nat /\ r \in Nat
        /\ (IF same THEN l.base ELSE l.at) \in Int
        /\ (IF same THEN l.fed + fill ELSE fill) \in Nat
    BY <1>2, <1>3, <1>5
  <2> DEFINE base == IF same THEN l.base ELSE l.at
             fed == IF same THEN l.fed + fill ELSE fill
  <2> HIDE DEF base, fed, same
  <2>3. base \in Int /\ fed \in Nat
    BY <2>2 DEF base, fed
  <2>4. a = [at |-> l.at + q, res |-> m, rate |-> r, base |-> base, fed |-> fed, end |-> l.at + q]
    BY <2>1 DEF base, fed
  <2> QED
    BY <2>2, <2>3, <2>4, MakeLine
<1>8. /\ (l.at + q) * r = l.at * r + q * r
      /\ l.at * r \in Int /\ q * r \in Int /\ l.base * r \in Int
  <2> HIDE DEF q
  <2> QED
    BY <1>2, <1>5, Distribute
<1>9. Counted(a)
  <2> HIDE DEF a, q, m, fill
  <2>1. CASE same
    BY <1>2, <1>3, <1>5, <1>6, <1>8, <2>1 DEF Exact, Counted
  <2>2. CASE ~same
    BY <1>2, <1>3, <1>5, <1>6, <1>8, <2>2 DEF Exact, Counted
  <2> QED
    BY <2>1, <2>2
<1> HIDE DEF a, q, m
<1>10. Sound(a) /\ a.at >= l.at
  BY <1>2, <1>5, <1>6, <1>7, <1>9 DEF Sound, Exact
<1> QED
  BY <1>10 DEF a

-----------------------------------------------------------------------------
(* The timelines of one commit.                                            *)

\* All of them are sound, and a channel that never had audio has none to end.
IInv ==
    /\ TypeOK
    /\ \A c \in Channels : Sound(line[c]) /\ (c \notin committed => line[c].end = 0)

\* Every timeline of t is sound and its audio ends where it ends in line.
Kept(t) == \A c \in Channels : Sound(t[c]) /\ t[c].end = line[c].end

LEMMA SoundFields ==
    ASSUME NEW l, Sound(l)
    PROVE  /\ l \in Line /\ l.at \in Int /\ l.at >= 0 /\ l.end \in Int /\ l.end >= 0
           /\ l.at >= l.end
BY DEF Sound, Exact, Line

LEMMA FloorType == min_send_ahead \in Nat
BY TimelineAssumption DEF min_send_ahead

LEMMA EarliestIs ==
    ASSUME NEW t, NEW cs \in SUBSET Channels, cs # {}, \A c \in cs : t[c].at \in Int
    PROVE  /\ \E c \in cs : Earliest(t, cs) = t[c].at
           /\ \A c \in cs : Earliest(t, cs) <= t[c].at
<1> DEFINE f == [c \in cs |-> t[c].at]
<1>1. f \in [cs -> Int] /\ {f[c] : c \in cs} = {t[c].at : c \in cs}
  OBVIOUS
<1>2. IsFiniteSet(cs)
  BY TimelineAssumption, FS_Subset
<1>3. /\ \E c \in cs : Min({f[y] : y \in cs}) = f[c]
      /\ \A c \in cs : Min({f[y] : y \in cs}) <= f[c]
  <2> HIDE DEF f
  <2> QED
    BY <1>1, <1>2, MinOfValues
<1> QED
  BY <1>1, <1>3 DEF Earliest

\* The instant a new channel joins at is none before the start of the clock.
LEMMA PlaceNewKeeps ==
    ASSUME IInv, NEW cs \in SUBSET Channels
    PROVE  Kept(PlaceNew(cs))
<1> DEFINE have == (active \cup cs) \cap known
           x == IF have = {} THEN now + min_send_ahead ELSE Earliest(line, have)
<1>1. have \in SUBSET Channels
  BY DEF IInv, TypeOK
<1>2. x \in Int /\ x >= 0
  <2>1. CASE have = {}
    BY <2>1, FloorType, TimelineAssumption DEF IInv, TypeOK
  <2>2. CASE have # {}
    <3>1. \A c \in have : line[c].at \in Int /\ line[c].at >= 0
      BY <1>1, SoundFields DEF IInv
    <3> HIDE DEF have
    <3> QED
      BY <1>1, <2>2, <3>1, EarliestIs
  <2> QED
    BY <2>1, <2>2
<1> SUFFICES ASSUME NEW c \in Channels
             PROVE  Sound(PlaceNew(cs)[c]) /\ PlaceNew(cs)[c].end = line[c].end
  BY DEF Kept
<1>3. PlaceNew(cs)[c] = IF c \in cs \ known THEN Place(line[c], x) ELSE line[c]
  BY DEF PlaceNew
<1> HIDE DEF x
<1>4. CASE c \in cs \ known
  <2>1. line[c].end = 0 /\ line[c] \in Line
    BY <1>4, SoundFields DEF IInv, TypeOK
  <2> QED
    BY <1>2, <1>3, <1>4, <2>1, PlaceExact DEF Sound
<1>5. CASE c \notin cs \ known
  BY <1>3, <1>5 DEF IInv
<1> QED
  BY <1>4, <1>5

\* After a rebase nothing that takes part is before the floor.
LEMMA RebaseKeeps ==
    ASSUME NEW t, Kept(t), NEW kn \in SUBSET Channels, NEW cs \in SUBSET kn, cs # {}, now \in Int
    PROVE  /\ Kept(Rebase(t, kn, cs))
           /\ \A c \in cs : Rebase(t, kn, cs)[c].at >= now + min_send_ahead
<1> DEFINE part == (active \cup cs) \cap kn
           first == Earliest(t, part)
           d == now + min_send_ahead - first
           u == Rebase(t, kn, cs)
<1>1. part \in SUBSET Channels /\ part # {} /\ cs \subseteq part
  OBVIOUS
<1>2. \A c \in Channels : Sound(t[c]) /\ t[c].at \in Int
  BY SoundFields DEF Kept
<1>3. first \in Int /\ \A c \in part : first <= t[c].at
  <2> HIDE DEF part
  <2> QED
    BY <1>1, <1>2, EarliestIs
<1>4. d \in Int
  BY <1>3, FloorType
<1>5. u = IF d > 0 THEN [c \in Channels |-> IF c \in kn THEN Shift(t[c], d) ELSE t[c]] ELSE t
  BY DEF Rebase
<1>6. \A c \in cs : t[c].at \in Int /\ t[c].at + d >= now + min_send_ahead
  <2> HIDE DEF first, part
  <2> QED
    BY <1>1, <1>2, <1>3, FloorType
<1>7. CASE d > 0
  <2> HIDE DEF d, u
  <2>1. \A c \in Channels : u[c] = IF c \in kn THEN Shift(t[c], d) ELSE t[c]
    BY <1>5, <1>7
  <2>2. \A c \in kn : Sound(u[c]) /\ u[c].end = t[c].end /\ u[c].at = t[c].at + d
    BY <1>2, <1>4, <1>7, <2>1, ShiftSound
  <2>3. Kept(u)
    BY <2>1, <2>2 DEF Kept
  <2>4. \A c \in cs : u[c].at >= now + min_send_ahead
    BY <1>6, <2>2
  <2> QED
    BY <2>3, <2>4 DEF u
<1>8. CASE ~ (d > 0)
  <2>1. \A c \in cs : t[c].at >= now + min_send_ahead
    <3> HIDE DEF first, part
    <3> QED
      BY <1>1, <1>2, <1>3, <1>8, FloorType
  <2> QED
    BY <1>5, <1>8, <2>1
<1> QED
  BY <1>7, <1>8

\* Where a commit starts its buffers; only a start the caller gives may be before the end
\* of earlier audio.
LEMMA PlayStartKeeps ==
    ASSUME IInv, NEW cs \in SUBSET Channels, cs # {}, NEW x \in {None, 0}
    PROVE  /\ \A c \in Channels : /\ Exact(PlayStart(cs, x)[c])
                                  /\ PlayStart(cs, x)[c].end = line[c].end
                                  /\ x = None \/ c \notin cs => Sound(PlayStart(cs, x)[c])
           /\ x = None => \A c \in cs : PlayStart(cs, x)[c].at >= now + min_send_ahead
<1>1. now \in Int /\ known \cup cs \in SUBSET Channels
  BY TimelineAssumption DEF IInv, TypeOK
<1>2. CASE x = None
  <2>1. Kept(PlaceNew(cs))
    BY PlaceNewKeeps
  <2>2. cs \in SUBSET (known \cup cs)
    OBVIOUS
  <2> DEFINE u == Rebase(PlaceNew(cs), known \cup cs, cs)
  <2>3. Kept(u) /\ \A c \in cs : u[c].at >= now + min_send_ahead
    BY <1>1, <2>1, <2>2, RebaseKeeps
  <2>4. PlayStart(cs, x) = u
    BY <1>2 DEF PlayStart
  <2> HIDE DEF u
  <2> QED
    BY <2>3, <2>4 DEF Kept, Sound
<1>3. CASE x # None
  <2>1. PlayStart(cs, x) = [c \in Channels |-> IF c \in cs THEN Place(line[c], 0) ELSE line[c]]
    BY <1>3 DEF PlayStart
  <2>2. \A c \in Channels : Sound(line[c]) /\ line[c] \in Line
    BY SoundFields DEF IInv
  <2>3. \A c \in cs : Exact(Place(line[c], 0)) /\ Place(line[c], 0).end = line[c].end
    BY <2>2, PlaceExact
  <2> QED
    BY <1>3, <2>1, <2>2, <2>3 DEF Sound
<1> QED
  BY <1>2, <1>3

\* A channel that skips the commit is moved on as it is, or placed where it had no audio.
LEMMA CarryAlongKeeps ==
    ASSUME IInv, NEW start, NEW end, NEW cs \in SUBSET Channels, cs # {},
           \A c \in Channels : Exact(start[c]) /\ Sound(end[c]),
           \A c \in Channels \ cs : end[c].end = line[c].end
    PROVE  \A c \in Channels : /\ Sound(CarryAlong(start, end, cs)[c])
                               /\ CarryAlong(start, end, cs)[c].end = end[c].end
<1> DEFINE lens == [c \in cs |-> end[c].at - start[c].at]
           d == Max({end[c].at - start[c].at : c \in cs})
           first == Earliest(start, cs)
           Joined(c) == IF c \in known THEN end[c] ELSE Place(end[c], first)
<1>1. \A c \in Channels : /\ start[c].at \in Int /\ start[c].at >= 0
                          /\ end[c].at \in Int /\ end[c] \in Line
  BY SoundFields DEF Exact, Line
<1>2. lens \in [cs -> Int] /\ {lens[c] : c \in cs} = {end[c].at - start[c].at : c \in cs}
  BY <1>1
<1>3. d \in Int
  <2>1. \E c \in cs : Max({lens[y] : y \in cs}) = lens[c]
    <3>1. IsFiniteSet(cs)
      BY TimelineAssumption, FS_Subset
    <3> HIDE DEF lens
    <3> QED
      BY <1>2, <3>1, MaxOfValues
  <2> QED
    BY <1>2, <2>1
<1>4. first \in Int /\ first >= 0
  BY <1>1, EarliestIs
<1> SUFFICES ASSUME NEW c \in Channels
             PROVE  /\ Sound(CarryAlong(start, end, cs)[c])
                    /\ CarryAlong(start, end, cs)[c].end = end[c].end
  OBVIOUS
<1>5. CarryAlong(start, end, cs)[c] =
        IF c \in active \ cs /\ d > 0 THEN Shift(Joined(c), d) ELSE end[c]
  BY DEF CarryAlong
<1>6. CASE c \in active \ cs /\ d > 0
  <2>1. Sound(Joined(c)) /\ Joined(c).end = end[c].end
    <3> HIDE DEF first
    <3>1. CASE c \in known
      BY <3>1
    <3>2. CASE c \notin known
      <4>1. end[c].end = 0
        BY <1>6, <3>2 DEF IInv, TypeOK
      <4>2. Exact(Place(end[c], first)) /\ Place(end[c], first).end = 0
            /\ Place(end[c], first).at = first
        BY <1>1, <1>4, <4>1, PlaceExact
      <4> QED
        BY <1>4, <3>2, <4>1, <4>2 DEF Sound
    <3> QED
      BY <3>1, <3>2
  <2> HIDE DEF d, Joined
  <2>2. Sound(Shift(Joined(c), d)) /\ Shift(Joined(c), d).end = Joined(c).end
    BY <1>3, <1>6, <2>1, ShiftSound
  <2> QED
    BY <1>5, <1>6, <2>1, <2>2
<1>7. CASE ~ (c \in active \ cs /\ d > 0)
  BY <1>5, <1>7
<1> QED
  BY <1>6, <1>7

-----------------------------------------------------------------------------
(* Every step keeps the invariant, and what it schedules is in time.       *)

InTime == FloorKept /\ NoOverlap

LEMMA CommitAudioStep ==
    ASSUME IInv, NEW cs \in SUBSET Channels, cs # {}, NEW n \in [cs -> Samples], NEW r \in Rates,
           NEW x \in {None, 0}, CommitAudio(cs, n, r, x)
    PROVE  IInv' /\ InTime'
<1> DEFINE start == PlayStart(cs, x)
           end == [c \in Channels |-> IF c \in cs THEN Advance(start[c], n[c], r) ELSE start[c]]
           moves == \E c \in cs : end[c].at > start[c].at
           kn == known \cup cs \cup (IF moves THEN active ELSE {})
           gone == Stale(kn, committed \cup cs)
           done == CarryAlong(start, end, cs)
<1>1. /\ calls < MaxCalls
      /\ line' = [c \in Channels |-> IF c \in gone THEN [done[c] EXCEPT !.res = 0, !.rate = 0]
                                     ELSE done[c]]
      /\ known' = kn \ gone
      /\ committed' = committed \cup cs
      /\ last' = IF x # None THEN NoLast
                 ELSE [floor |-> now + min_send_ahead,
                       starts |-> {[from |-> start[c].at, end |-> line[c].end] : c \in cs}]
      /\ calls' = calls + 1
      /\ UNCHANGED <<now, active>>
  BY DEF CommitAudio
<1>2. \A c \in Channels : /\ Exact(start[c]) /\ start[c].end = line[c].end
                          /\ x = None \/ c \notin cs => Sound(start[c])
  BY PlayStartKeeps
<1>3. \A c \in Channels : Sound(end[c]) /\ (c \notin cs => end[c].end = line[c].end)
  <2> SUFFICES ASSUME NEW c \in Channels
               PROVE  Sound(end[c]) /\ (c \notin cs => end[c].end = line[c].end)
    OBVIOUS
  <2> HIDE DEF start
  <2>1. CASE c \in cs
    <3>1. n[c] \in Nat /\ r \in Nat \ {0}
      BY <2>1, TimelineAssumption
    <3> QED
      BY <1>2, <2>1, <3>1, AdvanceSound
  <2>2. CASE c \notin cs
    BY <1>2, <2>2
  <2> QED
    BY <2>1, <2>2
<1>4. \A c \in Channels : Sound(done[c]) /\ done[c].end = end[c].end
  <2> HIDE DEF start, end
  <2> QED
    BY <1>2, <1>3, CarryAlongKeeps
<1>5. \A c \in Channels : /\ Sound(line'[c])
                          /\ c \notin cs => line'[c].end = line[c].end
  <2> SUFFICES ASSUME NEW c \in Channels
               PROVE  Sound(line'[c]) /\ (c \notin cs => line'[c].end = line[c].end)
    OBVIOUS
  <2> HIDE DEF start, end, done, gone
  <2>1. CASE c \in gone
    <3>1. line'[c] = [done[c] EXCEPT !.res = 0, !.rate = 0]
      BY <1>1, <2>1
    <3>2. done[c] \in Line
      BY <1>4, SoundFields
    <3>3. /\ line'[c] \in Line /\ line'[c].rate = 0
          /\ line'[c].at = done[c].at /\ line'[c].end = done[c].end
      <4>1. [done[c] EXCEPT !.res = 0] \in Line
        BY <3>2 DEF Line
      <4>2. line'[c] = [[done[c] EXCEPT !.res = 0] EXCEPT !.rate = 0]
        BY <3>1, <3>2 DEF Line
      <4> QED
        BY <3>2, <4>1, <4>2 DEF Line
    <3> QED
      BY <1>3, <1>4, <3>3 DEF Sound, Exact, Counted
  <2>2. CASE c \notin gone
    BY <1>1, <1>3, <1>4, <2>2
  <2> QED
    BY <2>1, <2>2
<1>6. IInv'
  <2>1. line' \in [Channels -> Line]
    <3> HIDE DEF start, end, done, gone
    <3>1. \A c \in Channels : line'[c] \in Line
      BY <1>5, SoundFields
    <3> QED
      BY <1>1, <3>1
  <2>2. kn \in SUBSET Channels /\ committed \cup cs \subseteq kn \ gone
    BY DEF IInv, TypeOK, Stale
  <2> HIDE DEF start, end, moves, kn, gone, done
  <2>3. calls' \in 0..MaxCalls
    <3>1. calls \in 0..MaxCalls /\ MaxCalls \in Nat /\ calls < MaxCalls /\ calls' = calls + 1
      BY <1>1, TimelineAssumption DEF IInv, TypeOK
    <3> QED
      BY <3>1
  <2>4. TypeOK'
    BY <1>1, <2>1, <2>2, <2>3 DEF IInv, TypeOK
  <2> QED
    BY <1>1, <1>5, <2>4 DEF IInv
<1>7. InTime'
  <2> HIDE DEF start
  <2>1. CASE x # None
    BY <1>1, <2>1 DEF InTime, FloorKept, NoOverlap, NoLast
  <2>2. CASE x = None
    <3>1. \A c \in cs : start[c].at >= now + min_send_ahead
      BY <2>2, PlayStartKeeps DEF start
    <3>2. \A c \in cs : start[c].at >= line[c].end
      BY <1>2, <2>2, SoundFields
    <3>3. last'.floor = now + min_send_ahead
          /\ last'.starts = {[from |-> start[c].at, end |-> line[c].end] : c \in cs}
      BY <1>1, <2>2
    <3> QED
      BY <3>1, <3>2, <3>3 DEF InTime, FloorKept, NoOverlap
  <2> QED
    BY <2>1, <2>2
<1> QED
  BY <1>6, <1>7

\* A step that schedules nothing live leaves nothing to judge.
LEMMA NothingPlaced ==
    last' = NoLast => InTime'
BY DEF NoLast, InTime, FloorKept, NoOverlap

\* Changing one channel to a sound timeline keeps the invariant.
LEMMA OneLine ==
    ASSUME IInv, NEW c \in Channels, NEW l, Sound(l), line' = [line EXCEPT ![c] = l],
           known' \in SUBSET Channels, active' \in SUBSET Channels, committed \subseteq committed',
           committed' \subseteq known', c \notin committed' => l.end = 0,
           now' \in Times \cup {0}, calls' \in 0..MaxCalls
    PROVE  IInv'
<1>1. line \in [Channels -> Line] /\ l \in Line
  BY SoundFields DEF IInv, TypeOK
<1>2. TypeOK'
  BY <1>1 DEF TypeOK
<1>3. \A e \in Channels : line'[e] = IF e = c THEN l ELSE line[e]
  BY <1>1
<1>4. \A e \in Channels : Sound(line'[e]) /\ (e \notin committed' => line'[e].end = 0)
  BY <1>3 DEF IInv
<1> QED
  BY <1>2, <1>4 DEF IInv

LEMMA NextCall ==
    ASSUME IInv, calls < MaxCalls, calls' = calls + 1
    PROVE  calls' \in 0..MaxCalls
<1>1. calls \in 0..MaxCalls /\ MaxCalls \in Nat
  BY TimelineAssumption DEF IInv, TypeOK
<1> QED
  BY <1>1

LEMMA CommitNothingStep ==
    ASSUME IInv, CommitNothing
    PROVE  IInv' /\ InTime'
<1> DEFINE x == now + min_send_ahead
           l == Place(line[Main], x)
<1>1. x \in Int /\ x >= 0 /\ Main \in Channels
  BY FloorType, TimelineAssumption DEF IInv, TypeOK
<1>2. line[Main] \in Line /\ line[Main].end = 0 /\ committed = {}
  BY <1>1, SoundFields DEF IInv, TypeOK, CommitNothing
<1>3. Sound(l) /\ l.end = 0
  <2> HIDE DEF x
  <2> QED
    BY <1>1, <1>2, PlaceExact DEF Sound
<1>4. line' = [line EXCEPT ![Main] = l]
  BY DEF CommitNothing
<1> HIDE DEF l
<1>5. /\ known' = {Main} /\ active' = active /\ committed' = committed /\ now' = now
      /\ calls' = calls /\ active \in SUBSET Channels /\ now \in Times \cup {0}
      /\ calls \in 0..MaxCalls
  BY DEF CommitNothing, IInv, TypeOK
<1>6. IInv'
  BY <1>1, <1>2, <1>3, <1>4, <1>5, OneLine
<1> QED
  BY <1>6, NothingPlaced DEF CommitNothing

LEMMA CommitHistoryStep ==
    ASSUME IInv, NEW c \in Channels, NEW h \in Samples, NEW r \in Rates, NEW x \in {None, 0},
           CommitHistory(c, h, r, x)
    PROVE  IInv' /\ InTime'
<1> DEFINE len == (h * Second) \div r
           start == IF x # None THEN x ELSE HistoryStart(c, len)
           l == Advance(Place(line[c], start), h, r)
<1>1. h \in Nat /\ r \in Nat \ {0} /\ h * Second \in Nat
  BY TimelineAssumption
<1>2. len \in Nat
  BY <1>1, DivisionLaw
<1>3. \A e \in Channels : line[e].at \in Int /\ line[e].at >= 0 /\ line[e] \in Line
  BY SoundFields DEF IInv
<1> HIDE DEF len
<1>4. \A y \in Int : Max({0, y - len}) \in Int /\ Max({0, y - len}) >= 0
  <2> TAKE y \in Int
  <2> DEFINE b == y - len
  <2>1. b \in Int
    BY <1>2
  <2> HIDE DEF b
  <2>2. Max({0, b}) = IF 0 >= b THEN 0 ELSE b
    BY <2>1, PairExtrema
  <2>3. Max({0, b}) \in Int /\ Max({0, b}) >= 0
    BY <2>1, <2>2
  <2> QED
    BY <2>3 DEF b
<1>5. start \in Int /\ start >= 0
  <2>1. CASE x # None
    BY <2>1
  <2>2. CASE x = None /\ c \in known
    BY <1>3, <1>4, <2>2 DEF HistoryStart
  <2>3. CASE x = None /\ c \notin known /\ known = {}
    <3>1. start = now + min_send_ahead
      BY <2>3 DEF HistoryStart
    <3>2. now \in Nat
      BY TimelineAssumption DEF IInv, TypeOK
    <3> QED
      BY <3>1, <3>2, FloorType
  <2>4. CASE x = None /\ c \notin known /\ known # {}
    <3> DEFINE anchors == IF active \cap known # {} THEN active \cap known ELSE known
    <3>1. anchors \in SUBSET Channels /\ anchors # {}
      BY <2>4 DEF IInv, TypeOK
    <3>2. start = Max({0, Earliest(line, anchors) - len})
      BY <2>4 DEF HistoryStart
    <3> HIDE DEF anchors, start
    <3>3. Earliest(line, anchors) \in Int
      BY <1>3, <3>1, EarliestIs
    <3> QED
      BY <1>4, <3>2, <3>3
  <2> QED
    BY <2>1, <2>2, <2>3, <2>4
<1> HIDE DEF start
<1>6. Sound(l)
  BY <1>1, <1>3, <1>5, PlaceExact, AdvanceSound
<1>7. /\ line' = [line EXCEPT ![c] = l]
      /\ calls < MaxCalls /\ calls' = calls + 1
      /\ known' = known \cup {c} /\ committed' = committed \cup {c}
      /\ last' = NoLast /\ now' = now /\ active' = active
  BY DEF CommitHistory, start, len
<1> HIDE DEF l
<1>8. /\ known' \in SUBSET Channels /\ active' \in SUBSET Channels /\ now' \in Times \cup {0}
      /\ committed \subseteq committed' /\ committed' \subseteq known' /\ c \in committed'
  BY <1>7 DEF IInv, TypeOK
<1>9. IInv'
  BY <1>6, <1>7, <1>8, NextCall, OneLine
<1> QED
  BY <1>7, <1>9, NothingPlaced

LEMMA RoleJoinStep ==
    ASSUME IInv, NEW c \in Channels, NEW clamp \in BOOLEAN, RoleJoin(c, clamp)
    PROVE  IInv' /\ InTime'
<1> DEFINE l == RebaseFirstJoin(c)
           k == IF clamp THEN ClampFarAhead(l, c) ELSE l
<1>1. \A e \in Channels : /\ Sound(line[e]) /\ line[e] \in Line
                          /\ line[e].at \in Int /\ line[e].at >= 0 /\ line[e].end \in Int
                          /\ line[e].at >= line[e].end /\ line[e].end >= 0
  BY SoundFields DEF IInv
<1>2. Sound(l) /\ l.end = line[c].end
  <2>1. CASE c \notin known \/ known = {c} \/ c \in active
    BY <1>1, <2>1 DEF RebaseFirstJoin
  <2>2. CASE ~ (c \notin known \/ known = {c} \/ c \in active)
    <3> DEFINE first == Earliest(line, known \ {c})
               x == Max({line[c].at, first})
    <3>1. known \ {c} \in SUBSET Channels /\ known \ {c} # {}
      BY <2>2 DEF IInv, TypeOK
    <3>2. first \in Int
      BY <1>1, <3>1, EarliestIs
    <3>3. l = Place(line[c], x)
      BY <2>2 DEF RebaseFirstJoin
    <3> HIDE DEF first, l
    <3>4. x \in Int /\ x >= line[c].at
      <4> DEFINE at == line[c].at
      <4>1. at \in Int
        BY <1>1
      <4> HIDE DEF at
      <4>2. Max({at, first}) = IF at >= first THEN at ELSE first
        BY <3>2, <4>1, PairExtrema
      <4>3. Max({at, first}) \in Int /\ Max({at, first}) >= at
        BY <3>2, <4>1, <4>2
      <4> QED
        BY <4>3 DEF at
    <3> HIDE DEF x
    <3>5. x \in Int /\ x >= 0 /\ x >= line[c].end
      BY <1>1, <3>4
    <3> QED
      BY <1>1, <3>3, <3>5, PlaceExact DEF Sound
  <2> QED
    BY <2>1, <2>2
<1>3. l \in Line /\ l.at \in Int /\ l.at >= 0
  <2> HIDE DEF l
  <2> QED
    BY <1>2, SoundFields
<1>4. Sound(k) /\ k.end = line[c].end
  <2> HIDE DEF l
  <2>1. CASE ~clamp \/ c \notin known \/ c \in active \/ c \in committed
    BY <1>2, <2>1 DEF ClampFarAhead
  <2>2. CASE ~ (~clamp \/ c \notin known \/ c \in active \/ c \in committed)
    <3> DEFINE x == Min({l.at, now + SendAhead})
    <3>1. now + SendAhead \in Int /\ now + SendAhead >= 0
      BY TimelineAssumption DEF IInv, TypeOK
    <3>2. x \in Int /\ x >= 0
      BY <1>3, <3>1, PairExtrema
    <3>3. k = Place(l, x)
      BY <2>2 DEF ClampFarAhead
    <3>4. line[c].end = 0
      BY <2>2 DEF IInv
    <3> HIDE DEF x, k
    <3> QED
      BY <1>2, <1>3, <3>2, <3>3, <3>4, PlaceExact DEF Sound
  <2> QED
    BY <2>1, <2>2
<1>5. /\ line' = [line EXCEPT ![c] = k]
      /\ calls < MaxCalls /\ calls' = calls + 1 /\ active' = active \cup {c}
      /\ last' = NoLast /\ now' = now /\ known' = known /\ committed' = committed
  BY DEF RoleJoin
<1> HIDE DEF l, k
<1>6. /\ known' \in SUBSET Channels /\ active' \in SUBSET Channels /\ now' \in Times \cup {0}
      /\ committed' \subseteq known' /\ (c \notin committed' => k.end = 0)
  BY <1>4, <1>5 DEF IInv, TypeOK
<1>7. IInv'
  BY <1>4, <1>5, <1>6, NextCall, OneLine
<1> QED
  BY <1>5, <1>7, NothingPlaced

LEMMA ClearStep ==
    ASSUME IInv, Clear
    PROVE  IInv' /\ InTime'
<1>1. Sound(NoLine) /\ NoLine \in Line /\ NoLine.end = 0
  BY DEF Sound, Exact, Counted, NoLine, Line
<1>2. \A c \in Channels : line'[c] = NoLine
  BY DEF Clear
<1>3. TypeOK'
  BY <1>1 DEF IInv, TypeOK, Clear
<1>4. IInv'
  BY <1>1, <1>2, <1>3 DEF IInv
<1> QED
  BY <1>4, NothingPlaced DEF Clear

\* A step of the clock or a role that leaves moves no timeline.
LEMMA IdleStep ==
    ASSUME IInv, Tick \/ \E c \in Channels : RoleLeave(c)
    PROVE  IInv' /\ InTime'
<1>1. /\ line' = line /\ known' = known /\ committed' = committed /\ calls' = calls
      /\ last' = NoLast /\ now' \in Times \cup {0} /\ active' \in SUBSET Channels
  BY DEF Tick, RoleLeave, IInv, TypeOK
<1>2. IInv'
  BY <1>1 DEF IInv, TypeOK
<1> QED
  BY <1>1, <1>2, NothingPlaced

LEMMA InitInv == Init => IInv /\ InTime
<1> SUFFICES ASSUME Init PROVE IInv /\ InTime
  OBVIOUS
<1>1. Sound(NoLine) /\ NoLine \in Line /\ NoLine.end = 0
  BY DEF Sound, Exact, Counted, NoLine, Line
<1>2. TypeOK
  BY <1>1, TimelineAssumption DEF Init, TypeOK
<1>3. \A c \in Channels : line[c] = NoLine
  BY DEF Init
<1> QED
  BY <1>1, <1>2, <1>3 DEF Init, IInv, InTime, FloorKept, NoOverlap, NoLast

LEMMA StepInv == IInv /\ InTime /\ [Next]_vars => IInv' /\ InTime'
<1> SUFFICES ASSUME IInv, InTime, [Next]_vars PROVE IInv' /\ InTime'
  OBVIOUS
<1>1. ASSUME NEW cs \in (SUBSET Channels) \ {{}}, NEW r \in Rates, NEW x \in {None, 0},
             NEW n \in [cs -> Samples], CommitAudio(cs, n, r, x)
      PROVE  IInv' /\ InTime'
  BY <1>1, CommitAudioStep
<1>2. CASE CommitNothing
  BY <1>2, CommitNothingStep
<1>3. ASSUME NEW c \in Channels, NEW h \in Samples, NEW r \in Rates, NEW x \in {None, 0},
             CommitHistory(c, h, r, x)
      PROVE  IInv' /\ InTime'
  BY <1>3, CommitHistoryStep
<1>4. ASSUME NEW c \in Channels, NEW clamp \in BOOLEAN, RoleJoin(c, clamp)
      PROVE  IInv' /\ InTime'
  BY <1>4, RoleJoinStep
<1>5. CASE Clear
  BY <1>5, ClearStep
<1>6. CASE Tick \/ \E c \in Channels : RoleLeave(c)
  BY <1>6, IdleStep
<1>7. CASE UNCHANGED vars
  <2>1. /\ line' = line /\ known' = known /\ committed' = committed /\ calls' = calls
        /\ last' = last /\ now' = now /\ active' = active
    BY <1>7 DEF vars
  <2>2. IInv'
    BY <2>1 DEF IInv, TypeOK
  <2>3. InTime'
    BY <2>1 DEF InTime, FloorKept, NoOverlap
  <2> QED
    BY <2>2, <2>3
<1>8. CASE \E cs \in (SUBSET Channels) \ {{}}, r \in Rates, x \in {None, 0} :
              \E n \in [cs -> Samples] : CommitAudio(cs, n, r, x)
  BY <1>1, <1>8
<1>9. CASE \E c \in Channels, h \in Samples, r \in Rates, x \in {None, 0} : CommitHistory(c, h, r, x)
  BY <1>3, <1>9
<1>10. CASE \E c \in Channels, clamp \in BOOLEAN : RoleJoin(c, clamp)
  BY <1>4, <1>10
<1> QED
  BY <1>2, <1>5, <1>6, <1>7, <1>8, <1>9, <1>10, Zenon DEF Next

-----------------------------------------------------------------------------
(* Channels that listeners share.                                          *)

\* The channels of S are within m ticks of each other, to the fraction that they carry, where they
\* carry fractions of one rate; or are nearer than that by a tick, whatever they carry.
Even(t, S, m, r) ==
    /\ \A c \in S : t[c].res < r /\ (t[c].rate = r \/ t[c].res = 0)
    /\ \A c, d \in S : (t[c].at - t[d].at) * r + t[c].res - t[d].res <= m * r

Near(t, S, m) ==
    \/ \E r \in Nat \ {0} : Even(t, S, m, r)
    \/ \A c, d \in S : t[c].at - t[d].at + 1 <= m

\* Channels with listeners are within two ticks for each commit that skips counts.
Together == skips # None => skips \in Nat /\ Near(line, active \cap known, 2 * skips)

\* Lines of whole numbers.
Lines(t, S) == \A c \in S : t[c].at \in Int /\ t[c].res \in Nat /\ t[c].rate \in Nat

\* Multiplying by a positive number keeps an order, and shows it.
LEMMA Scale ==
    ASSUME NEW a \in Int, NEW b \in Int, NEW r \in Nat \ {0}
    PROVE  /\ a * r \in Int
           /\ a * r < b * r => a < b
           /\ a <= b => a * r <= b * r
<1>1. a * r \in Int /\ b * r \in Int /\ (b - a) * r = b * r - a * r /\ (a - b) * r = a * r - b * r
  <2>1. \A x, y \in Int : x * y \in Int
    OBVIOUS
  <2>2. (b - a) * r = b * r + (-a) * r /\ (-a) * r = - (a * r)
    BY Distribute
  <2>3. (a - b) * r = a * r + (-b) * r /\ (-b) * r = - (b * r)
    BY Distribute
  <2> QED
    BY <2>1, <2>2, <2>3
<1>2. \A x \in Nat, y \in Nat : x * y \in Nat
  OBVIOUS
<1>3. CASE a <= b
  <2>1. b - a \in Nat /\ (b - a) * r \in Nat
    BY <1>2, <1>3
  <2>2. a * r <= b * r
    BY <1>1, <2>1
  <2>3. a * r < b * r => a # b
    BY <1>1
  <2> QED
    BY <1>1, <1>3, <2>2, <2>3
<1>4. CASE a > b
  <2>1. a - b \in Nat /\ (a - b) * r \in Nat
    BY <1>2, <1>4
  <2> QED
    BY <1>1, <1>4, <2>1
<1> QED
  BY <1>3, <1>4

\* In either case they are within m ticks.
LEMMA NearAt ==
    ASSUME NEW t, NEW S, Lines(t, S), NEW m \in Nat, Near(t, S, m), NEW c \in S, NEW d \in S
    PROVE  t[c].at - t[d].at <= m
<1> DEFINE a == t[c].at - t[d].at
<1>1. a \in Int /\ t[c].res \in Nat /\ t[d].res \in Nat
  BY DEF Lines
<1>2. ASSUME NEW r \in Nat \ {0}, Even(t, S, m, r)
      PROVE  a <= m
  <2>1. a * r + t[c].res - t[d].res <= m * r /\ t[d].res < r
    BY <1>2 DEF Even
  <2> HIDE DEF a
  <2>2. (m + 1) * r = m * r + r /\ a * r \in Int /\ m * r \in Int
    BY <1>1, Distribute
  <2>3. a * r < (m + 1) * r
    BY <1>1, <2>1, <2>2
  <2>4. a < m + 1
    BY <1>1, <2>3, Scale
  <2> QED
    BY <1>1, <2>4
<1>3. CASE \A x, y \in S : t[x].at - t[y].at + 1 <= m
  BY <1>1, <1>3
<1> QED
  BY <1>2, <1>3 DEF Near

\* Fewer channels are as near, and lines that differ by a common shift are.
LEMMA NearShift ==
    ASSUME NEW t, NEW u, NEW S, NEW V \in SUBSET S, Lines(t, S), NEW m, NEW x \in Int, Near(t, S, m),
           \A c \in V : u[c].at = t[c].at + x /\ u[c].res = t[c].res /\ u[c].rate = t[c].rate
    PROVE  Near(u, V, m)
<1>1. \A c, d \in V : u[c].at - u[d].at = t[c].at - t[d].at
  BY DEF Lines
<1>2. ASSUME NEW r \in Nat \ {0}, Even(t, S, m, r)
      PROVE  Even(u, V, m, r)
  BY <1>1, <1>2 DEF Even
<1> QED
  BY <1>1, <1>2 DEF Near

-----------------------------------------------------------------------------
(* One commit.                                                             *)

\* What _advance_channel_timing carries over into the next buffer.
Carried(l, r) == IF l.rate = r THEN l.res ELSE 0

\* What a buffer does to a timeline: the ticks and the fraction it ends at are the fraction it carried
\* over and the buffer.
LEMMA AdvanceIs ==
    ASSUME NEW l, Exact(l), NEW n \in Nat, NEW r \in Nat \ {0}
    PROVE  LET a == Advance(l, n, r)
           IN  /\ a.at \in Int /\ a.res \in Nat /\ a.res < r /\ a.rate = r /\ a.at >= l.at
               /\ Carried(l, r) \in Nat /\ Carried(l, r) < r
               /\ (a.at - l.at) * r + a.res = Carried(l, r) + n * Second
<1> DEFINE a == Advance(l, n, r)
           fill == n * Second
           num == Carried(l, r) + fill
           q == num \div r
           m == num % r
<1>1. l.at \in Int /\ l.res \in Nat /\ l.rate \in Nat
  BY DEF Exact, Line
<1>2. Carried(l, r) \in Nat /\ Carried(l, r) < r
  BY <1>1 DEF Carried, Exact, Counted
<1>3. fill \in Nat
  BY TimelineAssumption
<1>4. num \in Nat
  BY <1>2, <1>3
<1>5. q \in Nat /\ m \in Nat /\ m < r /\ num = q * r + m
  <2> HIDE DEF num
  <2> QED
    BY <1>4, DivisionLaw
<1>6. a.at = l.at + q /\ a.res = m /\ a.rate = r
  BY DEF Advance, Carried
<1> HIDE DEF q, m, a, fill
<1>7. a.at - l.at = q
  BY <1>1, <1>5, <1>6
<1> QED
  BY <1>1, <1>2, <1>5, <1>6, <1>7 DEF a, fill

\* The channels that take part in a commit are as near after it as they were.
LEMMA AdvanceTogether ==
    ASSUME NEW t, NEW u, NEW S, \A c \in S : Exact(t[c]), NEW m \in Nat, Near(t, S, m),
           NEW n \in Nat, NEW r \in Nat \ {0}, \A c \in S : u[c] = Advance(t[c], n, r)
    PROVE  Near(u, S, m)
<1>1. Lines(t, S)
  BY DEF Lines, Exact, Line
<1>2. \A c \in S : /\ u[c].at \in Int /\ u[c].res \in Nat /\ u[c].res < r /\ u[c].rate = r
                   /\ Carried(t[c], r) \in Nat /\ Carried(t[c], r) < r
                   /\ (u[c].at - t[c].at) * r + u[c].res = Carried(t[c], r) + n * Second
  BY AdvanceIs
<1>3. ASSUME NEW c \in S, NEW d \in S
      PROVE  (u[c].at - u[d].at) * r + u[c].res - u[d].res <= m * r
  <2> DEFINE a == t[c].at - t[d].at
             b == u[c].at - u[d].at
             e == u[c].at - t[c].at
             f == u[d].at - t[d].at
             fill == n * Second
  <2>1. a \in Int /\ b \in Int /\ e \in Int /\ f \in Int /\ b = a + e - f /\ fill \in Int
    BY <1>1, <1>2, TimelineAssumption DEF Lines
  <2>2. e * r + u[c].res = Carried(t[c], r) + fill /\ f * r + u[d].res = Carried(t[d], r) + fill
    BY <1>2
  <2>3. a <= m
    BY <1>1, NearAt
  <2>4. a * r + Carried(t[c], r) - Carried(t[d], r) <= m * r
    <3>1. ASSUME NEW k \in Nat \ {0}, Even(t, S, m, k), k = r
          PROVE  a * r + Carried(t[c], r) - Carried(t[d], r) <= m * r
      <4>1. Carried(t[c], r) = t[c].res /\ Carried(t[d], r) = t[d].res
        BY <3>1 DEF Even, Carried
      <4>2. a * r + t[c].res - t[d].res <= m * r
        BY <3>1 DEF Even
      <4> QED
        BY <4>1, <4>2
    <3>2. ASSUME NEW k \in Nat \ {0}, Even(t, S, m, k), k # r
          PROVE  a * r + Carried(t[c], r) - Carried(t[d], r) <= m * r
      <4>1. Carried(t[c], r) = 0 /\ Carried(t[d], r) = 0
        BY <3>2 DEF Even, Carried
      <4> HIDE DEF a
      <4>2. a * r <= m * r /\ a * r \in Int
        BY <2>1, <2>3, Scale
      <4> QED
        BY <4>1, <4>2
    <3>3. CASE \A x, y \in S : t[x].at - t[y].at + 1 <= m
      <4>1. a + 1 <= m
        BY <3>3
      <4> HIDE DEF a
      <4>2. (a + 1) * r <= m * r
        BY <2>1, <4>1, Scale
      <4>3. (a + 1) * r = a * r + r /\ a * r \in Int /\ m * r \in Int
        BY <2>1, Distribute
      <4> QED
        BY <1>2, <4>2, <4>3
    <3> QED
      BY <3>1, <3>2, <3>3 DEF Near
  <2> HIDE DEF a, b, e, f, fill
  <2>5. b * r = a * r + e * r - f * r /\ a * r \in Int /\ e * r \in Int /\ f * r \in Int /\ m * r \in Int
    <3>1. (a + e) * r = a * r + e * r /\ (b + f) * r = b * r + f * r /\ b + f = a + e
      BY <2>1, Distribute
    <3>2. a * r \in Int /\ e * r \in Int /\ f * r \in Int /\ m * r \in Int /\ b * r \in Int
      BY <2>1, Distribute
    <3> QED
      BY <3>1, <3>2
  <2>6. b * r + u[c].res - u[d].res <= m * r
    BY <1>2, <2>1, <2>2, <2>4, <2>5
  <2> QED
    BY <2>6 DEF b
<1>4. Even(u, S, m, r)
  BY <1>2, <1>3 DEF Even
<1> QED
  BY <1>4 DEF Near

\* Buffers of one length and rate move any two channels by as much, but for a tick.
LEMMA WithinATick ==
    ASSUME NEW k, NEW l, Exact(k), Exact(l), NEW n \in Nat, NEW r \in Nat \ {0}
    PROVE  (Advance(k, n, r).at - k.at) - (Advance(l, n, r).at - l.at) <= 1
<1> DEFINE a == Advance(k, n, r)
           b == Advance(l, n, r)
           e == a.at - k.at
           f == b.at - l.at
           fill == n * Second
<1>1. k.at \in Int /\ l.at \in Int
  BY DEF Exact, Line
<1>2. /\ a.at \in Int /\ a.res \in Nat /\ Carried(k, r) < r /\ Carried(k, r) \in Nat
      /\ e * r + a.res = Carried(k, r) + fill
  BY AdvanceIs
<1>3. /\ b.at \in Int /\ b.res \in Nat /\ b.res < r /\ Carried(l, r) \in Nat
      /\ f * r + b.res = Carried(l, r) + fill
  BY AdvanceIs
<1>4. e \in Int /\ f \in Int /\ fill \in Int
  BY <1>1, <1>2, <1>3, TimelineAssumption
<1> HIDE DEF a, b, e, f, fill
<1>5. e * r \in Int /\ f * r \in Int /\ (f + 2) * r = f * r + 2 * r
  BY <1>4, Distribute
<1>6. e * r < (f + 2) * r
  BY <1>2, <1>3, <1>4, <1>5
<1>7. e < f + 2
  BY <1>4, <1>6, Scale
<1>8. e - f <= 1
  BY <1>4, <1>7
<1> QED
  BY <1>8 DEF e, f, a, b

\* The fields of a placed timeline, and of a shifted one.
LEMMA PlaceIs ==
    ASSUME NEW l \in Line, NEW x \in Int
    PROVE  Place(l, x).at = x /\ Place(l, x).res = 0 /\ Place(l, x).rate = l.rate /\ Place(l, x).rate \in Nat
BY DEF Place, Line

LEMMA ShiftIs ==
    ASSUME NEW l \in Line, NEW d \in Int
    PROVE  Shift(l, d).at = l.at + d /\ Shift(l, d).res = l.res /\ Shift(l, d).rate = l.rate
BY DEF Shift, Line

\* Where a commit starts: the channels it knows where they are, those it places at the first of the
\* others, and all of them later by what the commit is late.
LEMMA PlayStartIs ==
    ASSUME IInv, NEW cs \in SUBSET Channels, cs # {}
    PROVE  LET have == (active \cup cs) \cap known
               x == IF have = {} THEN now + min_send_ahead ELSE Earliest(line, have)
               start == PlayStart(cs, None)
           IN  \E d \in Int : \A c \in known \cup cs :
                  /\ start[c].at = (IF c \in cs \ known THEN x ELSE line[c].at) + d
                  /\ start[c].res = (IF c \in cs \ known THEN 0 ELSE line[c].res)
                  /\ start[c].rate = line[c].rate
<1> DEFINE have == (active \cup cs) \cap known
           x == IF have = {} THEN now + min_send_ahead ELSE Earliest(line, have)
           t == PlaceNew(cs)
           kn == known \cup cs
           first == Earliest(t, (active \cup cs) \cap kn)
           d == now + min_send_ahead - first
           start == PlayStart(cs, None)
<1>1. known \in SUBSET Channels /\ now \in Int /\ min_send_ahead \in Int
  BY FloorType, TimelineAssumption DEF IInv, TypeOK
<1>2. \A c \in Channels : line[c] \in Line /\ line[c].at \in Int
  BY SoundFields DEF IInv
<1>3. x \in Int
  <2>1. have \in SUBSET Channels
    BY <1>1
  <2> HIDE DEF have
  <2> QED
    BY <1>1, <1>2, <2>1, EarliestIs
<1>4. Kept(t)
  BY PlaceNewKeeps
<1>5. \A c \in Channels : t[c] \in Line /\ t[c].at \in Int
  <2> HIDE DEF t
  <2> QED
    BY <1>4, SoundFields DEF Kept
<1>6. \A c \in kn : /\ t[c].at = (IF c \in cs \ known THEN x ELSE line[c].at)
                    /\ t[c].res = (IF c \in cs \ known THEN 0 ELSE line[c].res)
                    /\ t[c].rate = line[c].rate
  <2>1. \A c \in Channels : t[c] = IF c \in cs \ known THEN Place(line[c], x) ELSE line[c]
    BY DEF PlaceNew
  <2> HIDE DEF t, x
  <2> QED
    BY <1>1, <1>2, <1>3, <2>1, PlaceIs
<1>7. d \in Int
  <2>1. (active \cup cs) \cap kn \in SUBSET Channels /\ (active \cup cs) \cap kn # {}
    BY <1>1
  <2> HIDE DEF t, kn
  <2>2. first \in Int
    BY <1>5, <2>1, EarliestIs
  <2> QED
    BY <1>1, <2>2
<1>8. start = IF d > 0 THEN [c \in Channels |-> IF c \in kn THEN Shift(t[c], d) ELSE t[c]] ELSE t
  BY DEF PlayStart, Rebase
<1>9. kn \in SUBSET Channels
  BY <1>1
<1> HIDE DEF t, d, start
<1>10. \E e \in Int : \A c \in kn : /\ start[c].at = t[c].at + e
                                    /\ start[c].res = t[c].res /\ start[c].rate = t[c].rate
  <2>1. CASE d > 0
    <3>1. \A c \in kn : start[c] = Shift(t[c], d)
      BY <1>8, <1>9, <2>1
    <3> HIDE DEF kn
    <3> QED
      BY <1>5, <1>7, <1>9, <3>1, ShiftIs
  <2>2. CASE ~ (d > 0)
    <3>1. \A c \in kn : start[c].at = t[c].at + 0 /\ start[c] = t[c]
      BY <1>5, <1>8, <1>9, <2>2
    <3> QED
      BY <3>1
  <2> QED
    BY <2>1, <2>2
<1> HIDE DEF x
<1>11. \E e \in Int : \A c \in kn : /\ start[c].at = (IF c \in cs \ known THEN x ELSE line[c].at) + e
                                    /\ start[c].res = (IF c \in cs \ known THEN 0 ELSE line[c].res)
                                    /\ start[c].rate = line[c].rate
  BY <1>6, <1>10
<1> QED
  BY <1>11 DEF x, start

\* Exact timelines are whole numbers.
LEMMA LinesOf ==
    ASSUME NEW t, NEW S, \A c \in S : Exact(t[c])
    PROVE  Lines(t, S)
BY DEF Lines, Exact, Line

\* A commit that every channel with listeners takes part in, none of them for the first time beside
\* others, leaves them as near as they were.
LEMMA InStep ==
    ASSUME IInv, NEW cs \in SUBSET Channels, cs # {}, NEW m \in Nat, Near(line, active \cap known, m),
           cs \cap known \subseteq active, active \subseteq cs,
           cs \subseteq known \/ active \cap known = {},
           NEW len \in Nat, NEW r \in Nat \ {0}, NEW u,
           \A c \in cs : u[c] = Advance(PlayStart(cs, None)[c], len, r)
    PROVE  Near(u, cs, m)
<1> DEFINE have == (active \cup cs) \cap known
           x == IF have = {} THEN now + min_send_ahead ELSE Earliest(line, have)
           start == PlayStart(cs, None)
<1>1. PICK d \in Int : \A c \in known \cup cs :
                  /\ start[c].at = (IF c \in cs \ known THEN x ELSE line[c].at) + d
                  /\ start[c].res = (IF c \in cs \ known THEN 0 ELSE line[c].res)
                  /\ start[c].rate = line[c].rate
  BY PlayStartIs
<1>2. \A c \in Channels : Exact(start[c]) /\ Exact(line[c])
  BY PlayStartKeeps DEF IInv, Sound
<1>3. \A c \in cs : u[c] = Advance(start[c], len, r)
  OBVIOUS
<1> HIDE DEF x, start
<1>4. Near(start, cs, m)
  <2>1. CASE cs \subseteq known
    <3>1. cs = active \cap known
      BY <2>1
    <3>2. Lines(line, active \cap known)
      BY <1>2, <3>1, LinesOf
    <3>3. \A c \in cs : /\ start[c].at = line[c].at + d
                        /\ start[c].res = line[c].res /\ start[c].rate = line[c].rate
      BY <1>1, <2>1
    <3> QED
      BY <3>1, <3>2, <3>3, NearShift
  <2>2. CASE active \cap known = {}
    <3>1. cs \cap known = {}
      BY <2>2
    <3>2. \A c \in cs : start[c].at = x + d /\ start[c].res = 0 /\ start[c].at \in Int
      BY <1>1, <1>2, <3>1 DEF Exact, Line
    <3>3. \A c, e \in cs : start[c].at - start[e].at = 0
      BY <3>2
    <3>4. Even(start, cs, m, 1)
      BY <3>2, <3>3 DEF Even
    <3> QED
      BY <3>4 DEF Near
  <2> QED
    BY <2>1, <2>2
<1> QED
  BY <1>2, <1>3, <1>4, AdvanceTogether

\* Any other commit of buffers of one length takes them at most two ticks further apart.
LEMMA OutOfStep ==
    ASSUME IInv, NEW cs \in SUBSET Channels, cs # {}, NEW m \in Nat, Near(line, active \cap known, m),
           cs \cap known \subseteq active,
           NEW len \in Nat, NEW r \in Nat \ {0}, NEW end, NEW kn,
           \A c \in Channels : end[c] = IF c \in cs THEN Advance(PlayStart(cs, None)[c], len, r)
                                        ELSE PlayStart(cs, None)[c],
           kn = known \cup cs \cup (IF \E c \in cs : end[c].at > PlayStart(cs, None)[c].at
                                    THEN active ELSE {})
    PROVE  Near(CarryAlong(PlayStart(cs, None), end, cs), active \cap kn, m + 2)
<1> DEFINE have == (active \cup cs) \cap known
           x == IF have = {} THEN now + min_send_ahead ELSE Earliest(line, have)
           start == PlayStart(cs, None)
           done == CarryAlong(start, end, cs)
           U == (active \cap known) \cup cs
           lens == [c \in cs |-> end[c].at - start[c].at]
           d == Max({end[c].at - start[c].at : c \in cs})
           first == Earliest(start, cs)
           Joined(c) == IF c \in known THEN end[c] ELSE Place(end[c], first)
<1>1. PICK late \in Int : \A c \in known \cup cs :
                  /\ start[c].at = (IF c \in cs \ known THEN x ELSE line[c].at) + late
                  /\ start[c].res = (IF c \in cs \ known THEN 0 ELSE line[c].res)
                  /\ start[c].rate = line[c].rate
  BY PlayStartIs
<1>2. \A c \in Channels : Exact(start[c]) /\ Exact(line[c])
  BY PlayStartKeeps DEF IInv, Sound
<1>3. /\ known \in SUBSET Channels /\ active \in SUBSET Channels /\ U \in SUBSET Channels
      /\ \A c \in Channels : start[c].at \in Int /\ start[c] \in Line /\ line[c].at \in Int
  BY <1>2 DEF IInv, TypeOK, Exact, Line
<1>4. \A c \in cs : /\ end[c].at \in Int /\ end[c].at >= start[c].at
                    /\ \A e \in cs : lens[c] - lens[e] <= 1
                    /\ lens[c] \in Int /\ lens[c] >= 0 /\ end[c].at = start[c].at + lens[c]
  <2>1. \A c \in cs : end[c] = Advance(start[c], len, r)
    OBVIOUS
  <2> HIDE DEF start
  <2>2. \A c \in cs : end[c].at \in Int /\ end[c].at >= start[c].at
    BY <1>2, <2>1, AdvanceIs
  <2>3. \A c, e \in cs : (end[c].at - start[c].at) - (end[e].at - start[e].at) <= 1
    BY <1>2, <2>1, WithinATick
  <2> QED
    BY <1>3, <2>2, <2>3
<1>5. /\ \E k \in cs : d = lens[k]
      /\ \A k \in cs : d >= lens[k]
  <2>1. lens \in [cs -> Int] /\ {lens[c] : c \in cs} = {end[c].at - start[c].at : c \in cs}
    BY <1>4
  <2>2. IsFiniteSet(cs)
    BY TimelineAssumption, FS_Subset
  <2>3. /\ \E k \in cs : Max({lens[y] : y \in cs}) = lens[k]
        /\ \A k \in cs : Max({lens[y] : y \in cs}) >= lens[k]
    <3> HIDE DEF lens
    <3> QED
      BY <2>1, <2>2, MaxOfValues
  <2> QED
    BY <2>1, <2>3
<1>6. \E k \in cs : first = start[k].at
  <2> HIDE DEF start
  <2> QED
    BY <1>3, EarliestIs
\* No two of them start further apart than the channels were.
<1>7. \A c, e \in U : start[c].at - start[e].at <= m
  <2> DEFINE At(c) == IF c \in cs \ known THEN x ELSE line[c].at
  <2>1. \A c, e \in active \cap known : line[c].at - line[e].at <= m
    <3>1. Lines(line, active \cap known)
      BY <1>2, <1>3, LinesOf
    <3> QED
      BY <3>1, NearAt
  <2>2. have = active \cap known
    OBVIOUS
  <2>3. have # {} => \E k \in active \cap known : x = line[k].at
    <3>1. have \in SUBSET Channels
      BY <1>3
    <3> HIDE DEF have
    <3> QED
      BY <1>3, <2>2, <3>1, EarliestIs
  <2>4. \A c \in U : start[c].at = At(c) + late /\ (c \in cs \ known \/ c \in active \cap known)
    BY <1>1
  <2>5. \A c, e \in U : At(c) - At(e) <= m /\ At(c) \in Int
    <3>1. x \in Int
      <4>1. now + min_send_ahead \in Int
        BY FloorType, TimelineAssumption DEF IInv, TypeOK
      <4> QED
        BY <1>3, <2>3, <4>1
    <3>2. CASE have = {}
      <4>1. \A c \in U : At(c) = x
        BY <2>2, <2>4, <3>2
      <4> HIDE DEF At, x, U
      <4> QED
        BY <3>1, <4>1
    <3>3. CASE have # {}
      <4>1. PICK k \in active \cap known : x = line[k].at
        BY <2>3, <3>3
      <4>2. \A c \in U : \E j \in active \cap known : At(c) = line[j].at
        BY <2>4, <4>1
      <4> HIDE DEF At, x, U
      <4> QED
        BY <1>3, <2>1, <4>2
    <3> QED
      BY <3>2, <3>3
  <2> HIDE DEF At, start, U
  <2> QED
    BY <2>4, <2>5
<1>8. done = [c \in Channels |-> IF c \in active \ cs /\ d > 0 THEN Shift(Joined(c), d) ELSE end[c]]
  BY DEF CarryAlong
\* Each ends where one of them starts, and by what one of them moved.
<1>9. \A c \in active \cap kn : \E k \in U, j \in cs : done[c].at = start[k].at + lens[j]
  <2> SUFFICES ASSUME NEW c \in active \cap kn
               PROVE  \E k \in U, j \in cs : done[c].at = start[k].at + lens[j]
    OBVIOUS
  <2>1. c \in Channels /\ (c \notin cs => end[c] = start[c])
    BY <1>3
  <2> HIDE DEF start, lens, done, first, d
  <2>2. CASE c \in cs
    BY <1>4, <1>8, <2>1, <2>2
  <2>3. CASE c \notin cs /\ d > 0
    <3>1. done[c] = Shift(Joined(c), d)
      BY <1>8, <2>1, <2>3
    <3>2. Joined(c) \in Line /\ Joined(c).at = IF c \in known THEN start[c].at ELSE first
      <4>1. CASE c \in known
        BY <1>3, <2>1, <2>3, <4>1
      <4>2. CASE c \notin known
        <5>1. first \in Int /\ end[c] \in Line
          BY <1>3, <1>6, <2>1, <2>3
        <5>2. Place(end[c], first) \in Line /\ Place(end[c], first).at = first
          BY <5>1 DEF Place, Line
        <5> QED
          BY <4>2, <5>2
      <4> QED
        BY <4>1, <4>2
    <3>3. d \in Int
      BY <1>4, <1>5
    <3>4. done[c].at = Joined(c).at + d
      <4> HIDE DEF Joined
      <4> QED
        BY <3>1, <3>2, <3>3, ShiftIs
    <3> QED
      BY <1>5, <1>6, <2>3, <3>2, <3>4
  <2>4. CASE c \notin cs /\ ~(d > 0)
    <3>1. \A k \in cs : lens[k] = 0 /\ end[k].at = start[k].at
      BY <1>3, <1>4, <1>5, <2>4
    <3>2. c \in known
      BY <1>3, <2>4, <3>1 DEF start
    <3>3. done[c] = start[c]
      BY <1>8, <2>1, <2>4
    <3>4. \A k \in cs : done[c].at = start[c].at + lens[k]
      BY <1>3, <2>1, <3>1, <3>3
    <3> QED
      BY <3>2, <3>4
  <2> QED
    BY <2>2, <2>3, <2>4
<1>10. \A c, e \in active \cap kn : done[c].at - done[e].at + 1 <= m + 2
  <2> SUFFICES ASSUME NEW c \in active \cap kn, NEW e \in active \cap kn
               PROVE  done[c].at - done[e].at + 1 <= m + 2
    OBVIOUS
  <2>1. PICK k \in U, j \in cs : done[c].at = start[k].at + lens[j]
    BY <1>9
  <2>2. PICK h \in U, i \in cs : done[e].at = start[h].at + lens[i]
    BY <1>9
  <2>3. start[k].at - start[h].at <= m /\ start[k].at \in Int /\ start[h].at \in Int
    BY <1>3, <1>7
  <2>4. lens[j] - lens[i] <= 1 /\ lens[j] \in Int /\ lens[i] \in Int
    BY <1>4
  <2> HIDE DEF start, done, lens
  <2> QED
    BY <2>1, <2>2, <2>3, <2>4
<1> QED
  BY <1>10 DEF Near

\* A commit keeps the channels together, or owns in skips that it does not.
LEMMA CommitTogether ==
    ASSUME IInv, Together, NEW cs \in SUBSET Channels, cs # {}, NEW n \in [cs -> Samples], NEW r \in Rates,
           NEW x \in {None, 0}, CommitAudio(cs, n, r, x)
    PROVE  Together'
<1> SUFFICES ASSUME skips' # None
             PROVE  skips' \in Nat /\ Near(line', active' \cap known', 2 * skips')
  BY DEF Together
<1> DEFINE start == PlayStart(cs, x)
           end == [c \in Channels |-> IF c \in cs THEN Advance(start[c], n[c], r) ELSE start[c]]
           moves == \E c \in cs : end[c].at > start[c].at
           kn == known \cup cs \cup (IF moves THEN active ELSE {})
           gone == Stale(kn, committed \cup cs)
           done == CarryAlong(start, end, cs)
           all == active \subseteq cs /\ (cs \subseteq known \/ active \cap known = {})
<1>1. /\ skips # None /\ x = None /\ \A c, d \in cs : n[c] = n[d]
      /\ cs \cap known \subseteq active
      /\ skips' = IF all THEN skips ELSE skips + 1
      /\ line' = [c \in Channels |-> IF c \in gone THEN [done[c] EXCEPT !.res = 0, !.rate = 0]
                                     ELSE done[c]]
      /\ known' = kn \ gone /\ active' = active
  <2>1. /\ line' = [c \in Channels |-> IF c \in gone THEN [done[c] EXCEPT !.res = 0, !.rate = 0]
                                       ELSE done[c]]
        /\ known' = kn \ gone /\ active' = active
    BY DEF CommitAudio
  <2>2. skips' = IF \/ skips = None \/ x /= None \/ \E c, d \in cs : n[c] /= n[d]
                    \/ ~(cs \cap known \subseteq active)
                 THEN None ELSE IF all THEN skips ELSE skips + 1
    BY DEF CommitAudio
  <2> HIDE DEF all
  <2>3. /\ skips # None /\ x = None /\ \A c, d \in cs : n[c] = n[d]
        /\ cs \cap known \subseteq active
        /\ skips' = IF all THEN skips ELSE skips + 1
    BY <2>2
  <2> QED
    BY <2>1, <2>3
<1>2. skips \in Nat /\ Near(line, active \cap known, 2 * skips) /\ 2 * skips \in Nat
  <2>1. skips \in Nat /\ Near(line, active \cap known, 2 * skips)
    BY <1>1, Zenon DEF Together
  <2>2. \A i \in Nat : 2 * i \in Nat
    OBVIOUS
  <2> QED
    BY <2>1, <2>2, Zenon
<1>3. PICK len \in Nat : \A c \in cs : n[c] = len
  <2>1. PICK c \in cs : TRUE
    OBVIOUS
  <2> QED
    BY <1>1, <2>1, TimelineAssumption
<1>4. r \in Nat \ {0}
  BY TimelineAssumption
<1>5. active \cap kn \subseteq Channels /\ active \cap gone = {} /\ active' \cap known' = active \cap kn
  <2>1. active \cap gone = {}
    BY DEF Stale
  <2>2. kn \subseteq Channels
    BY DEF IInv, TypeOK
  <2> HIDE DEF kn, gone
  <2> QED
    BY <1>1, <2>1, <2>2
<1>6. \A c \in active \cap kn : line'[c] = done[c]
  <2> HIDE DEF kn, gone, done
  <2> QED
    BY <1>1, <1>5
<1>7. \A c \in Channels : Sound(done[c])
  <2>1. \A c \in Channels : /\ Exact(start[c]) /\ start[c].end = line[c].end
                            /\ c \notin cs => Sound(start[c])
    BY PlayStartKeeps
  <2>2. \A c \in Channels : Sound(end[c]) /\ (c \notin cs => end[c].end = line[c].end)
    <3> HIDE DEF start
    <3>1. \A c \in cs : Sound(end[c])
      BY <1>3, <1>4, <2>1, AdvanceSound
    <3> QED
      BY <2>1, <3>1
  <2> HIDE DEF start, end
  <2> QED
    BY <2>1, <2>2, CarryAlongKeeps
<1>8. ASSUME NEW m \in Nat, Near(done, active \cap kn, m)
      PROVE  Near(line', active' \cap known', m)
  <2> HIDE DEF done, kn, gone
  <2>1. Lines(done, active \cap kn) /\ \A c \in active \cap kn : done[c].at \in Int
    BY <1>5, <1>7, LinesOf, SoundFields DEF Sound
  <2>2. \A c \in active \cap kn : /\ line'[c].at = done[c].at + 0
                                  /\ line'[c].res = done[c].res /\ line'[c].rate = done[c].rate
    BY <1>6, <2>1
  <2> QED
    BY <1>5, <1>8, <2>1, <2>2, NearShift
<1>9. CASE all
  <2>1. \A c \in cs : end[c] = Advance(PlayStart(cs, None)[c], len, r)
    <3> HIDE DEF start
    <3>1. \A c \in cs : end[c] = Advance(start[c], len, r)
      BY <1>3
    <3> QED
      BY <1>1, <3>1 DEF start
  <2>2. Near(end, cs, 2 * skips)
    <3> HIDE DEF end
    <3> QED
      BY <1>1, <1>2, <1>4, <1>9, <2>1, InStep
  <2>3. active \cap kn \in SUBSET cs /\ \A c \in active \cap kn : done[c] = end[c]
    <3> HIDE DEF start, end
    <3> QED
      BY <1>5, <1>9 DEF CarryAlong
  <2>4. \A c \in cs : Exact(end[c]) /\ end[c].at \in Int
    <3>1. \A c \in cs : Exact(start[c])
      BY PlayStartKeeps
    <3> HIDE DEF start
    <3>2. \A c \in cs : Sound(end[c])
      BY <1>3, <1>4, <3>1, AdvanceSound
    <3> QED
      BY <3>2, SoundFields DEF Sound
  <2> HIDE DEF end, done, kn
  <2>5. Lines(end, cs)
    BY <2>4, LinesOf
  <2>6. \A c \in active \cap kn : /\ done[c].at = end[c].at + 0
                                  /\ done[c].res = end[c].res /\ done[c].rate = end[c].rate
    BY <2>3, <2>4
  <2>7. Near(done, active \cap kn, 2 * skips)
    BY <2>2, <2>3, <2>5, <2>6, NearShift
  <2>8. skips' = skips
    BY <1>1, <1>9
  <2> QED
    BY <1>2, <1>8, <2>7, <2>8
<1>10. CASE ~all
  <2>1. skips' = skips + 1 /\ 2 * skips' = 2 * skips + 2
    <3>1. skips \in Nat
      BY <1>2, Zenon
    <3>2. skips' = skips + 1
      <4> HIDE DEF all
      <4> QED
        BY <1>1, <1>10, Zenon
    <3> QED
      BY <3>1, <3>2
  <2>2. start = PlayStart(cs, None)
    BY <1>1
  <2>3. \A c \in Channels : end[c] = IF c \in cs THEN Advance(start[c], len, r) ELSE start[c]
    <3> HIDE DEF start
    <3> QED
      BY <1>3
  <2>4. kn = known \cup cs \cup (IF \E c \in cs : end[c].at > start[c].at THEN active ELSE {})
    OBVIOUS
  <2>5. Near(done, active \cap kn, 2 * skips + 2)
    <3> DEFINE s == PlayStart(cs, None)
               m == 2 * skips
    <3>1. s = start /\ done = CarryAlong(s, end, cs)
      BY <2>2
    <3>2. \A c \in Channels : end[c] = IF c \in cs THEN Advance(s[c], len, r) ELSE s[c]
      BY <2>2, <2>3, Zenon
    <3>3. kn = known \cup cs \cup (IF \E c \in cs : end[c].at > s[c].at THEN active ELSE {})
      BY <2>2, <2>4
    <3>4. m \in Nat /\ Near(line, active \cap known, m)
      BY <1>2, Zenon
    <3> HIDE DEF start, end, kn, done, m
    <3>5. Near(CarryAlong(s, end, cs), active \cap kn, m + 2)
      BY <1>1, <1>4, <3>2, <3>3, <3>4, OutOfStep, Zenon
    <3> QED
      BY <3>1, <3>5 DEF m
  <2> HIDE DEF done, kn
  <2> QED
    BY <1>2, <1>8, <2>1, <2>5
<1> QED
  BY <1>9, <1>10

\* The other steps move no channel that is listened to alone, or own that they do.
LEMMA OthersTogether ==
    ASSUME IInv, Together,
           \/ CommitNothing \/ Clear \/ Tick
           \/ \E c \in Channels, h \in Samples, r \in Rates, x \in {None, 0} : CommitHistory(c, h, r, x)
           \/ \E c \in Channels, clamp \in BOOLEAN : RoleJoin(c, clamp)
           \/ \E c \in Channels : RoleLeave(c)
    PROVE  Together'
<1>1. /\ \A c \in Channels : line[c] \in Line /\ line[c].at \in Int
      /\ known \in SUBSET Channels /\ active \in SUBSET Channels /\ line \in [Channels -> Line]
  BY SoundFields DEF IInv, TypeOK
<1>2. Lines(line, active \cap known)
  BY <1>1 DEF Lines, Line
<1>3. \A m \in Nat : 2 * m \in Nat
  OBVIOUS
<1>4. CASE CommitNothing
  <2> SUFFICES ASSUME skips' # None PROVE skips' \in Nat /\ Near(line', active' \cap known', 2 * skips')
    BY DEF Together
  <2>1. skips' = skips /\ skips \in Nat
    BY <1>4 DEF CommitNothing, Together
  <2>2. known' = {Main} /\ Main \in Channels /\ line'[Main] = Place(line[Main], now + min_send_ahead)
    BY <1>1, <1>4, TimelineAssumption DEF CommitNothing
  <2>3. now + min_send_ahead \in Int
    BY FloorType, TimelineAssumption DEF IInv, TypeOK
  <2>4. line'[Main].res = 0 /\ line'[Main].at \in Int
    BY <1>1, <2>2, <2>3, PlaceIs
  <2> DEFINE m == 2 * skips'
  <2>5. m \in Nat
    BY <1>3, <2>1
  <2> HIDE DEF m
  <2>6. Even(line', active' \cap known', m, 1)
    BY <2>2, <2>4, <2>5 DEF Even
  <2> QED
    BY <2>1, <2>6 DEF Near, m
<1>5. CASE Clear
  <2>1. skips' = 0 /\ known' = {}
    BY <1>5 DEF Clear
  <2>2. Near(line', active' \cap known', 2 * skips')
    BY <2>1 DEF Near, Even
  <2> QED
    BY <2>1, <2>2 DEF Together
<1>6. CASE \E c \in Channels, h \in Samples, r \in Rates, x \in {None, 0} : CommitHistory(c, h, r, x)
  BY <1>6 DEF CommitHistory, Together
\* The rest leave every channel where it is.
<1>7. ASSUME line' = line, skips' = skips, active' \cap known' \subseteq active \cap known
      PROVE  Together'
  <2> SUFFICES ASSUME skips' # None PROVE skips' \in Nat /\ Near(line', active' \cap known', 2 * skips')
    BY DEF Together
  <2>1. skips \in Nat /\ Near(line, active \cap known, 2 * skips)
    BY <1>7 DEF Together
  <2>2. \A c \in active' \cap known' : line'[c].at = line[c].at + 0
    BY <1>1, <1>7
  <2> DEFINE m == 2 * skips
  <2>3. Near(line, active \cap known, m)
    BY <2>1
  <2> HIDE DEF m
  <2>4. Near(line', active' \cap known', m)
    BY <1>2, <1>7, <2>2, <2>3, NearShift
  <2> QED
    BY <1>7, <2>1, <2>4 DEF m
<1>8. CASE Tick
  BY <1>7, <1>8 DEF Tick
<1>9. CASE \E c \in Channels : RoleLeave(c)
  BY <1>7, <1>9 DEF RoleLeave
<1>10. ASSUME NEW c \in Channels, NEW clamp \in BOOLEAN, RoleJoin(c, clamp)
       PROVE  Together'
  <2>1. CASE c \in known \ active
    BY <1>10, <2>1 DEF RoleJoin, Together
  <2>2. CASE c \notin known \ active
    <3>1. RebaseFirstJoin(c) = line[c] /\ ClampFarAhead(line[c], c) = line[c]
      BY <2>2 DEF RebaseFirstJoin, ClampFarAhead
    <3>2. line' = [line EXCEPT ![c] = line[c]]
      BY <1>10, <3>1 DEF RoleJoin
    <3>3. line' = line
      BY <1>1, <3>2
    <3>4. skips' = skips /\ active' = active \cup {c} /\ known' = known
      BY <1>10, <2>2 DEF RoleJoin
    <3> QED
      BY <1>7, <2>2, <3>3, <3>4
  <2> QED
    BY <2>1, <2>2
<1> QED
  BY <1>4, <1>5, <1>6, <1>8, <1>9, <1>10

\* No channel has a timeline at first.
LEMMA InitTogether == Init => Together
<1> SUFFICES ASSUME Init PROVE Together
  OBVIOUS
<1>1. skips = 0 /\ known = {}
  BY DEF Init
<1>2. Near(line, active \cap known, 2 * skips)
  BY <1>1 DEF Near, Even
<1> QED
  BY <1>1, <1>2 DEF Together

\* Together is inductive, beside IInv.
LEMMA StepTogether == IInv /\ Together /\ [Next]_vars => Together'
<1> SUFFICES ASSUME IInv, Together, [Next]_vars PROVE Together'
  OBVIOUS
<1>1. ASSUME NEW cs \in (SUBSET Channels) \ {{}}, NEW r \in Rates, NEW x \in {None, 0},
             NEW n \in [cs -> Samples], CommitAudio(cs, n, r, x)
      PROVE  Together'
  BY <1>1, CommitTogether
<1>2. CASE \E cs \in (SUBSET Channels) \ {{}}, r \in Rates, x \in {None, 0} :
              \E n \in [cs -> Samples] : CommitAudio(cs, n, r, x)
  BY <1>1, <1>2
<1>3. CASE UNCHANGED vars
  <2>1. line' = line /\ known' = known /\ active' = active /\ skips' = skips
    BY <1>3 DEF vars
  <2> QED
    BY <2>1 DEF Together, Near, Even
<1>4. CASE Next
  BY <1>2, <1>4, OthersTogether, Zenon DEF Next
<1> QED
  BY <1>3, <1>4

\* It is more than Aligned says.
LEMMA TogetherAligns == IInv /\ Together => Aligned
<1> SUFFICES ASSUME IInv, Together, skips # None, NEW c \in active \cap known, NEW d \in active \cap known
             PROVE  line[c].at - line[d].at <= 2 * skips
  BY DEF Aligned
<1>1. skips \in Nat /\ Near(line, active \cap known, 2 * skips)
  BY DEF Together
<1>2. Lines(line, active \cap known)
  BY LinesOf DEF IInv, TypeOK, Sound
<1> DEFINE m == 2 * skips
<1>3. m \in Nat /\ Near(line, active \cap known, m)
  BY <1>1
<1> HIDE DEF m
<1>4. line[c].at - line[d].at <= m
  BY <1>2, <1>3, NearAt
<1> QED
  BY <1>4 DEF m

-----------------------------------------------------------------------------
(* The theorems.                                                           *)

\* IInv and InTime are inductive: every commit, join, clear, prune and tick keeps them.
THEOREM Invariance == Spec => [](IInv /\ InTime)
BY InitInv, StepInv, PTL DEF Spec

\* The timelines keep their types through every commit, join and clear.
THEOREM TypeCorrect == Spec => []TypeOK
<1>1. IInv => TypeOK
  BY DEF IInv
<1> QED
  BY <1>1, Invariance, PTL

\* _advance_channel_timing never drifts: for every rate and however many buffers, the
\* timeline is off the audio it was fed by less than a tick, and carries exactly that.
THEOREM TimelinesAreDriftFree == Spec => []DriftFree
<1>1. IInv => DriftFree
  BY DEF IInv, TypeOK, DriftFree, Sound, Exact, Counted
<1> QED
  BY <1>1, Invariance, PTL

\* Live audio is placed at or after the floor of _resolve_channel_play_start, and never
\* before the end of the channel's earlier audio.
THEOREM LiveAudioIsInTime == Spec => [](FloorKept /\ NoOverlap)
<1>1. InTime => FloorKept /\ NoOverlap
  BY DEF InTime
<1> QED
  BY <1>1, Invariance, PTL

\* Channels that listeners share, and that every commit has audio for, are at the same tick; what each
\* commit that misses one of them, or brings a late one, may cost is two ticks (commit_audio).
THEOREM ChannelsStayTogether == Spec => []Aligned
<1>1. Init => IInv /\ InTime /\ Together
  BY InitInv, InitTogether
<1>2. IInv /\ InTime /\ Together /\ [Next]_vars => IInv' /\ InTime' /\ Together'
  BY StepInv, StepTogether
<1>3. IInv /\ InTime /\ Together => Aligned
  BY TogetherAligns
<1> QED
  BY <1>1, <1>2, <1>3, PTL DEF Spec

\* The same of the timelines in the run beside the stream: their types, the floor and the earlier audio
\* they keep off, and the channels together.
THEOREM AudioIsPlaced == MCSpec => []Placed
<1> DEFINE Inv == IInv /\ InTime /\ Together
<1>1. MCInit => Inv
  BY InitInv, InitTogether DEF MCInit
<1>2. Inv /\ [MCNext]_<<which, vars, stream>> => Inv'
  <2> SUFFICES ASSUME Inv, [MCNext]_<<which, vars, stream>> PROVE Inv'
    OBVIOUS
  <2>1. [Next]_vars
    BY DEF MCNext
  <2> QED
    BY <2>1, StepInv, StepTogether
<1>3. Inv => Placed
  BY TogetherAligns DEF Placed, IInv, InTime
<1> QED
  BY <1>1, <1>2, <1>3, PTL DEF MCSpec

=============================================================================
