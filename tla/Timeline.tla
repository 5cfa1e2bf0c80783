------------------------------- MODULE Timeline -------------------------------
(***************************************************************************)
(* When audio is to be played: the per-channel timelines of the SDK        *)
(* server's PushStream (server/push_stream.py). A commit gives every       *)
(* channel's audio its start and moves the channel on by the audio's       *)
(* length, in whole ticks with the remainder kept; a stall shifts all      *)
(* channels together; history is put before the live audio; a joining role *)
(* may move its channel. None of this awaits, so each is one step.         *)
(***************************************************************************)
EXTENDS Integers, FiniteSets, FiniteSetsExt

CONSTANTS Channels,     \* audio channels
          Main,         \* MAIN_CHANNEL
          Second,       \* ticks in a second (1_000_000 in the code)
          Rates,        \* sample rates
          Samples,      \* numbers of samples in one prepared buffer
          SendAhead,    \* send-ahead floor while roles are active
          InitialDelay, \* DEFAULT_INITIAL_DELAY_US, the floor without roles
          Times,        \* bound: times the clock is looked at
          MaxCalls      \* bound: commits and joins

ASSUME TimelineAssumption ==
    /\ Main \in Channels /\ IsFiniteSet(Channels) /\ Second \in Nat \ {0}
    /\ Rates \subseteq Nat \ {0} /\ Samples \subseteq Nat
    /\ SendAhead \in Nat /\ InitialDelay \in Nat /\ Times \subseteq Nat /\ MaxCalls \in Nat

VARIABLES now,       \* the clock
          known,     \* channels with an entry in _channel_timing
          line,      \* per channel: where its next audio starts (at), the fraction of a tick
                     \* carried over (res) and the rate it is counted in; as ghosts, where it
                     \* was anchored (base), the audio since (fed) and where its audio ended (end)
          committed, \* _channels_with_committed_audio
          active,    \* channels some role of the pipeline listens to
          calls,     \* commits and joins so far
          last,      \* ghost: the last live commit, while nothing came after it
          skips      \* ghost: commits that missed a channel with listeners or brought one late, None
                     \* once one of them was moved alone

vars == <<now, known, line, committed, active, calls, last, skips>>

None == -1

Line == [at : Int, res : Nat, rate : Nat, base : Int, fed : Nat, end : Int]

NoLine == [at |-> 0, res |-> 0, rate |-> 0, base |-> 0, fed |-> 0, end |-> 0]

NoLast == [floor |-> 0, starts |-> {}]

Init ==
    /\ now = 0
    /\ known = {}
    /\ line = [c \in Channels |-> NoLine]
    /\ committed = {}
    /\ active \in SUBSET Channels
    /\ calls = 0
    /\ last = NoLast
    /\ skips = 0

-----------------------------------------------------------------------------
min_send_ahead == IF active = {} THEN InitialDelay ELSE SendAhead

\* The channel is placed at time x, with no fraction carried.
Place(l, x) == [l EXCEPT !.at = x, !.res = 0, !.base = x, !.fed = 0]

Shift(l, d) == [l EXCEPT !.at = @ + d, !.base = @ + d]

Earliest(t, cs) == Min({t[c].at : c \in cs})

\* Faulty variant: the fraction is lost with every buffer.
AdvanceTruncating(l, n, r) ==
    LET at == l.at + (n * Second) \div r
    IN  [at |-> at, res |-> 0, rate |-> r, end |-> at,
         base |-> IF l.rate = r THEN l.base ELSE l.at,
         fed |-> IF l.rate = r THEN l.fed + n * Second ELSE n * Second]

\* _advance_channel_timing: a change of rate drops the fraction.
Advance(l, n, r) ==
    LET same == l.rate = r
        num == (IF same THEN l.res ELSE 0) + n * Second
        at == l.at + num \div r
    IN  [at |-> at, res |-> num % r, rate |-> r, end |-> at,
         base |-> IF same THEN l.base ELSE l.at,
         fed |-> IF same THEN l.fed + n * Second ELSE n * Second]

\* A channel without a timeline joins the earliest of those taking part, or the floor; the
\* first one placed is what the others of the same commit join.
PlaceNew(cs) ==
    LET have == (active \cup cs) \cap known
        x == IF have = {} THEN now + min_send_ahead ELSE Earliest(line, have)
    IN  [c \in Channels |-> IF c \in cs \ known THEN Place(line[c], x) ELSE line[c]]

\* A timeline that fell behind the floor moves up to it, every channel by as much.
Rebase(t, kn, cs) ==
    LET d == now + min_send_ahead - Earliest(t, (active \cup cs) \cap kn)
    IN  IF d > 0 THEN [c \in Channels |-> IF c \in kn THEN Shift(t[c], d) ELSE t[c]] ELSE t

\* _resolve_channel_play_start: the caller's start x is taken as it is.
PlayStart(cs, x) ==
    IF x = None THEN Rebase(PlaceNew(cs), known \cup cs, cs)
    ELSE [c \in Channels |-> IF c \in cs THEN Place(line[c], x) ELSE line[c]]

\* Active channels that brought nothing move on with the longest buffer of the commit.
CarryAlong(start, end, cs) ==
    LET d == Max({end[c].at - start[c].at : c \in cs})
        Joined(c) == IF c \in known THEN end[c] ELSE Place(end[c], Earliest(start, cs))
    IN  [c \in Channels |-> IF c \in active \ cs /\ d > 0 THEN Shift(Joined(c), d) ELSE end[c]]

\* Channels _prune_stale_channel_timing drops: nobody listens and they never had audio.
Stale(kn, com) == kn \ (active \cup com)

\* The timing part of commit_audio for buffers of n[c] samples at rate r, and the pruning
\* that ends it.
CommitAudio(cs, n, r, x) ==
    LET start == PlayStart(cs, x)
        end == [c \in Channels |-> IF c \in cs THEN Advance(start[c], n[c], r) ELSE start[c]]
        moves == \E c \in cs : end[c].at > start[c].at
        kn == known \cup cs \cup (IF moves THEN active ELSE {})
        gone == Stale(kn, committed \cup cs)
        done == CarryAlong(start, end, cs)
    IN  /\ calls < MaxCalls
        /\ line' = [c \in Channels |-> IF c \in gone THEN [done[c] EXCEPT !.res = 0, !.rate = 0]
                                       ELSE done[c]]
        /\ known' = kn \ gone
        /\ committed' = committed \cup cs
        /\ last' = IF x /= None THEN NoLast
                   ELSE [floor |-> now + min_send_ahead,
                         starts |-> {[from |-> start[c].at, end |-> line[c].end] : c \in cs}]
        /\ skips' = IF \/ skips = None \/ x /= None \/ \E c, d \in cs : n[c] /= n[d]
                       \/ ~(cs \cap known \subseteq active)
                    THEN None
                    ELSE IF active \subseteq cs /\ (cs \subseteq known \/ active \cap known = {})
                    THEN skips ELSE skips + 1
        /\ calls' = calls + 1
        /\ UNCHANGED <<now, active>>

\* commit_audio with nothing prepared anchors the main channel.
CommitNothing ==
    /\ known = {}
    /\ known' = {Main}
    /\ line' = [line EXCEPT ![Main] = Place(@, now + min_send_ahead)]
    /\ last' = NoLast
    /\ UNCHANGED <<now, committed, active, calls, skips>>

\* Where history of length len starts on channel c: it ends where live audio is to go on.
HistoryStart(c, len) ==
    LET Back(x) == Max({0, x - len})
        anchors == IF active \cap known /= {} THEN active \cap known ELSE known
    IN  IF c \in known THEN Back(line[c].at)
        ELSE IF known = {} THEN now + min_send_ahead
        ELSE Back(Earliest(line, anchors))

\* _process_historical_buffers for a buffer of a channel that had no audio yet
\* (prepare_historical_audio refuses any other), with or without a start of the caller's.
CommitHistory(c, h, r, x) ==
    LET start == IF x /= None THEN x ELSE HistoryStart(c, (h * Second) \div r)
    IN  /\ calls < MaxCalls /\ c \notin committed
        /\ line' = [line EXCEPT ![c] = Advance(Place(@, start), h, r)]
        /\ known' = known \cup {c}
        /\ committed' = committed \cup {c}
        /\ last' = NoLast
        /\ skips' = None
        /\ calls' = calls + 1
        /\ UNCHANGED <<now, active>>

-----------------------------------------------------------------------------
\* _rebase_first_join_channel_timing: the first role of a channel moves it up to the others.
RebaseFirstJoin(c) ==
    IF c \notin known \/ known = {c} \/ c \in active THEN line[c]
    ELSE Place(line[c], Max({line[c].at, Earliest(line, known \ {c})}))

\* Faulty variant: the clamp spares no channel.
ClampAnyTail(l, c) ==
    IF c \notin known THEN l ELSE Place(l, Min({l.at, now + SendAhead}))

\* _rebase_far_ahead_join_tail: a channel that never had audio is brought back near to now.
ClampFarAhead(l, c) ==
    IF c \notin known \/ c \in active \/ c \in committed THEN l
    ELSE Place(l, Min({l.at, now + SendAhead}))

\* _do_role_join of a role of channel c; some of its branches end in the clamp.
RoleJoin(c, clamp) ==
    LET l == IF clamp THEN ClampFarAhead(RebaseFirstJoin(c), c) ELSE RebaseFirstJoin(c)
    IN  /\ calls < MaxCalls
        /\ line' = [line EXCEPT ![c] = l]
        /\ active' = active \cup {c}
        /\ skips' = IF c \in known \ active THEN None ELSE skips
        /\ last' = NoLast
        /\ calls' = calls + 1
        /\ UNCHANGED <<now, known, committed>>

\* The last role of the channel leaves; its timeline stands still from here on.
RoleLeave(c) ==
    /\ c \in active
    /\ active' = active \ {c}
    /\ last' = NoLast
    /\ UNCHANGED <<now, known, line, committed, calls, skips>>

\* clear() forgets every timeline.
Clear ==
    /\ known /= {}
    /\ known' = {} /\ committed' = {}
    /\ line' = [c \in Channels |-> NoLine]
    /\ last' = NoLast
    /\ skips' = 0
    /\ UNCHANGED <<now, active, calls>>

Tick ==
    /\ \E x \in Times : x > now /\ now' = x
    /\ last' = NoLast
    /\ UNCHANGED <<known, line, committed, active, calls, skips>>

Next ==
    \/ \E cs \in (SUBSET Channels) \ {{}}, r \in Rates, x \in {None, 0} :
          \E n \in [cs -> Samples] : CommitAudio(cs, n, r, x)
    \/ CommitNothing
    \/ \E c \in Channels, h \in Samples, r \in Rates, x \in {None, 0} : CommitHistory(c, h, r, x)
    \/ \E c \in Channels, clamp \in BOOLEAN : RoleJoin(c, clamp)
    \/ \E c \in Channels : RoleLeave(c)
    \/ Clear \/ Tick

Spec == Init /\ [][Next]_vars

-----------------------------------------------------------------------------
\* What the timelines hold.
TypeOK ==
    /\ now \in Times \cup {0} /\ calls \in 0..MaxCalls
    /\ known \subseteq Channels /\ active \subseteq Channels /\ committed \subseteq known
    /\ line \in [Channels -> Line]

\* However many buffers a channel is fed, its timeline is off the audio by less than one
\* tick: what _advance_channel_timing carries is exactly what whole ticks lost.
DriftFree ==
    \A c \in known : line[c].rate /= 0 =>
        /\ line[c].res < line[c].rate
        /\ line[c].at * line[c].rate + line[c].res = line[c].base * line[c].rate + line[c].fed

\* Live audio is scheduled at least the send-ahead floor from now, also after a stall of the
\* producer, a join and a channel that appears late (_resolve_channel_play_start).
FloorKept == \A s \in last.starts : s.from >= last.floor

\* Live audio of a channel never starts before its earlier audio ended, whatever joins,
\* stalls and other channels did to the timeline in between.
NoOverlap == \A s \in last.starts : s.from >= s.end

\* Channels that listeners share stay together. Those that every commit has audio for are at the
\* same tick, through changes of rate and stalls too; a commit that misses one of them ("should
\* remain clock-aligned when they resume"), or brings one late, costs two ticks at most.
Aligned ==
    skips /= None => \A c, d \in active \cap known : line[c].at - line[d].at <= 2 * skips

=============================================================================
