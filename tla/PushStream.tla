------------------------------ MODULE PushStream ------------------------------
(***************************************************************************)
(* The SDK server's PushStream (server/push_stream.py) and the player role *)
(* it feeds (server/roles/player/v1.py), on the main channel: a producer   *)
(* that commits audio, worker threads that resample and encode it, roles   *)
(* that join, leave and change format in the middle of a commit, catch-up  *)
(* tasks that replay cached PCM to a joiner, and clear() and stop().       *)
(*                                                                         *)
(* A piece of audio is [id, ts]: its number in the order the producer      *)
(* prepared it and the time it is to be played at. Time is counted in      *)
(* pieces; every piece lasts one. Encoders and resamplers emit a piece as  *)
(* soon as they are fed it. The stream is one record, so that an operation *)
(* that runs several others is their composition.                          *)
(***************************************************************************)
EXTENDS Integers, Sequences, FiniteSets, SequencesExt

CONSTANTS Roles,      \* player roles, one per client of the group
          Keys,       \* transform keys, records [pcm, codec]
          Lead,       \* send-ahead floor, in pieces
          YieldEvery, \* pieces a catch-up encodes before it yields to the loop
          MaxAudio,   \* bound: pieces the producer prepares
          MaxNow,     \* bound: the clock
          MaxClears,  \* bound: calls of clear()
          MaxChanges, \* bound: format changes and membership changes
          ReapFirst   \* a cancelled catch-up ends before the loop runs anything else

Pcms == {k.pcm : k \in Keys}

\* No timestamp (None), no target of its own, and not waiting at all.
None == -1
Absent == -2

VARIABLES now,      \* the clock
          members,  \* connected clients of the group whose role is in the pipeline
          fmt,      \* each role's transform key, from its audio requirements
          buffered, \* number of the piece in _channel_buffers, or 0
          prepared, \* how many pieces the producer has prepared
          changes,  \* format and membership changes so far
          s,        \* the PushStream object
          commit,   \* the producer's call of commit_audio
          player,   \* each role's stream state
          heard     \* ghost: what each role was sent since its stream last began

vars == <<now, members, fmt, buffered, prepared, changes, s, commit, player, heard>>

Piece == [id : 1..MaxAudio, ts : Nat]

NoCommit == [pc |-> "idle", gen |-> 0, piece |-> [id |-> 0, ts |-> 0], todo |-> {},
             got |-> {}, to |-> {}, tasks |-> {}]

NewStream ==
    [stopped |-> FALSE, gen |-> 0, timing |-> None, scheduled |-> <<>>, since |-> 0,
     pcm |-> <<>>, cache |-> [k \in Keys |-> <<>>],
     started |-> {}, joining |-> {}, resume |-> [r \in Roles |-> None],
     resampler |-> [p \in Pcms |-> None], lastIn |-> [k \in Keys |-> None],
     fed |-> [k \in Keys |-> <<>>],
     catch |-> [k \in Keys |-> "none"], waiting |-> [k \in Keys |-> [r \in Roles |-> Absent]],
     tasks |-> {}]

NewPlayer == [started |-> FALSE, pending |-> FALSE, told |-> {}, end |-> None]

Init ==
    /\ now = 0
    /\ members \in SUBSET Roles
    /\ fmt \in [Roles -> Keys]
    /\ buffered = 0
    /\ prepared = 0
    /\ changes = 0
    /\ s = NewStream
    /\ commit = NoCommit
    /\ player = [r \in Roles |-> NewPlayer]
    /\ heard = [r \in Roles |-> <<>>]

-----------------------------------------------------------------------------
(* What the operations are built from. A world w is the stream, the roles'  *)
(* stream states and what they heard, as far as an operation has got.       *)

World == [s |-> s, player |-> player, heard |-> heard]

Apply(w) == s' = w.s /\ player' = w.player /\ heard' = w.heard

IsActive(gen) == ~s.stopped /\ s.gen = gen

AudioRoles(st) == members \ st.joining

OthersUseKey(mem, f, k, r) == \E q \in mem \ {r} : f[q] = k

OthersShareShape(mem, f, p, r) == \E q \in mem \ {r} : f[q].pcm = p

\* PlayerV1Role.on_stream_start: the message waits for the first chunk.
on_stream_start(w, r) == [w EXCEPT !.player[r].pending = TRUE]

EnsureStarted(w, r) ==
    IF r \in w.s.started THEN w
    ELSE LET v == on_stream_start(w, r) IN [v EXCEPT !.s.started = @ \cup {r}]

\* PlayerV1Role.on_audio_chunk for a chunk made with key k. told is the format
\* of the last stream/start, as the set of it.
on_audio_chunk(w, f, r, k, c) ==
    LET p == w.player[r]
        q == IF p.pending THEN [p EXCEPT !.pending = FALSE, !.started = TRUE, !.told = {f[r]}]
             ELSE p
    IN  IF ~q.started THEN [w EXCEPT !.player[r] = q]
        ELSE [w EXCEPT !.player[r] = [q EXCEPT !.end = c.ts + 1],
                       !.heard[r] = Append(@, [id |-> c.id, told |-> k \in q.told])]

on_stream_end(w, r) ==
    [w EXCEPT !.player[r] = NewPlayer, !.heard[r] = <<>>]

on_stream_clear(w, r) ==
    [w EXCEPT !.player[r].pending = FALSE, !.player[r].end = None, !.heard[r] = <<>>]

\* The pieces of q from time t on.
From(q, t) == SelectSeq(q, LAMBDA c : c.ts >= t)

\* _send_cached_chunks_to_role: pieces short of the target or no longer in the future are skipped.
SendCached(w, f, r, k, q, from) ==
    LET Send(v, c) == on_audio_chunk(EnsureStarted(v, r), f, r, k, c)
    IN  FoldLeft(Send, w, SelectSeq(q, LAMBDA c : c.ts >= from /\ c.ts > now))

\* get_late_join_target_timestamp_us on the main channel.
LateJoinTarget == now + Lead

\* _encode_transform_for_key: the encoder of k takes the piece.
Encode(st, k, c) ==
    [st EXCEPT !.fed[k] = Append(@, c.id), !.lastIn[k] = c.ts + 1]

ResetEncoder(st, k) == [st EXCEPT !.fed[k] = <<>>, !.lastIn[k] = None]

-----------------------------------------------------------------------------
(* Catch-up: replaying the PCM cache to the roles that wait for a key.      *)

\* _encode_pcm_sequence: the pieces of q through the catch-up's own resampler, whose
\* next input is due at t, and the encoder. A piece that starts earlier is dropped.
Fresh(q, t) == SelectSeq(q, LAMBDA c : c.ts >= t)

EncodeSequence(w, t, q) ==
    LET new == Fresh(q, t.due)
        st == FoldLeft(LAMBDA x, c : Encode(x, t.key, c), w.s, new)
    IN  [w EXCEPT !.s = IF st.catch[t.key] = "catching_up"
                        THEN [st EXCEPT !.cache[t.key] = @ \o new] ELSE st]

After(t, q) == [t EXCEPT !.src = Last(q).ts + 1,
                         !.due = IF Last(q).ts + 1 > @ THEN Last(q).ts + 1 ELSE @]

\* The end of the task's finally when catch-up never went live.
AbandonCatchup(st, k) ==
    ResetEncoder([st EXCEPT !.catch[k] = "none",
                            !.waiting[k] = [r \in Roles |-> Absent],
                            !.cache[k] = <<>>], k)

Unlist(st, k) ==
    [st EXCEPT !.tasks = {IF u.key = k THEN [u EXCEPT !.listed = FALSE] ELSE u : u \in @}]

\* The hand-over: the warmed resampler is promoted, every waiting role is sent the
\* cache from its own target on, and live delivery takes over.
FinishCatchup(w, f, t) ==
    LET k == t.key
        st == [w.s EXCEPT !.resampler[k.pcm] = IF k.pcm \in t.established THEN @ ELSE t.due,
                          !.tasks = @ \ {t}]
        to == {r \in Roles : st.waiting[k][r] /= Absent}
        recipients == IF to = {} THEN {t.role} ELSE to
        Target(r) == IF st.resume[r] /= None THEN st.resume[r]
                     ELSE IF st.waiting[k][r] >= 0 THEN st.waiting[k][r] ELSE t.target
        Send(v, r) == SendCached(v, f, r, k, st.cache[k], Target(r))
        v == FoldLeft(Send, [w EXCEPT !.s = st], SetToSeq(recipients))
    IN  [v EXCEPT !.s = Unlist([v.s EXCEPT !.catch[k] = "live"], k)]

\* From one await of the catch-up task to the next, or to its end: the batch is encoded,
\* then what was committed meanwhile, until the PCM cache holds nothing newer.
AdvanceCatchup(w, f, t) ==
    LET v == EncodeSequence(w, t, t.batch)
        u == After(t, t.batch)
        more == From(v.s.pcm, u.src)
    IN  IF Len(more) >= YieldEvery
        THEN [v EXCEPT !.s.tasks = (@ \ {t}) \cup {[u EXCEPT !.batch = more]}]
        ELSE LET x == IF more = <<>> THEN v ELSE EncodeSequence(v, u, more)
                 y == IF more = <<>> THEN u ELSE After(u, more)
             IN  FinishCatchup([x EXCEPT !.s.tasks = (@ \ {t}) \cup {y}], f, y)

\* _start_catchup_encoding up to its first await; a short batch has none.
StartCatchup(w, f, r, k) ==
    LET target == IF w.s.resume[r] /= None THEN w.s.resume[r] ELSE LateJoinTarget
        eligible == SelectSeq(w.s.pcm, LAMBDA c : c.ts + 1 > target)
        t == [key |-> k, role |-> r, listed |-> TRUE, cancelled |-> FALSE, target |-> target,
              established |-> {p \in Pcms : w.s.resampler[p] /= None},
              src |-> 0, due |-> 0, batch |-> eligible]
        v == [w EXCEPT !.s = [ResetEncoder(w.s, k) EXCEPT
                                 !.catch[k] = "catching_up",
                                 !.waiting[k] = [q \in Roles |-> IF q = r THEN None ELSE Absent],
                                 !.tasks = @ \cup {t}]]
    IN  IF Len(eligible) >= YieldEvery THEN v ELSE AdvanceCatchup(v, f, t)

-----------------------------------------------------------------------------
(* Joining and leaving.                                                     *)

\* _do_role_join, for a role of a client in the group.
DoRoleJoin(w, f, r) ==
    LET k == f[r]
        v == [w EXCEPT !.s.joining = @ \ {r}, !.s.started = @ \ {r}]
        resume == w.s.resume[r]
        target == IF resume /= None THEN resume ELSE LateJoinTarget
        Begin == IF v.s.timing /= None THEN EnsureStarted(v, r) ELSE v
    IN  IF w.s.stopped THEN v
        ELSE IF w.s.cache[k] /= <<>>
             THEN IF From(w.s.cache[k], target) = <<>> THEN Begin
                  ELSE SendCached(v, f, r, k, w.s.cache[k], target)
        ELSE IF w.s.catch[k] /= "none"
             THEN [v EXCEPT !.s.waiting[k][r] = LateJoinTarget]
        ELSE IF w.s.pcm = <<>> \/ OthersUseKey(members, f, k, r) THEN Begin
        ELSE IF Last(w.s.pcm).ts + 1 <= target THEN Begin
        ELSE StartCatchup(v, f, r, k)

\* Faulty variant: joins are never deferred.
OnRoleJoinAtOnce(w, f, r) == DoRoleJoin(w, f, r)

\* on_role_join: deferred while a commit is in flight.
OnRoleJoin(w, f, r) ==
    IF commit.pc /= "idle" THEN [w EXCEPT !.s.joining = @ \cup {r}]
    ELSE DoRoleJoin(w, f, r)

\* The role waits for no key any more; a catch-up that nobody waits for is cancelled.
LeaveCatchups(st, r) ==
    LET left == [k \in Keys |-> [st.waiting[k] EXCEPT ![r] = Absent]]
        Nobody(k) == /\ \E q \in Roles : st.waiting[k][q] /= Absent
                     /\ \A q \in Roles : left[k][q] = Absent
    IN  [st EXCEPT
            !.waiting = left,
            !.catch = [k \in Keys |-> IF Nobody(k) THEN "none" ELSE @[k]],
            !.tasks = {IF t.listed /\ Nobody(t.key)
                       THEN [t EXCEPT !.listed = FALSE, !.cancelled = TRUE] ELSE t : t \in @}]

\* on_role_leave: mem and f are the group without the role.
OnRoleLeave(w, mem, f, r) ==
    LET k == f[r]
        st == [w.s EXCEPT !.started = @ \ {r}, !.joining = @ \ {r}, !.resume[r] = None]
        a == IF OthersUseKey(mem, f, k, r) THEN st
             ELSE ResetEncoder([st EXCEPT !.cache[k] = <<>>], k)
        b == IF OthersShareShape(mem, f, k.pcm, r) THEN a
             ELSE [a EXCEPT !.resampler[k.pcm] = None]
    IN  [w EXCEPT !.s = LeaveCatchups(b, r)]

\* on_role_format_changed from key old, then the join; the role resumes where its audio ended.
OnRoleFormatChanged(w, f, r, old, resume) ==
    LET a == IF OthersUseKey(members, f, old, r) THEN w.s
             ELSE ResetEncoder([w.s EXCEPT !.cache[old] = <<>>], old)
        b == [LeaveCatchups(a, r) EXCEPT !.resume[r] = resume]
    IN  OnRoleJoin([w EXCEPT !.s = b], f, r)

-----------------------------------------------------------------------------
(* The group's and the player's calls.                                      *)

\* A cancelled task takes its CancelledError at the loop's next turn.
Reaped == ReapFirst => \A t \in s.tasks : ~t.cancelled

\* SendspinGroup.add_client: the role starts afresh in the group.
AddClient(r) ==
    /\ Reaped /\ ~s.stopped /\ r \notin members /\ changes < MaxChanges
    /\ members' = members \cup {r}
    /\ changes' = changes + 1
    /\ LET w == [World EXCEPT !.player[r] = NewPlayer, !.heard[r] = <<>>]
       IN  Apply(OnRoleJoin(w, fmt, r))
    /\ UNCHANGED <<now, fmt, buffered, prepared, commit>>

\* SendspinGroup.remove_client with another player left in the group.
RemoveClient(r) ==
    /\ Reaped /\ ~s.stopped /\ r \in members /\ members /= {r} /\ changes < MaxChanges
    /\ members' = members \ {r}
    /\ changes' = changes + 1
    /\ Apply(OnRoleLeave(on_stream_end(World, r), members \ {r}, fmt, r))
    /\ UNCHANGED <<now, fmt, buffered, prepared, commit>>

\* _apply_preferred_format with a format that differs, and _begin_format_transition.
ChangeFormat(r, k) ==
    /\ Reaped /\ ~s.stopped /\ r \in members /\ fmt[r] /= k /\ changes < MaxChanges
    /\ fmt' = [fmt EXCEPT ![r] = k]
    /\ changes' = changes + 1
    /\ Apply(OnRoleFormatChanged([World EXCEPT !.player[r].pending = TRUE], fmt', r,
                                 fmt[r], player[r].end))
    /\ UNCHANGED <<now, members, buffered, prepared, commit>>

CancelTasks(st) ==
    [st EXCEPT !.tasks = {IF t.listed THEN [t EXCEPT !.listed = FALSE, !.cancelled = TRUE]
                          ELSE t : t \in @},
               !.catch = [k \in Keys |-> "none"],
               !.waiting = [k \in Keys |-> [r \in Roles |-> Absent]]]

ForgetInputs(st) == [st EXCEPT !.lastIn = [k \in Keys |-> None]]

\* Transformers of the audio roles are reset under the transformer lock.
ResetActive(st) ==
    [st EXCEPT !.fed = [k \in Keys |-> IF \E r \in AudioRoles(st) : fmt[r] = k THEN <<>> ELSE @[k]]]

Clear ==
    /\ Reaped /\ ~s.stopped /\ s.gen < MaxClears
    /\ buffered' = 0
    /\ LET a == [CancelTasks(s) EXCEPT !.gen = @ + 1, !.timing = None,
                     !.cache = [k \in Keys |-> <<>>], !.pcm = <<>>, !.joining = {},
                     !.resume = [r \in Roles |-> None],
                     !.resampler = [p \in Pcms |-> None], !.since = prepared]
           b == [ForgetInputs(ResetActive(a)) EXCEPT !.started = {}]
       IN  Apply(FoldLeft(on_stream_clear, [World EXCEPT !.s = b], SetToSeq(members)))
    /\ UNCHANGED <<now, members, fmt, prepared, changes, commit>>

Stop ==
    /\ Reaped /\ ~s.stopped
    /\ LET a == [s EXCEPT !.stopped = TRUE, !.gen = @ + 1, !.joining = {}]
           w == FoldLeft(on_stream_end, [World EXCEPT !.s = ResetActive(a)], SetToSeq(members))
           b == [ForgetInputs(CancelTasks(w.s)) EXCEPT !.started = {}, !.pcm = <<>>,
                     !.resume = [r \in Roles |-> None], !.since = prepared]
       IN  Apply([w EXCEPT !.s = b])
    /\ UNCHANGED <<now, members, fmt, buffered, prepared, changes, commit>>

-----------------------------------------------------------------------------
(* Catch-up tasks on the loop.                                              *)

RunCatchup(t) ==
    /\ t \in s.tasks /\ ~t.cancelled /\ Reaped
    /\ Apply(AdvanceCatchup(World, fmt, t))
    /\ UNCHANGED <<now, members, fmt, buffered, prepared, changes, commit>>

\* CancelledError at the await: only the finally runs.
ReapCatchup(t) ==
    /\ t \in s.tasks /\ t.cancelled
    /\ LET st == [s EXCEPT !.tasks = @ \ {t}]
           a == IF st.catch[t.key] = "live" THEN st ELSE AbandonCatchup(st, t.key)
       IN  s' = Unlist(a, t.key)
    /\ UNCHANGED <<now, members, fmt, buffered, prepared, changes, commit, player, heard>>

-----------------------------------------------------------------------------
(* commit_audio, cut at its awaits.                                         *)

PrepareAudio ==
    /\ commit.pc = "idle" /\ buffered = 0 /\ prepared < MaxAudio /\ ~s.stopped
    /\ prepared' = prepared + 1
    /\ buffered' = prepared + 1
    /\ s' = [s EXCEPT !.scheduled = Append(@, 0)]
    /\ UNCHANGED <<now, members, fmt, changes, commit, player, heard>>

\* The finally of commit_audio: deferred joins run once the commit is over, in any order.
EndCommit(w) ==
    /\ commit' = NoCommit
    /\ \E q \in SetToSeqs(w.s.joining) :
          Apply(FoldLeft(LAMBDA v, r : DoRoleJoin(v, fmt, r),
                         [w EXCEPT !.s.joining = {}], q))

Max2(a, b) == IF a >= b THEN a ELSE b

\* The timeline gives the piece its time, rebased when it fell behind the floor, and moves on.
Anchor(st, n) ==
    LET ts == IF st.timing = None THEN now + Lead ELSE Max2(st.timing, now + Lead)
    IN  [st EXCEPT !.timing = ts + 1,
                   !.scheduled[n] = ts,
                   !.pcm = Append(@, [id |-> n, ts |-> ts])]

PruneCaches(st) ==
    LET Live(q) == SelectSeq(q, LAMBDA c : c.ts + 1 > now)
    IN  [st EXCEPT !.cache = [k \in Keys |-> Live(@[k])], !.pcm = Live(@)]

\* _group_roles_by_pcm_requirements: who the piece is for, as the roles stand now. The
\* lock around delivery is free, as the producer awaits each of its commits.
GroupRoles(w, c) ==
    LET to == {<<r, fmt[r]>> : r \in AudioRoles(w.s)}
    IN  IF to = {} THEN EndCommit([w EXCEPT !.s = PruneCaches(w.s)])
        ELSE /\ commit' = [c EXCEPT !.pc = "resample", !.to = to, !.todo = {x[2].pcm : x \in to}]
             /\ Apply(w)

\* A commit yields once when catch-ups run, so that they see the piece before delivery.
Anchored(n) ==
    LET w == [World EXCEPT !.s = Anchor(s, n)]
        c == [NoCommit EXCEPT !.gen = s.gen, !.piece = [id |-> n, ts |-> w.s.scheduled[n]]]
    IN  /\ buffered' = 0
        /\ IF \E t \in s.tasks : t.listed
           THEN commit' = [c EXCEPT !.pc = "yield"] /\ Apply(w)
           ELSE GroupRoles(w, c)

\* The first commit of a timeline loads PyAV on a worker thread before it is anchored.
CommitAudio ==
    /\ Reaped /\ commit.pc = "idle" /\ ~s.stopped /\ buffered /= 0
    /\ IF s.timing = None
       THEN /\ commit' = [NoCommit EXCEPT !.pc = "load", !.gen = s.gen]
            /\ UNCHANGED <<s, buffered, player, heard>>
       ELSE Anchored(buffered)
    /\ UNCHANGED <<now, members, fmt, prepared, changes>>

Loaded ==
    /\ Reaped /\ commit.pc = "load" /\ IsActive(commit.gen)
    /\ Anchored(buffered)
    /\ UNCHANGED <<now, members, fmt, prepared, changes>>

Yielded ==
    /\ Reaped /\ commit.pc = "yield" /\ IsActive(commit.gen)
    /\ GroupRoles(World, commit)
    /\ UNCHANGED <<now, members, fmt, buffered, prepared, changes>>

\* _resample_for_roles for one PCM shape. A resampler that has consumed the piece, fed by
\* a catch-up that promoted it, emits nothing.
Resample(p) ==
    /\ Reaped /\ commit.pc = "resample" /\ p \in commit.todo /\ IsActive(commit.gen)
    /\ IF s.resampler[p] /= None /\ s.resampler[p] > commit.piece.ts
       THEN /\ commit' = [commit EXCEPT !.todo = @ \ {p}]
            /\ UNCHANGED s
       ELSE /\ commit' = [commit EXCEPT !.todo = @ \ {p}, !.got = @ \cup {p}]
            /\ s' = [s EXCEPT !.resampler[p] = commit.piece.ts + 1]
    /\ UNCHANGED <<now, members, fmt, buffered, prepared, changes, player, heard>>

\* The first half of _transform_and_deliver: a key that is catching up, or whose encoder
\* has the piece already, is left out.
Transform ==
    /\ Reaped /\ commit.pc = "resample" /\ commit.todo = {} /\ IsActive(commit.gen)
    /\ LET tasks == {k \in {x[2] : x \in commit.to} :
                        /\ k.pcm \in commit.got
                        /\ s.catch[k] /= "catching_up"
                        /\ s.lastIn[k] = None \/ s.lastIn[k] <= commit.piece.ts}
       IN  commit' = [commit EXCEPT !.pc = "encode", !.tasks = tasks]
    /\ UNCHANGED <<now, members, fmt, buffered, prepared, changes, s, player, heard>>

\* _encode_transforms on the worker thread, under the transformer lock.
EncodeWorker ==
    /\ commit.pc = "encode"
    /\ commit' = [commit EXCEPT !.pc = "deliver"]
    /\ s' = IF IsActive(commit.gen)
            THEN FoldLeft(LAMBDA st, k : Encode(st, k, commit.piece), s, SetToSeq(commit.tasks))
            ELSE s
    /\ UNCHANGED <<now, members, fmt, buffered, prepared, changes, player, heard>>

\* One recipient: pieces before the role's resume point are skipped, the first one after it
\* lifts the point.
DeliverTo(w, r, k) ==
    LET v == EnsureStarted(w, r)
    IN  IF v.s.resume[r] /= None /\ commit.piece.ts < v.s.resume[r] THEN v
        ELSE on_audio_chunk([v EXCEPT !.s.resume[r] = None], fmt, r, k, commit.piece)

\* The second half of _transform_and_deliver, for the keys that were encoded: a key whose
\* every recipient was excluded meanwhile, and that nobody is about to join, is dropped.
DeliverKeys(w) ==
    LET active == AudioRoles(w.s)
        Recipients(k) == {r \in active : <<r, k>> \in commit.to}
        wanted == {k \in commit.tasks :
                      \/ Recipients(k) /= {}
                      \/ \E r \in w.s.joining : fmt[r] = k}
        Key(v, k) == FoldLeft(LAMBDA x, r : DeliverTo(x, r, k), v, SetToSeq(Recipients(k)))
        delivered == FoldLeft(Key, w, SetToSeq(wanted))
    IN  [delivered EXCEPT !.s.cache =
            [k \in Keys |-> IF k \in wanted THEN Append(@[k], commit.piece) ELSE @[k]]]

\* Back on the loop: deliver, merge the results into the cache, prune, and end the commit.
Deliver ==
    /\ Reaped /\ commit.pc = "deliver" /\ IsActive(commit.gen)
    /\ LET w == DeliverKeys(World)
       IN  EndCommit([w EXCEPT !.s = PruneCaches(w.s)])
    /\ UNCHANGED <<now, members, fmt, buffered, prepared, changes>>

\* Faulty variant: an overtaken commit leaves without running the joins it deferred.
OvertakenAtOnce ==
    /\ Reaped /\ commit.pc \in {"load", "yield", "resample", "deliver"} /\ ~IsActive(commit.gen)
    /\ commit' = NoCommit
    /\ UNCHANGED <<now, members, fmt, buffered, prepared, changes, s, player, heard>>

\* stop() or clear() came while a worker ran: the commit returns without a word.
Overtaken ==
    /\ Reaped /\ commit.pc \in {"load", "yield", "resample", "deliver"} /\ ~IsActive(commit.gen)
    /\ EndCommit(World)
    /\ UNCHANGED <<now, members, fmt, buffered, prepared, changes>>

Tick ==
    /\ now < MaxNow
    /\ now' = now + 1
    /\ UNCHANGED <<members, fmt, buffered, prepared, changes, s, commit, player, heard>>

Next ==
    \/ PrepareAudio \/ CommitAudio \/ Loaded \/ Yielded
    \/ \E p \in Pcms : Resample(p)
    \/ Transform \/ EncodeWorker \/ Deliver \/ Overtaken
    \/ \E t \in s.tasks : RunCatchup(t)
    \/ \E t \in s.tasks : ReapCatchup(t)
    \/ \E r \in Roles : AddClient(r)
    \/ \E r \in Roles : RemoveClient(r)
    \/ \E r \in Roles, k \in Keys : ChangeFormat(r, k)
    \/ Clear \/ Stop \/ Tick

Spec == Init /\ [][Next]_vars

-----------------------------------------------------------------------------
\* What the stream, its commit and its tasks hold.
TypeOK ==
    /\ now \in 0..MaxNow /\ members \subseteq Roles /\ fmt \in [Roles -> Keys]
    /\ buffered \in 0..MaxAudio /\ prepared \in 0..MaxAudio
    /\ s.started \subseteq Roles /\ s.joining \subseteq Roles
    /\ commit.pc \in {"idle", "load", "yield", "resample", "encode", "deliver"}
    /\ \A t \in s.tasks : t.key \in Keys /\ t.role \in Roles

\* No role is sent the same audio twice or out of order, whatever joins, format changes,
\* catch-ups and commits cross: the replay of a cache and the live delivery that follows
\* it (_send_cached_chunks_to_role, _transform_and_deliver) meet without an overlap.
NoRepeat ==
    \A r \in Roles : \A i, j \in DOMAIN heard[r] : i < j => heard[r][i].id < heard[r][j].id

\* A role that plays misses nothing it could still have played: between two pieces it was
\* sent, every piece left out was due before it could have been sent.
NoHole ==
    \A r \in Roles : \A i \in 1..(Len(heard[r]) - 1) :
        \A n \in (heard[r][i].id + 1)..(heard[r][i + 1].id - 1) : s.scheduled[n] <= now

\* As long as one role at a time joins or changes its format, replay and live delivery
\* meet without a hole either.
NoHoleAlone == changes <= 1 => NoHole

\* What a role is sent is in the format its last stream/start announced
\* (PlayerV1Role.on_audio_chunk sends the pending one first), also across a format change
\* made while the commit in flight is encoding for the old one.
Announced == \A r \in Roles : \A i \in DOMAIN heard[r] : heard[r][i].told

\* Audio committed before clear() or stop() reaches no role afterwards, although the
\* worker that encodes it may still be running then (_is_generation_active).
EpochClean ==
    \A r \in Roles : \A i \in DOMAIN heard[r] : heard[r][i].id > s.since

\* Every encoder is fed each piece once and in order, by commits and catch-ups together:
\* _transform_last_input_end_us is what keeps them apart.
EncoderInOrder ==
    \A k \in Keys : \A i, j \in DOMAIN s.fed[k] : i < j => s.fed[k][i] < s.fed[k][j]

\* The replay cache of a key holds each piece once and in order, though both the commit
\* and the catch-up append to it.
CacheInOrder ==
    \A k \in Keys : \A i, j \in DOMAIN s.cache[k] :
        i < j => s.cache[k][i].id < s.cache[k][j].id

\* A deferred join is never left behind: once no commit is in flight none waits, also when
\* the commit it waited for was overtaken by clear() or stop() and the role joined after.
NoJoinLeftBehind == commit.pc = "idle" => s.joining = {}

=============================================================================
