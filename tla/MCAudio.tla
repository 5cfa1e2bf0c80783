---------------------------------- MODULE MCAudio ----------------------------------
(***************************************************************************)
(* The audio a server commits: when it plays on each channel (Timeline), and what *)
(* each role is sent of it through joins, format changes and clears (PushStream), *)
(* with two formats of different PCM shapes. They share nothing: `which' says *)
(* which of them runs, and the other stays where it began.                   *)
(***************************************************************************)
EXTENDS Timeline, TLC

CONSTANTS Roles, PieceLead, YieldEvery, MaxAudio, MaxNow, MaxClears, MaxChanges, ReapFirst

VARIABLES which,
    ps_now, ps_members, ps_fmt, ps_buffered, ps_prepared, ps_changes, ps_s, ps_commit, ps_player,
    ps_heard

stream == <<ps_now, ps_members, ps_fmt, ps_buffered, ps_prepared, ps_changes, ps_s, ps_commit, ps_player,
    ps_heard>>

Keys == {[pcm |-> 1, codec |-> "flac"], [pcm |-> 2, codec |-> "opus"]}

P == INSTANCE PushStream WITH
    now <- ps_now, members <- ps_members, fmt <- ps_fmt, buffered <- ps_buffered,
    prepared <- ps_prepared, changes <- ps_changes, s <- ps_s, commit <- ps_commit,
    player <- ps_player, heard <- ps_heard, Lead <- PieceLead

Resting == [pcm |-> 1, codec |-> "flac"]

MCInit ==
    \/ which = "timeline" /\ Init /\ P!Init /\ ps_members = {} /\ ps_fmt = [r \in Roles |-> Resting]
    \/ which = "stream" /\ P!Init /\ Init /\ active = {}

MCNext ==
    \/ which = "timeline" /\ Next /\ UNCHANGED <<which, stream>>
    \/ which = "stream" /\ P!Next /\ UNCHANGED <<which, vars>>

MCSpec == MCInit /\ [][MCNext]_<<which, vars, stream>>

-----------------------------------------------------------------------------

\* A role is sent each piece of audio once and in order, of its stream's own epoch and format and after
\* the stream/start that announces them; and as long as only one role has joined or changed its format, no
\* role misses a piece it could still have played (push_stream.py, replay of the cache and live delivery).
Delivered == which = "stream" => P!TypeOK /\ P!NoRepeat /\ P!NoHoleAlone /\ P!EpochClean /\ P!Announced

\* A stateful encoder is fed in order, the cache the late joiners read holds what was encoded, in order,
\* and a role that joins late is caught up or live, and not left behind.
PipelineInOrder == which = "stream" => P!EncoderInOrder /\ P!CacheInOrder /\ P!NoJoinLeftBehind

\* Where a commit puts its audio: not before the send-ahead floor, not on top of audio committed before
\* it, and the channels of one commit together.
Placed == which = "timeline" => TypeOK /\ FloorKept /\ NoOverlap /\ Aligned
=============================================================================
