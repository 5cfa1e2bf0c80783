------------------------------- MODULE Scheduled -------------------------------
(***************************************************************************)
(* Role state that takes effect later: metadata and colour of a group       *)
(* (server/roles/scheduled_state.py, metadata/group.py, color/group.py) and *)
(* the client that shows it (client/connection.py).                         *)
(*                                                                          *)
(* The server holds one pending state. No timer promotes it: whoever reads  *)
(* the state first after its time does. One loop timer sends it, at most    *)
(* Lead ahead, to the members that hold a state until its time, and then    *)
(* once more, when it is due, to the legacy members that apply what they    *)
(* get. Loop timers are late by up to Slack, so the clock may overtake one. *)
(* A client discards what it holds with every state it receives, and one    *)
(* whose clock is not synchronised yet applies everything at once.          *)
(***************************************************************************)
EXTENDS Integers, Sequences, FiniteSets

CONSTANTS Members,  \* roles of one family, one a client
          Legacy,   \* those without supports_scheduled_updates
          Tracks,
          Lead,     \* MAX_SCHEDULED_LEAD_US, in ticks
          Slack,    \* by how many ticks a loop timer is late at most
          MaxNow, MaxOps

VARIABLES now,      \* the server clock
          cur,      \* _current
          pend,     \* [st, at]: _pending and its time, at = Never without one
          sent,     \* _scheduled_sent
          timer,    \* _send_scheduled_handle: [kind, at, st]
          subs,     \* _members
          chan,     \* messages to each client
          shown,    \* what each client shows: [st, at, early]
          held,     \* its _pending_state
          synced,   \* clients whose time filter has a sample
          ops,
          replaced  \* ghost: states sent ahead and replaced by the pending one

vars == <<now, cur, pend, sent, timer, subs, chan, shown, held, synced, ops, replaced>>
served == <<cur, pend, sent, timer, replaced>>
clients == <<shown, held, synced>>

Never == MaxNow + Lead + 1
States == [track : Tracks, moving : BOOLEAN]
Blank == [track |-> "none", moving |-> FALSE]   \* None
NoPend == [st |-> Blank, at |-> Never]
NoTimer == [kind |-> "none", at |-> Never, st |-> Blank]
Nothing == [st |-> Blank, at |-> 0, early |-> FALSE]

Init ==
    /\ now = 0 /\ cur = Blank /\ pend = NoPend /\ sent = FALSE /\ timer = NoTimer
    /\ subs = {} /\ chan = [m \in Members |-> <<>>]
    /\ shown = [m \in Members |-> Nothing] /\ held = [m \in Members |-> NoPend]
    /\ synced = {} /\ ops = 0 /\ replaced = {}

Op == ops < MaxOps /\ ops' = ops + 1

\* The clock; a due timer of the loop is not put off for ever.
Tick ==
    /\ now < MaxNow /\ now < timer.at + Slack
    /\ now' = now + 1
    /\ UNCHANGED <<served, subs, chan, clients, ops>>

-----------------------------------------------------------------------------
(* The server.                                                               *)

Msg(st, at) == [kind |-> "state", st |-> st, at |-> at]
Drop == [kind |-> "drop", st |-> Blank, at |-> 0]

Due == pend.at <= now

\* ScheduledRoleState.current: the state in effect, and what stays pending.
Current == IF Due THEN pend.st ELSE cur
Remaining == IF Due THEN NoPend ELSE pend

Promote ==
    /\ cur' = Current /\ pend' = Remaining
    /\ replaced' = IF Due THEN {} ELSE replaced

\* ch with the message appended for the members of ms.
To(ch, ms, msg) == [m \in Members |-> IF m \in ms THEN Append(ch[m], msg) ELSE ch[m]]

\* on_member_join: the state in effect, then the scheduled state if the others have it.
Joining(ch, m, pe) ==
    LET now1 == To(ch, {m}, Msg(Current, now))
    IN  IF pe.at # Never /\ sent /\ m \notin Legacy THEN To(now1, {m}, Msg(pe.st, pe.at)) ELSE now1

Join(m) ==
    /\ m \notin subs /\ Op
    /\ subs' = subs \cup {m}
    /\ chan' = Joining(chan, m, Remaining)
    /\ Promote
    /\ UNCHANGED <<now, sent, timer, clients>>

\* _restate_to_legacy_members
Restate(m) ==
    /\ m \in subs \cap Legacy /\ Op
    /\ chan' = Joining(chan, m, Remaining)
    /\ Promote
    /\ UNCHANGED <<now, sent, timer, subs, clients>>

\* on_deactivate: the activation without the role makes the client forget its state.
Leave(m) ==
    /\ m \in subs /\ Op
    /\ subs' = subs \ {m}
    /\ chan' = To(chan, {m}, Drop)
    /\ UNCHANGED <<now, served, clients>>

\* on_disconnect; the client's next connection starts from nothing.
Disconnect(m) ==
    /\ m \in subs /\ Op
    /\ subs' = subs \ {m} /\ synced' = synced \ {m}
    /\ chan' = [chan EXCEPT ![m] = <<>>]
    /\ shown' = [shown EXCEPT ![m] = Nothing] /\ held' = [held EXCEPT ![m] = NoPend]
    /\ UNCHANGED <<now, served>>

\* _apply
Apply(st) ==
    /\ cur' = st /\ pend' = NoPend /\ sent' = FALSE /\ timer' = NoTimer /\ replaced' = {}
    /\ chan' = To(chan, subs, Msg(st, now))

\* A read of metadata, color or track_progress.
Read ==
    /\ Due
    /\ Promote
    /\ UNCHANGED <<now, sent, timer, subs, chan, clients, ops>>

\* set_metadata, set_color, update and clear, without a future timestamp: an unchanged state is
\* not sent. A seek (force) always is.
SetNow(st, force) ==
    /\ Op
    /\ IF Remaining.at = Never /\ ~force /\ st = Current
       THEN Promote /\ UNCHANGED <<sent, timer, chan>>
       ELSE Apply(st)
    /\ UNCHANGED <<now, subs, clients>>

\* _send_scheduled, with something to send.
SendScheduled(st, at, ch) ==
    /\ sent' = TRUE /\ timer' = [kind |-> "due", at |-> at, st |-> st]
    /\ chan' = To(ch, subs \ Legacy, Msg(st, at))

\* The clock made a state current before the timer sent it to the legacy members.
Overtaken == sent /\ timer.kind # "none" /\ Remaining.at = Never

\* Faulty variant: the clients keep what the replaced state had them hold.
ReplacedSentNever == FALSE

\* The members hold a state that is now replaced.
ReplacedSent == sent /\ Remaining.at # Never

\* _schedule: members told of the replaced state are told of the current one when the new one
\* is too far ahead to be sent.
Schedule(st, at) ==
    LET flushed == IF Overtaken THEN To(chan, subs \cap Legacy, Msg(Current, now)) ELSE chan
    IN  /\ Op /\ at > now
        /\ cur' = Current /\ pend' = [st |-> st, at |-> at]
        /\ replaced' = IF ReplacedSent THEN replaced \cup {Remaining} ELSE IF Due THEN {} ELSE replaced
        /\ IF at - Lead <= now
           THEN SendScheduled(st, at, flushed)
           ELSE /\ sent' = FALSE /\ timer' = [kind |-> "send", at |-> at - Lead, st |-> st]
                /\ chan' = IF ReplacedSent THEN To(flushed, subs, Msg(Current, now)) ELSE flushed
        /\ UNCHANGED <<now, subs, clients>>

\* The loop timer: _send_scheduled finds nothing when the state has become current meanwhile.
TimerSends ==
    /\ timer.kind = "send" /\ timer.at <= now
    /\ IF pend.at # Never
       THEN SendScheduled(pend.st, pend.at, chan)
       ELSE timer' = NoTimer /\ UNCHANGED <<sent, chan>>
    /\ UNCHANGED <<now, cur, pend, replaced, subs, clients, ops>>

\* _send_due
TimerDue ==
    /\ timer.kind = "due" /\ timer.at <= now
    /\ timer' = NoTimer
    /\ chan' = To(chan, subs \cap Legacy, Msg(timer.st, timer.at))
    /\ UNCHANGED <<now, cur, pend, sent, replaced, subs, clients, ops>>

\* cancel_scheduled, from the state in effect.
CancelScheduled ==
    CASE Remaining.at = Never -> Promote /\ UNCHANGED <<sent, timer, chan>>
      [] Remaining.at # Never /\ sent -> Apply(Current)
      [] Remaining.at # Never /\ ~sent ->
            cur' = Current /\ pend' = NoPend /\ timer' = NoTimer /\ replaced' = {} /\ UNCHANGED <<sent, chan>>

Cancel ==
    /\ Op
    /\ CancelScheduled
    /\ UNCHANGED <<now, subs, clients>>

\* reset_progress: a state without a moving position only loses its scheduled successor.
ResetProgress ==
    /\ Op
    /\ IF Current.moving THEN Apply([Current EXCEPT !.moving = FALSE]) ELSE CancelScheduled
    /\ UNCHANGED <<now, subs, clients>>

\* freeze_progress
FreezeProgress == Current.moving /\ SetNow([Current EXCEPT !.moving = FALSE], FALSE)

-----------------------------------------------------------------------------
(* The client.                                                               *)

\* _handle_server_state: whatever was held goes.
HeldAfter(m, msg) == IF msg.at > now /\ m \in synced THEN [st |-> msg.st, at |-> msg.at] ELSE NoPend

\* The reader takes the next message. A timer of the client's loop that is due has run by then:
\* the loop runs due timers before the task the message wakes.
Receive(m) ==
    LET msg == Head(chan[m])
    IN  /\ chan[m] # <<>> /\ held[m].at > now
        /\ chan' = [chan EXCEPT ![m] = Tail(@)]
        /\ CASE msg.kind = "drop" ->     \* _discard_removed_role_state
                  shown' = [shown EXCEPT ![m] = Nothing] /\ held' = [held EXCEPT ![m] = NoPend]
             [] msg.kind = "state" ->
                  /\ held' = [held EXCEPT ![m] = HeldAfter(m, msg)]
                  /\ shown' = IF msg.at > now /\ m \in synced THEN shown
                              ELSE [shown EXCEPT ![m] = [st |-> msg.st, at |-> msg.at,
                                                         early |-> msg.at > now]]
        /\ UNCHANGED <<now, served, subs, synced, ops>>

\* _apply_pending_state
ApplyHeld(m) ==
    /\ held[m].at <= now
    /\ shown' = [shown EXCEPT ![m] = [st |-> held[m].st, at |-> held[m].at, early |-> FALSE]]
    /\ held' = [held EXCEPT ![m] = NoPend]
    /\ UNCHANGED <<now, served, subs, chan, synced, ops>>

\* The time filter has its first sample.
Sync(m) ==
    /\ m \in subs \ synced
    /\ synced' = synced \cup {m}
    /\ UNCHANGED <<now, served, subs, chan, shown, held, ops>>

Next ==
    \/ Tick
    \/ \E m \in Members : Join(m)
    \/ \E m \in Members : Restate(m)
    \/ \E m \in Members : Leave(m)
    \/ \E m \in Members : Disconnect(m)
    \/ Read
    \/ \E st \in States \cup {Blank}, force \in BOOLEAN : SetNow(st, force)
    \/ \E st \in States, at \in 1..MaxNow : Schedule(st, at)
    \/ TimerSends
    \/ TimerDue
    \/ Cancel
    \/ ResetProgress
    \/ FreezeProgress
    \/ \E m \in Members : Receive(m)
    \/ \E m \in Members : ApplyHeld(m)
    \/ \E m \in Members : Sync(m)

Spec == Init /\ [][Next]_vars

-----------------------------------------------------------------------------
\* Once its messages are read and no timer is overdue, every member's client shows the state the
\* group has at this time, whatever was scheduled, cancelled or overtaken by the clock on the way.
\* Two exceptions: a client that got a scheduled state before its clock was synchronised shows it
\* ahead of its time, and a client that heard too late of a replacement shows the replaced state
\* until the replacement is due (_schedule, _send_due, on_member_join, _handle_server_state).
ShowsCurrent ==
    \A m \in subs :
        chan[m] = <<>> /\ timer.at > now /\ held[m].at > now =>
            \/ shown[m].st = Current \/ shown[m].early
            \/ Remaining.at # Never /\ [st |-> shown[m].st, at |-> shown[m].at] \in replaced

\* No client shows a state before its time, but the unsynchronised (_call_at_server_time); and
\* what a client holds is what the server has scheduled, unless word of the change is under way.
HeldIsScheduled ==
    \A m \in subs : chan[m] = <<>> /\ held[m].at > now /\ held[m].at # Never =>
        held[m] = pend

\* The two together: the clients show, and hold, what the server means them to.
InSync == ShowsCurrent /\ HeldIsScheduled

=============================================================================
