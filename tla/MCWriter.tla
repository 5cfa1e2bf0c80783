--------------------------------- MODULE MCWriter ---------------------------------
(***************************************************************************)
(* What reaches a client in which order: a connection's queues and their writer *)
(* (Writer), and the states sent ahead of the time they apply (Scheduled). They *)
(* share nothing: `which' says which of them runs, and the other stays where it *)
(* began.                                                                    *)
(***************************************************************************)
EXTENDS Writer

CONSTANTS Members, Legacy, Tracks, StateLead, Slack, StateNow, StateOps

\* A loop timer is late by less than the lead, which is 20 seconds (MAX_SCHEDULED_LEAD_US).
ASSUME ScheduledAssumption ==
    StateLead \in Nat /\ Slack \in Nat /\ Slack < StateLead /\ StateNow \in Nat

VARIABLES which,
    sc_now, sc_cur, sc_pend, sc_sent, sc_timer, sc_subs, sc_chan, sc_shown, sc_held, sc_synced,
    sc_ops, sc_replaced

scheduled == <<sc_now, sc_cur, sc_pend, sc_sent, sc_timer, sc_subs, sc_chan, sc_shown, sc_held, sc_synced,
    sc_ops, sc_replaced>>

S == INSTANCE Scheduled WITH
    now <- sc_now, cur <- sc_cur, pend <- sc_pend, sent <- sc_sent, timer <- sc_timer,
    subs <- sc_subs, chan <- sc_chan, shown <- sc_shown, held <- sc_held, synced <- sc_synced,
    ops <- sc_ops, replaced <- sc_replaced, Lead <- StateLead, MaxNow <- StateNow,
    MaxOps <- StateOps

MCInit == which \in {"writer", "scheduled"} /\ Init /\ S!Init

MCNext ==
    \/ which = "writer" /\ Next /\ UNCHANGED <<which, scheduled>>
    \/ which = "scheduled" /\ S!Next /\ UNCHANGED <<which, vars>>

MCSpec == MCInit /\ [][MCNext]_<<which, vars, scheduled>>

-----------------------------------------------------------------------------

\* Binary audio reaches the client inside its stream and under its own number, and what the connection's
\* calls replaced, discarded or ended is not sent after it.
OnlyTheStream == which = "writer" => TypeOK /\ InStream /\ Settled

\* The writer does not fall asleep on work: a role with a message to send is scheduled or waited for, and
\* a wake-up that comes while it looks is not lost.
WriterAttends == which = "writer" => NoRoleForgotten /\ NoLostWakeup

\* A client shows the current state of its family once it has read what it was sent and the state's time
\* has come, and holds ahead only what the server still means to apply.
InSync == which = "scheduled" => S!InSync
=============================================================================
