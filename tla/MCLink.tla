---------------------------------- MODULE MCLink ----------------------------------
(***************************************************************************)
(* The validator's connections to the app (Link) and the pairing its suites make *)
(* and dissolve (PairingRecord). They share nothing: `which' says which of them *)
(* runs, and the other stays where it began.                                 *)
(***************************************************************************)
EXTENDS Link

VARIABLES which,
    pr_suites, pr_pc, pr_stopping, pr_memory, pr_admit, pr_disk, pr_tmp, pr_threads, pr_saving,
    pr_earlier, pr_record, pr_number, pr_app, pr_session, pr_blamed, pr_agreed, pr_unpairing, pr_told,
    pr_cut

pairing == <<pr_suites, pr_pc, pr_stopping, pr_memory, pr_admit, pr_disk, pr_tmp, pr_threads, pr_saving,
    pr_earlier, pr_record, pr_number, pr_app, pr_session, pr_blamed, pr_agreed, pr_unpairing, pr_told,
    pr_cut>>

P == INSTANCE PairingRecord WITH
    suites <- pr_suites, pc <- pr_pc, stopping <- pr_stopping, memory <- pr_memory,
    admit <- pr_admit, disk <- pr_disk, tmp <- pr_tmp, threads <- pr_threads, saving <- pr_saving,
    earlier <- pr_earlier, record <- pr_record, number <- pr_number, app <- pr_app,
    session <- pr_session, blamed <- pr_blamed, agreed <- pr_agreed, unpairing <- pr_unpairing,
    told <- pr_told, cut <- pr_cut, Flaky <- TRUE

MCInit ==
    \/ which = "link" /\ Init /\ P!Init /\ pr_suites = P!Suites /\ pr_memory = 1
    \/ which = "pairing" /\ P!Init /\ Init /\ dialing

MCNext ==
    \/ which = "link" /\ Next /\ UNCHANGED <<which, pairing>>
    \/ which = "pairing" /\ P!Next /\ UNCHANGED <<which, vars>>

MCSpec == MCInit /\ [][MCNext]_<<which, vars, pairing>> /\ WF_vars(which = "link" /\ Resume /\ UNCHANGED <<which, pairing>>)

-----------------------------------------------------------------------------

\* Whatever the user skips and the app does, and also if Ctrl-C stops the run at a question or a wait for
\* the app, U1 and R3 give the pairing back, in memory and in the file.
PairingIsKept == which = "pairing" => P!PairingIsKept

\* A step looks at the session the server serves, whatever connects, replaces or breaks it, and an app that
\* keeps the spec, on a connection it may lose, is judged by what it was bound to do: no step ends in
\* TOOL_ERROR, and the app fails nothing but R4, and not even that once it has carried out server/unpair.
StepsAreFair ==
    /\ which = "link" => TypeOK /\ CurrentIsAttached
    /\ which = "pairing" => P!TypeOK /\ P!ValidatorNotToBlame /\ P!FailedAppWasNotTold
=============================================================================
