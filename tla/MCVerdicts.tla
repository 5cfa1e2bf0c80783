-------------------------------- MODULE MCVerdicts --------------------------------
(***************************************************************************)
(* What the verdicts make of the evidence: the start gate (StartGate), the   *)
(* code-pairing steps of the validator (CodePairing), a case's two adapters  *)
(* (Scenario) and the validator's opening and first steps (Opening). They share *)
(* nothing: `which' says which of them runs, and the others stay where they  *)
(* began.                                                                    *)
(***************************************************************************)
EXTENDS StartGate

CONSTANTS Attempts, MaxRounds, Blocks, PairingFaults, AdapterFaults, OpeningFaults

VARIABLES which,
    cp_step, cp_fault, cp_log, cp_toC, cp_toS, cp_att, cp_cli, cp_pc, cp_tried, cp_round, cp_wrongAt,
    cp_asRight, cp_closed, cp_skipped, cp_slow, cp_did,
    sc_kind, sc_initiator, sc_fault, sc_adapter, sc_reg, sc_spc, sc_cpc, sc_down, sc_up, sc_next,
    sc_fmt, sc_clock, sc_srv, sc_cli, sc_ssum, sc_csum, sc_did,
    op_plan, op_later, op_fault, op_access, op_up, op_down, op_rec, op_flagged, op_keyed, op_closed,
    op_spc, op_cpc, op_vpc, op_task, op_pq, op_since

code == <<cp_step, cp_fault, cp_log, cp_toC, cp_toS, cp_att, cp_cli, cp_pc, cp_tried, cp_round, cp_wrongAt,
    cp_asRight, cp_closed, cp_skipped, cp_slow, cp_did>>
scenario == <<sc_kind, sc_initiator, sc_fault, sc_adapter, sc_reg, sc_spc, sc_cpc, sc_down, sc_up, sc_next,
    sc_fmt, sc_clock, sc_srv, sc_cli, sc_ssum, sc_csum, sc_did>>
opening == <<op_plan, op_later, op_fault, op_access, op_up, op_down, op_rec, op_flagged, op_keyed, op_closed,
    op_spc, op_cpc, op_vpc, op_task, op_pq, op_since>>

C == INSTANCE CodePairing WITH
    step <- cp_step, fault <- cp_fault, log <- cp_log, toC <- cp_toC, toS <- cp_toS, att <- cp_att,
    cli <- cp_cli, pc <- cp_pc, tried <- cp_tried, round <- cp_round, wrongAt <- cp_wrongAt,
    asRight <- cp_asRight, closed <- cp_closed, skipped <- cp_skipped, slow <- cp_slow,
    did <- cp_did, Faults <- PairingFaults
S == INSTANCE Scenario WITH
    kind <- sc_kind, initiator <- sc_initiator, fault <- sc_fault, adapter <- sc_adapter,
    reg <- sc_reg, spc <- sc_spc, cpc <- sc_cpc, down <- sc_down, up <- sc_up, next <- sc_next,
    fmt <- sc_fmt, clock <- sc_clock, srv <- sc_srv, cli <- sc_cli, ssum <- sc_ssum,
    csum <- sc_csum, did <- sc_did, Faults <- AdapterFaults
O == INSTANCE Opening WITH
    plan <- op_plan, later <- op_later, fault <- op_fault, access <- op_access, up <- op_up,
    down <- op_down, rec <- op_rec, flagged <- op_flagged, keyed <- op_keyed, closed <- op_closed,
    spc <- op_spc, cpc <- op_cpc, vpc <- op_vpc, task <- op_task, pq <- op_pq, since <- op_since,
    Faults <- OpeningFaults

all == <<which, vars, code, scenario, opening>>

CodeResting == C!Init /\ cp_step = "qr" /\ cp_fault = "none"
ScenarioResting == S!Init /\ sc_kind = "pcm" /\ sc_initiator = "client" /\ sc_fault = "none"
OpeningResting == O!Init /\ op_plan = "opening" /\ op_access = "on" /\ op_fault = "none"

MCInit ==
    \/ which = "gate" /\ Init /\ CodeResting /\ ScenarioResting /\ OpeningResting
    \/ which = "code" /\ Init /\ C!Init /\ ScenarioResting /\ OpeningResting
    \/ which = "scenario" /\ Init /\ CodeResting /\ S!Init /\ OpeningResting
    \/ which = "opening" /\ Init /\ CodeResting /\ ScenarioResting /\ O!Init

MCNext ==
    \/ which = "gate" /\ Next /\ UNCHANGED <<which, code, scenario, opening>>
    \/ which = "code" /\ C!Next /\ UNCHANGED <<which, vars, scenario, opening>>
    \/ which = "scenario" /\ S!Next /\ UNCHANGED <<which, vars, code, opening>>
    \/ which = "opening" /\ O!Next /\ UNCHANGED <<which, vars, code, scenario>>

\* The fairness of the three specifications that promise an end.
MCSpec ==
    /\ MCInit /\ [][MCNext]_all
    /\ WF_all(which = "code" /\ C!Protocol /\ UNCHANGED <<which, vars, scenario, opening>>)
    /\ WF_all(which = "code" /\ C!Walkthrough /\ UNCHANGED <<which, vars, scenario, opening>>)
    /\ WF_all(which = "code" /\ cp_step = "lockout" /\ C!EnterCode(FALSE) /\ UNCHANGED <<which, vars, scenario, opening>>)
    /\ WF_all(which = "scenario" /\ S!Next /\ UNCHANGED <<which, vars, code, opening>>)
    /\ WF_all(which = "opening" /\ O!Next /\ UNCHANGED <<which, vars, code, scenario>>)

-----------------------------------------------------------------------------

\* Whoever did nothing wrong is not blamed: the client of a code-pairing step, the client of the opening
\* and of U2 to P1, and a pair of implementations in a case, in every order of the frames, the people and
\* the deadlines.
ConformantNotBlamed == C!ConformantNotBlamed /\ S!ConformantPasses /\ O!ConformantNotBlamed

\* A fault that was shown is reported, and does not hide behind the early end of the connection it causes:
\* by the check it is about in a code-pairing step, by a case that does not pass, by some finding of the
\* opening or the step.
FaultIsFound == C!FaultIsFound /\ S!FaultsFail /\ O!FaultFound

\* A reason that names a side names the one at fault, and a check fails only for the fault it is about.
BlameIsFair == S!BlameIsFair /\ O!BlameIsPrecise

\* Every step, case and session comes to its report, whatever the other side does or leaves undone.
EveryoneReports ==
    /\ which = "code" ~> cp_pc = "done"
    /\ which = "scenario" ~> S!Judged
    /\ which = "opening" ~> op_vpc = "verdict"
=============================================================================
