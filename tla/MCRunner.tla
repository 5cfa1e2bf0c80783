------------------------------ MODULE MCRunner ------------------------------
(***************************************************************************)
(* The harness for TLC: one case (CaseRun, on the cases of MCCaseRun) and  *)
(* one run of the matrix (Matrix).  They share nothing: `which' says which *)
(* of them runs, and the other stays where it began.                       *)
(***************************************************************************)
EXTENDS MCCaseRun, Matrix

VARIABLE which

all == <<which, vars, matrixvars>>

MCInit ==
    \/ which = "case" /\ Init /\ MatrixInit /\ index = "absent" /\ results = [i \in Slots |-> "absent"]
    \/ which = "matrix" /\ MatrixInit /\ Init /\ input = Runnable
       /\ ready = Both(FALSE) /\ summary = Both("absent")

MCNext ==
    \/ which = "case" /\ Next /\ UNCHANGED <<which, matrixvars>>
    \/ which = "matrix" /\ MatrixNext /\ UNCHANGED <<which, vars>>

OfCase(A) == which = "case" /\ A /\ UNCHANGED <<which, matrixvars>>
OfMatrix(A) == which = "matrix" /\ A /\ UNCHANGED <<which, vars>>

\* The event loop runs what is ready: the coroutine of a case whenever it can
\* run (its timeouts fire), a killed process dies and a dead one is reaped.
\* Adapters owe nothing.  Matrix takes from CaseRun that every case ends.
MCSpec ==
    /\ MCInit /\ [][MCNext]_all
    /\ WF_all(OfCase(Runner))
    /\ \A r \in Roles : WF_all(OfCase(Die(r))) /\ WF_all(OfCase(Reap(r)))
    /\ WF_all(OfMatrix(Begin \/ Return \/ CancelAll \/ Fail))
    /\ \A i \in Slots : WF_all(OfMatrix(CaseStep(i)))

-----------------------------------------------------------------------------

\* Whatever the adapters do, hang included, the case ends.
CaseEnds == which = "case" ~> pc \in Ends

\* Whatever the cases do, run_matrix returns or raises.
MatrixEnds == which = "matrix" ~> phase \in {"returned", "failed"}
=============================================================================
