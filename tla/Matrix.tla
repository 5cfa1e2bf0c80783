------------------------------- MODULE Matrix -------------------------------
(***************************************************************************)
(* One matrix run, src/conformance/runner.py (run_matrix): the old results *)
(* are removed, one asyncio task is created per case in slot order, a      *)
(* semaphore lets `Jobs' of them run at once, gather collects their        *)
(* results, and the index is written from them.  When a case raises,       *)
(* gather raises, run_matrix does too, and asyncio.run cancels every case  *)
(* that is left: its adapters stay behind as orphans.                      *)
(*                                                                         *)
(* A case is what CaseSpec promises: it ends with no adapter left, unless  *)
(* it is cancelled.                                                        *)
(***************************************************************************)
EXTENDS Integers, Sequences, FiniteSets

CONSTANTS
    NumCases,           \* number of cases the filters leave
    Jobs                \* --jobs

ASSUME NumCasesAssumption == NumCases \in Nat
\* run_matrix raises ValueError otherwise, before it touches anything.
ASSUME JobsAssumption == Jobs \in Nat \ {0}

Slots == 0 .. NumCases - 1

VARIABLES
    phase,       \* start; running; failing (a case raised); cancelling; returned; failed
    task,        \* per slot: new, waiting, granted, running, returned, raised, cancelled
    waiters,     \* the semaphore's queue
    permits,     \* the semaphore's value
    verdict,     \* the status of the CaseResult a case returned
    results,       \* result.json of each case: absent, of an earlier run, of this one
    index,       \* index.json, likewise
    listed,      \* the status it lists for each slot
    orphans      \* cancelled cases whose adapters still run

sem  == <<waiters, permits>>
disk == <<results, index, listed>>
matrixvars == <<phase, task, sem, verdict, disk, orphans>>

Verdicts == {"passed", "failed"}

\* The results directory as an earlier run left it, or empty.
MatrixInit ==
    /\ phase = "start"
    /\ task = [i \in Slots |-> "new"]
    /\ waiters = <<>>
    /\ permits = Jobs
    /\ verdict = [i \in Slots |-> "none"]
    /\ results \in [Slots -> {"absent", "old"}]
    /\ index \in {"absent", "old"}
    /\ listed = [i \in Slots |-> "none"]
    /\ orphans = {}

-----------------------------------------------------------------------------
(* run_matrix up to gather.                                                *)

ClearResults ==
    /\ results' = [i \in Slots |-> "absent"]
    /\ index' = "absent"

Begin ==
    /\ phase = "start"
    /\ phase' = "running"
    /\ ClearResults
    /\ UNCHANGED <<task, sem, verdict, listed, orphans>>

-----------------------------------------------------------------------------
(* The semaphore.  A granted task holds its permit and has not resumed.    *)

Free == permits > 0 /\ \A i \in Slots : task[i] \notin {"waiting", "granted"}

\* Every task takes its first step before the event loop handles any other
\* event, because gather schedules them all at once.  In its own first step a
\* case may already end: one that launches nothing awaits nothing.
AllStarted == \A i \in Slots : task[i] # "new"
MayEnd(i)  == AllStarted \/ \A j \in Slots : j > i => task[j] = "new"

\* Faulty variant: the permit is returned and nobody is woken.
ReleaseSilently(ended) == permits' = permits + 1 /\ task' = ended /\ UNCHANGED waiters

\* The permit goes to the longest waiter, if there is one; `ended' is the
\* state of the tasks once the caller has ended.
Release(ended) ==
    \/ /\ waiters = <<>>
       /\ permits' = permits + 1
       /\ task' = ended
       /\ UNCHANGED waiters
    \/ /\ waiters # <<>>
       /\ task' = [ended EXCEPT ![Head(waiters)] = "granted"]
       /\ waiters' = Tail(waiters)
       /\ UNCHANGED permits

-----------------------------------------------------------------------------
(* The cases.                                                              *)

\* The first step of the task of case i.
Arrive(i) ==
    /\ phase \in {"running", "failing"}
    /\ task[i] = "new"
    /\ \A j \in Slots : j < i => task[j] # "new"
    /\ \/ /\ Free
          /\ permits' = permits - 1
          /\ task' = [task EXCEPT ![i] = "running"]
          /\ UNCHANGED waiters
       \/ /\ ~Free
          /\ task' = [task EXCEPT ![i] = "waiting"]
          /\ waiters' = Append(waiters, i)
          /\ UNCHANGED permits
    /\ UNCHANGED <<phase, verdict, disk, orphans>>

Resume(i) ==
    /\ phase \in {"running", "failing"}
    /\ AllStarted
    /\ task[i] = "granted"
    /\ task' = [task EXCEPT ![i] = "running"]
    /\ UNCHANGED <<phase, sem, verdict, disk, orphans>>

\* run_case returns; _write_result has written result.json.
Finish(i) ==
    /\ phase \in {"running", "failing"}
    /\ task[i] = "running"
    /\ MayEnd(i)
    /\ Release([task EXCEPT ![i] = "returned"])
    /\ \E v \in Verdicts : verdict' = [verdict EXCEPT ![i] = v]
    /\ results' = [results EXCEPT ![i] = "new"]
    /\ UNCHANGED <<phase, index, listed, orphans>>

\* run_case raises.  The first exception is the one gather raises.
Raise(i) ==
    /\ phase \in {"running", "failing"}
    /\ task[i] = "running"
    /\ MayEnd(i)
    /\ Release([task EXCEPT ![i] = "raised"])
    /\ phase' = "failing"
    /\ UNCHANGED <<verdict, disk, orphans>>

-----------------------------------------------------------------------------
(* gather returns.                                                         *)

\* Faulty variant: exceptions are collected like results.
ReturnRegardless ==
    /\ phase \in {"running", "failing"}
    /\ \A i \in Slots : task[i] \in {"returned", "raised"}
    /\ phase' = "returned"
    /\ index' = "new"
    /\ listed' = verdict
    /\ UNCHANGED <<task, sem, verdict, results, orphans>>

Return ==
    /\ phase = "running"
    /\ \A i \in Slots : task[i] = "returned"
    /\ phase' = "returned"
    /\ index' = "new"
    /\ listed' = verdict
    /\ UNCHANGED <<task, sem, verdict, results, orphans>>

-----------------------------------------------------------------------------
(* gather raises, and so does run_matrix.                                  *)

\* asyncio.run cancels every task that is left.  Those in the queue leave it.
CancelAll ==
    /\ phase = "failing"
    /\ AllStarted
    /\ phase' = "cancelling"
    /\ task' = [i \in Slots |-> IF task[i] = "waiting" THEN "cancelled" ELSE task[i]]
    /\ waiters' = <<>>
    /\ UNCHANGED <<permits, verdict, disk, orphans>>

\* Faulty variant: a case cancelled before it resumed keeps its permit.
CancelOneKeepingGrant(i) ==
    /\ phase = "cancelling"
    /\ task[i] \in {"granted", "running"}
    /\ task' = [task EXCEPT ![i] = "cancelled"]
    /\ permits' = IF task[i] = "running" THEN permits + 1 ELSE permits
    /\ \/ task[i] = "running" /\ orphans' = orphans \cup {i}
       \/ UNCHANGED orphans
    /\ UNCHANGED <<phase, waiters, verdict, disk>>

\* CancelledError reaches a case: the semaphore is released, and nobody
\* kills the adapters.  One that was granted its permit has none yet.
CancelOne(i) ==
    /\ phase = "cancelling"
    /\ task[i] \in {"granted", "running"}
    /\ task' = [task EXCEPT ![i] = "cancelled"]
    /\ permits' = permits + 1
    /\ \/ task[i] = "running" /\ orphans' = orphans \cup {i}
       \/ UNCHANGED orphans
    /\ UNCHANGED <<phase, waiters, verdict, disk>>

Fail ==
    /\ phase = "cancelling"
    /\ \A i \in Slots : task[i] \in {"returned", "raised", "cancelled"}
    /\ phase' = "failed"
    /\ UNCHANGED <<task, sem, verdict, disk, orphans>>

OrphanExits(i) ==
    /\ i \in orphans
    /\ orphans' = orphans \ {i}
    /\ UNCHANGED <<phase, task, sem, verdict, disk>>

-----------------------------------------------------------------------------
CaseStep(i) == Arrive(i) \/ Resume(i) \/ Finish(i) \/ Raise(i) \/ CancelOne(i)

MatrixNext ==
    \/ Begin \/ Return \/ CancelAll \/ Fail
    \/ \E i \in Slots : CaseStep(i) \/ OrphanExits(i)

MatrixSpec == MatrixInit /\ [][MatrixNext]_matrixvars

-----------------------------------------------------------------------------
Phases == {"start", "running", "failing", "cancelling", "returned", "failed"}
TaskStates == {"new", "waiting", "granted", "running", "returned", "raised", "cancelled"}

\* Every variable stays within the values the code gives it.
MatrixTypeOK ==
    /\ phase \in Phases
    /\ task \in [Slots -> TaskStates]
    /\ waiters \in Seq(Slots)
    /\ permits \in Nat
    /\ verdict \in [Slots -> Verdicts \cup {"none"}]
    /\ results \in [Slots -> {"absent", "old", "new"}]
    /\ index \in {"absent", "old", "new"}
    /\ listed \in [Slots -> Verdicts \cup {"none"}]
    /\ orphans \in SUBSET Slots

Holders == {i \in Slots : task[i] \in {"granted", "running"}}

\* --jobs is respected on every path, cancellation included: a permit is free
\* or held by one case, none is lost and none is returned twice.
PermitsConserved == permits + Cardinality(Holders) = Jobs

\* No case waits for a permit while one is free.
NoIdlePermit == permits > 0 => \A i \in Slots : task[i] # "waiting"

\* Cases start in slot order: none overtakes one queued before it.
NoOvertaking ==
    \A i, j \in Slots :
        i < j /\ task[i] = "waiting" => task[j] \in {"new", "waiting"}

\* Whoever reads the data directory during or after a run finds results of
\* this run only; an index is there only when every case returned, and then
\* it agrees with every case's own result and the run has left no adapter
\* behind: the next run of the matrix finds its ports free.
IndexTellsThisRun ==
    /\ phase # "start" => index # "old" /\ \A i \in Slots : results[i] # "old"
    /\ phase \in Phases \ {"start", "returned"} => index = "absent"
    /\ phase = "returned" =>
         /\ \A i \in Slots : results[i] = "new" /\ verdict[i] \in Verdicts /\ listed[i] = verdict[i]
         /\ orphans = {}
=============================================================================
