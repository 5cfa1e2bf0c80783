---------------------------- MODULE CaseRunProofs ----------------------------
(***************************************************************************)
(* Safety of CaseRun for every set of cases.  Phases relates each control  *)
(* point of the coroutine to what is known there of the two processes: it  *)
(* is what makes the safety invariants inductive.                          *)
(***************************************************************************)
EXTENDS CaseRun, TLAPS

\* What has been reaped is dead, and its returncode is its exit status.
ReapedIsDead == \A r \in Roles : Reaped(r) => proc[r] = "dead" /\ seen[r] = exit[r]

PairStretches ==
    {"spawnServer", "waitServerReady", "spawnClient", "waitClientReady",
     "waitServerExit", "waitClientExit", "waitKilledServer", "waitKilledClient", "judge"}
FailFastStretches == {"ffSpawn", "ffWaitReady", "ffWaitExit", "ffWaitKilled", "ffJudge"}

Phases ==
    /\ pc \in {"start", "spawnServer", "ffSpawn"} => \A r \in Roles : proc[r] = "unborn"
    /\ pc \in {"waitServerReady", "spawnClient"} => proc["client"] = "unborn"
    /\ pc \in {"waitClientExit", "waitKilledClient"} => Reaped("server")
    /\ pc = "judge" => \A r \in Roles : Reaped(r)
    /\ pc \in PairStretches \cup {"start"} => failing = "none" /\ judged = FALSE
    /\ pc \in FailFastStretches =>
         failing \in Roles /\ \A r \in Roles \ {failing} : proc[r] = "unborn"
    /\ pc = "ffJudge" => Reaped(failing)
    /\ pc \in {"done", "raised"} => \A r \in Roles : proc[r] = "unborn" \/ Reaped(r)

\* Nothing is recorded before the end, and no summary is older than the case.
Records ==
    /\ pc # "done" => result = NoResult
    /\ pc # "start" => \A r \in Roles : summary[r] # "absent" => fresh[r]

IInv == TypeOK /\ ReapedIsDead /\ Phases /\ Records /\ PassIsEarned /\ ReportedReasonLeads

-----------------------------------------------------------------------------
\* A result the runner records is a well-formed record.
LEMMA ResultType ==
    ASSUME TypeOK, NEW s \in {"passed", "failed"}, NEW k \in Kinds,
           NEW reps \in SUBSET Roles
    PROVE  Result(s, k, reps) \in ResultRecords
BY DEF TypeOK, Result, Recorded, ResultRecords

\* The initial states satisfy the inductive invariant.
LEMMA InitInv == Init => IInv
<1> SUFFICES ASSUME Init PROVE IInv
  OBVIOUS
<1>1. TypeOK
  BY DEF Init, TypeOK, Awaits, Stretches, Launchings, Ends, Summaries
<1>2. ReapedIsDead
  BY DEF Init, ReapedIsDead, Reaped
<1>3. Phases
  BY DEF Init, Phases, Reaped, PairStretches, FailFastStretches
<1>4. Records
  BY DEF Init, Records
<1>5. PassIsEarned /\ ReportedReasonLeads
  BY DEF Init, PassIsEarned, ReportedReasonLeads, NoResult
<1> QED
  BY <1>1, <1>2, <1>3, <1>4, <1>5 DEF IInv

\* What Decide can lead to: a fail-fast run of one side, the end of the case
\* with nothing launched, or the launch of the pair.
LEMMA DecideOutcomes ==
    Decide => \/ pc' = "ffSpawn" /\ failing' \in Roles /\ judged' \in BOOLEAN /\ result' = result
              \/ /\ pc' = "done" /\ failing' \in Roles /\ judged' = TRUE
                 /\ result' = Recorded(TRUE, "failed", "notRunnable", {})
              \/ /\ pc' = "done" /\ UNCHANGED <<failing, judged>>
                 /\ result' = Result("failed", "notRunnable", {})
              \/ pc' = "raised" /\ failing' \in Roles /\ judged' = TRUE /\ result' = result
              \/ pc' = "raised" /\ UNCHANGED <<failing, judged, result>>
              \/ pc' = "spawnServer" /\ UNCHANGED <<failing, judged, result>>
<1>1. ServerFirst(Unsupported) \in Roles /\ ServerFirst(Incapable) \in Roles
      /\ ServerFirst(Unbuilt) \in Roles
  BY DEF ServerFirst, Roles
<1>2. ASSUME FailFastOwn(ServerFirst(Unsupported))
      PROVE  \/ pc' = "ffSpawn" /\ failing' \in Roles /\ judged' \in BOOLEAN /\ result' = result
             \/ pc' = "raised" /\ failing' \in Roles /\ judged' = TRUE /\ result' = result
             \/ /\ pc' = "done" /\ failing' \in Roles /\ judged' = TRUE
                /\ result' = Recorded(TRUE, "failed", "notRunnable", {})
  BY <1>1, <1>2, Zenon DEF FailFastOwn
<1>3. ASSUME FailFast(ServerFirst(Incapable), TRUE) \/ FailFast(ServerFirst(Unbuilt), FALSE)
      PROVE  pc' = "ffSpawn" /\ failing' \in Roles /\ judged' \in BOOLEAN /\ result' = result
  BY <1>1, <1>3 DEF FailFast
<1> QED
  BY <1>2, <1>3, Zenon DEF Decide

\* A step of the coroutine keeps every variable in its type.
LEMMA RunnerType == TypeOK /\ Phases /\ (Runner \/ Cancel) => TypeOK'
<1> SUFFICES ASSUME TypeOK, Phases, Runner \/ Cancel PROVE TypeOK'
  OBVIOUS
<1> USE DEF TypeOK, runner, files, os, Awaits, Stretches, Launchings, Ends, OpenLog, Started,
       Closed, CloseLogs, KillSpawned
<1>1. CASE Prepare
  <2>1. /\ failing' \in Roles \cup {"none"}
        /\ judged' \in BOOLEAN
        /\ pc' \in Awaits \cup Stretches \cup Ends
    BY <1>1, DecideOutcomes DEF Prepare
  <2>2. /\ Result("failed", "notRunnable", {}) \in ResultRecords
        /\ Recorded(TRUE, "failed", "notRunnable", {}) \in ResultRecords
    BY DEF Kinds, ResultRecords, Result, Recorded
  <2>3. result' \in ResultRecords \cup {NoResult}
    BY <1>1, <2>2, DecideOutcomes DEF Prepare
  <2> QED
    BY <1>1, <2>1, <2>3 DEF Prepare, ClearCaseDir, Summaries
<1>2. CASE SpawnServer
  BY <1>2 DEF SpawnServer
<1>3. CASE WaitServerReady
  BY <1>3 DEF WaitServerReady
<1>4. CASE SpawnClient
  BY <1>4 DEF SpawnClient
<1>5. CASE WaitClientReady
  BY <1>5 DEF WaitClientReady
<1>6. CASE WaitServerExit
  BY <1>6 DEF WaitServerExit
<1>7. CASE WaitClientExit
  BY <1>7 DEF WaitClientExit
<1>8. CASE GiveUp
  BY <1>8 DEF GiveUp
<1>9. CASE WaitKilledServer
  BY <1>9 DEF WaitKilledServer
<1>10. CASE WaitKilledClient
  BY <1>10, ResultType DEF WaitKilledClient, Incomplete, Reporters, Kinds
<1>11. CASE Judge
  BY <1>11, ResultType DEF Judge, Incomplete, Reporters, Kinds
<1>12. CASE FFSpawn
  BY <1>12 DEF FFSpawn
<1>13. CASE FFWaitReady
  BY <1>13 DEF FFWaitReady
<1>14. CASE FFWaitExit
  BY <1>14 DEF FFWaitExit
<1>15. CASE FFGiveUp
  BY <1>15 DEF FFGiveUp
<1>16. CASE FFWaitKilled
  BY <1>16, ResultType DEF FFWaitKilled, Kinds
<1>17. CASE FFJudge
  BY <1>17, ResultType DEF FFJudge, Kinds, Phases, FailFastStretches
<1>18. CASE Cancel
  BY <1>18 DEF Cancel
<1> QED
  BY <1>1, <1>2, <1>3, <1>4, <1>5, <1>6, <1>7, <1>8, <1>9, <1>10, <1>11, <1>12, <1>13, <1>14, <1>15, <1>16, <1>17, <1>18 DEF Runner

\* A step of an adapter or of the system keeps every variable in its type.
LEMMA ProcessType == ASSUME NEW r \in Roles, TypeOK, Adapter(r) \/ Die(r) \/ Reap(r)
                     PROVE  TypeOK'
BY DEF TypeOK, runner, files, os, Adapter, WriteReady, BeginSummary, FinishSummary,
       Exit, Die, Reap, Summaries, Contents, ExitCodes

\* What a step of the coroutine leaves alone: exit statuses and returncodes
\* always, summaries once the case is prepared; and it starts or kills only
\* processes that have not been reaped.
LEMMA RunnerFrame ==
    ASSUME TypeOK, Phases, ReapedIsDead, Runner \/ Cancel
    PROVE  ReapedIsDead'
<1> USE DEF TypeOK, ReapedIsDead, Reaped, runner, files, os
<1>1. UNCHANGED os => ReapedIsDead'
  OBVIOUS
<1>2. CASE SpawnServer \/ SpawnClient \/ FFSpawn
  BY <1>2 DEF SpawnServer, SpawnClient, FFSpawn, Started, Phases, Roles, FailFastStretches
<1>3. CASE GiveUp \/ FFGiveUp
  BY <1>3 DEF GiveUp, FFGiveUp, KillSpawned
<1> QED
  BY <1>1, <1>2, <1>3 DEF Runner, Cancel, Prepare, WaitServerReady, WaitClientReady,
     WaitServerExit, WaitClientExit, WaitKilledServer, WaitKilledClient, Judge,
     FFWaitReady, FFWaitExit, FFWaitKilled, FFJudge

\* Every control point is reached with the facts Phases states of it.
LEMMA RunnerPhases ==
    ASSUME TypeOK, Phases, Runner \/ Cancel
    PROVE  Phases'
<1> USE DEF TypeOK, Phases, Reaped, runner, files, os, PairStretches, FailFastStretches
<1>1. CASE Prepare
  <2>2. \/ pc' = "ffSpawn" /\ failing' \in Roles
        \/ pc' \in {"done", "raised"}
        \/ pc' = "spawnServer" /\ UNCHANGED <<failing, judged>>
    BY <1>1, DecideOutcomes DEF Prepare
  <2> QED
    BY <1>1, <2>2 DEF Prepare
<1>2. CASE SpawnServer
  BY <1>2 DEF SpawnServer, Started, Roles
<1>3. CASE WaitServerReady
  BY <1>3 DEF WaitServerReady
<1>4. CASE SpawnClient
  BY <1>4 DEF SpawnClient, Started
<1>5. CASE WaitClientReady
  BY <1>5 DEF WaitClientReady
<1>6. CASE WaitServerExit
  BY <1>6 DEF WaitServerExit
<1>7. CASE WaitClientExit
  BY <1>7 DEF WaitClientExit, Roles
<1>8. CASE GiveUp
  BY <1>8 DEF GiveUp
<1>9. CASE WaitKilledServer
  BY <1>9 DEF WaitKilledServer
<1>10. CASE WaitKilledClient
  BY <1>10 DEF WaitKilledClient, Roles
<1>11. CASE Judge
  BY <1>11 DEF Judge
<1>12. CASE FFSpawn
  BY <1>12 DEF FFSpawn, Started
<1>13. CASE FFWaitReady
  BY <1>13 DEF FFWaitReady
<1>14. CASE FFWaitExit
  BY <1>14 DEF FFWaitExit
<1>15. CASE FFGiveUp
  BY <1>15 DEF FFGiveUp, KillSpawned
<1>16. CASE FFWaitKilled
  BY <1>16 DEF FFWaitKilled
<1>17. CASE FFJudge
  BY <1>17 DEF FFJudge
<1>18. CASE Cancel
  BY <1>18 DEF Cancel, Awaits, Launchings
<1> QED
  BY <1>1, <1>2, <1>3, <1>4, <1>5, <1>6, <1>7, <1>8, <1>9, <1>10, <1>11, <1>12, <1>13,
     <1>14, <1>15, <1>16, <1>17, <1>18 DEF Runner

\* Processes that are reaped or dead stay so, and what they left stays: a
\* process step keeps the facts about reaping and about control points.
LEMMA ProcessPhases ==
    ASSUME NEW r \in Roles, TypeOK, ReapedIsDead, Phases, Adapter(r) \/ Die(r) \/ Reap(r)
    PROVE  ReapedIsDead' /\ Phases'
<1> USE DEF TypeOK, ReapedIsDead, Reaped, runner, files, os
<1>1. /\ UNCHANGED <<pc, input, failing, judged, log, result>>
      /\ \A q \in Roles : proc[q] = "unborn" => proc'[q] = "unborn"
      /\ \A q \in Roles : Reaped(q) => Reaped(q)' /\ proc'[q] = "dead"
  BY DEF Adapter, WriteReady, BeginSummary, FinishSummary, Exit, Die, Reap, ExitCodes
<1>2. ReapedIsDead'
  BY DEF Adapter, WriteReady, BeginSummary, FinishSummary, Exit, Die, Reap, ExitCodes
<1>3. Phases'
  BY <1>1 DEF Phases, Roles, FailFastStretches
<1> QED
  BY <1>2, <1>3

\* No step records a result before the end of the case, or lets a summary
\* into the directory that no adapter of this case opened.
LEMMA RecordsStep ==
    ASSUME TypeOK, Phases, Records, Next
    PROVE  Records'
<1> USE DEF TypeOK, Records, runner, files, os, Summaries
<1>1. CASE Prepare
  BY <1>1, DecideOutcomes DEF Prepare, ClearCaseDir
<1>2. CASE (Runner \/ Cancel) /\ ~Prepare
  BY <1>2 DEF Runner, Cancel, SpawnServer, WaitServerReady, SpawnClient, WaitClientReady,
     WaitServerExit, WaitClientExit, GiveUp, WaitKilledServer, WaitKilledClient, Judge,
     FFSpawn, FFWaitReady, FFWaitExit, FFGiveUp, FFWaitKilled, FFJudge, Awaits, Launchings
<1>3. CASE \E r \in Roles : Adapter(r) \/ Die(r) \/ Reap(r)
  BY <1>3 DEF Adapter, WriteReady, BeginSummary, FinishSummary, Exit, Die, Reap
<1> QED
  BY <1>1, <1>2, <1>3 DEF Next

\* A verdict is only reached when every adapter the case launched has been
\* reaped, so the evidence it rests on is final.
LEMMA EvidenceStep ==
    ASSUME IInv, Next
    PROVE  PassIsEarned' /\ ReportedReasonLeads'
<1> USE DEF TypeOK, runner, files, os
<1>0. TypeOK /\ ReapedIsDead /\ Phases /\ Records /\ PassIsEarned /\ ReportedReasonLeads
  BY DEF IInv
<1>1. CASE Prepare
  <2>1. result'.status # "passed"
    BY <1>0, <1>1, DecideOutcomes DEF Prepare, Records, NoResult, Result, Recorded
  <2>2. pc' = "done" /\ failing' = "none" => result'.reporters = {} /\ Reporters' = {}
    BY <1>0, <1>1, DecideOutcomes
       DEF Prepare, ClearCaseDir, Reporters, Result, Recorded, Roles
  <2> QED
    BY <2>1, <2>2 DEF PassIsEarned, ReportedReasonLeads
<1>2. CASE WaitKilledClient \/ FFWaitKilled \/ FFJudge
  <2>1. result'.status # "passed"
    BY <1>0, <1>2 DEF WaitKilledClient, FFWaitKilled, FFJudge, Records, NoResult,
       Incomplete, Result, Recorded
  <2>2. pc' = "done" /\ failing' = "none" => result'.reporters = Reporters'
    BY <1>0, <1>2 DEF WaitKilledClient, FFWaitKilled, FFJudge, Phases, FailFastStretches,
       Roles, Incomplete, Result, Recorded, Reporters
  <2> QED
    BY <2>1, <2>2 DEF PassIsEarned, ReportedReasonLeads
<1>3. CASE Judge
  <2>1. failing = "none" /\ judged = FALSE /\ result = NoResult
    BY <1>0, <1>3 DEF Judge, Phases, PairStretches, Records
  <2>2. result'.status = "passed" =>
          \A r \in Roles : summary[r] = "ok" /\ seen[r] = "zero"
    BY <1>3, <2>1 DEF Judge, NoResult, Incomplete, Result, Recorded
  <2>3. \A r \in Roles : proc[r] = "dead" /\ seen[r] = exit[r]
                         /\ (summary[r] # "absent" => fresh[r])
    BY <1>0, <1>3 DEF Judge, Phases, ReapedIsDead, Records
  <2>4. PassIsEarned'
    BY <1>3, <2>1, <2>2, <2>3 DEF Judge, PassIsEarned
  <2>5. pc' = "done" => result'.reporters = Reporters
    BY <1>3 DEF Judge, Incomplete, Result, Recorded, Reporters
  <2> QED
    BY <1>3, <2>4, <2>5 DEF Judge, ReportedReasonLeads, Reporters
<1>4. CASE /\ Runner \/ Cancel
           /\ ~Prepare /\ ~WaitKilledClient /\ ~FFWaitKilled /\ ~FFJudge /\ ~Judge
  <2>1. result' = result /\ result = NoResult /\ pc' # "done"
    BY <1>0, <1>4 DEF Records, Runner, Cancel, SpawnServer, WaitServerReady, SpawnClient,
       WaitClientReady, WaitServerExit, WaitClientExit, GiveUp, WaitKilledServer,
       FFSpawn, FFWaitReady, FFWaitExit, FFGiveUp, Awaits, Launchings
  <2> QED
    BY <2>1 DEF PassIsEarned, ReportedReasonLeads, NoResult
<1>5. CASE \E r \in Roles : Adapter(r) \/ Die(r) \/ Reap(r)
  <2> PICK r \in Roles : Adapter(r) \/ Die(r) \/ Reap(r)
    BY <1>5
  <2>1. /\ UNCHANGED runner
        /\ \A q \in Roles : proc[q] \in {"unborn", "dead"} =>
             UNCHANGED <<proc[q], exit[q], summary[q], fresh[q]>>
    BY <1>0 DEF Adapter, WriteReady, BeginSummary, FinishSummary, Exit, Die, Reap
  <2>2. PassIsEarned'
    BY <1>0, <2>1 DEF PassIsEarned
  <2>3. ReportedReasonLeads'
    <3>1. pc = "done" => \A q \in Roles : summary'[q] = summary[q]
      BY <1>0, <2>1 DEF Phases, ReapedIsDead
    <3>2. pc = "done" => Reporters' = Reporters
      BY <3>1 DEF Reporters
    <3> QED
      BY <1>0, <2>1, <3>2 DEF ReportedReasonLeads
  <2> QED
    BY <2>2, <2>3
<1> QED
  BY <1>1, <1>2, <1>3, <1>4, <1>5 DEF Next

-----------------------------------------------------------------------------
LEMMA StepInv == IInv /\ [Next]_vars => IInv'
<1> SUFFICES ASSUME IInv, [Next]_vars PROVE IInv'
  OBVIOUS
<1>1. CASE Next
  <2>1. TypeOK'
    BY <1>1, RunnerType, ProcessType DEF Next, IInv
  <2>2. ReapedIsDead' /\ Phases'
    BY <1>1, RunnerFrame, RunnerPhases, ProcessPhases DEF Next, IInv
  <2>3. Records'
    BY <1>1, RecordsStep DEF IInv
  <2>4. PassIsEarned' /\ ReportedReasonLeads'
    BY <1>1, EvidenceStep
  <2> QED
    BY <2>1, <2>2, <2>3, <2>4 DEF IInv
<1>2. CASE UNCHANGED vars
  BY <1>2 DEF vars, runner, files, os, IInv, TypeOK, ReapedIsDead, Phases, Records,
     PassIsEarned, ReportedReasonLeads, Reaped, Reporters
<1> QED
  BY <1>1, <1>2

\* In every reachable state each control point of run_case is reached with
\* the processes in the state Phases states.
THEOREM Invariance == Spec => []IInv
BY InitInv, StepInv, PTL DEF Spec

\* run_case and _run_failfast_role keep every variable within its type.
THEOREM TypeCorrect == Spec => []TypeOK
<1>1. IInv => TypeOK
  BY DEF IInv
<1> QED
  BY <1>1, Invariance, PTL

\* Once run_case has returned or raised, every adapter it launched is dead
\* and reaped.
THEOREM NoOrphans == Spec => []NoAdapterOutlivesCase
<1>1. IInv => NoAdapterOutlivesCase
  BY DEF IInv, Phases, ReapedIsDead, NoAdapterOutlivesCase, Live
<1> QED
  BY <1>1, Invariance, PTL

\* A case that passes was earned by two adapters of this very run.
THEOREM PassedIsEarned == Spec => []PassIsEarned
<1>1. IInv => PassIsEarned
  BY DEF IInv
<1> QED
  BY <1>1, Invariance, PTL

\* The reason of a launched pair names exactly the adapters that reported one.
THEOREM ReasonLeads == Spec => []ReportedReasonLeads
<1>1. IInv => ReportedReasonLeads
  BY DEF IInv
<1> QED
  BY <1>1, Invariance, PTL

-----------------------------------------------------------------------------
(* What a case launches and which logs it leaves open.                     *)

\* A launched adapter has a log, and a log without an adapter is that of a launch
\* that came to nothing; none is open in the last stretches.
LogsClosed ==
    \A r \in Roles :
        /\ proc[r] # "unborn" => log[r] # "none"
        /\ proc[r] = "unborn" /\ log[r] = "open" =>
             \/ pc \in {"raised", "cancelled"}
             \/ r = "client" /\ pc \in {"waitKilledServer", "waitKilledClient"}
             \/ r = "client" /\ pc = "done" /\ result.kind = "timeout"
        /\ pc \in {"judge", "ffJudge"} => log[r] # "open"

Unable == Unsupported \cup Incapable

\* The pair runs when nothing speaks against it, a fail-fast run launches a side
\* that something speaks against, and remembers whether the harness judged it.
Fitness ==
    /\ pc \in PairStretches => Unable \cup Unbuilt = {}
    /\ pc \in FailFastStretches =>
         failing \in Unable \cup Unbuilt /\ (judged <=> Unable # {})

\* What Decide makes of a side that cannot run, and of a pair that can.
LEMMA DecideFitness ==
    ASSUME Decide
    PROVE  \/ Unable \cup Unbuilt = {} /\ pc' \in {"done", "raised", "spawnServer"}
           \/ /\ failing' \in Unable \cup Unbuilt /\ (judged' <=> Unable # {})
              /\ pc' \in {"ffSpawn", "raised", "done"}
              /\ pc' = "done" => result'.status = "failed" /\ (result'.unsupported <=> Unable # {})
<1>1. \A S \in SUBSET Roles : S # {} => ServerFirst(S) \in S
  BY DEF ServerFirst, Roles
<1>2. Unsupported \in SUBSET Roles /\ Incapable \in SUBSET Roles /\ Unbuilt \in SUBSET Roles
  BY DEF Unsupported, Incapable, Unbuilt
<1>3. CASE Unsupported # {} /\ FailFastOwn(ServerFirst(Unsupported))
  <2>1. /\ failing' \in Unsupported /\ judged' = TRUE
        /\ pc' \in {"ffSpawn", "raised", "done"}
        /\ pc' = "done" => result' = Recorded(TRUE, "failed", "notRunnable", {})
    BY <1>1, <1>2, <1>3 DEF FailFastOwn
  <2> QED
    BY <1>3, <2>1 DEF Unable, Recorded
<1>4. CASE Unsupported = {} /\ Incapable # {} /\ FailFast(ServerFirst(Incapable), TRUE)
  BY <1>1, <1>2, <1>4 DEF FailFast, Unable
<1>5. CASE /\ Unsupported = {} /\ Incapable = {} /\ Unbuilt # {}
           /\ FailFast(ServerFirst(Unbuilt), FALSE)
  BY <1>1, <1>2, <1>5 DEF FailFast, Unable
<1>6. CASE /\ Unsupported = {} /\ Incapable = {} /\ Unbuilt = {}
           /\ pc' \in {"done", "raised", "spawnServer"}
  BY <1>6 DEF Unable
<1> QED
  BY <1>3, <1>4, <1>5, <1>6, Zenon DEF Decide

\* A log is opened before its adapter is launched, and closed where no launched
\* adapter is left or the case is cancelled.
LEMMA LogsStep ==
    ASSUME IInv, LogsClosed, LogsFollowAdapters, Next
    PROVE  LogsClosed' /\ LogsFollowAdapters'
<1> USE DEF runner, files, os, LogsClosed, LogsFollowAdapters, Live
<1>0. TypeOK /\ ReapedIsDead /\ Phases
  BY DEF IInv
<1>1. CASE Prepare
  <2>1. pc = "start" /\ pc' \in {"done", "raised", "ffSpawn", "spawnServer"}
    BY <1>1, DecideOutcomes DEF Prepare
  <2>2. /\ UNCHANGED <<proc, log>>
        /\ \A r \in Roles : proc[r] = "unborn" /\ log[r] # "open"
    BY <1>0, <1>1, <2>1 DEF Prepare, Phases
  <2> QED
    BY <2>1, <2>2
<1>2. CASE SpawnServer \/ SpawnClient \/ FFSpawn
  <2>1. PICK r \in Roles :
          /\ proc[r] = "unborn" /\ OpenLog(r)
          /\ \/ pc' = "raised" /\ UNCHANGED proc /\ \A q \in Roles : proc[q] = "unborn"
             \/ pc' \in {"waitServerReady", "waitClientReady", "ffWaitReady"} /\ Started(r)
    BY <1>0, <1>2 DEF SpawnServer, SpawnClient, FFSpawn, Phases, FailFastStretches, Roles
  <2>2. \A q \in Roles : proc[q] = "unborn" => log[q] # "open"
    BY <1>2 DEF SpawnServer, SpawnClient, FFSpawn
  <2>3. /\ log'[r] = "open" /\ \A q \in Roles \ {r} : log'[q] = log[q]
        /\ \A q \in Roles \ {r} : proc'[q] = proc[q]
        /\ pc \notin Ends
    BY <1>0, <1>2, <2>1 DEF OpenLog, Started, TypeOK, Ends, SpawnServer, SpawnClient, FFSpawn
  <2>4. CASE pc' = "raised" /\ UNCHANGED proc /\ \A q \in Roles : proc[q] = "unborn"
    BY <2>2, <2>3, <2>4
  <2>5. CASE pc' \in {"waitServerReady", "waitClientReady", "ffWaitReady"} /\ Started(r)
    <3>1. proc'[r] = "running" /\ pc' \notin Ends
      BY <1>0, <2>5 DEF Started, TypeOK, Ends
    <3> QED
      BY <2>2, <2>3, <2>5, <3>1 DEF Ends
  <2> QED
    BY <2>1, <2>4, <2>5
<1>3. CASE GiveUp \/ FFGiveUp
  <2>1. /\ pc \notin Ends /\ pc' \in {"waitKilledServer", "ffWaitKilled"}
        /\ \A r \in Roles : (proc'[r] = "unborn" <=> proc[r] = "unborn") /\ (Live(r)' => Live(r))
    BY <1>0, <1>3 DEF GiveUp, FFGiveUp, KillSpawned, Ends, TypeOK
  <2>2. /\ pc \notin {"raised", "cancelled", "waitKilledServer", "waitKilledClient", "done"}
        /\ \/ UNCHANGED log
           \/ pc' = "waitKilledServer" /\ log' = [log EXCEPT !["client"] = "open"]
    BY <1>3 DEF GiveUp, FFGiveUp, OpenLog
  <2> QED
    BY <1>0, <2>1, <2>2 DEF Ends, TypeOK
<1>4. CASE WaitClientExit \/ WaitKilledClient \/ FFWaitExit \/ FFWaitKilled
  <2>1. /\ proc' = proc /\ CloseLogs
        /\ \A r \in Roles : ~Live(r)
    BY <1>0, <1>4 DEF WaitClientExit, WaitKilledClient, FFWaitExit, FFWaitKilled,
       Phases, ReapedIsDead, FailFastStretches, Roles
  <2>2. /\ pc \in {"waitClientExit", "waitKilledClient", "ffWaitExit", "ffWaitKilled"}
        /\ pc' \in {"judge", "ffJudge"} => pc \in {"waitClientExit", "ffWaitExit"}
        /\ pc = "waitKilledClient" => pc' = "done" /\ result'.kind = "timeout"
        /\ pc' \in {"judge", "ffJudge", "done"}
    BY <1>4 DEF WaitClientExit, WaitKilledClient, FFWaitExit, FFWaitKilled, Incomplete, Result, Recorded
  <2>3. \A r \in Roles : log'[r] = "open" => proc[r] = "unborn" /\ log[r] = "open"
    BY <2>1 DEF CloseLogs, Closed
  <2>4. \A r \in Roles : proc[r] # "unborn" => log'[r] = "closed"
    BY <1>0, <2>1 DEF CloseLogs, Closed, TypeOK
  <2>5. \A r \in Roles : log'[r] = "open" => r = "client" /\ pc = "waitKilledClient"
    BY <2>2, <2>3
  <2> QED
    BY <2>1, <2>2, <2>4, <2>5
<1>4a. CASE Cancel
  <2>1. /\ proc' = proc /\ pc' = "cancelled"
        /\ \A r \in Roles : log'[r] = IF Launches(r) THEN "open" ELSE Closed[r]
    BY <1>4a DEF Cancel
  <2>2. \A r \in Roles : Launches(r) => proc[r] = "unborn"
    BY <1>0 DEF Launches, Phases, Roles
  <2>3. \A r \in Roles : proc[r] # "unborn" => log'[r] = "closed"
    BY <1>0, <2>1, <2>2 DEF Closed, TypeOK
  <2>4. \A r, q \in Roles : log'[r] = "open" /\ log'[q] = "open" => r = q
    <3>1. \A r \in Roles : Closed[r] = "open" =>
             r = "client" /\ pc \in {"waitKilledServer", "waitKilledClient"}
      BY <1>4a DEF Closed, Cancel, Awaits, Launchings
    <3> QED
      BY <2>1, <3>1 DEF Launches, Roles
  <2> QED
    BY <2>1, <2>3, <2>4
<1>5. CASE Judge \/ FFJudge
  <2>1. UNCHANGED <<proc, log>> /\ pc \in {"judge", "ffJudge"} /\ pc' \in {"done", "raised"}
    BY <1>5 DEF Judge, FFJudge
  <2>2. \A r \in Roles : ~Live(r)
    BY <1>0, <2>1 DEF Phases, ReapedIsDead, FailFastStretches
  <2>3. \A r \in Roles : log[r] # "open" /\ (proc[r] # "unborn" => log[r] = "closed")
    BY <1>0, <2>1 DEF TypeOK
  <2> QED
    BY <2>1, <2>2, <2>3
<1>6. CASE WaitServerReady \/ WaitClientReady \/ WaitServerExit \/ WaitKilledServer \/ FFWaitReady
  <2>1. /\ UNCHANGED <<proc, log>> /\ pc # "cancelled" /\ pc \notin Ends
        /\ pc' \notin Ends \cup {"judge", "ffJudge"}
        /\ pc = "waitKilledServer" => pc' = "waitKilledClient"
    BY <1>6 DEF WaitServerReady, WaitClientReady, WaitServerExit, WaitKilledServer, FFWaitReady, Ends
  <2>2. pc \in {"waitServerReady", "waitClientReady", "waitServerExit", "waitKilledServer", "ffWaitReady"}
    BY <1>6 DEF WaitServerReady, WaitClientReady, WaitServerExit, WaitKilledServer, FFWaitReady
  <2> QED
    BY <2>1, <2>2 DEF Ends
<1>7. CASE \E r \in Roles : Adapter(r) \/ Die(r) \/ Reap(r)
  <2>1. /\ UNCHANGED <<pc, log, result>>
        /\ \A r \in Roles : (proc'[r] = "unborn" <=> proc[r] = "unborn") /\ (Live(r)' => Live(r))
    BY <1>0, <1>7 DEF Adapter, WriteReady, BeginSummary, FinishSummary, Exit, Die, Reap, TypeOK
  <2> QED
    BY <2>1
<1> QED
  BY <1>1, <1>2, <1>3, <1>4, <1>4a, <1>5, <1>6, <1>7 DEF Next, Runner

\* The decision taken at the start holds to the end: nothing changes the inputs.
LEMMA FitnessStep ==
    ASSUME IInv, Fitness, FailFastDiscipline, Next
    PROVE  Fitness' /\ FailFastDiscipline'
<1> USE DEF runner, files, os, PairStretches, FailFastStretches
<1>0. TypeOK /\ Phases
  BY DEF IInv
<1>a. input' = input
  BY DEF Next, Runner, Cancel, Prepare, SpawnServer, WaitServerReady, SpawnClient, WaitClientReady,
     WaitServerExit, WaitClientExit, GiveUp, WaitKilledServer, WaitKilledClient, Judge,
     FFSpawn, FFWaitReady, FFWaitExit, FFGiveUp, FFWaitKilled, FFJudge,
     Adapter, WriteReady, BeginSummary, FinishSummary, Exit, Die, Reap
<1>1. UNCHANGED <<Unable, Unbuilt>>
  BY <1>a DEF Unable, Unsupported, Incapable, Unbuilt
<1> DEFINE Kept == /\ result.status = "failed" /\ (result.unsupported <=> Unable # {})
                   /\ failing \in Unable \cup Unbuilt
                   /\ \A r \in Roles \ {failing} : proc[r] = "unborn"
<1>2. FailFastDiscipline <=> (pc = "done" /\ Unable \cup Unbuilt # {} => Kept)
  BY DEF FailFastDiscipline, Unable, Incapable
<1>3. FailFastDiscipline' <=> (pc' = "done" /\ Unable \cup Unbuilt # {} => Kept')
  BY <1>a DEF FailFastDiscipline, Unable, Unsupported, Incapable, Unbuilt
<1>4. CASE Prepare
  <2>1. proc' = proc /\ \A r \in Roles : proc[r] = "unborn"
    BY <1>0, <1>4 DEF Prepare, Phases
  <2>2. CASE Unable \cup Unbuilt = {} /\ pc' \in {"done", "raised", "spawnServer"}
    BY <1>1, <1>3, <2>2 DEF Fitness
  <2>3. CASE /\ failing' \in Unable \cup Unbuilt /\ (judged' <=> Unable # {})
             /\ pc' \in {"ffSpawn", "raised", "done"}
             /\ pc' = "done" => result'.status = "failed" /\ (result'.unsupported <=> Unable # {})
    BY <1>1, <1>3, <2>1, <2>3 DEF Fitness
  <2> QED
    BY <1>4, <2>2, <2>3, DecideFitness DEF Prepare
<1>5. CASE WaitKilledClient \/ Judge
  <2>1. pc \in PairStretches /\ pc' \in {"done", "raised"}
    BY <1>5 DEF WaitKilledClient, Judge
  <2> QED
    BY <1>1, <1>3, <2>1 DEF Fitness
<1>6. CASE FFWaitKilled \/ FFJudge
  <2>1. /\ pc \in FailFastStretches /\ pc' \in {"done", "raised"}
        /\ UNCHANGED <<failing, judged, proc>>
        /\ pc' = "done" => result'.status = "failed" /\ result'.unsupported = judged
    BY <1>6 DEF FFWaitKilled, FFJudge, Result, Recorded
  <2>2. failing \in Unable \cup Unbuilt /\ (judged <=> Unable # {})
        /\ \A r \in Roles \ {failing} : proc[r] = "unborn"
    BY <1>0, <2>1 DEF Fitness, Phases
  <2> QED
    BY <1>1, <1>3, <2>1, <2>2 DEF Fitness
<1>7. CASE \/ SpawnServer \/ WaitServerReady \/ SpawnClient \/ WaitClientReady \/ WaitServerExit
           \/ WaitClientExit \/ GiveUp \/ WaitKilledServer
  <2>1. /\ pc \in PairStretches /\ pc' \in PairStretches \cup {"raised"}
    BY <1>7 DEF SpawnServer, WaitServerReady, SpawnClient, WaitClientReady, WaitServerExit,
       WaitClientExit, GiveUp, WaitKilledServer
  <2> QED
    BY <1>1, <1>3, <2>1 DEF Fitness
<1>8. CASE FFSpawn \/ FFWaitReady \/ FFWaitExit \/ FFGiveUp \/ Cancel
  <2>1. /\ UNCHANGED <<failing, judged>> /\ pc' # "done"
        /\ pc' \in FailFastStretches => pc \in FailFastStretches
        /\ pc' \notin PairStretches
    BY <1>8 DEF FFSpawn, FFWaitReady, FFWaitExit, FFGiveUp, Cancel
  <2> QED
    BY <1>1, <1>3, <2>1 DEF Fitness
<1>9. CASE \E r \in Roles : Adapter(r) \/ Die(r) \/ Reap(r)
  <2>1. UNCHANGED runner /\ \A r \in Roles : proc[r] = "unborn" => proc'[r] = "unborn"
    BY <1>0, <1>9 DEF Adapter, WriteReady, BeginSummary, FinishSummary, Exit, Die, Reap, TypeOK
  <2> QED
    BY <1>1, <1>2, <1>3, <2>1 DEF Fitness
<1> QED
  BY <1>4, <1>5, <1>6, <1>7, <1>8, <1>9 DEF Next, Runner

\* A side that cannot run is launched alone, whatever decided it; the log of an
\* adapter is open while it runs and closed when the case ends, and only a launch
\* that came to nothing leaves one open.
THEOREM LaunchIsDisciplined == Spec => []LaunchDiscipline
<1> DEFINE LInv == LogsClosed /\ LogsFollowAdapters /\ Fitness /\ FailFastDiscipline
<1>1. Init => LInv
  BY DEF Init, LogsClosed, LogsFollowAdapters, Fitness, FailFastDiscipline, Live, Ends,
     PairStretches, FailFastStretches
<1>2. IInv /\ LInv /\ [Next]_vars => LInv'
  <2> SUFFICES ASSUME IInv, LInv, [Next]_vars PROVE LInv'
    OBVIOUS
  <2>1. CASE Next
    BY <2>1, LogsStep, FitnessStep
  <2>2. CASE UNCHANGED vars
    BY <2>2 DEF vars, runner, files, os, LogsClosed, LogsFollowAdapters, Fitness, FailFastDiscipline,
       Live, Unable, Unsupported, Incapable, Unbuilt
  <2> QED
    BY <2>1, <2>2
<1>3. LInv => LaunchDiscipline
  BY DEF LaunchDiscipline
<1> QED
  BY <1>1, <1>2, <1>3, Invariance, PTL DEF Spec

-----------------------------------------------------------------------------
(* The refinement.  The five expressions the abstract variables stand for. *)

Phase    == IF pc = "start" THEN "idle" ELSE IF pc \in Ends THEN "ended" ELSE "running"
Launched == {r \in Roles : proc[r] # "unborn"}
LiveSet  == {r \in Roles : Live(r)}
Vouched  == {r \in Roles : pc # "start" /\ summary[r] = "ok"}
Outcome  == CASE pc = "done" -> result.status
              [] pc \in {"raised", "cancelled"} -> pc
              [] OTHER -> "none"

\* The processes and files are what they were, so their images are.
LEMMA SameImages ==
    ASSUME UNCHANGED <<proc, summary>>, pc # "start", pc' # "start"
    PROVE  UNCHANGED <<Launched, LiveSet, Vouched>>
BY DEF Launched, LiveSet, Live, Vouched

\* Control moves on within the case: the abstract case does not move.
LEMMA Stutter ==
    ASSUME UNCHANGED <<proc, summary>>, pc \notin Ends \cup {"start"},
           pc' \notin Ends \cup {"start"}
    PROVE  UNCHANGED <<Phase, Launched, LiveSet, Vouched, Outcome>>
BY SameImages DEF Phase, Outcome, Ends

\* The case ends, its processes and files as they are.
LEMMA Ending ==
    ASSUME UNCHANGED <<proc, summary>>, pc \notin Ends \cup {"start"}, pc' \in Ends,
           Outcome' \in {"passed", "failed", "raised", "cancelled"},
           Outcome' = "passed" => Launched = Roles /\ Vouched = Roles,
           Outcome' # "cancelled" => LiveSet = {}
    PROVE  Abstract!Next
<1>1. Phase = "running" /\ Phase' = "ended"
  BY DEF Phase, Ends
<1>2. UNCHANGED <<Launched, LiveSet, Vouched>>
  BY SameImages DEF Ends
<1>3. Abstract!End(Outcome')
  BY <1>1, <1>2 DEF Abstract!End, Phase, Launched, LiveSet, Vouched, Outcome
<1> QED
  BY <1>3 DEF Abstract!Next, Abstract!Outcomes

\* A step of run_case or of the fail-fast path maps to Start, Launch, End or
\* to no step at all.
LEMMA RunnerMaps ==
    ASSUME IInv, Runner \/ Cancel
    PROVE  [Abstract!Next]_(Abstract!vars)
<1> USE DEF runner, files, os
<1>0. TypeOK /\ ReapedIsDead /\ Phases /\ Records
  BY DEF IInv
<1>1. CASE Prepare
  <2>1. /\ pc = "start" /\ proc' = proc /\ Vouched' = {}
        /\ \A r \in Roles : proc[r] = "unborn"
    BY <1>0, <1>1 DEF Prepare, ClearCaseDir, Vouched, Phases
  <2>2. Phase = "idle" /\ Outcome = "none" /\ UNCHANGED <<Launched, LiveSet, Vouched>>
    BY <2>1 DEF Phase, Outcome, Launched, LiveSet, Live, Vouched
  <2>3. \/ Phase' = "running" /\ Outcome' = "none"
        \/ Phase' = "ended" /\ Outcome' \in {"failed", "raised"}
    BY <1>1, DecideOutcomes DEF Prepare, Phase, Outcome, Ends, Result, Recorded
  <2>4. Abstract!Start
    BY <2>2, <2>3 DEF Abstract!Start, Phase, Outcome, Launched, LiveSet, Vouched
  <2> QED
    BY <2>4 DEF Abstract!Next
<1>2. CASE SpawnServer \/ SpawnClient \/ FFSpawn
  <2>1. CASE pc' = "raised"
    <3>1. /\ pc \in {"spawnServer", "ffSpawn"} /\ UNCHANGED <<proc, summary>>
          /\ \A r \in Roles : proc[r] = "unborn"
      BY <1>0, <1>2, <2>1 DEF SpawnServer, SpawnClient, FFSpawn, Phases
    <3>2. Outcome' = "raised" /\ LiveSet = {}
      BY <2>1, <3>1 DEF Outcome, LiveSet, Live
    <3> QED
      BY <2>1, <3>1, <3>2, Ending DEF Ends
  <2>2. CASE pc' # "raised"
    <3>1. PICK r \in Roles : proc[r] = "unborn" /\ proc' = [proc EXCEPT ![r] = "running"]
      BY <1>0, <1>2, <2>2
         DEF SpawnServer, SpawnClient, FFSpawn, Started, Phases, FailFastStretches, Roles
    <3>2. /\ summary' = summary /\ pc \notin Ends \cup {"start"}
          /\ pc' \notin Ends \cup {"start"}
      BY <1>2, <2>2 DEF SpawnServer, SpawnClient, FFSpawn, Ends
    <3>3. /\ r \notin Launched
          /\ Launched' = Launched \cup {r}
          /\ LiveSet' = LiveSet \cup {r}
          /\ Vouched' = Vouched
      BY <1>0, <3>1, <3>2 DEF Launched, LiveSet, Live, Vouched, TypeOK
    <3>4. Phase = "running" /\ Phase' = Phase /\ Outcome' = Outcome
      BY <3>2 DEF Phase, Outcome, Ends
    <3>5. Abstract!Launch(r)
      BY <3>3, <3>4 DEF Abstract!Launch, Phase, Launched, LiveSet, Vouched, Outcome
    <3> QED
      BY <3>5 DEF Abstract!Next
  <2> QED
    BY <2>1, <2>2
<1>3. CASE GiveUp \/ FFGiveUp
  <2>1. /\ summary' = summary /\ pc \notin Ends \cup {"start"}
        /\ pc' \notin Ends \cup {"start"}
    BY <1>3 DEF GiveUp, FFGiveUp, Ends
  <2>2. Launched' = Launched /\ LiveSet' = LiveSet /\ Vouched' = Vouched
    BY <1>0, <1>3, <2>1 DEF GiveUp, FFGiveUp, KillSpawned, Launched, LiveSet, Live, Vouched, TypeOK
  <2>3. Phase' = Phase /\ Outcome' = Outcome
    BY <2>1 DEF Phase, Outcome, Ends
  <2> QED
    BY <2>2, <2>3 DEF Abstract!vars, Phase, Launched, LiveSet, Vouched, Outcome
<1>4. CASE Judge
  <2>1. /\ UNCHANGED <<proc, summary>> /\ pc = "judge" /\ pc' \in {"done", "raised"}
        /\ \A r \in Roles : proc[r] = "dead"
    BY <1>0, <1>4 DEF Judge, Phases, ReapedIsDead
  <2>2. /\ pc' = "done" => result'.status \in {"passed", "failed"}
        /\ pc' = "done" /\ result'.status = "passed" => \A r \in Roles : summary[r] = "ok"
    BY <1>4 DEF Judge, Incomplete, Result, Recorded
  <2>3. /\ Outcome' \in {"passed", "failed", "raised"}
        /\ Outcome' = "passed" => Launched = Roles /\ Vouched = Roles
        /\ LiveSet = {}
    BY <2>1, <2>2 DEF Outcome, Launched, LiveSet, Live, Vouched
  <2> QED
    BY <2>1, <2>3, Ending DEF Ends
<1>5. CASE WaitKilledClient \/ FFWaitKilled \/ FFJudge
  <2>1. /\ UNCHANGED <<proc, summary>> /\ pc \notin Ends \cup {"start"}
        /\ pc' \in {"done", "raised"}
        /\ pc' = "done" => result'.status = "failed"
    BY <1>5 DEF WaitKilledClient, FFWaitKilled, FFJudge, Incomplete, Result, Recorded, Ends
  <2>2. LiveSet = {}
    BY <1>0, <1>5 DEF WaitKilledClient, FFWaitKilled, FFJudge, Phases, ReapedIsDead,
       FailFastStretches, LiveSet, Live, Roles
  <2>3. Outcome' \in {"failed", "raised"}
    BY <2>1 DEF Outcome
  <2> QED
    BY <2>1, <2>2, <2>3, Ending DEF Ends
<1>6. CASE Cancel
  <2>1. /\ UNCHANGED <<proc, summary>> /\ pc \notin Ends \cup {"start"} /\ pc' = "cancelled"
    BY <1>6 DEF Cancel, Awaits, Launchings, Ends
  <2>2. Outcome' = "cancelled"
    BY <2>1 DEF Outcome
  <2> QED
    BY <2>1, <2>2, Ending DEF Ends
<1>7. CASE \/ WaitServerReady \/ WaitClientReady \/ WaitServerExit \/ WaitClientExit
           \/ WaitKilledServer \/ FFWaitReady \/ FFWaitExit
  <2>1. /\ UNCHANGED <<proc, summary>> /\ pc \notin Ends \cup {"start"}
        /\ pc' \notin Ends \cup {"start"}
    BY <1>7 DEF WaitServerReady, WaitClientReady, WaitServerExit, WaitClientExit,
       WaitKilledServer, FFWaitReady, FFWaitExit, Ends
  <2> QED
    BY <2>1, Stutter DEF Abstract!vars, Phase, Launched, LiveSet, Vouched, Outcome
<1> QED
  BY <1>1, <1>2, <1>3, <1>4, <1>5, <1>6, <1>7 DEF Runner

\* A step of an adapter or of the system maps to Vouch, Retire or no step.
LEMMA ProcessMaps ==
    ASSUME IInv, NEW r \in Roles, Adapter(r) \/ Die(r) \/ Reap(r)
    PROVE  [Abstract!Next]_(Abstract!vars)
<1> USE DEF runner, files, os
<1>0. TypeOK /\ Phases
  BY DEF IInv
<1>1. Phase' = Phase /\ Outcome' = Outcome
  BY DEF Phase, Outcome, Adapter, WriteReady, BeginSummary, FinishSummary, Exit, Die, Reap
<1>2. CASE WriteReady(r) \/ Reap(r)
  <2>1. Launched' = Launched /\ LiveSet' = LiveSet /\ Vouched' = Vouched
    BY <1>2 DEF WriteReady, Reap, Launched, LiveSet, Live, Vouched
  <2> QED
    BY <1>1, <2>1 DEF Abstract!vars, Phase, Launched, LiveSet, Vouched, Outcome
<1>3. CASE BeginSummary(r) \/ FinishSummary(r)
  <2>1. /\ r \in LiveSet /\ Launched' = Launched /\ LiveSet' = LiveSet
        /\ Vouched' = Vouched \cup {r} \/ Vouched' = Vouched \ {r}
    BY <1>0, <1>3 DEF BeginSummary, FinishSummary, Launched, LiveSet, Live, Vouched,
       TypeOK, Phases
  <2>2. Abstract!Vouch(r)
    BY <1>1, <2>1 DEF Abstract!Vouch, Phase, Launched, LiveSet, Vouched, Outcome
  <2> QED
    BY <2>2 DEF Abstract!Next
<1>4. CASE Exit(r) \/ Die(r)
  <2>1. /\ r \in LiveSet /\ Launched' = Launched /\ LiveSet' = LiveSet \ {r}
        /\ Vouched' = Vouched
    BY <1>0, <1>4 DEF Exit, Die, Launched, LiveSet, Live, Vouched, TypeOK
  <2>2. Abstract!Retire(r)
    BY <1>1, <2>1 DEF Abstract!Retire, Phase, Launched, LiveSet, Vouched, Outcome
  <2> QED
    BY <2>2 DEF Abstract!Next
<1> QED
  BY <1>2, <1>3, <1>4 DEF Adapter

\* run_case, with the fail-fast path, the timeouts, the kills and the task
\* cancellation, keeps the promise CaseSpec states of a case.
THEOREM Implements == Spec => KeepsThePromise
<1>1. Init => Abstract!Init
  <2> SUFFICES ASSUME Init PROVE Abstract!Init
    OBVIOUS
  <2>1. Phase = "idle" /\ Launched = {} /\ LiveSet = {} /\ Vouched = {} /\ Outcome = "none"
    BY DEF Init, Phase, Launched, LiveSet, Live, Vouched, Outcome
  <2> QED
    BY <2>1 DEF Abstract!Init, Phase, Launched, LiveSet, Vouched, Outcome
<1>2. IInv /\ [Next]_vars => [Abstract!Next]_(Abstract!vars)
  <2> SUFFICES ASSUME IInv, [Next]_vars PROVE [Abstract!Next]_(Abstract!vars)
    OBVIOUS
  <2>1. CASE Next
    BY <2>1, RunnerMaps, ProcessMaps DEF Next
  <2>2. CASE UNCHANGED vars
    BY <2>2 DEF vars, runner, files, os, Abstract!vars, Live
  <2> QED
    BY <2>1, <2>2
<1> QED
  BY <1>1, <1>2, Invariance, PTL DEF Spec, KeepsThePromise, Abstract!Spec
=============================================================================
