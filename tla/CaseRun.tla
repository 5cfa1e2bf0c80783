------------------------------- MODULE CaseRun -------------------------------
(***************************************************************************)
(* One conformance case as src/conformance/runner.py runs it: run_case and *)
(* the fail-fast path it falls back to, the process helpers of process.py, *)
(* and the two adapter processes as the most general environment.          *)
(*                                                                         *)
(* run_case is an asyncio coroutine.  It runs alone between two awaits, so *)
(* one action is one stretch of code up to the next await (a stretch that  *)
(* only computes what to do next is an action of its own, and nothing can  *)
(* cancel the task there).  The adapters are operating system processes:   *)
(* their steps interleave with the runner's at any point, they may write,  *)
(* hang, crash or be killed at any point, and a summary is written in two  *)
(* steps (Path.write_text truncates, then writes).                         *)
(*                                                                         *)
(* `pc' names the await the coroutine is suspended at, or the stretch it   *)
(* is about to run:                                                        *)
(*                                                                         *)
(*   start                     run_case has not touched the disk yet       *)
(*   spawnServer, spawnClient  collect_process                             *)
(*   waitServerReady, waitClientReady, waitServerExit, waitClientExit      *)
(*   waitKilledServer, waitKilledClient     the except clause              *)
(*   judge                     both adapters exited in time                *)
(*   ffSpawn, ffWaitReady, ffWaitExit, ffWaitKilled, ffJudge               *)
(*                             _run_failfast_role                          *)
(*   done, raised, cancelled   returned, raised, or CancelledError         *)
(***************************************************************************)
CONSTANT Inputs      \* the cases (scenario, pair of implementations, build) considered

Roles == {"server", "client"}

\* What the runner knows about a case before it launches anything:
\*   supported   RoleSpec.supported of each side
\*   capable     capability_failure of the side is None
\*   build       its build result: none recorded, built, or anything else
\*   command     _build_role_command gives a command, gives None, or raises
\*               (ensure_repo_checkout on a missing checkout)
CaseInputs == [supported : [Roles -> BOOLEAN],
               capable   : [Roles -> BOOLEAN],
               build     : [Roles -> {"none", "built", "failed"}],
               command   : [Roles -> {"ready", "none", "error"}]]

ASSUME InputsAssumption == Inputs \subseteq CaseInputs

\* A summary file: absent; empty or cut short; status "ok"; another status
\* with a reason; another status without one.
Contents  == {"ok", "error", "mute"}
Summaries == Contents \cup {"absent", "partial"}
ExitCodes == {"zero", "nonzero", "killed"}

VARIABLES
    pc,          \* where the coroutine is
    input,       \* the case
    failing,     \* the role a fail-fast run launches, or "none"
    judged,      \* TRUE when the harness judged the case unsupported
    proc,        \* process of each role: unborn, running, dying (SIGKILL sent), dead
    exit,        \* exit status the operating system holds for it
    seen,        \* Process.returncode: what the event loop has observed of it
    ready,       \* does the role's ready file exist
    summary,     \* content of the role's summary file
    fresh,       \* history: the summary file was opened by this run's adapter
    log,         \* the runner's handle on the role's log
    result       \* the CaseResult written to result.json

runner == <<pc, input, failing, judged, log, result>>
files  == <<ready, summary, fresh>>
os     == <<proc, exit, seen>>
vars   == <<runner, files, os>>

NoResult == [status |-> "none"]

Recorded(mark, status, kind, reporters) ==
    [status |-> status, kind |-> kind, reporters |-> reporters,
     unsupported |-> mark, codes |-> seen]
Result(status, kind, reporters) == Recorded(judged, status, kind, reporters)

Kinds == {"notRunnable", "timeout", "missing", "reported", "silent",
          "mismatch", "nonzero", "matched"}

Awaits == {"waitServerReady", "waitClientReady", "waitServerExit",
           "waitClientExit", "waitKilledServer", "waitKilledClient",
           "ffWaitReady", "ffWaitExit", "ffWaitKilled"}
Launchings == {"spawnServer", "spawnClient", "ffSpawn"}
Stretches == {"start", "judge", "ffJudge"} \cup Launchings
Ends == {"done", "raised", "cancelled"}

-----------------------------------------------------------------------------
\* The state an earlier run can have left in the case directory.
Init ==
    /\ pc = "start"
    /\ input \in Inputs
    /\ failing = "none"
    /\ judged = FALSE
    /\ proc = [r \in Roles |-> "unborn"]
    /\ exit = [r \in Roles |-> "none"]
    /\ seen = [r \in Roles |-> "none"]
    /\ ready \in [Roles -> BOOLEAN]
    /\ summary \in [Roles -> Summaries]
    /\ fresh = [r \in Roles |-> FALSE]
    /\ log = [r \in Roles |-> "none"]
    /\ result = NoResult

-----------------------------------------------------------------------------
(* The decision run_case takes before it launches anything.                *)

Unsupported == {r \in Roles : ~input.supported[r]}
Unbuilt     == {r \in Roles : input.build[r] = "failed"}

\* Faulty variant: the build results are looked at before the capabilities.
IncapableAfterBuild == {r \in Roles : ~input.capable[r] /\ Unbuilt = {}}

Incapable   == {r \in Roles : ~input.capable[r]}
Broken      == {r \in Roles : input.command[r] = "error"}
Commandless == {r \in Roles : input.command[r] = "none"}

\* Every check looks at the server before it looks at the client.
ServerFirst(S) == IF "server" \in S THEN "server" ELSE "client"

\* Faulty variant: the directory is created if absent, never emptied.
KeepCaseDir == UNCHANGED files

ClearCaseDir ==
    /\ ready' = [r \in Roles |-> FALSE]
    /\ summary' = [r \in Roles |-> "absent"]
    /\ fresh' = [r \in Roles |-> FALSE]

\* The reason is given: a placeholder adapter is launched to report it.
FailFast(r, unsupported) ==
    /\ failing' = r
    /\ judged' = unsupported
    /\ pc' = "ffSpawn"
    /\ UNCHANGED result

\* No reason is given: the implementation's own adapter is to report it.
FailFastOwn(r) ==
    /\ failing' = r
    /\ judged' = TRUE
    /\ \/ input.command[r] = "ready" /\ pc' = "ffSpawn" /\ UNCHANGED result
       \/ input.command[r] = "error" /\ pc' = "raised" /\ UNCHANGED result
       \/ /\ input.command[r] = "none"
          /\ pc' = "done"
          /\ result' = Recorded(TRUE, "failed", "notRunnable", {})

Decide ==
    \/ /\ Unsupported # {}
       /\ FailFastOwn(ServerFirst(Unsupported))
    \/ /\ Unsupported = {} /\ Incapable # {}
       /\ FailFast(ServerFirst(Incapable), TRUE)
    \/ /\ Unsupported = {} /\ Incapable = {} /\ Unbuilt # {}
       /\ FailFast(ServerFirst(Unbuilt), FALSE)
    \/ /\ Unsupported = {} /\ Incapable = {} /\ Unbuilt = {}
       /\ UNCHANGED <<failing, judged>>
       /\ \/ Broken # {} /\ pc' = "raised" /\ UNCHANGED result
          \/ /\ Broken = {} /\ Commandless # {}
             /\ pc' = "done"
             /\ result' = Result("failed", "notRunnable", {})
          \/ /\ Broken = {} /\ Commandless = {}
             /\ pc' = "spawnServer"
             /\ UNCHANGED result

Prepare ==
    /\ pc = "start"
    /\ ClearCaseDir
    /\ Decide
    /\ UNCHANGED <<input, log, os>>

-----------------------------------------------------------------------------
(* process.py.                                                             *)

\* collect_process opens the log before it launches anything: when
\* create_subprocess_exec raises or is cancelled, no Process carries the
\* handle and no code closes it.  (The interpreter may, on collecting it.)
OpenLog(r) == log' = [log EXCEPT ![r] = "open"]
Started(r) == proc' = [proc EXCEPT ![r] = "running"]

\* close_process_log of the adapters that were launched.
Closed == [r \in Roles |-> IF log[r] = "open" /\ proc[r] # "unborn" THEN "closed" ELSE log[r]]
CloseLogs == log' = Closed

\* The coroutine is about to launch the adapter of r.
Launches(r) ==
    \/ pc = "spawnServer" /\ r = "server"
    \/ pc = "spawnClient" /\ r = "client"
    \/ pc = "ffSpawn" /\ r = failing

Reaped(r) == seen[r] # "none"

\* Faulty variant: only the server is killed.
KillServer ==
    proc' = [proc EXCEPT !["server"] = IF @ = "running" /\ ~Reaped("server") THEN "dying" ELSE @]

\* kill() of every adapter whose returncode is still None.  It does nothing
\* to a process that is gone and not reaped yet.
KillSpawned ==
    proc' = [r \in Roles |-> IF proc[r] = "running" /\ ~Reaped(r) THEN "dying" ELSE proc[r]]

-----------------------------------------------------------------------------
(* run_case, the two adapters launched.                                    *)

\* Outside the try: an error of the launch itself leaves run_case.
SpawnServer ==
    /\ pc = "spawnServer"
    /\ OpenLog("server")
    /\ \/ pc' = "waitServerReady" /\ Started("server")
       \/ pc' = "raised" /\ UNCHANGED proc
    /\ UNCHANGED <<input, failing, judged, result, files, exit, seen>>

WaitServerReady ==
    /\ pc = "waitServerReady"
    /\ ready["server"]
    /\ pc' = "spawnClient"
    /\ UNCHANGED <<input, failing, judged, log, result, files, os>>

SpawnClient ==
    /\ pc = "spawnClient"
    /\ pc' = "waitClientReady"
    /\ OpenLog("client")
    /\ Started("client")
    /\ UNCHANGED <<input, failing, judged, result, files, exit, seen>>

WaitClientReady ==
    /\ pc = "waitClientReady"
    /\ ready["client"]
    /\ pc' = "waitServerExit"
    /\ UNCHANGED <<input, failing, judged, log, result, files, os>>

WaitServerExit ==
    /\ pc = "waitServerExit"
    /\ Reaped("server")
    /\ pc' = "waitClientExit"
    /\ UNCHANGED <<input, failing, judged, log, result, files, os>>

WaitClientExit ==
    /\ pc = "waitClientExit"
    /\ Reaped("client")
    /\ pc' = "judge"
    /\ CloseLogs
    /\ UNCHANGED <<input, failing, judged, result, files, os>>

\* Any await of the try block may time out, and the client's launch may
\* fail (its log is open by then): the except clause kills what is left.  A
\* timeout can beat an event that has already happened: the ready file may
\* appear after the last poll, and the deadline may fall in the loop iteration
\* that reaps the adapter.
GiveUp ==
    /\ pc \in {"waitServerReady", "spawnClient", "waitClientReady",
               "waitServerExit", "waitClientExit"}
    /\ pc' = "waitKilledServer"
    /\ KillSpawned
    /\ \/ pc = "spawnClient" /\ OpenLog("client")
       \/ pc # "spawnClient" /\ UNCHANGED log
    /\ UNCHANGED <<input, failing, judged, result, files, exit, seen>>

WaitKilledServer ==
    /\ pc = "waitKilledServer"
    /\ Reaped("server")
    /\ pc' = "waitKilledClient"
    /\ UNCHANGED <<input, failing, judged, log, result, files, os>>

\* _adapter_reported_failures of _written_summaries: an absent or truncated
\* summary is skipped.
Reporters == {r \in Roles : summary[r] = "error"}

\* Faulty variant: only the first report is kept.
IncompleteFirst(kind) ==
    Result("failed", kind, IF Reporters = {} THEN {} ELSE {ServerFirst(Reporters)})

\* _incomplete_case_reason: what an adapter reported leads.
Incomplete(kind) == Result("failed", kind, Reporters)

\* Faulty variant: the client is killed and not waited for.
KillAndForgetClient ==
    /\ pc = "waitKilledClient"
    /\ pc' = "done"
    /\ result' = Incomplete("timeout")
    /\ CloseLogs
    /\ UNCHANGED <<input, failing, judged, files, os>>

WaitKilledClient ==
    /\ pc = "waitKilledClient"
    /\ proc["client"] = "unborn" \/ Reaped("client")
    /\ pc' = "done"
    /\ result' = Incomplete("timeout")
    /\ CloseLogs
    /\ UNCHANGED <<input, failing, judged, files, os>>

\* Both adapters exited in time.  A summary that cannot be parsed raises out
\* of run_case: read_json stands before the try that guards the comparison.
\* What the comparison itself decides is left open.
Judge ==
    /\ pc = "judge"
    /\ \/ /\ \E r \in Roles : summary[r] = "absent"
          /\ pc' = "done"
          /\ result' = Incomplete("missing")
       \/ /\ \A r \in Roles : summary[r] # "absent"
          /\ \E r \in Roles : summary[r] = "partial"
          /\ pc' = "raised"
          /\ UNCHANGED result
       \/ /\ \A r \in Roles : summary[r] \in Contents
          /\ pc' = "done"
          /\ \/ Reporters # {} /\ result' = Result("failed", "reported", Reporters)
             \/ Reporters = {} /\ result' = Result("failed", "mismatch", {})
             \/ /\ \A r \in Roles : summary[r] = "ok"
                /\ \E r \in Roles : seen[r] # "zero"
                /\ result' = Result("failed", "nonzero", {})
             \/ /\ \A r \in Roles : summary[r] = "ok" /\ seen[r] = "zero"
                /\ result' = Result("passed", "matched", {})
    /\ UNCHANGED <<input, failing, judged, log, files, os>>

-----------------------------------------------------------------------------
(* _run_failfast_role: one adapter, whose only work is to report.          *)

FFSpawn ==
    /\ pc = "ffSpawn"
    /\ OpenLog(failing)
    /\ \/ pc' = "ffWaitReady" /\ Started(failing)
       \/ pc' = "raised" /\ UNCHANGED proc
    /\ UNCHANGED <<input, failing, judged, result, files, exit, seen>>

FFWaitReady ==
    /\ pc = "ffWaitReady"
    /\ ready[failing]
    /\ pc' = "ffWaitExit"
    /\ UNCHANGED <<input, failing, judged, log, result, files, os>>

FFWaitExit ==
    /\ pc = "ffWaitExit"
    /\ Reaped(failing)
    /\ pc' = "ffJudge"
    /\ CloseLogs
    /\ UNCHANGED <<input, failing, judged, result, files, os>>

FFGiveUp ==
    /\ pc \in {"ffWaitReady", "ffWaitExit"}
    /\ pc' = "ffWaitKilled"
    /\ KillSpawned
    /\ UNCHANGED <<input, failing, judged, log, result, files, exit, seen>>

\* Faulty variant: the adapter is killed and not waited for.
KillAndForgetFailFast ==
    /\ pc = "ffWaitKilled"
    /\ pc' = "done"
    /\ result' = Result("failed", "timeout", {})
    /\ CloseLogs
    /\ UNCHANGED <<input, failing, judged, files, os>>

\* The reason is the timeout's, whatever the adapter wrote.
FFWaitKilled ==
    /\ pc = "ffWaitKilled"
    /\ Reaped(failing)
    /\ pc' = "done"
    /\ result' = Result("failed", "timeout", {})
    /\ CloseLogs
    /\ UNCHANGED <<input, failing, judged, files, os>>

FFJudge ==
    /\ pc = "ffJudge"
    /\ \/ /\ summary[failing] = "partial"
          /\ pc' = "raised"
          /\ UNCHANGED result
       \/ /\ summary[failing] = "error"
          /\ pc' = "done"
          /\ result' = Result("failed", "reported", {failing})
       \/ /\ summary[failing] \in {"absent", "ok", "mute"}
          /\ pc' = "done"
          /\ result' = Result("failed", "silent", {})
    /\ UNCHANGED <<input, failing, judged, log, files, os>>

-----------------------------------------------------------------------------
(* The task is cancelled: asyncio.run does so to every case still running  *)
(* when another one raised.  CancelledError is no Exception, so only the   *)
(* finally clause runs: the logs are closed and nobody is killed.  A       *)
(* cancelled create_subprocess_exec has killed and reaped what it had      *)
(* started, which therefore counts as never launched; its log stays open.  *)
Cancel ==
    /\ pc \in Awaits \cup Launchings
    /\ pc' = "cancelled"
    /\ log' = [r \in Roles |-> IF Launches(r) THEN "open" ELSE Closed[r]]
    /\ UNCHANGED <<input, failing, judged, result, files, os>>

-----------------------------------------------------------------------------
(* The adapters, which may do anything a program can, and the operating    *)
(* system.                                                                 *)

WriteReady(r) ==
    /\ proc[r] = "running"
    /\ ready' = [ready EXCEPT ![r] = TRUE]
    /\ UNCHANGED <<runner, summary, fresh, os>>

BeginSummary(r) ==
    /\ proc[r] = "running"
    /\ summary' = [summary EXCEPT ![r] = "partial"]
    /\ fresh' = [fresh EXCEPT ![r] = TRUE]
    /\ UNCHANGED <<runner, ready, os>>

FinishSummary(r) ==
    /\ proc[r] = "running"
    /\ summary[r] = "partial"
    /\ \E c \in Contents : summary' = [summary EXCEPT ![r] = c]
    /\ UNCHANGED <<runner, ready, fresh, os>>

Exit(r) ==
    /\ proc[r] = "running"
    /\ proc' = [proc EXCEPT ![r] = "dead"]
    /\ \E c \in ExitCodes : exit' = [exit EXCEPT ![r] = c]
    /\ UNCHANGED <<runner, files, seen>>

\* SIGKILL takes effect.
Die(r) ==
    /\ proc[r] = "dying"
    /\ proc' = [proc EXCEPT ![r] = "dead"]
    /\ exit' = [exit EXCEPT ![r] = "killed"]
    /\ UNCHANGED <<runner, files, seen>>

\* The event loop's child watcher reaps the process.
Reap(r) ==
    /\ proc[r] = "dead"
    /\ ~Reaped(r)
    /\ seen' = [seen EXCEPT ![r] = exit[r]]
    /\ UNCHANGED <<runner, files, proc, exit>>

-----------------------------------------------------------------------------
Runner ==
    \/ Prepare
    \/ SpawnServer \/ WaitServerReady
    \/ SpawnClient \/ WaitClientReady
    \/ WaitServerExit \/ WaitClientExit
    \/ GiveUp \/ WaitKilledServer \/ WaitKilledClient
    \/ Judge
    \/ FFSpawn \/ FFWaitReady \/ FFWaitExit
    \/ FFGiveUp \/ FFWaitKilled \/ FFJudge

Adapter(r) == WriteReady(r) \/ BeginSummary(r) \/ FinishSummary(r) \/ Exit(r)

Next ==
    \/ Runner
    \/ Cancel
    \/ \E r \in Roles : Adapter(r) \/ Die(r) \/ Reap(r)

\* The coroutine is resumed whenever it can run (its timeouts fire), a
\* killed process dies and a dead one is reaped.  Adapters owe nothing.
Fairness ==
    /\ WF_vars(Runner)
    /\ \A r \in Roles : WF_vars(Die(r)) /\ WF_vars(Reap(r))

Spec == Init /\ [][Next]_vars
FairSpec == Spec /\ Fairness

-----------------------------------------------------------------------------
ResultRecords ==
    [status : {"passed", "failed"}, kind : Kinds, reporters : SUBSET Roles,
     unsupported : BOOLEAN, codes : [Roles -> ExitCodes \cup {"none"}]]

\* Every variable stays within the values the code gives it.
TypeOK ==
    /\ pc \in Awaits \cup Stretches \cup Ends
    /\ input \in Inputs
    /\ failing \in Roles \cup {"none"}
    /\ judged \in BOOLEAN
    /\ proc \in [Roles -> {"unborn", "running", "dying", "dead"}]
    /\ exit \in [Roles -> ExitCodes \cup {"none"}]
    /\ seen \in [Roles -> ExitCodes \cup {"none"}]
    /\ ready \in [Roles -> BOOLEAN]
    /\ summary \in [Roles -> Summaries]
    /\ fresh \in [Roles -> BOOLEAN]
    /\ log \in [Roles -> {"none", "open", "closed"}]
    /\ result \in ResultRecords \cup {NoResult}

Live(r) == proc[r] \in {"running", "dying"}

\* However a case ends short of cancellation (timeouts, a launch error of the
\* client, a summary that cannot be read), run_case has reaped every adapter
\* it launched: the next case of the slot's worker starts on free ports.
NoAdapterOutlivesCase ==
    pc \in {"done", "raised"} => \A r \in Roles : ~Live(r) /\ (proc[r] = "dead" => Reaped(r))

\* "passed" is earned by this run: both adapters were launched, exited 0 on
\* their own, and each left a complete "ok" summary that is not the one an
\* earlier run of the same case left in the directory (the rmtree).
PassIsEarned ==
    result.status = "passed" =>
        /\ failing = "none" /\ ~judged
        /\ \A r \in Roles : /\ proc[r] = "dead"
                            /\ exit[r] = "zero"
                            /\ summary[r] = "ok"
                            /\ fresh[r]

\* _incomplete_case_reason: "An adapter that already reported why it failed
\* leads".  On every path of a launched pair that ends in a result, the roles
\* named in the reason are exactly those whose summary on disk, once the case
\* is over, gives a reason: none written before the kill is overlooked, and
\* none is taken from an earlier run or from an adapter still writing.
ReportedReasonLeads ==
    pc = "done" /\ failing = "none" => result.reporters = Reporters

\* _run_unsupported_role: "The mark records the judgement made before launch,
\* so it stands however the fail-fast adapter then behaves."  A case one side
\* of which cannot be run fails, launches that side alone (the server's fault
\* before the client's), and carries the mark exactly when the harness judged
\* it unsupported rather than unbuilt.
FailFastDiscipline ==
    LET judgedUnable == Unsupported \cup {r \in Roles : ~input.capable[r]}
        unfit        == judgedUnable \cup Unbuilt
    IN  pc = "done" /\ unfit # {} =>
            /\ result.status = "failed"
            /\ result.unsupported <=> judgedUnable # {}
            /\ failing \in unfit
            /\ \A r \in Roles \ {failing} : proc[r] = "unborn"

\* The log of an adapter is still open as long as the adapter may write to it
\* (but for a cancelled case, which abandons its adapters), and once the case
\* is over the log of every adapter it launched is closed.  What a case leaves
\* open is the one log of a launch that failed or was cancelled: the case then
\* raised, was cancelled, or, the client's launch having failed, ended like a
\* timeout.
LogsFollowAdapters ==
    /\ \A r \in Roles : pc # "cancelled" /\ Live(r) => log[r] = "open"
    /\ pc \in Ends =>
         /\ \A r \in Roles :
              /\ proc[r] # "unborn" => log[r] = "closed"
              /\ log[r] = "open" => \/ pc \in {"raised", "cancelled"}
                                    \/ r = "client" /\ result.kind = "timeout"
         /\ \A r, q \in Roles : log[r] = "open" /\ log[q] = "open" => r = q

\* What a case launches, and what it leaves open: an adapter that can be run
\* beside one that cannot is not launched, a log outlives its adapter, and only
\* a launch that came to nothing leaves its log open.
LaunchDiscipline == FailFastDiscipline /\ LogsFollowAdapters

\* run_case, where it guards the comparison of the two summaries: "never let
\* one bad case crash the whole matrix run".  A case whose adapters ran, well
\* or badly, ends in a result and not in an exception.
RanCaseHasResult == pc = "raised" => \A r \in Roles : proc[r] = "unborn"

-----------------------------------------------------------------------------
Abstract == INSTANCE CaseSpec WITH
    Roles    <- Roles,
    phase    <- IF pc = "start" THEN "idle" ELSE IF pc \in Ends THEN "ended" ELSE "running",
    launched <- {r \in Roles : proc[r] # "unborn"},
    live     <- {r \in Roles : Live(r)},
    vouched  <- {r \in Roles : pc # "start" /\ summary[r] = "ok"},
    outcome  <- CASE pc = "done" -> result.status
                  [] pc \in {"raised", "cancelled"} -> pc
                  [] OTHER -> "none"

\* run_case keeps the promise of CaseSpec.
KeepsThePromise == Abstract!Spec
=============================================================================
