------------------------------ MODULE CaseSpec ------------------------------
(***************************************************************************)
(* What one conformance case promises, whatever the runner does to keep    *)
(* it: a case launches at most one adapter per role, ends once, and ends   *)
(* with every adapter it launched gone, unless its task was cancelled.  A  *)
(* case passes only on the word of both adapters: each was launched by     *)
(* this run and left a summary whose status is "ok".                       *)
(*                                                                         *)
(* src/conformance/runner.py (run_case) keeps this promise; CaseRun models *)
(* how, and is checked to implement this module.                           *)
(***************************************************************************)
CONSTANT Roles       \* the two sides of a case, "server" and "client"

VARIABLES
    phase,           \* "idle", "running" or "ended"
    launched,        \* roles whose adapter this run has started
    live,            \* roles whose adapter process still exists
    vouched,         \* roles whose summary on disk says "ok"
    outcome          \* "none" until the case ends

vars == <<phase, launched, live, vouched, outcome>>

Outcomes == {"passed", "failed", "raised", "cancelled"}

Init ==
    /\ phase = "idle"
    /\ launched = {}
    /\ live = {}
    /\ vouched = {}
    /\ outcome = "none"

\* The case is taken up.  It may be settled without launching anything (no
\* toolchain) or die of a launch error, and in both cases nothing is running.
Start ==
    /\ phase = "idle"
    /\ \/ phase' = "running" /\ outcome' = "none"
       \/ phase' = "ended" /\ outcome' \in {"failed", "raised"}
    /\ UNCHANGED <<launched, live, vouched>>

Launch(r) ==
    /\ phase = "running"
    /\ r \notin launched
    /\ launched' = launched \cup {r}
    /\ live' = live \cup {r}
    /\ UNCHANGED <<phase, vouched, outcome>>

\* An adapter writes its summary, or writes another one over it.
Vouch(r) ==
    /\ r \in live
    /\ \/ vouched' = vouched \cup {r}
       \/ vouched' = vouched \ {r}
    /\ UNCHANGED <<phase, launched, live, outcome>>

\* An adapter's process ends, by itself or killed.  A cancelled case can
\* leave adapters that end after it.
Retire(r) ==
    /\ r \in live
    /\ live' = live \ {r}
    /\ UNCHANGED <<phase, launched, vouched, outcome>>

End(o) ==
    /\ phase = "running"
    /\ o = "passed" => launched = Roles /\ vouched = Roles
    /\ o # "cancelled" => live = {}
    /\ phase' = "ended"
    /\ outcome' = o
    /\ UNCHANGED <<launched, live, vouched>>

Next ==
    \/ Start
    \/ \E r \in Roles : Launch(r) \/ Vouch(r) \/ Retire(r)
    \/ \E o \in Outcomes : End(o)

Spec == Init /\ [][Next]_vars
=============================================================================
