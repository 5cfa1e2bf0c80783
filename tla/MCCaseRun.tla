----------------------------- MODULE MCCaseRun -----------------------------
(***************************************************************************)
(* The cases TLC runs CaseRun on: the one that launches both adapters, and *)
(* every way a single decision, or two that compete, can stop it.          *)
(***************************************************************************)
EXTENDS CaseRun

Runnable == [supported |-> [r \in Roles |-> TRUE],
             capable   |-> [r \in Roles |-> TRUE],
             build     |-> [r \in Roles |-> "none"],
             command   |-> [r \in Roles |-> "ready"]]

Both(v) == [r \in Roles |-> v]
Only(r, v, w) == [q \in Roles |-> IF q = r THEN v ELSE w]

MCInputs ==
    {Runnable}
    \cup {[Runnable EXCEPT !.supported = f] : f \in [Roles -> BOOLEAN]}
    \cup {[Runnable EXCEPT !.capable = f] : f \in [Roles -> BOOLEAN]}
    \cup {[Runnable EXCEPT !.build = f] : f \in [Roles -> {"built", "failed"}]}
    \cup {[Runnable EXCEPT !.command = f] : f \in [Roles -> {"ready", "none", "error"}]}
    \cup {[Runnable EXCEPT !.supported = Only("client", FALSE, TRUE),
                           !.capable = Only("server", FALSE, TRUE),
                           !.command = f] : f \in [Roles -> {"ready", "none", "error"}]}
    \cup {[Runnable EXCEPT !.capable = Only("client", FALSE, TRUE),
                           !.build = Only("server", "failed", "built")]}

\* The single case in which both adapters are launched.
PairOnly == {Runnable}
=============================================================================
