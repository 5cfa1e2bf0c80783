--------------------------- MODULE MCTimeExchange ---------------------------
(***************************************************************************)
(* The time exchange for TLC: of any server (TimeExchange) and of the SDK  *)
(* (TimeExchangeSdk), as `which' says.  Senders and values are             *)
(* interchangeable.                                                        *)
(***************************************************************************)
EXTENDS TimeExchangeSdk

VARIABLE which

Symmetry == Permutations(Senders) \cup Permutations(Values)

MCInit == which \in {"any", "sdk"} /\ SdkInit

MCNext ==
    \/ which = "any" /\ TimeNext /\ UNCHANGED <<which, sdkown>>
    \/ which = "sdk" /\ SdkNext /\ UNCHANGED which

MCSpec == MCInit /\ [][MCNext]_<<which, sdkvars>>

-----------------------------------------------------------------------------

\* The SDK is blamed only for a reply that a message queued before it held up and
\* that the end of the connection then kept from being written; and the list of
\* any server is in order.
BlamedOnlyAtTheCut == TimeTypeOK /\ (which = "sdk" => SdkIsBlamedAtTheCut)

=============================================================================
