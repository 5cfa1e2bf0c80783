-------------------------------- MODULE MCAdmission --------------------------------
(***************************************************************************)
(* The client's end: one connection that pairs, unpairs and is re-keyed, with *)
(* both its ends (PairSession), and which server's connection the client admits *)
(* and which records it keeps (Admission), checked up to renaming of connections. *)
(* They share nothing: `which' says which of them runs, and the other stays where *)
(* it began.                                                                 *)
(***************************************************************************)
EXTENDS PairSession, TLC

CONSTANTS Conns, None, Config, Servers, LastPlayed, Capacity, MaxNew, MaxMsgs

VARIABLES which,
    ad_conn, ad_adm, ad_open, ad_prov, ad_lock, ad_shut, ad_last, ad_unp, ad_recs, ad_sweeps, ad_made,
    ad_msgs, ad_gone, ad_failed, ad_cut

admission == <<ad_conn, ad_adm, ad_open, ad_prov, ad_lock, ad_shut, ad_last, ad_unp, ad_recs, ad_sweeps, ad_made,
    ad_msgs, ad_gone, ad_failed, ad_cut>>


StoredABC == <<"A", "B", "C">>

\* The markers are no connections. A store has room for 5 records at least (_MIN_RECORD_CAPACITY); the
\* proofs need room for the three that it starts with.
ASSUME AdmissionAssumption ==
    None \notin Conns /\ Config \notin Conns \cup {None} /\ Capacity \in Nat /\ Len(StoredABC) <= Capacity

MCModes == [srv \in Servers |-> IF srv = "A" THEN {"incoming"} ELSE {"dial"}]

A == INSTANCE Admission WITH
    conn <- ad_conn, adm <- ad_adm, open <- ad_open, prov <- ad_prov, lock <- ad_lock,
    shut <- ad_shut, last <- ad_last, unp <- ad_unp, recs <- ad_recs, sweeps <- ad_sweeps,
    made <- ad_made, msgs <- ad_msgs, gone <- ad_gone, failed <- ad_failed, cut <- ad_cut,
    Modes <- MCModes, InStore <- StoredABC

Symmetry == Permutations(Conns)

MCInit ==
    \/ which = "admission" /\ Init /\ A!Init
    \/ which = "session" /\ Init /\ A!Init /\ ad_unp

MCNext ==
    \/ which = "admission" /\ A!Next /\ UNCHANGED <<which, vars>>
    \/ which = "session" /\ Next /\ UNCHANGED <<which, admission>>

MCSpec == MCInit /\ [][MCNext]_<<which, vars, admission>>

-----------------------------------------------------------------------------

\* No server is served that was not admitted, none that is unpaired while unpaired access is off, and a
\* server that pairs is not displaced.
AdmissionSound == which = "admission" => A!TypeOK /\ A!ServedIsAdmitted /\ A!UnpairedRefused /\ A!PairingNotDisplaced

\* The store keeps the records of the servers it serves or still expects, sweeps those that were superseded,
\* and stays within its capacity, unless every record it could have removed was protected (client.py:931-942).
StoreSound == which = "admission" => A!RecordsDistinct /\ A!RecordKept /\ A!CapacityKept /\ A!NoLeftover

\* Both ends read every frame under the key it was written with, and neither ends the connection on a
\* message of the other, however pairing, unpairing and activations cross.
SessionReads == which = "session" => TypeOK /\ ReadUnderKey /\ NoFault

\* Once the frames are read the two ends agree: on the activities and roles, on the attempt, on the record
\* the session is keyed with; and the server never holds less of a pairing than the client.
BothEndsAgree == which = "session" => EndsAgree /\ BackOnRecord /\ InStep /\ ServerStoresFirst
=============================================================================
