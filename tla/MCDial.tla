---------------------------------- MODULE MCDial ----------------------------------
(***************************************************************************)
(* The server's clients: the tables of the addresses it dials (Dial), checked up *)
(* to renaming of URLs and of devices, and the groups the clients are in     *)
(* (Groups), with a client that plays and controls, one that plays and one that *)
(* controls. They share nothing: `which' says which of them runs, and the other *)
(* stays where it began.                                                     *)
(***************************************************************************)
EXTENDS Dial, TLC

CONSTANTS full, plays, controls, Ids, Volumes, Names, GroupSteps, Resting

VARIABLES which,
    gr_w, gr_steps

groups == <<gr_w, gr_steps>>

Hellos == (full :> {"player", "controller"}) @@ (plays :> {"player"}) @@ (controls :> {"controller"})

G == INSTANCE Groups WITH
    w <- gr_w, steps <- gr_steps, Clients <- {full, plays, controls}, Lists <- Hellos, MaxSteps <- GroupSteps

Symmetry == Permutations(Urls) \cup Permutations(Clients)

MCInit ==
    \/ which = "dial" /\ Init /\ gr_w = Resting /\ gr_steps = 0
    \/ which = "groups" /\ Init /\ G!Init

MCNext ==
    \/ which = "dial" /\ Next /\ UNCHANGED <<which, groups>>
    \/ which = "groups" /\ G!Next /\ UNCHANGED <<which, vars>>

MCSpec == MCInit /\ [][MCNext]_<<which, vars, groups>>

-----------------------------------------------------------------------------

\* Every client is in one group, was last told that group's state and name, and as a controller its volume,
\* commands and repeat mode.
MembersToldTruth == which = "groups" => G!TypeOK /\ G!Partition /\ G!ToldTruth /\ G!ControllerTruth

\* Who comes and goes does not decide what the others hear: a shared group that keeps a player plays on
\* whatever one of its members does, and one that loses its last player stops.
PlaybackFollowsPlayers == [][which = "groups" => G!PlaybackStep]_groups
=============================================================================
