--------------------------- MODULE AdmissionProofs ---------------------------
(***************************************************************************)
(* Proofs about the client's admission (Admission) and one connection that   *)
(* pairs (PairSession), as MCAdmission composes them.                        *)
(*                                                                           *)
(* Admission: for any number of connections and servers, and any store with  *)
(* room for what it starts with, who is served was admitted, whoever relies  *)
(* on unpaired access is gone once it is withdrawn, and a pairing is         *)
(* displaced only by a connection that was chosen before it began. What the  *)
(* store holds does not matter for that (AdmInv).                            *)
(*                                                                           *)
(* The store: it names no record twice, keeps those its sessions run on, is  *)
(* over its capacity by no more than its removals account for, and every     *)
(* superseded record has a removal to come (StoreInv, on top of AdmInv). The *)
(* operators that pick records by position are treated first.                *)
(*                                                                           *)
(* The session: for any methods, limits and numbers of calls, handshakes and *)
(* credentials, and queues of any length, both ends read each frame under    *)
(* the key it was written with, neither ends the connection on a message of  *)
(* the other, and they agree once the frames are read. The invariant is      *)
(* about the queues as they stand: what the client will be when it has read  *)
(* what is on the way (Idle, Announcing), and, in an attempt, which message   *)
(* either waits for and has been sent (Talk).                                 *)
(***************************************************************************)
EXTENDS MCAdmission, FiniteSetTheorems, FunctionTheorems, TLAPS

\* The instance counts as this module does.
LEMMA CardinalityIs == \A S : A!Cardinality(S) = Cardinality(S)
BY DEF A!Cardinality, Cardinality

-----------------------------------------------------------------------------
(* The inductive invariant.                                                  *)

\* Inside admission, the lock held.
Held == {"save", "drop", "oust", "wait", "start"}

Pcs == {"free", "hs", "up", "queue", "run", "end"} \cup Held

\* A connection's state, whatever its server and its records are.
IsConn(x) ==
    x \in [pc : Pcs, mode : {x.mode}, srv : {x.srv}, live : BOOLEAN, closing : BOOLEAN,
           psk : {x.psk}, res : {x.res}, act : {x.act}, attempt : {x.attempt}, prot : {x.prot},
           note : {x.note}, prev : Conns \cup {None}, late : {x.late}, young : BOOLEAN]

ConnsOK == DOMAIN ad_conn = Conns /\ ad_conn = [k \in Conns |-> ad_conn[k]] /\ \A k \in Conns : IsConn(ad_conn[k])

\* Fewer connections than the store has room for hold a slot.
SlotsOK == ad_open \subseteq Conns /\ ad_prov \subseteq Conns /\ IsFiniteSet(ad_open) /\ Cardinality(ad_open) < Capacity

\* Whoever holds the lock is inside admission.
LockOK ==
    /\ ad_lock \in Conns \cup {None, Config}
    /\ \A k \in Conns : ad_lock = k <=> ad_conn[k].pc \in Held

\* Who is admitted is on the way to be served, or is, until it has closed.
AdmittedOK ==
    /\ ad_adm \in Conns \cup {None}
    /\ ad_adm # None => ad_conn[ad_adm].pc \in {"oust", "wait", "start", "run"} /\ (ad_conn[ad_adm].live \/ ad_conn[ad_adm].closing)
    /\ \A k \in Conns : ad_conn[k].pc \in {"oust", "wait", "start"} /\ (ad_conn[k].live \/ ad_conn[k].closing) => ad_adm = k
    /\ \A k \in Conns : ad_conn[k].pc \in {"oust", "wait"} => ad_conn[k].prev \in Conns \ {k}
    /\ \A k \in Conns : ad_conn[k].closing => ~ad_conn[k].live
    /\ \A k \in Conns : ad_conn[k].pc = "hs" => ~ad_conn[k].live /\ ~ad_conn[k].closing

\* While unpaired access is withdrawn the one that relied on it is closed.
ShutOK ==
    /\ ad_shut \in Conns \cup {None}
    /\ ad_shut # None => ad_lock = Config /\ (ad_adm = None \/ (ad_adm = ad_shut /\ ~ad_conn[ad_shut].live))

\* Who was chosen before its playback was written down may still be served.
ChosenOK ==
    /\ \A k \in Conns : ad_conn[k].pc = "save" => ~A!Refused(k)
    /\ \A k \in Conns : ad_conn[k].attempt \in {"on", "save"} => ad_conn[k].live /\ ad_conn[k].pc = "run"
    /\ \A k \in Conns : ad_conn[k].pc = "save" /\ ad_conn[k].mode = "incoming" /\ ad_conn[k].act # "none" /\ ad_adm # None =>
          (ad_conn[ad_adm].attempt \in {"on", "save"} => ad_conn[ad_adm].young)

AdmInv == /\ ConnsOK /\ SlotsOK /\ LockOK /\ AdmittedOK /\ ShutOK /\ ChosenOK
          /\ A!ServedIsAdmitted /\ A!UnpairedRefused /\ A!PairingNotDisplaced

-----------------------------------------------------------------------------
(* Connections.                                                              *)

LEMMA NoConnIs ==
    /\ IsConn(A!NoConn) /\ A!NoConn.pc = "free" /\ A!NoConn.attempt = "no" /\ A!NoConn.closing = FALSE
    /\ A!NoConn.live = FALSE
BY DEF IsConn, A!NoConn, Pcs

LEMMA ClosingIs ==
    ASSUME NEW x, IsConn(x)
    PROVE  /\ IsConn(A!Closing(x)) /\ A!Closing(x).live = FALSE /\ A!Closing(x).closing = TRUE
           /\ A!Closing(x).attempt = "no" /\ A!Closing(x).pc = x.pc /\ A!Closing(x).mode = x.mode
           /\ A!Closing(x).prev = x.prev /\ A!Closing(x).psk = x.psk /\ A!Closing(x).act = x.act
BY DEF IsConn, A!Closing

\* One connection changes.
LEMMA OneChanges ==
    ASSUME ConnsOK, NEW k \in Conns, NEW x, IsConn(x), ad_conn' = [ad_conn EXCEPT ![k] = x]
    PROVE  ConnsOK' /\ \A j \in Conns : ad_conn'[j] = IF j = k THEN x ELSE ad_conn[j]
BY DEF ConnsOK, IsConn

\* A step of a connection's handler, or of the one that closes it.
Inside(j) ==
    LET was == ad_conn[j]
        now == ad_conn'[j]
    IN  /\ now.pc = was.pc /\ now.mode = was.mode /\ now.prev = was.prev
        /\ \/ now.live = was.live /\ now.closing = was.closing
           \/ was.live = TRUE /\ now.live = FALSE /\ now.closing = TRUE
        /\ \/ now.psk = was.psk /\ now.act = was.act
           \/ was.pc = "run" /\ now.live = FALSE
           \/ was.pc = "run" /\ (now.psk = 0 /\ now.act = "playback" => ad_unp)
        /\ now.attempt \in {"on", "save"} =>
              /\ now.live = TRUE /\ now.pc = "run"
              /\ \/ was.attempt \in {"on", "save"} /\ now.young = was.young
                 \/ ad_lock \notin {None, Config} => now.young = TRUE

\* A step of one that is not, or no longer, in admission.
Outside(j) ==
    /\ ad_conn[j].pc \notin Held \cup {"run"} /\ ad_conn'[j].pc \notin Held \cup {"run"}
    /\ ad_conn'[j].attempt \notin {"on", "save"}
    /\ ad_conn'[j].closing = TRUE => ad_conn'[j].live = FALSE
    /\ ad_conn'[j].pc = "hs" => ad_conn'[j].live = FALSE /\ ad_conn'[j].closing = FALSE

LEMMA MovesKeep ==
    ASSUME AdmInv, ConnsOK', SlotsOK', \A j \in Conns : Inside(j) \/ Outside(j),
           ad_adm' = ad_adm, ad_lock' = ad_lock, ad_unp' = ad_unp,
           \/ ad_shut' = ad_shut
           \/ ad_shut' = ad_adm /\ ad_adm # None /\ ad_lock = Config /\ ad_conn'[ad_adm].live = FALSE
    PROVE  AdmInv'
<1>1. /\ ConnsOK /\ SlotsOK /\ LockOK /\ AdmittedOK /\ ShutOK /\ ChosenOK
      /\ A!ServedIsAdmitted /\ A!UnpairedRefused /\ A!PairingNotDisplaced
  BY DEF AdmInv
<1>2. \A j \in Conns : /\ ad_conn[j].live \in BOOLEAN /\ ad_conn[j].closing \in BOOLEAN /\ ad_conn[j].young \in BOOLEAN
                       /\ ad_conn'[j].live \in BOOLEAN /\ ad_conn'[j].closing \in BOOLEAN /\ ad_conn'[j].young \in BOOLEAN
                       /\ ad_conn'[j].prev \in Conns \cup {None}
  BY <1>1 DEF ConnsOK, IsConn
<1>3. ad_adm # None => ad_adm \in Conns /\ Inside(ad_adm)
  BY <1>1 DEF AdmittedOK, Outside, Held
<1>4. \A j \in Conns : ad_conn[j].pc \in Held => Inside(j)
  BY DEF Outside
<1>5. \A j \in Conns : ad_conn'[j].pc \in Held \cup {"run"} => ad_conn'[j].pc = ad_conn[j].pc /\ Inside(j)
  BY DEF Outside, Inside
<1>6. LockOK'
  BY <1>1, <1>4, <1>5 DEF LockOK, Inside
<1>7. AdmittedOK'
  <2>1. ad_adm # None => ad_conn'[ad_adm].pc \in {"oust", "wait", "start", "run"} /\ (ad_conn'[ad_adm].live \/ ad_conn'[ad_adm].closing)
    BY <1>1, <1>2, <1>3 DEF AdmittedOK, Inside
  <2>2. ASSUME NEW k \in Conns, ad_conn'[k].pc \in {"oust", "wait", "start"}, ad_conn'[k].live \/ ad_conn'[k].closing
        PROVE  ad_adm = k
    BY <1>1, <1>2, <1>5, <2>2 DEF AdmittedOK, Inside, Held
  <2>3. ASSUME NEW k \in Conns, ad_conn'[k].pc \in {"oust", "wait"}
        PROVE  ad_conn'[k].prev \in Conns \ {k}
    BY <1>1, <1>5, <2>3 DEF AdmittedOK, Inside, Held
  <2>4. ASSUME NEW k \in Conns, ad_conn'[k].closing
        PROVE  ~ad_conn'[k].live
    BY <1>1, <1>2, <2>4 DEF AdmittedOK, Inside, Outside
  <2>5. ASSUME NEW k \in Conns, ad_conn'[k].pc = "hs"
        PROVE  ~ad_conn'[k].live /\ ~ad_conn'[k].closing
    BY <1>1, <1>2, <2>5 DEF AdmittedOK, Inside, Outside
  <2> QED
    BY <1>1, <2>1, <2>2, <2>3, <2>4, <2>5 DEF AdmittedOK
<1>8. ShutOK'
  BY <1>1, <1>2, <1>3 DEF ShutOK, Inside, AdmittedOK
<1>9. ChosenOK'
  <2>1. ASSUME NEW k \in Conns, ad_conn'[k].pc = "save"
        PROVE  ~(ad_conn'[k].psk = 0 /\ ad_conn'[k].act = "playback" /\ ~ad_unp)
    <3>1. ad_conn[k].pc = "save" /\ Inside(k)
      BY <1>5, <2>1 DEF Held
    <3>2. ad_conn'[k].psk = ad_conn[k].psk /\ ad_conn'[k].act = ad_conn[k].act
      BY <3>1 DEF Inside
    <3>3. ~(ad_conn[k].psk = 0 /\ ad_conn[k].act = "playback" /\ ~ad_unp)
      BY <1>1, <3>1 DEF ChosenOK, A!Refused, A!Relies
    <3> QED
      BY <3>2, <3>3
  <2>2. ASSUME NEW k \in Conns, ad_conn'[k].attempt \in {"on", "save"}
        PROVE  ad_conn'[k].live /\ ad_conn'[k].pc = "run"
    BY <2>2 DEF Inside, Outside
  <2>3. ASSUME NEW k \in Conns, ad_conn'[k].pc = "save", ad_conn'[k].mode = "incoming", ad_conn'[k].act # "none",
               ad_adm # None, ad_conn'[ad_adm].attempt \in {"on", "save"}
        PROVE  ad_conn'[ad_adm].young
    <3>1. ad_conn[k].pc = "save" /\ Inside(k)
      BY <1>5, <2>3 DEF Held
    <3>2. ad_conn[k].mode = "incoming" /\ ad_conn[k].act # "none"
      BY <2>3, <3>1 DEF Inside
    <3>3. ad_lock = k /\ ad_lock \notin {None, Config}
      BY <1>1, <3>1, AdmissionAssumption DEF LockOK, Held
    <3>4. \/ ad_conn[ad_adm].attempt \in {"on", "save"} /\ ad_conn'[ad_adm].young = ad_conn[ad_adm].young
          \/ ad_conn'[ad_adm].young = TRUE
      BY <1>3, <2>3, <3>3 DEF Inside
    <3> QED
      BY <1>1, <2>3, <3>1, <3>2, <3>4 DEF ChosenOK
  <2> QED
    BY <2>1, <2>2, <2>3 DEF ChosenOK, A!Refused, A!Relies
<1>10. A!ServedIsAdmitted'
  <2> SUFFICES ASSUME NEW k \in Conns, ad_conn'[k].pc = "run", ad_conn'[k].live
        PROVE  ad_adm = k \/ \E j \in Conns : ad_conn'[j].pc = "oust" /\ ad_conn'[j].prev = k
    BY DEF A!ServedIsAdmitted
  <2>1. ad_conn[k].pc = "run" /\ ad_conn[k].live
    BY <1>2, <1>5 DEF Inside
  <2>2. CASE ad_adm = k
    BY <2>2
  <2>3. ASSUME NEW j \in Conns, ad_conn[j].pc = "oust", ad_conn[j].prev = k
        PROVE  ad_conn'[j].pc = "oust" /\ ad_conn'[j].prev = k
    BY <1>4, <2>3 DEF Inside, Held
  <2> QED
    BY <1>1, <2>1, <2>2, <2>3 DEF A!ServedIsAdmitted
<1>11. A!UnpairedRefused'
  <2> SUFFICES ASSUME ad_lock # Config, ad_adm # None, ad_conn'[ad_adm].live, ad_conn'[ad_adm].psk = 0, ad_conn'[ad_adm].act = "playback"
        PROVE  ad_unp
    BY DEF A!UnpairedRefused, A!Relies
  <2>1. ad_conn[ad_adm].live
    BY <1>2, <1>3 DEF Inside
  <2>2. ad_unp \/ (ad_conn[ad_adm].psk = 0 /\ ad_conn[ad_adm].act = "playback")
    BY <1>2, <1>3 DEF Inside
  <2> QED
    BY <1>1, <2>1, <2>2 DEF A!UnpairedRefused, A!Relies
<1>12. A!PairingNotDisplaced'
  <2> SUFFICES ASSUME NEW k \in Conns, ad_conn'[k].pc = "oust", ad_conn'[k].mode = "incoming", ad_conn'[k].act # "none",
                      ad_conn'[ad_conn'[k].prev].attempt \in {"on", "save"}
        PROVE  ad_conn'[ad_conn'[k].prev].young
    BY DEF A!PairingNotDisplaced
  <2>1. ad_conn[k].pc = "oust" /\ Inside(k)
    BY <1>5 DEF Held
  <2>2. ad_conn[k].mode = "incoming" /\ ad_conn[k].act # "none" /\ ad_conn'[k].prev = ad_conn[k].prev
    BY <2>1 DEF Inside
  <2>3. ad_lock = k /\ ad_lock \notin {None, Config}
    BY <1>1, <2>1, AdmissionAssumption DEF LockOK, Held
  <2> DEFINE p == ad_conn[k].prev
  <2>4. p \in Conns /\ (ad_conn[p].attempt \in {"on", "save"} => ad_conn[p].young)
    BY <1>1, <2>1, <2>2 DEF AdmittedOK, A!PairingNotDisplaced
  <2>5. ad_conn'[p].attempt \in {"on", "save"}
    BY <2>2
  <2> HIDE DEF p
  <2>6. Inside(p)
    BY <2>4, <2>5 DEF Outside
  <2>7. \/ ad_conn[p].attempt \in {"on", "save"} /\ ad_conn'[p].young = ad_conn[p].young
        \/ ad_conn'[p].young = TRUE
    BY <2>3, <2>5, <2>6 DEF Inside
  <2>8. ad_conn'[p].young
    BY <2>4, <2>7
  <2> QED
    BY <2>2, <2>8 DEF p
<1> QED
  BY <1>6, <1>7, <1>8, <1>9, <1>10, <1>11, <1>12 DEF AdmInv

-----------------------------------------------------------------------------
(* Bring-up, and the end of a connection.                                    *)

LEMMA SlotsShrink ==
    ASSUME SlotsOK, ad_open' \subseteq ad_open, ad_prov' \subseteq ad_prov
    PROVE  SlotsOK'
<1>1. IsFiniteSet(ad_open') /\ Cardinality(ad_open') <= Cardinality(ad_open)
  BY FS_Subset DEF SlotsOK
<1>2. Cardinality(ad_open) \in Nat /\ Cardinality(ad_open') \in Nat /\ Capacity \in Nat
  BY <1>1, FS_CardinalityType, AdmissionAssumption DEF SlotsOK
<1> QED
  BY <1>1, <1>2 DEF SlotsOK

LEMMA SlotsGrow ==
    ASSUME SlotsOK, NEW k \in Conns, ad_prov' = ad_prov \cup {k},
           ad_open' = IF A!HasSlot THEN ad_open \cup {k} ELSE ad_open
    PROVE  SlotsOK'
<1>1. CASE ~A!HasSlot
  BY <1>1 DEF SlotsOK
<1>2. CASE A!HasSlot
  <2>1. IsFiniteSet(ad_open') /\ Cardinality(ad_open') \in {Cardinality(ad_open), Cardinality(ad_open) + 1}
    BY <1>2, FS_AddElement DEF SlotsOK
  <2>2. Cardinality(ad_open) \in Nat /\ Capacity \in Nat
    BY FS_CardinalityType, AdmissionAssumption DEF SlotsOK
  <2>3. Cardinality(ad_open') < Capacity
    BY <1>2, <2>1, <2>2, CardinalityIs DEF A!HasSlot
  <2> QED
    BY <1>2, <2>1, <2>3 DEF SlotsOK
<1> QED
  BY <1>1, <1>2

LEMMA StandsStill ==
    ASSUME AdmInv, NEW j \in Conns, ad_conn'[j] = ad_conn[j]
    PROVE  Inside(j)
<1>1. ad_conn[j].attempt \in {"on", "save"} => ad_conn[j].live = TRUE /\ ad_conn[j].pc = "run"
  BY DEF AdmInv, ChosenOK, ConnsOK, IsConn
<1> QED
  BY <1>1 DEF Inside

\* One connection changes, outside admission.
LEMMA OutsideKeeps ==
    ASSUME AdmInv, NEW k \in Conns, NEW x, IsConn(x), ad_conn' = [ad_conn EXCEPT ![k] = x], SlotsOK',
           ad_adm' = ad_adm, ad_lock' = ad_lock, ad_unp' = ad_unp, ad_shut' = ad_shut,
           ad_conn[k].pc \notin Held \cup {"run"}, x.pc \notin Held \cup {"run"},
           x.attempt \notin {"on", "save"}, x.closing = TRUE => x.live = FALSE,
           x.pc = "hs" => x.live = FALSE /\ x.closing = FALSE
    PROVE  AdmInv'
<1>1. ConnsOK
  BY DEF AdmInv
<1>2. ConnsOK' /\ \A j \in Conns : ad_conn'[j] = IF j = k THEN x ELSE ad_conn[j]
  BY <1>1, OneChanges
<1>3. \A j \in Conns : Inside(j) \/ Outside(j)
  <2> SUFFICES ASSUME NEW j \in Conns PROVE Inside(j) \/ Outside(j)
    OBVIOUS
  <2>1. CASE j = k
    BY <1>2, <2>1 DEF Outside
  <2>2. CASE j # k
    BY <1>2, <2>2, StandsStill
  <2> QED
    BY <2>1, <2>2
<1> QED
  BY <1>2, <1>3, MovesKeep

\* One connection takes a step of its own, its place in admission kept.
StepsTo(k, x) ==
    /\ x.pc = ad_conn[k].pc /\ x.mode = ad_conn[k].mode /\ x.prev = ad_conn[k].prev
    /\ \/ x.live = ad_conn[k].live /\ x.closing = ad_conn[k].closing
       \/ ad_conn[k].live = TRUE /\ x.live = FALSE /\ x.closing = TRUE
    /\ \/ x.psk = ad_conn[k].psk /\ x.act = ad_conn[k].act
       \/ ad_conn[k].pc = "run" /\ x.live = FALSE
       \/ ad_conn[k].pc = "run" /\ (x.psk = 0 /\ x.act = "playback" => ad_unp)
    /\ x.attempt \in {"on", "save"} =>
          /\ x.live = TRUE /\ x.pc = "run"
          /\ \/ ad_conn[k].attempt \in {"on", "save"} /\ x.young = ad_conn[k].young
             \/ ad_lock \notin {None, Config} => x.young = TRUE

LEMMA InsideKeeps ==
    ASSUME AdmInv, NEW k \in Conns, NEW x, IsConn(x), ad_conn' = [ad_conn EXCEPT ![k] = x],
           ad_adm' = ad_adm, ad_lock' = ad_lock, ad_unp' = ad_unp, ad_open' = ad_open, ad_prov' = ad_prov,
           StepsTo(k, x), ad_shut' = ad_shut \/ (ad_shut' = ad_adm /\ ad_lock = Config /\ ad_adm = k /\ x.live = FALSE)
    PROVE  AdmInv'
<1>1. ConnsOK /\ SlotsOK
  BY DEF AdmInv
<1>2. ConnsOK' /\ \A j \in Conns : ad_conn'[j] = IF j = k THEN x ELSE ad_conn[j]
  BY <1>1, OneChanges
<1>3. \A j \in Conns : Inside(j)
  <2> SUFFICES ASSUME NEW j \in Conns PROVE Inside(j)
    OBVIOUS
  <2>1. CASE j = k
    BY <1>2, <2>1 DEF Inside, StepsTo
  <2>2. CASE j # k
    BY <1>2, <2>2, StandsStill
  <2> QED
    BY <2>1, <2>2
<1>4. SlotsOK'
  BY <1>1, SlotsShrink
<1>5. ad_shut' = ad_shut \/ (ad_shut' = ad_adm /\ ad_adm # None /\ ad_lock = Config /\ ad_conn'[ad_adm].live = FALSE)
  BY <1>2, AdmissionAssumption
<1> QED
  BY <1>2, <1>3, <1>4, <1>5, MovesKeep

LEMMA ArriveKeeps ==
    ASSUME AdmInv, NEW k \in Conns, NEW sv, NEW mode, A!Arrive(k, sv, mode)
    PROVE  AdmInv'
<1> DEFINE x == [A!NoConn EXCEPT !.pc = "hs", !.mode = mode, !.srv = sv]
<1>1. IsConn(x) /\ x.pc = "hs" /\ x.attempt = "no" /\ x.closing = FALSE /\ x.live = FALSE
  BY DEF IsConn, A!NoConn, Pcs
<1>2. ad_conn[k].pc = "free"
  BY NoConnIs DEF A!Arrive
<1>3. ad_conn' = [ad_conn EXCEPT ![k] = x] /\ UNCHANGED <<ad_adm, ad_lock, ad_shut, ad_unp>>
  BY DEF A!Arrive
<1>4. SlotsOK'
  BY SlotsGrow DEF A!Arrive, AdmInv
<1> HIDE DEF x
<1> QED
  BY <1>1, <1>2, <1>3, <1>4, OutsideKeeps DEF Held

LEMMA ResolveKeeps ==
    ASSUME AdmInv, NEW k \in Conns, A!Resolve(k)
    PROVE  AdmInv'
<1>1. IsConn(ad_conn[k]) /\ SlotsOK /\ ChosenOK /\ AdmittedOK
  BY DEF AdmInv, ConnsOK
<1>2. PICK r : ad_conn' = [ad_conn EXCEPT ![k] = [ad_conn[k] EXCEPT !.res = r, !.late = A!Late]]
  BY <1>1 DEF A!Resolve, AdmInv, ConnsOK
<1> DEFINE x == [ad_conn[k] EXCEPT !.res = r, !.late = A!Late]
<1>3. /\ IsConn(x) /\ x.pc = ad_conn[k].pc /\ x.mode = ad_conn[k].mode /\ x.prev = ad_conn[k].prev
      /\ x.live = ad_conn[k].live /\ x.closing = ad_conn[k].closing /\ x.psk = ad_conn[k].psk
      /\ x.act = ad_conn[k].act /\ x.attempt = ad_conn[k].attempt /\ x.young = ad_conn[k].young
  BY <1>1 DEF IsConn
<1>4. ad_conn[k].attempt \notin {"on", "save"}
  BY <1>1 DEF ChosenOK, A!Resolve
<1>5. ad_conn' = [ad_conn EXCEPT ![k] = x] /\ UNCHANGED <<ad_adm, ad_lock, ad_shut, ad_unp, ad_open, ad_prov>>
  BY <1>2 DEF A!Resolve
<1> HIDE DEF x
<1> QED
  BY <1>3, <1>4, <1>5, InsideKeeps DEF StepsTo


LEMMA HandshakeDoneKeeps ==
    ASSUME AdmInv, NEW k \in Conns, A!HandshakeDone(k)
    PROVE  AdmInv'
<1>1. IsConn(ad_conn[k]) /\ SlotsOK /\ ChosenOK /\ AdmittedOK
  BY DEF AdmInv, ConnsOK
<1>2. ad_conn[k].pc = "hs" /\ UNCHANGED <<ad_adm, ad_lock, ad_shut, ad_unp, ad_open, ad_prov>>
  BY DEF A!HandshakeDone
<1>3. ad_conn[k].closing = FALSE /\ ad_conn[k].attempt \notin {"on", "save"}
  BY <1>1, <1>2 DEF AdmittedOK, ChosenOK, IsConn
<1> DEFINE x == [ad_conn[k] EXCEPT !.pc = "up", !.live = TRUE, !.psk = ad_conn[k].res, !.res = 0]
           y == [x EXCEPT !.pc = "end"]
           z == IF k \in ad_open THEN x ELSE A!Closing(y)
<1>4. ad_conn' = [ad_conn EXCEPT ![k] = z]
  BY DEF A!HandshakeDone
<1>5. IsConn(x) /\ x.pc = "up" /\ x.closing = FALSE /\ x.attempt = ad_conn[k].attempt
  BY <1>1, <1>3 DEF IsConn, Pcs
<1>6. IsConn(y) /\ y.pc = "end"
  <2> HIDE DEF x
  <2> QED
    BY <1>5 DEF IsConn, Pcs
<1> HIDE DEF x, y
<1>7. IsConn(A!Closing(y)) /\ A!Closing(y).pc = "end" /\ A!Closing(y).attempt = "no" /\ A!Closing(y).live = FALSE
  BY <1>6, ClosingIs
<1>8. /\ IsConn(z) /\ z.pc \in {"up", "end"} /\ z.attempt \notin {"on", "save"}
      /\ z.closing = TRUE => z.live = FALSE
  BY <1>3, <1>5, <1>7
<1>9. SlotsOK'
  BY <1>1, <1>2, SlotsShrink
<1> HIDE DEF z
<1> QED
  BY <1>2, <1>4, <1>8, <1>9, OutsideKeeps DEF Held

LEMMA HandshakeFailsKeeps ==
    ASSUME AdmInv, NEW k \in Conns, A!HandshakeFails(k)
    PROVE  AdmInv'
<1>1. ad_conn[k].pc = "hs" /\ ad_conn' = [ad_conn EXCEPT ![k] = A!NoConn] /\ UNCHANGED <<ad_adm, ad_lock, ad_shut, ad_unp>>
  BY DEF A!HandshakeFails
<1>2. SlotsOK'
  BY SlotsShrink DEF AdmInv, A!HandshakeFails
<1> QED
  BY <1>1, <1>2, NoConnIs, OutsideKeeps DEF Held

LEMMA FirstActivateKeeps ==
    ASSUME AdmInv, NEW k \in Conns, NEW a, A!FirstActivate(k, a)
    PROVE  AdmInv'
<1>1. IsConn(ad_conn[k]) /\ SlotsOK /\ ChosenOK /\ AdmittedOK
  BY DEF AdmInv, ConnsOK
<1>2. ad_conn[k].pc = "up" /\ UNCHANGED <<ad_adm, ad_lock, ad_shut, ad_unp, ad_open, ad_prov>>
  BY DEF A!FirstActivate
<1>3. ad_conn[k].attempt \notin {"on", "save"} /\ (ad_conn[k].closing = TRUE => ad_conn[k].live = FALSE)
  BY <1>1, <1>2 DEF AdmittedOK, ChosenOK, IsConn
<1> DEFINE x == [ad_conn[k] EXCEPT !.act = a, !.pc = "queue"]
           y == [ad_conn[k] EXCEPT !.pc = "end"]
           z == IF A!Admissible(ad_conn[k], ad_conn[k].psk, a) THEN x ELSE A!Closing(y)
<1>4. ad_conn' = [ad_conn EXCEPT ![k] = z]
  BY DEF A!FirstActivate, AdmInv, ConnsOK
<1>5. /\ IsConn(x) /\ x.pc = "queue" /\ x.closing = ad_conn[k].closing /\ x.live = ad_conn[k].live
      /\ x.attempt = ad_conn[k].attempt
      /\ IsConn(y) /\ y.pc = "end"
  BY <1>1 DEF IsConn, Pcs
<1> HIDE DEF x, y
<1>7. IsConn(A!Closing(y)) /\ A!Closing(y).pc = "end" /\ A!Closing(y).attempt = "no" /\ A!Closing(y).live = FALSE
  BY <1>5, ClosingIs
<1>8. /\ IsConn(z) /\ z.pc \in {"queue", "end"} /\ z.attempt \notin {"on", "save"}
      /\ z.closing = TRUE => z.live = FALSE
  BY <1>3, <1>5, <1>7
<1>9. SlotsOK'
  BY <1>1, <1>2, SlotsShrink
<1> HIDE DEF z
<1> QED
  BY <1>2, <1>4, <1>8, <1>9, OutsideKeeps DEF Held

LEMMA BringUpFailsKeeps ==
    ASSUME AdmInv, NEW k \in Conns, A!BringUpFails(k)
    PROVE  AdmInv'
<1>1. IsConn(ad_conn[k]) /\ SlotsOK /\ ChosenOK /\ AdmittedOK
  BY DEF AdmInv, ConnsOK
<1>2. ad_conn[k].pc = "up" /\ UNCHANGED <<ad_adm, ad_lock, ad_shut, ad_unp, ad_open, ad_prov>>
  BY DEF A!BringUpFails
<1>3. ad_conn[k].attempt \notin {"on", "save"} /\ (ad_conn[k].closing = TRUE => ad_conn[k].live = FALSE)
  BY <1>1, <1>2 DEF AdmittedOK, ChosenOK, IsConn
<1> DEFINE y == [ad_conn[k] EXCEPT !.pc = "end"]
           z == IF ad_conn[k].live THEN A!Closing(y) ELSE y
<1>4. ad_conn' = [ad_conn EXCEPT ![k] = z]
  BY DEF A!BringUpFails, AdmInv, ConnsOK
<1>5. /\ IsConn(y) /\ y.pc = "end" /\ y.closing = ad_conn[k].closing /\ y.live = ad_conn[k].live
      /\ y.attempt = ad_conn[k].attempt
  BY <1>1 DEF IsConn, Pcs
<1> HIDE DEF y
<1>7. IsConn(A!Closing(y)) /\ A!Closing(y).pc = "end" /\ A!Closing(y).attempt = "no" /\ A!Closing(y).live = FALSE
  BY <1>5, ClosingIs
<1>8. /\ IsConn(z) /\ z.pc = "end" /\ z.attempt \notin {"on", "save"}
      /\ z.closing = TRUE => z.live = FALSE
  BY <1>3, <1>5, <1>7
<1>9. SlotsOK'
  BY <1>1, <1>2, SlotsShrink
<1> HIDE DEF z
<1> QED
  BY <1>2, <1>4, <1>8, <1>9, OutsideKeeps DEF Held

LEMMA ForgetKeeps ==
    ASSUME AdmInv, NEW k \in Conns, A!Forget(k)
    PROVE  AdmInv'
<1>1. ad_conn[k].pc \in {"end", "free"} /\ ad_conn' = [ad_conn EXCEPT ![k] = A!NoConn] /\ UNCHANGED <<ad_adm, ad_lock, ad_shut, ad_unp>>
  BY DEF A!Forget
<1>2. SlotsOK'
  BY SlotsShrink DEF AdmInv, A!Forget
<1> QED
  BY <1>1, <1>2, NoConnIs, OutsideKeeps DEF Held

\* Nothing of admission changes.
LEMMA StillKeeps ==
    ASSUME AdmInv, UNCHANGED <<ad_conn, ad_adm, ad_open, ad_prov, ad_lock, ad_shut, ad_unp>>
    PROVE  AdmInv'
<1>1. ConnsOK' /\ SlotsOK'
  BY DEF AdmInv, ConnsOK, SlotsOK
<1>2. \A j \in Conns : Inside(j)
  BY StandsStill
<1> QED
  BY <1>1, <1>2, MovesKeep

\* The connection has closed; if it was the admitted one, none is now.
LEMMA FinishCloseKeeps ==
    ASSUME AdmInv, NEW k \in Conns, A!FinishClose(k)
    PROVE  AdmInv'
<1>1. /\ ConnsOK /\ SlotsOK /\ LockOK /\ AdmittedOK /\ ShutOK /\ ChosenOK
      /\ A!ServedIsAdmitted /\ A!UnpairedRefused /\ A!PairingNotDisplaced
  BY DEF AdmInv
<1> DEFINE p == IF ad_conn[k].pc = "run" THEN "free" ELSE ad_conn[k].pc
           x == [ad_conn[k] EXCEPT !.closing = FALSE, !.psk = 0, !.res = 0, !.act = "none", !.pc = p]
<1>20. IsConn(ad_conn[k]) /\ p \in Pcs /\ k \in DOMAIN ad_conn
  BY <1>1 DEF ConnsOK, IsConn, Pcs
<1>21. ad_conn' = [ad_conn EXCEPT ![k] = x]
  BY <1>20 DEF A!FinishClose
<1>2. /\ ad_conn[k].closing
      /\ ad_adm' = (IF ad_adm = k THEN None ELSE ad_adm) /\ UNCHANGED <<ad_lock, ad_shut, ad_unp>>
      /\ ad_prov' = ad_prov \ {k} /\ ad_open' = ad_open \ {k}
  BY DEF A!FinishClose, A!AfterClose
<1>3. /\ IsConn(x) /\ x.closing = FALSE /\ x.act = "none" /\ x.live = ad_conn[k].live
      /\ x.attempt = ad_conn[k].attempt /\ x.prev = ad_conn[k].prev /\ x.young = ad_conn[k].young
      /\ x.pc = IF ad_conn[k].pc = "run" THEN "free" ELSE ad_conn[k].pc
  <2> HIDE DEF p
  <2>1. /\ IsConn(x) /\ x.closing = FALSE /\ x.act = "none" /\ x.live = ad_conn[k].live
        /\ x.attempt = ad_conn[k].attempt /\ x.prev = ad_conn[k].prev /\ x.young = ad_conn[k].young
        /\ x.pc = p
    BY <1>20 DEF IsConn
  <2> QED
    BY <2>1 DEF p
<1>4. /\ ad_conn[k].live = FALSE /\ ad_conn[k].pc # "hs" /\ ad_conn[k].attempt \notin {"on", "save"}
      /\ ad_conn[k].pc \in Pcs /\ ad_conn[k].prev \in Conns \cup {None}
  BY <1>1, <1>2 DEF AdmittedOK, ChosenOK, ConnsOK, IsConn
<1> HIDE DEF x
<1>5. ConnsOK' /\ \A j \in Conns : ad_conn'[j] = IF j = k THEN x ELSE ad_conn[j]
  BY <1>1, <1>21, <1>3, OneChanges
<1>6. SlotsOK'
  BY <1>1, <1>2, SlotsShrink
<1>7. LockOK'
  BY <1>1, <1>2, <1>3, <1>5 DEF LockOK, Held
<1>8. AdmittedOK'
  BY <1>1, <1>2, <1>3, <1>4, <1>5, AdmissionAssumption DEF AdmittedOK
<1>9. ShutOK'
  BY <1>1, <1>2, <1>3, <1>4, <1>5 DEF ShutOK
<1>10. ChosenOK'
  BY <1>1, <1>2, <1>3, <1>4, <1>5 DEF ChosenOK, A!Refused, A!Relies, AdmittedOK
<1>11. A!ServedIsAdmitted'
  BY <1>1, <1>2, <1>3, <1>4, <1>5 DEF A!ServedIsAdmitted
<1>12. A!UnpairedRefused'
  BY <1>1, <1>2, <1>5 DEF A!UnpairedRefused, A!Relies, AdmittedOK
<1>13. A!PairingNotDisplaced'
  BY <1>1, <1>2, <1>3, <1>4, <1>5 DEF A!PairingNotDisplaced, AdmittedOK
<1> QED
  BY <1>5, <1>6, <1>7, <1>8, <1>9, <1>10, <1>11, <1>12, <1>13 DEF AdmInv

-----------------------------------------------------------------------------
(* A connection that is served.                                              *)

LEMMA SweepKeeps ==
    ASSUME AdmInv, NEW keep, A!Sweep(keep)
    PROVE  AdmInv'
BY StillKeeps DEF A!Sweep

\* A connection that is closed at once.
LEMMA ClosesKeeps ==
    ASSUME AdmInv, NEW k \in Conns, NEW x, IsConn(x), x.pc = ad_conn[k].pc, x.mode = ad_conn[k].mode,
           x.prev = ad_conn[k].prev, ad_conn[k].live, ad_conn[k].pc = "run" \/ (x.psk = ad_conn[k].psk /\ x.act = ad_conn[k].act),
           ad_conn' = [ad_conn EXCEPT ![k] = A!Closing(x)],
           ad_adm' = ad_adm, ad_lock' = ad_lock, ad_unp' = ad_unp, ad_open' = ad_open, ad_prov' = ad_prov,
           ad_shut' = ad_shut \/ (ad_shut' = ad_adm /\ ad_lock = Config /\ ad_adm = k)
    PROVE  AdmInv'
<1> DEFINE y == A!Closing(x)
<1>1. /\ IsConn(y) /\ y.live = FALSE /\ y.closing = TRUE /\ y.attempt = "no" /\ y.pc = ad_conn[k].pc
      /\ y.mode = ad_conn[k].mode /\ y.prev = ad_conn[k].prev
      /\ ad_conn[k].pc = "run" \/ (y.psk = ad_conn[k].psk /\ y.act = ad_conn[k].act)
  BY ClosingIs
<1>2. ad_conn[k].live = TRUE
  BY DEF AdmInv, ConnsOK, IsConn
<1>3. ad_conn' = [ad_conn EXCEPT ![k] = y]
  OBVIOUS
<1> HIDE DEF y
<1>4. StepsTo(k, y)
  BY <1>1, <1>2 DEF StepsTo
<1> QED
  BY <1>1, <1>3, <1>4, InsideKeeps

LEMMA LostKeeps ==
    ASSUME AdmInv, NEW k \in Conns, A!Lost(k)
    PROVE  AdmInv'
<1>1. IsConn(ad_conn[k]) /\ k \in DOMAIN ad_conn
  BY DEF AdmInv, ConnsOK
<1>2. ad_conn' = [ad_conn EXCEPT ![k] = A!Closing(ad_conn[k])] /\ ad_conn[k].live /\ UNCHANGED <<ad_adm, ad_open, ad_prov, ad_lock, ad_shut, ad_unp>>
  BY <1>1 DEF A!Lost
<1> QED
  BY <1>1, <1>2, ClosesKeeps

LEMMA ServerUnpairsKeeps ==
    ASSUME AdmInv, NEW k \in Conns, A!ServerUnpairs(k)
    PROVE  AdmInv'
<1>1. IsConn(ad_conn[k]) /\ k \in DOMAIN ad_conn
  BY DEF AdmInv, ConnsOK
<1>2. ad_conn' = [ad_conn EXCEPT ![k] = A!Closing(ad_conn[k])] /\ ad_conn[k].live /\ UNCHANGED <<ad_adm, ad_open, ad_prov, ad_lock, ad_shut, ad_unp>>
  BY <1>1 DEF A!ServerUnpairs, A!Serving
<1> QED
  BY <1>1, <1>2, ClosesKeeps

LEMMA ServerActivateKeeps ==
    ASSUME AdmInv, NEW k \in Conns, NEW a, A!ServerActivate(k, a)
    PROVE  AdmInv'
<1>1. IsConn(ad_conn[k]) /\ k \in DOMAIN ad_conn
  BY DEF AdmInv, ConnsOK
<1>2. ad_conn[k].pc = "run" /\ ad_conn[k].live /\ UNCHANGED <<ad_adm, ad_open, ad_prov, ad_lock, ad_shut, ad_unp>>
  BY DEF A!ServerActivate, A!Serving
<1>3. CASE ~A!Admissible(ad_conn[k], ad_conn[k].psk, a)
  <2>1. ad_conn' = [ad_conn EXCEPT ![k] = A!Closing(ad_conn[k])]
    BY <1>1, <1>3 DEF A!ServerActivate
  <2> QED
    BY <1>1, <1>2, <2>1, ClosesKeeps
<1>4. CASE A!Admissible(ad_conn[k], ad_conn[k].psk, a)
  <2> DEFINE n == k = ad_adm /\ a = "playback" /\ ad_conn[k].srv # ad_last
             x == [ad_conn[k] EXCEPT !.act = a, !.attempt = "no", !.young = FALSE, !.note = n]
  <2>1. ad_conn' = [ad_conn EXCEPT ![k] = x]
    BY <1>1, <1>4 DEF A!ServerActivate
  <2> HIDE DEF n
  <2>2. /\ IsConn(x) /\ x.pc = ad_conn[k].pc /\ x.mode = ad_conn[k].mode /\ x.prev = ad_conn[k].prev
        /\ x.live = ad_conn[k].live /\ x.closing = ad_conn[k].closing /\ x.psk = ad_conn[k].psk
        /\ x.act = a /\ x.attempt = "no"
    BY <1>1 DEF IsConn
  <2>3. ad_conn[k].psk = 0 /\ a = "playback" => ad_unp
    BY <1>4 DEF A!Admissible
  <2> HIDE DEF x
  <2>4. StepsTo(k, x)
    BY <1>2, <2>2, <2>3 DEF StepsTo
  <2> QED
    BY <1>2, <2>1, <2>2, <2>4, InsideKeeps
<1> QED
  BY <1>3, <1>4

LEMMA RehandshakeKeeps ==
    ASSUME AdmInv, NEW k \in Conns, NEW r, NEW a, A!Rehandshake(k, r, a)
    PROVE  AdmInv'
<1>1. IsConn(ad_conn[k]) /\ k \in DOMAIN ad_conn
  BY DEF AdmInv, ConnsOK
<1>2. ad_conn[k].pc = "run" /\ ad_conn[k].live /\ UNCHANGED <<ad_adm, ad_open, ad_prov, ad_lock, ad_shut, ad_unp>>
  BY DEF A!Rehandshake, A!Serving
<1>3. CASE ~A!Admissible(ad_conn[k], r, a)
  <2> DEFINE y == [ad_conn[k] EXCEPT !.psk = r]
  <2>1. ad_conn' = [ad_conn EXCEPT ![k] = A!Closing(y)]
    BY <1>1, <1>3 DEF A!Rehandshake
  <2>2. IsConn(y) /\ y.pc = ad_conn[k].pc /\ y.mode = ad_conn[k].mode /\ y.prev = ad_conn[k].prev
    BY <1>1 DEF IsConn
  <2> HIDE DEF y
  <2> QED
    BY <1>2, <2>1, <2>2, ClosesKeeps
<1>4. CASE A!Admissible(ad_conn[k], r, a)
  <2> DEFINE n == k = ad_adm /\ a = "playback" /\ ad_conn[k].srv # ad_last
             x == [ad_conn[k] EXCEPT !.psk = r, !.act = a, !.attempt = "no", !.late = A!Late, !.young = FALSE, !.note = n]
  <2>1. ad_conn' = [ad_conn EXCEPT ![k] = x]
    BY <1>1, <1>4 DEF A!Rehandshake
  <2> HIDE DEF n
  <2>2. /\ IsConn(x) /\ x.pc = ad_conn[k].pc /\ x.mode = ad_conn[k].mode /\ x.prev = ad_conn[k].prev
        /\ x.live = ad_conn[k].live /\ x.closing = ad_conn[k].closing /\ x.psk = r
        /\ x.act = a /\ x.attempt = "no"
    BY <1>1 DEF IsConn
  <2>3. r = 0 /\ a = "playback" => ad_unp
    BY <1>4 DEF A!Admissible
  <2> HIDE DEF x
  <2>4. StepsTo(k, x)
    BY <1>2, <2>2, <2>3 DEF StepsTo
  <2> QED
    BY <1>2, <2>1, <2>2, <2>4, InsideKeeps
<1> QED
  BY <1>3, <1>4

\* Only the state of the attempt, and what is written for it, changes.
LEMMA AttemptKeeps ==
    ASSUME AdmInv, NEW k \in Conns, NEW x, IsConn(x), ad_conn' = [ad_conn EXCEPT ![k] = x],
           x.pc = ad_conn[k].pc, x.mode = ad_conn[k].mode, x.prev = ad_conn[k].prev, x.live = ad_conn[k].live,
           x.closing = ad_conn[k].closing, x.psk = ad_conn[k].psk, x.act = ad_conn[k].act,
           x.attempt \in {"on", "save"} => ad_conn[k].live = TRUE /\ ad_conn[k].pc = "run",
           \/ ad_conn[k].attempt \in {"on", "save"} /\ x.young = ad_conn[k].young
           \/ ad_lock \notin {None, Config} => x.young = TRUE
           \/ x.attempt \notin {"on", "save"},
           UNCHANGED <<ad_adm, ad_open, ad_prov, ad_lock, ad_shut, ad_unp>>
    PROVE  AdmInv'
<1>1. StepsTo(k, x)
  BY DEF StepsTo
<1> QED
  BY <1>1, InsideKeeps

LEMMA NotedKeeps ==
    ASSUME AdmInv, NEW k \in Conns, A!Noted(k)
    PROVE  AdmInv'
<1>1. IsConn(ad_conn[k]) /\ k \in DOMAIN ad_conn /\ ChosenOK
  BY DEF AdmInv, ConnsOK
<1> DEFINE x == [ad_conn[k] EXCEPT !.note = FALSE]
<1>2. ad_conn' = [ad_conn EXCEPT ![k] = x] /\ UNCHANGED <<ad_adm, ad_open, ad_prov, ad_lock, ad_shut, ad_unp>>
  BY <1>1 DEF A!Noted
<1>3. /\ IsConn(x) /\ x.pc = ad_conn[k].pc /\ x.mode = ad_conn[k].mode /\ x.prev = ad_conn[k].prev
      /\ x.live = ad_conn[k].live /\ x.closing = ad_conn[k].closing /\ x.psk = ad_conn[k].psk
      /\ x.act = ad_conn[k].act /\ x.attempt = ad_conn[k].attempt /\ x.young = ad_conn[k].young
  BY <1>1 DEF IsConn
<1>4. ad_conn[k].attempt \in {"on", "save"} => ad_conn[k].live = TRUE /\ ad_conn[k].pc = "run"
  BY <1>1 DEF ChosenOK, IsConn
<1> HIDE DEF x
<1> QED
  BY <1>2, <1>3, <1>4, AttemptKeeps

LEMMA BeginAttemptKeeps ==
    ASSUME AdmInv, NEW k \in Conns, A!BeginAttempt(k)
    PROVE  AdmInv'
<1>1. IsConn(ad_conn[k]) /\ k \in DOMAIN ad_conn
  BY DEF AdmInv, ConnsOK
<1> DEFINE y == ad_lock \notin {None, Config}
           x == [ad_conn[k] EXCEPT !.attempt = "on", !.young = y]
<1>2. ad_conn' = [ad_conn EXCEPT ![k] = x] /\ UNCHANGED <<ad_adm, ad_open, ad_prov, ad_lock, ad_shut, ad_unp>>
  BY <1>1 DEF A!BeginAttempt
<1>3. ad_conn[k].live = TRUE /\ ad_conn[k].pc = "run"
  BY <1>1 DEF A!BeginAttempt, A!Serving, IsConn
<1>4. y \in BOOLEAN /\ (ad_lock \notin {None, Config} => y = TRUE)
  OBVIOUS
<1> HIDE DEF y
<1>5. /\ IsConn(x) /\ x.pc = ad_conn[k].pc /\ x.mode = ad_conn[k].mode /\ x.prev = ad_conn[k].prev
      /\ x.live = ad_conn[k].live /\ x.closing = ad_conn[k].closing /\ x.psk = ad_conn[k].psk
      /\ x.act = ad_conn[k].act /\ x.attempt = "on" /\ x.young = y
  BY <1>1, <1>4 DEF IsConn
<1> HIDE DEF x
<1> QED
  BY <1>2, <1>3, <1>4, <1>5, AttemptKeeps

LEMMA EndAttemptKeeps ==
    ASSUME AdmInv, NEW k \in Conns, A!EndAttempt(k)
    PROVE  AdmInv'
<1>1. IsConn(ad_conn[k]) /\ k \in DOMAIN ad_conn
  BY DEF AdmInv, ConnsOK
<1> DEFINE x == [ad_conn[k] EXCEPT !.attempt = "done"]
<1>2. ad_conn' = [ad_conn EXCEPT ![k] = x] /\ UNCHANGED <<ad_adm, ad_open, ad_prov, ad_lock, ad_shut, ad_unp>>
  BY <1>1 DEF A!EndAttempt
<1>3. /\ IsConn(x) /\ x.pc = ad_conn[k].pc /\ x.mode = ad_conn[k].mode /\ x.prev = ad_conn[k].prev
      /\ x.live = ad_conn[k].live /\ x.closing = ad_conn[k].closing /\ x.psk = ad_conn[k].psk
      /\ x.act = ad_conn[k].act /\ x.attempt = "done"
  BY <1>1 DEF IsConn
<1> HIDE DEF x
<1> QED
  BY <1>2, <1>3, AttemptKeeps

LEMMA AcknowledgedKeeps ==
    ASSUME AdmInv, NEW k \in Conns, A!Acknowledged(k)
    PROVE  AdmInv'
<1>1. IsConn(ad_conn[k]) /\ k \in DOMAIN ad_conn
  BY DEF AdmInv, ConnsOK
<1> DEFINE p == A!Protected \cup {ad_made + 1}
           x == [ad_conn[k] EXCEPT !.attempt = "save", !.prot = p]
<1>2. ad_conn' = [ad_conn EXCEPT ![k] = x] /\ UNCHANGED <<ad_adm, ad_open, ad_prov, ad_lock, ad_shut, ad_unp>>
  BY <1>1 DEF A!Acknowledged
<1>3. ad_conn[k].live = TRUE /\ ad_conn[k].pc = "run" /\ ad_conn[k].attempt = "on"
  BY <1>1 DEF A!Acknowledged, A!Serving, IsConn
<1> HIDE DEF p
<1>4. /\ IsConn(x) /\ x.pc = ad_conn[k].pc /\ x.mode = ad_conn[k].mode /\ x.prev = ad_conn[k].prev
      /\ x.live = ad_conn[k].live /\ x.closing = ad_conn[k].closing /\ x.psk = ad_conn[k].psk
      /\ x.act = ad_conn[k].act /\ x.attempt = "save" /\ x.young = ad_conn[k].young
  BY <1>1 DEF IsConn
<1> HIDE DEF x
<1> QED
  BY <1>2, <1>3, <1>4, AttemptKeeps

LEMMA RecordedKeeps ==
    ASSUME AdmInv, NEW k \in Conns, A!Recorded(k)
    PROVE  AdmInv'
<1>1. IsConn(ad_conn[k]) /\ k \in DOMAIN ad_conn
  BY DEF AdmInv, ConnsOK
<1> DEFINE x == [ad_conn[k] EXCEPT !.attempt = "done", !.prot = {}]
<1>2. ad_conn' = [ad_conn EXCEPT ![k] = x] /\ UNCHANGED <<ad_adm, ad_open, ad_prov, ad_lock, ad_shut, ad_unp>>
  BY <1>1 DEF A!Recorded
<1>3. /\ IsConn(x) /\ x.pc = ad_conn[k].pc /\ x.mode = ad_conn[k].mode /\ x.prev = ad_conn[k].prev
      /\ x.live = ad_conn[k].live /\ x.closing = ad_conn[k].closing /\ x.psk = ad_conn[k].psk
      /\ x.act = ad_conn[k].act /\ x.attempt = "done"
  BY <1>1 DEF IsConn
<1> HIDE DEF x
<1> QED
  BY <1>2, <1>3, AttemptKeeps

-----------------------------------------------------------------------------
(* The application.                                                          *)

\* With the lock free, or with the setting being written, no connection is inside admission.
LEMMA NoneInside ==
    ASSUME AdmInv, ad_lock \in {None, Config}
    PROVE  /\ \A j \in Conns : ad_conn[j].pc \notin Held
           /\ ad_lock = None => ad_shut = None
BY AdmissionAssumption DEF AdmInv, LockOK, ShutOK

LEMMA SetUnpairedKeeps ==
    ASSUME AdmInv, NEW b, A!SetUnpaired(b)
    PROVE  AdmInv'
<1>1. /\ ConnsOK /\ SlotsOK /\ LockOK /\ AdmittedOK /\ ShutOK /\ ChosenOK
      /\ A!ServedIsAdmitted /\ A!UnpairedRefused /\ A!PairingNotDisplaced
  BY DEF AdmInv
<1>2. ad_lock = None /\ ad_lock' = Config /\ UNCHANGED <<ad_conn, ad_adm, ad_open, ad_prov, ad_shut>>
  BY DEF A!SetUnpaired
<1>3. ad_shut = None /\ \A j \in Conns : ad_conn[j].pc \notin Held
  BY <1>2, NoneInside
<1>4. ConnsOK' /\ SlotsOK' /\ AdmittedOK'
  BY <1>1, <1>2 DEF ConnsOK, SlotsOK, AdmittedOK
<1>5. LockOK' /\ ShutOK'
  BY <1>2, <1>3, AdmissionAssumption DEF LockOK, ShutOK
<1>6. ChosenOK'
  BY <1>1, <1>2, <1>3 DEF ChosenOK, Held
<1>7. A!ServedIsAdmitted' /\ A!UnpairedRefused' /\ A!PairingNotDisplaced'
  BY <1>1, <1>2 DEF A!ServedIsAdmitted, A!UnpairedRefused, A!PairingNotDisplaced
<1> QED
  BY <1>4, <1>5, <1>6, <1>7 DEF AdmInv

LEMMA ConfigSavedKeeps ==
    ASSUME AdmInv, A!ConfigSaved
    PROVE  AdmInv'
<1>1. /\ ConnsOK /\ SlotsOK /\ LockOK /\ AdmittedOK /\ ShutOK /\ ChosenOK
      /\ A!ServedIsAdmitted /\ A!UnpairedRefused /\ A!PairingNotDisplaced
  BY DEF AdmInv
<1> DEFINE refuse == ~ad_unp /\ ad_adm # None /\ ad_shut = None /\ A!Relies(ad_adm) /\ ad_conn[ad_adm].live
<1>2. ad_lock = Config /\ UNCHANGED <<ad_adm, ad_open, ad_prov, ad_unp>>
  BY DEF A!ConfigSaved
<1>3. CASE refuse
  <2>1. ad_adm \in Conns /\ IsConn(ad_conn[ad_adm]) /\ ad_adm \in DOMAIN ad_conn
    BY <1>1, <1>3 DEF AdmittedOK, ConnsOK
  <2>2. ad_conn' = [ad_conn EXCEPT ![ad_adm] = A!Closing(ad_conn[ad_adm])] /\ ad_shut' = ad_adm /\ ad_lock' = ad_lock
    BY <1>3, <2>1 DEF A!ConfigSaved
  <2> QED
    BY <1>2, <1>3, <2>1, <2>2, ClosesKeeps
<1>4. CASE ~refuse
  <2>1. ad_lock' = None /\ ad_shut' = None /\ ad_conn' = ad_conn
    BY <1>4 DEF A!ConfigSaved
  <2>2. \A j \in Conns : ad_conn[j].pc \notin Held
    BY <1>2, NoneInside
  <2>3. ConnsOK' /\ SlotsOK' /\ AdmittedOK'
    BY <1>1, <1>2, <2>1 DEF ConnsOK, SlotsOK, AdmittedOK
  <2>4. LockOK' /\ ShutOK'
    BY <2>1, <2>2, AdmissionAssumption DEF LockOK, ShutOK
  <2>5. ChosenOK'
    BY <1>1, <1>2, <2>1, <2>2 DEF ChosenOK, Held
  <2>6. A!ServedIsAdmitted' /\ A!PairingNotDisplaced'
    BY <1>1, <1>2, <2>1 DEF A!ServedIsAdmitted, A!PairingNotDisplaced
  <2>7. A!UnpairedRefused'
    BY <1>1, <1>2, <1>4, <2>1 DEF A!UnpairedRefused, ShutOK, A!Relies
  <2> QED
    BY <2>3, <2>4, <2>5, <2>6, <2>7 DEF AdmInv
<1> QED
  BY <1>3, <1>4

LEMMA ClientDisconnectKeeps ==
    ASSUME AdmInv, A!ClientDisconnect
    PROVE  AdmInv'
<1>1. ConnsOK /\ SlotsOK
  BY DEF AdmInv
<1> DEFINE ks == {k \in (ad_prov \cup {ad_adm}) \ {None} : ad_conn[k].live}
<1>2. /\ ad_conn' = [k \in Conns |-> IF k \in ks THEN A!Closing(ad_conn[k]) ELSE ad_conn[k]]
      /\ UNCHANGED <<ad_adm, ad_open, ad_prov, ad_lock, ad_shut, ad_unp>>
  BY DEF A!ClientDisconnect
<1>3. \A k \in ks : ad_conn[k].live
  OBVIOUS
<1> HIDE DEF ks
<1>4. \A k \in Conns : ad_conn'[k] = IF k \in ks THEN A!Closing(ad_conn[k]) ELSE ad_conn[k]
  BY <1>2
<1>5. \A k \in Conns : IsConn(ad_conn'[k])
  BY <1>1, <1>4, ClosingIs DEF ConnsOK
<1>6. ConnsOK'
  BY <1>2, <1>5 DEF ConnsOK
<1>7. \A j \in Conns : Inside(j)
  <2> SUFFICES ASSUME NEW j \in Conns PROVE Inside(j)
    OBVIOUS
  <2>1. CASE j \in ks
    <3> DEFINE y == ad_conn'[j]
    <3>1. IsConn(ad_conn[j]) /\ y = A!Closing(ad_conn[j])
      BY <1>1, <1>4, <2>1 DEF ConnsOK
    <3>2. /\ y.live = FALSE /\ y.closing = TRUE /\ y.attempt = "no" /\ y.pc = ad_conn[j].pc /\ y.mode = ad_conn[j].mode
          /\ y.prev = ad_conn[j].prev /\ y.psk = ad_conn[j].psk /\ y.act = ad_conn[j].act
      BY <3>1, ClosingIs, ZenonT(60)
    <3>3. ad_conn[j].live = TRUE
      BY <1>3, <2>1, <3>1 DEF IsConn
    <3> QED
      BY <3>2, <3>3 DEF Inside
  <2>2. CASE j \notin ks
    BY <1>4, <2>2, StandsStill
  <2> QED
    BY <2>1, <2>2
<1>8. SlotsOK'
  BY <1>1, <1>2, SlotsShrink
<1> QED
  BY <1>2, <1>6, <1>7, <1>8, MovesKeep

-----------------------------------------------------------------------------
(* Admission.                                                                *)

\* Nobody else is inside admission.
Alone(k) == ad_shut = None /\ \A j \in Conns \ {k} : ad_conn[j].pc \notin Held

LEMMA QueueIsAlone ==
    ASSUME AdmInv, NEW k \in Conns, ad_lock = None \/ ad_lock = k
    PROVE  Alone(k)
BY AdmissionAssumption DEF AdmInv, LockOK, ShutOK, Alone

\* The connection is turned away, or its admission comes to nothing: it is not the admitted one.
LEMMA TurnedAwayKeeps ==
    ASSUME AdmInv, NEW k \in Conns, NEW x, IsConn(x), ad_conn' = [ad_conn EXCEPT ![k] = x], Alone(k),
           ad_conn[k].pc \notin {"oust", "wait", "start", "run"},
           \/ x.pc = "drop" /\ ad_lock' = k
           \/ x.pc = "end" /\ ad_lock' = None,
           x.closing = TRUE => x.live = FALSE, x.attempt \notin {"on", "save"},
           SlotsOK', UNCHANGED <<ad_adm, ad_shut, ad_unp>>, ad_lock # Config
    PROVE  AdmInv'
<1>1. /\ ConnsOK /\ SlotsOK /\ LockOK /\ AdmittedOK /\ ShutOK /\ ChosenOK
      /\ A!ServedIsAdmitted /\ A!UnpairedRefused /\ A!PairingNotDisplaced
  BY DEF AdmInv
<1>2. ConnsOK' /\ \A j \in Conns : ad_conn'[j] = IF j = k THEN x ELSE ad_conn[j]
  BY <1>1, OneChanges
<1>3. ad_adm # k
  BY <1>1, AdmissionAssumption DEF AdmittedOK
<1>4. x.live \in BOOLEAN /\ x.closing \in BOOLEAN
  BY DEF IsConn
<1>5. LockOK'
  BY <1>2, AdmissionAssumption DEF LockOK, Held, Alone
<1>6. AdmittedOK'
  BY <1>1, <1>2, <1>3, <1>4 DEF AdmittedOK
<1>7. ShutOK'
  BY DEF ShutOK, Alone
<1>8. ChosenOK'
  BY <1>1, <1>2, <1>3 DEF ChosenOK, Held, Alone, A!Refused, A!Relies, AdmittedOK
<1>9. A!ServedIsAdmitted'
  BY <1>1, <1>2, <1>3 DEF A!ServedIsAdmitted
<1>10. A!UnpairedRefused'
  BY <1>1, <1>2, <1>3 DEF A!UnpairedRefused, A!Relies, AdmittedOK
<1>11. A!PairingNotDisplaced'
  BY <1>2 DEF A!PairingNotDisplaced, Alone, Held
<1> QED
  BY <1>2, <1>5, <1>6, <1>7, <1>8, <1>9, <1>10, <1>11 DEF AdmInv

LEMMA DroppedKeeps ==
    ASSUME AdmInv, NEW k \in Conns, A!Dropped(k)
    PROVE  AdmInv'
<1>1. IsConn(ad_conn[k]) /\ SlotsOK /\ LockOK /\ ChosenOK
  BY DEF AdmInv, ConnsOK
<1>2. ad_conn[k].pc = "drop" /\ ad_conn[k].closing = FALSE /\ UNCHANGED <<ad_adm, ad_shut, ad_unp>>
  BY <1>1 DEF A!Dropped, IsConn
<1>3. ad_lock = k /\ ad_lock # Config
  BY <1>1, <1>2, AdmissionAssumption DEF LockOK, Held
<1>4. ad_conn[k].attempt \notin {"on", "save"}
  BY <1>1, <1>2 DEF ChosenOK
<1> DEFINE x == [ad_conn[k] EXCEPT !.pc = "end"]
<1>5. ad_conn' = [ad_conn EXCEPT ![k] = x] /\ ad_lock' = None /\ ad_prov' \subseteq ad_prov /\ ad_open' \subseteq ad_open
  BY DEF A!Dropped, A!Leave
<1>6. IsConn(x) /\ x.pc = "end" /\ x.closing = FALSE /\ x.attempt = ad_conn[k].attempt
  BY <1>1, <1>2 DEF IsConn, Pcs
<1>7. SlotsOK'
  BY <1>1, <1>5, SlotsShrink
<1>8. Alone(k)
  BY <1>3, QueueIsAlone
<1> HIDE DEF x
<1> QED
  BY <1>2, <1>3, <1>4, <1>5, <1>6, <1>7, <1>8, TurnedAwayKeeps

\* The connection was chosen: none that must be refused, and none before which a pairing goes.
Chosen(k) ==
    /\ ad_conn[k].pc \in {"queue", "save"} /\ (ad_lock = None \/ ad_lock = k)
    /\ ~A!Refused(k)
    /\ ad_conn[k].mode = "incoming" /\ ad_conn[k].act # "none" /\ ad_adm # None =>
          (ad_conn[ad_adm].attempt \in {"on", "save"} => ad_conn[ad_adm].young)

LEMMA InstallKeeps ==
    ASSUME AdmInv, NEW k \in Conns, Chosen(k), A!Install(k), UNCHANGED <<ad_shut, ad_unp>>
    PROVE  AdmInv'
<1>1. /\ ConnsOK /\ SlotsOK /\ LockOK /\ AdmittedOK /\ ShutOK /\ ChosenOK
      /\ A!ServedIsAdmitted /\ A!UnpairedRefused /\ A!PairingNotDisplaced
  BY DEF AdmInv
<1>2. IsConn(ad_conn[k]) /\ Alone(k) /\ k \in DOMAIN ad_conn
  BY <1>1, QueueIsAlone DEF ConnsOK, Chosen
<1>3. ad_conn[k].live \in BOOLEAN /\ ad_conn[k].closing \in BOOLEAN /\ ad_conn[k].attempt \notin {"on", "save"} /\ (ad_conn[k].closing = TRUE => ad_conn[k].live = FALSE)
  BY <1>1, <1>2 DEF ChosenOK, Chosen, AdmittedOK, IsConn
<1>4. ad_adm # k /\ k # None /\ ad_lock # Config
  BY <1>1, AdmissionAssumption DEF AdmittedOK, Chosen
<1>5. CASE ~ad_conn[k].live
  <2> DEFINE x == [ad_conn[k] EXCEPT !.pc = "end"]
  <2>1. ad_conn' = [ad_conn EXCEPT ![k] = x] /\ ad_lock' = None /\ ad_prov' \subseteq ad_prov /\ ad_open' \subseteq ad_open /\ ad_adm' = ad_adm
    BY <1>5 DEF A!Install, A!Leave
  <2>2. IsConn(x) /\ x.pc = "end" /\ x.closing = ad_conn[k].closing /\ x.attempt = ad_conn[k].attempt /\ x.live = ad_conn[k].live
    BY <1>2 DEF IsConn, Pcs
  <2>3. SlotsOK'
    BY <1>1, <2>1, SlotsShrink
  <2> HIDE DEF x
  <2> QED
    BY <1>2, <1>3, <1>4, <2>1, <2>2, <2>3, TurnedAwayKeeps DEF Chosen
<1>6. CASE ad_conn[k].live /\ ad_adm # None
  <2> DEFINE x == [ad_conn[k] EXCEPT !.pc = "oust", !.prev = ad_adm]
  <2>1. ad_conn' = [ad_conn EXCEPT ![k] = x] /\ ad_lock' = k /\ ad_adm' = k /\ UNCHANGED <<ad_prov, ad_open>>
    BY <1>2, <1>6 DEF A!Install
  <2>2. ad_adm \in Conns
    BY <1>1, <1>6 DEF AdmittedOK
  <2>3. /\ IsConn(x) /\ x.pc = "oust" /\ x.closing = ad_conn[k].closing /\ x.attempt = ad_conn[k].attempt
        /\ x.live = TRUE /\ x.prev = ad_adm /\ x.psk = ad_conn[k].psk /\ x.act = ad_conn[k].act
        /\ x.mode = ad_conn[k].mode
    BY <1>2, <1>3, <1>6, <2>2 DEF IsConn, Pcs, Held
  <2> HIDE DEF x
  <2>4. ConnsOK' /\ \A j \in Conns : ad_conn'[j] = IF j = k THEN x ELSE ad_conn[j]
    BY <1>1, <2>1, <2>3, OneChanges
  <2>5. SlotsOK'
    BY <1>1, <2>1, SlotsShrink
  <2>6. LockOK'
    BY <1>2, <2>1, <2>3, <2>4 DEF LockOK, Held, Alone
  <2>7. AdmittedOK'
    <3>1. ad_conn'[k].pc = "oust" /\ ad_conn'[k].live = TRUE /\ ad_conn'[k].closing = FALSE
      BY <1>3, <1>6, <2>3, <2>4
    <3>2. \A j \in Conns \ {k} : ad_conn'[j] = ad_conn[j] /\ ad_conn'[j].pc \notin Held
      BY <1>2, <2>4 DEF Alone
    <3>3. \A j \in Conns : ad_conn'[j].pc \in {"oust", "wait", "start"} => j = k
      BY <3>2 DEF Held
    <3>4. \A j \in Conns : ad_conn'[j].pc \in {"oust", "wait"} => ad_conn'[j].prev \in Conns \ {j}
      BY <1>4, <2>2, <2>3, <2>4, <3>3
    <3>5. \A j \in Conns : ad_conn'[j].closing => ~ad_conn'[j].live
      BY <1>1, <3>1, <3>2 DEF AdmittedOK
    <3>6. \A j \in Conns : ad_conn'[j].pc = "hs" => ~ad_conn'[j].live /\ ~ad_conn'[j].closing
      BY <1>1, <3>1, <3>2 DEF AdmittedOK
    <3> QED
      BY <2>1, <3>1, <3>3, <3>4, <3>5, <3>6 DEF AdmittedOK
  <2>8. ShutOK'
    BY <1>2 DEF ShutOK, Alone
  <2>9. ChosenOK'
    BY <1>1, <1>2, <1>3, <2>1, <2>3, <2>4 DEF ChosenOK, Alone, Held, A!Refused, A!Relies
  <2>10. A!ServedIsAdmitted'
    <3> SUFFICES ASSUME NEW j \in Conns, ad_conn'[j].pc = "run", ad_conn'[j].live
          PROVE  k = j \/ (ad_conn'[k].pc = "oust" /\ ad_conn'[k].prev = j)
      BY <2>1 DEF A!ServedIsAdmitted
    <3>1. CASE j = k
      BY <3>1
    <3>2. CASE j # k
      <4>1. ad_conn[j].pc = "run" /\ ad_conn[j].live
        BY <2>4, <3>2
      <4>2. ad_adm = j \/ \E i \in Conns : ad_conn[i].pc = "oust" /\ ad_conn[i].prev = j
        BY <1>1, <4>1 DEF A!ServedIsAdmitted
      <4>3. \A i \in Conns : ad_conn[i].pc # "oust"
        BY <1>2 DEF Alone, Held, Chosen
      <4> QED
        BY <2>3, <2>4, <4>2, <4>3
    <3> QED
      BY <3>1, <3>2
  <2>11. A!UnpairedRefused'
    BY <2>1, <2>3, <2>4 DEF A!UnpairedRefused, A!Relies, Chosen, A!Refused
  <2>12. A!PairingNotDisplaced'
    BY <1>2, <1>4, <1>6, <2>2, <2>3, <2>4 DEF A!PairingNotDisplaced, Chosen, Alone, Held
  <2> QED
    BY <2>4, <2>5, <2>6, <2>7, <2>8, <2>9, <2>10, <2>11, <2>12 DEF AdmInv
<1>7. CASE ad_conn[k].live /\ ad_adm = None
  <2> DEFINE x == [ad_conn[k] EXCEPT !.pc = "run"]
  <2>1. ad_conn' = [ad_conn EXCEPT ![k] = x] /\ ad_lock' = None /\ ad_adm' = k /\ ad_prov' \subseteq ad_prov /\ ad_open' \subseteq ad_open
    BY <1>7 DEF A!Install, A!Leave
  <2>3. /\ IsConn(x) /\ x.pc = "run" /\ x.closing = ad_conn[k].closing /\ x.attempt = ad_conn[k].attempt
        /\ x.live = TRUE /\ x.psk = ad_conn[k].psk /\ x.act = ad_conn[k].act
    BY <1>2, <1>3, <1>7 DEF IsConn, Pcs
  <2> HIDE DEF x
  <2>4. ConnsOK' /\ \A j \in Conns : ad_conn'[j] = IF j = k THEN x ELSE ad_conn[j]
    BY <1>1, <2>1, <2>3, OneChanges
  <2>5. SlotsOK'
    BY <1>1, <2>1, SlotsShrink
  <2>6. LockOK'
    BY <1>2, <2>1, <2>3, <2>4, AdmissionAssumption DEF LockOK, Held, Alone
  <2>7. AdmittedOK'
    <3>1. ad_conn'[k].pc = "run" /\ ad_conn'[k].live = TRUE /\ ad_conn'[k].closing = FALSE
      BY <1>3, <1>7, <2>3, <2>4
    <3>2. \A j \in Conns \ {k} : ad_conn'[j] = ad_conn[j] /\ ad_conn'[j].pc \notin Held
      BY <1>2, <2>4 DEF Alone
    <3>3. \A j \in Conns : ad_conn'[j].pc \in {"oust", "wait", "start"} => j = k
      BY <3>2 DEF Held
    <3>4. \A j \in Conns : ad_conn'[j].pc \in {"oust", "wait"} => ad_conn'[j].prev \in Conns \ {j}
      BY <3>1, <3>3
    <3>5. \A j \in Conns : ad_conn'[j].closing => ~ad_conn'[j].live
      BY <1>1, <3>1, <3>2 DEF AdmittedOK
    <3>6. \A j \in Conns : ad_conn'[j].pc = "hs" => ~ad_conn'[j].live /\ ~ad_conn'[j].closing
      BY <1>1, <3>1, <3>2 DEF AdmittedOK
    <3> QED
      BY <2>1, <3>1, <3>3, <3>4, <3>5, <3>6 DEF AdmittedOK
  <2>8. ShutOK'
    BY <1>2 DEF ShutOK, Alone
  <2>9. ChosenOK'
    BY <1>1, <1>2, <1>3, <2>1, <2>3, <2>4 DEF ChosenOK, Alone, Held, A!Refused, A!Relies
  <2>10. A!ServedIsAdmitted'
    <3> SUFFICES ASSUME NEW j \in Conns, j # k, ad_conn'[j].pc = "run", ad_conn'[j].live
          PROVE  FALSE
      BY <2>1 DEF A!ServedIsAdmitted
    <3>1. ad_conn[j].pc = "run" /\ ad_conn[j].live
      BY <2>4
    <3>2. ad_adm = j \/ \E i \in Conns : ad_conn[i].pc = "oust" /\ ad_conn[i].prev = j
      BY <1>1, <3>1 DEF A!ServedIsAdmitted
    <3>3. \A i \in Conns : ad_conn[i].pc # "oust"
      BY <1>2 DEF Alone, Held, Chosen
    <3> QED
      BY <1>7, <3>2, <3>3, AdmissionAssumption
  <2>11. A!UnpairedRefused'
    BY <2>1, <2>3, <2>4 DEF A!UnpairedRefused, A!Relies, Chosen, A!Refused
  <2>12. A!PairingNotDisplaced'
    BY <1>2, <2>3, <2>4 DEF A!PairingNotDisplaced, Alone, Held
  <2> QED
    BY <2>4, <2>5, <2>6, <2>7, <2>8, <2>9, <2>10, <2>11, <2>12 DEF AdmInv
<1> QED
  BY <1>5, <1>6, <1>7

LEMMA AcquireKeeps ==
    ASSUME AdmInv, NEW k \in Conns, A!Acquire(k)
    PROVE  AdmInv'
<1>1. /\ ConnsOK /\ SlotsOK /\ LockOK /\ AdmittedOK /\ ShutOK /\ ChosenOK
      /\ A!ServedIsAdmitted /\ A!UnpairedRefused /\ A!PairingNotDisplaced
  BY DEF AdmInv
<1>2. ad_conn[k].pc = "queue" /\ ad_lock = None /\ UNCHANGED <<ad_shut, ad_unp>>
  BY DEF A!Acquire
<1>3. IsConn(ad_conn[k]) /\ Alone(k) /\ k \in DOMAIN ad_conn
  BY <1>1, <1>2, QueueIsAlone DEF ConnsOK
<1>4. ad_conn[k].live \in BOOLEAN /\ ad_conn[k].attempt \notin {"on", "save"} /\ (ad_conn[k].closing = TRUE => ad_conn[k].live = FALSE)
  BY <1>1, <1>2, <1>3 DEF ChosenOK, AdmittedOK, IsConn
<1>5. ad_adm # k /\ k # None /\ ad_lock # Config
  BY <1>1, <1>2, AdmissionAssumption DEF AdmittedOK
<1>6. ASSUME ad_conn[k].mode = "incoming" => A!ShouldAdmit(k), ~A!Refused(k)
      PROVE  Chosen(k)
  <2>1. ASSUME ad_conn[k].mode = "incoming", ad_conn[k].act # "none", ad_adm # None
        PROVE  ad_conn[ad_adm].attempt \in {"on", "save"} => ad_conn[ad_adm].young
    BY <1>1, <1>6, <2>1 DEF A!ShouldAdmit, ChosenOK, AdmittedOK
  <2> QED
    BY <1>2, <1>6, <2>1 DEF Chosen
<1>7. CASE /\ ad_lock' = k
           /\ ad_conn' = [ad_conn EXCEPT ![k] = IF @.live THEN A!Closing([@ EXCEPT !.pc = "drop"])
                                          ELSE [@ EXCEPT !.pc = "drop"]]
           /\ UNCHANGED <<ad_adm, ad_prov, ad_open>>
  <2> DEFINE y == [ad_conn[k] EXCEPT !.pc = "drop"]
             x == IF ad_conn[k].live THEN A!Closing(y) ELSE y
  <2>1. ad_conn' = [ad_conn EXCEPT ![k] = x]
    BY <1>3, <1>7
  <2>2. IsConn(y) /\ y.pc = "drop" /\ y.closing = ad_conn[k].closing /\ y.attempt = ad_conn[k].attempt /\ y.live = ad_conn[k].live
    BY <1>3 DEF IsConn, Pcs, Held
  <2> HIDE DEF y
  <2>3. IsConn(A!Closing(y)) /\ A!Closing(y).pc = "drop" /\ A!Closing(y).live = FALSE /\ A!Closing(y).attempt = "no"
    BY <2>2, ClosingIs
  <2>4. IsConn(x) /\ x.pc = "drop" /\ (x.closing = TRUE => x.live = FALSE) /\ x.attempt \notin {"on", "save"}
    BY <1>4, <2>2, <2>3
  <2>5. SlotsOK'
    BY <1>1, <1>7, SlotsShrink
  <2> HIDE DEF x
  <2> QED
    BY <1>2, <1>3, <1>5, <1>7, <2>1, <2>4, <2>5, TurnedAwayKeeps
<1>8. CASE /\ ad_conn[k].mode = "incoming" => A!ShouldAdmit(k)
           /\ ~A!Refused(k)
           /\ ad_lock' = k
           /\ ad_conn' = [ad_conn EXCEPT ![k] = [@ EXCEPT !.pc = "save"]]
           /\ UNCHANGED <<ad_adm, ad_prov, ad_open>>
  <2>1. Chosen(k)
    BY <1>6, <1>8
  <2> DEFINE x == [ad_conn[k] EXCEPT !.pc = "save"]
  <2>2. ad_conn' = [ad_conn EXCEPT ![k] = x]
    BY <1>3, <1>8
  <2>3. /\ IsConn(x) /\ x.pc = "save" /\ x.closing = ad_conn[k].closing /\ x.attempt = ad_conn[k].attempt
        /\ x.live = ad_conn[k].live /\ x.psk = ad_conn[k].psk /\ x.act = ad_conn[k].act /\ x.mode = ad_conn[k].mode
    BY <1>3 DEF IsConn, Pcs, Held
  <2> HIDE DEF x
  <2>4. ConnsOK' /\ \A j \in Conns : ad_conn'[j] = IF j = k THEN x ELSE ad_conn[j]
    BY <1>1, <2>2, <2>3, OneChanges
  <2>5. SlotsOK'
    BY <1>1, <1>8, SlotsShrink
  <2>6. LockOK'
    BY <1>3, <1>8, <2>3, <2>4 DEF LockOK, Held, Alone
  <2>7. AdmittedOK'
    BY <1>1, <1>3, <1>4, <1>5, <1>8, <2>3, <2>4 DEF AdmittedOK, Alone, Held
  <2>8. ShutOK'
    BY <1>2, <1>3 DEF ShutOK, Alone
  <2>9. ChosenOK'
    <3>1. ad_adm # None => ad_adm \in Conns /\ ad_conn'[ad_adm] = ad_conn[ad_adm]
      BY <1>1, <1>5, <2>4 DEF AdmittedOK
    <3>2. \A j \in Conns : ad_conn'[j].pc = "save" => j = k
      BY <1>3, <2>4 DEF Alone, Held
    <3>3. ~A!Refused(k)'
      BY <1>2, <1>8, <2>3, <2>4 DEF A!Refused, A!Relies
    <3>4. \A j \in Conns : ad_conn'[j].attempt \in {"on", "save"} => ad_conn'[j].live /\ ad_conn'[j].pc = "run"
      BY <1>1, <1>4, <2>3, <2>4 DEF ChosenOK
    <3>5. ad_conn'[k].mode = "incoming" /\ ad_conn'[k].act # "none" /\ ad_adm # None =>
             (ad_conn'[ad_adm].attempt \in {"on", "save"} => ad_conn'[ad_adm].young)
      BY <2>1, <2>3, <2>4, <3>1 DEF Chosen
    <3>6. \A j \in Conns : ad_conn'[j].pc = "save" => ~A!Refused(j)'
      BY <3>2, <3>3
    <3> QED
      BY <1>8, <3>2, <3>4, <3>5, <3>6 DEF ChosenOK
  <2>10. A!ServedIsAdmitted'
    BY <1>1, <1>2, <1>3, <1>8, <2>3, <2>4 DEF A!ServedIsAdmitted, Alone, Held
  <2>11. A!UnpairedRefused'
    BY <1>1, <1>2, <1>5, <1>8, <2>4 DEF A!UnpairedRefused, A!Relies, AdmittedOK
  <2>12. A!PairingNotDisplaced'
    BY <1>3, <2>3, <2>4 DEF A!PairingNotDisplaced, Alone, Held
  <2> QED
    BY <2>4, <2>5, <2>6, <2>7, <2>8, <2>9, <2>10, <2>11, <2>12 DEF AdmInv
<1>9. CASE (ad_conn[k].mode = "incoming" => A!ShouldAdmit(k)) /\ ~A!Refused(k) /\ A!Install(k)
  BY <1>2, <1>6, <1>9, InstallKeeps
<1> QED
  BY <1>7, <1>8, <1>9 DEF A!Acquire

LEMMA SavedKeeps ==
    ASSUME AdmInv, NEW k \in Conns, A!Saved(k)
    PROVE  AdmInv'
<1>1. ad_conn[k].pc = "save" /\ A!Install(k) /\ UNCHANGED <<ad_shut, ad_unp>>
  BY DEF A!Saved
<1>2. LockOK /\ ChosenOK
  BY DEF AdmInv
<1>3. ad_lock = k
  BY <1>1, <1>2 DEF LockOK, Held
<1>4. ~A!Refused(k)
  BY <1>1, <1>2 DEF ChosenOK
<1>5. ad_conn[k].mode = "incoming" /\ ad_conn[k].act # "none" /\ ad_adm # None =>
         (ad_conn[ad_adm].attempt \in {"on", "save"} => ad_conn[ad_adm].young)
  BY <1>1, <1>2 DEF ChosenOK
<1>6. Chosen(k)
  BY <1>1, <1>3, <1>4, <1>5 DEF Chosen
<1> QED
  BY <1>1, <1>6, InstallKeeps

LEMMA StartKeeps ==
    ASSUME AdmInv, NEW k \in Conns, A!Start(k)
    PROVE  AdmInv'
<1>1. /\ ConnsOK /\ SlotsOK /\ LockOK /\ AdmittedOK /\ ShutOK /\ ChosenOK
      /\ A!ServedIsAdmitted /\ A!UnpairedRefused /\ A!PairingNotDisplaced
  BY DEF AdmInv
<1>2. ad_conn[k].pc \in {"start", "wait"} /\ UNCHANGED <<ad_adm, ad_shut, ad_unp>>
  BY DEF A!Start
<1>3. ad_lock = k /\ ad_lock # Config /\ IsConn(ad_conn[k])
  BY <1>1, <1>2, AdmissionAssumption DEF LockOK, Held, ConnsOK
<1>4. Alone(k)
  BY <1>3, QueueIsAlone
<1>5. /\ ad_conn[k].live \in BOOLEAN /\ ad_conn[k].closing \in BOOLEAN /\ ad_conn[k].attempt \notin {"on", "save"}
      /\ (ad_conn[k].closing = TRUE => ad_conn[k].live = FALSE)
  BY <1>1, <1>2, <1>3 DEF ChosenOK, AdmittedOK, IsConn
<1> DEFINE p == IF ad_conn[k].live \/ ad_conn[k].closing THEN "run" ELSE "end"
           x == [ad_conn[k] EXCEPT !.pc = p, !.prev = None]
<1>6. ad_conn' = [ad_conn EXCEPT ![k] = x] /\ ad_lock' = None /\ ad_prov' \subseteq ad_prov /\ ad_open' \subseteq ad_open
  BY DEF A!Start, A!Leave
<1>7. p \in {"run", "end"} /\ (p = "run" <=> ad_conn[k].live = TRUE \/ ad_conn[k].closing = TRUE)
  BY <1>5
<1> HIDE DEF p
<1>8. /\ IsConn(x) /\ x.pc = p /\ x.closing = ad_conn[k].closing /\ x.attempt = ad_conn[k].attempt
      /\ x.live = ad_conn[k].live /\ x.psk = ad_conn[k].psk /\ x.act = ad_conn[k].act /\ x.mode = ad_conn[k].mode
  BY <1>3, <1>7 DEF IsConn, Pcs
<1> HIDE DEF x
<1>9. ConnsOK' /\ \A j \in Conns : ad_conn'[j] = IF j = k THEN x ELSE ad_conn[j]
  BY <1>1, <1>6, <1>8, OneChanges
<1>10. SlotsOK'
  BY <1>1, <1>6, SlotsShrink
<1>11. /\ \A j \in Conns \ {k} : ad_conn'[j] = ad_conn[j] /\ ad_conn'[j].pc \notin Held
       /\ ad_conn'[k].pc \in {"run", "end"} /\ ad_conn'[k].attempt \notin {"on", "save"}
  BY <1>4, <1>5, <1>7, <1>8, <1>9 DEF Alone
<1>12. \A j \in Conns : ad_conn'[j].pc \notin Held
  BY <1>11 DEF Held
<1>13. ad_adm = k \/ ad_adm = None \/ (ad_adm \in Conns \ {k} /\ ad_conn'[ad_adm] = ad_conn[ad_adm])
  BY <1>1, <1>11 DEF AdmittedOK
<1>14. (ad_conn[k].live \/ ad_conn[k].closing) <=> ad_adm = k
  BY <1>1, <1>2, AdmissionAssumption DEF AdmittedOK
<1>15. LockOK'
  BY <1>6, <1>12, AdmissionAssumption DEF LockOK
<1>16. AdmittedOK'
  <2>1. ad_adm # None => ad_conn'[ad_adm].pc \in {"oust", "wait", "start", "run"} /\ (ad_conn'[ad_adm].live \/ ad_conn'[ad_adm].closing)
    BY <1>1, <1>5, <1>7, <1>8, <1>9, <1>13, <1>14 DEF AdmittedOK
  <2>2. \A j \in Conns : ad_conn'[j].closing => ~ad_conn'[j].live
    BY <1>1, <1>5, <1>8, <1>9 DEF AdmittedOK
  <2>3. \A j \in Conns : ad_conn'[j].pc = "hs" => ~ad_conn'[j].live /\ ~ad_conn'[j].closing
    BY <1>1, <1>11 DEF AdmittedOK
  <2> QED
    BY <1>1, <1>2, <1>12, <2>1, <2>2, <2>3 DEF AdmittedOK, Held
<1>17. ShutOK'
  BY <1>2, <1>4 DEF ShutOK, Alone
<1>18. ChosenOK'
  BY <1>1, <1>11, <1>12 DEF ChosenOK, Held
<1>19. A!ServedIsAdmitted'
  <2> SUFFICES ASSUME NEW j \in Conns, j # k, ad_conn'[j].pc = "run", ad_conn'[j].live
        PROVE  ad_adm = j
    BY <1>2, <1>8, <1>9, <1>14 DEF A!ServedIsAdmitted
  <2>1. ad_conn[j].pc = "run" /\ ad_conn[j].live
    BY <1>11
  <2>2. ad_adm = j \/ \E i \in Conns : ad_conn[i].pc = "oust" /\ ad_conn[i].prev = j
    BY <1>1, <2>1 DEF A!ServedIsAdmitted
  <2>3. \A i \in Conns : ad_conn[i].pc # "oust"
    BY <1>2, <1>4 DEF Alone, Held
  <2> QED
    BY <2>2, <2>3
<1>20. A!UnpairedRefused'
  BY <1>1, <1>2, <1>3, <1>8, <1>9, <1>13 DEF A!UnpairedRefused, A!Relies
<1>21. A!PairingNotDisplaced'
  BY <1>12 DEF A!PairingNotDisplaced, Held
<1> QED
  BY <1>9, <1>10, <1>15, <1>16, <1>17, <1>18, <1>19, <1>20, <1>21 DEF AdmInv

LEMMA DismissKeeps ==
    ASSUME AdmInv, NEW k \in Conns, A!Dismiss(k)
    PROVE  AdmInv'
<1>1. /\ ConnsOK /\ SlotsOK /\ LockOK /\ AdmittedOK /\ ShutOK /\ ChosenOK
      /\ A!ServedIsAdmitted /\ A!UnpairedRefused /\ A!PairingNotDisplaced
  BY DEF AdmInv
<1> DEFINE p == ad_conn[k].prev
           q == IF ad_conn[p].live THEN "wait" ELSE "start"
           x == [ad_conn[k] EXCEPT !.pc = q]
           y == IF ad_conn[p].live THEN A!Closing(ad_conn[p]) ELSE ad_conn[p]
<1>2. ad_conn[k].pc = "oust" /\ UNCHANGED <<ad_adm, ad_lock, ad_shut, ad_unp, ad_open, ad_prov>>
  BY DEF A!Dismiss
<1>3. ad_lock = k /\ IsConn(ad_conn[k]) /\ p \in Conns /\ p # k
  BY <1>1, <1>2, AdmissionAssumption DEF LockOK, Held, ConnsOK, AdmittedOK
<1>4. ad_conn' = [ad_conn EXCEPT ![k].pc = q, ![p] = IF @.live THEN A!Closing(@) ELSE @]
  BY DEF A!Dismiss
<1>5. q \in {"wait", "start"}
  OBVIOUS
<1>6. IsConn(ad_conn[p]) /\ Alone(k) /\ DOMAIN ad_conn = Conns
  BY <1>1, <1>3, QueueIsAlone DEF ConnsOK
<1> HIDE DEF p, q
<1>7. ad_conn' = [j \in Conns |-> IF j = k THEN x ELSE IF j = p THEN y ELSE ad_conn[j]]
  BY <1>3, <1>4, <1>6
<1>8. /\ IsConn(x) /\ x.pc = q /\ x.closing = ad_conn[k].closing /\ x.attempt = ad_conn[k].attempt /\ x.prev = p
      /\ x.live = ad_conn[k].live /\ x.psk = ad_conn[k].psk /\ x.act = ad_conn[k].act /\ x.mode = ad_conn[k].mode
  BY <1>3, <1>5 DEF IsConn, Pcs, Held, p
<1>9. /\ IsConn(A!Closing(ad_conn[p])) /\ A!Closing(ad_conn[p]).live = FALSE /\ A!Closing(ad_conn[p]).closing = TRUE
      /\ A!Closing(ad_conn[p]).attempt = "no" /\ A!Closing(ad_conn[p]).pc = ad_conn[p].pc
  BY <1>6, ClosingIs
<1>10. ad_conn[p].live \in BOOLEAN /\ (ad_conn[p].closing = TRUE => ad_conn[p].live = FALSE)
  BY <1>1, <1>3, <1>6 DEF AdmittedOK, IsConn
<1>11. /\ IsConn(y) /\ y.live = FALSE /\ y.pc = ad_conn[p].pc /\ (ad_conn[p].live \/ ad_conn[p].closing => y.closing)
       /\ (y.attempt = "no" /\ ad_conn[p].live = TRUE) \/ (y = ad_conn[p] /\ ad_conn[p].live = FALSE)
  BY <1>6, <1>9, <1>10
<1> HIDE DEF x, y
<1>12. \A j \in Conns : ad_conn'[j] = IF j = k THEN x ELSE IF j = p THEN y ELSE ad_conn[j]
  BY <1>7
<1>13. ConnsOK'
  <2>1. \A j \in Conns : IsConn(ad_conn'[j])
    BY <1>1, <1>8, <1>11, <1>12 DEF ConnsOK
  <2> QED
    BY <1>7, <2>1 DEF ConnsOK
<1>14. SlotsOK'
  BY <1>1, <1>2, SlotsShrink
<1>15. \A j \in Conns \ {k} : ad_conn'[j].pc = ad_conn[j].pc /\ ad_conn'[j].pc \notin Held
  BY <1>6, <1>11, <1>12 DEF Alone
<1>16. ad_conn'[k].pc \in {"wait", "start"} /\ ad_conn'[k] = x
  BY <1>5, <1>8, <1>12
<1>17. LockOK'
  BY <1>1, <1>2, <1>3, <1>15, <1>16 DEF LockOK, Held
<1>18. \A j \in Conns : /\ ad_conn'[j].pc = "run" => ad_conn[j].pc = "run"
                        /\ ad_conn'[j].live => ad_conn[j].live /\ j # p
                        /\ ad_conn'[j].live => ad_conn'[j].psk = ad_conn[j].psk /\ ad_conn'[j].act = ad_conn[j].act
                        /\ ad_conn[j].live \/ ad_conn[j].closing <=> ad_conn'[j].live \/ ad_conn'[j].closing
  <2> SUFFICES ASSUME NEW j \in Conns
        PROVE  /\ ad_conn'[j].pc = "run" => ad_conn[j].pc = "run"
               /\ ad_conn'[j].live => ad_conn[j].live /\ j # p
               /\ ad_conn'[j].live => ad_conn'[j].psk = ad_conn[j].psk /\ ad_conn'[j].act = ad_conn[j].act
               /\ ad_conn[j].live \/ ad_conn[j].closing <=> ad_conn'[j].live \/ ad_conn'[j].closing
    OBVIOUS
  <2>1. CASE j = k
    BY <1>3, <1>8, <1>16, <2>1
  <2>2. CASE j = p
    BY <1>3, <1>10, <1>11, <1>12, <2>2
  <2>3. CASE j # k /\ j # p
    BY <1>12, <2>3
  <2> QED
    BY <2>1, <2>2, <2>3
<1>19. AdmittedOK'
  <2>1. ad_adm # None => ad_conn'[ad_adm].pc \in {"oust", "wait", "start", "run"} /\ (ad_conn'[ad_adm].live \/ ad_conn'[ad_adm].closing)
    BY <1>1, <1>15, <1>16, <1>18 DEF AdmittedOK
  <2>2. \A j \in Conns : ad_conn'[j].pc \in {"oust", "wait", "start"} => j = k
    BY <1>15 DEF Held
  <2>3. ad_conn'[k].live \/ ad_conn'[k].closing => ad_adm = k
    BY <1>1, <1>2, <1>18 DEF AdmittedOK
  <2>4. ad_conn'[k].prev \in Conns \ {k}
    BY <1>3, <1>8, <1>16
  <2>5. \A j \in Conns : ad_conn'[j].closing => ~ad_conn'[j].live
    BY <1>1, <1>8, <1>11, <1>12 DEF AdmittedOK
  <2>6. \A j \in Conns : ad_conn'[j].pc = "hs" => ~ad_conn'[j].live /\ ~ad_conn'[j].closing
    BY <1>1, <1>15, <1>16, <1>18 DEF AdmittedOK
  <2> QED
    BY <1>1, <1>2, <2>1, <2>2, <2>3, <2>4, <2>5, <2>6 DEF AdmittedOK
<1>20. ShutOK'
  BY <1>2, <1>6 DEF ShutOK, Alone
<1>21. ChosenOK'
  <2>1. \A j \in Conns : ad_conn'[j].pc # "save"
    BY <1>15, <1>16 DEF Held
  <2>2. \A j \in Conns : ad_conn'[j].attempt \in {"on", "save"} => ad_conn'[j].live /\ ad_conn'[j].pc = "run"
    <3> SUFFICES ASSUME NEW j \in Conns, ad_conn'[j].attempt \in {"on", "save"}
          PROVE  ad_conn'[j].live /\ ad_conn'[j].pc = "run"
      OBVIOUS
    <3>1. CASE j = k
      BY <1>1, <1>2, <1>8, <1>16, <3>1 DEF ChosenOK
    <3>2. CASE j # k /\ j = p
      BY <1>1, <1>3, <1>11, <1>12, <3>2 DEF ChosenOK
    <3>3. CASE j # k /\ j # p
      BY <1>1, <1>12, <3>3 DEF ChosenOK
    <3> QED
      BY <3>1, <3>2, <3>3
  <2> QED
    BY <2>1, <2>2 DEF ChosenOK
<1>22. A!ServedIsAdmitted'
  <2> SUFFICES ASSUME NEW j \in Conns, ad_conn'[j].pc = "run", ad_conn'[j].live
        PROVE  ad_adm = j
    BY <1>2 DEF A!ServedIsAdmitted
  <2>1. ad_conn[j].pc = "run" /\ ad_conn[j].live /\ j # p
    BY <1>18
  <2>2. ad_adm = j \/ \E i \in Conns : ad_conn[i].pc = "oust" /\ ad_conn[i].prev = j
    BY <1>1, <2>1 DEF A!ServedIsAdmitted
  <2>3. \A i \in Conns : ad_conn[i].pc = "oust" => i = k
    BY <1>6 DEF Alone, Held
  <2> QED
    BY <2>1, <2>2, <2>3 DEF p
<1>23. A!UnpairedRefused'
  <2> SUFFICES ASSUME ad_adm # None, ad_conn'[ad_adm].live, ad_conn'[ad_adm].psk = 0, ad_conn'[ad_adm].act = "playback"
        PROVE  ad_unp
    BY <1>2 DEF A!UnpairedRefused, A!Relies
  <2>1. ad_conn[ad_adm].live /\ ad_conn[ad_adm].psk = 0 /\ ad_conn[ad_adm].act = "playback"
    BY <1>1, <1>18 DEF AdmittedOK
  <2> QED
    BY <1>1, <1>3, <2>1, AdmissionAssumption DEF A!UnpairedRefused, A!Relies
<1>24. A!PairingNotDisplaced'
  BY <1>15, <1>16 DEF A!PairingNotDisplaced, Held
<1> QED
  BY <1>13, <1>14, <1>17, <1>19, <1>20, <1>21, <1>22, <1>23, <1>24 DEF AdmInv

-----------------------------------------------------------------------------
LEMMA InitIs == A!Init => AdmInv
<1> SUFFICES ASSUME A!Init PROVE AdmInv
  OBVIOUS
<1>1. /\ ad_conn = [k \in Conns |-> A!NoConn] /\ ad_adm = None /\ ad_open = {} /\ ad_prov = {} /\ ad_lock = None /\ ad_shut = None
  BY DEF A!Init
<1>2. \A k \in Conns : ad_conn[k] = A!NoConn
  BY <1>1
<1>3. ConnsOK
  BY <1>1, <1>2, NoConnIs DEF ConnsOK
<1>4. SlotsOK
  <2>1. IsFiniteSet({}) /\ Cardinality({}) = 0
    BY FS_EmptySet
  <2>2. 0 < Capacity
    BY AdmissionAssumption DEF StoredABC
  <2> QED
    BY <1>1, <2>1, <2>2 DEF SlotsOK
<1>5. \A k \in Conns : /\ ad_conn[k].pc = "free" /\ ad_conn[k].attempt = "no" /\ ad_conn[k].closing = FALSE
                       /\ ad_conn[k].live = FALSE
  BY <1>2, NoConnIs
<1>6. LockOK /\ AdmittedOK /\ ShutOK
  BY <1>1, <1>5, AdmissionAssumption DEF LockOK, AdmittedOK, ShutOK, Held
<1>7. ChosenOK
  BY <1>5 DEF ChosenOK
<1>8. A!ServedIsAdmitted /\ A!UnpairedRefused /\ A!PairingNotDisplaced
  BY <1>1, <1>5 DEF A!ServedIsAdmitted, A!UnpairedRefused, A!PairingNotDisplaced
<1> QED
  BY <1>3, <1>4, <1>6, <1>7, <1>8 DEF AdmInv

LEMMA NextKeeps ==
    ASSUME AdmInv, [A!Next]_(A!vars)
    PROVE  AdmInv'
<1>1. CASE \E k \in Conns, sv \in Servers : \E mode \in MCModes[sv] : A!Arrive(k, sv, mode)
  BY <1>1, ArriveKeeps
<1>2. CASE \E k \in Conns : A!Resolve(k) \/ A!HandshakeDone(k) \/ A!HandshakeFails(k) \/ A!BringUpFails(k)
  BY <1>2, ResolveKeeps, HandshakeDoneKeeps, HandshakeFailsKeeps, BringUpFailsKeeps
<1>3. CASE \E k \in Conns, a \in A!Activations : A!FirstActivate(k, a)
  BY <1>3, FirstActivateKeeps
<1>4. CASE \E k \in Conns : A!Acquire(k) \/ A!Saved(k) \/ A!Dropped(k) \/ A!Dismiss(k) \/ A!Start(k)
  BY <1>4, AcquireKeeps, SavedKeeps, DroppedKeeps, DismissKeeps, StartKeeps
<1>5. CASE \E k \in Conns : A!Forget(k) \/ A!FinishClose(k)
  BY <1>5, ForgetKeeps, FinishCloseKeeps
<1>6. CASE \E keep \in ad_sweeps : A!Sweep(keep)
  BY <1>6, SweepKeeps
<1>7. CASE \E k \in Conns, a \in A!Activations : A!ServerActivate(k, a)
  BY <1>7, ServerActivateKeeps
<1>8. CASE \E k \in Conns : A!Noted(k) \/ A!BeginAttempt(k) \/ A!EndAttempt(k) \/ A!Acknowledged(k) \/ A!Recorded(k)
  BY <1>8, NotedKeeps, BeginAttemptKeeps, EndAttemptKeeps, AcknowledgedKeeps, RecordedKeeps
<1>9. CASE \E k \in Conns, r \in A!Ids(ad_recs) \cup {0}, a \in A!Activations : A!Rehandshake(k, r, a)
  BY <1>9, RehandshakeKeeps
<1>10. CASE \E k \in Conns : A!ServerUnpairs(k) \/ A!Lost(k)
  BY <1>10, ServerUnpairsKeeps, LostKeeps
<1>11. CASE \E b \in BOOLEAN : A!SetUnpaired(b)
  BY <1>11, SetUnpairedKeeps
<1>12. CASE A!ConfigSaved \/ A!ClientDisconnect
  BY <1>12, ConfigSavedKeeps, ClientDisconnectKeeps
<1>13. CASE UNCHANGED A!vars
  <2>1. UNCHANGED <<ad_conn, ad_adm, ad_open, ad_prov, ad_lock, ad_shut, ad_unp>>
    BY <1>13 DEF A!vars
  <2> QED
    BY <2>1, StillKeeps
<1> QED
  BY <1>1, <1>2, <1>3, <1>4, <1>5, <1>6, <1>7, <1>8, <1>9, <1>10, <1>11, <1>12, <1>13 DEF A!Next

-----------------------------------------------------------------------------
\* The inductive invariant holds: who holds the lock is inside admission, who is admitted is on
\* the way to be served, and whoever was chosen before its playback was written down may still be
\* served after it (_admit_connection, _should_admit_connection, set_unpaired_access).
THEOREM AdmInvHolds == MCSpec => []AdmInv
<1>1. MCInit => AdmInv
  BY InitIs DEF MCInit
<1>2. AdmInv /\ [MCNext]_<<which, vars, admission>> => AdmInv'
  <2> SUFFICES ASSUME AdmInv, [MCNext]_<<which, vars, admission>>
        PROVE  AdmInv'
    OBVIOUS
  <2>1. CASE A!Next
    BY <2>1, NextKeeps
  <2>2. CASE UNCHANGED admission
    <3>1. UNCHANGED <<ad_conn, ad_adm, ad_open, ad_prov, ad_lock, ad_shut, ad_unp>>
      BY <2>2 DEF admission
    <3> QED
      BY <3>1, StillKeeps
  <2> QED
    BY <2>1, <2>2 DEF MCNext
<1> QED
  BY <1>1, <1>2, PTL DEF MCSpec

\* No server is served that was not admitted, none that is unpaired while unpaired access is off,
\* and a server that pairs is displaced only by one that was chosen before; fewer connections hold
\* a slot than the store has room for, and the lock's holder is inside admission (_admit_connection,
\* _refuse_unpaired_access, _should_admit_connection, _claim_connection_slot).
THEOREM AdmissionIsSound == MCSpec => []AdmissionSound
<1>1. AdmInv => AdmissionSound
  <2> SUFFICES ASSUME AdmInv PROVE AdmissionSound
    OBVIOUS
  <2>1. A!TypeOK
    BY CardinalityIs DEF AdmInv, SlotsOK, LockOK, AdmittedOK, ShutOK, Held, A!TypeOK
  <2>2. A!ServedIsAdmitted /\ A!UnpairedRefused /\ A!PairingNotDisplaced
    BY DEF AdmInv
  <2> QED
    BY <2>1, <2>2 DEF AdmissionSound
<1> QED
  BY <1>1, AdmInvHolds, PTL

-----------------------------------------------------------------------------
(* The store: the inductive invariant.                                       *)

\* Records in a row, no two of them with one id.
IsSeq(rs) == rs \in Seq({rs[i] : i \in DOMAIN rs})
Distinct(rs) == \A i, j \in DOMAIN rs : rs[i].id = rs[j].id => i = j
Store(rs) == IsSeq(rs) /\ Distinct(rs)
RecsOf(rs) == {rs[i] : i \in DOMAIN rs}

\* Ids are given out in turn.
RecordsOK == Store(ad_recs) /\ ad_made \in Nat /\ A!Ids(ad_recs) \subseteq 1..ad_made

\* What a connection holds of the store at its place: a record found and one run on, and an attempt
\* only without one.
Fits(x) ==
    /\ x.live => x.pc \notin {"free", "hs", "drop", "end"} /\ ~x.closing
    /\ x.pc = "hs" => x.psk = 0 /\ x.act = "none" /\ ~x.closing
    /\ x.res # 0 => x.pc = "hs"
    /\ x.psk # 0 => x.live \/ x.closing
    /\ x.live /\ x.psk # 0 => x.act # "pairing"
    /\ x.attempt \in {"on", "save"} => x.live /\ x.psk = 0 /\ x.act = "pairing"
    /\ x.late \in BOOLEAN

Within(x, m) == x.psk \in 0..m /\ x.res \in 0..m /\ x.prot \subseteq 1..m

\* The slots of the connections that are up: who holds a record is among those that protect it.
SlotOK(k) == (ad_conn[k].live => k \in ad_open) /\ (ad_conn[k].pc = "hs" => k \in ad_prov)

LinksOK == \A k \in Conns : Fits(ad_conn[k]) /\ Within(ad_conn[k], ad_made) /\ SlotOK(k)

\* Records that no removal already decided will take, and those a server had removed.
Stays ==
    {r \in A!Ids(ad_recs) \cup ad_gone :
        /\ \A keep \in ad_sweeps : r \in keep
        /\ \A j \in Conns : ad_conn[j].attempt = "save" => r \in ad_conn[j].prot}

UsedOK ==
    \A k \in Conns : ~ad_conn[k].late =>
        /\ ad_conn[k].live /\ ad_conn[k].psk # 0 => ad_conn[k].psk \in Stays
        /\ ad_conn[k].res # 0 => ad_conn[k].res \in Stays

\* A connection that is up, or found the record, has its close or its failure still to come.
Holds(x, r) == x.live \/ x.closing \/ x.res = r

LeftOK ==
    \A r \in A!Superseded(ad_recs) :
        r \in ad_failed \/ (\E keep \in ad_sweeps : r \notin keep) \/ \E k \in Conns : Holds(ad_conn[k], r)

RoomOK == ad_cut \in Nat /\ A!CapacityKept

StoreInv == RecordsOK /\ LinksOK /\ UsedOK /\ LeftOK /\ RoomOK

-----------------------------------------------------------------------------
(* Records at positions.                                                     *)

\* How many positions of ps are not after i.
Rank(ps, i) == Cardinality({h \in ps : h <= i})

LEMMA UpToIs == \A ps, i : A!UpTo(ps, i) = Rank(ps, i)
BY CardinalityIs DEF A!UpTo, Rank

LEMMA RankGrows ==
    ASSUME NEW N \in Nat, NEW ps \in SUBSET (1..N)
    PROVE  /\ IsFiniteSet(ps) /\ Cardinality(ps) \in Nat
           /\ \A i \in ps : Rank(ps, i) \in 1..Cardinality(ps)
           /\ \A i, j \in ps : i < j => Rank(ps, i) < Rank(ps, j)
<1>1. IsFiniteSet(1..N)
  BY FS_Interval
<1>2. IsFiniteSet(ps)
  BY <1>1, FS_Subset
<1>3. Cardinality(ps) \in Nat
  BY <1>2, FS_CardinalityType
<1>4. \A i : IsFiniteSet({h \in ps : h <= i}) /\ Rank(ps, i) \in Nat /\ Rank(ps, i) <= Cardinality(ps)
  <2> TAKE i
  <2>1. {h \in ps : h <= i} \in SUBSET ps
    OBVIOUS
  <2> QED
    BY <1>2, <2>1, FS_Subset, FS_CardinalityType DEF Rank
<1>5. ASSUME NEW i \in ps PROVE Rank(ps, i) >= 1
  <2> DEFINE S == {h \in ps : h <= i}
  <2>1. i \in S
    OBVIOUS
  <2>2. IsFiniteSet(S) /\ Rank(ps, i) = Cardinality(S)
    BY <1>4 DEF Rank
  <2>3. Cardinality(S) # 0
    BY <2>1, <2>2, FS_EmptySet
  <2> QED
    BY <1>4, <2>2, <2>3
<1>6. ASSUME NEW i \in ps, NEW j \in ps, i < j PROVE Rank(ps, i) < Rank(ps, j)
  <2> DEFINE S == {h \in ps : h <= i}
             T == {h \in ps : h <= j}
  <2>0. i \in Int /\ j \in Int /\ i < j
    BY <1>6
  <2>3. \A h \in ps : h <= i => h <= j
    <3> SUFFICES ASSUME NEW h \in ps, h <= i PROVE h <= j
      OBVIOUS
    <3>1. h \in Int
      OBVIOUS
    <3> QED
      BY <2>0, <3>1
  <2>4. j <= j /\ ~(j <= i)
    BY <2>0
  <2>1. S \in SUBSET T /\ j \in T /\ j \notin S
    BY <2>3, <2>4
  <2>2. IsFiniteSet(T) /\ Rank(ps, j) = Cardinality(T) /\ Rank(ps, i) = Cardinality(S)
    BY <1>4 DEF Rank
  <2>5. Cardinality(S) <= Cardinality(T) /\ Cardinality(S) # Cardinality(T)
    BY <2>1, <2>2, FS_Subset
  <2>6. Rank(ps, i) \in Nat /\ Rank(ps, j) \in Nat
    BY <1>4
  <2> HIDE DEF S, T
  <2> QED
    BY <2>2, <2>5, <2>6
<1>7. \A i \in ps : Rank(ps, i) \in 1..Cardinality(ps)
  <2> TAKE i \in ps
  <2>1. Rank(ps, i) \in Nat /\ Rank(ps, i) <= Cardinality(ps)
    BY <1>4
  <2>2. Rank(ps, i) >= 1
    BY <1>5
  <2> QED
    BY <1>3, <2>1, <2>2
<1> QED
  BY <1>2, <1>3, <1>6, <1>7

LEMMA RankBijects ==
    ASSUME NEW N \in Nat, NEW ps \in SUBSET (1..N)
    PROVE  \A n \in 1..Cardinality(ps) : \E i \in ps : Rank(ps, i) = n
<1> DEFINE f == [i \in ps |-> Rank(ps, i)]
           T == 1..Cardinality(ps)
<1>1. /\ IsFiniteSet(ps) /\ Cardinality(ps) \in Nat
      /\ \A i \in ps : Rank(ps, i) \in T
      /\ \A i, j \in ps : i < j => Rank(ps, i) < Rank(ps, j)
  BY RankGrows
<1>2. IsFiniteSet(T) /\ Cardinality(T) = Cardinality(ps)
  BY <1>1, FS_Interval
<1>3. \A i, j \in ps : Rank(ps, i) = Rank(ps, j) => i = j
  BY <1>1
<1>4. f \in [ps -> T]
  BY <1>1
<1> HIDE DEF T
<1>5. f \in Injection(ps, T)
  BY <1>3, <1>4 DEF Injection, IsInjective
<1>6. f \in Surjection(ps, T)
  BY <1>2, <1>5, FS_Injection
<1>7. \A n \in T : \E i \in ps : f[i] = n
  BY <1>6 DEF Surjection
<1> QED
  BY <1>7 DEF T

LEMMA RankCounts ==
    ASSUME NEW N \in Nat, NEW ps \in SUBSET (1..N), NEW m \in Nat, m <= Cardinality(ps)
    PROVE  Cardinality({i \in ps : Rank(ps, i) <= m}) = m
<1> DEFINE S == {i \in ps : Rank(ps, i) <= m}
           f == [i \in S |-> Rank(ps, i)]
<1>1. /\ IsFiniteSet(ps) /\ Cardinality(ps) \in Nat
      /\ \A i \in ps : Rank(ps, i) \in 1..Cardinality(ps)
      /\ \A i, j \in ps : i < j => Rank(ps, i) < Rank(ps, j)
  BY RankGrows
<1>2. \A n \in 1..m : \E i \in ps : Rank(ps, i) = n
  BY <1>1, RankBijects
<1>3. \A i \in S : Rank(ps, i) \in 1..m
  BY <1>1
<1>4. f \in [S -> 1..m]
  BY <1>3
<1>5. \A n \in 1..m : \E i \in S : f[i] = n
  BY <1>2
<1>6. \A i, j \in S : f[i] = f[j] => i = j
  BY <1>1
<1> HIDE DEF f
<1>7. IsFiniteSet(S)
  <2>1. S \in SUBSET ps
    OBVIOUS
  <2> QED
    BY <1>1, <2>1, FS_Subset
<1> HIDE DEF S
<1>8. f \in Surjection(S, 1..m) /\ f \in Injection(S, 1..m)
  BY <1>4, <1>5, <1>6 DEF Surjection, Injection, IsInjective
<1>9. f \in Bijection(S, 1..m)
  BY <1>8 DEF Bijection
<1>10. Cardinality(1..m) = Cardinality(S)
  BY <1>7, <1>9, FS_Bijection DEF ExistsBijection
<1>11. Cardinality(1..m) = m
  BY FS_Interval
<1> QED
  BY <1>10, <1>11 DEF S

LEMMA SeqIs ==
    ASSUME NEW rs, IsSeq(rs)
    PROVE  /\ Len(rs) \in Nat /\ DOMAIN rs = 1..Len(rs)
BY DEF IsSeq

LEMMA UpToN ==
    ASSUME NEW n \in Nat
    PROVE  IsFiniteSet(1..n) /\ Cardinality(1..n) = n
<1>1. IsFiniteSet(1..n) /\ Cardinality(1..n) = IF 1 > n THEN 0 ELSE n - 1 + 1
  BY FS_Interval
<1> QED
  BY <1>1

LEMMA AtIs ==
    ASSUME NEW rs, IsSeq(rs), NEW ps \in SUBSET (DOMAIN rs)
    PROVE  LET at == A!At(rs, ps)
           IN  /\ IsSeq(at) /\ Len(at) = Cardinality(ps) /\ DOMAIN at = 1..Cardinality(ps)
               /\ \A n \in DOMAIN at : \E i \in ps : Rank(ps, i) = n /\ at[n] = rs[i]
               /\ \A i \in ps : Rank(ps, i) \in DOMAIN at /\ at[Rank(ps, i)] = rs[i]
<1> DEFINE at == A!At(rs, ps)
           pick(n) == CHOOSE i \in ps : A!UpTo(ps, i) = n
<1>1. Len(rs) \in Nat /\ ps \in SUBSET (1..Len(rs))
  BY SeqIs
<1>2. /\ IsFiniteSet(ps) /\ Cardinality(ps) \in Nat
      /\ \A i \in ps : Rank(ps, i) \in 1..Cardinality(ps)
      /\ \A i, j \in ps : i < j => Rank(ps, i) < Rank(ps, j)
  BY <1>1, RankGrows
<1>3. \A n \in 1..Cardinality(ps) : \E i \in ps : Rank(ps, i) = n
  BY <1>1, RankBijects
<1>4. at = [n \in 1..Cardinality(ps) |-> rs[pick(n)]]
  <2>1. at = [n \in 1..A!Cardinality(ps) |-> rs[pick(n)]]
    BY DEF A!At
  <2> QED
    BY <2>1, CardinalityIs
<1>5. \A n \in 1..Cardinality(ps) : pick(n) \in ps /\ Rank(ps, pick(n)) = n
  <2>1. \A n \in 1..Cardinality(ps) : \E i \in ps : A!UpTo(ps, i) = n
    BY <1>3, UpToIs
  <2>2. \A n \in 1..Cardinality(ps) : pick(n) \in ps /\ A!UpTo(ps, pick(n)) = n
    BY <2>1
  <2> QED
    BY <2>2, UpToIs
<1> HIDE DEF at, pick
<1>6. DOMAIN at = 1..Cardinality(ps) /\ \A n \in 1..Cardinality(ps) : at[n] = rs[pick(n)]
  BY <1>4
<1>7. \A i \in ps : pick(Rank(ps, i)) = i
  <2> TAKE i \in ps
  <2> DEFINE j == pick(Rank(ps, i))
  <2>1. j \in ps /\ Rank(ps, j) = Rank(ps, i)
    BY <1>2, <1>5
  <2>2. i \in Int /\ j \in Int
    BY <1>1, <2>1
  <2>3. Rank(ps, i) \in Int
    BY <1>2
  <2> HIDE DEF j
  <2>4. ~(i < j) /\ ~(j < i)
    BY <1>2, <2>1, <2>3
  <2>5. j = i
    BY <2>2, <2>4
  <2> QED
    BY <2>5 DEF j
<1>8. at \in [1..Cardinality(ps) -> RecsOf(at)]
  <2>1. at = [n \in 1..Cardinality(ps) |-> at[n]]
    BY <1>4, <1>6
  <2>2. \A n \in 1..Cardinality(ps) : at[n] \in RecsOf(at)
    BY <1>6 DEF RecsOf
  <2> QED
    BY <2>1, <2>2
<1>9. at \in Seq(RecsOf(at)) /\ Len(at) = Cardinality(ps)
  BY <1>2, <1>8
<1>10. IsSeq(at)
  BY <1>9 DEF IsSeq, RecsOf
<1>11. \A n \in DOMAIN at : \E i \in ps : Rank(ps, i) = n /\ at[n] = rs[i]
  BY <1>5, <1>6
<1>12. \A i \in ps : Rank(ps, i) \in DOMAIN at /\ at[Rank(ps, i)] = rs[i]
  BY <1>2, <1>6, <1>7
<1> QED
  BY <1>6, <1>9, <1>10, <1>11, <1>12 DEF at

\* Picking records at positions keeps them distinct.
LEMMA AtKeeps ==
    ASSUME NEW rs, Store(rs), NEW ps \in SUBSET (DOMAIN rs)
    PROVE  LET at == A!At(rs, ps)
           IN  /\ Store(at) /\ Len(at) = Cardinality(ps) /\ Len(at) <= Len(rs)
               /\ RecsOf(at) = {rs[i] : i \in ps}
<1> DEFINE at == A!At(rs, ps)
<1>1. /\ IsSeq(at) /\ Len(at) = Cardinality(ps) /\ DOMAIN at = 1..Cardinality(ps)
      /\ \A n \in DOMAIN at : \E i \in ps : Rank(ps, i) = n /\ at[n] = rs[i]
      /\ \A i \in ps : Rank(ps, i) \in DOMAIN at /\ at[Rank(ps, i)] = rs[i]
  BY AtIs DEF Store
<1>2. Len(rs) \in Nat /\ DOMAIN rs = 1..Len(rs)
  BY SeqIs DEF Store
<1>3. Cardinality(ps) <= Len(rs)
  <2>1. IsFiniteSet(1..Len(rs)) /\ Cardinality(1..Len(rs)) = Len(rs)
    BY <1>2, UpToN
  <2> QED
    BY <1>2, <2>1, FS_Subset
<1> HIDE DEF at
<1>4. Distinct(at)
  <2> SUFFICES ASSUME NEW m \in DOMAIN at, NEW n \in DOMAIN at, at[m].id = at[n].id PROVE m = n
    BY DEF Distinct
  <2>1. PICK i \in ps : Rank(ps, i) = m /\ at[m] = rs[i]
    BY <1>1
  <2>2. PICK j \in ps : Rank(ps, j) = n /\ at[n] = rs[j]
    BY <1>1
  <2>3. i = j
    BY <2>1, <2>2 DEF Store, Distinct
  <2> QED
    BY <2>1, <2>2, <2>3
<1>5. RecsOf(at) = {rs[i] : i \in ps}
  <2>1. \A r \in RecsOf(at) : r \in {rs[i] : i \in ps}
    BY <1>1 DEF RecsOf
  <2>2. \A i \in ps : rs[i] \in RecsOf(at)
    <3> TAKE i \in ps
    <3>1. Rank(ps, i) \in DOMAIN at /\ at[Rank(ps, i)] = rs[i]
      BY <1>1
    <3> QED
      BY <3>1 DEF RecsOf
  <2> QED
    BY <2>1, <2>2
<1> QED
  BY <1>1, <1>3, <1>4, <1>5 DEF at, Store

\* What matters of a store: which records it has.
LEMMA IdsOf == \A rs : A!Ids(rs) = {r.id : r \in RecsOf(rs)}
BY DEF A!Ids, RecsOf

LEMMA SupersededOf ==
    \A rs, ss : RecsOf(rs) \subseteq RecsOf(ss) => A!Superseded(rs) \subseteq A!Superseded(ss)
<1> SUFFICES ASSUME NEW rs, NEW ss, RecsOf(rs) \subseteq RecsOf(ss), NEW r \in A!Superseded(rs)
             PROVE  r \in A!Superseded(ss)
  OBVIOUS
<1>1. PICK i \in DOMAIN rs, j \in DOMAIN rs : rs[i].id = r /\ rs[j].srv = rs[i].srv /\ rs[j].id > r
  BY DEF A!Superseded
<1>2. rs[i] \in RecsOf(ss) /\ rs[j] \in RecsOf(ss)
  BY DEF RecsOf
<1>3. PICK m \in DOMAIN ss : ss[m] = rs[i]
  BY <1>2 DEF RecsOf
<1>4. PICK n \in DOMAIN ss : ss[n] = rs[j]
  BY <1>2 DEF RecsOf
<1>5. ss[m].id = r /\ ss[n].srv = ss[m].srv /\ ss[n].id > r
  BY <1>1, <1>3, <1>4
<1>6. r \in A!Ids(ss)
  BY <1>5 DEF A!Ids
<1> QED
  BY <1>5, <1>6 DEF A!Superseded

LEMMA WithoutIs ==
    ASSUME NEW rs, Store(rs), NEW ids
    PROVE  LET w == A!Without(rs, ids)
           IN  /\ Store(w) /\ Len(w) <= Len(rs)
               /\ RecsOf(w) = {r \in RecsOf(rs) : r.id \notin ids}
               /\ A!Ids(w) = A!Ids(rs) \ ids
<1> DEFINE ps == {i \in DOMAIN rs : rs[i].id \notin ids}
           w == A!Without(rs, ids)
<1>1. ps \in SUBSET (DOMAIN rs)
  OBVIOUS
<1>2. w = A!At(rs, ps)
  BY DEF A!Without
<1> HIDE DEF w
<1>3. Store(w) /\ Len(w) <= Len(rs) /\ RecsOf(w) = {rs[i] : i \in ps}
  BY <1>1, <1>2, AtKeeps
<1>4. RecsOf(w) = {r \in RecsOf(rs) : r.id \notin ids}
  BY <1>3 DEF RecsOf
<1>5. A!Ids(w) = A!Ids(rs) \ ids
  <2>1. A!Ids(w) = {r.id : r \in RecsOf(w)} /\ A!Ids(rs) = {r.id : r \in RecsOf(rs)}
    BY IdsOf
  <2> QED
    BY <1>4, <2>1
<1> QED
  BY <1>3, <1>4, <1>5 DEF w

LEMMA AppendIs ==
    ASSUME NEW rs, Store(rs), NEW x, x.id \notin A!Ids(rs)
    PROVE  LET a == Append(rs, x)
           IN  /\ Store(a) /\ Len(a) = Len(rs) + 1
               /\ RecsOf(a) = RecsOf(rs) \cup {x} /\ A!Ids(a) = A!Ids(rs) \cup {x.id}
<1> DEFINE S == RecsOf(rs)
           T == S \cup {x}
           a == Append(rs, x)
<1>1. rs \in Seq(S) /\ rs \in Seq(T) /\ Len(rs) \in Nat /\ DOMAIN rs = 1..Len(rs)
  <2>1. rs \in Seq(S)
    BY DEF Store, IsSeq, RecsOf
  <2> HIDE DEF S
  <2> QED
    BY <2>1
<1>2. /\ a \in Seq(T) /\ Len(a) = Len(rs) + 1 /\ DOMAIN a = 1..Len(rs) + 1
      /\ \A i \in 1..Len(rs) : a[i] = rs[i] /\ a[Len(rs) + 1] = x
  <2> HIDE DEF S
  <2> QED
    BY <1>1
<1>3. a[Len(rs) + 1] = x
  <2> HIDE DEF S
  <2> QED
    BY <1>1
<1> HIDE DEF a
<1>4. RecsOf(a) = RecsOf(rs) \cup {x}
  <2>1. \A i \in DOMAIN a : i \in DOMAIN rs \/ i = Len(rs) + 1
    BY <1>1, <1>2
  <2>2. \A i \in DOMAIN rs : i \in DOMAIN a /\ a[i] = rs[i]
    BY <1>1, <1>2
  <2>3. Len(rs) + 1 \in DOMAIN a
    BY <1>1, <1>2
  <2> QED
    BY <1>3, <2>1, <2>2, <2>3 DEF RecsOf
<1>5. IsSeq(a)
  <2>1. a \in Seq(RecsOf(a))
    BY <1>2, <1>4
  <2> QED
    BY <2>1 DEF IsSeq, RecsOf
<1>6. Distinct(a)
  <2> SUFFICES ASSUME NEW m \in DOMAIN a, NEW n \in DOMAIN a, a[m].id = a[n].id PROVE m = n
    BY DEF Distinct
  <2>1. \A i \in DOMAIN rs : rs[i].id # x.id
    BY DEF A!Ids
  <2>2. (m \in DOMAIN rs /\ a[m] = rs[m]) \/ (m = Len(rs) + 1 /\ a[m] = x)
    BY <1>1, <1>2, <1>3
  <2>3. (n \in DOMAIN rs /\ a[n] = rs[n]) \/ (n = Len(rs) + 1 /\ a[n] = x)
    BY <1>1, <1>2, <1>3
  <2> QED
    BY <2>1, <2>2, <2>3 DEF Store, Distinct
<1>7. A!Ids(a) = A!Ids(rs) \cup {x.id}
  <2>1. A!Ids(a) = {r.id : r \in RecsOf(a)} /\ A!Ids(rs) = {r.id : r \in RecsOf(rs)}
    BY IdsOf
  <2> QED
    BY <1>4, <2>1
<1> QED
  BY <1>2, <1>4, <1>5, <1>6, <1>7 DEF a, Store

LEMMA UsedIs ==
    ASSUME NEW rs, Store(rs), NEW id
    PROVE  LET u == A!Used(rs, id)
           IN  /\ Store(u) /\ Len(u) = Len(rs) /\ RecsOf(u) = RecsOf(rs) /\ A!Ids(u) = A!Ids(rs)
<1>1. CASE id \notin A!Ids(rs)
  BY <1>1 DEF A!Used
<1>2. CASE id \in A!Ids(rs)
  <2> DEFINE u == A!Used(rs, id)
             x == CHOOSE r \in RecsOf(rs) : r.id = id
             ps == {i \in DOMAIN rs : rs[i].id \notin {id}}
             w == A!Without(rs, {id})
  <2>1. u = Append(w, x)
    BY <1>2 DEF A!Used, RecsOf
  <2>2. x \in RecsOf(rs) /\ x.id = id
    BY <1>2, IdsOf
  <2> HIDE DEF x
  <2>3. Store(w) /\ RecsOf(w) = {r \in RecsOf(rs) : r.id \notin {id}} /\ A!Ids(w) = A!Ids(rs) \ {id}
    BY WithoutIs
  <2>4. Len(w) = Len(rs) - 1
    <3>1. Len(rs) \in Nat /\ DOMAIN rs = 1..Len(rs)
      BY SeqIs DEF Store
    <3>2. PICK n \in DOMAIN rs : rs[n] = x
      BY <2>2 DEF RecsOf
    <3>3. ps = (1..Len(rs)) \ {n}
      BY <2>2, <3>1, <3>2 DEF Store, Distinct
    <3>4. Cardinality(ps) = Len(rs) - 1
      <4>1. IsFiniteSet(1..Len(rs)) /\ Cardinality(1..Len(rs)) = Len(rs)
        BY <3>1, UpToN
      <4>2. n \in 1..Len(rs)
        BY <3>1
      <4>3. Cardinality((1..Len(rs)) \ {n}) = Len(rs) - 1
        BY <4>1, <4>2, FS_RemoveElement
      <4> HIDE DEF ps
      <4> QED
        BY <3>3, <4>3
    <3>5. w = A!At(rs, ps) /\ ps \in SUBSET (DOMAIN rs)
      BY DEF A!Without
    <3> HIDE DEF w, ps
    <3> QED
      BY <3>4, <3>5, AtKeeps
  <2> HIDE DEF w
  <2>5. Store(u) /\ Len(u) = Len(w) + 1 /\ RecsOf(u) = RecsOf(w) \cup {x} /\ A!Ids(u) = A!Ids(w) \cup {id}
    BY <2>1, <2>2, <2>3, AppendIs
  <2>6. \A r \in RecsOf(rs) : r.id = id => r = x
    BY <2>2 DEF Store, Distinct, RecsOf
  <2>7. RecsOf(u) = RecsOf(rs)
    BY <2>2, <2>3, <2>5, <2>6
  <2>8. A!Ids(u) = A!Ids(rs)
    BY <1>2, <2>3, <2>5
  <2>9. Len(rs) \in Nat
    BY SeqIs DEF Store
  <2> HIDE DEF u
  <2> QED
    BY <2>4, <2>5, <2>7, <2>8, <2>9 DEF u
<1> QED
  BY <1>1, <1>2

\* The store names as many records as it has.
LEMMA DistinctIs ==
    ASSUME NEW rs, Store(rs)
    PROVE  IsFiniteSet(A!Ids(rs)) /\ Cardinality(A!Ids(rs)) = Len(rs)
<1> DEFINE f == [i \in DOMAIN rs |-> rs[i].id]
           S == A!Ids(rs)
<1>1. Len(rs) \in Nat /\ DOMAIN rs = 1..Len(rs)
  BY SeqIs DEF Store
<1>2. f \in [DOMAIN rs -> S] /\ \A r \in S : \E i \in DOMAIN rs : f[i] = r
  BY DEF A!Ids
<1>3. \A i, j \in DOMAIN rs : f[i] = f[j] => i = j
  BY DEF Store, Distinct
<1> HIDE DEF f, S
<1>4. f \in Bijection(1..Len(rs), S)
  BY <1>1, <1>2, <1>3 DEF Bijection, Injection, Surjection, IsInjective
<1>5. IsFiniteSet(1..Len(rs)) /\ Cardinality(1..Len(rs)) = Len(rs)
  BY <1>1, UpToN
<1> QED
  BY <1>4, <1>5, FS_Bijection DEF ExistsBijection, S

\* What _evict_over_capacity leaves: all that is protected, and no more than there is room for but what is.
LEMMA TrimmedIs ==
    ASSUME NEW rs, Store(rs), NEW keep, IsFiniteSet(keep)
    PROVE  LET t == A!Trimmed(rs, keep)
           IN  /\ Store(t) /\ RecsOf(t) \subseteq RecsOf(rs) /\ A!Ids(rs) \cap keep \subseteq A!Ids(t)
               /\ Len(t) <= Capacity \/ Len(t) <= Cardinality(keep)
<1> DEFINE t == A!Trimmed(rs, keep)
           ev == {i \in DOMAIN rs : rs[i].id \notin keep}
           over == Len(rs) - Capacity
           ps == {i \in DOMAIN rs : i \in ev => Rank(ev, i) > over}
           cutoff == {i \in ev : Rank(ev, i) <= over}
<1>1. Len(rs) \in Nat /\ DOMAIN rs = 1..Len(rs) /\ Capacity \in Nat
  BY SeqIs, AdmissionAssumption DEF Store
<1>2. t = A!At(rs, ps)
  BY UpToIs DEF A!Trimmed
<1>3. ps \in SUBSET (DOMAIN rs) /\ ev \in SUBSET (1..Len(rs))
  BY <1>1
<1> HIDE DEF t
<1>4. Store(t) /\ Len(t) = Cardinality(ps) /\ Len(t) <= Len(rs) /\ RecsOf(t) = {rs[i] : i \in ps}
  <2> HIDE DEF ps
  <2> QED
    BY <1>2, <1>3, AtKeeps
<1>5. RecsOf(t) \subseteq RecsOf(rs)
  BY <1>4 DEF RecsOf
<1>6. A!Ids(rs) \cap keep \subseteq A!Ids(t)
  <2> SUFFICES ASSUME NEW r \in A!Ids(rs), r \in keep PROVE r \in A!Ids(t)
    OBVIOUS
  <2>1. PICK i \in DOMAIN rs : rs[i].id = r
    BY DEF A!Ids
  <2>2. i \in ps
    BY <2>1
  <2>3. rs[i] \in RecsOf(t)
    BY <1>4, <2>2
  <2> QED
    BY <2>1, <2>3, IdsOf
<1>7. Len(t) \in Nat
  BY <1>4, SeqIs DEF Store
<1>8. Len(rs) <= Capacity => Len(t) <= Capacity
  BY <1>1, <1>4, <1>7
<1>9. ASSUME ~(Len(rs) <= Capacity)
      PROVE  Len(t) <= Capacity \/ Len(t) <= Cardinality(keep)
  <2>1. over \in Nat /\ over = Len(rs) - Capacity
    BY <1>1, <1>9
  <2> HIDE DEF over
  <2>2. /\ IsFiniteSet(ev) /\ Cardinality(ev) \in Nat
        /\ \A i \in ev : Rank(ev, i) \in 1..Cardinality(ev)
    <3> HIDE DEF ev
    <3> QED
      BY <1>1, <1>3, RankGrows
  <2>3. ps = (1..Len(rs)) \ cutoff
    <3> SUFFICES ASSUME NEW i \in 1..Len(rs) PROVE i \in ps <=> i \notin cutoff
      BY <1>1, <1>3
    <3>1. i \in ev => Rank(ev, i) \in Int
      BY <2>2
    <3>2. i \in ev => (Rank(ev, i) > over <=> ~(Rank(ev, i) <= over))
      <4> HIDE DEF ev
      <4> QED
        BY <2>1, <3>1
    <3> HIDE DEF ev
    <3> QED
      BY <1>1, <3>2
  <2>4. CASE over <= Cardinality(ev)
    <3>1. Cardinality(cutoff) = over
      <4> HIDE DEF ev
      <4> QED
        BY <1>1, <1>3, <2>1, <2>4, RankCounts
    <3>2. cutoff \in SUBSET (1..Len(rs))
      BY <1>3
    <3> HIDE DEF cutoff, ps
    <3>3. Cardinality(ps) = Len(rs) - over
      <4>1. IsFiniteSet(1..Len(rs)) /\ Cardinality(1..Len(rs)) = Len(rs)
        BY <1>1, UpToN
      <4>2. (1..Len(rs)) \cap cutoff = cutoff
        BY <3>2
      <4> DEFINE all == 1..Len(rs)
      <4> HIDE DEF all
      <4>4. Cardinality(all \ cutoff) = Cardinality(all) - Cardinality(all \cap cutoff)
        BY <4>1, FS_Difference DEF all
      <4>5. Cardinality(all \cap cutoff) = over /\ Cardinality(all) = Len(rs)
        BY <3>1, <4>1, <4>2 DEF all
      <4>3. Cardinality((1..Len(rs)) \ cutoff) = Len(rs) - over
        BY <4>4, <4>5 DEF all
      <4> QED
        BY <2>3, <4>3
    <3> QED
      BY <1>1, <1>4, <2>1, <3>3
  <2>5. CASE ~(over <= Cardinality(ev))
    <3>1. \A i \in ev : Rank(ev, i) <= over
      <4> TAKE i \in ev
      <4>1. Rank(ev, i) \in 1..Cardinality(ev)
        BY <2>2
      <4> HIDE DEF ev
      <4> QED
        BY <2>1, <2>2, <2>5, <4>1
    <3>2. ps \cap ev = {}
      <4> SUFFICES ASSUME NEW i \in ps, i \in ev PROVE FALSE
        OBVIOUS
      <4>1. Rank(ev, i) \in Int /\ Rank(ev, i) <= over /\ Rank(ev, i) > over
        BY <2>2, <3>1
      <4> HIDE DEF ev
      <4> QED
        BY <2>1, <4>1
    <3>3. \A i \in ps : rs[i].id \in keep
      BY <1>3, <3>2
    <3>4. A!Ids(t) \in SUBSET keep
      BY <1>4, <3>3, IdsOf
    <3>5. Cardinality(A!Ids(t)) <= Cardinality(keep)
      BY <3>4, FS_Subset
    <3> QED
      BY <1>4, <3>5, DistinctIs
  <2> QED
    BY <2>4, <2>5
<1> QED
  BY <1>4, <1>5, <1>6, <1>8, <1>9 DEF t

-----------------------------------------------------------------------------
(* Steps that leave the store alone.                                        *)

\* Connections whose new record is being written.
Saving == {k \in Conns : ad_conn[k].attempt = "save"}

LEMMA SavingIsFinite ==
    ASSUME SlotsOK, LinksOK
    PROVE  IsFiniteSet(Saving) /\ Cardinality(Saving) \in Nat
<1>1. Saving \in SUBSET ad_open
  BY DEF Saving, LinksOK, SlotOK, Fits
<1> QED
  BY <1>1, FS_Subset, FS_CardinalityType DEF SlotsOK

LEMMA RoomIs == A!CapacityKept <=> Len(ad_recs) <= Capacity + ad_cut + Cardinality(Saving)
<1>1. A!Cardinality({k \in Conns : ad_conn[k].attempt = "save"}) = Cardinality(Saving)
  BY CardinalityIs DEF Saving
<1> QED
  BY <1>1 DEF A!CapacityKept

LEMMA RoomIsPrime == A!CapacityKept' <=> Len(ad_recs') <= Capacity + ad_cut' + Cardinality(Saving')
<1>1. A!Cardinality({k \in Conns : ad_conn'[k].attempt = "save"}) = Cardinality(Saving')
  BY CardinalityIs DEF Saving
<1> QED
  BY <1>1 DEF A!CapacityKept

LEMMA OneOf ==
    ASSUME ConnsOK, NEW k \in Conns, NEW x, ad_conn' = [ad_conn EXCEPT ![k] = x]
    PROVE  \A j \in Conns : ad_conn'[j] = IF j = k THEN x ELSE ad_conn[j]
BY DEF ConnsOK

\* A connection that finds no record, and stays if it holds one: its attempt may end.
Calm(w, n) ==
    /\ n.psk = w.psk /\ n.res = w.res /\ n.prot \in SUBSET w.prot
    /\ n.live => w.live
    /\ n.live \/ n.res # 0 => n.late = w.late
    /\ w.live \/ w.closing => n.live \/ n.closing
    /\ n.attempt = "save" => w.attempt = "save" /\ n.prot = w.prot

LEMMA LinksAre ==
    LinksOK <=> \A k \in Conns : Fits(ad_conn[k]) /\ Within(ad_conn[k], ad_made) /\ SlotOK(k)
BY DEF LinksOK

\* The store as it is, and connections that are calm.
LEMMA CalmKeeps ==
    ASSUME StoreInv, SlotsOK, SlotsOK',
           ad_recs' = ad_recs, ad_sweeps' = ad_sweeps, ad_made' = ad_made, ad_gone' = ad_gone, ad_failed' = ad_failed,
           \A j \in Conns : Calm(ad_conn[j], ad_conn'[j]) /\ Fits(ad_conn'[j]) /\ SlotOK(j)',
           ad_cut' = ad_cut + Cardinality(Saving \ Saving')
    PROVE  StoreInv'
<1>1. RecordsOK'
  BY DEF StoreInv, RecordsOK
<1>2. LinksOK'
  <2> SUFFICES ASSUME NEW k \in Conns PROVE Fits(ad_conn'[k]) /\ Within(ad_conn'[k], ad_made') /\ SlotOK(k)'
    BY DEF LinksOK, SlotOK
  <2>1. Within(ad_conn[k], ad_made)
    BY DEF StoreInv, LinksOK
  <2>2. Within(ad_conn'[k], ad_made')
    BY <2>1 DEF Within, Calm
  <2> QED
    BY <2>2
<1>3. Stays \subseteq Stays'
  BY DEF Stays, Calm
<1>4. UsedOK'
  <2> SUFFICES ASSUME NEW k \in Conns, ~ad_conn'[k].late
               PROVE  /\ ad_conn'[k].live /\ ad_conn'[k].psk # 0 => ad_conn'[k].psk \in Stays'
                      /\ ad_conn'[k].res # 0 => ad_conn'[k].res \in Stays'
    BY DEF UsedOK
  <2>1. Calm(ad_conn[k], ad_conn'[k])
    OBVIOUS
  <2>2. /\ ~ad_conn[k].late /\ ad_conn[k].live /\ ad_conn[k].psk # 0 => ad_conn[k].psk \in Stays
        /\ ~ad_conn[k].late /\ ad_conn[k].res # 0 => ad_conn[k].res \in Stays
    BY DEF StoreInv, UsedOK
  <2> QED
    BY <1>3, <2>1, <2>2 DEF Calm
<1>5. LeftOK'
  <2> SUFFICES ASSUME NEW r \in A!Superseded(ad_recs)
               PROVE  r \in ad_failed' \/ (\E keep \in ad_sweeps' : r \notin keep) \/ \E k \in Conns : Holds(ad_conn'[k], r)
    BY DEF LeftOK
  <2>1. r \in ad_failed \/ (\E keep \in ad_sweeps : r \notin keep) \/ \E k \in Conns : Holds(ad_conn[k], r)
    BY DEF StoreInv, LeftOK
  <2> QED
    BY <2>1 DEF Holds, Calm
<1>6. RoomOK'
  <2>1. Saving' \in SUBSET Saving
    BY DEF Saving, Calm
  <2>2. IsFiniteSet(Saving) /\ Cardinality(Saving) \in Nat /\ IsFiniteSet(Saving') /\ Cardinality(Saving') \in Nat
    BY <1>2, <2>1, SavingIsFinite, FS_Subset, FS_CardinalityType DEF StoreInv
  <2>3. Cardinality(Saving \ Saving') = Cardinality(Saving) - Cardinality(Saving')
    <3>1. Saving \cap Saving' = Saving'
      BY <2>1
    <3> QED
      BY <2>2, <3>1, FS_Difference
  <2>4. IsFiniteSet(Saving \ Saving') /\ Cardinality(Saving \ Saving') \in Nat
    BY <2>2, FS_Difference, FS_CardinalityType
  <2>5. ad_cut \in Nat /\ Len(ad_recs) <= Capacity + ad_cut + Cardinality(Saving)
    BY RoomIs DEF StoreInv, RoomOK
  <2>6. ad_cut' \in Nat
    BY <2>4, <2>5
  <2>7. Len(ad_recs') <= Capacity + ad_cut' + Cardinality(Saving')
    <3>1. Len(ad_recs) \in Nat /\ Capacity \in Nat
      BY SeqIs, AdmissionAssumption DEF StoreInv, RecordsOK
    <3> QED
      BY <2>2, <2>3, <2>5, <3>1
  <2> QED
    BY <2>6, <2>7, RoomIsPrime DEF RoomOK
<1> QED
  BY <1>1, <1>2, <1>4, <1>5, <1>6 DEF StoreInv

\* One connection moves on, the store as it is.
LEMMA CalmOneKeeps ==
    ASSUME AdmInv, SlotsOK', StoreInv, NEW k \in Conns, NEW x, ad_conn' = [ad_conn EXCEPT ![k] = x],
           UNCHANGED A!table, Calm(ad_conn[k], x), Fits(x),
           x.attempt = "save" <=> ad_conn[k].attempt = "save",
           x.live => k \in ad_open', x.pc = "hs" => k \in ad_prov',
           ad_open \ {k} \in SUBSET ad_open', ad_prov \ {k} \in SUBSET ad_prov'
    PROVE  StoreInv'
<1>1. \A j \in Conns : ad_conn'[j] = IF j = k THEN x ELSE ad_conn[j]
  BY OneOf DEF AdmInv
<1>2. \A j \in Conns : Fits(ad_conn[j]) /\ SlotOK(j)
  BY LinksAre DEF StoreInv
<1>3. /\ ad_recs' = ad_recs /\ ad_sweeps' = ad_sweeps /\ ad_made' = ad_made /\ ad_gone' = ad_gone
      /\ ad_failed' = ad_failed /\ ad_cut' = ad_cut
  BY DEF A!table
<1>4. \A j \in Conns : Calm(ad_conn[j], ad_conn'[j]) /\ Fits(ad_conn'[j]) /\ SlotOK(j)'
  <2> TAKE j \in Conns
  <2>1. CASE j = k
    BY <1>1, <2>1 DEF SlotOK
  <2>2. CASE j # k
    <3>1. ad_conn'[j] = ad_conn[j]
      BY <1>1, <2>2
    <3>2. Calm(ad_conn[j], ad_conn[j])
      BY DEF Calm
    <3>3. SlotOK(j)'
      BY <1>2, <2>2, <3>1 DEF SlotOK
    <3> QED
      BY <1>2, <3>1, <3>2, <3>3
  <2> QED
    BY <2>1, <2>2
<1>5. Saving \ Saving' = {}
  BY <1>1 DEF Saving
<1>6. ad_cut' = ad_cut + Cardinality(Saving \ Saving')
  BY <1>3, <1>5, FS_EmptySet DEF StoreInv, RoomOK
<1> QED
  BY <1>3, <1>4, <1>6, CalmKeeps DEF AdmInv

\* A step that leaves the connections, the slots and the store alone.
LEMMA StillStore ==
    ASSUME AdmInv, StoreInv, UNCHANGED <<ad_conn, ad_open, ad_prov>>, UNCHANGED A!table
    PROVE  StoreInv'
<1>1. /\ ad_recs' = ad_recs /\ ad_sweeps' = ad_sweeps /\ ad_made' = ad_made /\ ad_gone' = ad_gone
      /\ ad_failed' = ad_failed /\ ad_cut' = ad_cut
  BY DEF A!table
<1>2. \A j \in Conns : Fits(ad_conn[j]) /\ SlotOK(j)
  BY LinksAre DEF StoreInv
<1>3. \A j \in Conns : Calm(ad_conn[j], ad_conn'[j]) /\ Fits(ad_conn'[j]) /\ SlotOK(j)'
  BY <1>2 DEF Calm, SlotOK
<1>4. Saving \ Saving' = {}
  BY DEF Saving
<1>5. ad_cut' = ad_cut + Cardinality(Saving \ Saving')
  BY <1>1, <1>4, FS_EmptySet DEF StoreInv, RoomOK
<1>6. SlotsOK /\ SlotsOK'
  BY DEF AdmInv, SlotsOK
<1> QED
  BY <1>1, <1>3, <1>5, <1>6, CalmKeeps

LEMMA LinkOf ==
    ASSUME AdmInv, StoreInv, NEW k \in Conns
    PROVE  /\ IsConn(ad_conn[k]) /\ Fits(ad_conn[k]) /\ Within(ad_conn[k], ad_made) /\ SlotOK(k)
           /\ ad_conn[k].pc = "hs" => ad_conn[k].live = FALSE /\ ad_conn[k].closing = FALSE
           /\ ad_conn[k].attempt \in {"on", "save"} => ad_conn[k].live /\ ad_conn[k].pc = "run"
BY LinksAre DEF StoreInv, AdmInv, ConnsOK, ChosenOK, AdmittedOK

LEMMA ArriveStore ==
    ASSUME AdmInv, SlotsOK', StoreInv, NEW k \in Conns, NEW sv, NEW mode, A!Arrive(k, sv, mode)
    PROVE  StoreInv'
<1> DEFINE x == [A!NoConn EXCEPT !.pc = "hs", !.mode = mode, !.srv = sv]
<1>1. /\ ad_conn[k] = A!NoConn /\ ad_conn' = [ad_conn EXCEPT ![k] = x] /\ UNCHANGED A!table
      /\ ad_prov' = ad_prov \cup {k} /\ ad_open \in SUBSET ad_open'
  BY DEF A!Arrive
<1>2. Calm(A!NoConn, x) /\ Fits(x) /\ x.attempt = "no" /\ A!NoConn.attempt = "no" /\ x.live = FALSE
  BY DEF Calm, Fits, A!NoConn
<1> HIDE DEF x
<1> QED
  BY <1>1, <1>2, CalmOneKeeps

LEMMA ForgetStore ==
    ASSUME AdmInv, SlotsOK', StoreInv, NEW k \in Conns, A!Forget(k)
    PROVE  StoreInv'
<1> DEFINE x == A!NoConn
<1>1. /\ ad_conn' = [ad_conn EXCEPT ![k] = x] /\ UNCHANGED A!table /\ ad_conn[k].pc \in {"end", "free"}
      /\ ~ad_conn[k].closing /\ ad_open' = ad_open \ {k} /\ ad_prov' = ad_prov \ {k}
  BY DEF A!Forget
<1>2. Fits(x) /\ x.attempt = "no" /\ x.live = FALSE /\ x.closing = FALSE /\ x.pc = "free" /\ x.psk = 0 /\ x.res = 0 /\ x.prot = {}
  BY DEF Fits, A!NoConn
<1>3. ad_conn[k].psk = 0 /\ ad_conn[k].res = 0 /\ ~ad_conn[k].live /\ ad_conn[k].attempt # "save"
  BY <1>1, LinkOf DEF Fits
<1>4. Calm(ad_conn[k], x)
  BY <1>1, <1>2, <1>3 DEF Calm
<1> HIDE DEF x
<1> QED
  BY <1>1, <1>2, <1>3, <1>4, CalmOneKeeps

\* A connection that is closed, or moves on, by its own handler.
LEMMA ClosingCalm ==
    ASSUME NEW w, IsConn(w), Fits(w), w.pc # "hs"
    PROVE  /\ Calm(w, A!Closing(w)) /\ Fits(A!Closing(w)) /\ A!Closing(w).attempt = "no"
           /\ A!Closing(w).live = FALSE /\ A!Closing(w).pc = w.pc
<1> DEFINE n == A!Closing(w)
<1>1. /\ n.psk = w.psk /\ n.res = w.res /\ n.prot = {} /\ n.live = FALSE /\ n.closing = TRUE
      /\ n.attempt = "no" /\ n.late = w.late /\ n.pc = w.pc /\ n.act = w.act
  BY DEF IsConn, A!Closing
<1> HIDE DEF n
<1>2. Calm(w, n)
  BY <1>1 DEF Calm
<1>3. Fits(n)
  BY <1>1 DEF Fits
<1> QED
  BY <1>1, <1>2, <1>3 DEF n

LEMMA FirstActivateStore ==
    ASSUME AdmInv, SlotsOK', StoreInv, NEW k \in Conns, NEW a \in A!Activations, A!FirstActivate(k, a)
    PROVE  StoreInv'
<1> DEFINE w == ad_conn[k]
           y == [w EXCEPT !.act = a, !.pc = "queue"]
           e == [w EXCEPT !.pc = "end"]
<1>1. /\ w.pc = "up" /\ w.live /\ UNCHANGED A!table /\ ad_open' = ad_open /\ ad_prov' = ad_prov
      /\ \/ ad_conn' = [ad_conn EXCEPT ![k] = y] /\ A!Admissible(w, w.psk, a)
         \/ ad_conn' = [ad_conn EXCEPT ![k] = A!Closing(e)]
  BY DEF A!FirstActivate
<1>2. IsConn(w) /\ Fits(w) /\ SlotOK(k) /\ (w.attempt \in {"on", "save"} => w.pc = "run")
  BY LinkOf
<1>3. CASE ad_conn' = [ad_conn EXCEPT ![k] = y] /\ A!Admissible(w, w.psk, a)
  <2>1. /\ y.pc = "queue" /\ y.act = a /\ y.live = w.live /\ y.closing = w.closing /\ y.psk = w.psk /\ y.res = w.res
        /\ y.attempt = w.attempt /\ y.prot = w.prot /\ y.late = w.late
    BY <1>2 DEF IsConn
  <2> HIDE DEF y
  <2>2. Calm(w, y)
    BY <2>1 DEF Calm
  <2>3. Fits(y)
    BY <1>1, <1>2, <1>3, <2>1 DEF Fits, A!Admissible
  <2> QED
    BY <1>1, <1>2, <1>3, <2>1, <2>2, <2>3, CalmOneKeeps DEF SlotOK
<1>4. CASE ad_conn' = [ad_conn EXCEPT ![k] = A!Closing(e)]
  <2> DEFINE n == A!Closing(e)
  <2>1. /\ n.psk = w.psk /\ n.res = w.res /\ n.prot = {} /\ n.live = FALSE /\ n.closing = TRUE
        /\ n.attempt = "no" /\ n.late = w.late /\ n.pc = "end" /\ n.act = w.act
    BY <1>2 DEF IsConn, A!Closing
  <2> HIDE DEF n
  <2>2. Calm(w, n) /\ Fits(n)
    BY <1>1, <1>2, <2>1 DEF Calm, Fits
  <2> QED
    BY <1>1, <1>2, <1>4, <2>1, <2>2, CalmOneKeeps DEF n
<1> QED
  BY <1>1, <1>3, <1>4

LEMMA BringUpFailsStore ==
    ASSUME AdmInv, SlotsOK', StoreInv, NEW k \in Conns, A!BringUpFails(k)
    PROVE  StoreInv'
<1> DEFINE w == ad_conn[k]
           e == [w EXCEPT !.pc = "end"]
           n == IF w.live THEN A!Closing(e) ELSE e
<1>1. w.pc = "up" /\ UNCHANGED A!table /\ ad_open' = ad_open /\ ad_prov' = ad_prov /\ ad_conn' = [ad_conn EXCEPT ![k] = n]
  BY DEF A!BringUpFails
<1>2. IsConn(w) /\ Fits(w) /\ SlotOK(k) /\ (w.attempt \in {"on", "save"} => w.pc = "run")
  BY LinkOf
<1>3. /\ n.psk = w.psk /\ n.res = w.res /\ n.prot \in SUBSET w.prot /\ n.live = FALSE
      /\ n.closing = IF w.live THEN TRUE ELSE w.closing
      /\ n.attempt = "no" \/ n.attempt = w.attempt
      /\ n.late = w.late /\ n.pc = "end" /\ n.act = w.act
  BY <1>2 DEF IsConn, A!Closing
<1> HIDE DEF n
<1>4. Calm(w, n) /\ Fits(n)
  BY <1>1, <1>2, <1>3 DEF Calm, Fits
<1> QED
  BY <1>1, <1>2, <1>3, <1>4, CalmOneKeeps

LEMMA ServerActivateStore ==
    ASSUME AdmInv, SlotsOK', StoreInv, NEW k \in Conns, NEW a \in A!Activations, A!ServerActivate(k, a)
    PROVE  StoreInv'
<1> DEFINE w == ad_conn[k]
           y == [w EXCEPT !.act = a, !.attempt = "no", !.young = FALSE,
                          !.note = k = ad_adm /\ a = "playback" /\ ad_conn[k].srv # ad_last]
<1>1. /\ w.pc = "run" /\ w.live /\ w.attempt # "save" /\ UNCHANGED A!table /\ ad_open' = ad_open /\ ad_prov' = ad_prov
      /\ \/ ad_conn' = [ad_conn EXCEPT ![k] = y] /\ A!Admissible(w, w.psk, a)
         \/ ad_conn' = [ad_conn EXCEPT ![k] = A!Closing(w)]
  BY DEF A!ServerActivate, A!Serving
<1>2. IsConn(w) /\ Fits(w) /\ SlotOK(k)
  BY LinkOf
<1>3. CASE ad_conn' = [ad_conn EXCEPT ![k] = y] /\ A!Admissible(w, w.psk, a)
  <2>1. /\ y.pc = "run" /\ y.act = a /\ y.live = w.live /\ y.closing = w.closing /\ y.psk = w.psk /\ y.res = w.res
        /\ y.attempt = "no" /\ y.prot = w.prot /\ y.late = w.late
    BY <1>1, <1>2 DEF IsConn
  <2> HIDE DEF y
  <2>2. Calm(w, y)
    BY <2>1 DEF Calm
  <2>3. Fits(y)
    BY <1>1, <1>2, <1>3, <2>1 DEF Fits, A!Admissible
  <2> QED
    BY <1>1, <1>2, <1>3, <2>1, <2>2, <2>3, CalmOneKeeps DEF SlotOK
<1>4. CASE ad_conn' = [ad_conn EXCEPT ![k] = A!Closing(w)]
  <2> DEFINE n == A!Closing(w)
  <2>1. Calm(w, n) /\ Fits(n) /\ n.attempt = "no" /\ n.live = FALSE /\ n.pc = "run"
    BY <1>1, <1>2, ClosingCalm
  <2> HIDE DEF n
  <2> QED
    BY <1>1, <1>2, <1>4, <2>1, CalmOneKeeps DEF n
<1> QED
  BY <1>1, <1>3, <1>4

LEMMA NotedStore ==
    ASSUME AdmInv, SlotsOK', StoreInv, NEW k \in Conns, A!Noted(k)
    PROVE  StoreInv'
<1> DEFINE w == ad_conn[k]
           y == [w EXCEPT !.note = FALSE]
<1>1. UNCHANGED A!table /\ ad_open' = ad_open /\ ad_prov' = ad_prov /\ ad_conn' = [ad_conn EXCEPT ![k] = y]
  BY DEF A!Noted
<1>2. IsConn(w) /\ Fits(w) /\ SlotOK(k)
  BY LinkOf
<1>3. /\ y.pc = w.pc /\ y.act = w.act /\ y.live = w.live /\ y.closing = w.closing /\ y.psk = w.psk /\ y.res = w.res
      /\ y.attempt = w.attempt /\ y.prot = w.prot /\ y.late = w.late
  BY <1>2 DEF IsConn
<1> HIDE DEF y
<1>4. Calm(w, y) /\ Fits(y)
  BY <1>2, <1>3 DEF Calm, Fits
<1> QED
  BY <1>1, <1>2, <1>3, <1>4, CalmOneKeeps DEF SlotOK

LEMMA BeginAttemptStore ==
    ASSUME AdmInv, SlotsOK', StoreInv, NEW k \in Conns, A!BeginAttempt(k)
    PROVE  StoreInv'
<1> DEFINE w == ad_conn[k]
           y == [w EXCEPT !.attempt = "on", !.young = ad_lock \notin {None, Config}]
<1>1. /\ UNCHANGED A!table /\ ad_open' = ad_open /\ ad_prov' = ad_prov /\ ad_conn' = [ad_conn EXCEPT ![k] = y]
      /\ w.live /\ w.pc = "run" /\ w.act = "pairing" /\ w.attempt = "no"
  BY DEF A!BeginAttempt, A!Serving
<1>2. IsConn(w) /\ Fits(w) /\ SlotOK(k)
  BY LinkOf
<1>3. /\ y.pc = w.pc /\ y.act = w.act /\ y.live = w.live /\ y.closing = w.closing /\ y.psk = w.psk /\ y.res = w.res
      /\ y.attempt = "on" /\ y.prot = w.prot /\ y.late = w.late
  BY <1>2 DEF IsConn
<1> HIDE DEF y
<1>4. Calm(w, y) /\ Fits(y)
  BY <1>1, <1>2, <1>3 DEF Calm, Fits
<1> QED
  BY <1>1, <1>2, <1>3, <1>4, CalmOneKeeps DEF SlotOK

LEMMA EndAttemptStore ==
    ASSUME AdmInv, SlotsOK', StoreInv, NEW k \in Conns, A!EndAttempt(k)
    PROVE  StoreInv'
<1> DEFINE w == ad_conn[k]
           y == [w EXCEPT !.attempt = "done"]
<1>1. /\ UNCHANGED A!table /\ ad_open' = ad_open /\ ad_prov' = ad_prov /\ ad_conn' = [ad_conn EXCEPT ![k] = y]
      /\ w.attempt = "on"
  BY DEF A!EndAttempt, A!Serving
<1>2. IsConn(w) /\ Fits(w) /\ SlotOK(k)
  BY LinkOf
<1>3. /\ y.pc = w.pc /\ y.act = w.act /\ y.live = w.live /\ y.closing = w.closing /\ y.psk = w.psk /\ y.res = w.res
      /\ y.attempt = "done" /\ y.prot = w.prot /\ y.late = w.late
  BY <1>2 DEF IsConn
<1> HIDE DEF y
<1>4. Calm(w, y) /\ Fits(y)
  BY <1>1, <1>2, <1>3 DEF Calm, Fits
<1> QED
  BY <1>1, <1>2, <1>3, <1>4, CalmOneKeeps DEF SlotOK

\* A connection moves on in admission, and leaves it or not.
LEMMA PlaceStore ==
    ASSUME AdmInv, SlotsOK', StoreInv, NEW k \in Conns, NEW pc, NEW prev, UNCHANGED A!table,
           ad_conn' = [ad_conn EXCEPT ![k] = [ad_conn[k] EXCEPT !.pc = pc, !.prev = prev]],
           ad_conn[k].pc # "hs", pc # "hs", ad_conn[k].live => pc \notin {"free", "drop", "end"},
           ad_prov \ {k} \in SUBSET ad_prov', ad_open \ {k} \in SUBSET ad_open',
           ad_conn[k].live => k \in ad_open'
    PROVE  StoreInv'
<1> DEFINE w == ad_conn[k]
           y == [w EXCEPT !.pc = pc, !.prev = prev]
<1>1. IsConn(w) /\ Fits(w) /\ SlotOK(k)
  BY LinkOf
<1>2. /\ y.pc = pc /\ y.act = w.act /\ y.live = w.live /\ y.closing = w.closing /\ y.psk = w.psk /\ y.res = w.res
      /\ y.attempt = w.attempt /\ y.prot = w.prot /\ y.late = w.late
  BY <1>1 DEF IsConn
<1>3. ad_conn' = [ad_conn EXCEPT ![k] = y]
  OBVIOUS
<1> HIDE DEF y
<1>4. Calm(w, y) /\ Fits(y)
  BY <1>1, <1>2 DEF Calm, Fits
<1> QED
  BY <1>1, <1>2, <1>3, <1>4, CalmOneKeeps DEF SlotOK

LEMMA SamePlace ==
    ASSUME NEW x, IsConn(x), NEW pc
    PROVE  [x EXCEPT !.pc = pc] = [x EXCEPT !.pc = pc, !.prev = x.prev]
BY DEF IsConn

LEMMA InstallStore ==
    ASSUME AdmInv, SlotsOK', StoreInv, NEW k \in Conns, A!Install(k), UNCHANGED A!table, ad_conn[k].pc # "hs"
    PROVE  StoreInv'
<1>1. IsConn(ad_conn[k]) /\ Fits(ad_conn[k]) /\ SlotOK(k)
  BY LinkOf
<1>2. CASE ~ad_conn[k].live /\ A!Leave(k, [ad_conn[k] EXCEPT !.pc = "end"])
  <2>1. /\ ad_conn' = [ad_conn EXCEPT ![k] = [ad_conn[k] EXCEPT !.pc = "end", !.prev = ad_conn[k].prev]]
        /\ ad_prov' = ad_prov \ {k} /\ ad_open \ {k} \in SUBSET ad_open'
    BY <1>1, <1>2, SamePlace DEF A!Leave
  <2> QED
    BY <1>2, <2>1, PlaceStore
<1>3. CASE /\ ad_conn[k].live /\ UNCHANGED <<ad_prov, ad_open>>
           /\ ad_conn' = [ad_conn EXCEPT ![k] = [@ EXCEPT !.pc = "oust", !.prev = ad_adm]]
  <2>1. ad_conn' = [ad_conn EXCEPT ![k] = [ad_conn[k] EXCEPT !.pc = "oust", !.prev = ad_adm]]
    BY <1>3
  <2>2. k \in ad_open' /\ ad_prov \ {k} \in SUBSET ad_prov' /\ ad_open \ {k} \in SUBSET ad_open'
    BY <1>1, <1>3 DEF SlotOK
  <2>3. "oust" # "hs" /\ "oust" \notin {"free", "drop", "end"}
    OBVIOUS
  <2> QED
    BY <2>1, <2>2, <2>3, PlaceStore
<1>4. CASE ad_conn[k].live /\ A!Leave(k, [ad_conn[k] EXCEPT !.pc = "run"])
  <2>1. /\ ad_conn' = [ad_conn EXCEPT ![k] = [ad_conn[k] EXCEPT !.pc = "run", !.prev = ad_conn[k].prev]]
        /\ ad_prov' = ad_prov \ {k}
    BY <1>1, <1>4, SamePlace DEF A!Leave
  <2>2. [ad_conn[k] EXCEPT !.pc = "run"].live = ad_conn[k].live
    BY <1>1 DEF IsConn
  <2>3. ad_open' = ad_open
    BY <1>4, <2>2 DEF A!Leave
  <2>4. /\ ad_conn[k].live => k \in ad_open'
        /\ ad_prov \ {k} \in SUBSET ad_prov' /\ ad_open \ {k} \in SUBSET ad_open'
    BY <1>1, <2>1, <2>3 DEF SlotOK
  <2>5. "run" # "hs" /\ "run" \notin {"free", "drop", "end"}
    OBVIOUS
  <2> QED
    BY <2>1, <2>4, <2>5, PlaceStore
<1> QED
  BY <1>2, <1>3, <1>4 DEF A!Install

LEMMA AcquireStore ==
    ASSUME AdmInv, SlotsOK', StoreInv, NEW k \in Conns, A!Acquire(k)
    PROVE  StoreInv'
<1>1. IsConn(ad_conn[k]) /\ Fits(ad_conn[k]) /\ SlotOK(k) /\ ad_conn[k].pc = "queue" /\ UNCHANGED A!table
      /\ (ad_conn[k].attempt \in {"on", "save"} => ad_conn[k].pc = "run")
  BY LinkOf DEF A!Acquire
<1>2. CASE /\ UNCHANGED <<ad_prov, ad_open>>
           /\ ad_conn' = [ad_conn EXCEPT ![k] = IF @.live THEN A!Closing([@ EXCEPT !.pc = "drop"])
                                                ELSE [@ EXCEPT !.pc = "drop"]]
  <2> DEFINE w == ad_conn[k]
             e == [w EXCEPT !.pc = "drop"]
             n == IF w.live THEN A!Closing(e) ELSE e
  <2>1. ad_conn' = [ad_conn EXCEPT ![k] = n]
    BY <1>2
  <2>2. /\ n.psk = w.psk /\ n.res = w.res /\ n.prot \in SUBSET w.prot /\ n.live = FALSE
        /\ n.closing = IF w.live THEN TRUE ELSE w.closing
        /\ n.attempt = "no" \/ n.attempt = w.attempt
        /\ n.late = w.late /\ n.pc = "drop" /\ n.act = w.act
    BY <1>1 DEF IsConn, A!Closing
  <2> HIDE DEF n
  <2>3. Calm(w, n) /\ Fits(n)
    BY <1>1, <2>2 DEF Calm, Fits
  <2> QED
    BY <1>1, <1>2, <2>1, <2>2, <2>3, CalmOneKeeps
<1>3. CASE UNCHANGED <<ad_prov, ad_open>> /\ ad_conn' = [ad_conn EXCEPT ![k] = [@ EXCEPT !.pc = "save"]]
  <2>1. ad_conn' = [ad_conn EXCEPT ![k] = [ad_conn[k] EXCEPT !.pc = "save", !.prev = ad_conn[k].prev]]
    BY <1>1, <1>3, SamePlace
  <2>2. /\ ad_conn[k].live => k \in ad_open'
        /\ ad_prov \ {k} \in SUBSET ad_prov' /\ ad_open \ {k} \in SUBSET ad_open'
    BY <1>1, <1>3 DEF SlotOK
  <2>3. "save" # "hs" /\ "save" \notin {"free", "drop", "end"} /\ ad_conn[k].pc # "hs"
    BY <1>1
  <2> QED
    BY <1>1, <2>1, <2>2, <2>3, PlaceStore
<1>4. CASE A!Install(k)
  BY <1>1, <1>4, InstallStore
<1> QED
  BY <1>2, <1>3, <1>4 DEF A!Acquire

LEMMA SavedStore ==
    ASSUME AdmInv, SlotsOK', StoreInv, NEW k \in Conns, A!Saved(k)
    PROVE  StoreInv'
BY InstallStore DEF A!Saved

LEMMA DroppedStore ==
    ASSUME AdmInv, SlotsOK', StoreInv, NEW k \in Conns, A!Dropped(k)
    PROVE  StoreInv'
<1>1. IsConn(ad_conn[k]) /\ Fits(ad_conn[k]) /\ ad_conn[k].pc = "drop" /\ UNCHANGED A!table
  BY LinkOf DEF A!Dropped
<1>2. /\ ad_conn' = [ad_conn EXCEPT ![k] = [ad_conn[k] EXCEPT !.pc = "end", !.prev = ad_conn[k].prev]]
      /\ ad_prov' = ad_prov \ {k} /\ ad_open \ {k} \in SUBSET ad_open'
  BY <1>1, SamePlace DEF A!Dropped, A!Leave
<1> QED
  BY <1>1, <1>2, PlaceStore DEF Fits

LEMMA StartStore ==
    ASSUME AdmInv, SlotsOK', StoreInv, NEW k \in Conns, A!Start(k)
    PROVE  StoreInv'
<1> DEFINE pc == IF ad_conn[k].live \/ ad_conn[k].closing THEN "run" ELSE "end"
<1>1. IsConn(ad_conn[k]) /\ Fits(ad_conn[k]) /\ SlotOK(k) /\ ad_conn[k].pc # "hs" /\ UNCHANGED A!table
  BY LinkOf DEF A!Start
<1>2. A!Leave(k, [ad_conn[k] EXCEPT !.pc = pc, !.prev = None])
  BY DEF A!Start
<1>3. pc # "hs" /\ (ad_conn[k].live => pc = "run")
  OBVIOUS
<1> HIDE DEF pc
<1>4. [ad_conn[k] EXCEPT !.pc = pc, !.prev = None].live = ad_conn[k].live
  BY <1>1 DEF IsConn
<1>5. /\ ad_conn' = [ad_conn EXCEPT ![k] = [ad_conn[k] EXCEPT !.pc = pc, !.prev = None]]
      /\ ad_prov' = ad_prov \ {k} /\ ad_open \ {k} \in SUBSET ad_open' /\ (ad_conn[k].live => ad_open' = ad_open)
  BY <1>2, <1>4 DEF A!Leave
<1> QED
  BY <1>1, <1>3, <1>5, PlaceStore DEF SlotOK

LEMMA ConfigSavedStore ==
    ASSUME AdmInv, SlotsOK', StoreInv, A!ConfigSaved
    PROVE  StoreInv'
<1>1. UNCHANGED A!table /\ ad_open' = ad_open /\ ad_prov' = ad_prov
  BY DEF A!ConfigSaved
<1>2. CASE UNCHANGED ad_conn
  BY <1>1, <1>2, StillStore
<1>3. CASE /\ ad_adm # None /\ A!Relies(ad_adm) /\ ad_conn[ad_adm].live
           /\ ad_conn' = [ad_conn EXCEPT ![ad_adm] = A!Closing(@)]
  <2>1. ad_adm \in Conns
    BY <1>3 DEF AdmInv, AdmittedOK
  <2> DEFINE w == ad_conn[ad_adm]
             n == A!Closing(w)
  <2>2. IsConn(w) /\ Fits(w) /\ w.pc # "hs" /\ w.attempt # "save"
    BY <1>3, <2>1, LinkOf DEF A!Relies, Fits
  <2>3. Calm(w, n) /\ Fits(n) /\ n.attempt = "no" /\ n.live = FALSE /\ n.pc = w.pc
    BY <2>2, ClosingCalm
  <2>4. ad_conn' = [ad_conn EXCEPT ![ad_adm] = n]
    BY <1>3
  <2> HIDE DEF n
  <2> QED
    BY <1>1, <2>1, <2>2, <2>3, <2>4, CalmOneKeeps
<1> QED
  BY <1>2, <1>3 DEF A!ConfigSaved

\* Connections that close, whatever they were about.
LEMMA CloseStore ==
    ASSUME AdmInv, SlotsOK', StoreInv, NEW ks \in SUBSET Conns,
           \A j \in ks : ad_conn[j].live,
           \A j \in Conns : IF j \in ks THEN ad_conn'[j] = A!Closing(ad_conn[j])
                            ELSE \E pc : /\ ad_conn'[j] = [ad_conn[j] EXCEPT !.pc = pc]
                                         /\ pc = ad_conn[j].pc \/ (pc \notin {"free", "hs", "drop", "end"} /\ ad_conn[j].pc # "hs"),
           ad_open' = ad_open, ad_prov' = ad_prov, ad_cut' = A!CutBy(ks),
           ad_recs' = ad_recs, ad_sweeps' = ad_sweeps, ad_made' = ad_made, ad_gone' = ad_gone, ad_failed' = ad_failed
    PROVE  StoreInv'
<1>1. \A j \in Conns : IsConn(ad_conn[j]) /\ Fits(ad_conn[j]) /\ SlotOK(j)
  BY LinkOf
<1>2. \A j \in ks : /\ Calm(ad_conn[j], ad_conn'[j]) /\ Fits(ad_conn'[j]) /\ SlotOK(j)'
                    /\ ad_conn'[j].attempt = "no"
  <2> TAKE j \in ks
  <2>1. ad_conn[j].pc # "hs" /\ ad_conn'[j] = A!Closing(ad_conn[j])
    BY <1>1 DEF Fits
  <2>3. IsConn(ad_conn[j]) /\ Fits(ad_conn[j])
    BY <1>1
  <2>4. /\ Calm(ad_conn[j], A!Closing(ad_conn[j])) /\ Fits(A!Closing(ad_conn[j]))
        /\ A!Closing(ad_conn[j]).attempt = "no"
        /\ A!Closing(ad_conn[j]).live = FALSE /\ A!Closing(ad_conn[j]).pc = ad_conn[j].pc
    BY <2>1, <2>3, ClosingCalm
  <2>2. /\ Calm(ad_conn[j], ad_conn'[j]) /\ Fits(ad_conn'[j]) /\ ad_conn'[j].attempt = "no"
        /\ ad_conn'[j].live = FALSE /\ ad_conn'[j].pc = ad_conn[j].pc
    BY <2>1, <2>4
  <2> QED
    BY <2>1, <2>2 DEF SlotOK
<1>3. \A j \in Conns \ ks : /\ Calm(ad_conn[j], ad_conn'[j]) /\ Fits(ad_conn'[j]) /\ SlotOK(j)'
                            /\ ad_conn'[j].attempt = ad_conn[j].attempt
  <2> TAKE j \in Conns \ ks
  <2>1. PICK pc : /\ ad_conn'[j] = [ad_conn[j] EXCEPT !.pc = pc]
                  /\ pc = ad_conn[j].pc \/ (pc \notin {"free", "hs", "drop", "end"} /\ ad_conn[j].pc # "hs")
    OBVIOUS
  <2> DEFINE w == ad_conn[j]
             y == ad_conn'[j]
  <2>2. /\ y.pc = pc /\ y.act = w.act /\ y.live = w.live /\ y.closing = w.closing /\ y.psk = w.psk /\ y.res = w.res
        /\ y.attempt = w.attempt /\ y.prot = w.prot /\ y.late = w.late
    BY <1>1, <2>1 DEF IsConn
  <2>3. Fits(w) /\ SlotOK(j) /\ (pc = w.pc \/ (pc \notin {"free", "hs", "drop", "end"} /\ w.pc # "hs"))
    BY <1>1, <2>1
  <2> HIDE DEF y
  <2>4. Calm(w, y) /\ Fits(y)
    BY <2>2, <2>3 DEF Calm, Fits
  <2>5. SlotOK(j)'
    BY <2>2, <2>3 DEF SlotOK, y
  <2> QED
    BY <2>2, <2>4, <2>5 DEF y
<1>4. \A j \in Conns : Calm(ad_conn[j], ad_conn'[j]) /\ Fits(ad_conn'[j]) /\ SlotOK(j)'
  BY <1>2, <1>3
<1>5. Saving \ Saving' = {j \in ks : ad_conn[j].live /\ ad_conn[j].attempt = "save"}
  BY <1>2, <1>3 DEF Saving
<1>6. ad_cut' = ad_cut + Cardinality(Saving \ Saving')
  BY <1>5, CardinalityIs DEF A!CutBy
<1> QED
  BY <1>4, <1>6, CalmKeeps DEF AdmInv

LEMMA UnchangedConn ==
    ASSUME NEW x, IsConn(x)
    PROVE  x = [x EXCEPT !.pc = x.pc]
BY DEF IsConn

LEMMA LostStore ==
    ASSUME AdmInv, SlotsOK', StoreInv, NEW k \in Conns, A!Lost(k)
    PROVE  StoreInv'
<1>1. ad_conn' = [ad_conn EXCEPT ![k] = A!Closing(ad_conn[k])] /\ ad_conn[k].live
  BY DEF A!Lost
<1>3. /\ ad_open' = ad_open /\ ad_prov' = ad_prov /\ ad_cut' = A!CutBy({k})
      /\ ad_recs' = ad_recs /\ ad_sweeps' = ad_sweeps /\ ad_made' = ad_made /\ ad_gone' = ad_gone /\ ad_failed' = ad_failed
  BY DEF A!Lost
<1> DEFINE ks == {k}
<1>4. ks \in SUBSET Conns /\ \A j \in ks : ad_conn[j].live
  BY <1>1
<1>2. \A j \in Conns : ad_conn'[j] = IF j = k THEN A!Closing(ad_conn[k]) ELSE ad_conn[j]
  BY <1>1, OneOf DEF AdmInv
<1>5. \A j \in Conns : IF j \in ks THEN ad_conn'[j] = A!Closing(ad_conn[j])
                       ELSE \E pc : /\ ad_conn'[j] = [ad_conn[j] EXCEPT !.pc = pc]
                                    /\ pc = ad_conn[j].pc \/ (pc \notin {"free", "hs", "drop", "end"} /\ ad_conn[j].pc # "hs")
  <2> TAKE j \in Conns
  <2>1. CASE j = k
    BY <1>2, <2>1
  <2>2. CASE j # k
    <3>1. ad_conn'[j] = ad_conn[j] /\ IsConn(ad_conn[j]) /\ j \notin ks
      BY <1>2, <2>2, LinkOf
    <3>2. ad_conn'[j] = [ad_conn[j] EXCEPT !.pc = ad_conn[j].pc]
      BY <3>1, UnchangedConn
    <3> QED
      BY <3>1, <3>2
  <2> QED
    BY <2>1, <2>2
<1>6. ad_cut' = A!CutBy(ks)
  BY <1>3
<1> HIDE DEF ks
<1> QED
  BY <1>3, <1>4, <1>5, <1>6, CloseStore

LEMMA ClientDisconnectStore ==
    ASSUME AdmInv, SlotsOK', StoreInv, A!ClientDisconnect
    PROVE  StoreInv'
<1> DEFINE ks == {k \in (ad_prov \cup {ad_adm}) \ {None} : ad_conn[k].live}
<1>1. /\ ad_conn' = [k \in Conns |-> IF k \in ks THEN A!Closing(ad_conn[k]) ELSE ad_conn[k]] /\ ad_cut' = A!CutBy(ks)
      /\ ad_open' = ad_open /\ ad_prov' = ad_prov
      /\ ad_recs' = ad_recs /\ ad_sweeps' = ad_sweeps /\ ad_made' = ad_made /\ ad_gone' = ad_gone /\ ad_failed' = ad_failed
  BY DEF A!ClientDisconnect
<1>2. ks \in SUBSET Conns /\ \A j \in ks : ad_conn[j].live
  BY DEF AdmInv, SlotsOK, AdmittedOK
<1> HIDE DEF ks
<1>3. \A j \in Conns : IF j \in ks THEN ad_conn'[j] = A!Closing(ad_conn[j])
                       ELSE \E pc : /\ ad_conn'[j] = [ad_conn[j] EXCEPT !.pc = pc]
                                    /\ pc = ad_conn[j].pc \/ (pc \notin {"free", "hs", "drop", "end"} /\ ad_conn[j].pc # "hs")
  <2> TAKE j \in Conns
  <2>1. CASE j \in ks
    BY <1>1, <2>1
  <2>2. CASE j \notin ks
    <3>1. ad_conn'[j] = ad_conn[j] /\ IsConn(ad_conn[j])
      BY <1>1, <2>2, LinkOf
    <3>2. ad_conn'[j] = [ad_conn[j] EXCEPT !.pc = ad_conn[j].pc]
      BY <3>1, UnchangedConn
    <3> QED
      BY <2>2, <3>2
  <2> QED
    BY <2>1, <2>2
<1> QED
  BY <1>1, <1>2, <1>3, CloseStore

LEMMA DismissStore ==
    ASSUME AdmInv, SlotsOK', StoreInv, NEW k \in Conns, A!Dismiss(k)
    PROVE  StoreInv'
<1> DEFINE p == ad_conn[k].prev
           pc == IF ad_conn[p].live THEN "wait" ELSE "start"
           ks == IF ad_conn[p].live THEN {p} ELSE {}
<1>1. p \in Conns \ {k} /\ ad_conn[k].pc = "oust"
  BY DEF A!Dismiss, AdmInv, AdmittedOK
<1>2. /\ ad_conn' = [ad_conn EXCEPT ![k].pc = pc, ![p] = IF @.live THEN A!Closing(@) ELSE @]
      /\ ad_open' = ad_open /\ ad_prov' = ad_prov /\ ad_cut' = A!CutBy({p})
      /\ ad_recs' = ad_recs /\ ad_sweeps' = ad_sweeps /\ ad_made' = ad_made /\ ad_gone' = ad_gone /\ ad_failed' = ad_failed
  BY DEF A!Dismiss
<1>3. pc \in {"wait", "start"}
  OBVIOUS
<1>4. /\ ad_conn'[k] = [ad_conn[k] EXCEPT !.pc = pc]
      /\ ad_conn'[p] = IF ad_conn[p].live THEN A!Closing(ad_conn[p]) ELSE ad_conn[p]
      /\ \A j \in Conns \ {k, p} : ad_conn'[j] = ad_conn[j]
  <2> HIDE DEF pc
  <2>1. ConnsOK
    BY DEF AdmInv
  <2> HIDE DEF p
  <2> QED
    BY <1>1, <1>2, <2>1 DEF ConnsOK
<1>5. ks \in SUBSET Conns /\ \A j \in ks : ad_conn[j].live
  BY <1>1
<1>6. A!CutBy({p}) = A!CutBy(ks)
  <2>1. {j \in {p} : ad_conn[j].live /\ ad_conn[j].attempt = "save"} = {j \in ks : ad_conn[j].live /\ ad_conn[j].attempt = "save"}
    OBVIOUS
  <2> QED
    BY <2>1 DEF A!CutBy
<1>7. k \notin ks /\ \A j \in ks : j = p /\ ad_conn[p].live
  BY <1>1
<1>8. p \notin ks => ~ad_conn[p].live
  OBVIOUS
<1> HIDE DEF p, ks, pc
<1>9. \A j \in Conns : IF j \in ks THEN ad_conn'[j] = A!Closing(ad_conn[j])
                       ELSE \E q : /\ ad_conn'[j] = [ad_conn[j] EXCEPT !.pc = q]
                                   /\ q = ad_conn[j].pc \/ (q \notin {"free", "hs", "drop", "end"} /\ ad_conn[j].pc # "hs")
  <2> TAKE j \in Conns
  <2>1. CASE j \in ks
    BY <1>4, <1>7, <2>1
  <2>2. CASE j = k
    BY <1>1, <1>3, <1>4, <1>7, <2>2
  <2>3. CASE j \notin ks /\ j # k
    <3>1. ad_conn'[j] = ad_conn[j] /\ IsConn(ad_conn[j])
      BY <1>4, <1>8, <2>3, LinkOf
    <3>2. ad_conn'[j] = [ad_conn[j] EXCEPT !.pc = ad_conn[j].pc]
      BY <3>1, UnchangedConn
    <3> QED
      BY <2>3, <3>2
  <2> QED
    BY <2>1, <2>2, <2>3
<1> QED
  BY <1>2, <1>5, <1>6, <1>9, CloseStore

-----------------------------------------------------------------------------
(* Steps that change it.                                                     *)

\* One connection changes, and the store with it.
LEMMA LinksKeep ==
    ASSUME AdmInv, StoreInv, NEW k \in Conns, NEW x, ad_conn' = [ad_conn EXCEPT ![k] = x],
           ad_made' \in Nat, ad_made <= ad_made', Fits(x), Within(x, ad_made'),
           x.live => k \in ad_open', x.pc = "hs" => k \in ad_prov',
           ad_open \ {k} \in SUBSET ad_open', ad_prov \ {k} \in SUBSET ad_prov'
    PROVE  LinksOK'
<1>1. \A j \in Conns : ad_conn'[j] = IF j = k THEN x ELSE ad_conn[j]
  BY OneOf DEF AdmInv
<1>2. ad_made \in Nat
  BY DEF StoreInv, RecordsOK
<1>3. \A j \in Conns : Fits(ad_conn'[j]) /\ Within(ad_conn'[j], ad_made') /\ SlotOK(j)'
  <2> TAKE j \in Conns
  <2>1. CASE j = k
    BY <1>1, <2>1 DEF SlotOK
  <2>2. CASE j # k
    <3>1. ad_conn'[j] = ad_conn[j] /\ Fits(ad_conn[j]) /\ Within(ad_conn[j], ad_made) /\ SlotOK(j)
      BY <1>1, <2>2, LinkOf
    <3>2. Within(ad_conn[j], ad_made')
      BY <1>2, <3>1 DEF Within
    <3>3. SlotOK(j)'
      BY <2>2, <3>1 DEF SlotOK
    <3> QED
      BY <3>1, <3>2, <3>3
  <2> QED
    BY <2>1, <2>2
<1> QED
  BY <1>3 DEF LinksOK, SlotOK

\* What the connection that changes has found must be a record that stays.
LEMMA UsedKeep ==
    ASSUME AdmInv, StoreInv, NEW k \in Conns, NEW x, ad_conn' = [ad_conn EXCEPT ![k] = x],
           \A j \in Conns \ {k} : ~ad_conn[j].late =>
               /\ ad_conn[j].live /\ ad_conn[j].psk # 0 /\ ad_conn[j].psk \in Stays => ad_conn[j].psk \in Stays'
               /\ ad_conn[j].res # 0 /\ ad_conn[j].res \in Stays => ad_conn[j].res \in Stays',
           ~x.late => /\ x.live /\ x.psk # 0 => x.psk \in Stays'
                      /\ x.res # 0 => x.res \in Stays'
    PROVE  UsedOK'
<1>1. \A j \in Conns : ad_conn'[j] = IF j = k THEN x ELSE ad_conn[j]
  BY OneOf DEF AdmInv
<1>2. \A j \in Conns : ~ad_conn'[j].late =>
        /\ ad_conn'[j].live /\ ad_conn'[j].psk # 0 => ad_conn'[j].psk \in Stays'
        /\ ad_conn'[j].res # 0 => ad_conn'[j].res \in Stays'
  <2> TAKE j \in Conns
  <2>1. CASE j = k
    BY <1>1, <2>1
  <2>2. CASE j # k
    <3>1. ad_conn'[j] = ad_conn[j]
      BY <1>1, <2>2
    <3> QED
      BY <2>2, <3>1 DEF StoreInv, UsedOK
  <2> QED
    BY <2>1, <2>2
<1> QED
  BY <1>2 DEF UsedOK

\* As many records, or fewer, and as many being written.
LEMMA RoomKeeps ==
    ASSUME StoreInv, Len(ad_recs') \in Nat, Len(ad_recs') <= Len(ad_recs), Saving' = Saving, SlotsOK, ad_cut' = ad_cut
    PROVE  RoomOK'
<1>1. ad_cut \in Nat /\ Len(ad_recs) <= Capacity + ad_cut + Cardinality(Saving)
  BY RoomIs DEF StoreInv, RoomOK
<1>2. Cardinality(Saving) \in Nat /\ Len(ad_recs) \in Nat /\ Capacity \in Nat
  BY SavingIsFinite, SeqIs, AdmissionAssumption DEF StoreInv, RecordsOK
<1>3. Len(ad_recs') <= Capacity + ad_cut' + Cardinality(Saving')
  BY <1>1, <1>2
<1> QED
  BY <1>1, <1>3, RoomIsPrime DEF RoomOK

\* Fewer records, and the rest as it was.
LEMMA RecordsKeep ==
    ASSUME StoreInv, NEW rs, Store(rs), RecsOf(rs) \subseteq RecsOf(ad_recs), ad_recs' = rs, ad_made' = ad_made
    PROVE  /\ RecordsOK' /\ A!Superseded(ad_recs') \subseteq A!Superseded(ad_recs)
           /\ A!Ids(ad_recs') \subseteq A!Ids(ad_recs)
<1>1. A!Ids(rs) \subseteq A!Ids(ad_recs)
  BY IdsOf
<1>2. RecordsOK'
  BY <1>1 DEF StoreInv, RecordsOK, Store
<1> QED
  BY <1>1, <1>2, SupersededOf

LEMMA StoreIs ==
    ASSUME StoreInv
    PROVE  Store(ad_recs) /\ A!Ids(ad_recs) \in SUBSET (1..ad_made) /\ ad_made \in Nat /\ Len(ad_recs) \in Nat
BY SeqIs DEF StoreInv, RecordsOK, Store

LEMMA OfServerIs == \A rs, sv : A!OfServer(rs, sv) \subseteq A!Ids(rs)
BY DEF A!OfServer, A!Ids

LEMMA LateIs == A!Late <=> ad_sweeps # {} \/ Saving # {}
BY DEF A!Late, Saving

\* A record that is found while no removal is to come stays.
LEMMA FoundStays ==
    ASSUME NEW r \in A!Ids(ad_recs), ~A!Late
    PROVE  r \in Stays
BY DEF Stays, A!Late

\* A superseded record that loses a holder is swept, or its handshake failed.
LEMMA LeftKeep ==
    ASSUME AdmInv, StoreInv, NEW k \in Conns, NEW x, ad_conn' = [ad_conn EXCEPT ![k] = x],
           A!Superseded(ad_recs') \subseteq A!Superseded(ad_recs), ad_sweeps \subseteq ad_sweeps', ad_failed \subseteq ad_failed',
           \A r \in A!Superseded(ad_recs) : Holds(ad_conn[k], r) => Holds(x, r) \/ r \in ad_failed'
    PROVE  LeftOK'
<1>1. \A j \in Conns : ad_conn'[j] = IF j = k THEN x ELSE ad_conn[j]
  BY OneOf DEF AdmInv
<1> SUFFICES ASSUME NEW r \in A!Superseded(ad_recs')
             PROVE  r \in ad_failed' \/ (\E keep \in ad_sweeps' : r \notin keep) \/ \E j \in Conns : Holds(ad_conn'[j], r)
  BY DEF LeftOK
<1>2. r \in A!Superseded(ad_recs)
  OBVIOUS
<1>3. CASE r \in ad_failed \/ \E keep \in ad_sweeps : r \notin keep
  BY <1>3
<1>4. ASSUME NEW j \in Conns, Holds(ad_conn[j], r) PROVE r \in ad_failed' \/ \E i \in Conns : Holds(ad_conn'[i], r)
  BY <1>1, <1>2, <1>4
<1> QED
  BY <1>2, <1>3, <1>4 DEF StoreInv, LeftOK

LEMMA ResolveStore ==
    ASSUME AdmInv, SlotsOK', StoreInv, NEW k \in Conns, A!Resolve(k)
    PROVE  StoreInv'
<1> DEFINE w == ad_conn[k]
<1>1. PICK r \in A!OfServer(ad_recs, w.srv) : ad_conn' = [ad_conn EXCEPT ![k] = [w EXCEPT !.res = r, !.late = A!Late]]
  BY DEF A!Resolve
<1> DEFINE y == [w EXCEPT !.res = r, !.late = A!Late]
<1>2. w.pc = "hs" /\ w.res = 0 /\ UNCHANGED A!table /\ ad_open' = ad_open /\ ad_prov' = ad_prov
  BY DEF A!Resolve
<1>3. IsConn(w) /\ Fits(w) /\ Within(w, ad_made) /\ SlotOK(k) /\ w.live = FALSE /\ w.closing = FALSE
  BY <1>2, LinkOf
<1>4. /\ y.pc = "hs" /\ y.act = w.act /\ y.live = FALSE /\ y.closing = FALSE /\ y.psk = w.psk /\ y.res = r
      /\ y.attempt = w.attempt /\ y.prot = w.prot /\ y.late = A!Late
  BY <1>2, <1>3 DEF IsConn
<1>5. ad_conn' = [ad_conn EXCEPT ![k] = y]
  BY <1>1
<1> HIDE DEF y
<1>6. r \in A!Ids(ad_recs) /\ r \in 1..ad_made /\ ad_made \in Nat
  BY OfServerIs, StoreIs
<1>7. Fits(y) /\ Within(y, ad_made)
  <2>1. A!Late \in BOOLEAN
    BY DEF A!Late
  <2> QED
    BY <1>2, <1>3, <1>4, <1>6, <2>1 DEF Fits, Within
<1>8. /\ ad_recs' = ad_recs /\ ad_sweeps' = ad_sweeps /\ ad_made' = ad_made /\ ad_gone' = ad_gone
      /\ ad_failed' = ad_failed /\ ad_cut' = ad_cut
  BY <1>2 DEF A!table
<1>9. \A j \in Conns : ad_conn'[j] = IF j = k THEN y ELSE ad_conn[j]
  BY <1>5, OneOf DEF AdmInv
<1>10. Stays' = Stays
  <2>1. \A j \in Conns : ad_conn'[j].attempt = ad_conn[j].attempt /\ ad_conn'[j].prot = ad_conn[j].prot
    BY <1>4, <1>9
  <2> QED
    BY <1>8, <2>1 DEF Stays
<1>11. LinksOK'
  <2>1. /\ ad_made' \in Nat /\ ad_made <= ad_made' /\ Fits(y) /\ Within(y, ad_made')
        /\ (y.live => k \in ad_open') /\ (y.pc = "hs" => k \in ad_prov')
        /\ ad_open \ {k} \in SUBSET ad_open' /\ ad_prov \ {k} \in SUBSET ad_prov'
    BY <1>2, <1>3, <1>4, <1>6, <1>7, <1>8 DEF SlotOK
  <2> QED
    BY <1>5, <2>1, LinksKeep
<1>12. UsedOK'
  <2>1. ~y.late => r \in Stays'
    BY <1>4, <1>6, <1>10, FoundStays
  <2> QED
    BY <1>4, <1>5, <1>10, <2>1, UsedKeep
<1>13. LeftOK'
  <2>1. \A q \in A!Superseded(ad_recs) : q # 0
    BY StoreIs DEF A!Superseded
  <2>2. \A q \in A!Superseded(ad_recs) : ~Holds(w, q)
    BY <1>2, <1>3, <2>1 DEF Holds
  <2> QED
    BY <1>5, <1>8, <2>2, LeftKeep
<1>14. RoomOK'
  <2>1. Saving' = Saving
    BY <1>4, <1>9 DEF Saving
  <2> QED
    BY <1>8, <2>1, StoreIs, RoomKeeps DEF AdmInv
<1>15. RecordsOK'
  BY <1>8 DEF StoreInv, RecordsOK
<1> QED
  BY <1>11, <1>12, <1>13, <1>14, <1>15 DEF StoreInv

\* What is written and protected stays as it was.
LEMMA StaysKeep ==
    ASSUME AdmInv, NEW k \in Conns, NEW x, ad_conn' = [ad_conn EXCEPT ![k] = x],
           x.attempt = "save" => ad_conn[k].attempt = "save" /\ x.prot = ad_conn[k].prot,
           ad_sweeps' \subseteq ad_sweeps, A!Ids(ad_recs) \cup ad_gone \subseteq A!Ids(ad_recs') \cup ad_gone'
    PROVE  Stays \subseteq Stays'
<1>1. \A j \in Conns : ad_conn'[j] = IF j = k THEN x ELSE ad_conn[j]
  BY OneOf DEF AdmInv
<1>2. \A j \in Conns : ad_conn'[j].attempt = "save" => ad_conn[j].attempt = "save" /\ ad_conn'[j].prot = ad_conn[j].prot
  BY <1>1
<1> QED
  BY <1>2 DEF Stays

LEMMA SavingSame ==
    ASSUME AdmInv, NEW k \in Conns, NEW x, ad_conn' = [ad_conn EXCEPT ![k] = x],
           x.attempt = "save" <=> ad_conn[k].attempt = "save"
    PROVE  Saving' = Saving
<1>1. \A j \in Conns : ad_conn'[j] = IF j = k THEN x ELSE ad_conn[j]
  BY OneOf DEF AdmInv
<1> QED
  BY <1>1 DEF Saving

LEMMA HandshakeDoneStore ==
    ASSUME AdmInv, SlotsOK', StoreInv, NEW k \in Conns, A!HandshakeDone(k)
    PROVE  StoreInv'
<1> DEFINE w == ad_conn[k]
           x == [w EXCEPT !.pc = "up", !.live = TRUE, !.psk = w.res, !.res = 0]
           n == IF k \in ad_open THEN x ELSE A!Closing([x EXCEPT !.pc = "end"])
<1>1. /\ w.pc = "hs" /\ ad_open' = ad_open /\ ad_prov' = ad_prov /\ ad_conn' = [ad_conn EXCEPT ![k] = n]
      /\ ad_recs' = A!Used(ad_recs, w.res)
      /\ ad_sweeps' = ad_sweeps /\ ad_made' = ad_made /\ ad_gone' = ad_gone /\ ad_failed' = ad_failed /\ ad_cut' = ad_cut
  BY DEF A!HandshakeDone
<1>2. /\ IsConn(w) /\ Fits(w) /\ Within(w, ad_made) /\ SlotOK(k) /\ w.live = FALSE /\ w.closing = FALSE
      /\ w.attempt \notin {"on", "save"}
  BY <1>1, LinkOf
<1>3. /\ n.psk = w.res /\ n.res = 0 /\ n.act = w.act /\ n.late = w.late /\ n.prot \in SUBSET w.prot
      /\ n.attempt \in {w.attempt, "no"}
      /\ \/ n.live = TRUE /\ n.closing = FALSE /\ n.pc = "up" /\ k \in ad_open
         \/ n.live = FALSE /\ n.closing = TRUE /\ n.pc = "end"
  <2>1. CASE k \in ad_open
    <3>1. n = x
      BY <2>1
    <3>2. /\ x.psk = w.res /\ x.res = 0 /\ x.act = w.act /\ x.late = w.late /\ x.prot = w.prot
          /\ x.attempt = w.attempt /\ x.live = TRUE /\ x.closing = w.closing /\ x.pc = "up"
      BY <1>2 DEF IsConn
    <3> HIDE DEF n, x
    <3> QED
      BY <1>2, <2>1, <3>1, <3>2
  <2>2. CASE k \notin ad_open
    <3> DEFINE e == [x EXCEPT !.pc = "end"]
               z == A!Closing(e)
    <3>1. n = z
      BY <2>2
    <3>2. /\ z.psk = w.res /\ z.res = 0 /\ z.act = w.act /\ z.late = w.late /\ z.prot = {}
          /\ z.attempt = "no" /\ z.live = FALSE /\ z.closing = TRUE /\ z.pc = "end"
      BY <1>2 DEF IsConn, A!Closing
    <3> HIDE DEF n, z
    <3> QED
      BY <3>1, <3>2
  <2> QED
    BY <2>1, <2>2
<1> HIDE DEF n
<1>4. Fits(n)
  BY <1>1, <1>2, <1>3 DEF Fits
<1>5. ad_made \in Nat /\ ad_made <= ad_made
  BY StoreIs
<1>6. Within(n, ad_made')
  BY <1>1, <1>2, <1>3, <1>5 DEF Within
<1>7. /\ Store(ad_recs') /\ Len(ad_recs') = Len(ad_recs) /\ RecsOf(ad_recs') = RecsOf(ad_recs)
      /\ A!Ids(ad_recs') = A!Ids(ad_recs)
  BY <1>1, StoreIs, UsedIs
<1>8. RecordsOK' /\ A!Superseded(ad_recs') \subseteq A!Superseded(ad_recs)
  <2> DEFINE rs == ad_recs'
  <2>1. Store(rs) /\ RecsOf(rs) \subseteq RecsOf(ad_recs) /\ ad_recs' = rs
    BY <1>7
  <2> QED
    BY <1>1, <1>7, StoreIs, SupersededOf DEF RecordsOK, Store
<1>9. LinksOK'
  <2>1. /\ ad_made' \in Nat /\ ad_made <= ad_made'
        /\ (n.live => k \in ad_open') /\ (n.pc = "hs" => k \in ad_prov')
        /\ ad_open \ {k} \in SUBSET ad_open' /\ ad_prov \ {k} \in SUBSET ad_prov'
    BY <1>1, <1>3, <1>5
  <2> QED
    BY <1>1, <1>4, <1>6, <2>1, LinksKeep
<1>10. Stays \subseteq Stays'
  <2>1. n.attempt # "save"
    BY <1>2, <1>3
  <2> QED
    BY <1>1, <1>7, <2>1, StaysKeep
<1>11. UsedOK'
  <2>1. ~w.late /\ w.res # 0 => w.res \in Stays
    BY DEF StoreInv, UsedOK
  <2>2. ~n.late => (n.live /\ n.psk # 0 => n.psk \in Stays') /\ (n.res # 0 => n.res \in Stays')
    BY <1>3, <1>10, <2>1
  <2> QED
    BY <1>1, <1>10, <2>2, UsedKeep
<1>12. LeftOK'
  <2>1. \A r : Holds(n, r)
    BY <1>3 DEF Holds
  <2> QED
    BY <1>1, <1>8, <2>1, LeftKeep
<1>13. RoomOK'
  <2>1. Saving' = Saving
    BY <1>1, <1>2, <1>3, SavingSame
  <2> QED
    BY <1>1, <1>7, <2>1, StoreIs, RoomKeeps DEF AdmInv
<1> QED
  BY <1>8, <1>9, <1>11, <1>12, <1>13 DEF StoreInv

LEMMA HandshakeFailsStore ==
    ASSUME AdmInv, SlotsOK', StoreInv, NEW k \in Conns, A!HandshakeFails(k)
    PROVE  StoreInv'
<1> DEFINE w == ad_conn[k]
           n == A!NoConn
<1>1. /\ w.pc = "hs" /\ ad_open' = ad_open \ {k} /\ ad_prov' = ad_prov \ {k} /\ ad_conn' = [ad_conn EXCEPT ![k] = n]
      /\ ad_recs' = ad_recs /\ ad_failed' = ad_failed \cup ({w.res} \ {0})
      /\ ad_sweeps' = ad_sweeps /\ ad_made' = ad_made /\ ad_gone' = ad_gone /\ ad_cut' = ad_cut
  BY DEF A!HandshakeFails
<1>2. /\ IsConn(w) /\ Fits(w) /\ Within(w, ad_made) /\ w.live = FALSE /\ w.closing = FALSE /\ w.attempt \notin {"on", "save"}
  BY <1>1, LinkOf
<1>3. /\ n.psk = 0 /\ n.res = 0 /\ n.prot = {} /\ n.attempt = "no" /\ n.live = FALSE /\ n.closing = FALSE /\ n.pc = "free"
      /\ Fits(n)
  BY DEF A!NoConn, Fits
<1> HIDE DEF n
<1>5. ad_made \in Nat /\ ad_made <= ad_made
  BY StoreIs
<1>6. Within(n, ad_made')
  BY <1>1, <1>3, <1>5 DEF Within
<1>9. LinksOK'
  <2>1. /\ ad_made' \in Nat /\ ad_made <= ad_made'
        /\ (n.live => k \in ad_open') /\ (n.pc = "hs" => k \in ad_prov')
        /\ ad_open \ {k} \in SUBSET ad_open' /\ ad_prov \ {k} \in SUBSET ad_prov'
    BY <1>1, <1>3, <1>5
  <2> QED
    BY <1>1, <1>3, <1>6, <2>1, LinksKeep
<1>10. Stays \subseteq Stays'
  BY <1>1, <1>3, StaysKeep
<1>11. UsedOK'
  BY <1>1, <1>3, <1>10, UsedKeep
<1>12. LeftOK'
  <2>1. \A r \in A!Superseded(ad_recs) : r # 0
    BY StoreIs DEF A!Superseded
  <2>2. \A r \in A!Superseded(ad_recs) : Holds(w, r) => r \in ad_failed'
    BY <1>1, <1>2, <2>1 DEF Holds
  <2> QED
    BY <1>1, <2>2, LeftKeep
<1>13. RoomOK'
  <2>1. Saving' = Saving
    BY <1>1, <1>2, <1>3, SavingSame
  <2> QED
    BY <1>1, <2>1, StoreIs, RoomKeeps DEF AdmInv
<1>14. RecordsOK'
  BY <1>1 DEF StoreInv, RecordsOK
<1> QED
  BY <1>9, <1>11, <1>12, <1>13, <1>14 DEF StoreInv

LEMMA FinishCloseStore ==
    ASSUME AdmInv, SlotsOK', StoreInv, NEW k \in Conns, A!FinishClose(k)
    PROVE  StoreInv'
<1> DEFINE w == ad_conn[k]
           n == [w EXCEPT !.closing = FALSE, !.psk = 0, !.res = 0, !.act = "none",
                          !.pc = IF w.pc = "run" THEN "free" ELSE w.pc]
           others == (ad_open \cup ad_prov) \ {k}
           keep == (UNION {{ad_conn[j].psk, ad_conn[j].res} : j \in others}) \ {0}
<1>1. /\ w.closing /\ ad_open' = ad_open \ {k} /\ ad_prov' = ad_prov \ {k} /\ ad_conn' = [ad_conn EXCEPT ![k] = n]
      /\ ad_recs' = ad_recs /\ ad_failed' = ad_failed /\ ad_sweeps' = ad_sweeps \cup {keep}
      /\ ad_made' = ad_made /\ ad_gone' = ad_gone /\ ad_cut' = ad_cut
  BY DEF A!FinishClose
<1>2. /\ IsConn(w) /\ Fits(w) /\ Within(w, ad_made) /\ w.live = FALSE /\ w.pc # "hs" /\ w.attempt \notin {"on", "save"}
  BY <1>1, LinkOf DEF Fits, IsConn
<1>3. /\ n.psk = 0 /\ n.res = 0 /\ n.prot = w.prot /\ n.attempt = w.attempt /\ n.live = FALSE /\ n.closing = FALSE
      /\ n.late = w.late /\ n.pc # "hs"
  BY <1>2 DEF IsConn
<1> HIDE DEF n
<1>4. Fits(n)
  BY <1>2, <1>3 DEF Fits
<1>5. ad_made \in Nat /\ ad_made <= ad_made
  BY StoreIs
<1>6. Within(n, ad_made')
  BY <1>1, <1>2, <1>3, <1>5 DEF Within
<1>7. \A j \in Conns : ad_conn'[j] = IF j = k THEN n ELSE ad_conn[j]
  BY <1>1, OneOf DEF AdmInv
<1>8. \A j \in Conns \ {k} : /\ ad_conn[j].live => j \in others
                             /\ ad_conn[j].res # 0 => j \in others
  BY LinkOf DEF Fits, SlotOK
<1>9. LinksOK'
  <2>1. /\ ad_made' \in Nat /\ ad_made <= ad_made'
        /\ (n.live => k \in ad_open') /\ (n.pc = "hs" => k \in ad_prov')
        /\ ad_open \ {k} \in SUBSET ad_open' /\ ad_prov \ {k} \in SUBSET ad_prov'
    BY <1>1, <1>3, <1>5
  <2> QED
    BY <1>1, <1>4, <1>6, <2>1, LinksKeep
<1>10. \A r \in Stays : r \in keep => r \in Stays'
  <2>1. \A j \in Conns : ad_conn'[j].attempt = ad_conn[j].attempt /\ ad_conn'[j].prot = ad_conn[j].prot
    BY <1>3, <1>7
  <2> HIDE DEF keep
  <2> QED
    BY <1>1, <2>1 DEF Stays
<1>11. UsedOK'
  <2>1. \A j \in Conns \ {k} : /\ ad_conn[j].live /\ ad_conn[j].psk # 0 => ad_conn[j].psk \in keep
                               /\ ad_conn[j].res # 0 => ad_conn[j].res \in keep
    BY <1>8
  <2> HIDE DEF keep
  <2> QED
    BY <1>1, <1>3, <1>10, <2>1, UsedKeep
<1>12. LeftOK'
  <2> SUFFICES ASSUME NEW r \in A!Superseded(ad_recs)
               PROVE  r \in ad_failed' \/ (\E q \in ad_sweeps' : r \notin q) \/ \E j \in Conns : Holds(ad_conn'[j], r)
    BY <1>1 DEF LeftOK
  <2>1. r \in ad_failed \/ (\E q \in ad_sweeps : r \notin q) \/ \E j \in Conns : Holds(ad_conn[j], r)
    BY DEF StoreInv, LeftOK
  <2>2. CASE r \in keep
    <3>1. PICK j \in others : r \in {ad_conn[j].psk, ad_conn[j].res}
      BY <2>2
    <3>2. r # 0
      BY <2>2
    <3>3. j \in Conns /\ j # k
      BY DEF AdmInv, SlotsOK
    <3>4. Holds(ad_conn[j], r)
      BY <3>1, <3>2, <3>3, LinkOf DEF Holds, Fits
    <3> QED
      BY <1>7, <3>3, <3>4
  <2>3. CASE r \notin keep
    BY <1>1, <2>3
  <2> QED
    BY <2>2, <2>3
<1>13. RoomOK'
  <2>1. Saving' = Saving
    BY <1>1, <1>2, <1>3, SavingSame
  <2> QED
    BY <1>1, <2>1, StoreIs, RoomKeeps DEF AdmInv
<1>14. RecordsOK'
  BY <1>1 DEF StoreInv, RecordsOK
<1> QED
  BY <1>9, <1>11, <1>12, <1>13, <1>14 DEF StoreInv

LEMMA SweepStore ==
    ASSUME AdmInv, StoreInv, NEW keep \in ad_sweeps, A!Sweep(keep)
    PROVE  StoreInv'
<1> DEFINE out == A!Superseded(ad_recs) \ keep
<1>1. /\ ad_conn' = ad_conn /\ ad_open' = ad_open /\ ad_prov' = ad_prov /\ ad_recs' = A!Without(ad_recs, out)
      /\ ad_sweeps' = ad_sweeps \ {keep}
      /\ ad_made' = ad_made /\ ad_gone' = ad_gone /\ ad_failed' = ad_failed /\ ad_cut' = ad_cut
  BY DEF A!Sweep, A!Swept
<1>2. /\ Store(ad_recs') /\ Len(ad_recs') <= Len(ad_recs) /\ RecsOf(ad_recs') \subseteq RecsOf(ad_recs)
      /\ A!Ids(ad_recs') = A!Ids(ad_recs) \ out
  <2> HIDE DEF out
  <2> QED
    BY <1>1, StoreIs, WithoutIs
<1>3. RecordsOK' /\ A!Superseded(ad_recs') \subseteq A!Superseded(ad_recs)
  BY <1>1, <1>2, StoreIs, SupersededOf DEF RecordsOK, Store
<1>4. LinksOK'
  BY <1>1 DEF StoreInv, LinksOK, SlotOK
<1>5. Stays \subseteq Stays'
  BY <1>1, <1>2 DEF Stays
<1>6. UsedOK'
  BY <1>1, <1>5 DEF StoreInv, UsedOK
<1>7. LeftOK'
  <2> SUFFICES ASSUME NEW r \in A!Superseded(ad_recs')
               PROVE  r \in ad_failed \/ (\E q \in ad_sweeps' : r \notin q) \/ \E j \in Conns : Holds(ad_conn[j], r)
    BY <1>1 DEF LeftOK
  <2>1. r \in A!Superseded(ad_recs) /\ r \in A!Ids(ad_recs')
    BY <1>3 DEF A!Superseded
  <2>2. r \in keep
    BY <1>2, <2>1
  <2>3. r \in ad_failed \/ (\E q \in ad_sweeps : r \notin q) \/ \E j \in Conns : Holds(ad_conn[j], r)
    BY <2>1 DEF StoreInv, LeftOK
  <2> QED
    BY <1>1, <2>2, <2>3
<1>8. RoomOK'
  <2>1. Saving' = Saving
    BY <1>1 DEF Saving
  <2>2. Len(ad_recs') \in Nat
    BY <1>2, SeqIs DEF Store
  <2> QED
    BY <1>1, <1>2, <2>1, <2>2, RoomKeeps DEF AdmInv
<1> QED
  BY <1>3, <1>4, <1>6, <1>7, <1>8 DEF StoreInv

LEMMA ServerUnpairsStore ==
    ASSUME AdmInv, SlotsOK', StoreInv, NEW k \in Conns, A!ServerUnpairs(k)
    PROVE  StoreInv'
<1> DEFINE w == ad_conn[k]
           n == A!Closing(w)
<1>1. /\ w.pc = "run" /\ w.live /\ w.psk # 0 /\ ad_open' = ad_open /\ ad_prov' = ad_prov
      /\ ad_conn' = [ad_conn EXCEPT ![k] = n]
      /\ ad_recs' = A!Without(ad_recs, {w.psk}) /\ ad_gone' = ad_gone \cup {w.psk}
      /\ ad_sweeps' = ad_sweeps /\ ad_made' = ad_made /\ ad_failed' = ad_failed /\ ad_cut' = ad_cut
  BY DEF A!ServerUnpairs, A!Serving
<1>2. IsConn(w) /\ Fits(w) /\ Within(w, ad_made) /\ w.attempt # "save" /\ w.res = 0
  BY <1>1, LinkOf DEF Fits
<1>3. /\ n.psk = w.psk /\ n.res = 0 /\ n.prot = {} /\ n.attempt = "no" /\ n.live = FALSE /\ n.closing = TRUE
      /\ n.pc = "run" /\ Fits(n)
  BY <1>1, <1>2, ClosingCalm DEF IsConn, A!Closing
<1> HIDE DEF n
<1>4. ad_made \in Nat /\ ad_made <= ad_made
  BY StoreIs
<1>5. /\ Store(ad_recs') /\ Len(ad_recs') <= Len(ad_recs) /\ RecsOf(ad_recs') \subseteq RecsOf(ad_recs)
      /\ A!Ids(ad_recs') = A!Ids(ad_recs) \ {w.psk}
  BY <1>1, StoreIs, WithoutIs
<1>6. RecordsOK' /\ A!Superseded(ad_recs') \subseteq A!Superseded(ad_recs)
  BY <1>1, <1>5, StoreIs, SupersededOf DEF RecordsOK, Store
<1>7. LinksOK'
  <2>1. /\ ad_made' \in Nat /\ ad_made <= ad_made' /\ Within(n, ad_made')
        /\ (n.live => k \in ad_open') /\ (n.pc = "hs" => k \in ad_prov')
        /\ ad_open \ {k} \in SUBSET ad_open' /\ ad_prov \ {k} \in SUBSET ad_prov'
    BY <1>1, <1>2, <1>3, <1>4 DEF Within
  <2> QED
    BY <1>1, <1>3, <2>1, LinksKeep
<1>8. Stays \subseteq Stays'
  <2>1. A!Ids(ad_recs) \cup ad_gone \subseteq A!Ids(ad_recs') \cup ad_gone'
    BY <1>1, <1>5
  <2> QED
    BY <1>1, <1>3, <2>1, StaysKeep
<1>9. UsedOK'
  BY <1>1, <1>3, <1>8, UsedKeep
<1>10. LeftOK'
  <2>1. \A r : Holds(n, r)
    BY <1>3 DEF Holds
  <2> QED
    BY <1>1, <1>6, <2>1, LeftKeep
<1>11. RoomOK'
  <2>1. Saving' = Saving
    BY <1>1, <1>2, <1>3, SavingSame
  <2>2. Len(ad_recs') \in Nat
    BY <1>5, SeqIs DEF Store
  <2> QED
    BY <1>1, <1>5, <2>1, <2>2, RoomKeeps DEF AdmInv
<1> QED
  BY <1>6, <1>7, <1>9, <1>10, <1>11 DEF StoreInv

LEMMA RehandshakeStore ==
    ASSUME AdmInv, SlotsOK', StoreInv, NEW k \in Conns, NEW r \in A!Ids(ad_recs) \cup {0}, NEW a \in A!Activations,
           A!Rehandshake(k, r, a)
    PROVE  StoreInv'
<1> DEFINE w == ad_conn[k]
           y == [w EXCEPT !.psk = r, !.act = a, !.attempt = "no", !.late = A!Late,
                          !.young = FALSE, !.note = k = ad_adm /\ a = "playback" /\ ad_conn[k].srv # ad_last]
           e == [w EXCEPT !.psk = r]
           n == IF A!Admissible(w, r, a) THEN y ELSE A!Closing(e)
<1>1. /\ w.pc = "run" /\ w.live /\ w.attempt # "save" /\ ad_open' = ad_open /\ ad_prov' = ad_prov
      /\ ad_conn' = [ad_conn EXCEPT ![k] = n]
      /\ ad_recs' = A!Used(ad_recs, r) /\ ad_gone' = ad_gone
      /\ ad_sweeps' = ad_sweeps /\ ad_made' = ad_made /\ ad_failed' = ad_failed /\ ad_cut' = ad_cut
  BY DEF A!Rehandshake, A!Serving
<1>2. IsConn(w) /\ Fits(w) /\ Within(w, ad_made) /\ w.res = 0 /\ SlotOK(k)
  BY <1>1, LinkOf DEF Fits
<1>3. /\ n.psk = r /\ n.res = 0 /\ n.prot \in SUBSET w.prot /\ n.attempt = "no" /\ n.pc = "run"
      /\ \/ /\ n.live = TRUE /\ n.closing = w.closing /\ n.act = a /\ n.late = A!Late /\ A!Admissible(w, r, a)
         \/ n.live = FALSE /\ n.closing = TRUE /\ n.late = w.late
  <2>1. CASE A!Admissible(w, r, a)
    <3>1. n = y
      BY <2>1
    <3>2. /\ y.psk = r /\ y.res = w.res /\ y.prot = w.prot /\ y.attempt = "no" /\ y.pc = w.pc
          /\ y.live = w.live /\ y.closing = w.closing /\ y.act = a /\ y.late = A!Late
      BY <1>2 DEF IsConn
    <3>3. w.live = TRUE
      BY <1>1, <1>2 DEF IsConn
    <3> HIDE DEF n, y
    <3> QED
      BY <1>1, <1>2, <2>1, <3>1, <3>2, <3>3
  <2>2. CASE ~A!Admissible(w, r, a)
    <3> DEFINE z == A!Closing(e)
    <3>1. n = z
      BY <2>2
    <3>2. /\ z.psk = r /\ z.res = w.res /\ z.prot = {} /\ z.attempt = "no" /\ z.pc = w.pc
          /\ z.live = FALSE /\ z.closing = TRUE /\ z.late = w.late
      BY <1>2 DEF IsConn, A!Closing
    <3> HIDE DEF n, z
    <3> QED
      BY <1>1, <1>2, <3>1, <3>2
  <2> QED
    BY <2>1, <2>2
<1> HIDE DEF n
<1>4. ad_made \in Nat /\ ad_made <= ad_made /\ r \in 0..ad_made
  BY StoreIs
<1>5. /\ Store(ad_recs') /\ Len(ad_recs') = Len(ad_recs) /\ RecsOf(ad_recs') = RecsOf(ad_recs)
      /\ A!Ids(ad_recs') = A!Ids(ad_recs)
  BY <1>1, StoreIs, UsedIs
<1>6. RecordsOK' /\ A!Superseded(ad_recs') \subseteq A!Superseded(ad_recs)
  BY <1>1, <1>5, StoreIs, SupersededOf DEF RecordsOK, Store
<1>12. A!Late \in BOOLEAN
  BY DEF A!Late
<1>13. Fits(n)
  BY <1>1, <1>2, <1>3, <1>12 DEF Fits, A!Admissible
<1>7. LinksOK'
  <2>1. /\ ad_made' \in Nat /\ ad_made <= ad_made' /\ Within(n, ad_made')
        /\ (n.live => k \in ad_open') /\ (n.pc = "hs" => k \in ad_prov')
        /\ ad_open \ {k} \in SUBSET ad_open' /\ ad_prov \ {k} \in SUBSET ad_prov'
    BY <1>1, <1>2, <1>3, <1>4 DEF Within, SlotOK
  <2> QED
    BY <1>1, <1>13, <2>1, LinksKeep
<1>8. Stays \subseteq Stays'
  <2>1. A!Ids(ad_recs) \cup ad_gone \subseteq A!Ids(ad_recs') \cup ad_gone'
    BY <1>1, <1>5
  <2> QED
    BY <1>1, <1>3, <2>1, StaysKeep
<1>9. UsedOK'
  <2>1. ~A!Late /\ r # 0 => r \in Stays
    BY FoundStays
  <2>2. ~n.late => (n.live /\ n.psk # 0 => n.psk \in Stays') /\ (n.res # 0 => n.res \in Stays')
    BY <1>3, <1>8, <2>1
  <2> QED
    BY <1>1, <1>8, <2>2, UsedKeep
<1>10. LeftOK'
  <2>1. \A q : Holds(n, q)
    BY <1>3 DEF Holds
  <2> QED
    BY <1>1, <1>6, <2>1, LeftKeep
<1>11. RoomOK'
  <2>1. Saving' = Saving
    BY <1>1, <1>2, <1>3, SavingSame
  <2> QED
    BY <1>1, <1>5, <2>1, StoreIs, RoomKeeps DEF AdmInv
<1> QED
  BY <1>6, <1>7, <1>9, <1>10, <1>11 DEF StoreInv

LEMMA AcknowledgedStore ==
    ASSUME AdmInv, SlotsOK', StoreInv, NEW k \in Conns, A!Acknowledged(k)
    PROVE  StoreInv'
<1> DEFINE w == ad_conn[k]
           prot == A!Protected \cup {ad_made + 1}
           n == [w EXCEPT !.attempt = "save", !.prot = prot]
           rec == [id |-> ad_made + 1, srv |-> w.srv]
<1>1. /\ w.pc = "run" /\ w.live /\ w.attempt = "on" /\ ad_open' = ad_open /\ ad_prov' = ad_prov
      /\ ad_conn' = [ad_conn EXCEPT ![k] = n]
      /\ ad_recs' = Append(ad_recs, rec) /\ ad_made' = ad_made + 1 /\ ad_gone' = ad_gone
      /\ ad_sweeps' = ad_sweeps /\ ad_failed' = ad_failed /\ ad_cut' = ad_cut
  BY DEF A!Acknowledged, A!Serving
<1>2. IsConn(w) /\ Fits(w) /\ Within(w, ad_made) /\ SlotOK(k) /\ w.res = 0 /\ w.psk = 0
  BY <1>1, LinkOf DEF Fits
<1>3. /\ n.psk = 0 /\ n.res = 0 /\ n.prot = prot /\ n.attempt = "save" /\ n.pc = "run" /\ n.act = w.act
      /\ n.live = w.live /\ n.closing = w.closing /\ n.late = w.late
  BY <1>1, <1>2 DEF IsConn
<1> HIDE DEF n
<1>4. ad_made \in Nat /\ A!Ids(ad_recs) \in SUBSET (1..ad_made) /\ Store(ad_recs)
  BY StoreIs
<1>5. A!Protected \in SUBSET (1..ad_made)
  <2> SUFFICES ASSUME NEW r \in A!Protected PROVE r \in 1..ad_made
    OBVIOUS
  <2>1. PICK j \in ad_open \cup ad_prov : r \in {ad_conn[j].psk, ad_conn[j].res}
    BY DEF A!Protected
  <2>2. r # 0
    BY DEF A!Protected
  <2>3. j \in Conns
    BY DEF AdmInv, SlotsOK
  <2>4. Within(ad_conn[j], ad_made)
    BY <2>3, LinkOf
  <2> QED
    BY <1>4, <2>1, <2>2, <2>4 DEF Within
<1>6. \A j \in Conns : /\ ad_conn[j].live /\ ad_conn[j].psk # 0 => ad_conn[j].psk \in prot
                       /\ ad_conn[j].res # 0 => ad_conn[j].res \in prot
  <2> TAKE j \in Conns
  <2>1. Fits(ad_conn[j]) /\ SlotOK(j)
    BY LinkOf
  <2> QED
    BY <2>1 DEF Fits, SlotOK, A!Protected
<1>7. prot \in SUBSET (1..ad_made + 1)
  BY <1>4, <1>5
<1> HIDE DEF prot
<1>8. rec.id = ad_made + 1
  OBVIOUS
<1>9. rec.id \notin A!Ids(ad_recs)
  BY <1>4, <1>8
<1> HIDE DEF rec
<1>10. /\ Store(ad_recs') /\ Len(ad_recs') = Len(ad_recs) + 1
       /\ A!Ids(ad_recs') = A!Ids(ad_recs) \cup {ad_made + 1}
  BY <1>1, <1>4, <1>8, <1>9, AppendIs
<1>11. RecordsOK'
  BY <1>1, <1>4, <1>10 DEF RecordsOK, Store
<1>12. Fits(n)
  BY <1>1, <1>2, <1>3 DEF Fits
<1>13. LinksOK'
  <2>1. /\ ad_made' \in Nat /\ ad_made <= ad_made' /\ Within(n, ad_made')
        /\ (n.live => k \in ad_open') /\ (n.pc = "hs" => k \in ad_prov')
        /\ ad_open \ {k} \in SUBSET ad_open' /\ ad_prov \ {k} \in SUBSET ad_prov'
    BY <1>1, <1>2, <1>3, <1>4, <1>7 DEF Within, SlotOK
  <2> QED
    BY <1>1, <1>12, <2>1, LinksKeep
<1>14. \A j \in Conns : ad_conn'[j] = IF j = k THEN n ELSE ad_conn[j]
  BY <1>1, OneOf DEF AdmInv
<1>15. \A r \in Stays : r \in prot => r \in Stays'
  BY <1>1, <1>3, <1>10, <1>14 DEF Stays
<1>16. UsedOK'
  BY <1>1, <1>3, <1>6, <1>15, UsedKeep
<1>17. LeftOK'
  <2>1. Holds(ad_conn'[k], 0) /\ ad_conn'[k].live
    BY <1>1, <1>3, <1>14 DEF Holds
  <2>2. \A r : Holds(ad_conn'[k], r)
    BY <2>1 DEF Holds
  <2> QED
    BY <2>2 DEF LeftOK
<1>18. RoomOK'
  <2>1. Saving' = Saving \cup {k} /\ k \notin Saving
    BY <1>1, <1>3, <1>14 DEF Saving
  <2>2. IsFiniteSet(Saving) /\ Cardinality(Saving) \in Nat
    BY SavingIsFinite DEF AdmInv, StoreInv
  <2>3. Cardinality(Saving') = Cardinality(Saving) + 1
    BY <2>1, <2>2, FS_AddElement
  <2>4. ad_cut \in Nat /\ Len(ad_recs) <= Capacity + ad_cut + Cardinality(Saving)
    BY RoomIs DEF StoreInv, RoomOK
  <2>5. Len(ad_recs) \in Nat /\ Capacity \in Nat
    BY StoreIs, AdmissionAssumption
  <2>6. Len(ad_recs') <= Capacity + ad_cut' + Cardinality(Saving')
    BY <1>1, <1>10, <2>2, <2>3, <2>4, <2>5
  <2> QED
    BY <1>1, <2>4, <2>6, RoomIsPrime DEF RoomOK
<1> QED
  BY <1>11, <1>13, <1>16, <1>17, <1>18 DEF StoreInv

LEMMA RecordedStore ==
    ASSUME AdmInv, SlotsOK', StoreInv, NEW k \in Conns, A!Recorded(k)
    PROVE  StoreInv'
<1> DEFINE w == ad_conn[k]
           old == {r \in A!OfServer(ad_recs, w.srv) : r \notin w.prot}
           mid == A!Without(ad_recs, old)
           n == [w EXCEPT !.attempt = "done", !.prot = {}]
<1>1. /\ w.attempt = "save" /\ ad_open' = ad_open /\ ad_prov' = ad_prov /\ ad_conn' = [ad_conn EXCEPT ![k] = n]
      /\ ad_recs' = A!Trimmed(mid, w.prot) /\ ad_made' = ad_made /\ ad_gone' = ad_gone
      /\ ad_sweeps' = ad_sweeps /\ ad_failed' = ad_failed /\ ad_cut' = A!Above(A!Cardinality(w.prot), Capacity)
  BY DEF A!Recorded
<1>2. IsConn(w) /\ Fits(w) /\ Within(w, ad_made) /\ SlotOK(k) /\ w.live /\ w.pc = "run"
  BY <1>1, LinkOf
<1>3. /\ n.psk = w.psk /\ n.res = w.res /\ n.prot = {} /\ n.attempt = "done" /\ n.pc = w.pc /\ n.act = w.act
      /\ n.live = w.live /\ n.closing = w.closing /\ n.late = w.late
  BY <1>2 DEF IsConn
<1> HIDE DEF n
<1>4. ad_made \in Nat /\ A!Ids(ad_recs) \in SUBSET (1..ad_made) /\ Store(ad_recs)
  BY StoreIs
<1>5. old \cap w.prot = {}
  OBVIOUS
<1> HIDE DEF old
<1>6. Store(mid) /\ RecsOf(mid) \subseteq RecsOf(ad_recs) /\ A!Ids(mid) = A!Ids(ad_recs) \ old
  BY <1>4, WithoutIs
<1>7. w.prot \in SUBSET (1..ad_made) /\ IsFiniteSet(w.prot) /\ Cardinality(w.prot) \in Nat
  <2>1. w.prot \in SUBSET (1..ad_made)
    BY <1>2 DEF Within
  <2>2. IsFiniteSet(1..ad_made)
    BY <1>4, UpToN
  <2> QED
    BY <2>1, <2>2, FS_Subset, FS_CardinalityType
<1> HIDE DEF mid
<1>8. /\ Store(ad_recs') /\ RecsOf(ad_recs') \subseteq RecsOf(mid) /\ A!Ids(mid) \cap w.prot \subseteq A!Ids(ad_recs')
      /\ Len(ad_recs') <= Capacity \/ Len(ad_recs') <= Cardinality(w.prot)
  BY <1>1, <1>6, <1>7, TrimmedIs
<1>9. RecordsOK' /\ A!Superseded(ad_recs') \subseteq A!Superseded(ad_recs)
  <2>1. RecsOf(ad_recs') \subseteq RecsOf(ad_recs)
    BY <1>6, <1>8
  <2>2. A!Ids(ad_recs') \subseteq A!Ids(ad_recs)
    BY <2>1, IdsOf
  <2> QED
    BY <1>1, <1>4, <1>8, <2>1, <2>2, SupersededOf DEF RecordsOK, Store
<1>10. Fits(n) /\ Within(n, ad_made')
  BY <1>1, <1>2, <1>3 DEF Fits, Within
<1>11. LinksOK'
  <2>1. /\ ad_made' \in Nat /\ ad_made <= ad_made'
        /\ (n.live => k \in ad_open') /\ (n.pc = "hs" => k \in ad_prov')
        /\ ad_open \ {k} \in SUBSET ad_open' /\ ad_prov \ {k} \in SUBSET ad_prov'
    BY <1>1, <1>2, <1>3, <1>4 DEF SlotOK
  <2> QED
    BY <1>1, <1>10, <2>1, LinksKeep
<1>12. \A j \in Conns : ad_conn'[j] = IF j = k THEN n ELSE ad_conn[j]
  BY <1>1, OneOf DEF AdmInv
<1>13. Stays \subseteq Stays'
  <2> SUFFICES ASSUME NEW r \in Stays PROVE r \in Stays'
    OBVIOUS
  <2>1. r \in w.prot
    BY <1>1 DEF Stays
  <2>2. r \in A!Ids(ad_recs') \cup ad_gone'
    BY <1>1, <1>5, <1>6, <1>8, <2>1 DEF Stays
  <2>3. \A j \in Conns : ad_conn'[j].attempt = "save" => r \in ad_conn'[j].prot
    BY <1>3, <1>12 DEF Stays
  <2>4. \A keep \in ad_sweeps' : r \in keep
    BY <1>1 DEF Stays
  <2> QED
    BY <2>2, <2>3, <2>4 DEF Stays
<1>14. UsedOK'
  <2>1. ~n.late => (n.live /\ n.psk # 0 => n.psk \in Stays') /\ (n.res # 0 => n.res \in Stays')
    BY <1>3, <1>13 DEF StoreInv, UsedOK
  <2> QED
    BY <1>1, <1>13, <2>1, UsedKeep
<1>15. LeftOK'
  <2>1. \A r : Holds(n, r)
    BY <1>2, <1>3 DEF Holds
  <2> QED
    BY <1>1, <1>9, <2>1, LeftKeep
<1>16. RoomOK'
  <2>1. Saving' \in SUBSET Saving
    BY <1>3, <1>12 DEF Saving
  <2>2. IsFiniteSet(Saving) /\ Cardinality(Saving') \in Nat
    BY <2>1, SavingIsFinite, FS_Subset, FS_CardinalityType DEF AdmInv, StoreInv
  <2>3. Capacity \in Nat /\ Len(ad_recs') \in Nat
    BY <1>8, SeqIs, AdmissionAssumption DEF Store
  <2> DEFINE p == Cardinality(w.prot)
             len == Len(ad_recs')
  <2>4. ad_cut' = IF p > Capacity THEN p - Capacity ELSE 0
    BY <1>1, CardinalityIs DEF A!Above
  <2>5. p \in Nat /\ len \in Nat /\ (len <= Capacity \/ len <= p)
    BY <1>7, <1>8, <2>3
  <2> HIDE DEF p, len, w
  <2>6. ad_cut' \in Nat /\ len <= Capacity + ad_cut'
    BY <2>3, <2>4, <2>5
  <2>7. \A m \in Nat : len <= Capacity + ad_cut' + m
    <3> TAKE m \in Nat
    <3> DEFINE v == ad_cut'
    <3>1. v \in Nat /\ len <= Capacity + v
      BY <2>6
    <3> HIDE DEF v
    <3>2. len <= Capacity + v + m
      BY <2>3, <2>5, <3>1
    <3> QED
      BY <3>2 DEF v
  <2>8. Len(ad_recs') <= Capacity + ad_cut' + Cardinality(Saving')
    BY <2>2, <2>7 DEF len
  <2> QED
    BY <2>6, <2>8, RoomIsPrime DEF RoomOK
<1> QED
  BY <1>9, <1>11, <1>14, <1>15, <1>16 DEF StoreInv

LEMMA InitStore == A!Init => StoreInv
<1> SUFFICES ASSUME A!Init PROVE StoreInv
  OBVIOUS
<1>1. /\ ad_conn = [k \in Conns |-> A!NoConn] /\ ad_open = {} /\ ad_prov = {} /\ ad_sweeps = {} /\ ad_cut = 0
      /\ ad_recs = [i \in DOMAIN StoredABC |-> [id |-> i, srv |-> StoredABC[i]]] /\ ad_made = Len(StoredABC)
  BY DEF A!Init
<1>2. DOMAIN StoredABC = 1..3 /\ Len(StoredABC) = 3
  BY DEF StoredABC
<1>3. ad_made = 3 /\ DOMAIN ad_recs = 1..3 /\ \A i \in 1..3 : ad_recs[i].id = i
  BY <1>1, <1>2
<1>4. ad_recs \in Seq(RecsOf(ad_recs)) /\ Len(ad_recs) = 3
  <2>1. ad_recs \in [1..3 -> RecsOf(ad_recs)]
    BY <1>1, <1>2, <1>3 DEF RecsOf
  <2> DEFINE n == 3
  <2>2. ad_recs \in [1..n -> RecsOf(ad_recs)] /\ n \in Nat
    BY <2>1
  <2> HIDE DEF n
  <2>3. ad_recs \in Seq(RecsOf(ad_recs)) /\ Len(ad_recs) = n
    BY <2>2
  <2> QED
    BY <2>3 DEF n
<1>5. RecordsOK
  <2>1. IsSeq(ad_recs)
    BY <1>4 DEF IsSeq, RecsOf
  <2>2. Distinct(ad_recs) /\ A!Ids(ad_recs) \subseteq 1..3
    BY <1>3 DEF Distinct, A!Ids
  <2> QED
    BY <1>3, <2>1, <2>2 DEF RecordsOK, Store
<1>6. \A k \in Conns : ad_conn[k] = A!NoConn
  BY <1>1
<1>7. /\ Fits(A!NoConn) /\ Within(A!NoConn, 3) /\ A!NoConn.live = FALSE /\ A!NoConn.pc = "free"
      /\ A!NoConn.psk = 0 /\ A!NoConn.res = 0 /\ A!NoConn.attempt = "no"
  BY DEF Fits, Within, A!NoConn
<1>8. LinksOK
  BY <1>3, <1>6, <1>7 DEF LinksOK, SlotOK
<1>9. UsedOK
  BY <1>6, <1>7 DEF UsedOK
<1>10. LeftOK
  <2>1. A!Superseded(ad_recs) = {}
    <3> SUFFICES ASSUME NEW i \in 1..3, NEW j \in 1..3, ad_recs[j].srv = ad_recs[i].srv, j > i PROVE FALSE
      BY <1>3 DEF A!Superseded
    <3>1. StoredABC[i] = StoredABC[j]
      BY <1>1, <1>2
    <3> QED
      BY <3>1 DEF StoredABC
  <2> QED
    BY <2>1 DEF LeftOK
<1>11. RoomOK
  <2>1. Saving = {}
    BY <1>6, <1>7 DEF Saving
  <2>2. Cardinality(Saving) = 0
    BY <2>1, FS_EmptySet
  <2>3. Len(ad_recs) <= Capacity + ad_cut + Cardinality(Saving)
    BY <1>1, <1>2, <1>4, <2>2, AdmissionAssumption
  <2> QED
    BY <1>1, <2>3, RoomIs DEF RoomOK
<1> QED
  BY <1>5, <1>8, <1>9, <1>10, <1>11 DEF StoreInv

LEMMA NextStore ==
    ASSUME AdmInv, AdmInv', StoreInv, A!Next
    PROVE  StoreInv'
<1>0. SlotsOK'
  BY DEF AdmInv
<1>1. CASE \E k \in Conns, sv \in Servers : \E mode \in MCModes[sv] : A!Arrive(k, sv, mode)
  BY <1>0, <1>1, ArriveStore
<1>2. CASE \E k \in Conns : A!Resolve(k) \/ A!HandshakeDone(k) \/ A!HandshakeFails(k) \/ A!BringUpFails(k)
  BY <1>0, <1>2, ResolveStore, HandshakeDoneStore, HandshakeFailsStore, BringUpFailsStore
<1>3. CASE \E k \in Conns, a \in A!Activations : A!FirstActivate(k, a)
  BY <1>0, <1>3, FirstActivateStore
<1>4. CASE \E k \in Conns : A!Acquire(k) \/ A!Saved(k) \/ A!Dropped(k) \/ A!Dismiss(k) \/ A!Start(k)
  <2> SUFFICES ASSUME NEW k \in Conns, A!Acquire(k) \/ A!Saved(k) \/ A!Dropped(k) \/ A!Dismiss(k) \/ A!Start(k)
               PROVE  StoreInv'
    BY <1>4
  <2>1. A!Saved(k) => ad_conn[k].pc # "hs" /\ A!Install(k) /\ UNCHANGED A!table
    BY DEF A!Saved
  <2> QED
    BY <1>0, <2>1, AcquireStore, InstallStore, DroppedStore, DismissStore, StartStore
<1>5. CASE \E k \in Conns : A!Forget(k) \/ A!FinishClose(k)
  BY <1>0, <1>5, ForgetStore, FinishCloseStore
<1>6. CASE \E keep \in ad_sweeps : A!Sweep(keep)
  BY <1>6, SweepStore
<1>7. CASE \E k \in Conns, a \in A!Activations : A!ServerActivate(k, a)
  BY <1>0, <1>7, ServerActivateStore
<1>8. CASE \E k \in Conns : A!Noted(k) \/ A!BeginAttempt(k) \/ A!EndAttempt(k) \/ A!Acknowledged(k) \/ A!Recorded(k)
  BY <1>0, <1>8, NotedStore, BeginAttemptStore, EndAttemptStore, AcknowledgedStore, RecordedStore
<1>9. CASE \E k \in Conns, r \in A!Ids(ad_recs) \cup {0}, a \in A!Activations : A!Rehandshake(k, r, a)
  BY <1>0, <1>9, RehandshakeStore
<1>10. CASE \E k \in Conns : A!ServerUnpairs(k) \/ A!Lost(k)
  BY <1>0, <1>10, ServerUnpairsStore, LostStore
<1>11. CASE \E b \in BOOLEAN : A!SetUnpaired(b)
  <2>1. UNCHANGED <<ad_conn, ad_open, ad_prov>> /\ UNCHANGED A!table
    BY <1>11 DEF A!SetUnpaired
  <2> QED
    BY <2>1, StillStore
<1>12. CASE A!ConfigSaved \/ A!ClientDisconnect
  BY <1>0, <1>12, ConfigSavedStore, ClientDisconnectStore
<1> QED
  BY <1>1, <1>2, <1>3, <1>4, <1>5, <1>6, <1>7, <1>8, <1>9, <1>10, <1>11, <1>12 DEF A!Next

\* What the invariant says of the store is what is asked of it.
LEMMA StoreInvSays ==
    ASSUME AdmInv, StoreInv
    PROVE  A!RecordsDistinct /\ A!RecordKept /\ A!CapacityKept /\ A!NoLeftover
<1>1. A!RecordsDistinct
  BY StoreIs, DistinctIs, CardinalityIs DEF A!RecordsDistinct
<1>2. A!RecordKept
  <2>1. \A k \in Conns : ad_conn[k].live /\ ad_conn[k].psk # 0 /\ ~ad_conn[k].late =>
            ad_conn[k].psk \in A!Ids(ad_recs) \cup ad_gone
    BY DEF StoreInv, UsedOK, Stays
  <2> QED
    BY <2>1 DEF A!RecordKept
<1>3. A!CapacityKept
  BY DEF StoreInv, RoomOK
<1>4. A!NoLeftover
  <2> SUFFICES ASSUME ad_sweeps = {}, ad_open \cup ad_prov = {}, \A k \in Conns : ~ad_conn[k].closing,
                      NEW r \in A!Superseded(ad_recs)
               PROVE  r \in ad_failed
    BY DEF A!NoLeftover
  <2>1. r # 0
    BY StoreIs DEF A!Superseded
  <2>2. \A k \in Conns : ~Holds(ad_conn[k], r)
    <3> TAKE k \in Conns
    <3>1. Fits(ad_conn[k]) /\ SlotOK(k)
      BY LinkOf
    <3> QED
      BY <2>1, <3>1 DEF Fits, SlotOK, Holds
  <2> QED
    BY <2>2 DEF StoreInv, LeftOK
<1> QED
  BY <1>1, <1>2, <1>3, <1>4

-----------------------------------------------------------------------------
\* The store names no record twice, keeps the records its sessions run on until their server has
\* them removed, is over its capacity by no more than is being written, was interrupted or is
\* protected, and keeps no record that was superseded (replace_record_for_server_id,
\* remove_superseded_records, _evict_over_capacity, protected_psk_ids).
THEOREM StoreIsSound == MCSpec => []StoreSound
<1> DEFINE Inv == AdmInv /\ StoreInv
<1>1. MCInit => Inv
  BY InitIs, InitStore DEF MCInit
<1>2. Inv /\ [MCNext]_<<which, vars, admission>> => Inv'
  <2> SUFFICES ASSUME AdmInv, StoreInv, [MCNext]_<<which, vars, admission>>
        PROVE  AdmInv' /\ StoreInv'
    OBVIOUS
  <2>1. CASE A!Next
    BY <2>1, NextKeeps, NextStore
  <2>2. CASE UNCHANGED admission
    <3>1. UNCHANGED <<ad_conn, ad_adm, ad_open, ad_prov, ad_lock, ad_shut, ad_unp>> /\ UNCHANGED A!table
      BY <2>2 DEF admission, A!table
    <3> QED
      BY <3>1, StillKeeps, StillStore
  <2> QED
    BY <2>1, <2>2 DEF MCNext
<1>3. Inv => StoreSound
  BY StoreInvSays DEF StoreSound
<1> QED
  BY <1>1, <1>2, <1>3, PTL DEF MCSpec

-----------------------------------------------------------------------------
(* Pairing over one connection: the inductive invariant.                     *)

Psks == {Sentinel, PairingPsk} \cup {LongTerm(n) : n \in 1..MaxPsk}

ClientStates ==
    [pc : {"none", "gate", "init", "share", "confirm", "fin"}, psk : Psks, key : Nat, idx : Nat,
     quiet : BOOLEAN, pairing : BOOLEAN, meth : Methods \cup {"none"}, play : BOOLEAN, roles : BOOLEAN,
     ok : BOOLEAN, cancellable : BOOLEAN, fin : 0..MaxPsk]

Stores ==
    [srec : 0..MaxPsk, crec : SUBSET (1..MaxPsk), ever : SUBSET (1..MaxPsk), made : 0..MaxPsk, keys : Nat,
     rounds : 0..RoundLimit, trusted : BOOLEAN]

Exchange == {"sinit", "sauth", "sconfirm", "sfinal"}

DownFrames ==
    [t : {"activate"}, key : Nat, pairing : BOOLEAN, meth : Methods \cup {"none"}, play : BOOLEAN,
     roles : {"set", "none", "keep"}]
    \cup [t : {"unpair", "sinit", "sconfirm", "sfinal", "abort"}, key : Nat]
    \cup [t : {"sauth"}, key : Nat, ok : BOOLEAN]
    \cup [t : {"hs1"}, key : Nat, psk : Psks]

\* What was queued while the writer was paused: an activation, or nothing.
Stales == {<<>>} \cup {<<f>> : f \in {g \in DownFrames : g.t = "activate" /\ ~g.pairing}}

ServerStates ==
    [pc : Exchanging \cup InHandshake \cup {"idle", "ack"}, psk : Psks, key : Nat, idx : Nat, in : BOOLEAN,
     moved : BOOLEAN, mismatch : BOOLEAN, cut : BOOLEAN, dial : BOOLEAN, meth : Methods \cup {"none"},
     target : Psks, first : BOOLEAN, play : BOOLEAN, roles : BOOLEAN, trusted : BOOLEAN, unpair : BOOLEAN,
     stale : Stales, behind : BOOLEAN, early : BOOLEAN]

UpFrames ==
    [t : {"hs2"}, key : Nat, new : Nat]
    \cup [t : {"pinit", "pending"}, key : Nat, idx : Nat]
    \cup [t : {"cauth", "cconfirm", "retry", "abort"}, key : Nat]
    \cup [t : {"finalize"}, key : Nat, psk : 1..MaxPsk]

\* What a queue holds.
Said(q) == {q[i].t : i \in 1..Len(q)}
Asked(q) == Said(q) \cap Exchange
Admitting(f) == f.t = "activate" /\ f.pairing
Pairings(q) == {i \in 1..Len(q) : Admitting(q[i])}

\* A frame of the session the server has, none of a handshake; it admits what the credential is for.
DownFit(f, x) ==
    /\ f.key = x.key /\ f.t # "hs1"
    /\ Admitting(f) => x.psk.cat # "lt" /\ f.meth \in Methods /\ (f.meth = "psk" <=> x.psk = PairingPsk)

First(f) == f.t \in {"pinit", "pending"}

UpFit(f, x, d) == f.key = x.key /\ f.t # "hs2" /\ (First(f) => f.idx <= d.idx)

\* The messages of an exchange come before whatever ends it, and one at a time, but for a code
\* that follows server/pair-init.
InTurn(q) ==
    \A i, j \in 1..Len(q) : i < j /\ q[j].t \in Exchange =>
        q[i].t = "unpair" \/ (q[i].t = "sinit" /\ q[j].t = "sauth")

\* The client waits for what is on the way.
Awaits(d, e) ==
    /\ d.pc = "gate" => e = {}
    /\ d.pc = "init" => e \subseteq (IF d.meth = "dynamic" THEN {"sinit", "sauth"}
                                     ELSE IF d.meth = "static" THEN {"sauth"} ELSE {})
    /\ d.pc = "init" /\ d.meth = "dynamic" /\ "sauth" \in e => "sinit" \in e
    /\ d.pc = "share" => e \subseteq {"sauth"} /\ d.meth = "dynamic"
    /\ d.pc = "confirm" => e \subseteq {"sconfirm"}
    /\ d.pc = "fin" => e \subseteq {"sfinal"} /\ d.fin \in 1..MaxPsk

\* After a handshake the client takes a server/activate, and nothing else.
Quiet(d, q) == d.quiet => d.pc = "none" /\ (q # <<>> => q[1].t = "activate")

\* Both ends are in one session, and no handshake is under way.
Steady(x, d, q, r) ==
    /\ x.key = d.key /\ x.psk = d.psk
    /\ x.idx = d.idx + Cardinality(Pairings(q))
    /\ \A i \in 1..Len(q) : DownFit(q[i], x)
    /\ \A i \in 1..Len(r) : UpFit(r[i], x, d)
    /\ Quiet(d, q)
    /\ InTurn(q)
    /\ Awaits(d, Asked(q))

\* What a state of the server holds.
LEMMA ServerIs ==
    ASSUME NEW x \in ServerStates
    PROVE  /\ x.pc \in Exchanging \cup InHandshake \cup {"idle", "ack"} /\ x.psk \in Psks /\ x.key \in Nat
           /\ x.idx \in Nat /\ x.in \in BOOLEAN /\ x.moved \in BOOLEAN /\ x.mismatch \in BOOLEAN
           /\ x.cut \in BOOLEAN /\ x.dial \in BOOLEAN /\ x.meth \in Methods \cup {"none"} /\ x.target \in Psks
           /\ x.first \in BOOLEAN /\ x.play \in BOOLEAN /\ x.roles \in BOOLEAN /\ x.trusted \in BOOLEAN
           /\ x.unpair \in BOOLEAN /\ x.stale \in Stales /\ x.behind \in BOOLEAN /\ x.early \in BOOLEAN
BY DEF ServerStates

\* What a frame to the client holds.
LEMMA FrameIs ==
    ASSUME NEW f \in DownFrames
    PROVE  /\ f.t \in Exchange \cup {"activate", "unpair", "abort", "hs1"} /\ f.key \in Nat
           /\ f.t = "activate" => f.pairing \in BOOLEAN /\ f.play \in BOOLEAN /\ f.roles \in {"set", "none", "keep"}
                                  /\ f.meth \in Methods \cup {"none"}
           /\ f.t = "sauth" => f.ok \in BOOLEAN
           /\ f.t = "hs1" => f.psk \in Psks
BY DEF DownFrames, Exchange

\* What a frame to the server holds.
LEMMA UpFrameIs ==
    ASSUME NEW f \in UpFrames
    PROVE  /\ f.t \in {"hs2", "pinit", "pending", "cauth", "cconfirm", "retry", "abort", "finalize"} /\ f.key \in Nat
           /\ f.t = "hs2" => f.new \in Nat
           /\ First(f) => f.idx \in Nat
           /\ f.t = "finalize" => f.psk \in 1..MaxPsk
BY DEF UpFrames, First

-----------------------------------------------------------------------------
(* Queues.                                                                   *)

\* What a queue holds once a frame is sent.
LEMMA AppendHas ==
    ASSUME NEW S, NEW q \in Seq(S), NEW f \in S
    PROVE  /\ Append(q, f) \in Seq(S) /\ Len(Append(q, f)) = Len(q) + 1 /\ Append(q, f) # <<>>
           /\ \A i \in 1..Len(q) : Append(q, f)[i] = q[i]
           /\ Append(q, f)[Len(q) + 1] = f
           /\ q \o <<f>> = Append(q, f)
OBVIOUS

\* What a queue holds once a frame is read.
LEMMA TailHas ==
    ASSUME NEW S, NEW q \in Seq(S), q # <<>>
    PROVE  /\ Tail(q) \in Seq(S) /\ Len(Tail(q)) = Len(q) - 1 /\ Len(q) >= 1 /\ Head(q) \in S /\ Head(q) = q[1]
           /\ \A i \in 1..(Len(q) - 1) : Tail(q)[i] = q[i + 1]
OBVIOUS

\* Two frames sent at once are sent one after the other.
LEMMA TwoMore ==
    ASSUME NEW S, NEW q \in Seq(S), NEW f \in S, NEW g \in S
    PROVE  q \o <<f, g>> = Append(Append(q, f), g)
OBVIOUS

\* One more frame behind several.
LEMMA OneMore ==
    ASSUME NEW S, NEW q \in Seq(S), NEW a \in Seq(S), NEW u \in S
    PROVE  q \o (a \o <<u>>) = Append(q \o a, u) /\ a \o <<u>> \in Seq(S)
OBVIOUS

\* A frame sent behind others is not the one read.
LEMMA TailOfAppend ==
    ASSUME NEW S, NEW q \in Seq(S), NEW f \in S
    PROVE  IF q = <<>> THEN Tail(Append(q, f)) = <<>> /\ Head(Append(q, f)) = f
           ELSE Tail(Append(q, f)) = Append(Tail(q), f) /\ Head(Append(q, f)) = Head(q)
OBVIOUS

\* Sending adds to what is said.
LEMMA SaidMore ==
    ASSUME NEW S, NEW q \in Seq(S), NEW f \in S
    PROVE  Said(Append(q, f)) = Said(q) \cup {f.t}
<1>1. \A i \in 1..Len(q) : Append(q, f)[i] = q[i]
  BY AppendHas
<1>2. Len(Append(q, f)) = Len(q) + 1 /\ Append(q, f)[Len(q) + 1] = f /\ Len(q) \in Nat
  BY AppendHas
<1> QED
  BY <1>1, <1>2 DEF Said

\* Reading takes from what is said.
LEMMA SaidLess ==
    ASSUME NEW S, NEW q \in Seq(S), q # <<>>
    PROVE  Said(q) = Said(Tail(q)) \cup {Head(q).t}
<1>1. Len(Tail(q)) = Len(q) - 1 /\ Len(q) >= 1 /\ Head(q) = q[1] /\ Len(q) \in Nat
  BY TailHas
<1>2. \A i \in 1..Len(Tail(q)) : i + 1 \in 1..Len(q) /\ Tail(q)[i] = q[i + 1]
  BY TailHas, <1>1
<1>3. \A i \in 1..Len(q) : i = 1 \/ (i - 1 \in 1..Len(Tail(q)) /\ Tail(q)[i - 1] = q[i])
  BY <1>1, <1>2
<1> QED
  BY <1>1, <1>2, <1>3 DEF Said

\* An empty queue says nothing.
LEMMA SaidNothing == Said(<<>>) = {} /\ Pairings(<<>>) = {} /\ Cardinality(Pairings(<<>>)) = 0
<1>1. Said(<<>>) = {} /\ Pairings(<<>>) = {}
  BY DEF Said, Pairings
<1> QED
  BY <1>1, FS_EmptySet

\* The admissions in a queue can be counted.
LEMMA PairingsFinite ==
    ASSUME NEW S, NEW q \in Seq(S)
    PROVE  IsFiniteSet(Pairings(q)) /\ Cardinality(Pairings(q)) \in Nat
<1>1. IsFiniteSet(1..Len(q))
  BY FS_Interval
<1> QED
  BY <1>1, FS_Subset, FS_CardinalityType DEF Pairings

\* Sending an admission adds one to the count.
LEMMA PairingsMore ==
    ASSUME NEW S, NEW q \in Seq(S), NEW f \in S
    PROVE  Cardinality(Pairings(Append(q, f))) = Cardinality(Pairings(q)) + (IF Admitting(f) THEN 1 ELSE 0)
<1>1. Pairings(Append(q, f)) = Pairings(q) \cup (IF Admitting(f) THEN {Len(q) + 1} ELSE {})
  BY AppendHas DEF Pairings
<1>2. Len(q) \in Nat /\ Len(q) + 1 \notin Pairings(q)
  BY DEF Pairings
<1>3. IsFiniteSet(Pairings(q)) /\ Cardinality(Pairings(q)) \in Nat
  BY PairingsFinite
<1>4. CASE Admitting(f)
  <2>1. Cardinality(Pairings(q) \cup {Len(q) + 1}) = Cardinality(Pairings(q)) + 1
    BY <1>2, <1>3, FS_AddElement
  <2> QED
    BY <1>1, <1>4, <2>1
<1>5. CASE ~Admitting(f)
  <2>1. Pairings(Append(q, f)) = Pairings(q)
    BY <1>1, <1>5
  <2> QED
    BY <1>3, <1>5, <2>1
<1> QED
  BY <1>4, <1>5

\* Reading an admission takes one from the count.
LEMMA PairingsLess ==
    ASSUME NEW S, NEW q \in Seq(S), q # <<>>
    PROVE  Cardinality(Pairings(Tail(q))) = Cardinality(Pairings(q)) - (IF Admitting(Head(q)) THEN 1 ELSE 0)
<1> DEFINE A1 == Pairings(Tail(q))
           B1 == Pairings(q) \ {1}
           g == [i \in A1 |-> i + 1]
<1>1. Len(Tail(q)) = Len(q) - 1 /\ Len(q) >= 1 /\ Head(q) = q[1] /\ Len(q) \in Nat
  BY TailHas
<1>2. \A i \in 1..Len(Tail(q)) : Tail(q)[i] = q[i + 1]
  BY TailHas, <1>1
<1>3. \A i \in A1 : i \in Int /\ i + 1 \in B1
  BY <1>1, <1>2 DEF Pairings
<1>4. \A j \in B1 : j \in Int /\ j - 1 \in A1
  BY <1>1, <1>2 DEF Pairings
<1>5. g \in Bijection(A1, B1)
  <2>1. g \in [A1 -> B1]
    BY <1>3
  <2>2. \A a, b \in A1 : g[a] = g[b] => a = b
    BY <1>3
  <2>3. \A j \in B1 : \E i \in A1 : g[i] = j
    <3> SUFFICES ASSUME NEW j \in B1 PROVE \E i \in A1 : g[i] = j
      OBVIOUS
    <3>1. j - 1 \in A1 /\ g[j - 1] = j
      BY <1>4
    <3> QED
      BY <3>1
  <2> QED
    BY <2>1, <2>2, <2>3, Fun_IsBij
<1>6. IsFiniteSet(A1) /\ Cardinality(A1) = Cardinality(B1)
  <2>1. IsFiniteSet(A1)
    BY PairingsFinite, TailHas
  <2> QED
    BY <2>1, <1>5, FS_Bijection DEF ExistsBijection
<1>7. 1 \in Pairings(q) <=> Admitting(Head(q))
  BY <1>1 DEF Pairings
<1>8. Cardinality(B1) = Cardinality(Pairings(q)) - (IF Admitting(Head(q)) THEN 1 ELSE 0)
  <2>1. CASE 1 \in Pairings(q)
    BY <2>1, <1>7, PairingsFinite, FS_RemoveElement
  <2>2. CASE 1 \notin Pairings(q)
    <3>1. B1 = Pairings(q)
      BY <2>2
    <3>2. Cardinality(Pairings(q)) \in Nat
      BY PairingsFinite
    <3>3. ~Admitting(Head(q))
      BY <2>2, <1>7
    <3>4. Cardinality(B1) = Cardinality(Pairings(q))
      BY <3>1
    <3> QED
      BY <3>2, <3>3, <3>4
  <2> QED
    BY <2>1, <2>2
<1> QED
  BY <1>6, <1>8

-----------------------------------------------------------------------------
(* One session, sending and reading.                                         *)

\* What of the server a steady session depends on.
LEMMA SteadyServer ==
    ASSUME NEW x, NEW y, NEW d, NEW q, NEW r, Steady(x, d, q, r),
           y.key = x.key, y.psk = x.psk, y.idx = x.idx
    PROVE  Steady(y, d, q, r)
BY DEF Steady, DownFit, UpFit

\* Sending adds to what is asked of the client.
LEMMA AskedMore ==
    ASSUME NEW q \in Seq(DownFrames), NEW f \in DownFrames
    PROVE  Asked(Append(q, f)) = Asked(q) \cup ({f.t} \cap Exchange)
BY SaidMore DEF Asked

\* Reading takes from what is asked of the client.
LEMMA AskedLess ==
    ASSUME NEW q \in Seq(DownFrames), q # <<>>
    PROVE  /\ Asked(q) = Asked(Tail(q)) \cup ({Head(q).t} \cap Exchange)
           /\ Said(q) = Said(Tail(q)) \cup {Head(q).t}
BY SaidLess DEF Asked

\* What is asked is somewhere in the queue.
LEMMA AskedIn ==
    ASSUME NEW q \in Seq(DownFrames), NEW t \in Asked(q)
    PROVE  \E j \in 1..Len(q) : q[j].t = t /\ t \in Exchange
BY DEF Asked, Said

\* What follows a message of the exchange, by the order the server sends them in.
LEMMA TurnOver ==
    ASSUME NEW q \in Seq(DownFrames), q # <<>>, InTurn(q)
    PROVE  /\ InTurn(Tail(q))
           /\ Head(q).t \notin {"unpair", "sinit"} => Asked(Tail(q)) = {}
           /\ Head(q).t = "sinit" => Asked(Tail(q)) \subseteq {"sauth"}
<1>1. /\ Tail(q) \in Seq(DownFrames) /\ Len(Tail(q)) = Len(q) - 1 /\ Len(q) >= 1 /\ Head(q) = q[1] /\ Len(q) \in Nat
      /\ \A i \in 1..Len(Tail(q)) : i + 1 \in 1..Len(q) /\ Tail(q)[i] = q[i + 1]
  BY TailHas
<1>2. InTurn(Tail(q))
  <2> SUFFICES ASSUME NEW i \in 1..Len(Tail(q)), NEW j \in 1..Len(Tail(q)), i < j, Tail(q)[j].t \in Exchange
               PROVE  Tail(q)[i].t = "unpair" \/ (Tail(q)[i].t = "sinit" /\ Tail(q)[j].t = "sauth")
    BY DEF InTurn
  <2>1. i + 1 \in 1..Len(q) /\ j + 1 \in 1..Len(q) /\ i + 1 < j + 1
    BY <1>1
  <2> QED
    BY <2>1, <1>1 DEF InTurn
<1>3. \A t \in Asked(Tail(q)) : q[1].t = "unpair" \/ (q[1].t = "sinit" /\ t = "sauth")
  <2> SUFFICES ASSUME NEW t \in Asked(Tail(q)) PROVE q[1].t = "unpair" \/ (q[1].t = "sinit" /\ t = "sauth")
    OBVIOUS
  <2>1. PICK j \in 1..Len(Tail(q)) : Tail(q)[j].t = t /\ t \in Exchange
    BY AskedIn, <1>1
  <2>2. j + 1 \in 1..Len(q) /\ 1 \in 1..Len(q) /\ 1 < j + 1 /\ q[j + 1].t = t
    BY <2>1, <1>1
  <2> QED
    BY <2>1, <2>2 DEF InTurn
<1> QED
  BY <1>1, <1>2, <1>3

\* An activation, an unpair or an abort goes out; the first thing after a handshake is an activation.
LEMMA SendPlain ==
    ASSUME NEW x, NEW y, NEW d \in ClientStates, NEW q \in Seq(DownFrames), NEW r, NEW f \in DownFrames, Steady(x, d, q, r),
           f.key = x.key, f.t \in {"activate", "unpair", "abort"}, ~Admitting(f),
           y.key = x.key, y.psk = x.psk, y.idx = x.idx,
           d.quiet /\ q = <<>> => f.t = "activate"
    PROVE  Steady(y, d, Append(q, f), r) /\ Append(q, f) \in Seq(DownFrames) /\ Append(q, f) # <<>>
<1>1. /\ Append(q, f) \in Seq(DownFrames) /\ Len(Append(q, f)) = Len(q) + 1 /\ Len(q) \in Nat /\ Append(q, f) # <<>>
      /\ \A i \in 1..Len(q) : Append(q, f)[i] = q[i]
      /\ Append(q, f)[Len(q) + 1] = f
  BY AppendHas
<1>2. Asked(Append(q, f)) = Asked(q)
  BY AskedMore DEF Exchange
<1>3. Cardinality(Pairings(Append(q, f))) = Cardinality(Pairings(q))
  BY PairingsMore, PairingsFinite
<1>4. \A i \in 1..Len(Append(q, f)) : DownFit(Append(q, f)[i], y)
  BY <1>1 DEF Steady, DownFit
<1>5. Quiet(d, Append(q, f))
  BY <1>1 DEF Steady, Quiet
<1>6. InTurn(Append(q, f))
  BY <1>1 DEF Steady, InTurn, Exchange
<1>7. \A i \in 1..Len(r) : UpFit(r[i], y, d)
  BY DEF Steady, UpFit
<1> QED
  BY <1>1, <1>2, <1>3, <1>4, <1>5, <1>6, <1>7 DEF Steady

\* A pairing activation admits one more attempt.
LEMMA SendAdmitting ==
    ASSUME NEW x, NEW y, NEW d \in ClientStates, NEW q \in Seq(DownFrames), NEW r, NEW f \in DownFrames, Steady(x, d, q, r),
           f.key = x.key, Admitting(f), f.meth \in Methods, x.psk.cat # "lt", f.meth = "psk" <=> x.psk = PairingPsk,
           y.key = x.key, y.psk = x.psk, y.idx = x.idx + 1
    PROVE  Steady(y, d, Append(q, f), r) /\ Append(q, f) \in Seq(DownFrames) /\ Append(q, f) # <<>>
<1>1. /\ Append(q, f) \in Seq(DownFrames) /\ Len(Append(q, f)) = Len(q) + 1 /\ Len(q) \in Nat /\ Append(q, f) # <<>>
      /\ \A i \in 1..Len(q) : Append(q, f)[i] = q[i]
      /\ Append(q, f)[Len(q) + 1] = f
  BY AppendHas
<1>2. Asked(Append(q, f)) = Asked(q) /\ f.t = "activate"
  BY AskedMore DEF Exchange, Admitting
<1>3. Cardinality(Pairings(Append(q, f))) = Cardinality(Pairings(q)) + 1 /\ Cardinality(Pairings(q)) \in Nat
  BY PairingsMore, PairingsFinite
<1>4. \A i \in 1..Len(Append(q, f)) : DownFit(Append(q, f)[i], y)
  BY <1>1, <1>2 DEF Steady, DownFit
<1>5. Quiet(d, Append(q, f))
  BY <1>1, <1>2 DEF Steady, Quiet
<1>6. InTurn(Append(q, f))
  BY <1>1, <1>2 DEF Steady, InTurn, Exchange
<1>7. \A i \in 1..Len(r) : UpFit(r[i], y, d)
  BY DEF Steady, UpFit
<1>9. y.idx = d.idx + Cardinality(Pairings(Append(q, f))) /\ y.key = d.key /\ y.psk = d.psk
  BY <1>3 DEF Steady, ClientStates
<1> QED
  BY <1>1, <1>2, <1>4, <1>5, <1>6, <1>7, <1>9 DEF Steady

\* A message of the exchange goes out when the client waits for it, or no longer waits.
LEMMA SendExchange ==
    ASSUME NEW x, NEW y, NEW d \in ClientStates, NEW q \in Seq(DownFrames), NEW r, NEW f \in DownFrames, Steady(x, d, q, r),
           f.key = x.key, f.t \in Exchange, ~d.quiet,
           \A i \in 1..Len(q) : q[i].t = "unpair" \/ (q[i].t = "sinit" /\ f.t = "sauth"),
           Awaits(d, Asked(q) \cup {f.t}),
           y.key = x.key, y.psk = x.psk, y.idx = x.idx
    PROVE  Steady(y, d, Append(q, f), r) /\ Append(q, f) \in Seq(DownFrames) /\ Append(q, f) # <<>>
<1>1. /\ Append(q, f) \in Seq(DownFrames) /\ Len(Append(q, f)) = Len(q) + 1 /\ Len(q) \in Nat /\ Append(q, f) # <<>>
      /\ \A i \in 1..Len(q) : Append(q, f)[i] = q[i]
      /\ Append(q, f)[Len(q) + 1] = f
  BY AppendHas
<1>2. Asked(Append(q, f)) = Asked(q) \cup {f.t} /\ ~Admitting(f) /\ f.t # "hs1"
  <2>1. {f.t} \cap Exchange = {f.t}
    OBVIOUS
  <2>2. ~Admitting(f) /\ f.t # "hs1"
    BY DEF Exchange, Admitting
  <2> QED
    BY <2>1, <2>2, AskedMore
<1>3. Cardinality(Pairings(Append(q, f))) = Cardinality(Pairings(q))
  BY <1>2, PairingsMore, PairingsFinite
<1>4. \A i \in 1..Len(Append(q, f)) : DownFit(Append(q, f)[i], y)
  BY <1>1, <1>2 DEF Steady, DownFit
<1>5. Quiet(d, Append(q, f))
  BY DEF Quiet
<1>6. InTurn(Append(q, f))
  BY <1>1, SMTT(30) DEF Steady, InTurn
<1>7. \A i \in 1..Len(r) : UpFit(r[i], y, d)
  BY DEF Steady, UpFit
<1> QED
  BY <1>1, <1>2, <1>3, <1>4, <1>5, <1>6, <1>7 DEF Steady

\* The client reads one frame.
LEMMA ReadOne ==
    ASSUME NEW x, NEW d \in ClientStates, NEW e \in ClientStates, NEW q \in Seq(DownFrames), q # <<>>,
           NEW r \in Seq(UpFrames), Steady(x, d, q, r),
           e.key = d.key, e.psk = d.psk, e.idx = d.idx + (IF Admitting(Head(q)) THEN 1 ELSE 0),
           ~e.quiet, Awaits(e, Asked(Tail(q)))
    PROVE  Steady(x, e, Tail(q), r) /\ Tail(q) \in Seq(DownFrames)
<1>1. /\ Tail(q) \in Seq(DownFrames) /\ Len(Tail(q)) = Len(q) - 1 /\ Len(q) >= 1 /\ Head(q) = q[1] /\ Len(q) \in Nat
      /\ \A i \in 1..Len(Tail(q)) : i + 1 \in 1..Len(q) /\ Tail(q)[i] = q[i + 1]
  BY TailHas
<1>2. x.idx = e.idx + Cardinality(Pairings(Tail(q)))
  BY PairingsLess, PairingsFinite, <1>1, SMTT(30) DEF Steady, ClientStates
<1>3. \A i \in 1..Len(Tail(q)) : DownFit(Tail(q)[i], x)
  BY <1>1 DEF Steady
<1>4. \A i \in 1..Len(r) : UpFit(r[i], x, e)
  <2> SUFFICES ASSUME NEW i \in 1..Len(r) PROVE UpFit(r[i], x, e)
    OBVIOUS
  <2>1. r[i] \in UpFrames /\ (First(r[i]) => r[i].idx \in Nat)
    BY UpFrameIs
  <2>2. d.idx \in Nat /\ e.idx \in Nat /\ d.idx <= e.idx
    BY DEF ClientStates
  <2> QED
    BY <2>1, <2>2 DEF Steady, UpFit
<1>5. InTurn(Tail(q))
  BY TurnOver DEF Steady
<1>6. Quiet(e, Tail(q))
  BY DEF Quiet
<1> QED
  BY <1>1, <1>2, <1>3, <1>4, <1>5, <1>6 DEF Steady

\* The client says something, or changes its mind.
LEMMA ClientSays ==
    ASSUME NEW x, NEW d \in ClientStates, NEW e \in ClientStates, NEW q \in Seq(DownFrames), NEW r \in Seq(UpFrames),
           NEW f \in UpFrames, Steady(x, d, q, r), UpFit(f, x, d),
           e.key = d.key, e.psk = d.psk, e.idx = d.idx, Quiet(e, q), Awaits(e, Asked(q))
    PROVE  /\ Steady(x, e, q, Append(r, f)) /\ Append(r, f) \in Seq(UpFrames)
           /\ Steady(x, e, q, r)
<1>1. /\ Append(r, f) \in Seq(UpFrames) /\ Len(Append(r, f)) = Len(r) + 1 /\ Len(r) \in Nat
      /\ \A i \in 1..Len(r) : Append(r, f)[i] = r[i]
      /\ Append(r, f)[Len(r) + 1] = f
  BY AppendHas
<1>2. \A i \in 1..Len(Append(r, f)) : UpFit(Append(r, f)[i], x, e)
  BY <1>1 DEF Steady, UpFit
<1>3. \A i \in 1..Len(r) : UpFit(r[i], x, e)
  BY DEF Steady, UpFit
<1> QED
  BY <1>1, <1>2, <1>3 DEF Steady

\* The server reads the next frame, under its key.
LEMMA ServerHears ==
    ASSUME NEW x, NEW d, NEW q, NEW r \in Seq(UpFrames), r # <<>>, Steady(x, d, q, r)
    PROVE  Steady(x, d, q, Tail(r)) /\ Tail(r) \in Seq(UpFrames) /\ UpFit(Head(r), x, d) /\ Head(r) \in UpFrames
<1>1. /\ Tail(r) \in Seq(UpFrames) /\ Len(Tail(r)) = Len(r) - 1 /\ Len(r) >= 1 /\ Head(r) = r[1] /\ Len(r) \in Nat
      /\ Head(r) \in UpFrames
      /\ \A i \in 1..Len(Tail(r)) : i + 1 \in 1..Len(r) /\ Tail(r)[i] = r[i + 1]
  BY TailHas
<1> QED
  BY <1>1 DEF Steady

\* A session begins steady.
LEMMA SteadyStart ==
    ASSUME NEW x, NEW d \in ClientStates, x.key = d.key, x.psk = d.psk, x.idx = d.idx, d.pc = "none"
    PROVE  Steady(x, d, <<>>, <<>>)
<1>1. Asked(<<>>) = {} /\ Cardinality(Pairings(<<>>)) = 0
  BY SaidNothing DEF Asked
<1>2. InTurn(<<>>) /\ Quiet(d, <<>>) /\ Awaits(d, {})
  BY DEF InTurn, Quiet, Awaits
<1>3. x.idx = d.idx + 0
  BY DEF ClientStates
<1>4. 1..Len(<<>>) = {}
  OBVIOUS
<1>5. (\A i \in 1..Len(<<>>) : DownFit(<<>>[i], x)) /\ (\A i \in 1..Len(<<>>) : UpFit(<<>>[i], x, d))
  BY <1>4
<1>6. x.idx = d.idx + Cardinality(Pairings(<<>>)) /\ Awaits(d, Asked(<<>>))
  BY <1>1, <1>2, <1>3
<1> QED
  BY <1>2, <1>5, <1>6 DEF Steady

-----------------------------------------------------------------------------
(* What the client will be once it has read what is on the way.              *)

Act(f) == f.t = "activate"

\* After the last activation the client is out of the attempt, and plays what the server says, unless it
\* was last told what the session before could do.
Rests(x, d, q) ==
    \/ (\A i \in 1..Len(q) : ~Act(q[i])) /\ d.pc = "none" /\ (x.behind \/ d.play = x.play)
    \/ \E i \in 1..Len(q) : /\ Act(q[i]) /\ ~q[i].pairing /\ (x.behind \/ q[i].play = x.play)
                            /\ \A j \in 1..Len(q) : i < j => ~Act(q[j])

Keeping(q, i) == \A j \in 1..Len(q) : i < j /\ Act(q[j]) => q[j].roles = "keep"

Roles(x, d, q) ==
    \/ x.behind
    \/ Keeping(q, 0) /\ d.roles = x.roles
    \/ \E i \in 1..Len(q) : Act(q[i]) /\ q[i].roles = (IF x.roles THEN "set" ELSE "none") /\ Keeping(q, i)

Idle(x, d, q) == Rests(x, d, q) /\ Roles(x, d, q)

\* The activation of the attempt is on the way, with nothing but an unpair behind it.
Announcing(x, q) ==
    x.pc = "init" /\ \E i \in 1..Len(q) : /\ Admitting(q[i]) /\ q[i].meth = x.meth
                                         /\ \A j \in 1..Len(q) : i < j => q[j].t = "unpair"

\* What is left to read, of the client's part of an attempt.
Mute(w) == w = <<>>
One(w, t) == Len(w) = 1 /\ w[1].t = t
Two(w, t, u) == Len(w) = 2 /\ w[1].t = t /\ w[2].t = u

\* Where both ends stand in an attempt of method m: the server at sp and the client at cp, with e on the
\* way to the client and w to the server.
Talk(sp, m, cp, e, w) ==
    \/ /\ sp = "init" /\ e = {}
       /\ \/ m # "psk" /\ cp = "gate" /\ One(w, "pending")
          \/ cp = "init" /\ One(w, "pinit")
          \/ m # "psk" /\ cp = "init" /\ Two(w, "pending", "pinit")
          \/ m = "psk" /\ cp = "fin" /\ Two(w, "pinit", "finalize")
    \/ /\ sp = "gesture" /\ m # "psk" /\ e = {}
       /\ \/ cp = "gate" /\ Mute(w)
          \/ cp = "init" /\ One(w, "pinit")
    \/ /\ sp = "code" /\ Mute(w)
       /\ \/ m = "static" /\ cp = "init" /\ e = {}
          \/ m = "dynamic" /\ cp = "init" /\ e = {"sinit"}
          \/ m = "dynamic" /\ cp = "share" /\ e = {}
    \/ /\ sp = "auth"
       /\ \/ m = "static" /\ Mute(w) /\ cp = "init" /\ e = {"sauth"}
          \/ m = "dynamic" /\ Mute(w) /\ cp = "init" /\ e = {"sinit", "sauth"}
          \/ m = "dynamic" /\ Mute(w) /\ cp = "share" /\ e = {"sauth"}
          \/ m # "psk" /\ One(w, "cauth") /\ cp = "confirm" /\ e = {}
    \/ /\ sp = "confirm" /\ m # "psk"
       /\ \/ Mute(w) /\ cp = "confirm" /\ e = {"sconfirm"}
          \/ Two(w, "cconfirm", "finalize") /\ cp = "fin" /\ e = {}
          \/ m = "dynamic" /\ One(w, "retry") /\ cp = "init" /\ e = {}
    \/ /\ sp = "finalize" /\ e = {}
       /\ \/ m = "psk" /\ Mute(w) /\ cp = "init"
          \/ One(w, "finalize") /\ cp = "fin"
    \/ sp = "ack" /\ e = {} /\ Mute(w) /\ cp = "fin"

\* Where the client stands: in the attempt, or out of it, having said so.
Stance(d, e, w, cp, g, v) ==
    \/ d.pc # "none" /\ cp = d.pc /\ g = e /\ v = w
    \/ d.pc = "none" /\ e \subseteq g /\ \E a \in UpFrames : a.t = "abort" /\ w = Append(v, a)

Talks(x, d, e, w) ==
    \/ \E cp, g : \E v \in Seq(UpFrames) : Stance(d, e, w, cp, g, v) /\ Talk(x.pc, x.meth, cp, g, v)
    \/ d.pc = "none" /\ x.pc = "ack" /\ Mute(w) /\ e = {}

\* Both ends are in the attempt. While the server waits for its first message it may still have to read
\* what the client said in earlier ones.
Current(x, d, w) ==
    \A i \in 1..Len(w) : /\ First(w[i]) => w[i].idx = x.idx
                         /\ w[i].t = "finalize" /\ d.pc = "fin" => w[i].psk = d.fin
Earlier(x, p) ==
    /\ p # <<>> => x.pc = "init"
    /\ \A i \in 1..Len(p) : First(p[i]) => p[i].idx < x.idx

Conversing(x, d, q, r) ==
    /\ d.idx = x.idx /\ d.meth = x.meth
    /\ Said(q) \subseteq Exchange \cup {"unpair"}
    /\ \E p, w \in Seq(UpFrames) : /\ r = p \o w /\ Earlier(x, p) /\ Current(x, d, w)
                                   /\ Talks(x, d, Asked(q), w)

Credential(x) == x.meth \in Methods /\ (x.meth = "psk" <=> x.psk = PairingPsk) /\ x.psk.cat # "lt"

\* The session moves onto the stored record: the client waits for the acknowledgement, or is done.
Closing(x, d, q) ==
    /\ Said(q) \subseteq {"unpair", "sfinal"}
    /\ d.pc \in {"fin", "none"} /\ (d.pc = "fin" => "sfinal" \in Said(q) /\ d.fin = x.target.id)

Phase(x, d, q, r) ==
    /\ x.pc # "final" => "sfinal" \notin Said(q)
    /\ x.pc = "idle" => Idle(x, d, q)
    /\ x.pc \in Exchanging \cup {"ack"} => Announcing(x, q) \/ Conversing(x, d, q, r)
    /\ x.pc = "ack" /\ d.pc = "fin" => d.fin = x.target.id
    /\ x.pc = "final" => Closing(x, d, q)

\* The session is up, but for the handshake message the server may have sent.
Joined(x, d, q, r) == Steady(x, d, q, r) /\ (d.quiet => q # <<>>) /\ Phase(x, d, q, r)

Open(x, q, q0) ==
    \/ x.pc \notin InHandshake /\ q = q0
    \/ x.pc \in InHandshake /\ \E h \in DownFrames : q = Append(q0, h) /\ h.t = "hs1" /\ h.key = x.key /\ h.psk = x.target

\* The client has answered the handshake.
Accepted(x, d, q, r) ==
    /\ x.pc \in InHandshake /\ q = <<>> /\ d.quiet /\ d.pc = "none" /\ d.idx = 0 /\ d.psk = x.target
    /\ \E r0 \in Seq(UpFrames), h \in UpFrames :
          /\ r = Append(r0, h) /\ h.t = "hs2" /\ h.key = x.key /\ h.new = d.key
          /\ \A i \in 1..Len(r0) : r0[i].key = x.key /\ r0[i].t # "hs2"

Session(x, d, q, r) ==
    \/ \E q0 \in Seq(DownFrames) : Open(x, q, q0) /\ Joined(x, d, q0, r)
    \/ Accepted(x, d, q, r)

\* What the server is doing, and with which record.
AtServer(x, st) ==
    /\ x.pc \in Exchanging \cup {"ack"} => Credential(x)
    /\ x.pc = "rekey" => x.in /\ x.meth \in Methods /\ x.target = (IF x.meth = "psk" THEN PairingPsk ELSE Sentinel)
    /\ x.pc \in {"ack", "final"} => x.target.cat = "lt" /\ x.target.id \in st.ever
    /\ x.moved => x.in \/ st.srec = 0 \/ x.pc = "return"
    /\ x.in => x.pc \in Exchanging \cup {"rekey", "ack", "final"}
    /\ x.pc \in Exchanging \cup {"rekey", "ack", "final"} => x.in \/ x.dial
    /\ x.dial => ~x.moved /\ ~x.in /\ ~x.first /\ x.pc # "return"

Counted(d, st) == d.pc = "init" /\ d.meth = "dynamic" => st.rounds < RoundLimit

Connected ==
    /\ s \in ServerStates /\ c \in ClientStates /\ s2c \in Seq(DownFrames) /\ c2s \in Seq(UpFrames)
    /\ AtServer(s, store) /\ Counted(c, store) /\ Session(s, c, s2c, c2s)

Disconnected == s = ServerDown /\ c = ClientDown /\ s2c = <<>> /\ c2s = <<>>

SessionInv ==
    /\ store \in Stores /\ store.crec \subseteq store.ever /\ group \in BOOLEAN
    /\ fault \in {"none", "client: credential", "early"}
    /\ Disconnected \/ Connected

\* A frame that activates nothing leaves the activities as they will be.
LEMMA IdleAppendOther ==
    ASSUME NEW x, NEW y, NEW d, NEW q \in Seq(DownFrames), NEW f \in DownFrames, ~Act(f), Idle(x, d, q),
           y.play = x.play, y.roles = x.roles, y.behind = x.behind
    PROVE  Idle(y, d, Append(q, f))
<1>1. /\ Append(q, f) \in Seq(DownFrames) /\ Len(Append(q, f)) = Len(q) + 1 /\ Len(q) \in Nat
      /\ \A i \in 1..Len(q) : Append(q, f)[i] = q[i]
      /\ Append(q, f)[Len(q) + 1] = f
  BY AppendHas
<1>2. \A i \in 1..Len(Append(q, f)) : i \in 1..Len(q) \/ i = Len(q) + 1
  BY <1>1
<1>3. Rests(y, d, Append(q, f))
  BY <1>1, <1>2 DEF Idle, Rests
<1>4. \A i \in Nat : Keeping(q, i) => Keeping(Append(q, f), i)
  BY <1>1, <1>2 DEF Keeping
<1>5. Roles(y, d, Append(q, f))
  BY <1>1, <1>4 DEF Idle, Roles
<1> QED
  BY <1>3, <1>5 DEF Idle

\* Playback changes: the roles stay.
LEMMA IdleAppendKeep ==
    ASSUME NEW x, NEW y, NEW d, NEW q \in Seq(DownFrames), NEW f \in DownFrames, Act(f), ~f.pairing, f.roles = "keep",
           f.play = y.play, Idle(x, d, q), y.roles = x.roles, y.behind = x.behind
    PROVE  Idle(y, d, Append(q, f))
<1>1. /\ Append(q, f) \in Seq(DownFrames) /\ Len(Append(q, f)) = Len(q) + 1 /\ Len(q) \in Nat
      /\ \A i \in 1..Len(q) : Append(q, f)[i] = q[i]
      /\ Append(q, f)[Len(q) + 1] = f
  BY AppendHas
<1>2. \A i \in 1..Len(Append(q, f)) : i \in 1..Len(q) \/ i = Len(q) + 1
  BY <1>1
<1>3. Rests(y, d, Append(q, f))
  <2>1. Len(q) + 1 \in 1..Len(Append(q, f))
    BY <1>1
  <2>2. \A j \in 1..Len(Append(q, f)) : ~(Len(q) + 1 < j)
    BY <1>1
  <2> QED
    BY <1>1, <2>1, <2>2 DEF Rests
<1>4. \A i \in Nat : Keeping(q, i) => Keeping(Append(q, f), i)
  BY <1>1, <1>2 DEF Keeping
<1>5. Roles(y, d, Append(q, f))
  BY <1>1, <1>4 DEF Idle, Roles
<1> QED
  BY <1>3, <1>5 DEF Idle

\* An activation that says it all.
LEMMA IdleAppendSet ==
    ASSUME NEW y, NEW d, NEW q \in Seq(DownFrames), NEW f \in DownFrames, Act(f), ~f.pairing, f.play = y.play,
           f.roles = (IF y.roles THEN "set" ELSE "none")
    PROVE  Idle(y, d, Append(q, f))
<1>1. /\ Append(q, f) \in Seq(DownFrames) /\ Len(Append(q, f)) = Len(q) + 1 /\ Len(q) \in Nat
      /\ Append(q, f)[Len(q) + 1] = f
  BY AppendHas
<1>2. Len(q) + 1 \in 1..Len(Append(q, f)) /\ \A j \in 1..Len(Append(q, f)) : ~(Len(q) + 1 < j)
  BY <1>1
<1> QED
  BY <1>1, <1>2 DEF Idle, Rests, Roles, Keeping

\* An activation of the session before.
LEMMA IdleAppendAny ==
    ASSUME NEW y, y.behind, NEW d, NEW q \in Seq(DownFrames), NEW f \in DownFrames, f.t = "activate", ~f.pairing
    PROVE  Idle(y, d, Append(q, f))
<1>1. /\ Append(q, f) \in Seq(DownFrames) /\ Len(Append(q, f)) = Len(q) + 1 /\ Len(q) \in Nat
      /\ Append(q, f)[Len(q) + 1] = f
  BY AppendHas
<1>2. Len(q) + 1 \in 1..Len(Append(q, f)) /\ \A j \in 1..Len(Append(q, f)) : ~(Len(q) + 1 < j)
  BY <1>1
<1> QED
  BY <1>1, <1>2 DEF Idle, Rests, Roles, Act

\* The client reads.
LEMMA IdleTail ==
    ASSUME NEW x, NEW d, NEW e, NEW q \in Seq(DownFrames), q # <<>>, Idle(x, d, q),
           IF Act(Head(q))
           THEN /\ e.pc = "none" \/ Head(q).pairing
                /\ e.play = Head(q).play
                /\ e.roles = (CASE Head(q).roles = "set" -> TRUE [] Head(q).roles = "none" -> FALSE
                                [] Head(q).roles = "keep" -> d.roles)
           ELSE (d.pc = "none" => e.pc = "none") /\ e.play = d.play /\ e.roles = d.roles,
           x.roles \in BOOLEAN
    PROVE  Idle(x, e, Tail(q))
<1>1. /\ Tail(q) \in Seq(DownFrames) /\ Len(Tail(q)) = Len(q) - 1 /\ Len(q) >= 1 /\ Head(q) = q[1] /\ Len(q) \in Nat
      /\ \A i \in 1..Len(Tail(q)) : i + 1 \in 1..Len(q) /\ Tail(q)[i] = q[i + 1]
  BY TailHas
<1>2. \A i \in 1..Len(q) : i = 1 \/ (i - 1 \in 1..Len(Tail(q)) /\ Tail(q)[i - 1] = q[i])
  BY <1>1
<1>3. Rests(x, e, Tail(q))
  <2>1. CASE (\A i \in 1..Len(q) : ~Act(q[i])) /\ d.pc = "none" /\ (x.behind \/ d.play = x.play)
    <3>1. ~Act(Head(q))
      BY <1>1, <2>1
    <3> QED
      BY <1>1, <2>1, <3>1 DEF Rests
  <2>2. CASE \E i \in 1..Len(q) : /\ Act(q[i]) /\ ~q[i].pairing /\ (x.behind \/ q[i].play = x.play)
                                  /\ \A j \in 1..Len(q) : i < j => ~Act(q[j])
    <3>1. PICK i \in 1..Len(q) : /\ Act(q[i]) /\ ~q[i].pairing /\ (x.behind \/ q[i].play = x.play)
                                 /\ \A j \in 1..Len(q) : i < j => ~Act(q[j])
      BY <2>2
    <3>2. CASE i = 1
      <4>1. \A k \in 1..Len(Tail(q)) : ~Act(Tail(q)[k])
        BY <1>1, <3>1, <3>2
      <4>2. e.pc = "none" /\ (x.behind \/ e.play = x.play)
        BY <1>1, <3>1, <3>2
      <4> QED
        BY <4>1, <4>2 DEF Rests
    <3>3. CASE i # 1
      <4>1. i - 1 \in 1..Len(Tail(q)) /\ Tail(q)[i - 1] = q[i]
        BY <1>2, <3>3
      <4>2. \A k \in 1..Len(Tail(q)) : i - 1 < k => ~Act(Tail(q)[k])
        BY <1>1, <3>1
      <4> QED
        BY <3>1, <4>1, <4>2 DEF Rests
    <3> QED
      BY <3>2, <3>3
  <2> QED
    BY <2>1, <2>2 DEF Idle, Rests
<1>4. Roles(x, e, Tail(q))
  <2>1. \A i \in 1..Len(q) : Keeping(q, i) => Keeping(Tail(q), i - 1)
    BY <1>1 DEF Keeping
  <2>2. Keeping(q, 0) => Keeping(Tail(q), 0) /\ (Act(Head(q)) => Head(q).roles = "keep")
    BY <1>1 DEF Keeping
  <2>3. CASE Keeping(q, 0) /\ d.roles = x.roles
    BY <2>2, <2>3 DEF Roles
  <2>4. CASE \E i \in 1..Len(q) : Act(q[i]) /\ q[i].roles = (IF x.roles THEN "set" ELSE "none") /\ Keeping(q, i)
    <3>1. PICK i \in 1..Len(q) : Act(q[i]) /\ q[i].roles = (IF x.roles THEN "set" ELSE "none") /\ Keeping(q, i)
      BY <2>4
    <3>2. CASE i = 1
      <4>1. Keeping(Tail(q), 0)
        BY <2>1, <3>1, <3>2
      <4>2. e.roles = x.roles
        BY <1>1, <3>1, <3>2
      <4> QED
        BY <4>1, <4>2 DEF Roles
    <3>3. CASE i # 1
      <4>1. i - 1 \in 1..Len(Tail(q)) /\ Tail(q)[i - 1] = q[i]
        BY <1>2, <3>3
      <4> QED
        BY <2>1, <3>1, <4>1 DEF Roles
    <3> QED
      BY <3>2, <3>3
  <2>5. CASE x.behind
    BY <2>5 DEF Roles
  <2> QED
    BY <2>3, <2>4, <2>5 DEF Idle, Roles
<1> QED
  BY <1>3, <1>4 DEF Idle

-----------------------------------------------------------------------------
(* The server leaves an attempt.                                             *)

\* What the constants are.
LEMMA PairConstants == PairAssumption /\ RoundLimit \in Nat /\ RoundLimit > 0 /\ MaxPsk \in Nat
BY PairAssumption DEF PairAssumption

\* A credential is known by its category.
LEMMA PskIs ==
    ASSUME NEW p \in Psks
    PROVE  /\ p = Sentinel \/ p = PairingPsk \/ (\E n \in 1..MaxPsk : p = LongTerm(n))
           /\ p.cat = "lt" => p.id \in 1..MaxPsk
           /\ p.cat = "pairing" <=> p = PairingPsk
           /\ p.cat # "lt" => p \in {Sentinel, PairingPsk}
BY DEF Psks, Sentinel, PairingPsk, LongTerm

\* The credentials there are.
LEMMA PsksAre ==
    /\ Sentinel \in Psks /\ PairingPsk \in Psks /\ (\A n \in 1..MaxPsk : LongTerm(n) \in Psks)
    /\ Sentinel.cat # "lt" /\ PairingPsk.cat # "lt" /\ Sentinel # PairingPsk
    /\ \A n : LongTerm(n).cat = "lt" /\ LongTerm(n).id = n
BY DEF Psks, Sentinel, PairingPsk, LongTerm

Unpairing(k) == [t |-> "unpair", key |-> k]
Aborting(k) == [t |-> "abort", key |-> k]

\* The frames that end an attempt, or a record.
LEMMA FramesAre ==
    ASSUME NEW k \in Nat
    PROVE  /\ Unpairing(k) \in DownFrames /\ Unpairing(k).t = "unpair" /\ Unpairing(k).key = k
           /\ Aborting(k) \in DownFrames /\ Aborting(k).t = "abort" /\ Aborting(k).key = k
           /\ Aborting(k) \in UpFrames
           /\ \A t \in {"sinit", "sconfirm", "sfinal"} :
                 [t |-> t, key |-> k] \in DownFrames
           /\ \A b \in BOOLEAN : [t |-> "sauth", key |-> k, ok |-> b] \in DownFrames
           /\ \A p \in Psks : [t |-> "hs1", key |-> k, psk |-> p] \in DownFrames
BY DEF DownFrames, UpFrames, Unpairing, Aborting

\* The activation that names what the session may do now.
Plain(f, x) ==
    /\ f \in DownFrames /\ f.t = "activate" /\ ~f.pairing /\ f.key = x.key /\ f.play = x.play
    /\ f.roles = (IF x.roles THEN "set" ELSE "none")

\* The frames that end an attempt, or a record, are sent at any time.
LEMMA PlainIs ==
    ASSUME NEW x \in ServerStates
    PROVE  Plain(ActivateFrame(x), x) /\ [ActivateFrame(x) EXCEPT !.roles = "keep"] \in DownFrames
BY DEF Plain, ActivateFrame, DownFrames, ServerStates

\* The same, but for what an activation declares.
Like(y, x) ==
    /\ y.pc = x.pc /\ y.psk = x.psk /\ y.key = x.key /\ y.idx = x.idx /\ y.in = x.in /\ y.moved = x.moved
    /\ y.mismatch = x.mismatch /\ y.cut = x.cut /\ y.dial = x.dial /\ y.meth = x.meth /\ y.target = x.target

\* What _declared changes of the server.
LEMMA DeclaredIs ==
    ASSUME NEW x \in ServerStates, group \in BOOLEAN
    PROVE  /\ Declared(x) \in ServerStates /\ PlaybackCapable(x) \in BOOLEAN
           /\ Like(Declared(x), x)
<1>1. PlaybackCapable(x) \in BOOLEAN
  BY DEF PlaybackCapable
<1>2. (PlaybackCapable(x) /\ group) \in BOOLEAN
  OBVIOUS
<1>3. Declared(x) = [x EXCEPT !.play = PlaybackCapable(x) /\ group, !.roles = PlaybackCapable(x), !.first = TRUE]
  BY DEF Declared
<1>4. Declared(x) \in ServerStates
  <2> DEFINE a == PlaybackCapable(x) /\ group
             b == PlaybackCapable(x)
  <2>1. a \in BOOLEAN /\ b \in BOOLEAN /\ Declared(x) = [x EXCEPT !.play = a, !.roles = b, !.first = TRUE]
    BY <1>1, <1>2, <1>3
  <2> HIDE DEF a, b
  <2> QED
    BY <2>1 DEF ServerStates
<1>5. Like(Declared(x), x)
  BY <1>3 DEF ServerStates, Like
<1> QED
  BY <1>1, <1>4, <1>5

\* What was queued for the session before is an activation.
LEMMA LateFrame ==
    ASSUME NEW x \in ServerStates
    PROVE  \/ x.stale = <<>> /\ Late(x) = <<>>
           \/ x.stale # <<>> /\ \E g \in DownFrames : Late(x) = <<g>> /\ g.t = "activate" /\ ~g.pairing /\ g.key = x.key
<1>1. x.stale \in Stales /\ x.key \in Nat
  BY ServerIs
<1>2. CASE x.stale = <<>>
  BY <1>2 DEF Late
<1>3. CASE x.stale # <<>>
  <2>1. PICK f \in DownFrames : x.stale = <<f>> /\ f.t = "activate" /\ ~f.pairing
    BY <1>1, <1>3 DEF Stales
  <2> DEFINE g == [f EXCEPT !.key = x.key]
  <2>2. Head(x.stale) = f
    BY <2>1
  <2>3. g \in DownFrames /\ g.t = "activate" /\ ~g.pairing /\ g.key = x.key
    <3>1. f \in [t : {"activate"}, key : Nat, pairing : BOOLEAN, meth : Methods \cup {"none"}, play : BOOLEAN,
                 roles : {"set", "none", "keep"}]
      BY <2>1 DEF DownFrames
    <3> QED
      BY <1>1, <2>1, <3>1 DEF DownFrames
  <2>4. Late(x) = <<g>>
    BY <1>3, <2>2 DEF Late
  <2> HIDE DEF g
  <2> QED
    BY <1>3, <2>3, <2>4
<1> QED
  BY <1>2, <1>3

\* What an activation is made of.
LEMMA ActivatedIs ==
    ASSUME NEW x \in ServerStates, group \in BOOLEAN
    PROVE  \E y, f :
              /\ y \in ServerStates
              /\ Activated(x).srv = y
              /\ Like(y, x)
              /\ y.behind = (x.stale # <<>>)
              /\ Plain(f, y)
              /\ Activated(x).out = (<<f>> \o Late(x)) \o (IF x.unpair THEN <<Unpairing(x.key)>> ELSE <<>>)
<1> DEFINE z == Declared(x)
           b == x.stale # <<>>
           y == [z EXCEPT !.unpair = FALSE, !.stale = <<>>, !.behind = b]
           f == ActivateFrame(z)
<1>1. z \in ServerStates /\ Like(z, x) /\ z.key = x.key
  BY DeclaredIs DEF Like
<1>2. b \in BOOLEAN /\ <<>> \in Stales
  BY DEF Stales
<1>3. Activated(x).srv = y
  BY DEF Activated
<1>4. Like(y, x) /\ y \in ServerStates /\ y.behind = b
  <2> DEFINE e == <<>>
  <2>1. e \in Stales /\ y = [z EXCEPT !.unpair = FALSE, !.stale = e, !.behind = b]
    BY <1>2
  <2> HIDE DEF z, b, e, y
  <2>2. y \in ServerStates
    BY <1>1, <1>2, <2>1 DEF ServerStates
  <2>3. Like(y, x)
    BY <1>1, <2>1 DEF ServerStates, Like
  <2>4. y.behind = b
    <3>1. CASE b
      BY <1>1, <2>1, <3>1 DEF ServerStates
    <3>2. CASE ~b
      BY <1>1, <2>1, <3>2 DEF ServerStates
    <3> QED
      BY <3>1, <3>2
  <2> QED
    BY <2>2, <2>3, <2>4
<1>5. Plain(f, y)
  <2>1. Plain(f, z)
    BY PlainIs, <1>1
  <2>2. y.key = z.key /\ y.play = z.play /\ y.roles = z.roles
    BY <1>1 DEF ServerStates
  <2> QED
    BY <2>1, <2>2 DEF Plain
<1>6. Activated(x).out = (<<f>> \o Late(x)) \o (IF x.unpair THEN <<Unpairing(x.key)>> ELSE <<>>)
  BY DEF Activated, Unpairing
<1> HIDE DEF y, f
<1> QED
  BY <1>3, <1>4, <1>5, <1>6

\* Sending it.
LEMMA SendActivated ==
    ASSUME NEW x \in ServerStates, group \in BOOLEAN, NEW d \in ClientStates, NEW q \in Seq(DownFrames), NEW r,
           Steady(x, d, q, r)
    PROVE  \E y \in ServerStates, q1 \in Seq(DownFrames) :
              /\ Activated(x).srv = y /\ q \o Activated(x).out = q1 /\ Activated(x).out \in Seq(DownFrames)
              /\ Like(y, x)
              /\ Steady(y, d, q1, r) /\ Idle(y, d, q1) /\ q1 # <<>> /\ Said(q1) \subseteq Said(q) \cup {"activate", "unpair"}
<1>1. PICK y, f :
              /\ y \in ServerStates
              /\ Activated(x).srv = y
              /\ Like(y, x)
              /\ y.behind = (x.stale # <<>>)
              /\ Plain(f, y)
              /\ Activated(x).out = (<<f>> \o Late(x)) \o (IF x.unpair THEN <<Unpairing(x.key)>> ELSE <<>>)
  BY ActivatedIs
<1> DEFINE u == Unpairing(x.key)
           a == <<f>> \o Late(x)
<1>2. y.key = x.key /\ y.psk = x.psk /\ y.idx = x.idx
  BY <1>1 DEF Like
<1>3. f \in DownFrames /\ f.t = "activate" /\ ~Admitting(f) /\ f.key = x.key
  BY <1>1, <1>2 DEF Plain, Admitting
<1>4. u \in DownFrames /\ u.t = "unpair" /\ u.key = x.key /\ ~Admitting(u) /\ ~Act(u)
  BY FramesAre DEF ServerStates, Admitting, Act
<1>5. \E q2 \in Seq(DownFrames) :
          /\ q \o a = q2 /\ a \in Seq(DownFrames) /\ q2 # <<>>
          /\ Steady(y, d, q2, r) /\ Idle(y, d, q2) /\ Said(q2) = Said(q) \cup {"activate"}
  <2> HIDE DEF u
  <2> DEFINE p == Append(q, f)
  <2>1. Steady(y, d, p, r) /\ p \in Seq(DownFrames) /\ p # <<>> /\ Said(p) = Said(q) \cup {"activate"}
    <3>1. Steady(y, d, Append(q, f), r)
      BY SendPlain, <1>2, <1>3
    <3> QED
      BY <3>1, <1>3, AppendHas, SaidMore
  <2>2. CASE x.stale = <<>>
    <3>1. Late(x) = <<>>
      BY <2>2, LateFrame
    <3>2. a = <<f>> /\ q \o <<f>> = p /\ <<f>> \in Seq(DownFrames)
      BY <1>3, <3>1, AppendHas
    <3>3. Idle(y, d, p)
      BY IdleAppendSet, <1>1, <1>3 DEF Plain, Act
    <3> HIDE DEF p, a
    <3> QED
      BY <2>1, <3>2, <3>3
  <2>3. CASE x.stale # <<>>
    <3>1. PICK g \in DownFrames : Late(x) = <<g>> /\ g.t = "activate" /\ ~g.pairing /\ g.key = x.key
      BY <2>3, LateFrame
    <3>2. q \o a = Append(p, g) /\ a \in Seq(DownFrames)
      <4>1. a = <<f>> \o <<g>>
        BY <3>1
      <4>2. <<f>> \in Seq(DownFrames) /\ q \o <<f>> = p
        BY <1>3, AppendHas
      <4> HIDE DEF a, p
      <4> QED
        BY <3>1, <4>1, <4>2, OneMore
    <3> HIDE DEF p, a
    <3>3. ~Admitting(g)
      BY <3>1 DEF Admitting
    <3>4. Steady(y, d, Append(p, g), r)
      BY SendPlain, <1>2, <2>1, <3>1, <3>3
    <3>5. Append(p, g) \in Seq(DownFrames) /\ Append(p, g) # <<>> /\ Said(Append(p, g)) = Said(p) \cup {"activate"}
      BY <2>1, <3>1, AppendHas, SaidMore
    <3>6. Idle(y, d, Append(p, g))
      BY <1>1, <2>1, <2>3, <3>1, IdleAppendAny
    <3> QED
      BY <2>1, <3>2, <3>4, <3>5, <3>6
  <2> QED
    BY <2>2, <2>3
<1>6. PICK q2 \in Seq(DownFrames) :
          /\ q \o a = q2 /\ a \in Seq(DownFrames) /\ q2 # <<>>
          /\ Steady(y, d, q2, r) /\ Idle(y, d, q2) /\ Said(q2) = Said(q) \cup {"activate"}
  BY <1>5
<1> HIDE DEF a
<1>7. CASE ~x.unpair
  <2>1. Activated(x).out = a
    BY <1>1, <1>6, <1>7 DEF a
  <2> QED
    BY <1>1, <1>6, <2>1
<1>8. CASE x.unpair
  <2> DEFINE q3 == Append(q2, u)
  <2>1. Activated(x).out = a \o <<u>>
    BY <1>1, <1>8 DEF a
  <2> HIDE DEF u
  <2>2. q \o (a \o <<u>>) = q3 /\ a \o <<u>> \in Seq(DownFrames)
    BY <1>4, <1>6, OneMore
  <2>3. Steady(y, d, q3, r) /\ q3 \in Seq(DownFrames) /\ q3 # <<>> /\ Said(q3) = Said(q2) \cup {"unpair"}
    <3>1. Steady(y, d, Append(q2, u), r)
      BY SendPlain, <1>2, <1>4, <1>6
    <3> QED
      BY <3>1, <1>4, <1>6, AppendHas, SaidMore
  <2>4. Idle(y, d, q3)
    BY IdleAppendOther, <1>4, <1>6
  <2> HIDE DEF q3
  <2> QED
    BY <1>1, <1>6, <2>1, <2>2, <2>3, <2>4
<1> QED
  BY <1>7, <1>8

\* An activation of a session that was dialled for no attempt.
LEMMA ActivatedRecord ==
    ASSUME NEW x
    PROVE  Activated(x) = [srv |-> Activated(x).srv, out |-> Activated(x).out]
BY DEF Activated

\* A session that was not dialled for an attempt may rest.
LEMMA Undialled ==
    ASSUME NEW y, NEW o
    PROVE  [[srv |-> y, out |-> o] EXCEPT !.srv.dial = FALSE] = [srv |-> [y EXCEPT !.dial = FALSE], out |-> o]
<1> DEFINE R == [srv |-> y, out |-> o]
           w == [y EXCEPT !.dial = FALSE]
<1>1. R.srv = y /\ R.out = o /\ DOMAIN R = {"srv", "out"}
  OBVIOUS
<1>2. [R EXCEPT !.srv.dial = FALSE] = [R EXCEPT !.srv = [R.srv EXCEPT !.dial = FALSE]]
  <2> HIDE DEF R
  <2> QED
    OBVIOUS
<1>3. [R EXCEPT !.srv = [R.srv EXCEPT !.dial = FALSE]] = [R EXCEPT !.srv = w]
  BY <1>1
<1>4. [R EXCEPT !.srv = w] = [srv |-> w, out |-> o]
  <2> HIDE DEF w
  <2> QED
    OBVIOUS
<1> QED
  BY <1>2, <1>3, <1>4

\* What AtServer asks of a server at rest.
LEMMA IdleServer ==
    ASSUME NEW x, NEW y, NEW d, NEW q, Idle(x, d, q), y.play = x.play, y.roles = x.roles,
           y.behind = x.behind
    PROVE  Idle(y, d, q)
BY DEF Idle, Rests, Roles

\* Idle, with nothing more under way.
LEMMA IdleJoined ==
    ASSUME NEW y \in ServerStates, NEW d, NEW q \in Seq(DownFrames), NEW r, y.pc \in {"idle", "return"},
           Steady(y, d, q, r), Idle(y, d, q), q # <<>> \/ ~d.quiet, "sfinal" \notin Said(q)
    PROVE  Joined(y, d, q, r)
BY DEF Joined, Phase, Exchanging

\* The server writes the first handshake message, behind what it said before.
LEMMA Rehandshake ==
    ASSUME NEW y \in ServerStates, NEW d, NEW q \in Seq(DownFrames), NEW r, y.pc \in InHandshake, Joined(y, d, q, r)
    PROVE  LET h == [t |-> "hs1", key |-> y.key, psk |-> y.target]
           IN  Session(y, d, Append(q, h), r) /\ Append(q, h) \in Seq(DownFrames) /\ h \in DownFrames
<1> DEFINE h == [t |-> "hs1", key |-> y.key, psk |-> y.target]
<1>1. h \in DownFrames /\ h.t = "hs1" /\ h.key = y.key /\ h.psk = y.target
  BY FramesAre DEF ServerStates
<1> HIDE DEF h
<1>2. Append(q, h) \in Seq(DownFrames) /\ Open(y, Append(q, h), q)
  BY <1>1 DEF Open
<1>3. Session(y, d, Append(q, h), r)
  BY <1>2 DEF Session
<1> QED
  BY <1>1, <1>2, <1>3 DEF h

\* A server at rest, with its session.
LEMMA Settled ==
    ASSUME NEW y, NEW d, NEW q \in Seq(DownFrames), NEW r, y.pc \notin InHandshake, Joined(y, d, q, r)
    PROVE  Session(y, d, q, r)
BY DEF Session, Open

\* What the server sends on taking its next state leaves the session sound.
Sends(res, x, d, q, r, st, pcs) ==
    /\ res.srv \in ServerStates /\ res.out \in Seq(DownFrames) /\ q \o res.out \in Seq(DownFrames)
    /\ Session(res.srv, d, q \o res.out, r) /\ AtServer(res.srv, st)
    /\ res.srv.key = x.key /\ (~x.moved => res.srv.pc \in pcs)

\* _leave_pairing: the session is idle once more, or returns to its record.
LEMMA LeaveOK ==
    ASSUME NEW x \in ServerStates, group \in BOOLEAN, store \in Stores, NEW d \in ClientStates,
           NEW q \in Seq(DownFrames), NEW r, Steady(x, d, q, r), "sfinal" \notin Said(q), NEW st,
           x.moved => x.in \/ st.srec = 0, st.srec = store.srec \/ ~x.moved, x.dial => ~x.in
    PROVE  Sends(Leaving(x), x, d, q, r, st, {"idle"})
<1> DEFINE z == [x EXCEPT !.pc = "idle", !.in = FALSE, !.cut = FALSE, !.meth = "none"]
           a == Activated(z)
           n == LongTerm(store.srec)
           h == [t |-> "hs1", key |-> x.key, psk |-> n]
<1>1. /\ z \in ServerStates /\ z.pc = "idle" /\ ~z.in /\ ~z.cut /\ z.key = x.key /\ z.psk = x.psk /\ z.idx = x.idx
      /\ z.moved = x.moved /\ z.dial = x.dial /\ z.meth = "none"
  BY DEF ServerStates
<1>2. Steady(z, d, q, r)
  BY <1>1, SteadyServer
<1>3. PICK y \in ServerStates, q1 \in Seq(DownFrames) :
              /\ a.srv = y /\ q \o a.out = q1 /\ a.out \in Seq(DownFrames)
              /\ Like(y, z)
              /\ Steady(y, d, q1, r) /\ Idle(y, d, q1) /\ q1 # <<>> /\ Said(q1) \subseteq Said(q) \cup {"activate", "unpair"}
  BY <1>1, <1>2, SendActivated, ZenonT(60)
<1>4. /\ y.pc = "idle" /\ ~y.in /\ y.moved = x.moved /\ y.dial = x.dial /\ y.key = x.key /\ y.psk = x.psk /\ y.idx = x.idx
  BY <1>1, <1>3 DEF Like
<1>5. "sfinal" \notin Said(q1)
  BY <1>3
<1>6. a = [srv |-> y, out |-> a.out]
  BY <1>3, ActivatedRecord
<1> HIDE DEF a, z
<1>7. CASE x.in /\ x.moved /\ store.srec # 0
  <2> DEFINE w == [y EXCEPT !.pc = "return", !.target = n]
  <2>1. Leaving(x) = [srv |-> w, out |-> Append(a.out, h)]
    BY <1>3, <1>7 DEF Leaving, z, a
  <2>2. n \in Psks
    BY <1>7, PsksAre DEF Stores
  <2>3. /\ w \in ServerStates /\ w.pc = "return" /\ w.target = n /\ w.key = x.key /\ w.idx = y.idx /\ w.psk = y.psk
        /\ w.play = y.play /\ w.roles = y.roles /\ w.in = y.in /\ w.moved = y.moved /\ w.dial = y.dial /\ w.behind = y.behind
    <3> HIDE DEF n
    <3> QED
      BY <1>4, <2>2 DEF ServerStates, InHandshake
  <2> HIDE DEF n, w
  <2>4. Steady(w, d, q1, r) /\ Idle(w, d, q1)
    <3>1. Steady(w, d, q1, r)
      BY <1>3, <1>4, <2>3, SteadyServer
    <3>2. Idle(w, d, q1)
      BY <1>3, <2>3, IdleServer
    <3> QED
      BY <3>1, <3>2
  <2>5. Joined(w, d, q1, r)
    BY <1>3, <1>5, <2>3, <2>4, IdleJoined
  <2>6. h = [t |-> "hs1", key |-> w.key, psk |-> w.target]
    BY <2>3
  <2> HIDE DEF h
  <2>7. Session(w, d, Append(q1, h), r) /\ Append(q1, h) \in Seq(DownFrames) /\ h \in DownFrames
    BY <2>3, <2>5, <2>6, Rehandshake DEF InHandshake
  <2>8. AtServer(w, st)
    BY <1>4, <1>7, <2>3 DEF AtServer, Exchanging
  <2>9. q \o Append(a.out, h) = Append(q1, h) /\ Append(a.out, h) \in Seq(DownFrames)
    <3>1. a.out \in Seq(DownFrames) /\ h \in DownFrames /\ q \o a.out = q1
      BY <1>3, <2>7
    <3> QED
      BY <3>1, SMTT(30)
  <2>10. Leaving(x).srv = w /\ Leaving(x).out = Append(a.out, h)
    BY <2>1
  <2> QED
    BY <1>7, <2>10, <2>3, <2>7, <2>8, <2>9 DEF Sends
<1>8. CASE ~(x.in /\ x.moved /\ store.srec # 0)
  <2> DEFINE w == [y EXCEPT !.dial = FALSE]
  <2>1. Leaving(x) = [srv |-> w, out |-> a.out]
    <3>1. Leaving(x) = [a EXCEPT !.srv.dial = FALSE]
      BY <1>8 DEF Leaving, z, a
    <3>2. Leaving(x) = [[srv |-> y, out |-> a.out] EXCEPT !.srv.dial = FALSE]
      BY <3>1, <1>6
    <3> HIDE DEF w
    <3>3. [[srv |-> y, out |-> a.out] EXCEPT !.srv.dial = FALSE] = [srv |-> w, out |-> a.out]
      BY Undialled DEF w
    <3> QED
      BY <3>2, <3>3
  <2>2. /\ w \in ServerStates /\ w.pc = "idle" /\ w.key = x.key /\ w.idx = y.idx /\ w.psk = y.psk
        /\ w.play = y.play /\ w.roles = y.roles /\ w.in = y.in /\ w.moved = y.moved /\ ~w.dial /\ w.behind = y.behind
    BY <1>4 DEF ServerStates
  <2> HIDE DEF w
  <2>4. Steady(w, d, q1, r) /\ Idle(w, d, q1)
    <3>1. Steady(w, d, q1, r)
      BY <1>3, <1>4, <2>2, SteadyServer
    <3>2. Idle(w, d, q1)
      BY <1>3, <2>2, IdleServer
    <3> QED
      BY <3>1, <3>2
  <2>5. Joined(w, d, q1, r)
    BY <1>3, <1>5, <2>2, <2>4, IdleJoined
  <2>6. Session(w, d, q1, r)
    BY <2>2, <2>5, Settled DEF InHandshake
  <2>8. AtServer(w, st)
    BY <1>4, <1>8, <2>2 DEF AtServer, Exchanging
  <2>9. Leaving(x).srv = w /\ Leaving(x).out = a.out
    BY <2>1
  <2> QED
    BY <1>3, <2>9, <2>2, <2>6, <2>8 DEF Sends
<1> QED
  BY <1>7, <1>8

-----------------------------------------------------------------------------
(* The exchange.                                                             *)

\* A queue is empty when its length is zero.
LEMMA EmptyIs ==
    ASSUME NEW S, NEW w \in Seq(S)
    PROVE  w = <<>> <=> Len(w) = 0
OBVIOUS

\* What the client says, with one more word.
LEMMA Words ==
    ASSUME NEW w \in Seq(UpFrames), NEW f \in UpFrames, NEW t
    PROVE  /\ Mute(w) => One(Append(w, f), f.t)
           /\ One(w, t) => Two(Append(w, f), t, f.t)
<1>1. /\ Append(w, f) \in Seq(UpFrames) /\ Len(Append(w, f)) = Len(w) + 1 /\ Len(w) \in Nat
      /\ \A i \in 1..Len(w) : Append(w, f)[i] = w[i]
      /\ Append(w, f)[Len(w) + 1] = f
  BY AppendHas
<1>2. CASE Mute(w)
  <2>1. Len(w) = 0
    BY <1>2 DEF Mute
  <2> QED
    BY <1>1, <2>1 DEF One
<1>3. CASE One(w, t)
  <2>1. Len(w) = 1 /\ w[1].t = t
    BY <1>3 DEF One
  <2>2. Len(Append(w, f)) = 2 /\ Append(w, f)[1] = w[1] /\ Append(w, f)[2] = f
    BY <1>1, <2>1
  <2>3. ~Mute(w)
    <3>1. Len(w) # 0
      BY <2>1
    <3>2. w # <<>>
      BY <3>1, EmptyIs
    <3> QED
      BY <3>2 DEF Mute
  <2> QED
    BY <2>1, <2>2, <2>3 DEF Two
<1> QED
  BY <1>2, <1>3 DEF Mute, One

\* What the client says, one word later.
LEMMA WordsTail ==
    ASSUME NEW w \in Seq(UpFrames), NEW t, NEW u
    PROVE  /\ One(w, t) => w # <<>> /\ Head(w).t = t /\ Mute(Tail(w))
           /\ Two(w, t, u) => w # <<>> /\ Head(w).t = t /\ One(Tail(w), u)
           /\ Mute(w) <=> w = <<>>
<1>1. w # <<>> => /\ Tail(w) \in Seq(UpFrames) /\ Len(Tail(w)) = Len(w) - 1 /\ Head(w) = w[1]
                  /\ \A i \in 1..(Len(w) - 1) : Tail(w)[i] = w[i + 1]
  BY TailHas
<1>2. w = <<>> <=> Len(w) = 0
  OBVIOUS
<1>3. w # <<>> /\ Len(w) = 1 => Tail(w) = <<>>
  <2> SUFFICES ASSUME w # <<>>, Len(w) = 1 PROVE Tail(w) = <<>>
    OBVIOUS
  <2>1. Tail(w) \in Seq(UpFrames) /\ Len(Tail(w)) = 0
    BY <1>1
  <2> QED
    BY <2>1, EmptyIs
<1>4. One(w, t) => w # <<>> /\ Head(w).t = t /\ Mute(Tail(w))
  BY <1>1, <1>2, <1>3 DEF One, Mute
<1>5. Two(w, t, u) => w # <<>> /\ Head(w).t = t /\ One(Tail(w), u)
  BY <1>1, <1>2 DEF One, Two
<1> QED
  BY <1>4, <1>5 DEF Mute

\* The server reads a word, and the client stands where it stood.
LEMMA StanceTail ==
    ASSUME NEW d, NEW e, NEW w \in Seq(UpFrames), w # <<>>, Head(w).t # "abort", NEW cp, NEW g, NEW v \in Seq(UpFrames),
           Stance(d, e, w, cp, g, v)
    PROVE  v # <<>> /\ Head(v) = Head(w) /\ Stance(d, e, Tail(w), cp, g, Tail(v)) /\ Tail(v) \in Seq(UpFrames)
<1>1. CASE d.pc # "none" /\ cp = d.pc /\ g = e /\ v = w
  BY <1>1, TailHas DEF Stance
<1>2. CASE d.pc = "none" /\ e \subseteq g /\ \E a \in UpFrames : a.t = "abort" /\ w = Append(v, a)
  <2>1. PICK a \in UpFrames : a.t = "abort" /\ w = Append(v, a)
    BY <1>2
  <2>2. v # <<>> /\ Tail(w) = Append(Tail(v), a) /\ Head(w) = Head(v)
    BY <2>1, TailOfAppend
  <2>3. Tail(v) \in Seq(UpFrames)
    BY <2>2, TailHas
  <2> QED
    BY <1>2, <2>1, <2>2, <2>3 DEF Stance
<1> QED
  BY <1>1, <1>2 DEF Stance

\* The server says a word, and the client stands where it stood.
LEMMA StanceMore ==
    ASSUME NEW d, NEW e, NEW w, NEW cp, NEW g, NEW v, Stance(d, e, w, cp, g, v), NEW t
    PROVE  /\ Stance(d, e \cup {t}, w, cp, g \cup {t}, v)
           /\ g = {} => Stance(d, {t}, w, cp, {t}, v)
<1>1. g = {} => e = {} /\ g \cup {t} = {t} /\ e \cup {t} = {t}
  BY DEF Stance
<1> QED
  BY <1>1 DEF Stance

\* What the server reads next, and where the attempt is then.
LEMMA TalkFirst ==
    ASSUME NEW sp \in {"init", "gesture"}, NEW m, NEW cp, NEW e, NEW w \in Seq(UpFrames), w # <<>>, Talk(sp, m, cp, e, w)
    PROVE  /\ Head(w).t \in {"pending", "pinit"} /\ (Head(w).t = "pending" => sp = "init" /\ m # "psk")
           /\ sp = "gesture" => m # "psk"
           /\ e = {}
           /\ Head(w).t = "pending" => Talk("gesture", m, cp, e, Tail(w))
           /\ Head(w).t = "pinit" /\ m = "psk" => Talk("finalize", m, cp, e, Tail(w))
           /\ Head(w).t = "pinit" /\ m = "static" => Talk("code", m, cp, e, Tail(w))
           /\ Head(w).t = "pinit" /\ m = "dynamic" => Talk("code", m, cp, {"sinit"}, Tail(w))
<1>1. CASE sp = "init"
  <2>1. \/ m # "psk" /\ cp = "gate" /\ One(w, "pending")
        \/ cp = "init" /\ One(w, "pinit")
        \/ m # "psk" /\ cp = "init" /\ Two(w, "pending", "pinit")
        \/ m = "psk" /\ cp = "fin" /\ Two(w, "pinit", "finalize")
    BY <1>1 DEF Talk
  <2>2. e = {}
    BY <1>1 DEF Talk
  <2>3. CASE m # "psk" /\ cp = "gate" /\ One(w, "pending")
    BY <1>1, <2>2, <2>3, WordsTail DEF Talk
  <2>4. CASE cp = "init" /\ One(w, "pinit")
    BY <1>1, <2>2, <2>4, WordsTail DEF Talk
  <2>5. CASE m # "psk" /\ cp = "init" /\ Two(w, "pending", "pinit")
    BY <1>1, <2>2, <2>5, WordsTail DEF Talk
  <2>6. CASE m = "psk" /\ cp = "fin" /\ Two(w, "pinit", "finalize")
    BY <1>1, <2>2, <2>6, WordsTail DEF Talk
  <2> QED
    BY <2>1, <2>3, <2>4, <2>5, <2>6
<1>2. CASE sp = "gesture"
  <2>1. m # "psk" /\ e = {} /\ (Mute(w) \/ (cp = "init" /\ One(w, "pinit")))
    BY <1>2 DEF Talk
  <2>2. cp = "init" /\ Head(w).t = "pinit" /\ Mute(Tail(w))
    BY <2>1, WordsTail
  <2> QED
    BY <1>2, <2>1, <2>2 DEF Talk
<1> QED
  BY <1>1, <1>2

\* The attempt moves on when the server reads what it waits for.
LEMMA TalkNext ==
    ASSUME NEW sp \in {"code", "auth", "confirm", "finalize", "ack"}, NEW m, NEW cp, NEW e, NEW w \in Seq(UpFrames), w # <<>>,
           Talk(sp, m, cp, e, w)
    PROVE  /\ e = {} /\ sp \notin {"code", "ack"}
           /\ sp = "auth" => Head(w).t = "cauth" /\ Talk("confirm", m, cp, {"sconfirm"}, Tail(w))
           /\ sp = "confirm" => /\ Head(w).t \in {"cconfirm", "retry"}
                                /\ Head(w).t = "cconfirm" => Talk("finalize", m, cp, e, Tail(w))
                                /\ Head(w).t = "retry" => m = "dynamic" /\ Talk("code", m, cp, {"sinit"}, Tail(w))
           /\ sp = "finalize" => Head(w).t = "finalize" /\ cp = "fin" /\ Talk("ack", m, cp, e, Tail(w))
<1>1. sp \notin {"code", "ack"}
  BY WordsTail DEF Talk
<1>2. CASE sp = "auth"
  <2>1. m # "psk" /\ One(w, "cauth") /\ cp = "confirm" /\ e = {}
    BY <1>2, WordsTail DEF Talk
  <2> QED
    BY <1>2, <2>1, WordsTail DEF Talk
<1>3. CASE sp = "confirm"
  <2>1. m # "psk" /\ (\/ Two(w, "cconfirm", "finalize") /\ cp = "fin" /\ e = {}
                      \/ m = "dynamic" /\ One(w, "retry") /\ cp = "init" /\ e = {})
    BY <1>3, WordsTail DEF Talk
  <2>2. CASE Two(w, "cconfirm", "finalize") /\ cp = "fin" /\ e = {}
    BY <1>3, <2>1, <2>2, WordsTail DEF Talk
  <2>3. CASE m = "dynamic" /\ One(w, "retry") /\ cp = "init" /\ e = {}
    <3>1. Head(w).t = "retry" /\ Mute(Tail(w))
      BY <2>3, WordsTail
    <3>2. Talk("code", m, cp, {"sinit"}, Tail(w))
      BY <2>3, <3>1 DEF Talk
    <3> QED
      BY <1>3, <2>3, <3>1, <3>2
  <2> QED
    BY <2>1, <2>2, <2>3
<1>4. CASE sp = "finalize"
  <2>1. One(w, "finalize") /\ cp = "fin" /\ e = {}
    BY <1>4, WordsTail DEF Talk
  <2> QED
    BY <1>4, <2>1, WordsTail DEF Talk
<1> QED
  BY <1>1, <1>2, <1>3, <1>4

\* The server plays a round when the code is entered.
LEMMA TalkCode ==
    ASSUME NEW m, NEW cp, NEW e, NEW w, Talk("code", m, cp, e, w)
    PROVE  /\ Talk("auth", m, cp, e \cup {"sauth"}, w) /\ Mute(w) /\ e \subseteq {"sinit"}
           /\ \/ m = "static" /\ cp = "init" /\ e = {}
              \/ m = "dynamic" /\ cp = "init" /\ e = {"sinit"}
              \/ m = "dynamic" /\ cp = "share" /\ e = {}
<1>1. /\ Mute(w)
      /\ \/ m = "static" /\ cp = "init" /\ e = {}
         \/ m = "dynamic" /\ cp = "init" /\ e = {"sinit"}
         \/ m = "dynamic" /\ cp = "share" /\ e = {}
  BY DEF Talk
<1>2. ({} \cup {"sauth"}) = {"sauth"} /\ ({"sinit"} \cup {"sauth"}) = {"sinit", "sauth"}
  OBVIOUS
<1> QED
  BY <1>1, <1>2 DEF Talk

\* What the client does next.
LEMMA TalkGate ==
    ASSUME NEW sp, NEW m, NEW e, NEW w \in Seq(UpFrames), NEW f \in UpFrames, f.t = "pinit", Talk(sp, m, "gate", e, w)
    PROVE  Talk(sp, m, "init", e, Append(w, f))
BY Words DEF Talk

\* The Pairing PSK flow finalizes after client/pair-init.
LEMMA TalkPsk ==
    ASSUME NEW sp, NEW e, NEW w \in Seq(UpFrames), NEW f \in UpFrames, f.t = "finalize", Talk(sp, "psk", "init", e, w)
    PROVE  Talk(sp, "psk", "fin", e, Append(w, f))
BY Words DEF Talk

\* While something is asked of the client it has nothing left to be read.
LEMMA TalkReads ==
    ASSUME NEW sp, NEW m, NEW cp, NEW e, NEW w \in Seq(UpFrames), Talk(sp, m, cp, e, w), e # {}
    PROVE  /\ Mute(w)
           /\ \/ sp = "code" /\ m = "dynamic" /\ cp = "init" /\ e = {"sinit"}
              \/ sp = "auth" /\ m = "static" /\ cp = "init" /\ e = {"sauth"}
              \/ sp = "auth" /\ m = "dynamic" /\ cp = "init" /\ e = {"sinit", "sauth"}
              \/ sp = "auth" /\ m = "dynamic" /\ cp = "share" /\ e = {"sauth"}
              \/ sp = "confirm" /\ m # "psk" /\ cp = "confirm" /\ e = {"sconfirm"}
BY DEF Talk

\* The first frame of two queues, read in turn.
LEMMA ConcatTail ==
    ASSUME NEW S, NEW p \in Seq(S), NEW w \in Seq(S), p \o w # <<>>
    PROVE  /\ p # <<>> => Tail(p \o w) = Tail(p) \o w /\ Head(p \o w) = Head(p) /\ Tail(p) \in Seq(S)
           /\ p = <<>> => p \o w = w
OBVIOUS

\* Two frames, sent in turn.
LEMMA DownConcat ==
    ASSUME NEW p \in Seq(DownFrames), NEW v \in Seq(DownFrames), NEW w \in Seq(DownFrames)
    PROVE  p \o (v \o w) = (p \o v) \o w /\ p \o v \in Seq(DownFrames)
OBVIOUS

\* Two things that hold of the next frame.
LEMMA BothOf ==
    ASSUME NEW q \in Seq(DownFrames), NEW f \in DownFrames, NEW g \in DownFrames
    PROVE  q \o (<<f>> \o <<g>>) = Append(Append(q, f), g) /\ <<f>> \o <<g>> \in Seq(DownFrames)
OBVIOUS

\* The rest of what the client said in the attempt.
LEMMA CurrentTail ==
    ASSUME NEW x, NEW y, NEW d, NEW w \in Seq(UpFrames), w # <<>>, Current(x, d, w), y.idx = x.idx
    PROVE  /\ Current(y, d, Tail(w))
           /\ First(Head(w)) => Head(w).idx = x.idx
           /\ Head(w).t = "finalize" /\ d.pc = "fin" => Head(w).psk = d.fin
<1>1. /\ Tail(w) \in Seq(UpFrames) /\ Len(Tail(w)) = Len(w) - 1 /\ Len(w) >= 1 /\ Head(w) = w[1] /\ Len(w) \in Nat
      /\ \A i \in 1..Len(Tail(w)) : i + 1 \in 1..Len(w) /\ Tail(w)[i] = w[i + 1]
  BY TailHas
<1> QED
  BY <1>1 DEF Current

\* The rest of what the client said before the attempt.
LEMMA EarlierTail ==
    ASSUME NEW x, NEW p \in Seq(UpFrames), p # <<>>, Earlier(x, p)
    PROVE  Earlier(x, Tail(p)) /\ (First(Head(p)) => Head(p).idx < x.idx)
<1>1. /\ Tail(p) \in Seq(UpFrames) /\ Len(Tail(p)) = Len(p) - 1 /\ Len(p) >= 1 /\ Head(p) = p[1] /\ Len(p) \in Nat
      /\ \A i \in 1..Len(Tail(p)) : i + 1 \in 1..Len(p) /\ Tail(p)[i] = p[i + 1]
  BY TailHas
<1> QED
  BY <1>1 DEF Earlier

\* The client says one thing more, in the attempt or on leaving it.
LEMMA CurrentAppend ==
    ASSUME NEW x, NEW d, NEW e, NEW w \in Seq(UpFrames), NEW f \in UpFrames, Current(x, d, w),
           First(f) => f.idx = x.idx, e.pc = "fin" => (d.pc = "fin" /\ e.fin = d.fin) \/ (\A i \in 1..Len(w) : w[i].t # "finalize"),
           f.t = "finalize" /\ e.pc = "fin" => f.psk = e.fin
    PROVE  Current(x, e, Append(w, f)) /\ Current(x, e, w)
<1>1. /\ Append(w, f) \in Seq(UpFrames) /\ Len(Append(w, f)) = Len(w) + 1 /\ Len(w) \in Nat
      /\ \A i \in 1..Len(w) : Append(w, f)[i] = w[i]
      /\ Append(w, f)[Len(w) + 1] = f
  BY AppendHas
<1>2. Current(x, e, w)
  BY DEF Current
<1> QED
  BY <1>1, <1>2 DEF Current

-----------------------------------------------------------------------------
(* The server's steps.                                                       *)

\* What a session is about, on the server's side.
Same(y, x) ==
    /\ y.pc = x.pc /\ y.key = x.key /\ y.psk = x.psk /\ y.idx = x.idx /\ y.meth = x.meth /\ y.target = x.target
    /\ y.play = x.play /\ y.roles = x.roles /\ y.behind = x.behind

\* A session depends on no more of the server than Same names.
LEMMA JoinedSame ==
    ASSUME NEW x, NEW y, NEW d, NEW q, NEW r, Same(y, x), Joined(x, d, q, r)
    PROVE  Joined(y, d, q, r)
<1>1. Steady(y, d, q, r)
  BY SteadyServer DEF Joined, Same
<1>2. Idle(x, d, q) => Idle(y, d, q)
  BY IdleServer DEF Same
<1>3. Announcing(x, q) => Announcing(y, q)
  BY DEF Announcing, Same
<1>4. \A p : Earlier(x, p) => Earlier(y, p)
  BY DEF Earlier, Same
<1>5. \A w : Current(x, d, w) => Current(y, d, w)
  BY DEF Current, Same
<1>6. \A e, w : Talks(x, d, e, w) => Talks(y, d, e, w)
  BY DEF Talks, Same
<1>7. Conversing(x, d, q, r) => Conversing(y, d, q, r)
  BY <1>4, <1>5, <1>6 DEF Conversing, Same
<1>8. Closing(x, d, q) => Closing(y, d, q)
  BY DEF Closing, Same
<1> QED
  BY <1>1, <1>2, <1>3, <1>7, <1>8 DEF Joined, Phase, Same

\* The same, while a handshake may be under way.
LEMMA SessionSame ==
    ASSUME NEW x, NEW y, NEW d, NEW q, NEW r, Same(y, x), Session(x, d, q, r)
    PROVE  Session(y, d, q, r)
<1>1. \A q0 : Joined(x, d, q0, r) => Joined(y, d, q0, r)
  BY JoinedSame
<1>2. \A q0 : Open(x, q, q0) => Open(y, q, q0)
  BY DEF Open, Same
<1>3. Accepted(x, d, q, r) => Accepted(y, d, q, r)
  BY DEF Accepted, Same
<1> QED
  BY <1>1, <1>2, <1>3 DEF Session

\* Outside a handshake the queues are the session's.
LEMMA SessionIs ==
    ASSUME NEW x, NEW d, NEW q, NEW r, x.pc \notin InHandshake, Session(x, d, q, r)
    PROVE  Joined(x, d, q, r)
BY DEF Session, Open, Accepted

\* The server is doing one thing at a time.
LEMMA PcsDiffer ==
    /\ Exchanging \cap InHandshake = {} /\ "idle" \notin Exchanging \cup InHandshake /\ "ack" \notin Exchanging \cup InHandshake
    /\ "final" \notin Exchanging /\ "down" \notin Exchanging \cup InHandshake /\ "return" \notin Exchanging
BY DEF Exchanging, InHandshake

\* The invariant, by whether the connection is up.
LEMMA UpIs ==
    ASSUME SessionInv
    PROVE  /\ Up => Connected
           /\ ~Up => Disconnected
           /\ Connected => Up
<1>1. ServerDown.pc = "down"
  BY DEF ServerDown
<1>2. Connected => s.pc # "down"
  BY PcsDiffer DEF Connected, ServerStates
<1> QED
  BY <1>1, <1>2 DEF SessionInv, Disconnected, Up

\* A step of the server that keeps the store.
LEMMA ServerDone ==
    ASSUME SessionInv, Connected, c' = c, store' = store, group' \in BOOLEAN, fault' = fault,
           s' \in ServerStates, s2c' \in Seq(DownFrames), c2s' \in Seq(UpFrames),
           AtServer(s', store), Session(s', c, s2c', c2s')
    PROVE  SessionInv'
BY DEF SessionInv, Connected

\* A connection may end at any time.
LEMMA CloseOK ==
    ASSUME SessionInv, NEW f, Close(f), f \in {"none", "client: credential", "early"}, store' \in Stores,
           store'.crec \subseteq store'.ever, group' \in BOOLEAN
    PROVE  SessionInv'
BY DEF SessionInv, Close, Disconnected

\* What AtServer says of an attempt in progress.
LEMMA AttemptIs ==
    ASSUME NEW x \in ServerStates, NEW st, AtServer(x, st), x.pc \in Exchanging \cup {"ack"}, NEW d, NEW q, NEW r,
           Session(x, d, q, r)
    PROVE  /\ Joined(x, d, q, r) /\ Steady(x, d, q, r) /\ "sfinal" \notin Said(q)
           /\ x.moved => x.in \/ st.srec = 0
           /\ x.dial => ~x.in
           /\ d.quiet => q # <<>>
           /\ Announcing(x, q) \/ Conversing(x, d, q, r)
<1>1. Joined(x, d, q, r)
  BY SessionIs, PcsDiffer
<1> QED
  BY <1>1, PcsDiffer DEF AtServer, Joined, Phase

\* The attempt times out at the server, which says so.
LEMMA ServerTimeoutOK ==
    ASSUME SessionInv, ServerTimeout
    PROVE  SessionInv'
<1>1. Connected /\ s.pc \in Exchanging
  BY UpIs DEF ServerTimeout
<1>2. s \in ServerStates /\ c \in ClientStates /\ s2c \in Seq(DownFrames) /\ c2s \in Seq(UpFrames)
      /\ AtServer(s, store) /\ Session(s, c, s2c, c2s) /\ group \in BOOLEAN /\ store \in Stores
  BY <1>1 DEF Connected, SessionInv
<1>3. /\ Steady(s, c, s2c, c2s) /\ "sfinal" \notin Said(s2c) /\ (s.moved => s.in \/ store.srec = 0) /\ (s.dial => ~s.in)
  BY <1>1, <1>2, AttemptIs
<1>4. Sends(Leaving(s), s, c, s2c, c2s, store, {"idle"})
  BY <1>2, <1>3, LeaveOK
<1>5. s' = Leaving(s).srv /\ s2c' = s2c \o Leaving(s).out /\ c2s' = c2s /\ c' = c /\ store' = store /\ group' = group /\ fault' = fault
  BY DEF ServerTimeout, Serve
<1> QED
  BY <1>1, <1>2, <1>4, <1>5, ServerDone DEF Sends

\* The server reads that the client has given the attempt up.
LEMMA ServerReadsAbortOK ==
    ASSUME SessionInv, ServerReadsAbort
    PROVE  SessionInv'
<1>1. Connected /\ s.pc \in Exchanging /\ c2s # <<>>
  BY UpIs DEF ServerReadsAbort
<1>2. s \in ServerStates /\ c \in ClientStates /\ s2c \in Seq(DownFrames) /\ c2s \in Seq(UpFrames)
      /\ AtServer(s, store) /\ Session(s, c, s2c, c2s) /\ group \in BOOLEAN /\ store \in Stores
  BY <1>1 DEF Connected, SessionInv
<1>3. /\ Steady(s, c, s2c, c2s) /\ "sfinal" \notin Said(s2c) /\ (s.moved => s.in \/ store.srec = 0) /\ (s.dial => ~s.in)
  BY <1>1, <1>2, AttemptIs
<1>4. Steady(s, c, s2c, Tail(c2s)) /\ Tail(c2s) \in Seq(UpFrames)
  BY <1>1, <1>2, <1>3, ServerHears
<1>5. Sends(Leaving(s), s, c, s2c, Tail(c2s), store, {"idle"})
  BY <1>2, <1>3, <1>4, LeaveOK
<1>6. s' = Leaving(s).srv /\ s2c' = s2c \o Leaving(s).out /\ c2s' = Tail(c2s) /\ c' = c /\ store' = store /\ group' = group /\ fault' = fault
  BY DEF ServerReadsAbort, Serve
<1> QED
  BY <1>1, <1>2, <1>4, <1>5, <1>6, ServerDone DEF Sends

\* end_pairing, which also follows when unpaired access is withdrawn.
LEMMA CancelOK ==
    ASSUME NEW x \in ServerStates, x.pc \in Exchanging \cup {"rekey", "ack", "final"}, group \in BOOLEAN, store \in Stores,
           NEW d \in ClientStates, NEW q \in Seq(DownFrames), NEW r, Session(x, d, q, r), NEW st, AtServer(x, st),
           st.srec = store.srec \/ ~x.moved
    PROVE  Sends(Cancelled(x), x, d, q, r, st, {"idle", x.pc})
<1>1. CASE x.pc \in {"rekey", "ack", "final"}
  <2> DEFINE y == [x EXCEPT !.cut = x.pc = "rekey"]
  <2>1. y \in ServerStates /\ Same(y, x) /\ y.in = x.in /\ y.moved = x.moved /\ y.dial = x.dial /\ y.first = x.first
    BY DEF ServerStates, Same
  <2>2. Cancelled(x) = [srv |-> y, out |-> <<>>]
    BY <1>1 DEF Cancelled
  <2> HIDE DEF y
  <2>3. Session(y, d, q, r)
    BY <2>1, SessionSame
  <2>4. AtServer(y, st)
    BY <2>1 DEF AtServer, Same, Credential
  <2>5. q \o <<>> = q /\ <<>> \in Seq(DownFrames)
    OBVIOUS
  <2>6. Cancelled(x).srv = y /\ Cancelled(x).out = <<>>
    BY <2>2
  <2> QED
    BY <2>1, <2>3, <2>4, <2>5, <2>6 DEF Same, Sends
<1>2. CASE x.pc \notin {"rekey", "ack", "final"}
  <2> DEFINE a == Aborting(x.key)
             o == Leaving(x).out
  <2>1. Cancelled(x).srv = Leaving(x).srv /\ Cancelled(x).out = <<a>> \o o
    <3>1. Cancelled(x) = [Leaving(x) EXCEPT !.out = <<a>> \o @]
      BY <1>2 DEF Cancelled, Aborting
    <3>2. DOMAIN Leaving(x) = {"srv", "out"}
      BY ActivatedRecord DEF Leaving
    <3> QED
      BY <3>1, <3>2
  <2>2. a \in DownFrames /\ a.t = "abort" /\ a.key = x.key /\ ~Admitting(a)
    BY FramesAre DEF ServerStates, Admitting
  <2>3. x.pc \in Exchanging
    BY <1>2
  <2>4. /\ Steady(x, d, q, r) /\ "sfinal" \notin Said(q) /\ (x.moved => x.in \/ st.srec = 0) /\ (x.dial => ~x.in)
        /\ (d.quiet => q # <<>>)
    BY <2>3, AttemptIs
  <2> HIDE DEF a, o
  <2>5. Steady(x, d, Append(q, a), r) /\ Append(q, a) \in Seq(DownFrames)
    BY <2>2, <2>4, SendPlain
  <2>6. "sfinal" \notin Said(Append(q, a))
    BY <2>2, <2>4, SaidMore
  <2> DEFINE q2 == Append(q, a)
  <2>7. q2 \in Seq(DownFrames) /\ Steady(x, d, q2, r) /\ "sfinal" \notin Said(q2)
    BY <2>5, <2>6
  <2> HIDE DEF q2
  <2>8. Sends(Leaving(x), x, d, q2, r, st, {"idle"})
    BY <2>4, <2>7, LeaveOK
  <2>9. q \o (<<a>> \o o) = q2 \o o /\ <<a>> \o o \in Seq(DownFrames)
    <3>1. o \in Seq(DownFrames)
      BY <2>8 DEF o, Sends
    <3> QED
      BY <2>2, <3>1 DEF q2
  <2> QED
    BY <2>1, <2>8, <2>9 DEF o, Sends
<1> QED
  BY <1>1, <1>2

\* The operator ends the attempt, or the dialled connection.
LEMMA EndPairingOK ==
    ASSUME SessionInv, EndPairing
    PROVE  SessionInv'
<1>1. Connected /\ s.in
  BY UpIs DEF EndPairing
<1>2. s \in ServerStates /\ c \in ClientStates /\ s2c \in Seq(DownFrames) /\ c2s \in Seq(UpFrames)
      /\ AtServer(s, store) /\ Session(s, c, s2c, c2s) /\ group \in BOOLEAN /\ store \in Stores
  BY <1>1 DEF Connected, SessionInv
<1>3. s.pc \in Exchanging \cup {"rekey", "ack", "final"}
  BY <1>1, <1>2 DEF AtServer
<1>4. Sends(Cancelled(s), s, c, s2c, c2s, store, {"idle", s.pc})
  BY <1>2, <1>3, CancelOK
<1>5. s' = Cancelled(s).srv /\ s2c' = s2c \o Cancelled(s).out /\ c2s' = c2s /\ c' = c /\ store' = store /\ group' = group /\ fault' = fault
  BY DEF EndPairing, Serve
<1> QED
  BY <1>1, <1>2, <1>4, <1>5, ServerDone DEF Sends

\* The attempt is admitted, under the credential it needs.
LEMMA AdmitOK ==
    ASSUME NEW x \in ServerStates, group \in BOOLEAN, NEW d \in ClientStates, NEW q \in Seq(DownFrames), NEW r,
           Steady(x, d, q, r), "sfinal" \notin Said(q), Credential(x), NEW st, x.moved => x.in \/ st.srec = 0,
           x.in \/ x.dial, x.dial => ~x.moved /\ ~x.in /\ ~x.first
    PROVE  Sends(Admitted(x), x, d, q, r, st, {"init"})
<1> DEFINE keeps == x.first /\ PlaybackCapable(x)
           y == [x EXCEPT !.pc = "init", !.idx = x.idx + 1, !.unpair = FALSE]
           f == [t |-> "activate", key |-> x.key, pairing |-> TRUE, meth |-> x.meth,
                 play |-> keeps /\ group, roles |-> IF keeps THEN "keep" ELSE "none"]
           u == Unpairing(x.key)
           o == Admitted(x).out
<1>1. Admitted(x).srv = y /\ o = <<f>> \o (IF x.unpair THEN <<u>> ELSE <<>>)
  BY DEF Admitted, Unpairing
<1>2. /\ y \in ServerStates /\ y.pc = "init" /\ y.idx = x.idx + 1 /\ y.key = x.key /\ y.psk = x.psk /\ y.meth = x.meth
      /\ y.in = x.in /\ y.moved = x.moved /\ y.dial = x.dial /\ y.first = x.first
  <2> DEFINE n == x.idx + 1
  <2>1. n \in Nat /\ y = [x EXCEPT !.pc = "init", !.idx = n, !.unpair = FALSE]
    BY ServerIs
  <2> HIDE DEF n, y
  <2>2. /\ y \in ServerStates /\ y.pc = "init" /\ y.idx = n /\ y.key = x.key /\ y.psk = x.psk /\ y.meth = x.meth
        /\ y.in = x.in /\ y.moved = x.moved /\ y.dial = x.dial /\ y.first = x.first
    BY <2>1 DEF ServerStates, Exchanging
  <2> QED
    BY <2>2 DEF n
<1>3. f \in DownFrames /\ f.key = x.key /\ Admitting(f) /\ f.meth = x.meth
  <2>1. (keeps /\ group) \in BOOLEAN /\ (IF keeps THEN "keep" ELSE "none") \in {"set", "none", "keep"}
    OBVIOUS
  <2>2. x.key \in Nat /\ x.meth \in Methods \cup {"none"}
    BY ServerIs
  <2> HIDE DEF keeps
  <2> QED
    BY <2>1, <2>2 DEF DownFrames, Admitting
<1>4. u \in DownFrames /\ u.t = "unpair" /\ u.key = x.key /\ ~Admitting(u)
  BY FramesAre DEF ServerStates, Admitting
<1> HIDE DEF y, f, u, o
<1> DEFINE q2 == Append(q, f)
           q3 == Append(q2, u)
<1>5. Steady(y, d, q2, r)
  BY <1>2, <1>3, SendAdmitting DEF Credential
<1>6. q2 \in Seq(DownFrames) /\ q2 # <<>> /\ Said(q2) = Said(q) \cup {"activate"}
  BY <1>3, AppendHas, SaidMore DEF Admitting
<1>7. Announcing(y, q2)
  <2>1. Len(q) + 1 \in 1..Len(q2) /\ q2[Len(q) + 1] = f /\ \A j \in 1..Len(q2) : ~(Len(q) + 1 < j)
    BY <1>3, AppendHas
  <2> QED
    BY <1>2, <1>3, <2>1 DEF Announcing
<1>8. AtServer(y, st)
  BY <1>2 DEF AtServer, Credential, Exchanging
<1>9. CASE ~x.unpair
  <2>1. Joined(y, d, q2, r)
    BY <1>2, <1>5, <1>6, <1>7 DEF Joined, Phase
  <2>2. Session(y, d, q2, r)
    BY <1>2, <1>6, <2>1, Settled DEF InHandshake
  <2>3. q \o o = q2 /\ o \in Seq(DownFrames)
    BY <1>1, <1>3, <1>9, AppendHas
  <2> QED
    BY <1>1, <1>2, <1>6, <1>8, <2>2, <2>3 DEF o, Sends
<1>10. CASE x.unpair
  <2>1. q \o o = q3 /\ o \in Seq(DownFrames)
    <3>1. o = <<f>> \o <<u>>
      BY <1>1, <1>10
    <3> QED
      BY <1>3, <1>4, <3>1, BothOf
  <2> HIDE DEF q2
  <2>2. Steady(y, d, Append(q2, u), r)
    BY <1>2, <1>4, <1>5, <1>6, SendPlain
  <2>3. q3 \in Seq(DownFrames) /\ q3 # <<>> /\ Said(q3) = Said(q2) \cup {"unpair"}
    BY <1>4, <1>6, AppendHas, SaidMore
  <2>4. Announcing(y, q3)
    <3>1. /\ Len(q3) = Len(q2) + 1 /\ Len(q2) \in Nat
          /\ \A i \in 1..Len(q2) : q3[i] = q2[i]
          /\ q3[Len(q2) + 1] = u
      BY <1>4, <1>6, AppendHas
    <3>2. \A i \in 1..Len(q3) : i \in 1..Len(q2) \/ i = Len(q2) + 1
      BY <3>1
    <3> HIDE DEF q3
    <3> QED
      BY <1>4, <1>7, <3>1, <3>2 DEF Announcing
  <2>5. Joined(y, d, q3, r)
    BY <1>2, <1>6, <2>2, <2>3, <2>4 DEF Joined, Phase
  <2> HIDE DEF q3
  <2>6. Session(y, d, q3, r)
    BY <1>2, <2>3, <2>5, Settled DEF InHandshake
  <2> QED
    BY <1>1, <1>2, <1>8, <2>1, <2>3, <2>6 DEF o, Sends
<1> QED
  BY <1>9, <1>10

\* initiate_pairing
LEMMA InitiateOK ==
    ASSUME SessionInv, NEW m \in Methods, Initiate(m)
    PROVE  SessionInv'
<1> DEFINE lt == s.psk.cat = "lt"
           x == [s EXCEPT !.in = TRUE, !.meth = m, !.play = @ /\ ~lt, !.roles = @ /\ ~lt]
           target == IF m = "psk" THEN PairingPsk ELSE Sentinel
           b == [ActivateFrame(x) EXCEPT !.roles = "keep"]
           bye == IF lt /\ s.play THEN <<b>> ELSE <<>>
           q1 == s2c \o bye
           z == [x EXCEPT !.pc = "rekey", !.target = target]
           h == [t |-> "hs1", key |-> s.key, psk |-> target]
<1>1. Connected /\ s.pc = "idle" /\ ~s.dial
  BY UpIs DEF Initiate
<1>2. s \in ServerStates /\ c \in ClientStates /\ s2c \in Seq(DownFrames) /\ c2s \in Seq(UpFrames)
      /\ AtServer(s, store) /\ Session(s, c, s2c, c2s) /\ group \in BOOLEAN /\ store \in Stores
  BY <1>1 DEF Connected, SessionInv
<1>3. /\ Steady(s, c, s2c, c2s) /\ "sfinal" \notin Said(s2c) /\ (c.quiet => s2c # <<>>)
  BY <1>1, <1>2, SessionIs, PcsDiffer DEF Joined, Phase
<1>4. /\ x \in ServerStates /\ x.in /\ x.meth = m /\ x.key = s.key /\ x.psk = s.psk /\ x.idx = s.idx /\ x.pc = s.pc
      /\ x.moved = s.moved /\ x.dial = s.dial
  <2> DEFINE p1 == s.play /\ ~lt
             p2 == s.roles /\ ~lt
  <2>1. p1 \in BOOLEAN /\ p2 \in BOOLEAN /\ m \in Methods \cup {"none"}
    OBVIOUS
  <2>2. x = [s EXCEPT !.in = TRUE, !.meth = m, !.play = p1, !.roles = p2]
    OBVIOUS
  <2> HIDE DEF x, p1, p2
  <2> QED
    BY <1>2, <2>1, <2>2 DEF ServerStates
<1>5. target \in Psks /\ target.cat # "lt" /\ (m = "psk" <=> target = PairingPsk)
  BY PsksAre
<1>6. b \in DownFrames /\ b.t = "activate" /\ ~Admitting(b) /\ b.key = x.key
  BY PlainIs, <1>4 DEF ActivateFrame, Admitting
<1>7. Steady(x, c, s2c, c2s)
  BY <1>3, <1>4, SteadyServer
<1>8. /\ Steady(x, c, q1, c2s) /\ q1 \in Seq(DownFrames) /\ "sfinal" \notin Said(q1) /\ (c.quiet => q1 # <<>>)
      /\ bye \in Seq(DownFrames)
  <2> HIDE DEF x, b
  <2>1. CASE lt /\ s.play
    <3>1. q1 = Append(s2c, b) /\ bye \in Seq(DownFrames)
      BY <1>2, <1>6, <2>1, AppendHas
    <3>2. Steady(x, c, Append(s2c, b), c2s)
      BY <1>2, <1>6, <1>7, SendPlain
    <3>3. Said(Append(s2c, b)) = Said(s2c) \cup {"activate"} /\ Append(s2c, b) \in Seq(DownFrames) /\ Append(s2c, b) # <<>>
      BY <1>2, <1>6, AppendHas, SaidMore
    <3> HIDE DEF q1, bye
    <3> QED
      BY <1>3, <3>1, <3>2, <3>3
  <2>2. CASE ~(lt /\ s.play)
    <3>1. q1 = s2c /\ bye = <<>>
      BY <1>2, <2>2
    <3>2. bye \in Seq(DownFrames)
      BY <3>1
    <3> HIDE DEF q1, bye
    <3> QED
      BY <1>2, <1>3, <1>7, <3>1, <3>2
  <2> HIDE DEF q1, bye
  <2> QED
    BY <2>1, <2>2
<1>9. /\ store' = store /\ c' = c /\ c2s' = c2s /\ fault' = fault /\ group' \in BOOLEAN
      /\ IF s.psk = target THEN Serve([Admitted(x) EXCEPT !.out = bye \o @])
         ELSE Serve([srv |-> z, out |-> Append(bye, h)])
  BY DEF Initiate
<1>10. CASE s.psk = target
  <2>1. Credential(x) /\ ~x.dial
    BY <1>1, <1>4, <1>5, <1>10 DEF Credential
  <2> HIDE DEF x, b, bye, q1
  <2>2. Sends(Admitted(x), x, c, q1, c2s, store, {"init"})
    BY <1>2, <1>4, <1>8, <2>1, AdmitOK
  <2>3. s' = Admitted(x).srv /\ s2c' = s2c \o (bye \o Admitted(x).out)
    <3>1. DOMAIN Admitted(x) = {"srv", "out"}
      BY DEF Admitted
    <3> QED
      BY <1>9, <1>10, <3>1 DEF Serve
  <2>4. s2c' = q1 \o Admitted(x).out
    <3> DEFINE o == Admitted(x).out
    <3>1. o \in Seq(DownFrames) /\ s2c' = s2c \o (bye \o o)
      BY <2>2, <2>3 DEF Sends
    <3> HIDE DEF o
    <3>2. s2c \o (bye \o o) = (s2c \o bye) \o o
      BY <1>2, <1>8, <3>1, DownConcat, SMTT(30)
    <3> QED
      BY <3>1, <3>2 DEF q1, o
  <2> QED
    BY <1>1, <1>2, <1>9, <2>2, <2>3, <2>4, ServerDone DEF Sends
<1>11. CASE s.psk # target
  <2> HIDE DEF target, bye, b
  <2>1. /\ z \in ServerStates /\ z.pc = "rekey" /\ z.target = target /\ z.key = s.key /\ z.psk = x.psk /\ z.idx = x.idx
        /\ z.in /\ z.meth = m /\ z.moved = s.moved /\ z.dial = s.dial
    <3> HIDE DEF x
    <3> QED
      BY <1>4, <1>5 DEF ServerStates, InHandshake
  <2>2. s' = z /\ s2c' = s2c \o Append(bye, h)
    BY <1>9, <1>11 DEF Serve
  <2> HIDE DEF x, z, q1
  <2>3. Joined(z, c, q1, c2s)
    <3>1. Steady(z, c, q1, c2s)
      BY <1>4, <1>8, <2>1, SteadyServer
    <3> QED
      BY <1>8, <2>1, <3>1, PcsDiffer DEF Joined, Phase, Exchanging
  <2>4. h = [t |-> "hs1", key |-> z.key, psk |-> z.target]
    BY <2>1
  <2> HIDE DEF h
  <2>5. Session(z, c, Append(q1, h), c2s) /\ Append(q1, h) \in Seq(DownFrames) /\ h \in DownFrames
    BY <1>8, <2>1, <2>3, <2>4, Rehandshake DEF InHandshake
  <2>6. s2c' = Append(q1, h)
    BY <1>2, <1>8, <2>2, <2>5 DEF q1
  <2>7. AtServer(z, store)
    BY <1>1, <2>1 DEF AtServer, Exchanging, target
  <2> QED
    BY <1>1, <1>2, <1>9, <2>1, <2>2, <2>5, <2>6, <2>7, ServerDone
<1> QED
  BY <1>10, <1>11

\* Frames that follow what is on the way.
LEMMA JoinedUnpair ==
    ASSUME NEW x \in ServerStates, NEW d \in ClientStates, NEW q \in Seq(DownFrames), NEW r, Joined(x, d, q, r),
           NEW f \in DownFrames, f.t = "unpair", f.key = x.key
    PROVE  Joined(x, d, Append(q, f), r) /\ Append(q, f) \in Seq(DownFrames)
<1>1. ~Admitting(f) /\ ~Act(f) /\ Steady(x, d, q, r) /\ (d.quiet => q # <<>>)
  BY DEF Admitting, Act, Joined
<1>2. Steady(x, d, Append(q, f), r)
  BY <1>1, SendPlain
<1>3. /\ Append(q, f) \in Seq(DownFrames) /\ Len(Append(q, f)) = Len(q) + 1 /\ Len(q) \in Nat /\ Append(q, f) # <<>>
      /\ \A i \in 1..Len(q) : Append(q, f)[i] = q[i]
      /\ Append(q, f)[Len(q) + 1] = f
  BY AppendHas
<1>4. Said(Append(q, f)) = Said(q) \cup {"unpair"} /\ Asked(Append(q, f)) = Asked(q)
  BY SaidMore, AskedMore DEF Exchange
<1>5. Idle(x, d, q) => Idle(x, d, Append(q, f))
  BY <1>1, IdleAppendOther
<1>6. Announcing(x, q) => Announcing(x, Append(q, f))
  <2>1. \A i \in 1..Len(Append(q, f)) : i \in 1..Len(q) \/ i = Len(q) + 1
    BY <1>3
  <2> QED
    BY <1>3, <2>1 DEF Announcing
<1>7. Conversing(x, d, q, r) => Conversing(x, d, Append(q, f), r)
  BY <1>4 DEF Conversing
<1>8. Closing(x, d, q) => Closing(x, d, Append(q, f))
  BY <1>4 DEF Closing
<1> QED
  BY <1>2, <1>3, <1>4, <1>5, <1>6, <1>7, <1>8 DEF Joined, Phase

\* A declaration of activities at rest.
LEMMA IdleDeclares ==
    ASSUME NEW x, NEW y, NEW d \in ClientStates, NEW q \in Seq(DownFrames), NEW r, Joined(x, d, q, r), x.pc = "idle",
           y.pc = "idle", y.key = x.key, y.psk = x.psk, y.idx = x.idx,
           NEW f \in DownFrames, f.t = "activate", ~f.pairing, f.key = x.key, f.play = y.play,
           f.roles = (IF y.roles THEN "set" ELSE "none")
               \/ (f.roles = "keep" /\ y.roles = x.roles /\ y.behind = x.behind)
    PROVE  Session(y, d, Append(q, f), r) /\ Append(q, f) \in Seq(DownFrames)
<1>1. ~Admitting(f) /\ Act(f) /\ Steady(x, d, q, r) /\ "sfinal" \notin Said(q) /\ Idle(x, d, q)
  BY DEF Admitting, Act, Joined, Phase
<1>2. Steady(y, d, Append(q, f), r)
  BY <1>1, SendPlain
<1>3. Append(q, f) \in Seq(DownFrames) /\ Append(q, f) # <<>> /\ Said(Append(q, f)) = Said(q) \cup {f.t}
  BY AppendHas, SaidMore
<1>4. Idle(y, d, Append(q, f))
  BY <1>1, IdleAppendSet, IdleAppendKeep
<1>5. Joined(y, d, Append(q, f), r)
  BY <1>1, <1>2, <1>3, <1>4 DEF Joined, Phase, Exchanging
<1> QED
  BY <1>3, <1>5, Settled DEF InHandshake

\* The invariant of a connection that is up.
LEMMA ConnectedIs ==
    ASSUME SessionInv, Connected
    PROVE  /\ s \in ServerStates /\ c \in ClientStates /\ s2c \in Seq(DownFrames) /\ c2s \in Seq(UpFrames)
           /\ AtServer(s, store) /\ Session(s, c, s2c, c2s) /\ group \in BOOLEAN /\ store \in Stores
BY DEF Connected, SessionInv

\* The group starts or stops: the activities are declared again.
LEMMA TogglePlayOK ==
    ASSUME SessionInv, TogglePlay
    PROVE  SessionInv'
<1> DEFINE p == PlaybackCapable(s) /\ ~group
           x == [s EXCEPT !.play = p]
           f == [ActivateFrame(x) EXCEPT !.roles = "keep"]
<1>1. group' \in BOOLEAN /\ c' = c /\ c2s' = c2s /\ store' = store /\ fault' = fault
  BY DEF TogglePlay, SessionInv
<1>2. CASE s.pc = "idle" /\ s.first /\ x.play # s.play
  <2>1. s' = x /\ s2c' = s2c \o <<f>>
    BY <1>2 DEF TogglePlay, Serve
  <2>2. Connected
    BY <1>2, UpIs DEF Up
  <2>3. Joined(s, c, s2c, c2s)
    BY <1>2, <2>2, ConnectedIs, SessionIs, PcsDiffer
  <2>4. p \in BOOLEAN
    OBVIOUS
  <2> HIDE DEF p
  <2>5. /\ x \in ServerStates /\ x.pc = "idle" /\ x.key = s.key /\ x.psk = s.psk /\ x.idx = s.idx /\ x.roles = s.roles
        /\ x.in = s.in /\ x.moved = s.moved /\ x.dial = s.dial /\ x.first = s.first /\ x.behind = s.behind
    BY <1>2, <2>2, <2>4, ConnectedIs DEF ServerStates
  <2>6. f \in DownFrames /\ f.t = "activate" /\ ~f.pairing /\ f.key = x.key /\ f.play = x.play /\ f.roles = "keep"
    BY <2>5, PlainIs DEF ActivateFrame
  <2> HIDE DEF x, f
  <2>7. Session(x, c, Append(s2c, f), c2s) /\ Append(s2c, f) \in Seq(DownFrames)
    BY <1>2, <2>2, <2>3, <2>5, <2>6, ConnectedIs, IdleDeclares
  <2>8. s2c' = Append(s2c, f)
    BY <2>1, <2>2, <2>6, ConnectedIs, AppendHas
  <2>9. AtServer(x, store)
    BY <1>2, <2>2, <2>5, ConnectedIs DEF AtServer, Exchanging
  <2> QED
    BY <1>1, <2>1, <2>2, <2>5, <2>7, <2>8, <2>9, ConnectedIs, ServerDone
<1>3. CASE ~(s.pc = "idle" /\ s.first /\ x.play # s.play)
  <2>1. s' = s /\ s2c' = s2c
    BY <1>3 DEF TogglePlay
  <2> QED
    BY <1>1, <2>1 DEF SessionInv, Connected, Disconnected
<1> QED
  BY <1>2, <1>3

\* A session that returns to its record depends on nothing the server has declared.
LEMMA SessionReturns ==
    ASSUME NEW x, NEW y, NEW d, NEW q, NEW r, Session(x, d, q, r), x.pc = "return", y.pc = "return",
           y.key = x.key, y.psk = x.psk, y.idx = x.idx, y.target = x.target
    PROVE  Session(y, d, q, r)
<1>1. \A q0 : Joined(x, d, q0, r) => Joined(y, d, q0, r)
  <2> SUFFICES ASSUME NEW q0, Joined(x, d, q0, r) PROVE Joined(y, d, q0, r)
    OBVIOUS
  <2>1. Steady(y, d, q0, r)
    BY SteadyServer DEF Joined
  <2> QED
    BY <2>1 DEF Joined, Phase, Exchanging
<1>2. \A q0 : Open(x, q, q0) => Open(y, q, q0)
  BY DEF Open
<1>3. Accepted(x, d, q, r) => Accepted(y, d, q, r)
  BY DEF Accepted
<1> QED
  BY <1>1, <1>2, <1>3 DEF Session

\* refresh_trusted_unpaired
LEMMA RefreshOK ==
    ASSUME NEW x \in ServerStates, group \in BOOLEAN, store \in Stores,
           NEW d \in ClientStates, NEW q \in Seq(DownFrames), NEW r, Session(x, d, q, r), NEW st, AtServer(x, st),
           st.srec = store.srec \/ ~x.moved, NEW b \in BOOLEAN
    PROVE  Sends(Refreshed(x, b), x, d, q, r, st, {"idle", x.pc})
<1> DEFINE y == [x EXCEPT !.trusted = b]
           z == Declared(y)
           f == ActivateFrame(z)
           R == Refreshed(x, b)
<1>1. /\ y \in ServerStates /\ Same(y, x) /\ y.in = x.in /\ y.moved = x.moved /\ y.dial = x.dial /\ y.first = x.first
  BY DEF ServerStates, Same
<1>2. Session(y, d, q, r)
  BY <1>1, SessionSame
<1>3. AtServer(y, st)
  BY <1>1 DEF AtServer, Same, Credential
<1>4. q \o <<>> = q /\ <<>> \in Seq(DownFrames)
  OBVIOUS
<1>5. CASE x.psk.cat = "lt"
  <2>1. R = [srv |-> x, out |-> <<>>]
    BY <1>5 DEF Refreshed
  <2>2. R.srv = x /\ R.out = <<>>
    BY <2>1
  <2> HIDE DEF R, y
  <2> QED
    BY <1>4, <2>2 DEF Sends, R
<1>6. CASE x.psk.cat # "lt" /\ (~x.first \/ (x.in /\ ~(x.trusted /\ ~b)))
  <2>1. R = [srv |-> y, out |-> <<>>]
    BY <1>6 DEF Refreshed
  <2>2. R.srv = y /\ R.out = <<>>
    BY <2>1
  <2> HIDE DEF R, y
  <2> QED
    BY <1>1, <1>2, <1>3, <1>4, <2>2 DEF Sends, R, Same
<1>7. CASE x.psk.cat # "lt" /\ x.first /\ x.in /\ x.trusted /\ ~b
  <2>1. R = Cancelled(y)
    BY <1>7 DEF Refreshed
  <2>2. y.pc \in Exchanging \cup {"rekey", "ack", "final"} /\ y.pc = x.pc /\ y.key = x.key
    BY <1>1, <1>7 DEF AtServer, Same
  <2> HIDE DEF R, y
  <2>3. st.srec = store.srec \/ ~y.moved
    BY <1>1
  <2>4. Sends(Cancelled(y), y, d, q, r, st, {"idle", y.pc})
    BY <1>1, <1>2, <1>3, <2>2, <2>3, CancelOK
  <2> QED
    BY <1>1, <2>1, <2>2, <2>4 DEF Sends, R
<1>8. CASE x.psk.cat # "lt" /\ x.first /\ ~x.in /\ x.pc # "return"
  <2> DEFINE v == [z EXCEPT !.behind = FALSE]
  <2>1. x.pc = "idle"
    BY <1>8 DEF AtServer, ServerStates, InHandshake
  <2>2. R = [srv |-> v, out |-> <<f>>]
    BY <1>8 DEF Refreshed
  <2>3. z \in ServerStates /\ Like(z, y) /\ Plain(f, z)
    BY <1>1, DeclaredIs, PlainIs
  <2>4. R.srv = v /\ R.out = <<f>>
    BY <2>2
  <2> HIDE DEF R, z, f, y
  <2>5. Joined(y, d, q, r)
    BY <1>1, <1>2, <2>1, SessionIs, PcsDiffer DEF Same
  <2>9. v \in ServerStates /\ Like(v, y) /\ Plain(f, v)
    <3>1. v \in ServerStates /\ Like(v, z)
      BY <2>3 DEF ServerStates, Like
    <3>2. v.key = z.key /\ v.play = z.play /\ v.roles = z.roles
      BY <2>3 DEF ServerStates
    <3> HIDE DEF v
    <3> QED
      BY <2>3, <3>1, <3>2 DEF Like, Plain
  <2> HIDE DEF v
  <2>6. Session(v, d, Append(q, f), r) /\ Append(q, f) \in Seq(DownFrames)
    BY <1>1, <2>1, <2>9, <2>5, IdleDeclares DEF Same, Like, Plain
  <2>7. q \o <<f>> = Append(q, f) /\ <<f>> \in Seq(DownFrames)
    BY <2>3, AppendHas DEF Plain
  <2>8. AtServer(v, st)
    BY <1>1, <1>3, <1>8, <2>1, <2>9 DEF AtServer, Same, Like, Exchanging
  <2> QED
    BY <1>1, <2>1, <2>9, <2>4, <2>6, <2>7, <2>8 DEF Sends, Same, Like, R
<1>9. CASE x.psk.cat # "lt" /\ x.first /\ ~x.in /\ x.pc = "return"
  <2> DEFINE v == [z EXCEPT !.stale = <<f>>]
  <2>1. R = [srv |-> v, out |-> <<>>]
    BY <1>9 DEF Refreshed
  <2>2. z \in ServerStates /\ Like(z, y) /\ Plain(f, z)
    BY <1>1, DeclaredIs, PlainIs
  <2>3. R.srv = v /\ R.out = <<>>
    BY <2>1
  <2> HIDE DEF R, z, f, y
  <2>4. <<f>> \in Stales
    BY <2>2 DEF Plain, Stales
  <2>5. v \in ServerStates /\ Like(v, y)
    BY <2>2, <2>4 DEF ServerStates, Like
  <2> HIDE DEF v
  <2>6. Session(v, d, q, r)
    BY <1>1, <1>2, <1>9, <2>5, SessionReturns DEF Same, Like
  <2>7. AtServer(v, st)
    BY <1>1, <1>3, <1>9, <2>5 DEF AtServer, Same, Like, Exchanging
  <2> QED
    BY <1>1, <1>4, <1>9, <2>3, <2>5, <2>6, <2>7 DEF Sends, Same, Like, R
<1> QED
  BY <1>5, <1>6, <1>7, <1>8, <1>9

\* The operator trusts the client, or no longer does.
LEMMA TrustOK ==
    ASSUME SessionInv, NEW b \in BOOLEAN, Trust(b)
    PROVE  SessionInv'
<1>1. /\ store' = [store EXCEPT !.trusted = b] /\ c' = c /\ c2s' = c2s /\ group' = group /\ fault' = fault
      /\ (IF Up THEN Serve(Refreshed(s, b)) ELSE UNCHANGED <<s, s2c>>)
  BY DEF Trust
<1>2. /\ store' \in Stores /\ store'.crec = store.crec /\ store'.ever = store.ever /\ store'.srec = store.srec
      /\ store'.rounds = store.rounds
  BY <1>1 DEF SessionInv, Stores
<1>3. CASE ~Up
  BY <1>1, <1>2, <1>3, UpIs DEF SessionInv, Disconnected
<1>4. CASE Up
  <2>1. Connected
    BY <1>4, UpIs
  <2>2. Sends(Refreshed(s, b), s, c, s2c, c2s, store, {"idle", s.pc})
    BY <1>1, <2>1, ConnectedIs, RefreshOK
  <2>3. s' = Refreshed(s, b).srv /\ s2c' = s2c \o Refreshed(s, b).out
    BY <1>1, <1>4 DEF Serve
  <2>4. AtServer(s', store') /\ Counted(c, store')
    BY <1>2, <2>1, <2>2, <2>3 DEF AtServer, Sends, Connected, Counted
  <2>5. s' \in ServerStates /\ s2c' \in Seq(DownFrames) /\ Session(s', c, s2c', c2s)
    BY <2>2, <2>3 DEF Sends
  <2> QED
    BY <1>1, <1>2, <2>1, <2>4, <2>5 DEF SessionInv, Connected
<1> QED
  BY <1>3, <1>4

\* Only a session on its record is unpaired.
LEMMA Unpairable ==
    ASSUME NEW y, NEW o
    PROVE  [[srv |-> y, out |-> o] EXCEPT !.srv.unpair = TRUE] = [srv |-> [y EXCEPT !.unpair = TRUE], out |-> o]
<1> DEFINE R == [srv |-> y, out |-> o]
           w == [y EXCEPT !.unpair = TRUE]
<1>1. R.srv = y /\ R.out = o /\ DOMAIN R = {"srv", "out"}
  OBVIOUS
<1>2. [R EXCEPT !.srv.unpair = TRUE] = [R EXCEPT !.srv = [R.srv EXCEPT !.unpair = TRUE]]
  <2> HIDE DEF R
  <2> QED
    OBVIOUS
<1>3. [R EXCEPT !.srv = [R.srv EXCEPT !.unpair = TRUE]] = [R EXCEPT !.srv = w]
  BY <1>1
<1>4. [R EXCEPT !.srv = w] = [srv |-> w, out |-> o]
  <2> HIDE DEF w
  <2> QED
    OBVIOUS
<1> QED
  BY <1>2, <1>3, <1>4

\* A refresh on its record does not rekey.
LEMMA RefreshedRecord ==
    ASSUME NEW x, NEW b
    PROVE  Refreshed(x, b) = [srv |-> Refreshed(x, b).srv, out |-> Refreshed(x, b).out]
<1>1. \A y : \E a, o : Leaving(y) = [srv |-> a, out |-> o]
  <2> SUFFICES ASSUME NEW y PROVE \E a, o : Leaving(y) = [srv |-> a, out |-> o]
    OBVIOUS
  <2> DEFINE z == [y EXCEPT !.pc = "idle", !.in = FALSE, !.cut = FALSE, !.meth = "none"]
  <2>1. Activated(z) = [srv |-> Activated(z).srv, out |-> Activated(z).out]
    BY ActivatedRecord
  <2>2. [Activated(z) EXCEPT !.srv.dial = FALSE] = [srv |-> [Activated(z).srv EXCEPT !.dial = FALSE], out |-> Activated(z).out]
    BY <2>1, Undialled
  <2> QED
    BY <2>2 DEF Leaving
<1>2. \A y : \E a, o : Cancelled(y) = [srv |-> a, out |-> o]
  <2> SUFFICES ASSUME NEW y PROVE \E a, o : Cancelled(y) = [srv |-> a, out |-> o]
    OBVIOUS
  <2>1. PICK a, o : Leaving(y) = [srv |-> a, out |-> o]
    BY <1>1
  <2>2. [Leaving(y) EXCEPT !.out = <<[t |-> "abort", key |-> y.key]>> \o @]
          = [srv |-> a, out |-> <<[t |-> "abort", key |-> y.key]>> \o o]
    BY <2>1
  <2> QED
    BY <2>2 DEF Cancelled
<1>3. \E a, o : Refreshed(x, b) = [srv |-> a, out |-> o]
  BY <1>2 DEF Refreshed
<1> QED
  BY <1>3

\* The operator unpairs the client.
LEMMA UnpairOK ==
    ASSUME SessionInv, Unpair
    PROVE  SessionInv'
<1> DEFINE x == [s EXCEPT !.mismatch = FALSE, !.moved = FALSE]
           R == Refreshed(x, store.trusted)
           u == Unpairing(s.key)
<1>1. /\ store' = [store EXCEPT !.srec = 0] /\ c' = c /\ c2s' = c2s /\ group' = group /\ fault' = fault
      /\ Connected
      /\ Serve(IF Paused THEN [R EXCEPT !.srv.unpair = TRUE] ELSE [R EXCEPT !.out = Append(@, u)])
  BY UpIs DEF Unpair, Unpairing
<1>2. /\ store' \in Stores /\ store'.crec = store.crec /\ store'.ever = store.ever /\ store'.srec = 0
      /\ store'.rounds = store.rounds /\ store.trusted \in BOOLEAN /\ store \in Stores
  <2>1. store \in Stores
    BY DEF SessionInv
  <2>2. 0 \in 0..MaxPsk
    BY PairConstants
  <2> QED
    BY <1>1, <2>1, <2>2 DEF Stores
<1>3. /\ x \in ServerStates /\ Same(x, s) /\ x.in = s.in /\ ~x.moved /\ x.dial = s.dial /\ x.first = s.first
  BY <1>1, ConnectedIs DEF ServerStates, Same
<1>4. Session(x, c, s2c, c2s)
  BY <1>1, <1>3, ConnectedIs, SessionSame
<1>5. AtServer(x, store')
  BY <1>1, <1>2, <1>3, ConnectedIs DEF AtServer, Same, Credential
<1> HIDE DEF x
<1>6. Sends(R, x, c, s2c, c2s, store', {"idle", x.pc})
  <2>2. store'.srec = store.srec \/ ~x.moved
    BY <1>3
  <2> DEFINE st == store'
  <2>3. AtServer(x, st) /\ (st.srec = store.srec \/ ~x.moved)
    BY <1>5, <2>2
  <2> HIDE DEF st
  <2>4. Sends(R, x, c, s2c, c2s, st, {"idle", x.pc})
    BY <1>1, <1>2, <1>3, <1>4, <2>3, ConnectedIs, RefreshOK
  <2> QED
    BY <2>4 DEF st
<1> DEFINE y == R.srv
           o == R.out
           q1 == s2c \o o
<1>7. R = [srv |-> y, out |-> o]
  BY RefreshedRecord
<1> HIDE DEF R
<1>8. /\ y \in ServerStates /\ o \in Seq(DownFrames) /\ q1 \in Seq(DownFrames) /\ Session(y, c, q1, c2s)
      /\ AtServer(y, store') /\ y.key = s.key /\ y.pc \in {"idle", s.pc}
  BY <1>3, <1>6 DEF Sends, Same
<1> HIDE DEF y, o
<1>9. CASE Paused
  <2> DEFINE z == [y EXCEPT !.unpair = TRUE]
  <2>1. s' = z /\ s2c' = q1
    <3>1. [R EXCEPT !.srv.unpair = TRUE] = [srv |-> z, out |-> o]
      BY <1>7, Unpairable
    <3> HIDE DEF z
    <3> QED
      BY <1>1, <1>9, <3>1 DEF Serve
  <2>2. z \in ServerStates /\ Same(z, y) /\ z.in = y.in /\ z.moved = y.moved /\ z.dial = y.dial /\ z.first = y.first
    BY <1>8 DEF ServerStates, Same
  <2> HIDE DEF z, q1
  <2>3. Session(z, c, q1, c2s)
    BY <1>8, <2>2, SessionSame
  <2>4. AtServer(z, store')
    BY <1>8, <2>2 DEF AtServer, Same, Credential
  <2>5. Counted(c, store')
    BY <1>1, <1>2 DEF Connected, Counted
  <2> QED
    BY <1>1, <1>2, <1>8, <2>1, <2>2, <2>3, <2>4, <2>5 DEF SessionInv, Connected
<1>10. CASE ~Paused
  <2>1. s' = y /\ s2c' = s2c \o Append(o, u)
    <3>1. [R EXCEPT !.out = Append(@, u)] = [srv |-> y, out |-> Append(o, u)]
      BY <1>7, SMTT(30)
    <3> QED
      BY <1>1, <1>10, <3>1 DEF Serve
  <2>2. u \in DownFrames /\ u.t = "unpair" /\ u.key = y.key
    BY <1>1, <1>8, ConnectedIs, FramesAre DEF ServerStates
  <2> HIDE DEF u
  <2>3. s2c' = Append(q1, u)
    BY <1>1, <1>8, <2>1, <2>2, ConnectedIs
  <2> HIDE DEF q1
  <2>4. y.pc \notin InHandshake
    BY <1>1, <1>8, <1>10, ConnectedIs DEF Paused, ServerStates, InHandshake
  <2>5. Joined(y, c, q1, c2s)
    BY <1>8, <2>4, SessionIs
  <2>6. Joined(y, c, Append(q1, u), c2s) /\ Append(q1, u) \in Seq(DownFrames)
    BY <1>1, <1>8, <2>2, <2>5, ConnectedIs, JoinedUnpair
  <2>7. Session(y, c, Append(q1, u), c2s)
    BY <2>4, <2>6, Settled
  <2>8. Counted(c, store')
    BY <1>1, <1>2 DEF Connected, Counted
  <2> QED
    BY <1>1, <1>2, <1>8, <2>1, <2>3, <2>6, <2>7, <2>8 DEF SessionInv, Connected
<1> QED
  BY <1>9, <1>10

\* A call that begins while the session returns to its record.
LEMMA InitiateEarlyOK ==
    ASSUME SessionInv, InitiateEarly
    PROVE  SessionInv'
<1> DEFINE x == [s EXCEPT !.early = TRUE]
<1>1. /\ s' = x /\ s.pc = "return" /\ c' = c /\ s2c' = s2c /\ c2s' = c2s /\ store' = store /\ group' = group /\ fault' = fault
  BY DEF InitiateEarly
<1>2. Connected
  BY <1>1, UpIs DEF Up
<1>3. /\ x \in ServerStates /\ x.pc = s.pc /\ x.key = s.key /\ x.psk = s.psk /\ x.idx = s.idx /\ x.target = s.target
      /\ x.in = s.in /\ x.moved = s.moved /\ x.dial = s.dial /\ x.first = s.first
  BY <1>2, ConnectedIs DEF ServerStates
<1> HIDE DEF x
<1>4. Session(x, c, s2c, c2s)
  BY <1>1, <1>2, <1>3, ConnectedIs, SessionReturns
<1>5. AtServer(x, store)
  BY <1>1, <1>2, <1>3, ConnectedIs DEF AtServer, Exchanging
<1> QED
  BY <1>1, <1>2, <1>3, <1>4, <1>5, ConnectedIs, ServerDone

\* What such a call comes to.
LEMMA EndsEarlyOK ==
    ASSUME SessionInv, EndsEarly
    PROVE  SessionInv'
<1>1. Close("early") /\ store' = store /\ group' = group
  BY DEF EndsEarly
<1> QED
  BY <1>1, CloseOK DEF SessionInv

\* The connection is lost.
LEMMA DropOK ==
    ASSUME SessionInv, Drop
    PROVE  SessionInv'
<1>1. Close("none") /\ store' = store /\ group' = group
  BY DEF Drop
<1> QED
  BY <1>1, CloseOK DEF SessionInv

AnyServer ==
    [pc : Exchanging \cup InHandshake \cup {"idle", "ack", "down"}, psk : Psks, key : Nat, idx : Nat, in : BOOLEAN,
     moved : BOOLEAN, mismatch : BOOLEAN, cut : BOOLEAN, dial : BOOLEAN, meth : Methods \cup {"none"},
     target : Psks, first : BOOLEAN, play : BOOLEAN, roles : BOOLEAN, trusted : BOOLEAN, unpair : BOOLEAN,
     stale : Stales, behind : BOOLEAN, early : BOOLEAN]

AnyClient ==
    [pc : {"none", "gate", "init", "share", "confirm", "fin", "down"}, psk : Psks, key : Nat, idx : Nat,
     quiet : BOOLEAN, pairing : BOOLEAN, meth : Methods \cup {"none"}, play : BOOLEAN, roles : BOOLEAN,
     ok : BOOLEAN, cancellable : BOOLEAN, fin : 0..MaxPsk]

\* The states of the two ends before they connect.
LEMMA DownIs == ServerDown \in AnyServer /\ ClientDown \in AnyClient
<1>1. <<>> \in Stales /\ 0 \in 0..MaxPsk
  BY PairConstants DEF Stales
<1>3. ServerDown \in AnyServer
  BY <1>1, PsksAre DEF ServerDown, AnyServer
<1>4. ClientDown \in AnyClient
  BY <1>1, PsksAre DEF ClientDown, AnyClient
<1> QED
  BY <1>3, <1>4

\* The first handshake.
LEMMA ConnectOK ==
    ASSUME SessionInv, NEW m \in Methods \cup {"none"}, Connect(m)
    PROVE  SessionInv'
<1> DEFINE wanted == IF m = "psk" THEN PairingPsk
                     ELSE IF m = "none" /\ store.srec # 0 THEN LongTerm(store.srec) ELSE Sentinel
           lost == wanted.cat = "lt" /\ store.srec \notin store.crec
           psk == IF lost THEN Sentinel ELSE wanted
           k == store.keys + 1
           x == [ServerDown EXCEPT !.psk = psk, !.key = k, !.mismatch = lost,
                 !.trusted = store.trusted, !.dial = m # "none", !.meth = m]
           z == [x EXCEPT !.pc = "idle"]
           d == [ClientDown EXCEPT !.pc = "none", !.psk = psk, !.key = k]
           q == <<>>
<1>1. /\ ~Up /\ store' = [store EXCEPT !.keys = k] /\ c' = d
      /\ Serve(IF m = "none" THEN Activated(z) ELSE Admitted(x))
      /\ c2s' = c2s /\ group' = group /\ fault' = fault
  BY DEF Connect
<1>2. Disconnected /\ store \in Stores /\ group \in BOOLEAN
  BY <1>1, UpIs DEF SessionInv
<1>3. /\ store' \in Stores /\ store'.crec = store.crec /\ store'.ever = store.ever /\ store'.srec = store.srec /\ k \in Nat
      /\ store.trusted \in BOOLEAN /\ store.srec \in 0..MaxPsk
  BY <1>1, <1>2 DEF Stores
<1>4. wanted \in Psks /\ psk \in Psks /\ lost \in BOOLEAN
  BY <1>3, PsksAre
<1>5. m # "none" => /\ m \in Methods /\ psk.cat # "lt" /\ (m = "psk" <=> psk = PairingPsk)
  BY PsksAre
<1> HIDE DEF wanted, lost, psk, k
<1>6. /\ z \in ServerStates /\ z.key = k /\ z.psk = psk /\ z.idx = 0 /\ z.pc = "idle" /\ ~z.in /\ ~z.moved
      /\ z.dial = (m # "none") /\ z.meth = m /\ ~z.first /\ x \in AnyServer
  <2> DEFINE v == (m # "none")
  <2>1. v \in BOOLEAN
    OBVIOUS
  <2>2. x = [ServerDown EXCEPT !.psk = psk, !.key = k, !.mismatch = lost,
                 !.trusted = store.trusted, !.dial = v, !.meth = m]
    OBVIOUS
  <2> HIDE DEF v, x
  <2>3. /\ x \in AnyServer /\ x.key = k /\ x.psk = psk /\ x.dial = v /\ x.meth = m
        /\ x.idx = ServerDown.idx /\ x.in = ServerDown.in /\ x.moved = ServerDown.moved /\ x.first = ServerDown.first
    BY <1>3, <1>4, <2>1, <2>2, DownIs, ZenonT(60) DEF AnyServer
  <2>4. x.idx = 0 /\ ~x.in /\ ~x.moved /\ ~x.first
    BY <2>3 DEF ServerDown
  <2>5. z \in ServerStates /\ z.key = x.key /\ z.psk = x.psk /\ z.idx = x.idx /\ z.pc = "idle" /\ z.in = x.in
        /\ z.moved = x.moved /\ z.dial = x.dial /\ z.meth = x.meth /\ z.first = x.first
    BY <2>3 DEF AnyServer, ServerStates
  <2> HIDE DEF z
  <2> QED
    BY <2>3, <2>4, <2>5 DEF v
<1>7. /\ d \in ClientStates /\ d.key = k /\ d.psk = psk /\ d.idx = 0 /\ d.pc = "none" /\ ~d.quiet
  <2>1. /\ d \in ClientStates /\ d.key = k /\ d.psk = psk /\ d.pc = "none"
        /\ d.idx = ClientDown.idx /\ d.quiet = ClientDown.quiet
    BY <1>3, <1>4, DownIs DEF AnyClient, ClientStates
  <2> HIDE DEF d
  <2> QED
    BY <2>1 DEF ClientDown
<1>8. Admitted(x) = Admitted(z)
  <2>1. x \in AnyServer
    BY <1>6
  <2> HIDE DEF x
  <2>2. x.first = z.first /\ x.key = z.key /\ x.meth = z.meth /\ x.unpair = z.unpair /\ x.idx = z.idx
        /\ x.mismatch = z.mismatch /\ x.psk = z.psk /\ x.moved = z.moved /\ x.trusted = z.trusted
    BY <2>1 DEF AnyServer
  <2>3. PlaybackCapable(x) = PlaybackCapable(z)
    BY <2>2 DEF PlaybackCapable
  <2>4. [x EXCEPT !.pc = "init", !.idx = @ + 1, !.unpair = FALSE] = [z EXCEPT !.pc = "init", !.idx = @ + 1, !.unpair = FALSE]
    BY <2>1 DEF AnyServer
  <2> HIDE DEF z
  <2> QED
    BY <2>2, <2>3, <2>4 DEF Admitted
<1> HIDE DEF x, z, d
<1>9. Steady(z, d, q, <<>>) /\ q \in Seq(DownFrames) /\ <<>> \in Seq(UpFrames) /\ "sfinal" \notin Said(q)
  BY <1>6, <1>7, SteadyStart, SaidNothing
<1>10. s2c = q /\ c2s = <<>>
  BY <1>2 DEF Disconnected
<1>11. Counted(d, store')
  BY <1>7 DEF Counted
<1> HIDE DEF q
<1>12. CASE m = "none"
  <2>1. PICK y \in ServerStates, q1 \in Seq(DownFrames) :
              /\ Activated(z).srv = y /\ q \o Activated(z).out = q1
              /\ Like(y, z)
              /\ Steady(y, d, q1, <<>>) /\ Idle(y, d, q1) /\ q1 # <<>> /\ Said(q1) \subseteq Said(q) \cup {"activate", "unpair"}
    BY <1>2, <1>6, <1>7, <1>9, SendActivated
  <2>2. s' = y /\ s2c' = q1 /\ c2s' = <<>>
    BY <1>1, <1>10, <1>12, <2>1 DEF Serve
  <2>3. Joined(y, d, q1, <<>>)
    BY <1>6, <1>9, <2>1, IdleJoined DEF Like
  <2>4. Session(y, d, q1, <<>>)
    BY <1>6, <2>1, <2>3, Settled DEF Like, InHandshake
  <2>5. AtServer(y, store')
    BY <1>6, <1>12, <2>1 DEF AtServer, Like, Exchanging
  <2> QED
    BY <1>1, <1>2, <1>3, <1>7, <1>9, <1>11, <2>1, <2>2, <2>4, <2>5 DEF SessionInv, Connected
<1>13. CASE m # "none"
  <2>1. Credential(z) /\ z.dial /\ (z.dial => ~z.moved /\ ~z.in /\ ~z.first)
    BY <1>5, <1>6, <1>13 DEF Credential
  <2> DEFINE st == store'
             e == <<>>
  <2>2. (z.moved => z.in \/ st.srec = 0) /\ (z.in \/ z.dial) /\ Steady(z, d, q, e)
    BY <1>6, <1>9, <2>1
  <2> HIDE DEF st, e
  <2>3. Sends(Admitted(z), z, d, q, e, st, {"init"})
    BY <1>2, <1>6, <1>7, <1>9, <2>1, <2>2, AdmitOK
  <2>4. s' = Admitted(z).srv /\ s2c' = q \o Admitted(z).out /\ c2s' = e
    BY <1>1, <1>8, <1>10, <1>13 DEF Serve, e
  <2>5. /\ s' \in ServerStates /\ s2c' \in Seq(DownFrames) /\ Session(s', d, s2c', c2s') /\ AtServer(s', store')
    BY <2>3, <2>4 DEF Sends, st
  <2> QED
    BY <1>1, <1>2, <1>3, <1>7, <1>9, <1>11, <2>4, <2>5 DEF SessionInv, Connected, e
<1> QED
  BY <1>12, <1>13

\* The client in the attempt, while the server waits for a message.
LEMMA Talking ==
    ASSUME NEW x \in ServerStates, NEW d, NEW q, NEW r, Joined(x, d, q, r),
           x.pc \in Exchanging \cup {"ack"}, x.pc # "init"
    PROVE  /\ d.idx = x.idx /\ d.meth = x.meth /\ Said(q) \subseteq Exchange \cup {"unpair"}
           /\ Current(x, d, r) /\ Talks(x, d, Asked(q), r)
<1>1. Conversing(x, d, q, r)
  BY DEF Joined, Phase, Announcing
<1>2. PICK p, w \in Seq(UpFrames) : r = p \o w /\ Earlier(x, p) /\ Current(x, d, w) /\ Talks(x, d, Asked(q), w)
  BY <1>1 DEF Conversing
<1>3. p = <<>>
  BY <1>2 DEF Earlier
<1>4. r = w
  BY <1>2, <1>3
<1> QED
  BY <1>1, <1>2, <1>4 DEF Conversing

\* Nothing else than the attempt is on the way, so the client listens.
LEMMA Listening ==
    ASSUME NEW x, NEW d, NEW q \in Seq(DownFrames), NEW r, Joined(x, d, q, r), Said(q) \subseteq Exchange \cup {"unpair"}
    PROVE  ~d.quiet
<1>1. SUFFICES ASSUME d.quiet PROVE FALSE
  OBVIOUS
<1>2. q # <<>> /\ q[1].t = "activate"
  BY <1>1 DEF Joined, Steady, Quiet
<1>3. 1 \in 1..Len(q)
  BY <1>2, TailHas
<1>4. "activate" \in Said(q)
  BY <1>2, <1>3 DEF Said
<1> QED
  BY <1>4 DEF Exchange

\* The message loop discards what it reads outside an attempt.
LEMMA ServerReadsIdleOK ==
    ASSUME SessionInv, ServerReadsIdle
    PROVE  SessionInv'
<1>1. Connected /\ s.pc \in {"idle", "ack"} /\ c2s # <<>>
  BY UpIs DEF ServerReadsIdle
<1>2. s \in ServerStates /\ c \in ClientStates /\ s2c \in Seq(DownFrames) /\ c2s \in Seq(UpFrames)
      /\ AtServer(s, store) /\ Session(s, c, s2c, c2s) /\ group \in BOOLEAN /\ store \in Stores
  BY <1>1, ConnectedIs
<1>3. s.pc \notin InHandshake /\ Joined(s, c, s2c, c2s)
  BY <1>1, <1>2, SessionIs, PcsDiffer
<1>4. Steady(s, c, s2c, Tail(c2s)) /\ Tail(c2s) \in Seq(UpFrames)
  BY <1>1, <1>2, <1>3, ServerHears DEF Joined
<1>5. s.pc = "ack" => Conversing(s, c, s2c, Tail(c2s))
  <2> SUFFICES ASSUME s.pc = "ack" PROVE Conversing(s, c, s2c, Tail(c2s))
    OBVIOUS
  <2>1. /\ c.idx = s.idx /\ c.meth = s.meth /\ Said(s2c) \subseteq Exchange \cup {"unpair"}
        /\ Current(s, c, c2s) /\ Talks(s, c, Asked(s2c), c2s)
    BY <1>2, <1>3, Talking
  <2>2. Current(s, c, Tail(c2s))
    BY <1>1, <1>2, <2>1, CurrentTail
  <2>3. c.pc = "none" /\ Mute(Tail(c2s)) /\ Asked(s2c) = {}
    <3>1. ~Mute(c2s)
      BY <1>1 DEF Mute
    <3>2. PICK cp, g : \E v \in Seq(UpFrames) : Stance(c, Asked(s2c), c2s, cp, g, v) /\ Talk(s.pc, s.meth, cp, g, v)
      BY <2>1, <3>1 DEF Talks
    <3>3. PICK v \in Seq(UpFrames) : Stance(c, Asked(s2c), c2s, cp, g, v) /\ Talk(s.pc, s.meth, cp, g, v)
      BY <3>2
    <3>4. v = <<>> /\ g = {}
      BY <3>3 DEF Talk, Mute
    <3>5. c.pc = "none" /\ Asked(s2c) \subseteq g /\ \E a \in UpFrames : a.t = "abort" /\ c2s = Append(v, a)
      BY <1>1, <3>3, <3>4 DEF Stance
    <3>6. Tail(c2s) = <<>>
      BY <3>4, <3>5
    <3> QED
      BY <3>4, <3>5, <3>6 DEF Mute
  <2>4. Talks(s, c, Asked(s2c), Tail(c2s))
    BY <2>3 DEF Talks
  <2>5. Tail(c2s) = <<>> \o Tail(c2s) /\ <<>> \in Seq(UpFrames)
    BY <1>4
  <2>6. Earlier(s, <<>>)
    BY DEF Earlier
  <2> QED
    BY <1>4, <2>1, <2>2, <2>4, <2>5, <2>6 DEF Conversing
<1>6. Joined(s, c, s2c, Tail(c2s))
  BY <1>1, <1>3, <1>4, <1>5, PcsDiffer DEF Joined, Phase
<1>7. Session(s, c, s2c, Tail(c2s))
  BY <1>2, <1>3, <1>6, Settled
<1>8. s' = s /\ c' = c /\ s2c' = s2c /\ c2s' = Tail(c2s) /\ store' = store /\ group' = group /\ fault' = fault
  BY DEF ServerReadsIdle
<1> QED
  BY <1>1, <1>2, <1>4, <1>7, <1>8, ServerDone

\* What is on the way is what the client waits for.
LEMMA TalkAwaits ==
    ASSUME NEW d \in ClientStates, NEW sp, NEW m, NEW e, NEW w, Talk(sp, m, d.pc, e, w), d.meth = m,
           d.pc = "fin" => d.fin \in 1..MaxPsk
    PROVE  Awaits(d, e)
BY DEF Talk, Awaits

\* The attempt goes on.
LEMMA Advances ==
    ASSUME NEW y \in ServerStates, NEW d \in ClientStates, NEW q \in Seq(DownFrames), NEW r \in Seq(UpFrames),
           Steady(y, d, q, r), y.pc \in Exchanging \cup {"ack"}, d.idx = y.idx, d.meth = y.meth,
           Said(q) \subseteq Exchange \cup {"unpair"}, "sfinal" \notin Said(q), ~d.quiet,
           Current(y, d, r), NEW cp, NEW g, NEW v \in Seq(UpFrames), Stance(d, Asked(q), r, cp, g, v),
           Talk(y.pc, y.meth, cp, g, v), y.pc = "ack" /\ d.pc = "fin" => d.fin = y.target.id
    PROVE  Session(y, d, q, r)
<1>1. Talks(y, d, Asked(q), r)
  BY DEF Talks
<1>2. r = <<>> \o r /\ <<>> \in Seq(UpFrames) /\ Earlier(y, <<>>)
  BY DEF Earlier
<1>3. Conversing(y, d, q, r)
  BY <1>1, <1>2 DEF Conversing
<1>4. Joined(y, d, q, r)
  BY <1>3, PcsDiffer DEF Joined, Phase
<1> QED
  BY <1>4, Settled, PcsDiffer

\* Both ends are in the attempt.
Engaged ==
    /\ Connected /\ s.pc \in Exchanging /\ Joined(s, c, s2c, c2s) /\ c.idx = s.idx /\ c.meth = s.meth /\ ~c.quiet
    /\ Said(s2c) \subseteq Exchange \cup {"unpair"} /\ "sfinal" \notin Said(s2c)

\* An attempt that is under way.
LEMMA EngagedIs ==
    ASSUME SessionInv, Connected, s.pc \in Exchanging, Conversing(s, c, s2c, c2s)
    PROVE  Engaged
<1>1. Joined(s, c, s2c, c2s) /\ "sfinal" \notin Said(s2c)
  BY ConnectedIs, AttemptIs
<1>2. c.idx = s.idx /\ c.meth = s.meth /\ Said(s2c) \subseteq Exchange \cup {"unpair"}
  BY DEF Conversing
<1>3. ~c.quiet
  BY <1>1, <1>2, ConnectedIs, Listening
<1> QED
  BY <1>1, <1>2, <1>3 DEF Engaged

\* Such an attempt goes on.
LEMMA EngagedThen ==
    ASSUME SessionInv, Connected, s.pc \in Exchanging, s.pc # "init"
    PROVE  /\ Engaged /\ Current(s, c, c2s)
           /\ \E cp, g : \E v \in Seq(UpFrames) : Stance(c, Asked(s2c), c2s, cp, g, v) /\ Talk(s.pc, s.meth, cp, g, v)
<1>1. Joined(s, c, s2c, c2s)
  BY ConnectedIs, AttemptIs
<1>2. Conversing(s, c, s2c, c2s)
  BY <1>1 DEF Joined, Phase, Announcing
<1>3. Engaged
  BY <1>2, EngagedIs
<1>4. Current(s, c, c2s) /\ Talks(s, c, Asked(s2c), c2s)
  BY <1>1, ConnectedIs, Talking
<1> QED
  BY <1>3, <1>4, PcsDiffer DEF Talks

\* A step of the attempt at the server changes its place in it, and no more.
LEMMA PcOnly ==
    ASSUME NEW x \in ServerStates, NEW p \in Exchanging, NEW st, AtServer(x, st), x.pc \in Exchanging
    PROVE  LET y == [x EXCEPT !.pc = p]
           IN  /\ y \in ServerStates /\ y.pc = p /\ y.key = x.key /\ y.psk = x.psk /\ y.idx = x.idx /\ y.meth = x.meth
               /\ AtServer(y, st)
<1> DEFINE y == [x EXCEPT !.pc = p]
<1>1. /\ y \in ServerStates /\ y.pc = p /\ y.key = x.key /\ y.psk = x.psk /\ y.idx = x.idx /\ y.meth = x.meth
      /\ y.in = x.in /\ y.moved = x.moved /\ y.dial = x.dial /\ y.first = x.first
  BY DEF ServerStates
<1> HIDE DEF y
<1>2. AtServer(y, st)
  <2>1. y.pc \in Exchanging /\ x.pc \in Exchanging /\ x.pc \notin {"rekey", "ack", "final", "return"}
        /\ y.pc \notin {"rekey", "ack", "final", "return"}
    BY <1>1 DEF Exchanging
  <2> QED
    BY <1>1, <2>1 DEF AtServer, Credential
<1> QED
  BY <1>1, <1>2 DEF y

\* One more step of it, with nothing to say,
LEMMA GoesOn ==
    ASSUME SessionInv, Engaged, NEW p \in Exchanging, NEW r \in Seq(UpFrames), Steady(s, c, s2c, r), Current(s, c, r),
           NEW cp, NEW g, NEW v \in Seq(UpFrames), Stance(c, Asked(s2c), r, cp, g, v), Talk(p, s.meth, cp, g, v),
           s' = [s EXCEPT !.pc = p], s2c' = s2c, c2s' = r, c' = c, store' = store, group' = group, fault' = fault
    PROVE  SessionInv'
<1> DEFINE y == [s EXCEPT !.pc = p]
<1>1. /\ s \in ServerStates /\ c \in ClientStates /\ s2c \in Seq(DownFrames) /\ AtServer(s, store) /\ Connected
      /\ group \in BOOLEAN
  BY ConnectedIs DEF Engaged
<1>2. /\ y \in ServerStates /\ y.pc = p /\ y.key = s.key /\ y.psk = s.psk /\ y.idx = s.idx /\ y.meth = s.meth
      /\ AtServer(y, store)
  BY <1>1, PcOnly DEF Engaged
<1> HIDE DEF y
<1>3. Steady(y, c, s2c, r) /\ Current(y, c, r)
  BY <1>2, SteadyServer DEF Current
<1>4. Session(y, c, s2c, r)
  BY <1>1, <1>2, <1>3, PcsDiffer, Advances DEF Engaged
<1> QED
  BY <1>1, <1>2, <1>4, ServerDone DEF y

\* or with a message of the exchange to send.
LEMMA GoesOnSending ==
    ASSUME SessionInv, Engaged, NEW p \in Exchanging, NEW r \in Seq(UpFrames), Steady(s, c, s2c, r), Current(s, c, r),
           NEW f \in DownFrames, f.key = s.key, f.t \in Exchange, f.t # "sfinal",
           Asked(s2c) = {} \/ (Asked(s2c) \subseteq {"sinit"} /\ f.t = "sauth"),
           NEW cp, NEW g, NEW v \in Seq(UpFrames), Stance(c, Asked(s2c), r, cp, g, v), Talk(p, s.meth, cp, g \cup {f.t}, v),
           s' = [s EXCEPT !.pc = p], s2c' = s2c \o <<f>>, c2s' = r, c' = c, store' = store, group' = group, fault' = fault
    PROVE  SessionInv'
<1> DEFINE y == [s EXCEPT !.pc = p]
           q == Append(s2c, f)
           g1 == g \cup {f.t}
<1>1. /\ s \in ServerStates /\ c \in ClientStates /\ s2c \in Seq(DownFrames) /\ AtServer(s, store) /\ Connected
      /\ group \in BOOLEAN
  BY ConnectedIs DEF Engaged
<1>2. /\ y \in ServerStates /\ y.pc = p /\ y.key = s.key /\ y.psk = s.psk /\ y.idx = s.idx /\ y.meth = s.meth
      /\ AtServer(y, store)
  BY <1>1, PcOnly DEF Engaged
<1> HIDE DEF y
<1>3. q \in Seq(DownFrames) /\ Said(q) = Said(s2c) \cup {f.t}
  BY <1>1, AppendHas, SaidMore
<1>8. ~c.quiet /\ Said(s2c) \subseteq Exchange \cup {"unpair"} /\ "sfinal" \notin Said(s2c) /\ c.meth = s.meth /\ c.idx = s.idx
  BY DEF Engaged
<1>9. Asked(q) = Asked(s2c) \cup {f.t}
  <2>1. {f.t} \cap Exchange = {f.t}
    OBVIOUS
  <2> QED
    BY <1>1, <2>1, AskedMore
<1>10. Stance(c, Asked(q), r, cp, g1, v)
  <2>1. Stance(c, Asked(s2c) \cup {f.t}, r, cp, g \cup {f.t}, v)
    BY StanceMore
  <2> HIDE DEF q
  <2> QED
    BY <1>9, <2>1
<1>11. Awaits(c, Asked(s2c) \cup {f.t})
  <2>1. CASE c.pc = "none"
    BY <2>1 DEF Awaits
  <2>2. CASE c.pc # "none"
    <3>1. cp = c.pc /\ g = Asked(s2c)
      BY <2>2 DEF Stance
    <3>2. c.pc = "fin" => c.fin \in 1..MaxPsk
      BY DEF Steady, Awaits
    <3> DEFINE e == Asked(s2c) \cup {f.t}
    <3>3. Talk(p, s.meth, c.pc, e, v)
      BY <3>1
    <3> HIDE DEF e
    <3>4. Awaits(c, e)
      BY <1>1, <1>8, <3>2, <3>3, TalkAwaits
    <3> QED
      BY <3>4 DEF e
  <2> QED
    BY <2>1, <2>2
<1>12. \A i \in 1..Len(s2c) : s2c[i].t = "unpair" \/ (s2c[i].t = "sinit" /\ f.t = "sauth")
  BY <1>8 DEF Asked, Said
<1>13. Steady(y, c, q, r)
  <2>1. y.key = s.key /\ y.psk = s.psk /\ y.idx = s.idx
    BY <1>2
  <2>2. Steady(y, c, Append(s2c, f), r)
    BY <1>1, <1>8, <1>11, <1>12, <2>1, SendExchange
  <2> QED
    BY <2>2
<1>4. Current(y, c, r)
  BY <1>2 DEF Current
<1>5. s2c' = q
  BY <1>1, AppendHas
<1> HIDE DEF q
<1>6. Talk(y.pc, y.meth, cp, g1, v)
  BY <1>2
<1> HIDE DEF g1
<1>7. Session(y, c, q, r)
  <2>1. Said(q) \subseteq Exchange \cup {"unpair"} /\ "sfinal" \notin Said(q)
    BY <1>3, <1>8
  <2>2. y.pc \in Exchanging \cup {"ack"} /\ y.pc # "ack" /\ c.idx = y.idx /\ c.meth = y.meth
    BY <1>2, <1>8, PcsDiffer
  <2> QED
    BY <1>1, <1>2, <1>3, <1>4, <1>6, <1>8, <1>10, <1>13, <2>1, <2>2, Advances
<1> QED
  BY <1>1, <1>2, <1>3, <1>5, <1>7, ServerDone DEF y

\* The operator enters the code: server/pair-auth.
LEMMA EnterCodeOK ==
    ASSUME SessionInv, NEW ok \in BOOLEAN, EnterCode(ok)
    PROVE  SessionInv'
<1> DEFINE f == [t |-> "sauth", key |-> s.key, ok |-> ok]
<1>1. Connected /\ s.pc = "code" /\ s.pc \in Exchanging
  BY UpIs DEF EnterCode, Exchanging
<1>2. Engaged /\ Current(s, c, c2s)
  BY <1>1, EngagedThen
<1>3. PICK cp, g : \E v \in Seq(UpFrames) : Stance(c, Asked(s2c), c2s, cp, g, v) /\ Talk("code", s.meth, cp, g, v)
  BY <1>1, EngagedThen
<1>4. PICK v \in Seq(UpFrames) : Stance(c, Asked(s2c), c2s, cp, g, v) /\ Talk("code", s.meth, cp, g, v)
  BY <1>3
<1>5. Talk("auth", s.meth, cp, g \cup {"sauth"}, v) /\ g \subseteq {"sinit"}
  BY <1>4, TalkCode
<1>6. Asked(s2c) \subseteq {"sinit"}
  BY <1>4, <1>5 DEF Stance
<1>7. f \in DownFrames /\ f.t = "sauth" /\ f.key = s.key /\ "sauth" \in Exchange
  BY <1>1, ConnectedIs, FramesAre DEF ServerStates, Exchange
<1>8. Steady(s, c, s2c, c2s) /\ c2s \in Seq(UpFrames)
  BY <1>1, <1>2, ConnectedIs DEF Engaged, Joined
<1>9. /\ s' = [s EXCEPT !.pc = "auth"] /\ s2c' = s2c \o <<f>> /\ c2s' = c2s /\ c' = c /\ store' = store
      /\ group' = group /\ fault' = fault
  BY DEF EnterCode, Serve
<1> HIDE DEF f
<1>10. "auth" \in Exchanging
  BY DEF Exchanging
<1> QED
  BY <1>2, <1>4, <1>5, <1>6, <1>7, <1>8, <1>9, <1>10, GoesOnSending

\* The first message of the attempt has been read.
LEMMA BegunOK ==
    ASSUME SessionInv, Engaged, s.pc \in {"init", "gesture"}, NEW r \in Seq(UpFrames), Steady(s, c, s2c, r), Current(s, c, r),
           NEW cp, NEW v \in Seq(UpFrames), Stance(c, Asked(s2c), r, cp, {}, v),
           s.meth = "psk" => Talk("finalize", s.meth, cp, {}, v),
           s.meth = "static" => Talk("code", s.meth, cp, {}, v),
           s.meth = "dynamic" => Talk("code", s.meth, cp, {"sinit"}, v),
           Serve(Begun), c2s' = r, c' = c, store' = store, group' = group, fault' = fault
    PROVE  SessionInv'
<1> DEFINE f == [t |-> "sinit", key |-> s.key]
<1>1. Connected /\ s \in ServerStates /\ s2c \in Seq(DownFrames) /\ AtServer(s, store) /\ s.pc \in Exchanging
  BY ConnectedIs DEF Engaged
<1>2. s.meth \in {"psk", "static", "dynamic"}
  BY <1>1, PairConstants DEF AtServer, Credential, PairAssumption
<1>3. Asked(s2c) = {}
  BY DEF Stance
<1>4. "finalize" \in Exchanging /\ "code" \in Exchanging
  BY DEF Exchanging
<1>5. CASE s.meth = "psk"
  <2>1. s' = [s EXCEPT !.pc = "finalize"] /\ s2c' = s2c
    BY <1>1, <1>5 DEF Serve, Begun
  <2> QED
    BY <1>4, <1>5, <2>1, GoesOn
<1>6. CASE s.meth = "static"
  <2>1. s' = [s EXCEPT !.pc = "code"] /\ s2c' = s2c
    BY <1>1, <1>6 DEF Serve, Begun
  <2> QED
    BY <1>4, <1>6, <2>1, GoesOn
<1>7. CASE s.meth = "dynamic"
  <2>1. s' = [s EXCEPT !.pc = "code"] /\ s2c' = s2c \o <<f>>
    BY <1>1, <1>7 DEF Serve, Begun
  <2>2. f \in DownFrames /\ f.t = "sinit" /\ f.key = s.key /\ "sinit" \in Exchange
    BY <1>1, FramesAre DEF ServerStates, Exchange
  <2> HIDE DEF f
  <2>3. Talk("code", s.meth, cp, {} \cup {f.t}, v)
    BY <1>7, <2>2
  <2> QED
    BY <1>3, <1>4, <2>1, <2>2, <2>3, GoesOnSending
<1> QED
  BY <1>2, <1>5, <1>6, <1>7

\* An announced attempt has not been answered.
LEMMA AnnouncingLess ==
    ASSUME NEW x, NEW d \in ClientStates, NEW q \in Seq(DownFrames), NEW r, Steady(x, d, q, r), Announcing(x, q)
    PROVE  d.idx < x.idx
<1>1. Pairings(q) # {}
  BY DEF Announcing, Pairings
<1>2. IsFiniteSet(Pairings(q)) /\ Cardinality(Pairings(q)) \in Nat
  BY PairingsFinite
<1>3. Cardinality(Pairings(q)) # 0
  BY <1>1, <1>2, FS_EmptySet
<1>4. d.idx \in Nat
  BY DEF ClientStates
<1> QED
  BY <1>2, <1>3, <1>4 DEF Steady

\* What the server reads while it waits for the first message of an attempt.
LEMMA FirstIs ==
    ASSUME SessionInv, Connected, s.pc = "init", c2s # <<>>, Head(c2s).t # "abort"
    PROVE  \/ FirstMessage(Head(c2s)) = "discard" /\ Joined(s, c, s2c, Tail(c2s))
           \/ /\ Engaged /\ First(Head(c2s)) /\ Head(c2s).idx = s.idx /\ Current(s, c, Tail(c2s))
              /\ Head(c2s).t = "pending" => s.meth # "psk"
              /\ \E cp : \E v \in Seq(UpFrames) :
                    /\ Stance(c, Asked(s2c), Tail(c2s), cp, {}, v)
                    /\ Head(c2s).t = "pending" => Talk("gesture", s.meth, cp, {}, v)
                    /\ Head(c2s).t = "pinit" =>
                         /\ s.meth = "psk" => Talk("finalize", s.meth, cp, {}, v)
                         /\ s.meth = "static" => Talk("code", s.meth, cp, {}, v)
                         /\ s.meth = "dynamic" => Talk("code", s.meth, cp, {"sinit"}, v)
<1> DEFINE f == Head(c2s)
<1>1. s \in ServerStates /\ c \in ClientStates /\ s2c \in Seq(DownFrames) /\ c2s \in Seq(UpFrames) /\ s.pc \in Exchanging
  BY ConnectedIs DEF Exchanging
<1>2. Joined(s, c, s2c, c2s) /\ Steady(s, c, s2c, c2s) /\ (Announcing(s, s2c) \/ Conversing(s, c, s2c, c2s))
  BY <1>1, ConnectedIs, AttemptIs
<1>3. Steady(s, c, s2c, Tail(c2s)) /\ Tail(c2s) \in Seq(UpFrames) /\ UpFit(f, s, c) /\ f \in UpFrames
  BY <1>1, <1>2, ServerHears
<1>4. s.idx \in Nat /\ c.idx \in Nat /\ (First(f) => f.idx \in Nat /\ f.idx <= c.idx)
  BY <1>1, <1>3, UpFrameIs DEF ServerStates, ClientStates, UpFit
<1>5. First(f) /\ f.idx < s.idx => FirstMessage(f) = "discard"
  BY <1>4 DEF FirstMessage, First
<1>6. ~First(f) => FirstMessage(f) = "discard"
  BY DEF FirstMessage, First
<1>7. Announcing(s, s2c) \/ Conversing(s, c, s2c, Tail(c2s)) => Joined(s, c, s2c, Tail(c2s))
  BY <1>1, <1>2, <1>3, PcsDiffer DEF Joined, Phase
<1> HIDE DEF f
<1>8. CASE Announcing(s, s2c)
  <2>1. c.idx < s.idx
    BY <1>1, <1>2, <1>8, AnnouncingLess
  <2>2. FirstMessage(f) = "discard"
    BY <1>4, <1>5, <1>6, <2>1
  <2> QED
    BY <1>7, <1>8, <2>2 DEF f
<1>9. CASE Conversing(s, c, s2c, c2s)
  <2>1. PICK p, w \in Seq(UpFrames) : c2s = p \o w /\ Earlier(s, p) /\ Current(s, c, w) /\ Talks(s, c, Asked(s2c), w)
    BY <1>9 DEF Conversing
  <2>2. CASE p # <<>>
    <3>1. Tail(c2s) = Tail(p) \o w /\ f = Head(p) /\ Tail(p) \in Seq(UpFrames)
      BY <2>1, <2>2, ConcatTail DEF f
    <3>2. Earlier(s, Tail(p)) /\ (First(f) => f.idx < s.idx)
      BY <2>1, <2>2, <3>1, EarlierTail
    <3>3. Conversing(s, c, s2c, Tail(c2s))
      BY <1>9, <2>1, <3>1, <3>2 DEF Conversing
    <3> QED
      BY <1>5, <1>6, <1>7, <3>2, <3>3 DEF f
  <2>3. CASE p = <<>>
    <3>1. c2s = w
      BY <2>1, <2>3
    <3>2. PICK cp, g : \E v \in Seq(UpFrames) : Stance(c, Asked(s2c), c2s, cp, g, v) /\ Talk("init", s.meth, cp, g, v)
      BY <2>1, <3>1 DEF Talks
    <3>3. PICK v \in Seq(UpFrames) : Stance(c, Asked(s2c), c2s, cp, g, v) /\ Talk("init", s.meth, cp, g, v)
      BY <3>2
    <3>4. v # <<>> /\ Head(v) = f /\ Stance(c, Asked(s2c), Tail(c2s), cp, g, Tail(v)) /\ Tail(v) \in Seq(UpFrames)
      BY <1>1, <3>3, StanceTail DEF f
    <3>5. /\ f.t \in {"pending", "pinit"} /\ (f.t = "pending" => s.meth # "psk")
          /\ g = {}
          /\ f.t = "pending" => Talk("gesture", s.meth, cp, g, Tail(v))
          /\ f.t = "pinit" /\ s.meth = "psk" => Talk("finalize", s.meth, cp, g, Tail(v))
          /\ f.t = "pinit" /\ s.meth = "static" => Talk("code", s.meth, cp, g, Tail(v))
          /\ f.t = "pinit" /\ s.meth = "dynamic" => Talk("code", s.meth, cp, {"sinit"}, Tail(v))
      BY <3>3, <3>4, TalkFirst
    <3>6. Current(s, c, Tail(c2s)) /\ First(f) /\ f.idx = s.idx
      BY <1>1, <2>1, <3>1, <3>5, CurrentTail DEF First, f
    <3>7. Engaged
      BY <1>1, <1>9, EngagedIs
    <3> QED
      BY <3>4, <3>5, <3>6, <3>7 DEF f
  <2> QED
    BY <2>2, <2>3
<1> QED
  BY <1>2, <1>8, <1>9

\* The server reads client/pair-init or client/pair-pending.
LEMMA ServerReadsFirstOK ==
    ASSUME SessionInv, ServerReadsFirst
    PROVE  SessionInv'
<1> DEFINE f == Head(c2s)
           r == Tail(c2s)
<1>1. Connected /\ s.pc = "init" /\ c2s # <<>> /\ f.t # "abort" /\ s.pc \in Exchanging /\ s.pc \notin InHandshake
  BY UpIs DEF ServerReadsFirst, Exchanging, InHandshake
<1>2. s \in ServerStates /\ c \in ClientStates /\ s2c \in Seq(DownFrames) /\ c2s \in Seq(UpFrames) /\ AtServer(s, store)
      /\ group \in BOOLEAN
  BY <1>1, ConnectedIs
<1>3. Steady(s, c, s2c, r) /\ r \in Seq(UpFrames) /\ UpFit(f, s, c)
  BY <1>1, <1>2, ConnectedIs, AttemptIs, ServerHears
<1>4. store' = store /\ group' = group
  BY DEF ServerReadsFirst
<1>5. \/ FirstMessage(f) = "take" /\ Serve(Begun) /\ c2s' = r /\ c' = c /\ fault' = fault
      \/ FirstMessage(f) = "pending" /\ s.meth # "psk" /\ s' = [s EXCEPT !.pc = "gesture"] /\ s2c' = s2c /\ c2s' = r
         /\ c' = c /\ fault' = fault
      \/ FirstMessage(f) = "discard" /\ s' = s /\ s2c' = s2c /\ c2s' = r /\ c' = c /\ fault' = fault
      \/ FirstMessage(f) = "error" \/ (FirstMessage(f) = "pending" /\ s.meth = "psk")
  BY DEF ServerReadsFirst
<1>6. CASE FirstMessage(f) = "discard" /\ Joined(s, c, s2c, r)
  <2>1. s' = s /\ s2c' = s2c /\ c2s' = r /\ c' = c /\ fault' = fault
    BY <1>5, <1>6
  <2>2. Session(s, c, s2c, r)
    BY <1>1, <1>2, <1>6, Settled
  <2> QED
    BY <1>1, <1>2, <1>3, <1>4, <2>1, <2>2, ServerDone
<1>7. CASE /\ Engaged /\ First(f) /\ f.idx = s.idx /\ Current(s, c, r)
           /\ f.t = "pending" => s.meth # "psk"
           /\ \E cp : \E v \in Seq(UpFrames) :
                    /\ Stance(c, Asked(s2c), r, cp, {}, v)
                    /\ f.t = "pending" => Talk("gesture", s.meth, cp, {}, v)
                    /\ f.t = "pinit" =>
                         /\ s.meth = "psk" => Talk("finalize", s.meth, cp, {}, v)
                         /\ s.meth = "static" => Talk("code", s.meth, cp, {}, v)
                         /\ s.meth = "dynamic" => Talk("code", s.meth, cp, {"sinit"}, v)
  <2>1. PICK cp : \E v \in Seq(UpFrames) :
                    /\ Stance(c, Asked(s2c), r, cp, {}, v)
                    /\ f.t = "pending" => Talk("gesture", s.meth, cp, {}, v)
                    /\ f.t = "pinit" =>
                         /\ s.meth = "psk" => Talk("finalize", s.meth, cp, {}, v)
                         /\ s.meth = "static" => Talk("code", s.meth, cp, {}, v)
                         /\ s.meth = "dynamic" => Talk("code", s.meth, cp, {"sinit"}, v)
    BY <1>7
  <2>2. PICK v \in Seq(UpFrames) :
                    /\ Stance(c, Asked(s2c), r, cp, {}, v)
                    /\ f.t = "pending" => Talk("gesture", s.meth, cp, {}, v)
                    /\ f.t = "pinit" =>
                         /\ s.meth = "psk" => Talk("finalize", s.meth, cp, {}, v)
                         /\ s.meth = "static" => Talk("code", s.meth, cp, {}, v)
                         /\ s.meth = "dynamic" => Talk("code", s.meth, cp, {"sinit"}, v)
    BY <2>1
  <2>3. f.idx = s.idx /\ s.idx \in Nat /\ f.t \in {"pinit", "pending"}
    BY <1>2, <1>7 DEF ServerStates, First
  <2>4. CASE f.t = "pinit"
    <3>1. FirstMessage(f) = "take"
      BY <2>3, <2>4 DEF FirstMessage
    <3>2. Serve(Begun) /\ c2s' = r /\ c' = c /\ fault' = fault
      BY <1>5, <3>1
    <3> HIDE DEF r, f
    <3> QED
      BY <1>1, <1>3, <1>4, <1>7, <2>2, <2>4, <3>2, BegunOK
  <2>5. CASE f.t = "pending"
    <3>1. FirstMessage(f) = "pending"
      BY <2>3, <2>5 DEF FirstMessage
    <3>2. s' = [s EXCEPT !.pc = "gesture"] /\ s2c' = s2c /\ c2s' = r /\ c' = c /\ fault' = fault
      BY <1>5, <1>7, <2>5, <3>1
    <3>3. "gesture" \in Exchanging
      BY DEF Exchanging
    <3> HIDE DEF r, f
    <3> QED
      BY <1>3, <1>4, <1>7, <2>2, <2>5, <3>2, <3>3, GoesOn
  <2> QED
    BY <2>3, <2>4, <2>5
<1> QED
  BY <1>1, <1>6, <1>7, FirstIs

\* The client finalizes, and the record is stored.
LEMMA StoredOK ==
    ASSUME SessionInv, Engaged, NEW f \in UpFrames, f.t = "finalize", NEW r \in Seq(UpFrames), Steady(s, c, s2c, r),
           Current(s, c, r), c.pc = "fin" => f.psk = c.fin,
           NEW cp, NEW v \in Seq(UpFrames), Stance(c, Asked(s2c), r, cp, {}, v), Talk("ack", s.meth, cp, {}, v),
           s' = Stored(f).srv, store' = Stored(f).kept, s2c' = s2c, c2s' = r, c' = c, group' = group, fault' = fault
    PROVE  SessionInv'
<1> DEFINE n == LongTerm(f.psk)
           y == [s EXCEPT !.pc = "ack", !.target = n]
           st == [store EXCEPT !.srec = f.psk, !.ever = @ \cup {f.psk}]
<1>1. /\ s \in ServerStates /\ c \in ClientStates /\ s2c \in Seq(DownFrames) /\ AtServer(s, store) /\ Connected
      /\ group \in BOOLEAN /\ store \in Stores /\ s.pc \in Exchanging
  BY ConnectedIs DEF Engaged
<1>2. f.psk \in 1..MaxPsk /\ n \in Psks /\ n.cat = "lt" /\ n.id = f.psk
  BY UpFrameIs, PsksAre
<1>3. /\ st \in Stores /\ st.crec = store.crec /\ st.ever = store.ever \cup {f.psk} /\ st.rounds = store.rounds
  <2>1. f.psk \in 0..MaxPsk /\ store.ever \cup {f.psk} \in SUBSET (1..MaxPsk)
    BY <1>1, <1>2, PairConstants DEF Stores
  <2> QED
    BY <1>1, <2>1 DEF Stores
<1>4. s' = y /\ store' = st
  BY DEF Stored
<1> HIDE DEF n, st
<1>5. /\ y \in ServerStates /\ y.pc = "ack" /\ y.target = n /\ y.key = s.key /\ y.psk = s.psk /\ y.idx = s.idx /\ y.meth = s.meth
      /\ y.in = s.in /\ y.moved = s.moved /\ y.dial = s.dial /\ y.first = s.first
  BY <1>1, <1>2 DEF ServerStates
<1> HIDE DEF y
<1>6. Steady(y, c, s2c, r) /\ Current(y, c, r)
  BY <1>5, SteadyServer DEF Current
<1>7. /\ c.idx = y.idx /\ c.meth = y.meth /\ Said(s2c) \subseteq Exchange \cup {"unpair"} /\ "sfinal" \notin Said(s2c) /\ ~c.quiet
      /\ y.pc \in Exchanging \cup {"ack"} /\ Talk(y.pc, y.meth, cp, {}, v) /\ (c.pc = "fin" => c.fin = y.target.id)
  BY <1>2, <1>5 DEF Engaged
<1>8. Session(y, c, s2c, r)
  BY <1>1, <1>5, <1>6, <1>7, Advances
<1>9. AtServer(y, st)
  <2>1. Credential(s) /\ (s.in \/ s.dial) /\ (s.dial => ~s.moved /\ ~s.in /\ ~s.first)
    BY <1>1 DEF AtServer
  <2>2. Credential(y)
    BY <1>5, <2>1 DEF Credential
  <2> QED
    BY <1>2, <1>3, <1>5, <2>1, <2>2 DEF AtServer
<1>10. Counted(c, st)
  BY <1>1, <1>3 DEF Connected, Counted
<1> QED
  BY <1>1, <1>3, <1>4, <1>5, <1>8, <1>9, <1>10 DEF SessionInv, Connected

\* The server reads another message of the exchange.
LEMMA ServerReadsOK ==
    ASSUME SessionInv, ServerReads
    PROVE  SessionInv'
<1> DEFINE f == Head(c2s)
           r == Tail(c2s)
<1>1. Connected /\ s.pc \in Exchanging /\ s.pc # "init" /\ c2s # <<>> /\ f.t # "abort" /\ group' = group
  BY UpIs DEF ServerReads
<1>2. s \in ServerStates /\ c \in ClientStates /\ s2c \in Seq(DownFrames) /\ c2s \in Seq(UpFrames) /\ AtServer(s, store)
      /\ group \in BOOLEAN
  BY <1>1, ConnectedIs
<1>3. Engaged /\ Current(s, c, c2s)
  BY <1>1, EngagedThen
<1>4. PICK cp, g : \E v \in Seq(UpFrames) : Stance(c, Asked(s2c), c2s, cp, g, v) /\ Talk(s.pc, s.meth, cp, g, v)
  BY <1>1, EngagedThen
<1>5. PICK v \in Seq(UpFrames) : Stance(c, Asked(s2c), c2s, cp, g, v) /\ Talk(s.pc, s.meth, cp, g, v)
  BY <1>4
<1>6. v # <<>> /\ Head(v) = f /\ Stance(c, Asked(s2c), r, cp, g, Tail(v)) /\ Tail(v) \in Seq(UpFrames)
  BY <1>1, <1>2, <1>5, StanceTail
<1>7. Steady(s, c, s2c, r) /\ r \in Seq(UpFrames) /\ f \in UpFrames
  BY <1>1, <1>2, <1>3, ServerHears DEF Engaged, Joined
<1>8. Current(s, c, r) /\ (f.t = "finalize" /\ c.pc = "fin" => f.psk = c.fin)
  BY <1>1, <1>2, <1>3, CurrentTail
<1>9. \/ f.t \notin Expected
      \/ /\ f.t \in Expected /\ c2s' = r /\ c' = c /\ fault' = fault
         /\ CASE f.t = "pinit" -> Serve(Begun) /\ store' = store
              [] f.t = "cauth" -> /\ Serve([srv |-> [s EXCEPT !.pc = "confirm"],
                                           out |-> <<[t |-> "sconfirm", key |-> s.key]>>])
                                 /\ store' = store
              [] f.t = "cconfirm" -> s' = [s EXCEPT !.pc = "finalize"] /\ s2c' = s2c /\ store' = store
              [] f.t = "retry" -> /\ Serve([srv |-> [s EXCEPT !.pc = "code"],
                                           out |-> <<[t |-> "sinit", key |-> s.key]>>])
                                 /\ store' = store
              [] f.t = "finalize" -> s' = Stored(f).srv /\ store' = Stored(f).kept /\ s2c' = s2c
  BY DEF ServerReads
<1>10. s.pc \in {"gesture", "code", "auth", "confirm", "finalize"}
  BY <1>1 DEF Exchanging
<1>11. \A t \in {"sinit", "sconfirm"} : [t |-> t, key |-> s.key] \in DownFrames /\ t \in Exchange /\ t # "sfinal"
  BY <1>2, FramesAre DEF ServerStates, Exchange
<1>12. \A p \in {"code", "auth", "confirm", "finalize"} : p \in Exchanging
  BY DEF Exchanging
<1>13. g = {} => Asked(s2c) = {}
  BY <1>5 DEF Stance
<1> HIDE DEF f, r
<1>14. CASE s.pc = "gesture"
  <2>1. /\ f.t = "pinit" /\ g = {}
        /\ s.meth = "psk" => Talk("finalize", s.meth, cp, g, Tail(v))
        /\ s.meth = "static" => Talk("code", s.meth, cp, g, Tail(v))
        /\ s.meth = "dynamic" => Talk("code", s.meth, cp, {"sinit"}, Tail(v))
    <3> DEFINE w == Tail(v)
    <3>1. Talk("gesture", s.meth, cp, g, v)
      BY <1>5, <1>14
    <3>2. /\ Head(v).t \in {"pending", "pinit"} /\ (Head(v).t = "pending" => "gesture" = "init") /\ g = {}
          /\ Head(v).t = "pinit" /\ s.meth = "psk" => Talk("finalize", s.meth, cp, g, w)
          /\ Head(v).t = "pinit" /\ s.meth = "static" => Talk("code", s.meth, cp, g, w)
          /\ Head(v).t = "pinit" /\ s.meth = "dynamic" => Talk("code", s.meth, cp, {"sinit"}, w)
      BY <1>6, <3>1, TalkFirst
    <3> HIDE DEF w
    <3>3. f.t = "pinit"
      BY <1>6, <3>2
    <3>4. s.meth = "psk" => Talk("finalize", s.meth, cp, g, w)
      BY <1>6, <3>2, <3>3
    <3>5. s.meth = "static" => Talk("code", s.meth, cp, g, w)
      BY <1>6, <3>2, <3>3
    <3>6. s.meth = "dynamic" => Talk("code", s.meth, cp, {"sinit"}, w)
      BY <1>6, <3>2, <3>3
    <3> QED
      BY <3>2, <3>3, <3>4, <3>5, <3>6 DEF w
  <2>2. f.t \in Expected
    BY <1>14, <2>1 DEF Expected
  <2>3. Serve(Begun) /\ store' = store /\ c2s' = r /\ c' = c /\ fault' = fault
    BY <1>9, <2>1, <2>2
  <2> QED
    BY <1>1, <1>3, <1>6, <1>7, <1>8, <1>14, <2>1, <2>3, BegunOK
<1>15. CASE s.pc \in {"code", "auth", "confirm", "finalize"}
  <2>1. /\ g = {} /\ s.pc \notin {"code", "ack"}
        /\ s.pc = "auth" => f.t = "cauth" /\ Talk("confirm", s.meth, cp, {"sconfirm"}, Tail(v))
        /\ s.pc = "confirm" => /\ f.t \in {"cconfirm", "retry"}
                               /\ f.t = "cconfirm" => Talk("finalize", s.meth, cp, g, Tail(v))
                               /\ f.t = "retry" => s.meth = "dynamic" /\ Talk("code", s.meth, cp, {"sinit"}, Tail(v))
        /\ s.pc = "finalize" => f.t = "finalize" /\ cp = "fin" /\ Talk("ack", s.meth, cp, g, Tail(v))
    BY <1>5, <1>6, <1>15, TalkNext
  <2>2. f.t \in Expected
    BY <1>15, <2>1 DEF Expected
  <2>3. CASE s.pc = "auth"
    <3> DEFINE h == [t |-> "sconfirm", key |-> s.key]
    <3>1. s' = [s EXCEPT !.pc = "confirm"] /\ s2c' = s2c \o <<h>> /\ store' = store /\ c2s' = r /\ c' = c /\ fault' = fault
      BY <1>9, <2>1, <2>2, <2>3 DEF Serve
    <3>2. h \in DownFrames /\ h.t = "sconfirm" /\ h.key = s.key /\ h.t \in Exchange /\ h.t # "sfinal"
      BY <1>11
    <3> HIDE DEF h
    <3>3. Talk("confirm", s.meth, cp, {} \cup {h.t}, Tail(v))
      BY <2>1, <2>3, <3>2
    <3> QED
      BY <1>1, <1>3, <1>6, <1>7, <1>8, <1>12, <1>13, <2>1, <3>1, <3>2, <3>3, GoesOnSending
  <2>4. CASE s.pc = "confirm" /\ f.t = "cconfirm"
    <3>1. s' = [s EXCEPT !.pc = "finalize"] /\ s2c' = s2c /\ store' = store /\ c2s' = r /\ c' = c /\ fault' = fault
      BY <1>9, <2>2, <2>4
    <3> QED
      BY <1>1, <1>3, <1>6, <1>7, <1>8, <1>12, <2>1, <2>4, <3>1, GoesOn
  <2>5. CASE s.pc = "confirm" /\ f.t = "retry"
    <3> DEFINE h == [t |-> "sinit", key |-> s.key]
    <3>1. s' = [s EXCEPT !.pc = "code"] /\ s2c' = s2c \o <<h>> /\ store' = store /\ c2s' = r /\ c' = c /\ fault' = fault
      BY <1>9, <2>2, <2>5 DEF Serve
    <3>2. h \in DownFrames /\ h.t = "sinit" /\ h.key = s.key /\ h.t \in Exchange /\ h.t # "sfinal"
      BY <1>11
    <3> HIDE DEF h
    <3>3. Talk("code", s.meth, cp, {} \cup {h.t}, Tail(v))
      BY <2>1, <2>5, <3>2
    <3> QED
      BY <1>1, <1>3, <1>6, <1>7, <1>8, <1>12, <1>13, <2>1, <3>1, <3>2, <3>3, GoesOnSending
  <2>6. CASE s.pc = "finalize"
    <3>1. s' = Stored(f).srv /\ store' = Stored(f).kept /\ s2c' = s2c /\ c2s' = r /\ c' = c /\ fault' = fault
      BY <1>9, <2>1, <2>2, <2>6
    <3> QED
      BY <1>1, <1>3, <1>6, <1>7, <1>8, <2>1, <2>6, <3>1, StoredOK
  <2> QED
    BY <1>15, <2>1, <2>3, <2>4, <2>5, <2>6
<1> QED
  BY <1>10, <1>14, <1>15

\* The stored record is acknowledged.
LEMMA AcknowledgeOK ==
    ASSUME SessionInv, Acknowledge
    PROVE  SessionInv'
<1> DEFINE f == [t |-> "sfinal", key |-> s.key]
           h == [t |-> "hs1", key |-> s.key, psk |-> s.target]
           y == [s EXCEPT !.pc = "final", !.mismatch = FALSE, !.moved = FALSE]
           st == [store EXCEPT !.trusted = FALSE]
           q == Append(s2c, f)
<1>1. Connected /\ s.pc = "ack" /\ s' = y /\ s2c' = s2c \o <<f, h>> /\ store' = st /\ c' = c /\ c2s' = c2s /\ group' = group
      /\ fault' = fault
  BY UpIs DEF Acknowledge, Serve
<1>2. /\ s \in ServerStates /\ c \in ClientStates /\ s2c \in Seq(DownFrames) /\ c2s \in Seq(UpFrames) /\ AtServer(s, store)
      /\ Session(s, c, s2c, c2s) /\ group \in BOOLEAN /\ store \in Stores
  BY <1>1, ConnectedIs
<1>3. Joined(s, c, s2c, c2s) /\ Steady(s, c, s2c, c2s)
  BY <1>1, <1>2, AttemptIs
<1>4. Said(s2c) \subseteq Exchange \cup {"unpair"} /\ Talks(s, c, Asked(s2c), c2s)
  BY <1>1, <1>2, <1>3, Talking
<1>5. c.pc \in {"fin", "none"} /\ Asked(s2c) = {}
  <2>1. CASE c.pc = "none" /\ s.pc = "ack" /\ Mute(c2s) /\ Asked(s2c) = {}
    BY <2>1
  <2>2. CASE \E cp, g : \E v \in Seq(UpFrames) : Stance(c, Asked(s2c), c2s, cp, g, v) /\ Talk(s.pc, s.meth, cp, g, v)
    <3>1. PICK cp, g : \E v \in Seq(UpFrames) : Stance(c, Asked(s2c), c2s, cp, g, v) /\ Talk(s.pc, s.meth, cp, g, v)
      BY <2>2
    <3>2. PICK v \in Seq(UpFrames) : Stance(c, Asked(s2c), c2s, cp, g, v) /\ Talk("ack", s.meth, cp, g, v)
      BY <1>1, <3>1
    <3>3. g = {} /\ cp = "fin"
      BY <3>2 DEF Talk
    <3> QED
      BY <3>2, <3>3 DEF Stance
  <2> QED
    BY <1>4, <2>1, <2>2 DEF Talks
<1>6. ~c.quiet
  BY <1>2, <1>3, <1>4, Listening
<1>7. Said(s2c) \subseteq {"unpair"}
  BY <1>4, <1>5 DEF Asked
<1>8. /\ f \in DownFrames /\ f.t = "sfinal" /\ f.key = s.key /\ f.t \in Exchange
  BY <1>2, FramesAre DEF ServerStates, Exchange
<1>9. /\ y \in ServerStates /\ y.pc = "final" /\ y.pc \in InHandshake /\ ~y.moved /\ y.key = s.key /\ y.psk = s.psk /\ y.idx = s.idx
      /\ y.in = s.in /\ y.dial = s.dial /\ y.first = s.first /\ y.target = s.target
  BY <1>2 DEF ServerStates, InHandshake
<1>10. st \in Stores /\ st.crec = store.crec /\ st.ever = store.ever /\ st.srec = store.srec /\ st.rounds = store.rounds
  BY <1>2 DEF Stores
<1> HIDE DEF f, y, st
<1>11. q \in Seq(DownFrames) /\ q # <<>> /\ Said(q) = Said(s2c) \cup {"sfinal"}
  BY <1>2, <1>8, AppendHas, SaidMore
<1>12. Steady(y, c, q, c2s)
  <2>1. Awaits(c, Asked(s2c) \cup {f.t})
    BY <1>3, <1>5, <1>8 DEF Steady, Awaits
  <2>2. \A i \in 1..Len(s2c) : s2c[i].t = "unpair"
    BY <1>7 DEF Said
  <2> QED
    BY <1>2, <1>3, <1>6, <1>8, <1>9, <2>1, <2>2, SendExchange
<1>13. c.pc = "fin" => c.fin = y.target.id
  BY <1>1, <1>3, <1>9 DEF Joined, Phase
<1> HIDE DEF q
<1>14. Joined(y, c, q, c2s)
  <2>1. Closing(y, c, q)
    BY <1>5, <1>7, <1>11, <1>13 DEF Closing
  <2> QED
    BY <1>9, <1>11, <1>12, <2>1 DEF Joined, Phase, Exchanging
<1>15. h = [t |-> "hs1", key |-> y.key, psk |-> y.target]
  BY <1>9
<1> HIDE DEF h
<1>16. Session(y, c, Append(q, h), c2s) /\ Append(q, h) \in Seq(DownFrames) /\ h \in DownFrames
  BY <1>9, <1>11, <1>14, <1>15, Rehandshake
<1>17. s2c' = Append(q, h)
  BY <1>1, <1>2, <1>8, <1>16, TwoMore DEF q
<1>18. AtServer(y, st)
  BY <1>1, <1>2, <1>9, <1>10 DEF AtServer, Exchanging
<1>19. Counted(c, st)
  BY <1>1, <1>10 DEF Connected, Counted
<1> QED
  BY <1>1, <1>2, <1>9, <1>10, <1>16, <1>17, <1>18, <1>19 DEF SessionInv, Connected

\* The session has its new key.
Renewed(y, x, k) ==
    /\ y \in ServerStates /\ y.key = k /\ y.psk = x.target /\ y.idx = 0 /\ y.pc = x.pc /\ y.in = x.in
    /\ y.meth = x.meth /\ y.dial = x.dial /\ y.first = x.first /\ y.cut = x.cut /\ y.target = x.target
    /\ y.moved = (x.moved \/ (x.psk.cat = "lt" /\ x.target.cat # "lt"))

\* The server restores its record for the session.
LEMMA ReloadedIs ==
    ASSUME NEW x \in ServerStates, NEW k \in Nat, NEW b \in BOOLEAN
    PROVE  Renewed(Reload([x EXCEPT !.key = k, !.psk = x.target, !.idx = 0,
                                    !.moved = @ \/ (x.psk.cat = "lt" /\ x.target.cat # "lt")], b), x, k)
<1> DEFINE m == x.moved \/ (x.psk.cat = "lt" /\ x.target.cat # "lt")
           z == [x EXCEPT !.key = k, !.psk = x.target, !.idx = 0, !.moved = m]
           y == Reload(z, b)
<1>1. m \in BOOLEAN
  BY ServerIs
<1> HIDE DEF m
<1>2. /\ z \in ServerStates /\ z.key = k /\ z.psk = x.target /\ z.idx = 0 /\ z.pc = x.pc /\ z.in = x.in
      /\ z.meth = x.meth /\ z.dial = x.dial /\ z.first = x.first /\ z.cut = x.cut /\ z.target = x.target
      /\ z.moved = m
  BY <1>1 DEF ServerStates
<1> HIDE DEF z
<1>3. /\ y \in ServerStates /\ y.key = z.key /\ y.psk = z.psk /\ y.idx = z.idx /\ y.pc = z.pc /\ y.in = z.in
      /\ y.meth = z.meth /\ y.dial = z.dial /\ y.first = z.first /\ y.cut = z.cut /\ y.target = z.target
      /\ y.moved = z.moved
  <2>1. CASE z.psk.cat = "lt"
    BY <1>2, <2>1 DEF Reload
  <2>2. CASE z.psk.cat # "lt"
    <3>1. y = [z EXCEPT !.trusted = b]
      BY <2>2 DEF Reload
    <3> HIDE DEF y
    <3> QED
      BY <1>2, <3>1 DEF ServerStates
  <2> QED
    BY <2>1, <2>2
<1> HIDE DEF y
<1> QED
  BY <1>2, <1>3 DEF y, z, m, Renewed

\* The session goes on under the new key.
LEMMA RekeyedOK ==
    ASSUME SessionInv, Connected, s.pc \in InHandshake, Accepted(s, c, s2c, c2s), Head(c2s).t = "hs2", Tail(c2s) = <<>>,
           Head(c2s).new = c.key, s2c = <<>>,
           Serve(Rekeyed), c2s' = <<>>, c' = c, store' = store, group' = group, fault' = fault
    PROVE  SessionInv'
<1> DEFINE k == Head(c2s).new
           z == [s EXCEPT !.key = k, !.psk = s.target, !.idx = 0,
                          !.moved = @ \/ (s.psk.cat = "lt" /\ s.target.cat # "lt")]
           y == Reload(z, store.trusted)
           q == <<>>
           e == <<>>
           w == [y EXCEPT !.pc = "idle", !.moved = FALSE]
<1>1. /\ s \in ServerStates /\ c \in ClientStates /\ AtServer(s, store) /\ group \in BOOLEAN /\ store \in Stores
      /\ store.trusted \in BOOLEAN /\ c.key \in Nat
  BY ConnectedIs DEF Stores, ClientStates
<1>2. c.pc = "none" /\ c.idx = 0 /\ c.psk = s.target
  BY DEF Accepted
<1>3. /\ y \in ServerStates /\ y.key = c.key /\ y.psk = s.target /\ y.idx = 0 /\ y.pc = s.pc /\ y.in = s.in
      /\ y.meth = s.meth /\ y.dial = s.dial /\ y.first = s.first /\ y.cut = s.cut /\ y.target = s.target
      /\ y.moved = (s.moved \/ (s.psk.cat = "lt" /\ s.target.cat # "lt"))
  <2>1. k \in Nat /\ k = c.key
    BY <1>1
  <2> HIDE DEF k
  <2>2. Renewed(y, s, k)
    BY <1>1, <2>1, ReloadedIs
  <2> HIDE DEF y
  <2> QED
    BY <2>1, <2>2 DEF Renewed
<1>4. /\ s.pc = "rekey" /\ ~s.cut => Rekeyed = Admitted(y)
      /\ s.pc = "rekey" /\ s.cut => Rekeyed = Leaving(y)
      /\ s.pc = "final" => Rekeyed = Leaving(y)
      /\ s.pc = "return" => Rekeyed = Activated(w)
  BY DEF Rekeyed
<1>5. s.pc \in {"rekey", "final", "return"}
  BY DEF InHandshake
<1>6. /\ s.pc = "rekey" => /\ s.in /\ s.meth \in Methods
                           /\ s.target = (IF s.meth = "psk" THEN PairingPsk ELSE Sentinel)
      /\ s.pc = "final" => s.target.cat = "lt"
      /\ s.moved => s.in \/ store.srec = 0 \/ s.pc = "return"
      /\ s.in => s.pc # "return"
      /\ s.dial => ~s.moved /\ ~s.in /\ ~s.first /\ s.pc # "return"
  BY <1>1 DEF AtServer, Exchanging
<1> HIDE DEF z, y, k
<1>7. /\ w \in ServerStates /\ w.pc = "idle" /\ ~w.moved /\ w.key = y.key /\ w.psk = y.psk /\ w.idx = y.idx /\ w.in = y.in
      /\ w.dial = y.dial /\ w.meth = y.meth
  BY <1>3 DEF ServerStates
<1> HIDE DEF w
<1>8. q \in Seq(DownFrames) /\ "sfinal" \notin Said(q) /\ e \in Seq(UpFrames) /\ s2c = q /\ c2s' = e
  BY SaidNothing
<1>9. Steady(y, c, q, e) /\ Steady(w, c, q, e)
  BY <1>1, <1>2, <1>3, <1>7, SteadyStart
<1> HIDE DEF q, e
<1>10. s' = Rekeyed.srv /\ s2c' = q \o Rekeyed.out
  BY <1>8 DEF Serve
<1>11. CASE s.pc = "rekey" /\ ~s.cut
  <2>1. Credential(y) /\ (y.moved => y.in \/ store.srec = 0) /\ (y.in \/ y.dial) /\ (y.dial => ~y.moved /\ ~y.in /\ ~y.first)
    BY <1>3, <1>6, <1>11, PsksAre DEF Credential
  <2>2. Sends(Admitted(y), y, c, q, e, store, {"init"})
    BY <1>1, <1>3, <1>8, <1>9, <2>1, AdmitOK
  <2> QED
    BY <1>1, <1>4, <1>8, <1>10, <1>11, <2>2, ServerDone DEF Sends
<1>12. CASE (s.pc = "rekey" /\ s.cut) \/ s.pc = "final"
  <2>1. (y.moved => y.in \/ store.srec = 0) /\ (y.dial => ~y.in)
    BY <1>3, <1>6, <1>12
  <2>2. Sends(Leaving(y), y, c, q, e, store, {"idle"})
    BY <1>1, <1>3, <1>8, <1>9, <2>1, LeaveOK
  <2> QED
    BY <1>1, <1>4, <1>8, <1>10, <1>12, <2>2, ServerDone DEF Sends
<1>13. CASE s.pc = "return"
  <2>1. PICK y1 \in ServerStates, q1 \in Seq(DownFrames) :
              /\ Activated(w).srv = y1 /\ q \o Activated(w).out = q1
              /\ Like(y1, w)
              /\ Steady(y1, c, q1, e) /\ Idle(y1, c, q1) /\ q1 # <<>> /\ Said(q1) \subseteq Said(q) \cup {"activate", "unpair"}
    BY <1>1, <1>7, <1>8, <1>9, SendActivated, ZenonT(60)
  <2>2. s' = y1 /\ s2c' = q1
    BY <1>4, <1>10, <1>13, <2>1
  <2>3. Joined(y1, c, q1, e)
    <3>1. y1.pc \in {"idle", "return"} /\ "sfinal" \notin Said(q1)
      BY <1>7, <1>8, <2>1 DEF Like
    <3> QED
      BY <2>1, <3>1, IdleJoined
  <2>4. Session(y1, c, q1, e)
    BY <1>7, <2>1, <2>3, Settled DEF Like, InHandshake
  <2>5. AtServer(y1, store)
    BY <1>3, <1>6, <1>7, <1>13, <2>1 DEF AtServer, Like, Exchanging
  <2> QED
    BY <1>1, <1>8, <2>1, <2>2, <2>4, <2>5, ServerDone
<1> QED
  BY <1>5, <1>11, <1>12, <1>13

\* The server reads the answer to its handshake message.
LEMMA ServerReadsHandshakeOK ==
    ASSUME SessionInv, ServerReadsHandshake
    PROVE  SessionInv'
<1> DEFINE r == Tail(c2s)
<1>1. /\ Connected /\ s.pc \in InHandshake /\ c2s # <<>> /\ c2s' = r /\ c' = c /\ store' = store /\ group' = group
      /\ fault' = fault /\ (IF Head(c2s).t = "hs2" THEN Serve(Rekeyed) ELSE s' = s /\ s2c' = s2c)
  BY UpIs DEF ServerReadsHandshake
<1>2. /\ s \in ServerStates /\ c \in ClientStates /\ s2c \in Seq(DownFrames) /\ c2s \in Seq(UpFrames) /\ AtServer(s, store)
      /\ Session(s, c, s2c, c2s) /\ group \in BOOLEAN /\ store \in Stores /\ r \in Seq(UpFrames)
  BY <1>1, ConnectedIs, TailHas
<1>3. CASE \E q0 \in Seq(DownFrames) : Open(s, s2c, q0) /\ Joined(s, c, q0, c2s)
  <2>1. PICK q0 \in Seq(DownFrames) : Open(s, s2c, q0) /\ Joined(s, c, q0, c2s)
    BY <1>3
  <2>2. Steady(s, c, q0, r) /\ UpFit(Head(c2s), s, c)
    BY <1>1, <1>2, <2>1, ServerHears DEF Joined
  <2>3. s' = s /\ s2c' = s2c
    BY <1>1, <2>2 DEF UpFit
  <2>4. Joined(s, c, q0, r)
    BY <1>1, <2>1, <2>2, PcsDiffer DEF Joined, Phase
  <2>5. Session(s, c, s2c, r)
    BY <2>1, <2>4 DEF Session
  <2> QED
    BY <1>1, <1>2, <2>3, <2>5, ServerDone
<1>4. CASE Accepted(s, c, s2c, c2s)
  <2>1. PICK r0 \in Seq(UpFrames), h \in UpFrames :
          /\ c2s = Append(r0, h) /\ h.t = "hs2" /\ h.key = s.key /\ h.new = c.key
          /\ \A i \in 1..Len(r0) : r0[i].key = s.key /\ r0[i].t # "hs2"
    BY <1>4 DEF Accepted
  <2>2. IF r0 = <<>> THEN r = <<>> /\ Head(c2s) = h ELSE r = Append(Tail(r0), h) /\ Head(c2s) = Head(r0)
    BY <2>1, TailOfAppend
  <2>3. CASE r0 = <<>>
    <3>1. r = <<>> /\ Head(c2s) = h /\ s2c = <<>>
      BY <1>4, <2>2, <2>3 DEF Accepted
    <3> QED
      BY <1>1, <1>4, <2>1, <3>1, RekeyedOK
  <2>4. CASE r0 # <<>>
    <3>1. /\ Tail(r0) \in Seq(UpFrames) /\ Len(Tail(r0)) = Len(r0) - 1 /\ Len(r0) >= 1 /\ Head(r0) = r0[1]
          /\ \A i \in 1..(Len(r0) - 1) : Tail(r0)[i] = r0[i + 1]
          /\ Len(r0) \in Nat
      BY <2>4, TailHas
    <3>2. Head(c2s).t # "hs2"
      BY <2>1, <2>2, <2>4, <3>1
    <3>3. \A i \in 1..Len(Tail(r0)) : Tail(r0)[i].key = s.key /\ Tail(r0)[i].t # "hs2"
      BY <2>1, <3>1
    <3> HIDE DEF r
    <3>4. Accepted(s, c, s2c, r)
      BY <1>4, <2>1, <2>2, <2>4, <3>1, <3>3 DEF Accepted
    <3>5. Session(s, c, s2c, r)
      BY <3>4 DEF Session
    <3> QED
      BY <1>1, <1>2, <3>2, <3>5, ServerDone
  <2> QED
    BY <2>3, <2>4
<1> QED
  BY <1>2, <1>3, <1>4 DEF Session

-----------------------------------------------------------------------------
(* The client's steps.                                                       *)

\* What a state of the client holds.
LEMMA ClientIs ==
    ASSUME NEW d \in ClientStates
    PROVE  /\ d.pc \in {"none", "gate", "init", "share", "confirm", "fin"} /\ d.psk \in Psks /\ d.key \in Nat /\ d.idx \in Nat
           /\ d.quiet \in BOOLEAN /\ d.meth \in Methods \cup {"none"} /\ d.fin \in 0..MaxPsk
           /\ d.play \in BOOLEAN /\ d.roles \in BOOLEAN
BY DEF ClientStates

\* The attempt is given up: nothing else changes.
Gone(e, d) ==
    /\ e.pc = "none" /\ e.psk = d.psk /\ e.key = d.key /\ e.idx = d.idx /\ e.quiet = d.quiet /\ e.meth = d.meth
    /\ e.play = d.play /\ e.roles = d.roles

\* The client out of the attempt.
LEMMA AbandonedIs ==
    ASSUME NEW d \in ClientStates
    PROVE  Abandoned(d) \in ClientStates /\ Gone(Abandoned(d), d)
<1>1. 0 \in 0..MaxPsk
  BY PairConstants
<1> QED
  BY <1>1 DEF Abandoned, ClientStates, Gone

\* The client reads the handshake, which is alone on the way, or a frame of the session.
LEMMA ReadOpen ==
    ASSUME NEW x, NEW d, NEW q \in Seq(DownFrames), q # <<>>, NEW r, Session(x, d, q, r)
    PROVE  \/ /\ Head(q).t = "hs1" /\ Head(q).psk = x.target /\ x.pc \in InHandshake /\ Tail(q) = <<>>
              /\ Joined(x, d, <<>>, r)
           \/ /\ Head(q).t # "hs1"
              /\ \E q0 \in Seq(DownFrames) : q0 # <<>> /\ Head(q0) = Head(q) /\ Joined(x, d, q0, r) /\ Open(x, Tail(q), Tail(q0))
<1>1. PICK q0 \in Seq(DownFrames) : Open(x, q, q0) /\ Joined(x, d, q0, r)
  BY DEF Session, Accepted
<1>2. q0 # <<>> => Head(q0).t # "hs1" /\ Tail(q0) \in Seq(DownFrames)
  <2> SUFFICES ASSUME q0 # <<>> PROVE Head(q0).t # "hs1" /\ Tail(q0) \in Seq(DownFrames)
    OBVIOUS
  <2>1. Head(q0) = q0[1] /\ 1 \in 1..Len(q0) /\ Tail(q0) \in Seq(DownFrames)
    BY TailHas
  <2> QED
    BY <1>1, <2>1 DEF Joined, Steady, DownFit
<1>3. CASE x.pc \notin InHandshake
  <2>1. q = q0
    BY <1>1, <1>3 DEF Open
  <2> QED
    BY <1>1, <1>2, <1>3, <2>1 DEF Open
<1>4. CASE x.pc \in InHandshake
  <2>1. PICK h \in DownFrames : q = Append(q0, h) /\ h.t = "hs1" /\ h.key = x.key /\ h.psk = x.target
    BY <1>1, <1>4 DEF Open
  <2>2. IF q0 = <<>> THEN Tail(q) = <<>> /\ Head(q) = h ELSE Tail(q) = Append(Tail(q0), h) /\ Head(q) = Head(q0)
    BY <2>1, TailOfAppend
  <2>3. CASE q0 = <<>>
    BY <1>1, <1>4, <2>1, <2>2, <2>3
  <2>4. CASE q0 # <<>>
    <3>1. Open(x, Tail(q), Tail(q0))
      BY <1>4, <2>1, <2>2, <2>4 DEF Open
    <3> QED
      BY <1>1, <1>2, <2>2, <2>4, <3>1
  <2> QED
    BY <2>3, <2>4
<1> QED
  BY <1>3, <1>4

\* A step of the client.
LEMMA ClientDone ==
    ASSUME SessionInv, Connected, s' = s, group' = group, fault' = fault, c' \in ClientStates, s2c' \in Seq(DownFrames),
           c2s' \in Seq(UpFrames), store' \in Stores, store'.crec \subseteq store'.ever, store'.srec = store.srec,
           store'.ever = store.ever, Counted(c', store'), Session(s, c', s2c', c2s')
    PROVE  SessionInv'
<1>1. AtServer(s, store')
  BY DEF Connected, AtServer
<1> QED
  BY <1>1 DEF SessionInv, Connected

\* A session after a step of the client.
LEMMA JoinedStep ==
    ASSUME NEW x, NEW d, NEW e, NEW q, NEW q1, NEW r, NEW r1, Joined(x, d, q, r),
           Steady(x, e, q1, r1), ~e.quiet, Said(q1) \subseteq Said(q), Idle(x, d, q) => Idle(x, e, q1),
           Announcing(x, q) => Announcing(x, q1) \/ Conversing(x, e, q1, r1),
           Conversing(x, d, q, r) => /\ Conversing(x, e, q1, r1)
                                     /\ x.pc = "ack" => e.pc # "fin" \/ (d.pc = "fin" /\ e.fin = d.fin),
           Closing(x, d, q) => Closing(x, e, q1)
    PROVE  Joined(x, e, q1, r1)
<1>1. Announcing(x, q) => x.pc # "ack"
  BY DEF Announcing
<1> QED
  BY <1>1 DEF Joined, Phase

\* What one frame less leaves.
LEMMA NextOf ==
    ASSUME NEW x \in ServerStates, NEW d, NEW e, NEW q \in Seq(DownFrames), q # <<>>, ~Act(Head(q)),
           d.pc = "none" => e.pc = "none", e.play = d.play, e.roles = d.roles
    PROVE  /\ Idle(x, d, q) => Idle(x, e, Tail(q))
           /\ Announcing(x, q) => Announcing(x, Tail(q))
           /\ Said(Tail(q)) \subseteq Said(q) /\ Head(q).t \in Said(q) /\ Asked(Tail(q)) \subseteq Asked(q)
           /\ Tail(q) \in Seq(DownFrames) /\ ~Admitting(Head(q))
<1>1. Idle(x, d, q) => Idle(x, e, Tail(q))
  BY ServerIs, IdleTail
<1>2. Announcing(x, q) => Announcing(x, Tail(q))
  <2> SUFFICES ASSUME Announcing(x, q) PROVE Announcing(x, Tail(q))
    OBVIOUS
  <2>1. PICK i \in 1..Len(q) : /\ Admitting(q[i]) /\ q[i].meth = x.meth
                               /\ \A j \in 1..Len(q) : i < j => q[j].t = "unpair"
    BY DEF Announcing
  <2>2. /\ Tail(q) \in Seq(DownFrames) /\ Len(Tail(q)) = Len(q) - 1 /\ Len(q) >= 1 /\ Head(q) = q[1] /\ Len(q) \in Nat
        /\ \A j \in 1..Len(Tail(q)) : j + 1 \in 1..Len(q) /\ Tail(q)[j] = q[j + 1]
    BY TailHas
  <2>3. i # 1
    BY <2>1, <2>2 DEF Act, Admitting
  <2>4. i - 1 \in 1..Len(Tail(q)) /\ Tail(q)[i - 1] = q[i]
    BY <2>1, <2>2, <2>3
  <2>5. \A j \in 1..Len(Tail(q)) : i - 1 < j => Tail(q)[j].t = "unpair"
    BY <2>1, <2>2
  <2> QED
    BY <2>1, <2>4, <2>5 DEF Announcing
<1> QED
  BY <1>1, <1>2, AskedLess, TailHas DEF Act, Admitting

\* One reading of the client that leaves the store alone but for the credentials it keeps.
Reads(e, r1) ==
    /\ s' = s /\ c' = e /\ s2c' = Tail(s2c) /\ c2s' = r1 /\ group' = group /\ fault' = fault

\* The client reads a frame, and the invariant holds if the session does.
LEMMA ReadsOK ==
    ASSUME SessionInv, Connected, s2c # <<>>, NEW e \in ClientStates, NEW r1 \in Seq(UpFrames), Reads(e, r1),
           store' \in Stores, store'.crec \subseteq store'.ever, store'.srec = store.srec,
           store'.ever = store.ever, Counted(e, store'), NEW q0, Open(s, Tail(s2c), Tail(q0)), Joined(s, e, Tail(q0), r1),
           Tail(q0) \in Seq(DownFrames)
    PROVE  SessionInv'
<1>1. Session(s, e, Tail(s2c), r1)
  BY DEF Session
<1>2. Tail(s2c) \in Seq(DownFrames)
  BY ConnectedIs, TailHas
<1> QED
  BY <1>1, <1>2, ClientDone DEF Reads

\* The client refuses a handshake for a record it no longer has.
LEMMA ClientRejectsOK ==
    ASSUME SessionInv, ClientRejects
    PROVE  SessionInv'
<1> DEFINE f == Head(s2c)
           why == IF c.quiet /\ f.t # "activate" THEN "client: quiet"
                  ELSE IF f.t = "hs1" /\ ~Known(f.psk) THEN "client: credential"
                  ELSE IF f.t = "activate" /\ ~Admissible(f) THEN "client: activation" ELSE "none"
<1>1. Connected /\ s2c # <<>> /\ why # "none" /\ Close(why) /\ store' = store /\ group' = group
  BY UpIs DEF ClientRejects
<1>2. /\ s \in ServerStates /\ c \in ClientStates /\ s2c \in Seq(DownFrames) /\ Session(s, c, s2c, c2s)
  BY <1>1, ConnectedIs
<1>3. ~(c.quiet /\ f.t # "activate") /\ ~(f.t = "activate" /\ ~Admissible(f))
  <2>1. CASE f.t = "hs1" /\ Joined(s, c, <<>>, c2s)
    BY <2>1 DEF Joined
  <2>2. CASE \E q0 \in Seq(DownFrames) : q0 # <<>> /\ Head(q0) = f /\ Joined(s, c, q0, c2s)
    <3>1. PICK q0 \in Seq(DownFrames) : q0 # <<>> /\ Head(q0) = f /\ Joined(s, c, q0, c2s)
      BY <2>2
    <3>2. q0[1] = f /\ 1 \in 1..Len(q0)
      BY <3>1, TailHas
    <3>3. DownFit(f, s) /\ (c.quiet => f.t = "activate") /\ c.psk = s.psk
      BY <3>1, <3>2 DEF Joined, Steady, Quiet
    <3> QED
      BY <3>3 DEF DownFit, Admitting, Admissible
  <2> QED
    BY <1>1, <1>2, <2>1, <2>2, ReadOpen
<1>4. why = "client: credential"
  BY <1>1, <1>3
<1> QED
  BY <1>1, <1>4, CloseOK DEF SessionInv

\* The client answers the handshake.
LEMMA ClientRekeysOK ==
    ASSUME SessionInv, ClientRekeys
    PROVE  SessionInv'
<1> DEFINE f == Head(s2c)
           k == store.keys + 1
           a == Abandoned(c)
           e == [a EXCEPT !.key = k, !.psk = f.psk, !.idx = 0, !.quiet = TRUE]
           h == [t |-> "hs2", key |-> c.key, new |-> k]
           st == [store EXCEPT !.keys = k]
<1>1. /\ Connected /\ s2c # <<>> /\ f.t = "hs1" /\ store' = st /\ c' = e /\ c2s' = c2s \o <<h>> /\ s2c' = Tail(s2c)
      /\ s' = s /\ group' = group /\ fault' = fault
  BY UpIs DEF ClientRekeys, Reply
<1>2. /\ s \in ServerStates /\ c \in ClientStates /\ s2c \in Seq(DownFrames) /\ c2s \in Seq(UpFrames)
      /\ Session(s, c, s2c, c2s) /\ store \in Stores /\ f \in DownFrames
  BY <1>1, ConnectedIs, TailHas
<1>3. f.psk = s.target /\ s.pc \in InHandshake /\ Tail(s2c) = <<>> /\ Joined(s, c, <<>>, c2s)
  BY <1>1, <1>2, ReadOpen
<1>4. f.psk \in Psks /\ k \in Nat /\ c.key \in Nat
  BY <1>1, <1>2, FrameIs, ClientIs DEF Stores
<1> HIDE DEF f
<1>5. st \in Stores /\ st.srec = store.srec /\ st.crec = store.crec /\ st.ever = store.ever
  BY <1>2, <1>4 DEF Stores
<1> HIDE DEF st, k
<1>6. a \in ClientStates /\ a.pc = "none"
  BY <1>2, AbandonedIs DEF Gone
<1> HIDE DEF a
<1>7. e \in ClientStates /\ e.quiet /\ e.pc = "none" /\ e.idx = 0 /\ e.psk = f.psk /\ e.key = k
  BY <1>4, <1>6 DEF ClientStates
<1>8. h \in UpFrames /\ h.t = "hs2" /\ h.key = c.key /\ h.new = k
  BY <1>4 DEF UpFrames
<1> HIDE DEF e, h
<1>9. c2s' = Append(c2s, h) /\ c2s' \in Seq(UpFrames)
  BY <1>1, <1>2, <1>8, AppendHas
<1>10. s.key = c.key /\ \A i \in 1..Len(c2s) : c2s[i].key = s.key /\ c2s[i].t # "hs2"
  BY <1>3 DEF Joined, Steady, UpFit
<1>11. Accepted(s, e, <<>>, Append(c2s, h))
  BY <1>2, <1>3, <1>7, <1>8, <1>10 DEF Accepted
<1>12. Session(s, c', s2c', c2s') /\ Counted(c', store') /\ s2c' \in Seq(DownFrames)
  <2>1. Session(s, e, <<>>, Append(c2s, h))
    BY <1>11 DEF Session
  <2>2. Counted(e, store')
    BY <1>7 DEF Counted
  <2>3. s2c' = <<>> /\ <<>> \in Seq(DownFrames)
    BY <1>1, <1>3
  <2> QED
    BY <1>1, <1>9, <2>1, <2>2, <2>3
<1>13. store.crec \subseteq store.ever
  BY DEF SessionInv
<1> QED
  BY <1>1, <1>5, <1>7, <1>9, <1>12, <1>13, ClientDone

\* A message for no attempt is discarded.
LEMMA ClientDiscardsOK ==
    ASSUME SessionInv, ClientDiscards
    PROVE  SessionInv'
<1>1. /\ Connected /\ s2c # <<>> /\ ~c.quiet /\ c.pc = "none" /\ Head(s2c).t \in ServerFrames /\ Reads(c, c2s) /\ store' = store
  BY UpIs DEF ClientDiscards, Reads
<1>2. /\ s \in ServerStates /\ c \in ClientStates /\ s2c \in Seq(DownFrames) /\ c2s \in Seq(UpFrames)
      /\ Session(s, c, s2c, c2s) /\ store \in Stores /\ store.crec \subseteq store.ever
  BY <1>1, ConnectedIs DEF SessionInv
<1>3. PICK q0 \in Seq(DownFrames) : q0 # <<>> /\ Head(q0) = Head(s2c) /\ Joined(s, c, q0, c2s) /\ Open(s, Tail(s2c), Tail(q0))
  BY <1>1, <1>2, ReadOpen DEF ServerFrames
<1>4. ~Act(Head(q0))
  BY <1>1, <1>3 DEF Act, ServerFrames
<1>5. /\ Idle(s, c, q0) => Idle(s, c, Tail(q0))
      /\ Announcing(s, q0) => Announcing(s, Tail(q0))
      /\ Said(Tail(q0)) \subseteq Said(q0) /\ Asked(Tail(q0)) \subseteq Asked(q0) /\ Tail(q0) \in Seq(DownFrames)
      /\ ~Admitting(Head(q0))
  BY <1>2, <1>3, <1>4, NextOf
<1>6. Steady(s, c, Tail(q0), c2s)
  <2>1. Awaits(c, Asked(Tail(q0)))
    BY <1>1 DEF Awaits
  <2>2. c.idx = c.idx + (IF Admitting(Head(q0)) THEN 1 ELSE 0)
    BY <1>2, <1>5, ClientIs
  <2> QED
    BY <1>1, <1>2, <1>3, <2>1, <2>2, ReadOne DEF Joined
<1>7. ASSUME Conversing(s, c, q0, c2s) PROVE Conversing(s, c, Tail(q0), c2s)
  <2>1. PICK p, w \in Seq(UpFrames) : c2s = p \o w /\ Earlier(s, p) /\ Current(s, c, w) /\ Talks(s, c, Asked(q0), w)
    BY <1>7 DEF Conversing
  <2>2. Talks(s, c, Asked(Tail(q0)), w)
    <3>1. \A cp, g, v : Stance(c, Asked(q0), w, cp, g, v) => Stance(c, Asked(Tail(q0)), w, cp, g, v)
      BY <1>1, <1>5 DEF Stance
    <3>2. Asked(q0) = {} => Asked(Tail(q0)) = {}
      BY <1>5
    <3> QED
      BY <2>1, <3>1, <3>2 DEF Talks
  <2> QED
    BY <1>5, <1>7, <2>1, <2>2 DEF Conversing
<1>8. Closing(s, c, q0) => Closing(s, c, Tail(q0))
  BY <1>1, <1>5 DEF Closing
<1>9. Joined(s, c, Tail(q0), c2s)
  BY <1>1, <1>3, <1>5, <1>6, <1>7, <1>8, JoinedStep
<1>10. Counted(c, store')
  BY <1>1 DEF Counted
<1> QED
  BY <1>1, <1>2, <1>3, <1>5, <1>9, <1>10, ReadsOK

\* The server's abort ends the attempt.
LEMMA ClientReadsAbortOK ==
    ASSUME SessionInv, ClientReadsAbort
    PROVE  SessionInv'
<1> DEFINE e == Abandoned(c)
<1>1. /\ Connected /\ s2c # <<>> /\ ~c.quiet /\ Head(s2c).t = "abort" /\ Reads(e, c2s) /\ store' = store
  BY UpIs DEF ClientReadsAbort, Reads
<1>2. /\ s \in ServerStates /\ c \in ClientStates /\ s2c \in Seq(DownFrames) /\ c2s \in Seq(UpFrames)
      /\ Session(s, c, s2c, c2s) /\ store \in Stores /\ store.crec \subseteq store.ever
  BY <1>1, ConnectedIs DEF SessionInv
<1>3. PICK q0 \in Seq(DownFrames) : q0 # <<>> /\ Head(q0) = Head(s2c) /\ Joined(s, c, q0, c2s) /\ Open(s, Tail(s2c), Tail(q0))
  BY <1>1, <1>2, ReadOpen
<1>4. e \in ClientStates /\ Gone(e, c)
  BY <1>2, AbandonedIs
<1> HIDE DEF e
<1>5. /\ Idle(s, c, q0) => Idle(s, e, Tail(q0))
      /\ Announcing(s, q0) => Announcing(s, Tail(q0))
      /\ Said(Tail(q0)) \subseteq Said(q0) /\ Head(q0).t \in Said(q0) /\ Tail(q0) \in Seq(DownFrames)
      /\ ~Admitting(Head(q0))
  <2>1. ~Act(Head(q0)) /\ e.pc = "none" /\ e.play = c.play /\ e.roles = c.roles
    BY <1>1, <1>3, <1>4 DEF Act, Gone
  <2> QED
    BY <1>2, <1>3, <2>1, NextOf
<1>6. Steady(s, e, Tail(q0), c2s) /\ ~e.quiet
  <2>1. Awaits(e, Asked(Tail(q0)))
    BY <1>4 DEF Awaits, Gone
  <2>2. e.idx = c.idx + (IF Admitting(Head(q0)) THEN 1 ELSE 0)
    BY <1>2, <1>4, <1>5, ClientIs DEF Gone
  <2>3. e.key = c.key /\ e.psk = c.psk /\ ~e.quiet
    BY <1>1, <1>4 DEF Gone
  <2> QED
    BY <1>2, <1>3, <1>4, <2>1, <2>2, <2>3, ReadOne DEF Joined
<1>7. ~Conversing(s, c, q0, c2s) /\ ~Closing(s, c, q0)
  BY <1>1, <1>3, <1>5 DEF Conversing, Closing, Exchange
<1>8. Joined(s, e, Tail(q0), c2s)
  BY <1>3, <1>5, <1>6, <1>7, JoinedStep
<1>9. Counted(e, store')
  BY <1>4 DEF Counted, Gone
<1> QED
  BY <1>1, <1>2, <1>3, <1>4, <1>5, <1>8, <1>9, ReadsOK

\* server/unpair
LEMMA ClientUnpairsOK ==
    ASSUME SessionInv, ClientUnpairs
    PROVE  SessionInv'
<1>1. /\ Connected /\ s2c # <<>> /\ ~c.quiet /\ Head(s2c).t = "unpair" /\ group' = group
      /\ IF c.psk.cat = "lt" THEN store' = [store EXCEPT !.crec = @ \ {c.psk.id}] /\ Close("none")
         ELSE Reads(c, c2s) /\ store' = store
  BY UpIs DEF ClientUnpairs, Reads
<1>2. /\ s \in ServerStates /\ c \in ClientStates /\ s2c \in Seq(DownFrames) /\ c2s \in Seq(UpFrames)
      /\ Session(s, c, s2c, c2s) /\ store \in Stores /\ store.crec \subseteq store.ever /\ group \in BOOLEAN
  BY <1>1, ConnectedIs DEF SessionInv
<1>3. CASE c.psk.cat = "lt"
  <2>1. store' \in Stores /\ store'.crec \subseteq store'.ever
    <3> DEFINE k == store.crec \ {c.psk.id}
    <3>1. k \subseteq store.crec /\ store' = [store EXCEPT !.crec = k]
      BY <1>1, <1>3
    <3> HIDE DEF k
    <3> QED
      BY <1>2, <3>1 DEF Stores
  <2> QED
    BY <1>1, <1>2, <1>3, <2>1, CloseOK
<1>4. CASE c.psk.cat # "lt"
  <2>1. PICK q0 \in Seq(DownFrames) : q0 # <<>> /\ Head(q0) = Head(s2c) /\ Joined(s, c, q0, c2s) /\ Open(s, Tail(s2c), Tail(q0))
    BY <1>1, <1>2, ReadOpen
  <2>2. ~Act(Head(q0))
    BY <1>1, <2>1 DEF Act
  <2>3. /\ Idle(s, c, q0) => Idle(s, c, Tail(q0))
        /\ Announcing(s, q0) => Announcing(s, Tail(q0))
        /\ Said(Tail(q0)) \subseteq Said(q0) /\ Tail(q0) \in Seq(DownFrames)
        /\ ~Admitting(Head(q0))
    BY <1>2, <2>1, <2>2, NextOf
  <2>4. Asked(Tail(q0)) = Asked(q0) /\ Said(q0) = Said(Tail(q0)) \cup {"unpair"}
    <3>1. {Head(q0).t} \cap Exchange = {}
      BY <1>1, <2>1 DEF Exchange
    <3> QED
      BY <1>1, <2>1, <3>1, AskedLess
  <2>5. Steady(s, c, Tail(q0), c2s)
    <3>1. Awaits(c, Asked(Tail(q0)))
      BY <2>1, <2>4 DEF Joined, Steady
    <3>2. c.idx = c.idx + (IF Admitting(Head(q0)) THEN 1 ELSE 0)
      BY <1>2, <2>3, ClientIs
    <3> QED
      BY <1>1, <1>2, <2>1, <3>1, <3>2, ReadOne DEF Joined
  <2>6. Conversing(s, c, q0, c2s) => Conversing(s, c, Tail(q0), c2s)
    BY <2>3, <2>4 DEF Conversing
  <2>7. Closing(s, c, q0) => Closing(s, c, Tail(q0))
    BY <2>4 DEF Closing
  <2>9. Joined(s, c, Tail(q0), c2s)
    BY <1>1, <2>1, <2>3, <2>5, <2>6, <2>7, JoinedStep
  <2>10. Counted(c, store')
    BY <1>1, <1>4 DEF Counted, Connected
  <2> QED
    BY <1>1, <1>2, <1>4, <2>1, <2>3, <2>9, <2>10, ReadsOK
<1> QED
  BY <1>3, <1>4

\* A word said behind others.
LEMMA UpConcat ==
    ASSUME NEW p \in Seq(UpFrames), NEW w \in Seq(UpFrames), NEW f \in UpFrames
    PROVE  Append(p \o w, f) = p \o Append(w, f) /\ Append(w, f) \in Seq(UpFrames)
OBVIOUS

\* In the attempt, where it is plain what the client said in it.
LEMMA Partner ==
    ASSUME NEW x, NEW d, d.pc # "none", NEW q, NEW r, Conversing(x, d, q, r)
    PROVE  /\ d.idx = x.idx /\ d.meth = x.meth /\ Said(q) \subseteq Exchange \cup {"unpair"}
           /\ \E p, w \in Seq(UpFrames) : /\ r = p \o w /\ Earlier(x, p) /\ Current(x, d, w)
                                          /\ Talk(x.pc, x.meth, d.pc, Asked(q), w)
BY DEF Conversing, Talks, Stance

\* Says it in one more word.
LEMMA Converses ==
    ASSUME NEW x, NEW e, NEW q, NEW p \in Seq(UpFrames), NEW w \in Seq(UpFrames), NEW r, r = p \o w, Earlier(x, p),
           Current(x, e, w), e.idx = x.idx, e.meth = x.meth, Said(q) \subseteq Exchange \cup {"unpair"}, e.pc # "none",
           Talk(x.pc, x.meth, e.pc, Asked(q), w)
    PROVE  Conversing(x, e, q, r)
<1>1. Stance(e, Asked(q), w, e.pc, Asked(q), w)
  BY DEF Stance
<1>2. Talks(x, e, Asked(q), w)
  BY <1>1 DEF Talks
<1> QED
  BY <1>2 DEF Conversing

\* The client leaves the attempt with a client/pair-abort.
LEMMA GivesUp ==
    ASSUME NEW x, NEW d, NEW e, d.pc # "none", Gone(e, d), NEW q, NEW q1, Asked(q1) \subseteq Asked(q), Said(q1) \subseteq Said(q),
           NEW r, NEW f \in UpFrames, f.t = "abort", Conversing(x, d, q, r)
    PROVE  Conversing(x, e, q1, Append(r, f))
<1>1. /\ d.idx = x.idx /\ d.meth = x.meth /\ Said(q) \subseteq Exchange \cup {"unpair"}
  BY Partner
<1>2. PICK p, w \in Seq(UpFrames) : r = p \o w /\ Earlier(x, p) /\ Current(x, d, w) /\ Talk(x.pc, x.meth, d.pc, Asked(q), w)
  BY Partner
<1>3. Append(r, f) = p \o Append(w, f) /\ Append(w, f) \in Seq(UpFrames)
  <2>1. Append(p \o w, f) = p \o Append(w, f) /\ Append(w, f) \in Seq(UpFrames)
    BY UpConcat
  <2> QED
    BY <1>2, <2>1
<1>4. e.pc = "none" /\ e.idx = x.idx /\ e.meth = x.meth
  BY <1>1 DEF Gone
<1>5. Current(x, e, Append(w, f))
  BY <1>2, <1>4, CurrentAppend DEF First
<1>6. Stance(e, Asked(q1), Append(w, f), d.pc, Asked(q), w)
  BY <1>4 DEF Stance
<1>7. Talks(x, e, Asked(q1), Append(w, f))
  BY <1>2, <1>6 DEF Talks
<1> QED
  BY <1>1, <1>2, <1>3, <1>4, <1>5, <1>7 DEF Conversing

\* The client says something in the attempt, or leaves it.
LEMMA SpeaksOK ==
    ASSUME SessionInv, Connected, c.pc # "none", NEW e \in ClientStates, NEW r1 \in Seq(UpFrames),
           s' = s, c' = e, s2c' = s2c, c2s' = r1, group' = group, fault' = fault,
           store' \in Stores, store'.crec \subseteq store'.ever, store'.srec = store.srec, store'.ever = store.ever,
           Counted(e, store'), e.quiet = c.quiet, e.play = c.play, e.roles = c.roles,
           \A q0 \in Seq(DownFrames) : Joined(s, c, q0, c2s) =>
               /\ Steady(s, e, q0, r1)
               /\ Conversing(s, c, q0, c2s) => /\ Conversing(s, e, q0, r1)
                                               /\ s.pc = "ack" => e.pc # "fin" \/ (c.pc = "fin" /\ e.fin = c.fin)
               /\ Closing(s, c, q0) => Closing(s, e, q0)
    PROVE  SessionInv'
<1>1. /\ s \in ServerStates /\ c \in ClientStates /\ s2c \in Seq(DownFrames) /\ c2s \in Seq(UpFrames) /\ Session(s, c, s2c, c2s)
  BY ConnectedIs
<1>2. PICK q0 \in Seq(DownFrames) : Open(s, s2c, q0) /\ Joined(s, c, q0, c2s)
  BY <1>1 DEF Session, Accepted
<1>3. ~e.quiet
  BY <1>2 DEF Joined, Steady, Quiet
<1>4. Idle(s, c, q0) => Idle(s, e, q0)
  BY DEF Idle, Rests, Roles
<1>5. Joined(s, e, q0, r1)
  BY <1>2, <1>3, <1>4, JoinedStep
<1>6. Session(s, e, s2c, r1)
  BY <1>2, <1>5 DEF Session
<1> QED
  BY <1>1, <1>6, ClientDone

\* The same, as a step.
LEMMA LeavesOK ==
    ASSUME SessionInv, Connected, c.pc # "none", s' = s, s2c' = s2c, group' = group, fault' = fault, store' = store,
           Reply(Abandoned(c), <<[t |-> "abort", key |-> c.key]>>)
    PROVE  SessionInv'
<1> DEFINE e == Abandoned(c)
           f == Aborting(c.key)
           r1 == Append(c2s, f)
<1>1. /\ s \in ServerStates /\ c \in ClientStates /\ s2c \in Seq(DownFrames) /\ c2s \in Seq(UpFrames)
      /\ store \in Stores /\ store.crec \subseteq store.ever
  BY ConnectedIs DEF SessionInv
<1>2. e \in ClientStates /\ Gone(e, c)
  BY <1>1, AbandonedIs
<1>3. f \in UpFrames /\ f.t = "abort" /\ f.key = c.key
  BY <1>1, FramesAre, ClientIs
<1>4. c' = e /\ c2s' = r1 /\ r1 \in Seq(UpFrames)
  BY <1>1, <1>3, AppendHas DEF Reply, Aborting
<1> HIDE DEF e, f, r1
<1>5. Counted(e, store')
  BY <1>2 DEF Counted, Gone
<1>6. ASSUME NEW q0 \in Seq(DownFrames), Joined(s, c, q0, c2s)
      PROVE  /\ Steady(s, e, q0, r1)
             /\ Conversing(s, c, q0, c2s) => Conversing(s, e, q0, r1)
             /\ Closing(s, c, q0) => Closing(s, e, q0)
  <2>1. Steady(s, c, q0, c2s) /\ UpFit(f, s, c) /\ Quiet(e, q0) /\ Awaits(e, Asked(q0))
    BY <1>2, <1>3, <1>6 DEF Joined, Steady, UpFit, First, Quiet, Awaits, Gone
  <2>2. Steady(s, e, q0, Append(c2s, f))
    BY <1>1, <1>2, <1>3, <2>1, ClientSays DEF Gone
  <2>3. Conversing(s, c, q0, c2s) => Conversing(s, e, q0, Append(c2s, f))
    BY <1>2, <1>3, GivesUp
  <2>4. Closing(s, c, q0) => Closing(s, e, q0)
    BY <1>2 DEF Closing, Gone
  <2> QED
    BY <2>2, <2>3, <2>4 DEF r1
<1>7. e.pc = "none" /\ e.quiet = c.quiet /\ e.play = c.play /\ e.roles = c.roles
  BY <1>2 DEF Gone
<1> QED
  BY <1>1, <1>2, <1>4, <1>5, <1>6, <1>7, SpeaksOK

\* The device's operator cancels the attempt.
LEMMA ClientCancelsOK ==
    ASSUME SessionInv, ClientCancels
    PROVE  SessionInv'
<1>1. Connected /\ c.pc # "none"
  BY UpIs DEF ClientCancels, Cancellable, Attempting
<1> QED
  BY <1>1, LeavesOK DEF ClientCancels

\* The attempt times out at the client.
LEMMA ClientTimeoutOK ==
    ASSUME SessionInv, ClientTimeout
    PROVE  SessionInv'
<1>1. Connected /\ c.pc # "none"
  BY UpIs DEF ClientTimeout, Attempting
<1> QED
  BY <1>1, LeavesOK DEF ClientTimeout

\* A step of the client in the attempt, and nothing else.
Turns(e, d, pc) ==
    /\ e.pc = pc /\ e.psk = d.psk /\ e.key = d.key /\ e.idx = d.idx /\ e.quiet = d.quiet /\ e.meth = d.meth
    /\ e.play = d.play /\ e.roles = d.roles

\* client/pair-init
LEMMA PinitIs ==
    ASSUME NEW d \in ClientStates
    PROVE  Pinit(d) \in UpFrames /\ Pinit(d).t = "pinit" /\ Pinit(d).key = d.key /\ Pinit(d).idx = d.idx
BY ClientIs DEF Pinit, UpFrames

\* await_pairing_window: the attempt that waited begins.
LEMMA PassGateOK ==
    ASSUME SessionInv, PassGate
    PROVE  SessionInv'
<1> DEFINE e == [c EXCEPT !.pc = "init"]
           f == Pinit(c)
           r1 == Append(c2s, f)
           st == IF c.meth = "dynamic" THEN [store EXCEPT !.rounds = 0] ELSE store
<1>1. /\ Connected /\ c.pc = "gate" /\ c' = e /\ c2s' = c2s \o <<f>> /\ store' = st /\ s' = s /\ s2c' = s2c /\ group' = group
      /\ fault' = fault
  BY UpIs DEF PassGate, Reply
<1>2. /\ s \in ServerStates /\ c \in ClientStates /\ s2c \in Seq(DownFrames) /\ c2s \in Seq(UpFrames)
      /\ store \in Stores /\ store.crec \subseteq store.ever
  BY <1>1, ConnectedIs DEF SessionInv
<1>3. e \in ClientStates /\ Turns(e, c, "init")
  BY <1>2 DEF ClientStates, Turns
<1>4. f \in UpFrames /\ f.t = "pinit" /\ f.key = c.key /\ f.idx = c.idx
  BY <1>2, PinitIs
<1>5. /\ st \in Stores /\ st.crec = store.crec /\ st.ever = store.ever /\ st.srec = store.srec
      /\ c.meth = "dynamic" => st.rounds < RoundLimit
  <2>1. 0 \in 0..RoundLimit /\ 0 < RoundLimit
    BY PairConstants
  <2> QED
    BY <1>2, <2>1 DEF Stores
<1> HIDE DEF e, f, st
<1>6. c2s' = r1 /\ r1 \in Seq(UpFrames)
  BY <1>1, <1>2, <1>4, AppendHas
<1> HIDE DEF r1
<1>7. Counted(e, store')
  BY <1>1, <1>3, <1>5 DEF Counted, Turns
<1>8. ASSUME NEW q0 \in Seq(DownFrames), Joined(s, c, q0, c2s)
      PROVE  /\ Steady(s, e, q0, r1)
             /\ Conversing(s, c, q0, c2s) => Conversing(s, e, q0, r1)
             /\ ~Closing(s, c, q0)
  <2>1. Steady(s, c, q0, c2s) /\ Asked(q0) = {} /\ ~c.quiet /\ s.key = c.key
    BY <1>1, <1>8 DEF Joined, Steady, Awaits, Quiet
  <2>2. UpFit(f, s, c) /\ Quiet(e, q0) /\ Awaits(e, Asked(q0))
    BY <1>2, <1>3, <1>4, <2>1, ClientIs DEF UpFit, Quiet, Awaits, Turns
  <2>3. Steady(s, e, q0, Append(c2s, f))
    BY <1>2, <1>3, <1>4, <2>1, <2>2, ClientSays DEF Turns
  <2>4. ASSUME Conversing(s, c, q0, c2s) PROVE Conversing(s, e, q0, Append(c2s, f))
    <3>1. c.idx = s.idx /\ c.meth = s.meth /\ Said(q0) \subseteq Exchange \cup {"unpair"}
      BY <1>1, <2>4, Partner
    <3>2. PICK p, w \in Seq(UpFrames) : c2s = p \o w /\ Earlier(s, p) /\ Current(s, c, w) /\ Talk(s.pc, s.meth, "gate", Asked(q0), w)
      <4>1. \E p, w \in Seq(UpFrames) : c2s = p \o w /\ Earlier(s, p) /\ Current(s, c, w) /\ Talk(s.pc, s.meth, c.pc, Asked(q0), w)
        BY <1>1, <2>4, Partner
      <4> QED
        BY <1>1, <4>1
    <3>3. Append(c2s, f) = p \o Append(w, f) /\ Append(w, f) \in Seq(UpFrames)
      <4>1. Append(p \o w, f) = p \o Append(w, f) /\ Append(w, f) \in Seq(UpFrames)
        BY <1>4, UpConcat
      <4> QED
        BY <3>2, <4>1
    <3>4. Current(s, e, Append(w, f))
      BY <1>3, <1>4, <3>1, <3>2, CurrentAppend DEF Turns
    <3>5. Talk(s.pc, s.meth, "init", Asked(q0), Append(w, f))
      BY <1>4, <3>2, TalkGate
    <3>6. e.pc = "init" /\ e.idx = s.idx /\ e.meth = s.meth
      BY <1>3, <3>1 DEF Turns
    <3> QED
      BY <3>1, <3>2, <3>3, <3>4, <3>5, <3>6, Converses
  <2> QED
    BY <1>1, <2>3, <2>4 DEF Closing, r1
<1>9. c.pc # "none" /\ e.pc # "fin" /\ e.quiet = c.quiet /\ e.play = c.play /\ e.roles = c.roles
  BY <1>1, <1>3 DEF Turns
<1>10. store' \in Stores /\ store'.crec \subseteq store'.ever /\ store'.srec = store.srec /\ store'.ever = store.ever
  BY <1>1, <1>2, <1>5
<1> QED
  BY <1>1, <1>3, <1>6, <1>7, <1>8, <1>9, <1>10, SpeaksOK

\* The finalize, with a fresh record.
LEMMA FinalizingIs ==
    ASSUME NEW d \in ClientStates, store \in Stores, store.made < MaxPsk
    PROVE  LET e == Finalizing(d).cli
               f == [t |-> "finalize", key |-> d.key, psk |-> store.made + 1]
           IN  /\ e \in ClientStates /\ Turns(e, d, "fin") /\ e.fin = store.made + 1 /\ store.made + 1 \in 1..MaxPsk
               /\ Finalizing(d).out = <<f>> /\ f \in UpFrames
<1> DEFINE k == store.made + 1
           e == Finalizing(d).cli
           f == [t |-> "finalize", key |-> d.key, psk |-> store.made + 1]
<1>1. k \in 1..MaxPsk /\ k \in 0..MaxPsk
  BY PairConstants DEF Stores
<1>2. e = [d EXCEPT !.pc = "fin", !.cancellable = FALSE, !.fin = k] /\ Finalizing(d).out = <<f>>
  BY DEF Finalizing
<1>3. f \in UpFrames
  BY <1>1, ClientIs DEF UpFrames
<1> HIDE DEF e, f, k
<1>4. e \in ClientStates /\ Turns(e, d, "fin") /\ e.fin = k
  BY <1>1, <1>2 DEF ClientStates, Turns
<1> QED
  BY <1>1, <1>2, <1>3, <1>4 DEF e, f, k

\* The Pairing PSK flow: client/pair-init, then the finalize.
LEMMA ClientFinalizesOK ==
    ASSUME SessionInv, ClientFinalizes
    PROVE  SessionInv'
<1> DEFINE e == Finalizing(c).cli
           f == [t |-> "finalize", key |-> c.key, psk |-> store.made + 1]
           r1 == Append(c2s, f)
           st == [store EXCEPT !.made = @ + 1]
<1>1. /\ Connected /\ c.pc = "init" /\ c.meth = "psk" /\ c' = e /\ c2s' = c2s \o Finalizing(c).out /\ store' = st
      /\ s' = s /\ s2c' = s2c /\ group' = group /\ fault' = fault /\ store.made < MaxPsk
  BY UpIs DEF ClientFinalizes, Reply
<1>2. /\ s \in ServerStates /\ c \in ClientStates /\ s2c \in Seq(DownFrames) /\ c2s \in Seq(UpFrames)
      /\ store \in Stores /\ store.crec \subseteq store.ever
  BY <1>1, ConnectedIs DEF SessionInv
<1>3. /\ e \in ClientStates /\ Turns(e, c, "fin") /\ e.fin = store.made + 1 /\ store.made + 1 \in 1..MaxPsk
      /\ Finalizing(c).out = <<f>> /\ f \in UpFrames
  BY <1>1, <1>2, FinalizingIs
<1>4. f.t = "finalize" /\ f.key = c.key /\ f.psk = e.fin
  BY <1>3
<1>5. /\ st \in Stores /\ st.crec = store.crec /\ st.ever = store.ever /\ st.srec = store.srec
  <2>1. store.made + 1 \in 0..MaxPsk
    BY <1>3
  <2> QED
    BY <1>2, <2>1 DEF Stores
<1> HIDE DEF e, f, st
<1>6. c2s' = r1 /\ r1 \in Seq(UpFrames)
  BY <1>1, <1>2, <1>3, AppendHas
<1> HIDE DEF r1
<1>7. Counted(e, store')
  BY <1>3 DEF Counted, Turns
<1>8. ASSUME NEW q0 \in Seq(DownFrames), Joined(s, c, q0, c2s)
      PROVE  /\ Steady(s, e, q0, r1)
             /\ Conversing(s, c, q0, c2s) => Conversing(s, e, q0, r1) /\ s.pc # "ack"
             /\ ~Closing(s, c, q0)
  <2>1. Steady(s, c, q0, c2s) /\ Asked(q0) = {} /\ ~c.quiet /\ s.key = c.key
    BY <1>1, <1>8 DEF Joined, Steady, Awaits, Quiet
  <2>2. UpFit(f, s, c) /\ Quiet(e, q0) /\ Awaits(e, Asked(q0))
    BY <1>3, <1>4, <2>1 DEF UpFit, Quiet, Awaits, Turns, First
  <2>3. Steady(s, e, q0, Append(c2s, f))
    BY <1>2, <1>3, <2>1, <2>2, ClientSays DEF Turns
  <2>4. ASSUME Conversing(s, c, q0, c2s) PROVE Conversing(s, e, q0, Append(c2s, f)) /\ s.pc # "ack"
    <3>1. c.idx = s.idx /\ c.meth = s.meth /\ Said(q0) \subseteq Exchange \cup {"unpair"}
      BY <1>1, <2>4, Partner
    <3>2. PICK p, w \in Seq(UpFrames) : c2s = p \o w /\ Earlier(s, p) /\ Current(s, c, w) /\ Talk(s.pc, s.meth, "init", Asked(q0), w)
      <4>1. \E p, w \in Seq(UpFrames) : c2s = p \o w /\ Earlier(s, p) /\ Current(s, c, w) /\ Talk(s.pc, s.meth, c.pc, Asked(q0), w)
        BY <1>1, <2>4, Partner, ZenonT(60)
      <4> QED
        BY <1>1, <4>1
    <3>3. Append(c2s, f) = p \o Append(w, f) /\ Append(w, f) \in Seq(UpFrames)
      <4>1. Append(p \o w, f) = p \o Append(w, f) /\ Append(w, f) \in Seq(UpFrames)
        BY <1>3, UpConcat
      <4> QED
        BY <3>2, <4>1
    <3>4. Talk(s.pc, "psk", "init", Asked(q0), w)
      BY <1>1, <3>1, <3>2
    <3>5. \A i \in 1..Len(w) : w[i].t # "finalize"
      BY <3>4 DEF Talk, One, Mute
    <3>6. Current(s, e, Append(w, f))
      BY <1>3, <1>4, <3>2, <3>5, CurrentAppend DEF First
    <3>7. Talk(s.pc, "psk", "fin", Asked(q0), Append(w, f))
      BY <1>3, <1>4, <3>4, TalkPsk
    <3>8. e.pc = "fin" /\ e.idx = s.idx /\ e.meth = s.meth /\ s.meth = "psk"
      BY <1>1, <1>3, <3>1 DEF Turns
    <3>9. s.pc # "ack"
      BY <3>4 DEF Talk
    <3> QED
      BY <3>1, <3>2, <3>3, <3>6, <3>7, <3>8, <3>9, Converses
  <2> QED
    BY <1>1, <2>3, <2>4 DEF Closing, r1
<1>9. c.pc # "none" /\ e.quiet = c.quiet /\ e.play = c.play /\ e.roles = c.roles
  BY <1>1, <1>3 DEF Turns
<1>10. store' \in Stores /\ store'.crec \subseteq store'.ever /\ store'.srec = store.srec /\ store'.ever = store.ever
  BY <1>1, <1>2, <1>5
<1> QED
  BY <1>1, <1>3, <1>6, <1>7, <1>8, <1>9, <1>10, SpeaksOK

\* What an activation does to the client.
Told(e, d, f) ==
    /\ e.psk = d.psk /\ e.key = d.key /\ ~e.quiet /\ e.play = f.play
    /\ e.roles = (CASE f.roles = "set" -> TRUE [] f.roles = "none" -> FALSE [] f.roles = "keep" -> d.roles)

\* What an activation tells the client.
LEMMA ToldIs ==
    ASSUME NEW d \in ClientStates, NEW f \in DownFrames, f.t = "activate"
    PROVE  LET x == [Abandoned(d) EXCEPT !.quiet = FALSE, !.pairing = f.pairing, !.play = f.play,
                        !.roles = CASE f.roles = "set" -> TRUE [] f.roles = "none" -> FALSE
                                    [] f.roles = "keep" -> d.roles]
               y == [x EXCEPT !.idx = @ + 1, !.cancellable = TRUE, !.meth = f.meth]
           IN  /\ x \in ClientStates /\ Told(x, d, f) /\ x.pc = "none" /\ x.idx = d.idx
               /\ y \in ClientStates /\ Told(y, d, f) /\ y.idx = d.idx + 1 /\ y.meth = f.meth
<1> DEFINE a == Abandoned(d)
           rl == CASE f.roles = "set" -> TRUE [] f.roles = "none" -> FALSE [] f.roles = "keep" -> d.roles
           x == [a EXCEPT !.quiet = FALSE, !.pairing = f.pairing, !.play = f.play, !.roles = rl]
           k == x.idx + 1
           y == [x EXCEPT !.idx = k, !.cancellable = TRUE, !.meth = f.meth]
<1>1. a \in ClientStates /\ Gone(a, d)
  BY AbandonedIs
<1>2. rl \in BOOLEAN /\ f.pairing \in BOOLEAN /\ f.play \in BOOLEAN /\ f.meth \in Methods \cup {"none"}
  BY FrameIs, ClientIs
<1> HIDE DEF a, rl
<1>3. x \in ClientStates /\ x.psk = a.psk /\ x.key = a.key /\ ~x.quiet /\ x.play = f.play /\ x.roles = rl /\ x.pc = a.pc
      /\ x.idx = a.idx
  BY <1>1, <1>2, ZenonT(60) DEF ClientStates
<1> HIDE DEF x
<1>4. k \in Nat
  BY <1>3, ClientIs
<1>5. k = d.idx + 1 /\ Told(x, d, f) /\ x.pc = "none" /\ x.idx = d.idx
  BY <1>1, <1>3 DEF Gone, Told, rl
<1> HIDE DEF k
<1>6. /\ y \in ClientStates /\ y.psk = x.psk /\ y.key = x.key /\ y.quiet = x.quiet /\ y.play = x.play /\ y.roles = x.roles
      /\ y.idx = k /\ y.meth = f.meth
  BY <1>2, <1>3, <1>4 DEF ClientStates
<1> HIDE DEF y
<1>7. Told(y, d, f)
  BY <1>5, <1>6 DEF Told
<1> QED
  BY <1>3, <1>5, <1>6, <1>7 DEF a, rl, x, k, y

\* The attempt begins with one message, which says whether it waits for a gesture.
Begins(e, y, f) ==
    /\ e.psk = y.psk /\ e.key = y.key /\ e.quiet = y.quiet /\ e.idx = y.idx /\ e.meth = y.meth /\ e.play = y.play
    /\ e.roles = y.roles
    /\ f.key = y.key /\ f.idx = y.idx
    /\ \/ e.pc = "gate" /\ f.t = "pending" /\ Gated(y)
       \/ e.pc = "init" /\ f.t = "pinit" /\ (Gated(y) => Admits)

\* The client begins the attempt, or waits for its window.
LEMMA StartedIs ==
    ASSUME NEW y \in ClientStates
    PROVE  \E f \in UpFrames : /\ Started(y).cli \in ClientStates /\ Started(y).out = <<f>>
                               /\ Begins(Started(y).cli, y, f)
<1> DEFINE f == [t |-> "pending", key |-> y.key, idx |-> y.idx]
           e == [y EXCEPT !.pc = "gate"]
           d == [y EXCEPT !.pc = "init"]
<1>1. f \in UpFrames /\ f.t = "pending" /\ f.key = y.key /\ f.idx = y.idx
  BY ClientIs DEF UpFrames
<1>2. Pinit(y) \in UpFrames /\ Pinit(y).t = "pinit" /\ Pinit(y).key = y.key /\ Pinit(y).idx = y.idx
  BY PinitIs
<1>3. e \in ClientStates /\ Turns(e, y, "gate")
  BY DEF ClientStates, Turns
<1>4. d \in ClientStates /\ Turns(d, y, "init")
  BY DEF ClientStates, Turns
<1>5. CASE Gated(y) /\ ~Admits
  <2>1. Started(y).cli = e /\ Started(y).out = <<f>>
    BY <1>5 DEF Started
  <2> HIDE DEF e, f
  <2>2. Begins(e, y, f)
    BY <1>1, <1>3, <1>5 DEF Begins, Turns
  <2> QED
    BY <1>1, <1>3, <2>1, <2>2
<1>6. CASE ~(Gated(y) /\ ~Admits)
  <2>1. Started(y).cli = d /\ Started(y).out = <<Pinit(y)>>
    BY <1>6 DEF Started
  <2> HIDE DEF d
  <2>2. Begins(d, y, Pinit(y))
    BY <1>2, <1>4, <1>6 DEF Begins, Turns
  <2> QED
    BY <1>2, <1>4, <2>1, <2>2
<1> QED
  BY <1>5, <1>6

\* The last admission read: the attempt is under way.
LEMMA AnnouncedTalk ==
    ASSUME NEW x \in ServerStates, NEW d \in ClientStates, NEW e \in ClientStates, NEW q \in Seq(DownFrames), q # <<>>,
           NEW r \in Seq(UpFrames), Steady(x, d, q, r), Steady(x, e, Tail(q), r), Admitting(Head(q)), Announcing(x, q),
           NEW f \in UpFrames, NEW y, Begins(e, y, f), y.idx = d.idx + 1, y.meth = Head(q).meth
    PROVE  Announcing(x, Tail(q)) \/ Conversing(x, e, Tail(q), Append(r, f))
<1>1. PICK i \in 1..Len(q) : /\ Admitting(q[i]) /\ q[i].meth = x.meth
                             /\ \A j \in 1..Len(q) : i < j => q[j].t = "unpair"
  BY DEF Announcing
<1>2. /\ Tail(q) \in Seq(DownFrames) /\ Len(Tail(q)) = Len(q) - 1 /\ Len(q) >= 1 /\ Head(q) = q[1] /\ Len(q) \in Nat
      /\ \A j \in 1..Len(Tail(q)) : j + 1 \in 1..Len(q) /\ Tail(q)[j] = q[j + 1]
  BY TailHas
<1>3. CASE i # 1
  <2>1. i - 1 \in 1..Len(Tail(q)) /\ Tail(q)[i - 1] = q[i]
    BY <1>1, <1>2, <1>3
  <2>2. \A j \in 1..Len(Tail(q)) : i - 1 < j => Tail(q)[j].t = "unpair"
    BY <1>1, <1>2
  <2> QED
    BY <1>1, <2>1, <2>2 DEF Announcing
<1>4. CASE i = 1
  <2>1. \A j \in 1..Len(Tail(q)) : Tail(q)[j].t = "unpair"
    BY <1>1, <1>2, <1>4
  <2>2. Said(Tail(q)) \subseteq {"unpair"} /\ Asked(Tail(q)) = {}
    BY <2>1 DEF Said, Asked, Exchange
  <2>3. Pairings(Tail(q)) = {}
    BY <2>1 DEF Pairings, Admitting
  <2>4. Cardinality(Pairings(Tail(q))) = 0
    BY <2>3, SaidNothing, FS_EmptySet
  <2>5. e.idx = x.idx /\ e.meth = x.meth /\ f.idx = x.idx /\ d.idx < x.idx /\ x.pc = "init" /\ x.idx \in Nat
    <3>1. e.idx \in Nat /\ d.idx \in Nat /\ x.idx \in Nat
      BY ClientIs, ServerIs
    <3>2. x.idx = e.idx
      BY <2>4, <3>1 DEF Steady
    <3> QED
      BY <1>1, <1>2, <1>4, <3>1, <3>2 DEF Begins, Announcing
  <2>6. Earlier(x, r)
    <3>1. \A j \in 1..Len(r) : First(r[j]) => r[j].idx <= d.idx
      BY DEF Steady, UpFit
    <3>2. \A j \in 1..Len(r) : First(r[j]) => r[j].idx \in Nat
      BY UpFrameIs
    <3> QED
      BY <2>5, <3>1, <3>2, ClientIs DEF Earlier
  <2> DEFINE w == <<f>>
  <2>7. w \in Seq(UpFrames) /\ Append(r, f) = r \o w /\ Len(w) = 1 /\ w[1] = f
    BY AppendHas
  <2>8. One(w, f.t)
    BY <2>7 DEF One
  <2>9. e.pc \in {"gate", "init"} /\ (e.pc = "gate" => f.t = "pending") /\ (e.pc = "init" => f.t = "pinit") /\ f.t \in {"pending", "pinit"}
        /\ (e.pc = "gate" => e.meth # "psk")
    BY DEF Begins, Gated
  <2> HIDE DEF w
  <2>10. Current(x, e, w)
    BY <2>5, <2>7, <2>9 DEF Current
  <2>11. Talk(x.pc, x.meth, e.pc, Asked(Tail(q)), w)
    BY <2>2, <2>5, <2>8, <2>9 DEF Talk
  <2>12. Conversing(x, e, Tail(q), Append(r, f))
    BY <2>2, <2>5, <2>6, <2>7, <2>9, <2>10, <2>11, Converses
  <2> QED
    BY <2>12
<1> QED
  BY <1>3, <1>4

\* The client reads an activation, which may admit it to an attempt.
LEMMA ClientActivatesOK ==
    ASSUME SessionInv, ClientActivates
    PROVE  SessionInv'
<1> DEFINE f == Head(s2c)
           x1 == [Abandoned(c) EXCEPT !.quiet = FALSE, !.pairing = f.pairing, !.play = f.play,
                     !.roles = CASE f.roles = "set" -> TRUE [] f.roles = "none" -> FALSE
                                 [] f.roles = "keep" -> c.roles]
           y == [x1 EXCEPT !.idx = @ + 1, !.cancellable = TRUE, !.meth = f.meth]
<1>1. /\ Connected /\ s2c # <<>> /\ f.t = "activate" /\ s2c' = Tail(s2c) /\ s' = s /\ group' = group /\ fault' = fault
      /\ \/ ~f.pairing /\ c' = x1 /\ c2s' = c2s /\ store' = store
         \/ f.pairing /\ (f.meth = "psk") # (c.psk.cat = "pairing")
         \/ /\ f.pairing
            /\ Reply(Started(y).cli, Started(y).out)
            /\ store' = IF Gated(y) /\ Admits /\ y.meth = "dynamic" THEN [store EXCEPT !.rounds = 0] ELSE store
  BY UpIs DEF ClientActivates
<1>2. /\ s \in ServerStates /\ c \in ClientStates /\ s2c \in Seq(DownFrames) /\ c2s \in Seq(UpFrames)
      /\ Session(s, c, s2c, c2s) /\ store \in Stores /\ store.crec \subseteq store.ever
  BY <1>1, ConnectedIs DEF SessionInv
<1>3. PICK q0 \in Seq(DownFrames) : q0 # <<>> /\ Head(q0) = f /\ Joined(s, c, q0, c2s) /\ Open(s, Tail(s2c), Tail(q0))
  BY <1>1, <1>2, ReadOpen
<1>4. f \in DownFrames /\ Tail(q0) \in Seq(DownFrames) /\ f = q0[1] /\ 1 \in 1..Len(q0)
  BY <1>3, TailHas
<1>5. /\ x1 \in ClientStates /\ Told(x1, c, f) /\ x1.pc = "none" /\ x1.idx = c.idx
      /\ y \in ClientStates /\ Told(y, c, f) /\ y.idx = c.idx + 1 /\ y.meth = f.meth
  BY <1>1, <1>2, <1>4, ToldIs
<1> HIDE DEF f, x1, y
<1>6. Act(Head(q0)) /\ f.t \in Said(q0) /\ Said(Tail(q0)) \subseteq Said(q0) /\ (Admitting(f) <=> f.pairing)
  BY <1>1, <1>3, AskedLess DEF Act, Admitting
<1>7. ~Conversing(s, c, q0, c2s) /\ ~Closing(s, c, q0)
  BY <1>1, <1>6 DEF Conversing, Closing, Exchange
<1>8. Steady(s, c, q0, c2s) /\ DownFit(f, s)
  BY <1>3, <1>4 DEF Joined, Steady
<1>9. CASE ~f.pairing
  <2>1. Reads(x1, c2s) /\ store' = store
    BY <1>1, <1>9 DEF Reads
  <2>2. Idle(s, c, q0) => Idle(s, x1, Tail(q0))
    <3>1. s.roles \in BOOLEAN
      BY <1>2, ServerIs
    <3> QED
      BY <1>3, <1>5, <1>6, <3>1, IdleTail DEF Told
  <2>3. Announcing(s, q0) => Announcing(s, Tail(q0))
    <3> SUFFICES ASSUME Announcing(s, q0) PROVE Announcing(s, Tail(q0))
      OBVIOUS
    <3>1. PICK i \in 1..Len(q0) : /\ Admitting(q0[i]) /\ q0[i].meth = s.meth
                                  /\ \A j \in 1..Len(q0) : i < j => q0[j].t = "unpair"
      BY DEF Announcing
    <3>2. /\ Len(Tail(q0)) = Len(q0) - 1 /\ Len(q0) >= 1 /\ Len(q0) \in Nat
          /\ \A j \in 1..Len(Tail(q0)) : j + 1 \in 1..Len(q0) /\ Tail(q0)[j] = q0[j + 1]
      BY <1>3, TailHas
    <3>3. i # 1
      BY <1>4, <1>6, <1>9, <3>1
    <3>4. i - 1 \in 1..Len(Tail(q0)) /\ Tail(q0)[i - 1] = q0[i]
      BY <3>1, <3>2, <3>3
    <3>5. \A j \in 1..Len(Tail(q0)) : i - 1 < j => Tail(q0)[j].t = "unpair"
      BY <3>1, <3>2
    <3> QED
      BY <3>1, <3>4, <3>5 DEF Announcing
  <2>4. Steady(s, x1, Tail(q0), c2s) /\ ~x1.quiet
    <3>1. Awaits(x1, Asked(Tail(q0)))
      BY <1>5 DEF Awaits
    <3>2. x1.idx = c.idx + (IF Admitting(Head(q0)) THEN 1 ELSE 0)
      BY <1>2, <1>3, <1>5, <1>6, <1>9, ClientIs
    <3>3. x1.key = c.key /\ x1.psk = c.psk /\ ~x1.quiet
      BY <1>5 DEF Told
    <3> QED
      BY <1>2, <1>3, <1>5, <1>8, <3>1, <3>2, <3>3, ReadOne
  <2>5. Joined(s, x1, Tail(q0), c2s)
    BY <1>3, <1>6, <1>7, <2>2, <2>3, <2>4, JoinedStep
  <2>6. Counted(x1, store')
    BY <1>5 DEF Counted
  <2> QED
    BY <1>1, <1>2, <1>3, <1>4, <1>5, <2>1, <2>5, <2>6, ReadsOK
<1>10. CASE f.pairing
  <2> DEFINE e == Started(y).cli
             st == IF Gated(y) /\ Admits /\ y.meth = "dynamic" THEN [store EXCEPT !.rounds = 0] ELSE store
  <2>1. (f.meth = "psk") = (c.psk.cat = "pairing")
    <3>1. f.meth = "psk" <=> s.psk = PairingPsk
      BY <1>6, <1>8, <1>10 DEF DownFit
    <3>2. c.psk = s.psk /\ c.psk \in Psks
      BY <1>2, <1>8, ClientIs DEF Steady
    <3> QED
      BY <3>1, <3>2, PskIs
  <2>2. PICK g \in UpFrames : e \in ClientStates /\ Started(y).out = <<g>> /\ Begins(e, y, g)
    BY <1>5, StartedIs
  <2>3. c' = e /\ c2s' = c2s \o <<g>> /\ store' = st
    BY <1>1, <1>10, <2>1, <2>2 DEF Reply
  <2> HIDE DEF e
  <2>4. c2s' = Append(c2s, g) /\ Append(c2s, g) \in Seq(UpFrames)
    BY <1>2, <2>2, <2>3, AppendHas
  <2>5. /\ st \in Stores /\ st.crec = store.crec /\ st.ever = store.ever /\ st.srec = store.srec
        /\ Gated(y) /\ Admits /\ y.meth = "dynamic" => st.rounds < RoundLimit
        /\ ~(Gated(y) /\ Admits /\ y.meth = "dynamic") => st = store
    <3>1. 0 \in 0..RoundLimit /\ 0 < RoundLimit
      BY PairConstants
    <3> QED
      BY <1>2, <3>1 DEF Stores
  <2> HIDE DEF st
  <2>6. Counted(e, st)
    <3> SUFFICES ASSUME e.pc = "init", e.meth = "dynamic" PROVE st.rounds < RoundLimit
      BY DEF Counted
    <3>1. y.meth = "dynamic" /\ (Gated(y) => Admits)
      BY <2>2 DEF Begins
    <3>2. CASE Gated(y)
      BY <2>5, <3>1, <3>2
    <3>3. CASE ~Gated(y)
      <4>1. st = store /\ ~(store.rounds >= RoundLimit)
        BY <2>5, <3>1, <3>3 DEF Gated
      <4> QED
        BY <1>2, <4>1, PairConstants DEF Stores
    <3> QED
      BY <3>2, <3>3
  <2>7. Told(e, c, f) /\ e.idx = c.idx + 1 /\ e.pc \in {"gate", "init"} /\ g.key = c.key /\ g.idx = e.idx
        /\ g.t \in {"pending", "pinit"} /\ ~e.quiet /\ e.key = c.key /\ e.psk = c.psk
    BY <1>5, <2>2 DEF Told, Begins
  <2>8. Asked(Tail(q0)) = {}
    <3>1. Head(q0).t \notin {"unpair", "sinit"} /\ InTurn(q0)
      BY <1>1, <1>3, <1>8 DEF Steady
    <3> QED
      BY <1>3, <3>1, TurnOver
  <2>9. Steady(s, e, Tail(q0), c2s)
    <3>1. Awaits(e, Asked(Tail(q0)))
      BY <2>7, <2>8 DEF Awaits
    <3>2. e.idx = c.idx + (IF Admitting(Head(q0)) THEN 1 ELSE 0)
      BY <1>3, <1>6, <1>10, <2>7
    <3> QED
      BY <1>2, <1>3, <1>8, <2>2, <2>7, <3>1, <3>2, ReadOne
  <2>10. Steady(s, e, Tail(q0), Append(c2s, g))
    <3>1. UpFit(g, s, e) /\ Quiet(e, Tail(q0)) /\ Awaits(e, Asked(Tail(q0)))
      <4>1. g.key = s.key /\ g.t # "hs2" /\ g.idx <= e.idx
        BY <1>8, <2>2, <2>7, ClientIs DEF Steady
      <4> QED
        BY <2>7, <2>9, <4>1 DEF UpFit, Quiet, Steady
    <3> QED
      BY <1>2, <1>4, <2>2, <2>9, <3>1, ClientSays
  <2>11. Idle(s, c, q0) => Idle(s, e, Tail(q0))
    <3>1. s.roles \in BOOLEAN
      BY <1>2, ServerIs
    <3> QED
      BY <1>3, <1>6, <1>10, <2>7, <3>1, IdleTail DEF Told
  <2>12. Announcing(s, q0) => Announcing(s, Tail(q0)) \/ Conversing(s, e, Tail(q0), Append(c2s, g))
    <3>1. y.meth = Head(q0).meth /\ Admitting(Head(q0))
      BY <1>3, <1>5, <1>6, <1>10
    <3> QED
      BY <1>2, <1>3, <1>5, <1>8, <2>2, <2>9, <3>1, AnnouncedTalk
  <2>13. Joined(s, e, Tail(q0), Append(c2s, g))
    BY <1>3, <1>6, <1>7, <2>7, <2>10, <2>11, <2>12, JoinedStep
  <2>14. Reads(e, Append(c2s, g))
    BY <1>1, <2>3, <2>4 DEF Reads
  <2> QED
    BY <1>1, <1>2, <1>3, <1>4, <2>2, <2>3, <2>4, <2>5, <2>6, <2>13, <2>14, ReadsOK
<1>11. f.pairing \in BOOLEAN
  BY <1>1, <1>4, FrameIs
<1> QED
  BY <1>9, <1>10

\* The message the client reads is the one it waits for.
Due(d, q, t) ==
    /\ Asked(q) = Asked(Tail(q)) \cup {t} /\ d.pc # "gate"
    /\ t # "sinit" => Asked(Tail(q)) = {}
    /\ t = "sinit" => d.pc = "init" /\ d.meth = "dynamic" /\ Asked(Tail(q)) \subseteq {"sauth"}
    /\ t = "sauth" => d.pc = "share" \/ (d.pc = "init" /\ d.meth = "static")
    /\ t = "sconfirm" => d.pc = "confirm"
    /\ t = "sfinal" => d.pc = "fin"

\* No message reaches the client that it does not wait for.
LEMMA AwaitedNext ==
    ASSUME NEW x, NEW d \in ClientStates, NEW q \in Seq(DownFrames), q # <<>>, NEW r, Steady(x, d, q, r), d.pc # "none",
           Head(q).t \in Exchange
    PROVE  Due(d, q, Head(q).t)
<1> DEFINE t == Head(q).t
           a == Asked(q)
           b == Asked(Tail(q))
<1>1. a = b \cup {t}
  <2>1. {t} \cap Exchange = {t}
    OBVIOUS
  <2> QED
    BY <2>1, AskedLess
<1>2. (t \notin {"unpair", "sinit"} => b = {}) /\ (t = "sinit" => b \subseteq {"sauth"})
  BY TurnOver DEF Steady
<1>3. Awaits(d, a)
  BY DEF Steady
<1>4. t \in {"sinit", "sauth", "sconfirm", "sfinal"}
  BY DEF Exchange
<1>5. d.pc \in {"gate", "init", "share", "confirm", "fin"}
  BY ClientIs
<1> HIDE DEF a, b, t
<1>6. t \in a /\ (t # "sinit" => b = {})
  BY <1>1, <1>2, <1>4
<1>7. d.pc # "gate"
  BY <1>3, <1>6 DEF Awaits
<1>8. t # "sinit" => a = {t}
  BY <1>1, <1>6
<1>9. t = "sinit" => d.pc = "init" /\ d.meth = "dynamic"
  BY <1>3, <1>5, <1>6 DEF Awaits
<1>10. t = "sauth" => d.pc = "share" \/ (d.pc = "init" /\ d.meth = "static")
  BY <1>3, <1>5, <1>8 DEF Awaits
<1>11. (t = "sconfirm" => d.pc = "confirm") /\ (t = "sfinal" => d.pc = "fin")
  BY <1>3, <1>5, <1>6 DEF Awaits
<1> QED
  BY <1>1, <1>2, <1>6, <1>7, <1>9, <1>10, <1>11 DEF a, b, t, Due

\* While the client has a message to read, it has said nothing the server has not read.
Heard(x, d, q, r) ==
    /\ d.idx = x.idx /\ d.meth = x.meth /\ Said(q) \subseteq Exchange \cup {"unpair"} /\ x.pc # "ack" /\ d.pc # "fin"
    /\ r \in Seq(UpFrames) /\ Earlier(x, r)
    /\ \/ x.pc = "code" /\ x.meth = "dynamic" /\ d.pc = "init" /\ Asked(q) = {"sinit"}
       \/ x.pc = "auth" /\ x.meth = "static" /\ d.pc = "init" /\ Asked(q) = {"sauth"}
       \/ x.pc = "auth" /\ x.meth = "dynamic" /\ d.pc = "init" /\ Asked(q) = {"sinit", "sauth"}
       \/ x.pc = "auth" /\ x.meth = "dynamic" /\ d.pc = "share" /\ Asked(q) = {"sauth"}
       \/ x.pc = "confirm" /\ x.meth # "psk" /\ d.pc = "confirm" /\ Asked(q) = {"sconfirm"}

\* What the two ends have said when the client has a message of the exchange to read.
LEMMA Hearing ==
    ASSUME NEW x, NEW d, d.pc # "none", NEW q, NEW r, Conversing(x, d, q, r), Asked(q) # {}
    PROVE  Heard(x, d, q, r)
<1>1. /\ d.idx = x.idx /\ d.meth = x.meth /\ Said(q) \subseteq Exchange \cup {"unpair"}
  BY Partner
<1>2. PICK p, w \in Seq(UpFrames) : r = p \o w /\ Earlier(x, p) /\ Current(x, d, w) /\ Talk(x.pc, x.meth, d.pc, Asked(q), w)
  BY Partner
<1>3. /\ Mute(w)
      /\ \/ x.pc = "code" /\ x.meth = "dynamic" /\ d.pc = "init" /\ Asked(q) = {"sinit"}
         \/ x.pc = "auth" /\ x.meth = "static" /\ d.pc = "init" /\ Asked(q) = {"sauth"}
         \/ x.pc = "auth" /\ x.meth = "dynamic" /\ d.pc = "init" /\ Asked(q) = {"sinit", "sauth"}
         \/ x.pc = "auth" /\ x.meth = "dynamic" /\ d.pc = "share" /\ Asked(q) = {"sauth"}
         \/ x.pc = "confirm" /\ x.meth # "psk" /\ d.pc = "confirm" /\ Asked(q) = {"sconfirm"}
  BY <1>2, TalkReads
<1>4. r = p
  BY <1>2, <1>3 DEF Mute
<1>5. x.pc # "ack" /\ d.pc # "fin"
  BY <1>3
<1> QED
  BY <1>1, <1>2, <1>3, <1>4, <1>5 DEF Heard

\* A message of the exchange is read, in the attempt.
LEMMA HearsOK ==
    ASSUME SessionInv, Connected, s2c # <<>>, Head(s2c).t \in Exchange, c.pc # "none", ~c.quiet,
           NEW e \in ClientStates, NEW r1 \in Seq(UpFrames), Reads(e, r1), ~e.quiet, e.play = c.play, e.roles = c.roles,
           store' \in Stores, store'.crec \subseteq store'.ever, store'.srec = store.srec, store'.ever = store.ever,
           Counted(e, store'),
           \A q0 \in Seq(DownFrames) : q0 # <<>> /\ Head(q0) = Head(s2c) /\ Joined(s, c, q0, c2s) =>
               /\ Steady(s, e, Tail(q0), r1)
               /\ Conversing(s, c, q0, c2s) => Conversing(s, e, Tail(q0), r1)
               /\ Closing(s, c, q0) => Closing(s, e, Tail(q0))
    PROVE  SessionInv'
<1>1. /\ s \in ServerStates /\ c \in ClientStates /\ s2c \in Seq(DownFrames) /\ c2s \in Seq(UpFrames) /\ Session(s, c, s2c, c2s)
  BY ConnectedIs
<1>2. PICK q0 \in Seq(DownFrames) : q0 # <<>> /\ Head(q0) = Head(s2c) /\ Joined(s, c, q0, c2s) /\ Open(s, Tail(s2c), Tail(q0))
  BY <1>1, ReadOpen DEF Exchange
<1>3. ~Act(Head(q0))
  BY <1>2 DEF Act, Exchange
<1>4. /\ Idle(s, c, q0) => Idle(s, e, Tail(q0))
      /\ Announcing(s, q0) => Announcing(s, Tail(q0))
      /\ Said(Tail(q0)) \subseteq Said(q0) /\ Tail(q0) \in Seq(DownFrames) /\ Head(q0).t \in Said(q0)
  BY <1>1, <1>2, <1>3, NextOf
<1>5. Conversing(s, c, q0, c2s) => s.pc # "ack"
  <2>1. Asked(q0) # {}
    BY <1>2, <1>4 DEF Asked
  <2> QED
    BY <2>1, Hearing DEF Heard
<1>6. Joined(s, e, Tail(q0), r1)
  BY <1>2, <1>4, <1>5, JoinedStep
<1> QED
  BY <1>1, <1>2, <1>4, <1>6, ReadsOK

\* The client reads one message of the exchange, then says one or two.
LEMMA HearsSteady ==
    ASSUME NEW x, NEW d \in ClientStates, NEW e \in ClientStates, NEW q \in Seq(DownFrames), q # <<>>,
           NEW r \in Seq(UpFrames), Steady(x, d, q, r), e.key = d.key, e.psk = d.psk, e.idx = d.idx, Head(q).t \in Exchange,
           ~e.quiet, Awaits(e, Asked(Tail(q)))
    PROVE  /\ Steady(x, e, Tail(q), r)
           /\ \A f \in UpFrames : f.key = d.key /\ f.t # "hs2" /\ ~First(f) => Steady(x, e, Tail(q), Append(r, f))
<1>1. ~Admitting(Head(q))
  BY DEF Admitting, Exchange
<1>2. e.idx = d.idx + (IF Admitting(Head(q)) THEN 1 ELSE 0)
  BY <1>1, ClientIs
<1>3. Steady(x, e, Tail(q), r) /\ Tail(q) \in Seq(DownFrames)
  BY <1>2, ReadOne
<1>4. ASSUME NEW f \in UpFrames, f.key = d.key, f.t # "hs2", ~First(f) PROVE Steady(x, e, Tail(q), Append(r, f))
  <2>1. UpFit(f, x, e)
    BY <1>4 DEF UpFit, Steady
  <2>2. Quiet(e, Tail(q))
    BY DEF Quiet
  <2> QED
    BY <1>3, <2>1, <2>2, ClientSays
<1> QED
  BY <1>3, <1>4

\* The client answers with one word.
LEMMA SayOne ==
    ASSUME NEW x, NEW e, NEW q, NEW r \in Seq(UpFrames), NEW f \in UpFrames, Earlier(x, r), ~First(f),
           f.t # "finalize", e.idx = x.idx, e.meth = x.meth, Said(q) \subseteq Exchange \cup {"unpair"}, e.pc # "none",
           \A w : One(w, f.t) => Talk(x.pc, x.meth, e.pc, Asked(q), w)
    PROVE  Conversing(x, e, q, Append(r, f))
<1> DEFINE w == <<f>>
<1>1. w \in Seq(UpFrames) /\ Append(r, f) = r \o w /\ Len(w) = 1 /\ w[1] = f
  BY AppendHas
<1> HIDE DEF w
<1>2. One(w, f.t) /\ Current(x, e, w)
  BY <1>1 DEF One, Current
<1> QED
  BY <1>1, <1>2, Converses

\* server/pair-init, server/pair-auth, server/pair-final
LEMMA ClientReadsOK ==
    ASSUME SessionInv, ClientReads
    PROVE  SessionInv'
<1> DEFINE f == Head(s2c)
<1>1. /\ Connected /\ s2c # <<>> /\ ~c.quiet /\ c.pc \in Attempting /\ c.pc # "none" /\ f.t \in Exchange
      /\ ~(c.pc = "confirm" /\ f.t = "sconfirm") /\ group' = group
  <2>1. Up /\ s2c # <<>> /\ ~c.quiet /\ c.pc \in Attempting /\ f.t \in ServerFrames \ {"abort"}
    BY DEF ClientReads
  <2>2. ~(c.pc = "confirm" /\ f.t = "sconfirm") /\ group' = group
    BY DEF ClientReads
  <2> QED
    BY <2>1, <2>2, UpIs DEF Attempting, Exchange, ServerFrames
<1>0. f.t \in Awaited =>
        /\ s2c' = Tail(s2c) /\ s' = s /\ fault' = fault
        /\ f.t = "sinit" => /\ c' = [c EXCEPT !.pc = "share"]
                            /\ store' = [store EXCEPT !.rounds = @ + 1]
                            /\ c2s' = c2s
        /\ f.t = "sauth" => /\ Reply([c EXCEPT !.pc = "confirm", !.ok = f.ok],
                                     <<[t |-> "cauth", key |-> c.key]>>)
                            /\ store' = store
        /\ f.t = "sfinal" => /\ c' = Abandoned(c)
                             /\ store' = [store EXCEPT !.crec = Kept]
                             /\ c2s' = c2s
  <2>1. f.t \in Awaited => s2c' = Tail(s2c) /\ s' = s /\ fault' = fault
    BY DEF ClientReads
  <2>2. f.t \in Awaited /\ f.t = "sinit" => /\ c' = [c EXCEPT !.pc = "share"]
                                            /\ store' = [store EXCEPT !.rounds = @ + 1]
                                            /\ c2s' = c2s
    BY DEF ClientReads
  <2>3. f.t \in Awaited /\ f.t = "sauth" => /\ Reply([c EXCEPT !.pc = "confirm", !.ok = f.ok],
                                                      <<[t |-> "cauth", key |-> c.key]>>)
                                            /\ store' = store
    BY DEF ClientReads
  <2>4. f.t \in Awaited /\ f.t = "sfinal" => /\ c' = Abandoned(c)
                                             /\ store' = [store EXCEPT !.crec = Kept]
                                             /\ c2s' = c2s
    BY DEF ClientReads
  <2> QED
    BY <2>1, <2>2, <2>3, <2>4
<1>2. /\ s \in ServerStates /\ c \in ClientStates /\ s2c \in Seq(DownFrames) /\ c2s \in Seq(UpFrames)
      /\ Session(s, c, s2c, c2s) /\ store \in Stores /\ store.crec \subseteq store.ever /\ f \in DownFrames
      /\ AtServer(s, store) /\ Counted(c, store)
  BY <1>1, ConnectedIs, TailHas DEF SessionInv, Connected
<1>3. PICK q1 \in Seq(DownFrames) : q1 # <<>> /\ Head(q1) = f /\ Joined(s, c, q1, c2s) /\ Open(s, Tail(s2c), Tail(q1))
  BY <1>1, <1>2, ReadOpen DEF Exchange
<1>4. Steady(s, c, q1, c2s) /\ Phase(s, c, q1, c2s)
  BY <1>3 DEF Joined
<1>5. /\ c.pc # "gate"
      /\ f.t = "sinit" => c.pc = "init" /\ c.meth = "dynamic"
      /\ f.t = "sauth" => c.pc = "share" \/ (c.pc = "init" /\ c.meth = "static")
      /\ f.t = "sconfirm" => c.pc = "confirm"
      /\ f.t = "sfinal" => c.pc = "fin"
  <2>1. Due(c, q1, Head(q1).t)
    BY <1>1, <1>2, <1>3, <1>4, AwaitedNext
  <2>2. Due(c, q1, f.t)
    BY <1>3, <2>1
  <2> QED
    BY <2>2 DEF Due
<1>6. f.t \in {"sinit", "sauth", "sfinal"}
  BY <1>1, <1>5 DEF Exchange
<1>7. f.t \in Awaited
  BY <1>5, <1>6 DEF Awaited
<1> HIDE DEF f
<1>8. CASE f.t = "sinit"
  <2> DEFINE e == [c EXCEPT !.pc = "share"]
             st == [store EXCEPT !.rounds = @ + 1]
  <2>1. c' = e /\ store' = st /\ c2s' = c2s /\ s2c' = Tail(s2c) /\ s' = s /\ fault' = fault
    BY <1>0, <1>7, <1>8
  <2>2. e \in ClientStates /\ Turns(e, c, "share")
    BY <1>2 DEF ClientStates, Turns
  <2>3. st \in Stores /\ st.crec = store.crec /\ st.ever = store.ever /\ st.srec = store.srec
    <3>1. store.rounds < RoundLimit
      BY <1>2, <1>5, <1>8 DEF Counted
    <3>2. store.rounds + 1 \in 0..RoundLimit
      BY <1>2, <3>1, PairConstants DEF Stores
    <3> QED
      BY <1>2, <3>2 DEF Stores
  <2> HIDE DEF e, st
  <2>4. Counted(e, store') /\ Reads(e, c2s)
    BY <1>1, <2>1, <2>2 DEF Counted, Turns, Reads
  <2>5. ASSUME NEW q \in Seq(DownFrames), q # <<>>, Head(q) = f, Joined(s, c, q, c2s)
        PROVE  /\ Steady(s, e, Tail(q), c2s)
               /\ Conversing(s, c, q, c2s) => Conversing(s, e, Tail(q), c2s)
               /\ ~Closing(s, c, q)
    <3>1. Steady(s, c, q, c2s)
      BY <2>5 DEF Joined
    <3>2. Asked(q) = Asked(Tail(q)) \cup {"sinit"} /\ Asked(Tail(q)) \subseteq {"sauth"}
      <4>1. Head(q).t \in Exchange
        BY <1>1, <2>5
      <4>2. Due(c, q, Head(q).t)
        BY <1>1, <1>2, <2>5, <3>1, <4>1, AwaitedNext
      <4>3. Due(c, q, "sinit")
        BY <1>8, <2>5, <4>2
      <4> QED
        BY <4>3 DEF Due
    <3>3. Awaits(e, Asked(Tail(q))) /\ e.key = c.key /\ e.psk = c.psk /\ e.idx = c.idx /\ ~e.quiet
      BY <1>1, <1>5, <1>8, <2>2, <3>2 DEF Awaits, Turns
    <3>4. Steady(s, e, Tail(q), c2s)
      BY <1>1, <1>2, <2>2, <2>5, <3>1, <3>3, HearsSteady
    <3>5. ASSUME Conversing(s, c, q, c2s) PROVE Conversing(s, e, Tail(q), c2s)
      <4>1. /\ c.idx = s.idx /\ c.meth = s.meth /\ Said(q) \subseteq Exchange \cup {"unpair"} /\ Earlier(s, c2s)
            /\ \/ s.pc = "code" /\ s.meth = "dynamic" /\ c.pc = "init" /\ Asked(q) = {"sinit"}
               \/ s.pc = "auth" /\ s.meth = "dynamic" /\ c.pc = "init" /\ Asked(q) = {"sinit", "sauth"}
        <5>1. Asked(q) # {} /\ "sinit" \in Asked(q) /\ c.pc = "init"
          BY <1>5, <1>8, <3>2
        <5> QED
          BY <1>1, <3>5, <5>1, Hearing, SMTT(30) DEF Heard
      <4> DEFINE w == <<>>
      <4>2. w \in Seq(UpFrames) /\ c2s = c2s \o w /\ Mute(w) /\ Current(s, e, w)
        BY <1>2 DEF Mute, Current
      <4> HIDE DEF w
      <4>3. Said(Tail(q)) \subseteq Exchange \cup {"unpair"}
        BY <2>5, <4>1, AskedLess
      <4>4. Talk(s.pc, s.meth, "share", Asked(Tail(q)), w)
        <5>1. CASE s.pc = "code" /\ s.meth = "dynamic" /\ Asked(q) = {"sinit"}
          <6>1. Asked(Tail(q)) = {}
            BY <3>2, <5>1
          <6> QED
            BY <4>2, <5>1, <6>1 DEF Talk
        <5>2. CASE s.pc = "auth" /\ s.meth = "dynamic" /\ Asked(q) = {"sinit", "sauth"}
          <6>1. Asked(Tail(q)) = {"sauth"}
            BY <3>2, <5>2
          <6> QED
            BY <4>2, <5>2, <6>1 DEF Talk
        <5> QED
          BY <4>1, <5>1, <5>2
      <4>5. e.pc = "share" /\ e.idx = s.idx /\ e.meth = s.meth
        BY <2>2, <4>1 DEF Turns
      <4> QED
        BY <1>2, <4>1, <4>2, <4>3, <4>4, <4>5, Converses
    <3> QED
      BY <1>5, <1>8, <3>4, <3>5 DEF Closing
  <2>6. ~e.quiet /\ e.play = c.play /\ e.roles = c.roles
    BY <1>1, <2>2 DEF Turns
  <2>7. store' \in Stores /\ store'.crec \subseteq store'.ever /\ store'.srec = store.srec /\ store'.ever = store.ever
    BY <1>2, <2>1, <2>3
  <2> QED
    BY <1>1, <1>2, <2>2, <2>4, <2>5, <2>6, <2>7, HearsOK DEF f
<1>9. CASE f.t = "sauth"
  <2> DEFINE e == [c EXCEPT !.pc = "confirm", !.ok = f.ok]
             g == [t |-> "cauth", key |-> c.key]
             r1 == Append(c2s, g)
  <2>1. c' = e /\ store' = store /\ c2s' = c2s \o <<g>> /\ s2c' = Tail(s2c) /\ s' = s /\ fault' = fault
    BY <1>0, <1>7, <1>9 DEF Reply
  <2>2. e \in ClientStates /\ Turns(e, c, "confirm")
    BY <1>2, <1>9, FrameIs DEF ClientStates, Turns
  <2>3. g \in UpFrames /\ g.t = "cauth" /\ g.key = c.key
    BY <1>2, ClientIs DEF UpFrames
  <2> HIDE DEF e, g
  <2>4. c2s' = r1 /\ r1 \in Seq(UpFrames)
    BY <1>2, <2>1, <2>3, AppendHas
  <2>5. Counted(e, store') /\ Reads(e, r1)
    BY <1>1, <2>1, <2>2, <2>4 DEF Counted, Turns, Reads
  <2> HIDE DEF r1
  <2>6. ASSUME NEW q \in Seq(DownFrames), q # <<>>, Head(q) = f, Joined(s, c, q, c2s)
        PROVE  /\ Steady(s, e, Tail(q), r1)
               /\ Conversing(s, c, q, c2s) => Conversing(s, e, Tail(q), r1)
               /\ ~Closing(s, c, q)
    <3>1. Steady(s, c, q, c2s)
      BY <2>6 DEF Joined
    <3>2. Asked(q) = Asked(Tail(q)) \cup {"sauth"} /\ Asked(Tail(q)) = {}
      <4>1. Head(q).t \in Exchange
        BY <1>1, <2>6
      <4>2. Due(c, q, Head(q).t)
        BY <1>1, <1>2, <2>6, <3>1, <4>1, AwaitedNext
      <4>3. Due(c, q, "sauth")
        BY <1>9, <2>6, <4>2
      <4> QED
        BY <4>3 DEF Due
    <3>3. Awaits(e, Asked(Tail(q))) /\ e.key = c.key /\ e.psk = c.psk /\ e.idx = c.idx /\ ~e.quiet
      BY <1>1, <2>2, <3>2 DEF Awaits, Turns
    <3>4. Steady(s, e, Tail(q), Append(c2s, g))
      BY <1>1, <1>2, <2>2, <2>3, <2>6, <3>1, <3>3, HearsSteady DEF First
    <3>5. ASSUME Conversing(s, c, q, c2s) PROVE Conversing(s, e, Tail(q), Append(c2s, g))
      <4>1. /\ c.idx = s.idx /\ c.meth = s.meth /\ Said(q) \subseteq Exchange \cup {"unpair"} /\ Earlier(s, c2s)
            /\ s.pc = "auth" /\ s.meth # "psk"
        <5>1. Asked(q) = {"sauth"}
          BY <3>2
        <5>2. c.pc = "share" \/ (c.pc = "init" /\ c.meth = "static")
          BY <1>5, <1>9
        <5> QED
          BY <1>1, <3>5, <5>1, <5>2, Hearing DEF Heard
      <4>2. Said(Tail(q)) \subseteq Exchange \cup {"unpair"}
        BY <2>6, <4>1, AskedLess
      <4>3. e.pc = "confirm" /\ e.idx = s.idx /\ e.meth = s.meth
        BY <2>2, <4>1 DEF Turns
      <4>4. \A w : One(w, "cauth") => Talk(s.pc, s.meth, e.pc, Asked(Tail(q)), w)
        BY <3>2, <4>1, <4>3 DEF Talk
      <4> QED
        BY <1>2, <2>3, <4>1, <4>2, <4>3, <4>4, SayOne DEF First
    <3> QED
      BY <1>5, <1>9, <3>4, <3>5 DEF Closing, r1
  <2>7. ~e.quiet /\ e.play = c.play /\ e.roles = c.roles
    BY <1>1, <2>2 DEF Turns
  <2> QED
    BY <1>1, <1>2, <2>1, <2>2, <2>4, <2>5, <2>6, <2>7, HearsOK DEF f
<1>10. CASE f.t = "sfinal"
  <2> DEFINE e == Abandoned(c)
             st == [store EXCEPT !.crec = Kept]
  <2>1. c' = e /\ store' = st /\ c2s' = c2s /\ s2c' = Tail(s2c) /\ s' = s /\ fault' = fault
    BY <1>0, <1>7, <1>10
  <2>2. e \in ClientStates /\ Gone(e, c)
    BY <1>2, AbandonedIs
  <2>3. c.fin \in 1..MaxPsk /\ c.fin \in store.ever
    <3>1. "sfinal" \in Said(q1)
      BY <1>3, <1>10, AskedLess
    <3>2. s.pc = "final" /\ Closing(s, c, q1)
      BY <1>4, <3>1 DEF Phase
    <3>3. c.fin = s.target.id /\ s.target.id \in store.ever
      BY <1>2, <1>5, <1>10, <3>2 DEF Closing, AtServer
    <3> QED
      BY <1>2, <3>3 DEF Stores
  <2>4. Kept \subseteq store.ever /\ Kept \subseteq 1..MaxPsk
    BY <1>2, <2>3 DEF Kept, Stores
  <2>5. st \in Stores /\ st.crec \subseteq st.ever /\ st.ever = store.ever /\ st.srec = store.srec
    BY <1>2, <2>4 DEF Stores
  <2> HIDE DEF e, st
  <2>6. Counted(e, store') /\ Reads(e, c2s)
    BY <1>1, <2>1, <2>2 DEF Counted, Gone, Reads
  <2>7. ASSUME NEW q \in Seq(DownFrames), q # <<>>, Head(q) = f, Joined(s, c, q, c2s)
        PROVE  /\ Steady(s, e, Tail(q), c2s)
               /\ ~Conversing(s, c, q, c2s)
               /\ Closing(s, c, q) => Closing(s, e, Tail(q))
    <3>1. Steady(s, c, q, c2s)
      BY <2>7 DEF Joined
    <3>2. Awaits(e, Asked(Tail(q))) /\ e.key = c.key /\ e.psk = c.psk /\ e.idx = c.idx /\ ~e.quiet
      BY <1>1, <2>2 DEF Awaits, Gone
    <3>3. Steady(s, e, Tail(q), c2s)
      BY <1>1, <1>2, <2>2, <2>7, <3>1, <3>2, HearsSteady
    <3>4. ~Conversing(s, c, q, c2s)
      <4>1. Asked(q) # {} /\ c.pc = "fin"
        <5>1. Head(q).t \in Exchange /\ c.pc = "fin"
          BY <1>1, <1>5, <1>10, <2>7
        <5>2. Due(c, q, Head(q).t)
          BY <1>1, <1>2, <2>7, <3>1, <5>1, AwaitedNext
        <5> QED
          BY <5>1, <5>2 DEF Due
      <4> QED
        BY <1>1, <4>1, Hearing DEF Heard
    <3>5. Closing(s, c, q) => Closing(s, e, Tail(q))
      BY <2>2, <2>7, AskedLess DEF Closing, Gone
    <3> QED
      BY <3>3, <3>4, <3>5
  <2>8. ~e.quiet /\ e.play = c.play /\ e.roles = c.roles
    BY <1>1, <2>2 DEF Gone
  <2> QED
    BY <1>1, <1>2, <2>1, <2>2, <2>5, <2>6, <2>7, <2>8, HearsOK DEF f
<1> QED
  BY <1>6, <1>8, <1>9, <1>10

\* What the client has said, with one more word.
LEMMA UpAppend ==
    ASSUME NEW v \in Seq(UpFrames), NEW f \in UpFrames
    PROVE  /\ Append(v, f) \in Seq(UpFrames) /\ Len(Append(v, f)) = Len(v) + 1 /\ v \o <<f>> = Append(v, f)
           /\ \A i \in 1..Len(v) : Append(v, f)[i] = v[i]
           /\ Append(v, f)[Len(v) + 1] = f
OBVIOUS

\* client/pair-confirm and the finalize are written together.
LEMMA TwoWords ==
    ASSUME NEW r \in Seq(UpFrames), NEW g \in UpFrames, NEW f \in UpFrames
    PROVE  LET w == <<g>> \o <<f>>
           IN  /\ w \in Seq(UpFrames) /\ Len(w) = 2 /\ w[1] = g /\ w[2] = f
               /\ r \o w = Append(Append(r, g), f) /\ r \o w \in Seq(UpFrames) /\ Append(r, g) \in Seq(UpFrames)
<1> DEFINE v == <<g>>
           w == v \o <<f>>
<1>1. v \in Seq(UpFrames) /\ Len(v) = 1 /\ v[1] = g
  OBVIOUS
<1>2. r \o v = Append(r, g) /\ Append(r, g) \in Seq(UpFrames)
  BY AppendHas
<1> HIDE DEF v
<1>3. w = Append(v, f) /\ w \in Seq(UpFrames) /\ Len(w) = 2 /\ w[1] = g /\ w[2] = f
  <2>1. v \o <<f>> = Append(v, f) /\ Append(v, f) \in Seq(UpFrames)
    BY <1>1, UpAppend
  <2>2. Len(Append(v, f)) = Len(v) + 1 /\ (\A i \in 1..Len(v) : Append(v, f)[i] = v[i]) /\ Append(v, f)[Len(v) + 1] = f
    BY <1>1, UpAppend
  <2>3. Len(w) = 2 /\ w[1] = g /\ w[2] = f
    BY <1>1, <2>1, <2>2
  <2> QED
    BY <2>1, <2>3
<1> HIDE DEF w
<1>4. Append(r \o v, f) = r \o w
  BY <1>1, <1>3, UpConcat
<1>5. Append(Append(r, g), f) \in Seq(UpFrames)
  BY <1>2, AppendHas
<1> QED
  BY <1>2, <1>3, <1>4, <1>5 DEF v, w

\* server/pair-confirm, verified or not: finalize, one more round, or give up.
LEMMA ClientConfirmsOK ==
    ASSUME SessionInv, ClientConfirms
    PROVE  SessionInv'
<1>1. /\ Connected /\ c.pc = "confirm" /\ s2c # <<>> /\ Head(s2c).t = "sconfirm" /\ s2c' = Tail(s2c) /\ s' = s
      /\ group' = group /\ fault' = fault
  BY UpIs DEF ClientConfirms
<1>2. \/ /\ c.ok /\ store.made < MaxPsk
         /\ Reply(Finalizing(c).cli, <<[t |-> "cconfirm", key |-> c.key]>> \o Finalizing(c).out)
         /\ store' = [store EXCEPT !.made = @ + 1, !.rounds = IF c.meth = "dynamic" THEN 0 ELSE @]
      \/ /\ c.meth = "dynamic" /\ store.rounds < RoundLimit
         /\ Reply([c EXCEPT !.pc = "init"], <<[t |-> "retry", key |-> c.key]>>) /\ store' = store
      \/ Reply(Abandoned(c), <<[t |-> "abort", key |-> c.key]>>) /\ store' = store
  <2>1. ~(RoundLimit < RoundLimit)
    BY PairConstants
  <2> QED
    BY <2>1 DEF ClientConfirms
<1>3. /\ s \in ServerStates /\ c \in ClientStates /\ s2c \in Seq(DownFrames) /\ c2s \in Seq(UpFrames)
      /\ Session(s, c, s2c, c2s) /\ store \in Stores /\ store.crec \subseteq store.ever
  BY <1>1, ConnectedIs DEF SessionInv
<1>4. ~c.quiet
  <2>1. PICK q0 \in Seq(DownFrames) : Joined(s, c, q0, c2s)
    BY <1>1, <1>3, ReadOpen DEF Exchange
  <2> QED
    BY <1>1, <2>1 DEF Joined, Steady, Quiet
<1>5. ASSUME NEW q \in Seq(DownFrames), q # <<>>, Head(q) = Head(s2c), Joined(s, c, q, c2s)
      PROVE  /\ Steady(s, c, q, c2s) /\ Head(q).t \in Exchange /\ Asked(Tail(q)) = {} /\ Said(Tail(q)) \subseteq Said(q)
             /\ ~Closing(s, c, q)
             /\ Conversing(s, c, q, c2s) =>
                  /\ c.idx = s.idx /\ c.meth = s.meth /\ Said(Tail(q)) \subseteq Exchange \cup {"unpair"}
                  /\ Earlier(s, c2s) /\ s.pc = "confirm" /\ s.meth # "psk"
  <2>1. Steady(s, c, q, c2s) /\ Head(q).t \in Exchange
    BY <1>1, <1>5 DEF Joined, Exchange
  <2>2. Due(c, q, Head(q).t)
    BY <1>1, <1>3, <1>5, <2>1, AwaitedNext
  <2>3. Due(c, q, "sconfirm")
    BY <1>1, <1>5, <2>2
  <2>4. Asked(Tail(q)) = {} /\ Asked(q) # {} /\ Said(Tail(q)) \subseteq Said(q)
    BY <1>5, <2>3, AskedLess DEF Due
  <2>5. ~Closing(s, c, q)
    BY <1>1 DEF Closing
  <2>6. ASSUME Conversing(s, c, q, c2s)
        PROVE  /\ c.idx = s.idx /\ c.meth = s.meth /\ Said(q) \subseteq Exchange \cup {"unpair"}
               /\ Earlier(s, c2s) /\ s.pc = "confirm" /\ s.meth # "psk"
    BY <1>1, <2>4, <2>6, Hearing DEF Heard
  <2> QED
    BY <2>1, <2>4, <2>5, <2>6
<1>6. CASE /\ c.ok /\ store.made < MaxPsk
           /\ Reply(Finalizing(c).cli, <<[t |-> "cconfirm", key |-> c.key]>> \o Finalizing(c).out)
           /\ store' = [store EXCEPT !.made = @ + 1, !.rounds = IF c.meth = "dynamic" THEN 0 ELSE @]
  <2> DEFINE e == Finalizing(c).cli
             g == [t |-> "cconfirm", key |-> c.key]
             f == [t |-> "finalize", key |-> c.key, psk |-> store.made + 1]
             st == [store EXCEPT !.made = @ + 1, !.rounds = IF c.meth = "dynamic" THEN 0 ELSE @]
             r1 == Append(Append(c2s, g), f)
  <2>1. c' = e /\ c2s' = c2s \o (<<g>> \o Finalizing(c).out) /\ store' = st
    BY <1>6 DEF Reply
  <2>2. /\ e \in ClientStates /\ Turns(e, c, "fin") /\ e.fin = store.made + 1 /\ store.made + 1 \in 1..MaxPsk
        /\ Finalizing(c).out = <<f>> /\ f \in UpFrames
    BY <1>3, <1>6, FinalizingIs
  <2>3. g \in UpFrames /\ g.t = "cconfirm" /\ g.key = c.key /\ f.t = "finalize" /\ f.key = c.key /\ f.psk = e.fin
    BY <1>3, <2>2, ClientIs DEF UpFrames
  <2>4. st \in Stores /\ st.crec = store.crec /\ st.ever = store.ever /\ st.srec = store.srec
    <3> DEFINE n == IF c.meth = "dynamic" THEN 0 ELSE store.rounds
    <3>1. store.made + 1 \in 0..MaxPsk /\ n \in 0..RoundLimit
      BY <1>3, <2>2, PairConstants DEF Stores
    <3>2. st = [store EXCEPT !.made = @ + 1, !.rounds = n]
      OBVIOUS
    <3> HIDE DEF n, st
    <3> QED
      BY <1>3, <3>1, <3>2 DEF Stores
  <2> HIDE DEF e, g, f, st
  <2>6. c2s' = r1 /\ r1 \in Seq(UpFrames)
    <3>1. c2s' = c2s \o (<<g>> \o <<f>>)
      BY <2>1, <2>2
    <3> QED
      BY <1>3, <2>2, <2>3, <3>1, TwoWords
  <2>7. Reads(e, r1) /\ Counted(e, store')
    BY <1>1, <2>1, <2>2, <2>6 DEF Reads, Counted, Turns
  <2>8. ~e.quiet /\ e.play = c.play /\ e.roles = c.roles /\ e.key = c.key /\ e.psk = c.psk /\ e.idx = c.idx /\ e.pc = "fin"
        /\ e.meth = c.meth
    BY <1>4, <2>2 DEF Turns
  <2>9. ASSUME NEW q \in Seq(DownFrames), q # <<>>, Head(q) = Head(s2c), Joined(s, c, q, c2s)
        PROVE  /\ Steady(s, e, Tail(q), r1)
               /\ Conversing(s, c, q, c2s) => Conversing(s, e, Tail(q), r1)
               /\ ~Closing(s, c, q)
    <3>1. /\ Steady(s, c, q, c2s) /\ Head(q).t \in Exchange /\ Asked(Tail(q)) = {} /\ ~Closing(s, c, q)
          /\ Tail(q) \in Seq(DownFrames)
      BY <1>5, <2>9, TailHas
    <3>2. Awaits(e, Asked(Tail(q)))
      BY <2>2, <2>8, <3>1 DEF Awaits
    <3>3. Steady(s, e, Tail(q), Append(c2s, g))
      BY <1>3, <2>2, <2>3, <2>8, <2>9, <3>1, <3>2, HearsSteady DEF First
    <3>4. UpFit(f, s, e) /\ Quiet(e, Tail(q))
      BY <2>3, <2>8, <3>3 DEF UpFit, First, Steady
    <3>5. Append(c2s, g) \in Seq(UpFrames)
      BY <1>3, <2>3, AppendHas
    <3>6. Steady(s, e, Tail(q), r1)
      BY <2>2, <3>1, <3>2, <3>3, <3>4, <3>5, ClientSays
    <3>7. ASSUME Conversing(s, c, q, c2s) PROVE Conversing(s, e, Tail(q), r1)
      <4> DEFINE w == <<g>> \o <<f>>
      <4>1. w \in Seq(UpFrames) /\ c2s \o w = r1 /\ Len(w) = 2 /\ w[1] = g /\ w[2] = f
        BY <1>3, <2>2, <2>3, TwoWords
      <4>2. /\ c.idx = s.idx /\ c.meth = s.meth /\ Said(Tail(q)) \subseteq Exchange \cup {"unpair"}
            /\ Earlier(s, c2s) /\ s.pc = "confirm" /\ s.meth # "psk"
        BY <1>5, <2>9, <3>7
      <4> HIDE DEF w, r1
      <4>3. Two(w, "cconfirm", "finalize") /\ Current(s, e, w)
        BY <2>3, <4>1 DEF Two, Current, First
      <4>4. Talk(s.pc, s.meth, e.pc, Asked(Tail(q)), w)
        BY <2>8, <3>1, <4>2, <4>3 DEF Talk
      <4> QED
        BY <1>3, <2>8, <4>1, <4>2, <4>3, <4>4, Converses
    <3> QED
      BY <3>1, <3>6, <3>7
  <2> HIDE DEF r1
  <2>10. store' \in Stores /\ store'.crec \subseteq store'.ever /\ store'.srec = store.srec /\ store'.ever = store.ever
    BY <1>3, <2>1, <2>4
  <2> QED
    BY <1>1, <1>4, <2>1, <2>2, <2>6, <2>7, <2>8, <2>9, <2>10, HearsOK DEF Exchange
<1>7. CASE /\ c.meth = "dynamic" /\ store.rounds < RoundLimit
           /\ Reply([c EXCEPT !.pc = "init"], <<[t |-> "retry", key |-> c.key]>>) /\ store' = store
  <2> DEFINE e == [c EXCEPT !.pc = "init"]
             g == [t |-> "retry", key |-> c.key]
             r1 == Append(c2s, g)
  <2>1. c' = e /\ c2s' = c2s \o <<g>> /\ store' = store
    BY <1>7 DEF Reply
  <2>2. e \in ClientStates /\ Turns(e, c, "init")
    BY <1>3 DEF ClientStates, Turns
  <2>3. g \in UpFrames /\ g.t = "retry" /\ g.key = c.key
    BY <1>3, ClientIs DEF UpFrames
  <2> HIDE DEF e, g
  <2>4. c2s' = r1 /\ r1 \in Seq(UpFrames)
    BY <1>3, <2>1, <2>3, AppendHas
  <2>5. Counted(e, store') /\ Reads(e, r1)
    BY <1>1, <1>7, <2>1, <2>2, <2>4 DEF Counted, Turns, Reads
  <2>6. ~e.quiet /\ e.play = c.play /\ e.roles = c.roles /\ e.key = c.key /\ e.psk = c.psk /\ e.idx = c.idx /\ e.pc = "init"
        /\ e.meth = c.meth
    BY <1>4, <2>2 DEF Turns
  <2>7. ASSUME NEW q \in Seq(DownFrames), q # <<>>, Head(q) = Head(s2c), Joined(s, c, q, c2s)
        PROVE  /\ Steady(s, e, Tail(q), Append(c2s, g))
               /\ Conversing(s, c, q, c2s) => Conversing(s, e, Tail(q), Append(c2s, g))
               /\ ~Closing(s, c, q)
    <3>1. /\ Steady(s, c, q, c2s) /\ Head(q).t \in Exchange /\ Asked(Tail(q)) = {} /\ ~Closing(s, c, q)
      BY <1>5, <2>7
    <3>2. Awaits(e, Asked(Tail(q)))
      BY <2>6, <3>1 DEF Awaits
    <3>3. Steady(s, e, Tail(q), Append(c2s, g))
      BY <1>3, <2>2, <2>3, <2>6, <2>7, <3>1, <3>2, HearsSteady DEF First
    <3>4. ASSUME Conversing(s, c, q, c2s) PROVE Conversing(s, e, Tail(q), Append(c2s, g))
      <4>1. /\ c.idx = s.idx /\ c.meth = s.meth /\ Said(Tail(q)) \subseteq Exchange \cup {"unpair"}
            /\ Earlier(s, c2s) /\ s.pc = "confirm" /\ s.meth # "psk"
        BY <1>5, <2>7, <3>4
      <4>2. \A w : One(w, g.t) => Talk(s.pc, s.meth, e.pc, Asked(Tail(q)), w)
        BY <1>7, <2>3, <2>6, <3>1, <4>1 DEF Talk
      <4>3. e.pc # "none" /\ ~First(g) /\ g.t # "finalize" /\ e.idx = s.idx /\ e.meth = s.meth
        BY <2>3, <2>6, <4>1 DEF First
      <4> QED
        BY <1>3, <2>3, <4>1, <4>2, <4>3, SayOne
    <3> QED
      BY <3>1, <3>3, <3>4
  <2>8. store' \in Stores /\ store'.crec \subseteq store'.ever /\ store'.srec = store.srec /\ store'.ever = store.ever
    BY <1>3, <2>1
  <2> QED
    BY <1>1, <1>4, <2>1, <2>2, <2>4, <2>5, <2>6, <2>7, <2>8, HearsOK DEF Exchange
<1>8. CASE Reply(Abandoned(c), <<[t |-> "abort", key |-> c.key]>>) /\ store' = store
  <2> DEFINE e == Abandoned(c)
             g == Aborting(c.key)
             r1 == Append(c2s, g)
  <2>1. c' = e /\ c2s' = c2s \o <<g>> /\ store' = store
    BY <1>8 DEF Reply, Aborting
  <2>2. e \in ClientStates /\ Gone(e, c)
    BY <1>3, AbandonedIs
  <2>3. g \in UpFrames /\ g.t = "abort" /\ g.key = c.key
    BY <1>3, FramesAre, ClientIs
  <2> HIDE DEF e, g
  <2>4. c2s' = r1 /\ r1 \in Seq(UpFrames)
    BY <1>3, <2>1, <2>3, AppendHas
  <2>5. Counted(e, store') /\ Reads(e, r1)
    BY <1>1, <2>1, <2>2, <2>4 DEF Counted, Gone, Reads
  <2>6. ~e.quiet /\ e.play = c.play /\ e.roles = c.roles /\ e.key = c.key /\ e.psk = c.psk /\ e.idx = c.idx /\ e.pc = "none"
    BY <1>4, <2>2 DEF Gone
  <2>7. ASSUME NEW q \in Seq(DownFrames), q # <<>>, Head(q) = Head(s2c), Joined(s, c, q, c2s)
        PROVE  /\ Steady(s, e, Tail(q), Append(c2s, g))
               /\ Conversing(s, c, q, c2s) => Conversing(s, e, Tail(q), Append(c2s, g))
               /\ ~Closing(s, c, q)
    <3>1. /\ Steady(s, c, q, c2s) /\ Head(q).t \in Exchange /\ Asked(Tail(q)) = {} /\ ~Closing(s, c, q)
          /\ Said(Tail(q)) \subseteq Said(q)
      BY <1>5, <2>7
    <3>2. Awaits(e, Asked(Tail(q)))
      BY <2>6, <3>1 DEF Awaits
    <3>3. Steady(s, e, Tail(q), Append(c2s, g))
      BY <1>3, <2>2, <2>3, <2>6, <2>7, <3>1, <3>2, HearsSteady DEF First
    <3>4. Conversing(s, c, q, c2s) => Conversing(s, e, Tail(q), Append(c2s, g))
      BY <1>1, <2>2, <2>3, <3>1, GivesUp
    <3> QED
      BY <3>1, <3>3, <3>4
  <2>8. store' \in Stores /\ store'.crec \subseteq store'.ever /\ store'.srec = store.srec /\ store'.ever = store.ever
    BY <1>3, <2>1
  <2> QED
    BY <1>1, <1>4, <2>1, <2>2, <2>4, <2>5, <2>6, <2>7, <2>8, HearsOK DEF Exchange
<1> QED
  BY <1>2, <1>6, <1>7, <1>8

-----------------------------------------------------------------------------
(* The session's theorems.                                                   *)

\* The connection is down at first.
LEMMA SessionStart == Init => SessionInv
<1> SUFFICES ASSUME Init PROVE SessionInv
  OBVIOUS
<1>1. Disconnected /\ group \in BOOLEAN /\ fault \in {"none", "client: credential", "early"}
  BY DEF Init, Disconnected
<1>2. store = [srec |-> 0, crec |-> {}, ever |-> {}, made |-> 0, keys |-> 0, rounds |-> 0, trusted |-> FALSE]
  BY DEF Init
<1>3. 0 \in 0..MaxPsk /\ 0 \in 0..RoundLimit
  BY PairConstants
<1>4. store \in Stores /\ store.crec \subseteq store.ever
  BY <1>2, <1>3 DEF Stores
<1> QED
  BY <1>1, <1>4 DEF SessionInv

\* What only the pairing window sees.
LEMMA SessionUntouched ==
    ASSUME SessionInv, s' = s, c' = c, s2c' = s2c, c2s' = c2s, store' = store, group' = group, fault' = fault
    PROVE  SessionInv'
<1>1. Disconnected => Disconnected'
  BY DEF Disconnected
<1>2. Connected => Connected'
  BY DEF Connected
<1> QED
  BY <1>1, <1>2 DEF SessionInv

\* Every step of either end keeps the session's invariant.
LEMMA SessionStep ==
    ASSUME SessionInv, Next
    PROVE  SessionInv'
<1>1. CASE \/ \E m \in Methods \cup {"none"} : Connect(m)
           \/ Drop \/ (\E m \in Methods : Initiate(m)) \/ InitiateEarly \/ EndsEarly
           \/ EndPairing \/ TogglePlay
           \/ (\E b \in BOOLEAN : Trust(b)) \/ Unpair
  BY <1>1, ConnectOK, DropOK, InitiateOK, InitiateEarlyOK, EndsEarlyOK, EndPairingOK, TogglePlayOK, TrustOK, UnpairOK
<1>2. CASE \/ ServerReadsHandshake \/ ServerReadsIdle \/ ServerReadsAbort \/ ServerReadsFirst \/ ServerReads
           \/ (\E ok \in BOOLEAN : EnterCode(ok)) \/ ServerTimeout \/ Acknowledge
  BY <1>2, ServerReadsHandshakeOK, ServerReadsIdleOK, ServerReadsAbortOK, ServerReadsFirstOK, ServerReadsOK, EnterCodeOK,
     ServerTimeoutOK, AcknowledgeOK
<1>3. CASE ClientRejects \/ ClientRekeys \/ ClientActivates \/ PassGate \/ ClientDiscards \/ ClientReadsAbort
  BY <1>3, ClientRejectsOK, ClientRekeysOK, ClientActivatesOK, PassGateOK, ClientDiscardsOK, ClientReadsAbortOK
<1>4. CASE OpenWindow \/ WindowExpires
  BY <1>4, SessionUntouched DEF OpenWindow, WindowExpires
<1>5. CASE ClientConfirms \/ ClientReads \/ ClientFinalizes \/ ClientCancels \/ ClientTimeout \/ ClientUnpairs
  BY <1>5, ClientConfirmsOK, ClientReadsOK, ClientFinalizesOK, ClientCancelsOK, ClientTimeoutOK, ClientUnpairsOK
<1> QED
  BY <1>1, <1>2, <1>3, <1>4, <1>5 DEF Next

\* The invariant of the session holds, whatever call begins while the session returns to its record.
THEOREM SessionHolds == MCSpec => []SessionInv
<1>1. MCInit => SessionInv
  BY SessionStart DEF MCInit
<1>2. SessionInv /\ [MCNext]_<<which, vars, admission>> => SessionInv'
  <2> SUFFICES ASSUME SessionInv, [MCNext]_<<which, vars, admission>> PROVE SessionInv'
    OBVIOUS
  <2>1. CASE Next
    BY <2>1, SessionStep
  <2>2. CASE UNCHANGED vars
    BY <2>2, SessionUntouched DEF vars
  <2>3. Next \/ UNCHANGED vars
    BY DEF MCNext
  <2> QED
    BY <2>1, <2>2, <2>3
<1> QED
  BY <1>1, <1>2, PTL DEF MCSpec

\* Nothing is left of an empty queue.
LEMMA SaidNothingMore ==
    ASSUME NEW p \in Seq(UpFrames), NEW w \in Seq(UpFrames), p \o w = <<>>
    PROVE  w = <<>> /\ Len(w) = 0
<1>1. Len(p \o w) = Len(p) + Len(w) /\ Len(p) \in Nat /\ Len(w) \in Nat
  OBVIOUS
<1>2. Len(w) = 0
  BY <1>1
<1> QED
  BY <1>2, EmptyIs

\* The next frame of a queue is under the reader's key.
NextUnder(q, k) == q # <<>> => Head(q).key = k

\* Both ends read under the key the frame was written with.
LEMMA ReadOnKey ==
    ASSUME NEW x, NEW d, NEW q \in Seq(DownFrames), NEW r \in Seq(UpFrames), Session(x, d, q, r)
    PROVE  NextUnder(q, d.key) /\ NextUnder(r, x.key)
<1>1. (q # <<>> => Head(q) = q[1] /\ 1 \in 1..Len(q)) /\ (r # <<>> => Head(r) = r[1] /\ 1 \in 1..Len(r))
  BY TailHas
<1>2. ASSUME NEW q0 \in Seq(DownFrames), Open(x, q, q0), Joined(x, d, q0, r)
      PROVE  /\ q # <<>> => Head(q).key = d.key
             /\ r # <<>> => Head(r).key = x.key
  <2>1. /\ x.key = d.key /\ \A i \in 1..Len(q0) : q0[i].key = x.key
        /\ \A i \in 1..Len(r) : r[i].key = x.key
    BY <1>2 DEF Joined, Steady, DownFit, UpFit
  <2>2. CASE q = q0
    BY <1>1, <2>1, <2>2
  <2>3. CASE \E h \in DownFrames : q = Append(q0, h) /\ h.key = x.key
    <3>1. PICK h \in DownFrames : q = Append(q0, h) /\ h.key = x.key
      BY <2>3
    <3>2. Len(q) = Len(q0) + 1 /\ q # <<>> /\ (\A i \in 1..Len(q0) : q[i] = q0[i]) /\ q[Len(q0) + 1] = h
      BY <3>1, AppendHas
    <3>3. CASE 1 \in 1..Len(q0)
      BY <1>1, <2>1, <3>2, <3>3
    <3>4. CASE Len(q0) = 0
      BY <1>1, <2>1, <3>1, <3>2, <3>4
    <3> QED
      BY <1>1, <2>1, <3>3, <3>4
  <2> QED
    BY <1>2, <2>2, <2>3 DEF Open
<1>3. CASE Accepted(x, d, q, r)
  <2>1. q = <<>>
    BY <1>3 DEF Accepted
  <2>2. PICK r0 \in Seq(UpFrames), h \in UpFrames :
          r = Append(r0, h) /\ h.key = x.key /\ \A i \in 1..Len(r0) : r0[i].key = x.key
    BY <1>3 DEF Accepted
  <2>3. Len(r) = Len(r0) + 1 /\ r # <<>> /\ (\A i \in 1..Len(r0) : r[i] = r0[i]) /\ r[Len(r0) + 1] = h
    BY <2>2, AppendHas
  <2>4. r[1].key = x.key
    <3>1. CASE 1 \in 1..Len(r0)
      BY <2>2, <2>3, <3>1
    <3>2. CASE Len(r0) = 0
      <4>1. r[1] = h
        BY <2>3, <3>2
      <4> QED
        BY <2>2, <4>1
    <3>3. Len(r0) \in Nat
      OBVIOUS
    <3> QED
      BY <3>1, <3>2, <3>3
  <2> QED
    BY <1>1, <2>1, <2>3, <2>4 DEF NextUnder
<1> QED
  BY <1>2, <1>3 DEF Session, NextUnder

\* Neither end reads a frame written under another key, or ends the connection on a message of the
\* other, and no more rounds are counted than the limit (_exchange, swap_session, _run_client_pake).
THEOREM FramesAreRead == MCSpec => []SessionReads
<1>1. SessionInv => SessionReads
  <2> SUFFICES ASSUME SessionInv PROVE SessionReads
    OBVIOUS
  <2>1. store \in Stores /\ NoFault
    BY DEF SessionInv, NoFault
  <2>2. CASE Disconnected
    BY <2>1, <2>2 DEF SessionReads, Disconnected, ServerDown, ClientDown, TypeOK, ReadUnderKey, Stores
  <2>3. CASE Connected
    <3>1. /\ s \in ServerStates /\ c \in ClientStates /\ s2c \in Seq(DownFrames) /\ c2s \in Seq(UpFrames)
          /\ Session(s, c, s2c, c2s)
      BY <2>3, ConnectedIs
    <3>2. ReadUnderKey
      <4>1. NextUnder(s2c, c.key) /\ NextUnder(c2s, s.key)
        BY <3>1, ReadOnKey
      <4> QED
        BY <4>1 DEF NextUnder, ReadUnderKey
    <3>3. s.pc # "down" /\ c.pc # "down" /\ s.pc \in Exchanging \cup InHandshake \cup {"down", "idle", "ack"}
          /\ c.pc \in Attempting \cup {"down", "none"}
      BY <3>1, PcsDiffer DEF ServerStates, ClientStates, Attempting
    <3>4. store.srec \in 0..MaxPsk /\ store.crec \subseteq 1..MaxPsk /\ store.rounds \in 0..RoundLimit
      BY <2>1 DEF Stores
    <3> QED
      BY <2>1, <3>2, <3>3, <3>4 DEF SessionReads, TypeOK
  <2> QED
    BY <2>2, <2>3 DEF SessionInv
<1> QED
  BY <1>1, SessionHolds, PTL

\* With nothing on the way the two ends are out of the attempt or at one point of it, where one of them
\* will not wait for the other.
LEMMA InStepHolds ==
    ASSUME SessionInv, Connected, s2c = <<>>, c2s = <<>>
    PROVE  \/ s.pc = "idle" /\ c.pc = "none" /\ (~c.quiet => s.key = c.key /\ s.psk = c.psk
                             /\ (~s.behind => s.play = c.play /\ s.roles = c.roles))
           \/ s.pc = "gesture" /\ c.pc = "gate"
           \/ s.pc = "code" /\ c.pc = IF s.meth = "dynamic" THEN "share" ELSE "init"
           \/ s.pc = "finalize" /\ c.pc = "init" /\ s.meth = "psk"
           \/ s.pc = "ack"
<1>1. s \in ServerStates /\ c \in ClientStates /\ Session(s, c, <<>>, <<>>) /\ AtServer(s, store)
  BY ConnectedIs
<1>2. s.pc \notin InHandshake
  <2>1. ASSUME NEW q0 \in Seq(DownFrames), NEW h \in DownFrames PROVE Append(q0, h) # <<>>
    BY AppendHas
  <2>2. ASSUME NEW r0 \in Seq(UpFrames), NEW h \in UpFrames PROVE Append(r0, h) # <<>>
    BY AppendHas
  <2>3. s.pc \in InHandshake => ~Accepted(s, c, <<>>, <<>>)
    BY <2>2 DEF Accepted
  <2>4. s.pc \in InHandshake => \A q0 \in Seq(DownFrames) : ~Open(s, <<>>, q0)
    BY <2>1 DEF Open
  <2> QED
    BY <1>1, <2>3, <2>4 DEF Session
<1>3. Joined(s, c, <<>>, <<>>)
  BY <1>1, <1>2, SessionIs
<1>4. s.pc \in Exchanging \cup {"idle", "ack"}
  BY <1>1, <1>2 DEF ServerStates
<1>5. Said(<<>>) = {} /\ Asked(<<>>) = {} /\ \A i \in 1..Len(<<>>) : FALSE
  BY SaidNothing DEF Asked
<1>6. CASE s.pc = "idle"
  <2>1. Steady(s, c, <<>>, <<>>) /\ Idle(s, c, <<>>)
    BY <1>3, <1>6 DEF Joined, Phase
  <2>2. c.pc = "none" /\ (~s.behind => c.play = s.play /\ c.roles = s.roles)
    BY <1>5, <2>1 DEF Idle, Rests, Roles
  <2>3. s.key = c.key /\ s.psk = c.psk
    BY <2>1 DEF Steady
  <2> QED
    BY <1>6, <2>2, <2>3
<1>7. CASE s.pc \in Exchanging
  <2>1. Conversing(s, c, <<>>, <<>>)
    BY <1>3, <1>5, <1>7 DEF Joined, Phase, Announcing
  <2>2. PICK p, w \in Seq(UpFrames) : <<>> = p \o w /\ Talks(s, c, Asked(<<>>), w)
    BY <2>1 DEF Conversing
  <2>3. w = <<>> /\ Len(w) = 0
    BY <2>2, SaidNothingMore
  <2>4. s.pc # "ack"
    BY <1>7, PcsDiffer
  <2>5. PICK cp, g : \E v \in Seq(UpFrames) : Stance(c, Asked(<<>>), w, cp, g, v) /\ Talk(s.pc, s.meth, cp, g, v)
    BY <2>2, <2>4 DEF Talks
  <2>6. PICK v \in Seq(UpFrames) : Stance(c, Asked(<<>>), w, cp, g, v) /\ Talk(s.pc, s.meth, cp, g, v)
    BY <2>5
  <2>7. c.pc # "none"
    <3>1. ASSUME NEW a \in UpFrames PROVE w # Append(v, a)
      BY <2>3, AppendHas
    <3> QED
      BY <2>6, <3>1 DEF Stance
  <2>8. Talk(s.pc, s.meth, c.pc, {}, w)
    BY <1>5, <2>6, <2>7 DEF Stance
  <2>9. ~One(w, "pending") /\ ~One(w, "pinit") /\ ~One(w, "finalize") /\ ~One(w, "cauth") /\ ~One(w, "retry")
        /\ (\A t, u : ~Two(w, t, u))
    BY <2>3 DEF One, Two
  <2> QED
    BY <1>7, <2>8, <2>9, PcsDiffer DEF Talk
<1> QED
  BY <1>4, <1>6, <1>7

\* With the frames read both ends agree on the credential, the activities and the roles, on the attempt
\* and on the record the session is keyed with, and the client has no record the server did not store
\* first (_activate, _leave_pairing, _return_to_record, _commit_finalize).
THEOREM EndsAgreeHolds == MCSpec => []BothEndsAgree
<1>1. SessionInv => BothEndsAgree
  <2> SUFFICES ASSUME SessionInv PROVE BothEndsAgree
    OBVIOUS
  <2>1. ServerStoresFirst
    BY DEF SessionInv, ServerStoresFirst
  <2>2. CASE Disconnected
    <3>1. s.pc = "down"
      BY <2>2 DEF Disconnected, ServerDown
    <3> QED
      BY <2>1, <3>1 DEF BothEndsAgree, EndsAgree, BackOnRecord, InStep, AtRest, Up
  <2>3. CASE Connected
    <3>1. EndsAgree /\ InStep
      BY <2>3, InStepHolds DEF EndsAgree, InStep, AtRest
    <3>2. BackOnRecord
      <4>1. s.pc = "idle" /\ s.moved => store.srec = 0
        BY <2>3, ConnectedIs, PcsDiffer DEF AtServer
      <4> QED
        BY <4>1 DEF BackOnRecord, AtRest
    <3> QED
      BY <2>1, <3>1, <3>2 DEF BothEndsAgree
  <2> QED
    BY <2>2, <2>3 DEF SessionInv
<1> QED
  BY <1>1, SessionHolds, PTL

=============================================================================
