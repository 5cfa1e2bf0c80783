------------------------------- MODULE Admission -------------------------------
(***************************************************************************)
(* Which of several servers an SDK client serves (client/client.py), and    *)
(* which pairing records it keeps (noise/trust_store.py).                   *)
(*                                                                          *)
(* Connections come up side by side. Each that reaches its first            *)
(* server/activate takes the admission lock, is weighed against the         *)
(* connection in place and displaces it or is turned away. The store writes *)
(* its file in a thread, so every write lets other tasks run: what was read *)
(* before it may be out of date after it. Writing the last-playback server  *)
(* (pc "save"), the goodbye to a displaced connection ("oust"), the wait    *)
(* for it to close ("wait") and the record of a completed pairing           *)
(* (attempt "save") are such points.                                        *)
(*                                                                          *)
(* A server's activation carries roles exactly when it carries playback. A  *)
(* connection without a record (psk 0) is on the Sentinel or a Pairing PSK. *)
(***************************************************************************)
EXTENDS Integers, Sequences, FiniteSets, SequencesExt

CONSTANTS Conns,      \* connections
          None,       \* no connection
          Config,     \* set_unpaired_access, as a holder of the lock
          Servers,
          Modes,      \* how each server's connections come about: "dial", "incoming"
          LastPlayed, \* the last-playback server the store starts with
          InStore,     \* servers whose records the store starts with, least recently used first
          Capacity,   \* record_capacity
          MaxNew,     \* bound: records ever made
          MaxMsgs     \* bound: messages of servers and calls of the application

VARIABLES conn,
          adm,    \* _admitted_connection, or None
          open,   \* _open_connections
          prov,   \* _provisional_connections
          lock,   \* _admission_lock: its holder, Config or None
          shut,   \* the connection set_unpaired_access closes, or None
          last,   \* last_playback_server_id
          unp,    \* unpaired_access_enabled
          recs,   \* records, least recently used first
          sweeps, \* remove_superseded_records tasks, by the records they protect
          made, msgs,
          gone,   \* ghost: records a server/unpair removed
          failed, \* ghost: records whose handshake failed
          cut     \* ghost: pairings interrupted before the store was trimmed, and protected records beyond its room

vars == <<conn, adm, open, prov, lock, shut, last, unp, recs, sweeps, made, msgs, gone, failed, cut>>
table == <<recs, sweeps, made, gone, failed, cut>>

Activations == {"none", "pairing", "playback"}

NoConn == [pc |-> "free", mode |-> "none", srv |-> "none", live |-> FALSE, closing |-> FALSE,
           psk |-> 0, res |-> 0, act |-> "none", attempt |-> "no", prot |-> {}, note |-> FALSE,
           prev |-> None, late |-> FALSE, young |-> FALSE]

Init ==
    /\ conn = [k \in Conns |-> NoConn]
    /\ adm = None /\ open = {} /\ prov = {} /\ lock = None /\ shut = None
    /\ last = LastPlayed /\ unp \in BOOLEAN
    /\ recs = [i \in DOMAIN InStore |-> [id |-> i, srv |-> InStore[i]]]
    /\ sweeps = {} /\ made = Len(InStore) /\ msgs = 0 /\ gone = {} /\ failed = {} /\ cut = 0

Msg == msgs < MaxMsgs /\ msgs' = msgs + 1

-----------------------------------------------------------------------------
(* The store.                                                                *)

Ids(rs) == {rs[i].id : i \in DOMAIN rs}
OfServer(rs, sv) == {rs[i].id : i \in {j \in DOMAIN rs : rs[j].srv = sv}}

\* The records at the positions ps, in their order. UpTo counts those of ps that are not after i.
UpTo(ps, i) == Cardinality({h \in ps : h <= i})
At(rs, ps) == [n \in 1..Cardinality(ps) |-> rs[CHOOSE i \in ps : UpTo(ps, i) = n]]

Without(rs, ids) == At(rs, {i \in DOMAIN rs : rs[i].id \notin ids})

\* mark_record_used
Used(rs, id) ==
    IF id \notin Ids(rs) THEN rs
    ELSE Append(Without(rs, {id}), CHOOSE r \in {rs[i] : i \in DOMAIN rs} : r.id = id)

\* _newest_per_server
Superseded(rs) == {r \in Ids(rs) : \E i, j \in DOMAIN rs :
                      rs[i].id = r /\ rs[j].srv = rs[i].srv /\ rs[j].id > r}

\* How much m is above n.
Above(m, n) == IF m > n THEN m - n ELSE 0

\* _evict_over_capacity: the least recently used others go.
Trimmed(rs, keep) ==
    LET evictable == {i \in DOMAIN rs : rs[i].id \notin keep}
    IN  At(rs, {i \in DOMAIN rs : i \in evictable => UpTo(evictable, i) > Len(rs) - Capacity})

\* Faulty variant: a connection that is still being brought up does not count.
ProtectedOpenOnly == {conn[k].psk : k \in open} \ {0}

\* protected_psk_ids and record_psk_ids
Protected == (UNION {{conn[k].psk, conn[k].res} : k \in open \cup prov}) \ {0}

\* A record is read while a removal decided earlier is still to come.
Late == sweeps # {} \/ \E k \in Conns : conn[k].attempt = "save"

-----------------------------------------------------------------------------
(* Closing: disconnect() marks the connection, waits for its tasks, which it *)
(* cancels, and reports to the client.                                       *)

Closing(x) == [x EXCEPT !.live = FALSE, !.closing = TRUE, !.attempt = "no", !.prot = {},
                        !.note = FALSE]

\* Pairings that end before the store was trimmed.
CutBy(ks) == cut + Cardinality({k \in ks : conn[k].live /\ conn[k].attempt = "save"})

\* Faulty variant: whichever connection closes, none is admitted any more.
AfterCloseAlways(k) == None

\* The admitted connection is forgotten when it is the one that closes.
AfterClose(k) == IF adm = k THEN None ELSE adm

\* on_connection_closed
FinishClose(k) ==
    LET others == (open \cup prov) \ {k}
    IN  /\ conn[k].closing
        /\ conn' = [conn EXCEPT ![k] = [@ EXCEPT !.closing = FALSE, !.psk = 0, !.res = 0,
                                          !.act = "none",
                                          !.pc = IF conn[k].pc = "run" THEN "free" ELSE conn[k].pc]]
        /\ prov' = prov \ {k} /\ open' = open \ {k}
        /\ sweeps' = sweeps \cup {(UNION {{conn[j].psk, conn[j].res} : j \in others}) \ {0}}
        /\ adm' = AfterClose(k)
        /\ UNCHANGED <<lock, shut, last, unp, recs, made, msgs, gone, failed, cut>>

\* remove_superseded_records
Swept(rs, keep) == Without(rs, Superseded(rs) \ keep)

Sweep(keep) ==
    /\ keep \in sweeps
    /\ sweeps' = sweeps \ {keep}
    /\ recs' = Swept(recs, keep)
    /\ UNCHANGED <<conn, adm, open, prov, lock, shut, last, unp, made, msgs, gone, failed, cut>>

-----------------------------------------------------------------------------
(* Bring-up.                                                                 *)

\* _claim_connection_slot
HasSlot == Cardinality(open) < Capacity - 1

\* connect and attach_websocket: a dial without a slot is refused at once.
Arrive(k, sv, mode) ==
    /\ conn[k] = NoConn /\ Msg
    /\ mode = "dial" => HasSlot
    /\ conn' = [conn EXCEPT ![k] = [NoConn EXCEPT !.pc = "hs", !.mode = mode, !.srv = sv]]
    /\ prov' = prov \cup {k}
    /\ open' = IF HasSlot THEN open \cup {k} ELSE open
    /\ UNCHANGED <<adm, lock, shut, last, unp, table>>

\* _resolve_psk: the record is protected from here on.
Resolve(k) ==
    /\ conn[k].pc = "hs" /\ conn[k].res = 0
    /\ \E r \in OfServer(recs, conn[k].srv) :
          conn' = [conn EXCEPT ![k] = [@ EXCEPT !.res = r, !.late = Late]]
    /\ UNCHANGED <<adm, open, prov, lock, shut, last, unp, msgs, table>>

\* The Noise handshake ends; without a slot the connection is turned away.
HandshakeDone(k) ==
    LET x == [conn[k] EXCEPT !.pc = "up", !.live = TRUE, !.psk = conn[k].res, !.res = 0]
    IN  /\ conn[k].pc = "hs"
        /\ conn' = [conn EXCEPT ![k] = IF k \in open THEN x ELSE Closing([x EXCEPT !.pc = "end"])]
        /\ recs' = Used(recs, conn[k].res)
        /\ UNCHANGED <<adm, open, prov, lock, shut, last, unp, sweeps, made, msgs, gone, failed, cut>>

\* The raw socket fails first (_end_admission).
HandshakeFails(k) ==
    /\ conn[k].pc = "hs"
    /\ conn' = [conn EXCEPT ![k] = NoConn]
    /\ prov' = prov \ {k} /\ open' = open \ {k}
    /\ failed' = failed \cup ({conn[k].res} \ {0})
    /\ UNCHANGED <<adm, lock, shut, last, unp, recs, sweeps, made, msgs, gone, cut>>

\* _admissible: a record admits no pairing, and only unpaired access admits playback without one.
Admissible(x, psk, a) == IF psk # 0 THEN a # "pairing" ELSE a = "playback" => unp

\* The first server/activate (_run_inner_handshake), or none.
FirstActivate(k, a) ==
    /\ conn[k].pc = "up" /\ conn[k].live /\ Msg
    /\ conn' = [conn EXCEPT ![k] = IF Admissible(@, @.psk, a) THEN [@ EXCEPT !.act = a, !.pc = "queue"]
                                   ELSE Closing([@ EXCEPT !.pc = "end"])]
    /\ UNCHANGED <<adm, open, prov, lock, shut, last, unp, table>>

BringUpFails(k) ==
    /\ conn[k].pc = "up"
    /\ conn' = [conn EXCEPT ![k] = IF @.live THEN Closing([@ EXCEPT !.pc = "end"]) ELSE [@ EXCEPT !.pc = "end"]]
    /\ UNCHANGED <<adm, open, prov, lock, shut, last, unp, msgs, table>>

-----------------------------------------------------------------------------
(* Admission, under the lock.                                                *)

Rank(a) == CASE a = "playback" -> 2 [] a = "pairing" -> 1 [] a = "none" -> 0

Outranks(k) ==
    \/ Rank(conn[k].act) > Rank(conn[adm].act)
    \/ Rank(conn[k].act) = Rank(conn[adm].act) /\ conn[k].act # "none"
    \/ Rank(conn[k].act) = Rank(conn[adm].act) /\ conn[k].srv = last /\ conn[adm].srv # last

\* _should_admit_connection
ShouldAdmit(k) ==
    adm # None /\ conn[adm].live =>
        Outranks(k) /\ ~(conn[adm].attempt \in {"on", "save"} /\ conn[k].act # "none")

\* relies_on_unpaired_access
Relies(k) == conn[k].psk = 0 /\ conn[k].act = "playback"

\* _refuse_unpaired_access
Refused(k) == Relies(k) /\ ~unp

\* _end_admission, with the lock released.
Leave(k, x) ==
    /\ conn' = [conn EXCEPT ![k] = x]
    /\ lock' = None /\ prov' = prov \ {k}
    /\ open' = IF x.live THEN open ELSE open \ {k}

\* _admit_connection, from the look at whether the connection is still up. The one it displaces
\* is told first.
Install(k) ==
    \/ /\ ~conn[k].live
       /\ Leave(k, [conn[k] EXCEPT !.pc = "end"]) /\ UNCHANGED adm
    \/ /\ conn[k].live /\ adm # None
       /\ adm' = k /\ lock' = k
       /\ conn' = [conn EXCEPT ![k] = [@ EXCEPT !.pc = "oust", !.prev = adm]]
       /\ UNCHANGED <<prov, open>>
    \/ /\ conn[k].live /\ adm = None
       /\ adm' = k
       /\ Leave(k, [conn[k] EXCEPT !.pc = "run"])

\* The playback server is written down first.
Records(k) == conn[k].act = "playback" /\ conn[k].srv # last

Acquire(k) ==
    /\ conn[k].pc = "queue" /\ lock = None
    /\ \/ /\ (conn[k].mode = "incoming" /\ ~ShouldAdmit(k)) \/ Refused(k)
          /\ lock' = k
          /\ conn' = [conn EXCEPT ![k] = IF @.live THEN Closing([@ EXCEPT !.pc = "drop"])
                                         ELSE [@ EXCEPT !.pc = "drop"]]
          /\ UNCHANGED <<adm, prov, open>>
       \/ /\ conn[k].mode = "incoming" => ShouldAdmit(k)
          /\ ~Refused(k) /\ Records(k)
          /\ lock' = k
          /\ conn' = [conn EXCEPT ![k] = [@ EXCEPT !.pc = "save"]]
          /\ UNCHANGED <<adm, prov, open>>
       \/ /\ conn[k].mode = "incoming" => ShouldAdmit(k)
          /\ ~Refused(k) /\ ~Records(k)
          /\ Install(k)
    /\ UNCHANGED <<shut, last, unp, msgs, table>>

\* set_last_playback_server_id has written.
Saved(k) ==
    /\ conn[k].pc = "save"
    /\ last' = conn[k].srv
    /\ Install(k)
    /\ UNCHANGED <<shut, unp, msgs, table>>

\* The turned-away connection has closed.
Dropped(k) ==
    /\ conn[k].pc = "drop" /\ ~conn[k].closing
    /\ Leave(k, [conn[k] EXCEPT !.pc = "end"])
    /\ UNCHANGED <<adm, shut, last, unp, msgs, table>>

\* The displaced connection has been told and is closed, unless it is closing by itself.
Dismiss(k) ==
    LET p == conn[k].prev
    IN  /\ conn[k].pc = "oust"
        /\ conn' = [conn EXCEPT ![k].pc = IF conn[p].live THEN "wait" ELSE "start",
                                ![p] = IF @.live THEN Closing(@) ELSE @]
        /\ cut' = CutBy({p})
        /\ UNCHANGED <<adm, open, prov, lock, shut, last, unp, recs, sweeps, made, msgs, gone, failed>>

\* start: the connection may have been closed meanwhile.
Start(k) ==
    /\ \/ conn[k].pc = "start"
       \/ conn[k].pc = "wait" /\ ~conn[conn[k].prev].closing
    /\ Leave(k, [conn[k] EXCEPT !.pc = IF conn[k].live \/ conn[k].closing THEN "run" ELSE "end",
                                !.prev = None])
    /\ UNCHANGED <<adm, shut, last, unp, msgs, table>>

\* A connection that failed is forgotten once it has closed.
Forget(k) ==
    /\ conn[k].pc \in {"end", "free"} /\ conn[k] # NoConn /\ ~conn[k].closing
    /\ \A j \in Conns : conn[j].prev # k
    /\ conn' = [conn EXCEPT ![k] = NoConn]
    /\ prov' = prov \ {k} /\ open' = open \ {k}
    /\ UNCHANGED <<adm, lock, shut, last, unp, msgs, table>>

-----------------------------------------------------------------------------
(* A connection that is served.                                              *)

Serving(k) == conn[k].pc = "run" /\ conn[k].live /\ ~conn[k].note

\* server/activate: it ends the attempt in progress. note_playback_activity writes.
ServerActivate(k, a) ==
    /\ Serving(k) /\ conn[k].attempt # "save" /\ Msg
    /\ conn' = [conn EXCEPT ![k] =
                  IF Admissible(@, @.psk, a)
                  THEN [@ EXCEPT !.act = a, !.attempt = "no", !.young = FALSE,
                                 !.note = k = adm /\ a = "playback" /\ conn[k].srv # last]
                  ELSE Closing(@)]
    /\ UNCHANGED <<adm, open, prov, lock, shut, last, unp, table>>

Noted(k) ==
    /\ conn[k].note
    /\ last' = conn[k].srv
    /\ conn' = [conn EXCEPT ![k].note = FALSE]
    /\ UNCHANGED <<adm, open, prov, lock, shut, unp, msgs, table>>

\* The exchange of an attempt begins (_attempt_in_progress).
BeginAttempt(k) ==
    /\ Serving(k) /\ conn[k].act = "pairing" /\ conn[k].attempt = "no"
    /\ conn' = [conn EXCEPT ![k] = [@ EXCEPT !.attempt = "on", !.young = lock \notin {None, Config}]]
    /\ UNCHANGED <<adm, open, prov, lock, shut, last, unp, msgs, table>>

EndAttempt(k) ==
    /\ Serving(k) /\ conn[k].attempt = "on"
    /\ conn' = [conn EXCEPT ![k].attempt = "done"]
    /\ UNCHANGED <<adm, open, prov, lock, shut, last, unp, msgs, table>>

\* server/pair-finalize: the record is in the store, its file is being written. What may not be
\* removed is decided now (replace_record_for_server_id).
Acknowledged(k) ==
    /\ Serving(k) /\ conn[k].attempt = "on" /\ made - Len(InStore) < MaxNew
    /\ recs' = Append(recs, [id |-> made + 1, srv |-> conn[k].srv])
    /\ made' = made + 1
    /\ conn' = [conn EXCEPT ![k] = [@ EXCEPT !.attempt = "save", !.prot = Protected \cup {made + 1}]]
    /\ UNCHANGED <<adm, open, prov, lock, shut, last, unp, sweeps, msgs, gone, failed, cut>>

\* The file is written: the server's earlier records and the excess go.
Recorded(k) ==
    LET old == {r \in OfServer(recs, conn[k].srv) : r \notin conn[k].prot}
    IN  /\ conn[k].attempt = "save"
        /\ recs' = Trimmed(Without(recs, old), conn[k].prot)
        /\ conn' = [conn EXCEPT ![k] = [@ EXCEPT !.attempt = "done", !.prot = {}]]
        /\ cut' = Above(Cardinality(conn[k].prot), Capacity)
        /\ UNCHANGED <<adm, open, prov, lock, shut, last, unp, sweeps, made, msgs, gone, failed>>

\* The server re-keys the session onto a record, or off it, and activates (_handle_handshake).
Rehandshake(k, r, a) ==
    /\ Serving(k) /\ conn[k].attempt # "save" /\ Msg
    /\ r \in OfServer(recs, conn[k].srv) \cup {0} /\ r # conn[k].psk
    /\ conn' = [conn EXCEPT ![k] =
                  IF Admissible(@, r, a)
                  THEN [@ EXCEPT !.psk = r, !.act = a, !.attempt = "no", !.late = Late,
                                 !.young = FALSE, !.note = k = adm /\ a = "playback" /\ conn[k].srv # last]
                  ELSE Closing([@ EXCEPT !.psk = r])]
    /\ recs' = Used(recs, r)
    /\ UNCHANGED <<adm, open, prov, lock, shut, last, unp, sweeps, made, gone, failed, cut>>

\* server/unpair (_handle_unpair)
ServerUnpairs(k) ==
    /\ Serving(k) /\ conn[k].psk # 0 /\ Msg
    /\ recs' = Without(recs, {conn[k].psk}) /\ gone' = gone \cup {conn[k].psk}
    /\ conn' = [conn EXCEPT ![k] = Closing(@)]
    /\ UNCHANGED <<adm, open, prov, lock, shut, last, unp, sweeps, made, failed, cut>>

\* The socket goes.
Lost(k) ==
    /\ conn[k].pc = "run" /\ conn[k].live
    /\ conn' = [conn EXCEPT ![k] = Closing(@)]
    /\ cut' = CutBy({k})
    /\ UNCHANGED <<adm, open, prov, lock, shut, last, unp, recs, sweeps, made, msgs, gone, failed>>

-----------------------------------------------------------------------------
(* The application.                                                          *)

\* set_unpaired_access writes the setting under the lock.
SetUnpaired(b) ==
    /\ lock = None /\ unp # b /\ Msg
    /\ unp' = b /\ lock' = Config
    /\ UNCHANGED <<conn, adm, open, prov, shut, last, table>>

\* It is written: the connection that relied on it goes.
ConfigSaved ==
    LET refuse == ~unp /\ adm # None /\ shut = None /\ Relies(adm) /\ conn[adm].live
    IN  /\ lock = Config
        /\ \/ /\ refuse
              /\ conn' = [conn EXCEPT ![adm] = Closing(@)]
              /\ shut' = adm /\ UNCHANGED lock
           \/ /\ ~refuse
              /\ shut # None => ~conn[shut].closing
              /\ lock' = None /\ shut' = None /\ UNCHANGED conn
        /\ UNCHANGED <<adm, open, prov, last, unp, msgs, table>>

\* disconnect: a connection that has not ended its handshake is left alone.
ClientDisconnect ==
    LET ks == {k \in (prov \cup {adm}) \ {None} : conn[k].live}
    IN  /\ Msg /\ ks # {}
        /\ conn' = [k \in Conns |-> IF k \in ks THEN Closing(conn[k]) ELSE conn[k]]
        /\ cut' = CutBy(ks)
        /\ UNCHANGED <<adm, open, prov, lock, shut, last, unp, recs, sweeps, made, gone, failed>>

Next ==
    \/ \E k \in Conns, sv \in Servers : \E mode \in Modes[sv] : Arrive(k, sv, mode)
    \/ \E k \in Conns : Resolve(k)
    \/ \E k \in Conns : HandshakeDone(k)
    \/ \E k \in Conns : HandshakeFails(k)
    \/ \E k \in Conns, a \in Activations : FirstActivate(k, a)
    \/ \E k \in Conns : BringUpFails(k)
    \/ \E k \in Conns : Acquire(k)
    \/ \E k \in Conns : Saved(k)
    \/ \E k \in Conns : Dropped(k)
    \/ \E k \in Conns : Dismiss(k)
    \/ \E k \in Conns : Start(k)
    \/ \E k \in Conns : Forget(k)
    \/ \E k \in Conns : FinishClose(k)
    \/ \E keep \in sweeps : Sweep(keep)
    \/ \E k \in Conns, a \in Activations : ServerActivate(k, a)
    \/ \E k \in Conns : Noted(k)
    \/ \E k \in Conns : BeginAttempt(k)
    \/ \E k \in Conns : EndAttempt(k)
    \/ \E k \in Conns : Acknowledged(k)
    \/ \E k \in Conns : Recorded(k)
    \/ \E k \in Conns, r \in Ids(recs) \cup {0}, a \in Activations : Rehandshake(k, r, a)
    \/ \E k \in Conns : ServerUnpairs(k)
    \/ \E k \in Conns : Lost(k)
    \/ \E b \in BOOLEAN : SetUnpaired(b)
    \/ ConfigSaved
    \/ ClientDisconnect

Spec == Init /\ [][Next]_vars

-----------------------------------------------------------------------------
\* The variables' types. Fewer connections hold a slot than the store has room for records, and
\* whoever holds the lock is inside admission.
TypeOK ==
    /\ adm \in Conns \cup {None} /\ lock \in Conns \cup {None, Config} /\ shut \in Conns \cup {None}
    /\ open \subseteq Conns /\ prov \subseteq Conns /\ Cardinality(open) < Capacity
    /\ \A k \in Conns : (lock = k) <=> conn[k].pc \in {"save", "drop", "oust", "wait", "start"}

\* A connection that is served is the admitted one, but for the moment in which the one that
\* displaces it says goodbye to it (_admit_connection, on_connection_closed).
ServedIsAdmitted ==
    \A k \in Conns : conn[k].pc = "run" /\ conn[k].live =>
        adm = k \/ \E j \in Conns : conn[j].pc = "oust" /\ conn[j].prev = k

\* No two records of the store have the same id (replace_record_for_server_id, mark_record_used).
RecordsDistinct == Cardinality(Ids(recs)) = Len(recs)

\* A session keeps the record it runs on, unless its server had it removed, or the session found
\* the record while a removal decided before was still to come (protected_psk_ids).
RecordKept ==
    \A k \in Conns : conn[k].live /\ conn[k].psk # 0 =>
        conn[k].psk \in Ids(recs) \cup gone \/ conn[k].late

\* The store exceeds its capacity only by the records of pairings that are being written or were
\* interrupted at that, and by the records it may not evict: the slots are fewer than its room, but
\* connections still being brought up beyond them are protected too (_claim_connection_slot,
\* protected_psk_ids, _evict_over_capacity).
CapacityKept ==
    Len(recs) <= Capacity + cut + Cardinality({k \in Conns : conn[k].attempt = "save"})

\* With nothing under way and no connection left, a server has a second record only when the last
\* handshake that looked it up failed (replace_record_for_server_id, remove_superseded_records,
\* on_connection_closed).
NoLeftover ==
    sweeps = {} /\ open \cup prov = {} /\ (\A k \in Conns : conn[k].attempt # "save" /\ ~conn[k].closing)
        => Superseded(recs) \subseteq failed

\* Once the setting is written no served connection relies on unpaired access that is switched
\* off (set_unpaired_access, _refuse_unpaired_access).
UnpairedRefused ==
    lock # Config /\ adm # None => (conn[adm].live /\ Relies(adm) => unp)

\* A pairing attempt is displaced by an incoming connection that plays or pairs only when it
\* began after that connection had been chosen (_should_admit_connection).
PairingNotDisplaced ==
    \A k \in Conns : conn[k].pc = "oust" /\ conn[k].mode = "incoming" /\ conn[k].act # "none" =>
        (conn[conn[k].prev].attempt \in {"on", "save"} => conn[conn[k].prev].young)

=============================================================================
