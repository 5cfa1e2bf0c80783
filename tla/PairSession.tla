----------------------------- MODULE PairSession ------------------------------
(***************************************************************************)
(* Pairing over an encrypted connection: the SDK server and the SDK client  *)
(* that talk to each other, both ends of the wire between them, and the     *)
(* pairing records they keep (server/connection.py, client/connection.py,   *)
(* noise/pairing.py, noise/driver.py).                                      *)
(*                                                                          *)
(* The server runs one attempt at a time in a task of its own. It re-keys   *)
(* the session onto the credential the method needs, admits the attempt     *)
(* with a server/activate, exchanges the method's messages and, once the    *)
(* client has finalized, stores the record, acknowledges it and re-keys the *)
(* session onto it. Either side may time out or cancel at any point, and    *)
(* the socket may go. Frames arrive in order or not at all.                 *)
(*                                                                          *)
(* A reader hands a pairing message to the attempt at once, and waits for   *)
(* the attempt after server/pair-finalize: the queue between the two is not *)
(* modelled.                                                                *)
(***************************************************************************)
EXTENDS Integers, Sequences, FiniteSets

CONSTANTS Methods,       \* pairing methods in use, out of psk, static, dynamic
          MaxPsk,        \* bound: long-term credentials ever made
          MaxKeys,       \* bound: handshakes
          MaxOps,        \* bound: calls of the application and the operators
          RoundLimit,    \* PAIRING_ROUND_LIMIT
          WindowLimit    \* _PAIRING_WINDOW_MAX_FAILURES

VARIABLES s,     \* the server's end
          c,     \* the client's end
          s2c, c2s,
          store, \* what the two persist; ghost: ever, the records the server has kept
          gate,  \* the client's pairing window
          group, \* the group of the client plays
          ops,
          fault  \* ghost: who ended the connection on a message it cannot accept

vars == <<s, c, s2c, c2s, store, gate, group, ops, fault>>

ASSUME PairAssumption ==
    /\ Methods \subseteq {"psk", "static", "dynamic"}
    /\ MaxPsk \in Nat /\ MaxKeys \in Nat /\ MaxOps \in Nat
    /\ RoundLimit \in Nat \ {0} /\ WindowLimit \in Nat \ {0}

Sentinel == [cat |-> "sentinel", id |-> 0]
PairingPsk == [cat |-> "pairing", id |-> 0]
LongTerm(n) == [cat |-> "lt", id |-> n]

ServerDown ==
    [pc |-> "down", psk |-> Sentinel, key |-> 0, idx |-> 0, in |-> FALSE, moved |-> FALSE,
     mismatch |-> FALSE, cut |-> FALSE, dial |-> FALSE, meth |-> "none", target |-> Sentinel,
     first |-> FALSE, play |-> FALSE, roles |-> FALSE, trusted |-> FALSE, unpair |-> FALSE,
     stale |-> <<>>, behind |-> FALSE, early |-> FALSE]

ClientDown ==
    [pc |-> "down", psk |-> Sentinel, key |-> 0, idx |-> 0, quiet |-> FALSE, pairing |-> FALSE,
     meth |-> "none", play |-> FALSE, roles |-> FALSE, ok |-> FALSE, cancellable |-> FALSE, fin |-> 0]

Init ==
    /\ s = ServerDown /\ c = ClientDown
    /\ s2c = <<>> /\ c2s = <<>>
    /\ store = [srec |-> 0, crec |-> {}, ever |-> {}, made |-> 0, keys |-> 0, rounds |-> 0, trusted |-> FALSE]
    /\ gate = [open |-> FALSE, owned |-> FALSE, failures |-> 0]
    /\ group = FALSE /\ ops = 0 /\ fault = "none"

Up == s.pc # "down"

Call == ops < MaxOps /\ ops' = ops + 1

\* Both ends of the connection close; the records stay.
Close(f) ==
    /\ s' = ServerDown /\ c' = ClientDown /\ s2c' = <<>> /\ c2s' = <<>>
    /\ gate' = IF gate.owned THEN [open |-> FALSE, owned |-> FALSE, failures |-> 0] ELSE gate
    /\ fault' = IF f = "none" THEN fault ELSE f

-----------------------------------------------------------------------------
(* What the server may do on a session, and its server/activate.             *)

PlaybackCapable(x) ==
    /\ ~x.mismatch
    /\ x.psk.cat = "lt" \/ (~x.moved /\ x.trusted)

\* _reload_trusted_unpaired
Reload(x, trusted) == IF x.psk.cat = "lt" THEN x ELSE [x EXCEPT !.trusted = trusted]

ActivateFrame(x) ==
    [t |-> "activate", key |-> x.key, pairing |-> FALSE, meth |-> "none",
     play |-> x.play, roles |-> IF x.roles THEN "set" ELSE "none"]

Declared(x) ==
    [x EXCEPT !.play = PlaybackCapable(x) /\ group, !.roles = PlaybackCapable(x), !.first = TRUE]

\* An activation that was queued while the writer was paused: it was written for the session before.
Late(x) == IF x.stale = <<>> THEN <<>> ELSE <<[Head(x.stale) EXCEPT !.key = x.key]>>

\* _activate: the activation, then what was queued while the writer was paused. Ghost: behind, the
\* client was last told what the session before could do.
Activated(x) ==
    [srv |-> [Declared(x) EXCEPT !.unpair = FALSE, !.stale = <<>>, !.behind = x.stale # <<>>],
     out |-> <<ActivateFrame(Declared(x))>> \o Late(x)
               \o (IF x.unpair THEN <<[t |-> "unpair", key |-> x.key]>> ELSE <<>>)]

\* The pairing activation, which counts as one more attempt under this handshake. A session that
\* may carry playback keeps its roles.
Admitted(x) ==
    LET keeps == x.first /\ PlaybackCapable(x)
        y == [x EXCEPT !.pc = "init", !.idx = @ + 1, !.unpair = FALSE]
    IN  [srv |-> y,
         out |-> <<[t |-> "activate", key |-> x.key, pairing |-> TRUE, meth |-> x.meth,
                    play |-> keeps /\ group, roles |-> IF keeps THEN "keep" ELSE "none"]>>
                   \o (IF x.unpair THEN <<[t |-> "unpair", key |-> x.key]>> ELSE <<>>)]

\* _leave_pairing and _resume_service: activate, then return to the record if the attempt
\* moved the session off it. On connect there is nothing to return to.
Leaving(x) ==
    LET a == Activated([x EXCEPT !.pc = "idle", !.in = FALSE, !.cut = FALSE, !.meth = "none"])
    IN  IF x.in /\ x.moved /\ store.srec # 0
        THEN [srv |-> [a.srv EXCEPT !.pc = "return", !.target = LongTerm(store.srec)],
              out |-> Append(a.out, [t |-> "hs1", key |-> x.key, psk |-> LongTerm(store.srec)])]
        ELSE [a EXCEPT !.srv.dial = FALSE]

\* The server takes its next state and sends.
Serve(r) == s' = r.srv /\ s2c' = s2c \o r.out

-----------------------------------------------------------------------------
(* Connecting.                                                               *)

\* The first handshake (_psk_provider, run_handshake_server, run_handshake_client): a client
\* that cannot use the credential answers under the Sentinel. A pairing dial names its own.
Connect(m) ==
    LET wanted == IF m = "psk" THEN PairingPsk
                  ELSE IF m = "none" /\ store.srec # 0 THEN LongTerm(store.srec) ELSE Sentinel
        lost == wanted.cat = "lt" /\ store.srec \notin store.crec
        psk == IF lost THEN Sentinel ELSE wanted
        x == [ServerDown EXCEPT !.psk = psk, !.key = store.keys + 1, !.mismatch = lost,
                 !.trusted = store.trusted, !.dial = m # "none", !.meth = m]
    IN  /\ ~Up /\ store.keys < MaxKeys
        /\ Call
        /\ store' = [store EXCEPT !.keys = @ + 1]
        /\ c' = [ClientDown EXCEPT !.pc = "none", !.psk = psk, !.key = store.keys + 1]
        /\ Serve(IF m = "none" THEN Activated([x EXCEPT !.pc = "idle"]) ELSE Admitted(x))
        /\ UNCHANGED <<c2s, gate, group, fault>>

\* The socket is lost.
Drop ==
    /\ Up /\ Close("none")
    /\ UNCHANGED <<store, group, ops>>

-----------------------------------------------------------------------------
(* The server's application.                                                 *)

\* initiate_pairing: a long-term session leaves playback first, and any session not on the
\* method's credential is re-keyed onto it.
Initiate(m) ==
    LET lt == s.psk.cat = "lt"
        x == [s EXCEPT !.in = TRUE, !.meth = m, !.play = @ /\ ~lt, !.roles = @ /\ ~lt]
        target == IF m = "psk" THEN PairingPsk ELSE Sentinel
        bye == IF lt /\ s.play
               THEN <<[ActivateFrame(x) EXCEPT !.roles = "keep"]>> ELSE <<>>
    IN  /\ Up /\ s.pc = "idle" /\ ~s.dial /\ Call
        /\ group' = (group /\ ~lt)
        /\ IF s.psk = target
           THEN LET r == Admitted(x) IN Serve([r EXCEPT !.out = bye \o @])
           ELSE Serve([srv |-> [x EXCEPT !.pc = "rekey", !.target = target],
                       out |-> Append(bye, [t |-> "hs1", key |-> s.key, psk |-> target])])
        /\ UNCHANGED <<c, c2s, store, gate, fault>>

\* initiate_pairing while the session returns to its record (an attempt that is still on its way out
\* refuses it, and the connection goes as in Drop): the server writes on under the key its handshake
\* message is about to retire, into a queue of its own.
InitiateEarly ==
    /\ s.pc = "return" /\ ~s.early /\ Call
    /\ s' = [s EXCEPT !.early = TRUE]
    /\ UNCHANGED <<c, s2c, c2s, store, gate, group, fault>>

\* The client cannot read what follows the handshake message, or the answer goes to the attempt, which
\* cannot use it: the connection ends either way.
EndsEarly ==
    /\ s.early
    /\ s2c = <<>> \/ (c2s # <<>> /\ Head(c2s).t = "hs2")
    /\ Close("early")
    /\ UNCHANGED <<store, group, ops>>

Exchanging == {"init", "gesture", "code", "auth", "confirm", "finalize"}

\* end_pairing: a re-handshake and a finalize are finished first; an exchange is aborted.
Cancelled(x) ==
    IF x.pc \in {"rekey", "ack", "final"}
    THEN [srv |-> [x EXCEPT !.cut = x.pc = "rekey"], out |-> <<>>]
    ELSE LET r == Leaving(x)
         IN  [r EXCEPT !.out = <<[t |-> "abort", key |-> x.key]>> \o @]

EndPairing ==
    /\ Up /\ s.in /\ ~s.cut /\ Call
    /\ Serve(Cancelled(s))
    /\ UNCHANGED <<c, c2s, store, gate, group, fault>>

\* The group of the client starts or stops (_refresh_activities).
TogglePlay ==
    LET x == [s EXCEPT !.play = PlaybackCapable(s) /\ ~group]
    IN  /\ Call
        /\ group' = ~group
        /\ IF s.pc = "idle" /\ s.first /\ x.play # s.play
           THEN Serve([srv |-> x, out |-> <<[ActivateFrame(x) EXCEPT !.roles = "keep"]>>])
           ELSE UNCHANGED <<s, s2c>>
        /\ UNCHANGED <<c, c2s, store, gate, fault>>

\* refresh_trusted_unpaired. The writer is paused during a re-handshake, and what it is given
\* then follows the next activation; of several activations the last counts.
Refreshed(x, trusted) ==
    LET y == [x EXCEPT !.trusted = trusted]
        z == Declared(y)
    IN  IF x.psk.cat = "lt" THEN [srv |-> x, out |-> <<>>]
        ELSE IF ~x.first THEN [srv |-> y, out |-> <<>>]
        ELSE IF x.in THEN IF x.trusted /\ ~trusted THEN Cancelled(y) ELSE [srv |-> y, out |-> <<>>]
        ELSE IF x.pc = "return"
        THEN [srv |-> [z EXCEPT !.stale = <<ActivateFrame(z)>>], out |-> <<>>]
        ELSE [srv |-> [z EXCEPT !.behind = FALSE], out |-> <<ActivateFrame(z)>>]

\* trust_unpaired and untrust_unpaired
Trust(b) ==
    /\ Call /\ ~s.cut /\ store.trusted # b
    /\ store' = [store EXCEPT !.trusted = b]
    /\ IF Up THEN Serve(Refreshed(s, b)) ELSE UNCHANGED <<s, s2c>>
    /\ UNCHANGED <<c, c2s, gate, group, fault>>

\* Faulty variant: a re-handshake does not pause the writer.
PausedNever == FALSE

\* The writer waits for the activation that follows a re-handshake (_pause_writer).
Paused == s.pc \in {"rekey", "final", "ack", "return"}

\* unpair: the record goes, then the client is told to drop its own.
Unpair ==
    LET x == [s EXCEPT !.mismatch = FALSE, !.moved = FALSE]
        r == Refreshed(x, store.trusted)
    IN  /\ Up /\ Call /\ ~s.cut /\ store.srec # 0
        /\ store' = [store EXCEPT !.srec = 0]
        /\ Serve(IF Paused THEN [r EXCEPT !.srv.unpair = TRUE]
                 ELSE [r EXCEPT !.out = Append(@, [t |-> "unpair", key |-> s.key])])
        /\ UNCHANGED <<c, c2s, gate, group, fault>>

-----------------------------------------------------------------------------
(* The server reads. A frame nobody waits for is discarded.                  *)

InHandshake == {"rekey", "final", "return"}

\* Noise message 2: the session has its new key.
Rekeyed ==
    LET x == [s EXCEPT !.key = Head(c2s).new, !.psk = s.target, !.idx = 0,
                       !.moved = @ \/ (s.psk.cat = "lt" /\ s.target.cat # "lt")]
        y == Reload(x, store.trusted)
    IN  CASE s.pc = "rekey" /\ ~s.cut -> Admitted(y)
          [] s.pc = "rekey" /\ s.cut -> Leaving(y)
          [] s.pc = "final" -> Leaving(y)
          [] s.pc = "return" -> Activated([y EXCEPT !.pc = "idle", !.moved = FALSE])

ServerReadsHandshake ==
    /\ Up /\ c2s # <<>> /\ s.pc \in InHandshake
    /\ ~(s.early /\ Head(c2s).t = "hs2")
    /\ c2s' = Tail(c2s)
    /\ IF Head(c2s).t = "hs2" THEN Serve(Rekeyed) ELSE UNCHANGED <<s, s2c>>
    /\ UNCHANGED <<c, store, gate, group, ops, fault>>

\* Outside an attempt the message loop discards pairing messages.
ServerReadsIdle ==
    /\ Up /\ c2s # <<>> /\ s.pc \in {"idle", "ack"}
    /\ c2s' = Tail(c2s)
    /\ UNCHANGED <<s, c, s2c, store, gate, group, ops, fault>>

\* The client ended the attempt (RemotePairingAbortError), whatever the server waits for.
ServerReadsAbort ==
    /\ Up /\ s.pc \in Exchanging /\ c2s # <<>> /\ Head(c2s).t = "abort"
    /\ c2s' = Tail(c2s)
    /\ Serve(Leaving(s))
    /\ UNCHANGED <<c, store, gate, group, ops, fault>>

\* _receive_pair_init: what is left of an earlier attempt is discarded.
FirstMessage(f) ==
    CASE f.t \in {"pinit", "pending"} /\ f.idx > s.idx -> "error"
      [] f.t = "pinit" /\ f.idx = s.idx -> "take"
      [] f.t = "pending" /\ f.idx = s.idx -> "pending"
      [] OTHER -> "discard"

\* This attempt's client/pair-init: a dynamic attempt answers with server/pair-init.
Begun == [srv |-> [s EXCEPT !.pc = IF s.meth = "psk" THEN "finalize" ELSE "code"],
          out |-> IF s.meth = "dynamic" THEN <<[t |-> "sinit", key |-> s.key]>> ELSE <<>>]

ServerReadsFirst ==
    LET f == Head(c2s)
    IN  /\ Up /\ s.pc = "init" /\ c2s # <<>> /\ f.t # "abort"
        /\ \/ /\ FirstMessage(f) = "take" /\ Serve(Begun)
              /\ c2s' = Tail(c2s) /\ UNCHANGED <<c, gate, fault>>
           \/ /\ FirstMessage(f) = "pending" /\ s.meth # "psk"
              /\ s' = [s EXCEPT !.pc = "gesture"]
              /\ c2s' = Tail(c2s) /\ UNCHANGED <<c, s2c, gate, fault>>
           \/ /\ FirstMessage(f) = "discard"
              /\ c2s' = Tail(c2s) /\ UNCHANGED <<s, c, s2c, gate, fault>>
           \/ /\ FirstMessage(f) = "error" \/ (FirstMessage(f) = "pending" /\ s.meth = "psk")
              /\ Close("server: first message")
        /\ UNCHANGED <<store, group, ops>>

Expected == CASE s.pc = "gesture" -> {"pinit"} [] s.pc = "code" -> {}
              [] s.pc = "auth" -> {"cauth"} [] s.pc = "confirm" -> {"cconfirm", "retry"}
              [] s.pc = "finalize" -> {"finalize"}

\* Faulty variant: the record is kept only once the client has been told.
StoredAfterAck(f) == [srv |-> [s EXCEPT !.pc = "ack", !.target = LongTerm(f.psk)], kept |-> store]

\* _commit_finalize: the record is stored before it is acknowledged.
Stored(f) ==
    [srv |-> [s EXCEPT !.pc = "ack", !.target = LongTerm(f.psk)],
     kept |-> [store EXCEPT !.srec = f.psk, !.ever = @ \cup {f.psk}]]

\* The exchange, message by message (run_*_server, _run_server_pake).
ServerReads ==
    LET f == Head(c2s)
    IN  /\ Up /\ s.pc \in Exchanging \ {"init"} /\ c2s # <<>> /\ f.t # "abort"
        /\ \/ /\ f.t \notin Expected
              /\ Close("server: " \o f.t) /\ UNCHANGED store
           \/ /\ f.t \in Expected
              /\ c2s' = Tail(c2s) /\ UNCHANGED <<c, gate, fault>>
              /\ CASE f.t = "pinit" -> Serve(Begun) /\ UNCHANGED store
                   [] f.t = "cauth" -> /\ Serve([srv |-> [s EXCEPT !.pc = "confirm"],
                                                out |-> <<[t |-> "sconfirm", key |-> s.key]>>])
                                      /\ UNCHANGED store
                   [] f.t = "cconfirm" -> s' = [s EXCEPT !.pc = "finalize"] /\ UNCHANGED <<s2c, store>>
                   [] f.t = "retry" -> /\ Serve([srv |-> [s EXCEPT !.pc = "code"],
                                                out |-> <<[t |-> "sinit", key |-> s.key]>>])
                                      /\ UNCHANGED store
                   [] f.t = "finalize" -> /\ s' = Stored(f).srv /\ store' = Stored(f).kept
                                         /\ UNCHANGED s2c
        /\ UNCHANGED <<group, ops>>

\* The operator enters a code, right or wrong; a malformed one ends the attempt.
EnterCode(ok) ==
    /\ Up /\ s.pc = "code"
    /\ Serve([srv |-> [s EXCEPT !.pc = "auth"], out |-> <<[t |-> "sauth", key |-> s.key, ok |-> ok]>>])
    /\ UNCHANGED <<c, c2s, store, gate, group, ops, fault>>

\* PairingTimeoutError and InvalidPairingCodeError: the leave activation cancels the attempt.
ServerTimeout ==
    /\ Up /\ s.pc \in Exchanging
    /\ Serve(Leaving(s))
    /\ UNCHANGED <<c, c2s, store, gate, group, ops, fault>>

\* The stored record is acknowledged, lesser grants go, and the session moves onto it.
Acknowledge ==
    /\ Up /\ s.pc = "ack"
    /\ store' = [store EXCEPT !.trusted = FALSE]
    /\ Serve([srv |-> [s EXCEPT !.pc = "final", !.mismatch = FALSE, !.moved = FALSE],
              out |-> <<[t |-> "sfinal", key |-> s.key], [t |-> "hs1", key |-> s.key, psk |-> s.target]>>])
    /\ UNCHANGED <<c, c2s, gate, group, ops, fault>>

-----------------------------------------------------------------------------
(* The client.                                                               *)

Reply(x, fs) == c' = x /\ c2s' = c2s \o fs

\* The attempt in progress is abandoned without a word (_cancel_pairing_attempt).
Abandoned(x) == [x EXCEPT !.pc = "none", !.cancellable = FALSE, !.fin = 0]

Known(psk) == psk.cat # "lt" \/ psk.id \in store.crec

\* _admissible, for a client that admits unpaired access: a long-term session pairs nothing.
Admissible(f) == c.psk.cat = "lt" => ~f.pairing

\* The client ends the connection: after a handshake only a server/activate may come, it may
\* name no pairing on a long-term session, and a re-handshake must name a credential it has.
ClientRejects ==
    LET f == Head(s2c)
        why == IF c.quiet /\ f.t # "activate" THEN "client: quiet"
               ELSE IF f.t = "hs1" /\ ~Known(f.psk) THEN "client: credential"
               ELSE IF f.t = "activate" /\ ~Admissible(f) THEN "client: activation" ELSE "none"
    IN  /\ Up /\ s2c # <<>> /\ why # "none"
        /\ Close(why)
        /\ UNCHANGED <<store, group, ops>>

\* Noise message 1 (run_rehandshake_client)
ClientRekeys ==
    LET f == Head(s2c)
        k == store.keys + 1
    IN  /\ Up /\ s2c # <<>> /\ f.t = "hs1" /\ ~c.quiet /\ Known(f.psk)
        /\ store.keys < MaxKeys
        /\ store' = [store EXCEPT !.keys = k]
        /\ Reply([Abandoned(c) EXCEPT !.key = k, !.psk = f.psk, !.idx = 0, !.quiet = TRUE],
                 <<[t |-> "hs2", key |-> c.key, new |-> k]>>)
        /\ s2c' = Tail(s2c)
        /\ UNCHANGED <<s, gate, group, ops, fault>>

\* The attempt waits for a gesture: always for a static code, after too many rounds for a
\* dynamic one.
Gated(x) == x.meth = "static" \/ (x.meth = "dynamic" /\ store.rounds >= RoundLimit)

Pinit(x) == [t |-> "pinit", key |-> x.key, idx |-> x.idx]

Admits == gate.open

\* The attempt starts: at once, or once the pairing window admits it.
Started(x) ==
    IF Gated(x) /\ ~Admits
    THEN [cli |-> [x EXCEPT !.pc = "gate"], out |-> <<[t |-> "pending", key |-> x.key, idx |-> x.idx]>>]
    ELSE [cli |-> [x EXCEPT !.pc = "init"], out |-> <<Pinit(x)>>]

Claimed(g, x) == IF x.meth = "dynamic" THEN [open |-> FALSE, owned |-> FALSE, failures |-> 0]
                 ELSE [g EXCEPT !.owned = TRUE]

\* server/activate ends the attempt in progress and may admit the next
\* (_handle_server_activate, _apply_activation, _start_pairing_attempt).
ClientActivates ==
    LET f == Head(s2c)
        x == [Abandoned(c) EXCEPT !.quiet = FALSE, !.pairing = f.pairing, !.play = f.play,
                 !.roles = CASE f.roles = "set" -> TRUE [] f.roles = "none" -> FALSE
                             [] f.roles = "keep" -> c.roles]
        y == [x EXCEPT !.idx = @ + 1, !.cancellable = TRUE, !.meth = f.meth]
        r == Started(y)
    IN  /\ Up /\ s2c # <<>> /\ f.t = "activate" /\ Admissible(f)
        /\ s2c' = Tail(s2c)
        /\ \/ ~f.pairing /\ c' = x /\ UNCHANGED <<c2s, gate, store>>
           \/ /\ f.pairing /\ (f.meth = "psk") # (c.psk.cat = "pairing")
              /\ Reply([y EXCEPT !.pc = "none"], <<[t |-> "abort", key |-> c.key]>>)
              /\ UNCHANGED <<gate, store>>
           \/ /\ f.pairing /\ (f.meth = "psk") = (c.psk.cat = "pairing")
              /\ Reply(r.cli, r.out)
              /\ gate' = IF Gated(y) /\ Admits THEN Claimed(gate, y) ELSE gate
              /\ store' = IF Gated(y) /\ Admits /\ y.meth = "dynamic"
                          THEN [store EXCEPT !.rounds = 0] ELSE store
        /\ UNCHANGED <<s, group, ops, fault>>

\* The device's operator opens the window.
OpenWindow ==
    /\ ~gate.open /\ Call
    /\ gate' = [open |-> TRUE, owned |-> FALSE, failures |-> 0]
    /\ UNCHANGED <<s, c, s2c, c2s, store, group, fault>>

\* It closes by itself after a while.
WindowExpires ==
    /\ gate.open
    /\ gate' = [gate EXCEPT !.open = FALSE]
    /\ UNCHANGED <<s, c, s2c, c2s, store, group, ops, fault>>

\* await_pairing_window: the attempt that waited begins.
PassGate ==
    /\ Up /\ c.pc = "gate" /\ Admits
    /\ gate' = Claimed(gate, c)
    /\ store' = IF c.meth = "dynamic" THEN [store EXCEPT !.rounds = 0] ELSE store
    /\ Reply([c EXCEPT !.pc = "init"], <<Pinit(c)>>)
    /\ UNCHANGED <<s, s2c, group, ops, fault>>

Attempting == {"gate", "init", "share", "auth", "confirm", "fin"}
ServerFrames == {"sinit", "sauth", "sconfirm", "sfinal", "abort"}

\* No attempt, or one that is over: a pairing message is discarded (_route_pairing_message).
ClientDiscards ==
    /\ Up /\ s2c # <<>> /\ ~c.quiet /\ c.pc = "none" /\ Head(s2c).t \in ServerFrames
    /\ s2c' = Tail(s2c)
    /\ UNCHANGED <<s, c, c2s, store, gate, group, ops, fault>>

\* The server's abort ends the attempt; the connection stays.
ClientReadsAbort ==
    /\ Up /\ s2c # <<>> /\ ~c.quiet /\ c.pc \in Attempting /\ Head(s2c).t = "abort"
    /\ s2c' = Tail(s2c)
    /\ c' = Abandoned(c)
    /\ UNCHANGED <<s, c2s, store, gate, group, ops, fault>>

Awaited == CASE c.pc = "gate" -> {} [] c.pc = "init" -> IF c.meth = "dynamic" THEN {"sinit"} ELSE {"sauth"}
             [] c.pc = "share" -> {"sauth"} [] c.pc = "confirm" -> {"sconfirm"} [] c.pc = "fin" -> {"sfinal"}

\* A failed static attempt counts against the window, a success closes it.
WindowAfter(paired) ==
    IF c.meth # "static" \/ ~gate.owned THEN gate
    ELSE IF paired \/ gate.failures + 1 >= WindowLimit
         THEN [open |-> FALSE, owned |-> FALSE, failures |-> 0]
    ELSE [gate EXCEPT !.failures = @ + 1]

\* client/pair-finalize hands over a fresh long-term credential, which is kept once the server
\* acknowledges it.
Finalizing(x) ==
    [cli |-> [x EXCEPT !.pc = "fin", !.cancellable = FALSE, !.fin = store.made + 1],
     out |-> <<[t |-> "finalize", key |-> x.key, psk |-> store.made + 1]>>]

\* resolve_pairing_outcome and replace_record_for_server_id: the record of this connection stays
\* until it closes.
Kept == {c.fin} \cup (store.crec \cap (IF c.psk.cat = "lt" THEN {c.psk.id} ELSE {}))

\* server_kc verified or not (_run_client_pake): finalize, try again, or give up.
ClientConfirms ==
    LET counted == IF c.meth = "dynamic" THEN store.rounds ELSE RoundLimit
        r == Finalizing(c)
    IN  /\ Up /\ s2c # <<>> /\ c.pc = "confirm" /\ Head(s2c).t = "sconfirm"
        /\ s2c' = Tail(s2c)
        /\ \/ /\ c.ok /\ store.made < MaxPsk
              /\ Reply(r.cli, <<[t |-> "cconfirm", key |-> c.key]>> \o r.out)
              /\ store' = [store EXCEPT !.made = @ + 1,
                              !.rounds = IF c.meth = "dynamic" THEN 0 ELSE @]
              /\ UNCHANGED gate
           \/ /\ ~c.ok /\ counted < RoundLimit
              /\ Reply([c EXCEPT !.pc = "init"], <<[t |-> "retry", key |-> c.key]>>)
              /\ UNCHANGED <<store, gate>>
           \/ /\ ~c.ok /\ counted >= RoundLimit
              /\ Reply(Abandoned(c), <<[t |-> "abort", key |-> c.key]>>)
              /\ gate' = WindowAfter(FALSE) /\ UNCHANGED store
        /\ UNCHANGED <<s, group, ops, fault>>

\* Any other message of the exchange (run_*_client). A round counts once its code is shown.
ClientReads ==
    LET f == Head(s2c)
    IN  /\ Up /\ s2c # <<>> /\ ~c.quiet /\ c.pc \in Attempting
        /\ f.t \in ServerFrames \ {"abort"} /\ ~(c.pc = "confirm" /\ f.t = "sconfirm")
        /\ \/ /\ f.t \notin Awaited /\ Close("client: " \o f.t) /\ UNCHANGED store
           \/ /\ f.t \in Awaited /\ s2c' = Tail(s2c) /\ UNCHANGED <<s, fault>>
              /\ CASE f.t = "sinit" -> /\ c' = [c EXCEPT !.pc = "share"]
                                      /\ store' = [store EXCEPT !.rounds = @ + 1]
                                      /\ UNCHANGED <<c2s, gate>>
                   [] f.t = "sauth" -> /\ Reply([c EXCEPT !.pc = "confirm", !.ok = f.ok],
                                               <<[t |-> "cauth", key |-> c.key]>>)
                                      /\ UNCHANGED <<store, gate>>
                   [] f.t = "sfinal" -> /\ c' = Abandoned(c)
                                       /\ store' = [store EXCEPT !.crec = Kept]
                                       /\ gate' = WindowAfter(TRUE) /\ UNCHANGED c2s
        /\ UNCHANGED <<group, ops>>

\* The Pairing PSK flow has no exchange: client/pair-init, then the finalize.
ClientFinalizes ==
    LET r == Finalizing(c)
    IN  /\ Up /\ c.pc = "init" /\ c.meth = "psk" /\ store.made < MaxPsk
        /\ Reply(r.cli, r.out)
        /\ store' = [store EXCEPT !.made = @ + 1]
        /\ UNCHANGED <<s, s2c, gate, group, ops, fault>>

\* cancel_pairing is refused once the finalize has been sent.
Cancellable == c.pc \in Attempting /\ c.cancellable

\* The device's operator cancels.
ClientCancels ==
    /\ Up /\ Call /\ Cancellable
    /\ Reply(Abandoned(c), <<[t |-> "abort", key |-> c.key]>>)
    /\ gate' = [open |-> FALSE, owned |-> FALSE, failures |-> 0]
    /\ UNCHANGED <<s, s2c, store, group, fault>>

\* _client_timeout: the attempt is over for the client, whatever is on the wire.
ClientTimeout ==
    /\ Up /\ c.pc \in Attempting \ {"gate"}
    /\ Reply(Abandoned(c), <<[t |-> "abort", key |-> c.key]>>)
    /\ UNCHANGED <<s, s2c, store, gate, group, ops, fault>>

\* server/unpair: a long-term session drops its record and closes.
ClientUnpairs ==
    /\ Up /\ s2c # <<>> /\ ~c.quiet /\ Head(s2c).t = "unpair"
    /\ IF c.psk.cat = "lt"
       THEN store' = [store EXCEPT !.crec = @ \ {c.psk.id}] /\ Close("none")
       ELSE s2c' = Tail(s2c) /\ UNCHANGED <<s, c, c2s, store, gate, fault>>
    /\ UNCHANGED <<group, ops>>

Next ==
    \/ \E m \in Methods \cup {"none"} : Connect(m)
    \/ Drop
    \/ \E m \in Methods : Initiate(m)
    \/ InitiateEarly
    \/ EndsEarly
    \/ EndPairing
    \/ TogglePlay
    \/ \E b \in BOOLEAN : Trust(b)
    \/ Unpair
    \/ ServerReadsHandshake
    \/ ServerReadsIdle
    \/ ServerReadsAbort
    \/ ServerReadsFirst
    \/ ServerReads
    \/ \E ok \in BOOLEAN : EnterCode(ok)
    \/ ServerTimeout
    \/ Acknowledge
    \/ ClientRejects
    \/ ClientRekeys
    \/ ClientActivates
    \/ OpenWindow
    \/ WindowExpires
    \/ PassGate
    \/ ClientDiscards
    \/ ClientReadsAbort
    \/ ClientConfirms
    \/ ClientReads
    \/ ClientFinalizes
    \/ ClientCancels
    \/ ClientTimeout
    \/ ClientUnpairs

Spec == Init /\ [][Next]_vars

-----------------------------------------------------------------------------
\* The variables' types: both ends are up or down together, and no more rounds are played than
\* the limit admits without a gesture.
TypeOK ==
    /\ (s.pc = "down") <=> (c.pc = "down")
    /\ s.pc \in Exchanging \cup InHandshake \cup {"down", "idle", "ack"}
    /\ c.pc \in Attempting \cup {"down", "none"}
    /\ store.srec \in 0..MaxPsk /\ store.crec \subseteq 1..MaxPsk
    /\ store.rounds \in 0..RoundLimit

\* A frame is read under the key it was written with: while a re-handshake is under way neither
\* end writes a frame the other cannot read (_rehandshake_to, _pause_writer, swap_session,
\* _exchange).
ReadUnderKey ==
    /\ s2c # <<>> => Head(s2c).key = c.key
    /\ c2s # <<>> => Head(c2s).key = s.key

\* Neither end closes the connection on a message of the other, but for two cases: the client
\* gave up waiting for the acknowledgement of a record the server has stored, and the server
\* re-keys onto it; and an attempt was begun while the session returned to its record.
NoFault == fault \in {"none", "client: credential", "early"}

AtRest == s.pc = "idle" /\ c.pc = "none" /\ s2c = <<>> /\ c2s = <<>> /\ ~c.quiet

\* With nothing in flight both ends agree on the credential, on whether the client may play and
\* on its roles (_activate, _apply_activation, _leave_pairing). Of a session whose trust changed while it
\* returned to its record the client holds what the session before could do, until it is told again.
EndsAgree ==
    AtRest => /\ s.key = c.key /\ s.psk = c.psk
              /\ ~s.behind => s.play = c.play /\ s.roles = c.roles

\* A session that an attempt moved off its record rests there only when the record is gone
\* (_return_to_record).
BackOnRecord == AtRest /\ s.moved => store.srec = 0

\* With nothing in flight either both ends are out of the attempt, or both are at the same point
\* of it, where a person, a timer or the server itself moves it on: neither waits for a message the other will not
\* send (run_*_server, run_*_client, _leave_pairing, _start_pairing_attempt).
InStep ==
    Up /\ s2c = <<>> /\ c2s = <<>> =>
        \/ s.pc = "idle" /\ c.pc = "none"
        \/ s.pc = "gesture" /\ c.pc = "gate"
        \/ s.pc = "code" /\ c.pc = IF s.meth = "dynamic" THEN "share" ELSE "init"
        \/ s.pc = "finalize" /\ c.pc = "init" /\ s.meth = "psk"
        \/ s.pc = "ack"

\* The client keeps no credential the server did not store first (_commit_finalize,
\* _finalize_client).
ServerStoresFirst == store.crec \subseteq store.ever

=============================================================================
