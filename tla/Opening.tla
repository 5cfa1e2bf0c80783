------------------------------- MODULE Opening --------------------------------
(***************************************************************************)
(* The client validator on one connection: the opening exchange and its     *)
(* observation (validator/session.py), the checks of the opening            *)
(* (validator/checks.py), and the suite steps that judge one connection's   *)
(* answers: U1 to U4 and P1 (validator/suites.py, suite_checks.py). The     *)
(* server under the validator is the vendored SDK in strict mode: it        *)
(* rejects a client at the first deviation it flags.                        *)
(*                                                                          *)
(* The client under test conforms but for one fault. The recorder sees an   *)
(* outbound frame when it has been sent and an inbound one when the server  *)
(* reads it, so nothing the client sends between its hello and the first    *)
(* server/activate is seen before that activation. A deadline passes only   *)
(* when nothing is under way. Cleartext and encrypted frames have different *)
(* types here: msg1 and msg2 are the first handshake, rehs1 and rehs2 a     *)
(* later one.                                                               *)
(***************************************************************************)
EXTENDS Integers, Sequences, FiniteSetsExt, TLC

CONSTANT Faults        \* the faults the client may have, "none" with them

VARIABLES plan,        \* the step run after the opening, or "opening"
          later,       \* the connection is not the observed one: the step reconnected
          fault, access,
          up, down,    \* frames in flight to the server, to the client
          rec,         \* the recorded frames of the connection
          flagged,     \* what the strict server rejected the client for, "none" before
          keyed,       \* the KEYED events: the PSK and the frame each one followed
          closed,      \* the server has closed the connection, and a CLOSED event says so
          spc, cpc, vpc,
          task, pq,    \* the pairing task, and the pairing messages routed to it
          since        \* the last frame recorded before P1's attempt

vars == <<plan, later, fault, access, up, down, rec, flagged, keyed, closed, spc, cpc, vpc, task, pq, since>>
case == <<plan, later, fault, access>>

Plans == {"opening", "U2", "U3", "U4", "P1"}
Roles == {"player", "controller"}

Init ==
    /\ plan \in Plans /\ fault \in Faults /\ access \in {"on", "off"}
    /\ later \in BOOLEAN /\ (plan = "opening" => ~later)
    /\ plan = "U3" => access = "on"
    /\ plan \in {"U2", "U4"} => access = "off"
    /\ up = <<>> /\ down = <<>> /\ rec = <<>> /\ flagged = "none" /\ keyed = <<>> /\ closed = FALSE
    /\ spc = "init" /\ cpc = "start" /\ vpc = (IF later THEN "next" ELSE "hello") /\ task = "none" /\ pq = <<>> /\ since = 0

In(t, v) == [i |-> TRUE, t |-> t, v |-> v]
Out(t, v) == [i |-> FALSE, t |-> t, v |-> v]

\* _observe_frame: an outbound frame is recorded as it is sent.
Send(fs) == down' = down \o fs /\ rec' = rec \o fs
\* The recorded frames after frame n of the client, and of the server.
Came(ts, n) == {k \in DOMAIN rec : k > n /\ rec[k].i /\ rec[k].t \in ts}
Sent(ts, n) == {k \in DOMAIN rec : k > n /\ ~rec[k].i /\ rec[k].t \in ts}
First(S) == IF S = {} THEN 0 ELSE Min(S)
Said(t) == Came({t}, 0) # {}

-----------------------------------------------------------------------------
(* The client under test.                                                    *)

\* client/init and client/hello, as their checks read them.
TheInit == [id |-> fault # "badid", version |-> IF fault = "badversion" THEN 2 ELSE 1,
            suite |-> fault # "badsuite", extra |-> fault = "extrainit"]
TheHello ==
    [form |-> CASE fault = "rolesnotlist" -> "notlist" [] fault = "unversioned" -> "unversioned" [] OTHER -> "ok",
     roles |-> Roles,
     support |-> CASE fault = "nosupport" -> {} [] fault = "oversupport" -> {"player", "source"} [] OTHER -> {"player"},
     methods |-> CASE fault = "nopsk" -> {"static_pairing_code"}
                   [] fault = "bothcodes" -> {"pairing_psk", "static_pairing_code", "dynamic_pairing_code"}
                   [] OTHER -> {"pairing_psk", "dynamic_pairing_code"},
     display |-> fault # "nodisplay",
     access |-> IF fault = "noaccess" THEN "missing" ELSE access,
     extra |-> fault = "extrahello", name |-> fault # "othername"]
State == In("client/state", [available |-> fault # "noavailable", objects |-> IF fault = "inactive" THEN {"player", "source"} ELSE {"player"}])

ClientOpens ==
    /\ cpc = "start"
    /\ up' = <<IF fault = "noinit" THEN In("cleartext", "") ELSE In("client/init", TheInit)>>
    /\ cpc' = "opening"
    /\ UNCHANGED <<case, down, rec, flagged, keyed, closed, spc, vpc, task, pq, since>>

Goodbye(reason) == IF fault = "closes" THEN <<In("close", "")>>
                   ELSE IF fault = "silent" THEN <<>>
                   ELSE <<In("client/goodbye", IF fault = "wrongreason" THEN "shutdown" ELSE reason)>>

\* The answer to server/activate: on an unpaired session with unpaired access off the client refuses
\* playback, and a pairing method the session's PSK does not allow.
Answer(v) ==
    CASE v.method = "pairing_psk" /\ cpc # "pairing" -> IF fault = "accepts" THEN <<>> ELSE Goodbye("unauthorized")
      [] v.method = "pairing_psk" /\ cpc = "pairing" ->
            (CASE fault = "nopairinit" -> <<>>
               [] fault = "onlyfinalize" -> <<>>
               [] OTHER -> <<In("client/pair-init", [index |-> IF fault = "badindex" THEN 0 ELSE 1, commit |-> fault = "commit"])>>)
            \o (IF fault \in {"nopairinit", "nofinalize"} THEN <<>>
                ELSE <<In("client/pair-finalize", [key |-> fault # "badkey", wrapped |-> fault = "wrapped"])>>)
      [] v.method = "none" /\ v.playback /\ access = "off" /\ cpc # "paired" ->
            IF fault = "accepts" THEN <<State>> ELSE Goodbye("pairing_required")
      [] v.method = "none" /\ v.roles # {} /\ (access = "on" \/ cpc = "paired") ->
            (CASE fault = "nostate" -> <<>>
               [] fault = "refuses" /\ cpc # "paired" -> <<In("client/goodbye", "unauthorized")>>
               [] fault = "refusespaired" /\ cpc = "paired" -> <<In("client/goodbye", "unauthorized")>>
               [] OTHER -> <<State>>)
      [] OTHER -> <<>>

ClientReads ==
    LET m == Head(down)
    IN  /\ down # <<>> /\ cpc # "gone"
        /\ down' = Tail(down)
        /\ up' = up \o
              CASE m.t = "msg1" -> IF fault = "nomsg2" THEN <<>> ELSE <<In("msg2", IF fault \in {"noisepayload", "garbled2"} THEN fault ELSE "ok")>>
                [] m.t = "server/hello" ->
                      (CASE fault = "nohello" -> <<>>
                         [] fault = "goodbyehello" -> <<In("client/goodbye", "shutdown")>>
                         [] fault = "earlier" -> <<State, In("client/hello", TheHello)>>
                         [] fault = "early" -> <<In("client/hello", TheHello), State>>
                         [] OTHER -> <<In("client/hello", TheHello)>>)
                [] m.t = "server/activate" -> Answer(m.v)
                [] m.t = "rehs1" -> IF fault = "norehandshake" /\ m.v = "pairing" THEN <<>>
                                    ELSE IF fault = "nopromotion" /\ m.v = "long_term" THEN <<>>
                                    ELSE <<In("rehs2", IF fault = "wrongpsk" /\ m.v = "pairing" THEN "garbled" ELSE "ok")>>
                [] OTHER -> <<>>
        /\ cpc' = CASE m.t = "rehs1" /\ m.v = "pairing" -> "pairing"
                    [] m.t = "rehs1" /\ m.v = "long_term" -> "paired"
                    [] m.t = "server/activate" /\ cpc = "opening" -> "active"
                    [] m.t = "close" -> "gone"
                    [] OTHER -> cpc
        /\ UNCHANGED <<case, rec, flagged, keyed, closed, spc, vpc, task, pq, since>>

\* A client measures the clock whenever it likes, once it is active.
ClientTime ==
    /\ cpc = "active" /\ ~\E n \in DOMAIN up : up[n].t = "client/time"
    /\ ~Said("client/time") /\ ~\E n \in DOMAIN down : down[n].t = "rehs1"
    /\ up' = Append(up, In("client/time", fault # "badtime"))
    /\ UNCHANGED <<case, down, rec, flagged, keyed, closed, spc, cpc, vpc, task, pq, since>>

-----------------------------------------------------------------------------
(* The strict server.                                                        *)

\* disconnect: the client's socket closes, and an attached client's CLOSED event is recorded.
Close ==
    /\ spc' = "closed" /\ closed' = (keyed # <<>>) /\ task' = IF task \in {"none", "paired"} THEN task ELSE "failed"
    /\ down' = Append(down, Out("close", ""))

\* receive_client_init_frame and _parse_client_init.
ReadInit ==
    LET m == Head(up)
        good == m.t = "client/init" /\ m.v.id /\ m.v.version = 1 /\ m.v.suite
    IN  /\ spc = "init" /\ up # <<>>
        /\ up' = Tail(up)
        /\ IF good
           THEN /\ spc' = "msg2" /\ down' = Append(down, Out("msg1", ""))
                /\ rec' = rec \o <<m, Out("msg1", "")>>
                /\ UNCHANGED <<closed, task>>
           ELSE /\ Close /\ rec' = rec \o <<m, Out("server/error", "")>>
        /\ UNCHANGED <<case, flagged, keyed, cpc, vpc, pq, since>>

\* Noise message 2: a payload other than {} is flagged, one that does not verify ends the connection.
ReadMessage2 ==
    LET m == Head(up)
    IN  /\ spc = "msg2" /\ up # <<>>
        /\ up' = Tail(up)
        /\ IF m.v = "ok"
           THEN /\ spc' = "hello" /\ down' = Append(down, Out("server/hello", ""))
                /\ rec' = rec \o <<m, Out("server/hello", "")>>
                /\ UNCHANGED <<closed, task, flagged>>
           ELSE /\ Close /\ rec' = Append(rec, m)
                /\ flagged' = IF m.v = "noisepayload" THEN "noise" ELSE flagged
        /\ UNCHANGED <<case, keyed, cpc, vpc, pq, since>>

\* _note_client_hello_wire, _note_pair_method_wire
Deviates(h) ==
    \/ h.form = "unversioned" \/ h.access = "missing" \/ h.support # h.roles \cap {"player"}
    \/ "pairing_psk" \notin h.methods
    \/ "dynamic_pairing_code" \in h.methods /\ ~h.display

\* _ingest_client_hello_checked: a frame that is not a client/hello, or does not parse, ends the connection.
ReadHello ==
    LET m == Head(up)
        good == m.t = "client/hello" /\ m.v.form # "notlist" /\ ~Deviates(m.v)
    IN  /\ spc = "hello" /\ up # <<>>
        /\ up' = Tail(up) /\ rec' = Append(rec, m)
        /\ IF good
           THEN /\ spc' = "activating" /\ keyed' = <<<<"sentinel", Len(rec) + 1>>>>
                /\ UNCHANGED <<closed, task, flagged, down>>
           ELSE /\ Close
                /\ flagged' = IF m.t = "client/hello" /\ m.v.form # "notlist" THEN "hello" ELSE flagged
                /\ UNCHANGED keyed
        /\ UNCHANGED <<case, cpc, vpc, pq, since>>

Activation(playback, roles, method) == Out("server/activate", [playback |-> playback, roles |-> roles, method |-> method])

\* _exchange_hellos, _activate: no frame is read until the activation is out.
Activate ==
    /\ spc = "activating" /\ spc' = "loop"
    /\ Send(<<Activation(FALSE, IF access = "on" THEN Roles ELSE {}, "none")>>)
    /\ UNCHANGED <<case, up, flagged, keyed, closed, cpc, vpc, task, pq, since>>

Pairing == {"client/pair-init", "client/pair-finalize", "rehs2"}

\* _run_message_loop: what _handle_client_state and the message's decoding flag ends the connection,
\* and so does a goodbye. The pairing attempt's messages go to its task.
ReadMessage ==
    LET m == Head(up)
        reason == CASE m.t = "client/state" /\ ~m.v.available -> "state"
                    [] m.t = "client/time" /\ ~m.v -> "time" [] OTHER -> "none"
    IN  /\ spc = "loop" /\ up # <<>>
        /\ up' = Tail(up)
        /\ rec' = IF m.t = "close" THEN rec ELSE Append(rec, m)
        /\ flagged' = IF reason = "none" THEN flagged ELSE reason
        /\ pq' = IF m.t \in Pairing /\ task \notin {"none", "failed"} THEN Append(pq, m) ELSE pq
        /\ IF reason # "none" \/ m.t \in {"client/goodbye", "close"} THEN Close
           ELSE UNCHANGED <<spc, closed, task, down>>
        /\ UNCHANGED <<case, keyed, cpc, vpc, since>>

\* initiate_pairing: the re-handshake onto the pairing PSK.
TaskBegins ==
    /\ task = "begin" /\ spc = "loop"
    /\ Send(<<Out("rehs1", "pairing")>>) /\ task' = "rehs1"
    /\ UNCHANGED <<case, up, flagged, keyed, closed, spc, cpc, vpc, pq, since>>

\* run_pairing_psk_server, _finalize_server and the promotion that follows. A finalize without a
\* pair-init is flagged; a wrong index that is behind is taken for a leftover; any other deviation ends
\* the connection.
TaskReads ==
    LET m == Head(pq)
    IN  /\ pq # <<>> /\ spc = "loop"
        /\ pq' = Tail(pq)
        /\ CASE task = "rehs1" /\ m.v = "ok" ->
                  /\ Send(<<Activation(FALSE, {}, "pairing_psk")>>) /\ task' = "init"
                  /\ UNCHANGED <<flagged, keyed, closed, spc>>
             [] task = "init" /\ m.t = "client/pair-init" /\ ~m.v.commit ->
                  /\ task' = IF m.v.index = 1 THEN "finalize" ELSE "init"
                  /\ UNCHANGED <<down, rec, flagged, keyed, closed, spc>>
             [] task = "init" /\ m.t = "client/pair-finalize" ->
                  IF Said("client/pair-init") THEN UNCHANGED <<down, rec, flagged, keyed, closed, spc, task>>
                  ELSE Close /\ flagged' = "finalize" /\ UNCHANGED <<rec, keyed>>
             [] task = "finalize" /\ m.t = "client/pair-finalize" /\ m.v.key /\ ~m.v.wrapped ->
                  /\ Send(<<Out("server/pair-finalize", ""), Out("rehs1", "long_term")>>) /\ task' = "rehs2"
                  /\ UNCHANGED <<flagged, keyed, closed, spc>>
             [] task = "rehs2" ->
                  /\ Send(<<Activation(FALSE, Roles, "none")>>) /\ task' = "paired"
                  /\ UNCHANGED <<flagged, keyed, closed, spc>>
             [] OTHER -> Close /\ UNCHANGED <<rec, flagged, keyed>>
        /\ UNCHANGED <<case, up, cpc, vpc, since>>

\* Nothing is under way that could still answer: only now does a deadline pass.
Quiet ==
    /\ cpc # "start" /\ (cpc # "gone" => down = <<>>)
    /\ spc # "activating" /\ (spc # "closed" => up = <<>> /\ pq = <<>> /\ task # "begin")

\* A handshake that is not answered closes the connection; an attempt that is not answered leaves pairing
\* with an activation.
TaskTimeout ==
    /\ Quiet /\ task \in {"rehs1", "rehs2", "init", "finalize"} /\ spc = "loop"
    /\ IF task \in {"rehs1", "rehs2"} THEN Close /\ UNCHANGED rec
       ELSE Send(<<Activation(FALSE, {}, "none")>>) /\ task' = "failed" /\ UNCHANGED <<spc, closed>>
    /\ UNCHANGED <<case, up, flagged, keyed, cpc, vpc, pq, since>>

-----------------------------------------------------------------------------
(* The validator.                                                            *)

\* _Observation._ended: a connection that was never attached is over only when the server flagged it or
\* answered with server/error.
Ended == closed \/ flagged # "none" \/ Sent({"server/error"}, 0) # {}

Seen == CASE vpc = "hello" -> Said("client/hello")
          [] vpc = "activation" -> Sent({"server/activate"}, 0) # {}
          [] vpc = "state" -> Said("client/state")
          [] OTHER -> FALSE
HasRoles == rec[First(Sent({"server/activate"}, 0))].v.roles # {}

\* _watch, and _run_suites once it is over.
AfterOpening == IF plan = "opening" \/ keyed = <<>> THEN "verdict" ELSE "step"
Watch ==
    /\ vpc \in {"hello", "activation", "state", "settle"}
    /\ \/ Seen /\ vpc' = (CASE vpc = "hello" -> "activation"
                             [] vpc = "activation" -> IF HasRoles THEN "state" ELSE "settle"
                             [] vpc = "state" -> "settle")
       \/ ~Seen /\ (Ended \/ Quiet) /\ vpc' = AfterOpening
    /\ UNCHANGED <<case, up, down, rec, flagged, keyed, closed, spc, cpc, task, pq, since>>

\* Link.is_open: connect_matching and open_connection would look for another connection.
IsOpen == keyed # <<>> /\ ~closed /\ ~Said("client/goodbye")

\* _next: a later connection is the step's once it is attached, and None when none is in time.
NextConnection ==
    /\ vpc = "next" /\ (keyed # <<>> \/ Quiet)
    /\ vpc' = IF keyed # <<>> THEN "step" ELSE "verdict"
    /\ UNCHANGED <<case, up, down, rec, flagged, keyed, closed, spc, cpc, task, pq, since>>

\* _u2, _u4 with _declare; _u3 sends nothing; _p1 begins the attempt.
Step ==
    /\ vpc = "step" /\ (plan \in {"U2", "U4"} => closed \/ Sent({"server/activate"}, 0) # {})
    /\ IF ~IsOpen
       THEN vpc' = "verdict" /\ UNCHANGED <<down, rec, task, since>>
       ELSE /\ vpc' = "response"
            /\ IF plan = "U2" THEN Send(<<Activation(TRUE, Roles, "none")>>)
               ELSE IF plan = "U4" THEN Send(<<Activation(TRUE, {}, "pairing_psk")>>)
               ELSE UNCHANGED <<down, rec>>
            /\ task' = IF plan = "P1" THEN "begin" ELSE task
            /\ since' = Len(rec)
    /\ UNCHANGED <<case, up, flagged, keyed, closed, spc, cpc, pq>>

\* What each step waits for before it judges.
Answered ==
    CASE plan = "U2" -> closed \/ Said("client/goodbye")
      [] plan = "U4" -> closed \/ Said("client/goodbye") \/ Said("pair/abort")
      [] plan = "U3" -> closed \/ Said("client/state") \/ Said("client/goodbye")
      [] plan = "P1" -> task \in {"paired", "failed"}

\* Link.until; note_keying, which finds the connection only while it is attached.
Response ==
    /\ vpc = "response" /\ (Answered \/ Quiet)
    /\ vpc' = IF plan = "P1" THEN "settling" ELSE "verdict"
    /\ keyed' = IF plan = "P1" /\ task = "paired" /\ ~closed THEN Append(keyed, <<"long_term", Len(rec)>>) ELSE keyed
    /\ UNCHANGED <<case, up, down, rec, flagged, closed, spc, cpc, task, pq, since>>

\* until(closed, _SETTLE_S)
SettlePairing ==
    /\ vpc = "settling" /\ (closed \/ Quiet)
    /\ vpc' = "verdict"
    /\ UNCHANGED <<case, up, down, rec, flagged, keyed, closed, spc, cpc, task, pq, since>>

Finished == vpc = "verdict" /\ UNCHANGED vars

Next ==
    \/ ClientOpens \/ ClientReads \/ ClientTime
    \/ ReadInit \/ ReadMessage2 \/ ReadHello \/ Activate \/ ReadMessage
    \/ TaskBegins \/ TaskReads \/ TaskTimeout
    \/ Watch \/ NextConnection \/ Step \/ Response \/ SettlePairing \/ Finished

Spec == Init /\ [][Next]_vars /\ WF_vars(Next)

-----------------------------------------------------------------------------
(* The checks of the opening, over the connection's record.                  *)

Rejected == flagged # "none"
TheFirst(t) == First(Came({t}, 0))
\* _client_init, _client_hello: what is judged, and "na" where there is none.
OfInit(holds(_)) == IF rec[1].t # "client/init" THEN "na" ELSE IF holds(rec[1].v) THEN "pass" ELSE "fail"
OfHello(holds(_)) == IF ~Said("client/hello") THEN "na" ELSE IF holds(rec[TheFirst("client/hello")].v) THEN "pass" ELSE "fail"

OpensWithInit == IF rec[1].t = "client/init" THEN "pass" ELSE "fail"
ClientId == OfInit(LAMBDA v : v.id)
InitVersion == OfInit(LAMBDA v : v.version = 1)
InitSuite == OfInit(LAMBDA v : v.suite)
InitFields == OfInit(LAMBDA v : ~v.extra)

Cleartext == {"client/init", "cleartext", "msg1", "msg2", "server/error"}
Transport == {n \in DOMAIN rec : rec[n].t \notin Cleartext}

NoiseMessage2 ==
    IF ~Said("msg2") THEN IF Sent({"server/error"}, 0) # {} THEN "na" ELSE "tool"
    ELSE IF flagged = "noise" THEN "fail"
    ELSE IF \E n \in Transport : ~rec[n].i THEN "pass" ELSE "tool"

\* check_nothing_before_activation
NothingBeforeActivation ==
    LET activation == First(Sent({"server/activate"}, 0))
        early == {n \in Transport : rec[n].i /\ (activation # 0 => n < activation)
                                   /\ rec[n].t \notin {"client/hello", "client/goodbye"}}
    IN  IF Transport = {} THEN "na" ELSE IF early # {} THEN "fail" ELSE "pass"

HelloSent ==
    IF Said("client/hello") THEN "pass"
    ELSE IF Sent({"server/hello"}, 0) = {} \/ Said("client/goodbye") \/ Rejected THEN "na"
    ELSE "fail"

ListedRoles(h) == IF h.form = "notlist" THEN {} ELSE h.roles
HelloSupport == OfHello(LAMBDA h : ListedRoles(h) \cap {"player"} \subseteq h.support /\ h.support \subseteq ListedRoles(h))
HelloRoles == OfHello(LAMBDA h : h.form = "ok")
HelloPairMethods == OfHello(LAMBDA h :
    /\ "pairing_psk" \in h.methods
    /\ ~({"static_pairing_code", "dynamic_pairing_code"} \subseteq h.methods)
    /\ "dynamic_pairing_code" \in h.methods => h.display)
HelloAccess == OfHello(LAMBDA h : h.access # "missing")
HelloFields == OfHello(LAMBDA h : ~h.extra)
HelloName == IF OfHello(LAMBDA h : h.name) = "fail" THEN "warn" ELSE OfHello(LAMBDA h : h.name)

\* _active_roles: every role activated before frame n, or ever when there is none.
ActiveRoles(n) == UNION {rec[k].v.roles : k \in {a \in Sent({"server/activate"}, 0) : n # 0 => a < n}}

InitialStateSent ==
    IF Sent({"server/activate"}, 0) = {} \/ ActiveRoles(TheFirst("client/state")) = {} THEN "na"
    ELSE IF Said("client/state") THEN "pass"
    ELSE IF Came({"client/goodbye"}, First(Sent({"server/activate"}, 0))) # {} \/ Rejected THEN "na"
    ELSE "fail"

StateAvailable ==
    IF ~Said("client/state") THEN "na"
    ELSE IF \A n \in Came({"client/state"}, 0) : rec[n].v.available THEN "pass" ELSE "fail"

StateRoleObjects ==
    LET n == TheFirst("client/state")
    IN  IF n = 0 THEN "na" ELSE IF rec[n].v.objects \subseteq ActiveRoles(n) THEN "pass" ELSE "fail"

TimeInteger ==
    IF ~Said("client/time") THEN "na"
    ELSE IF \A n \in Came({"client/time"}, 0) : rec[n].v THEN "pass" ELSE "fail"

\* check_noncompliance, on the observed connection and on every later one.
Strict == CASE flagged = "none" -> "pass" [] flagged = "noise" -> "na" [] OTHER -> "fail"

-----------------------------------------------------------------------------
(* The checks of the suites' steps.                                          *)

Refusals == {"pair/abort", "client/goodbye"}

NotReachedNever(otherwise) == otherwise
NotReached(otherwise) == IF Rejected THEN "na" ELSE otherwise

\* _judge_refusal
Refusal(activation, reason) ==
    LET goodbye == First(Came({"client/goodbye"}, activation))
    IN  IF goodbye # 0 THEN IF rec[goodbye].v = reason THEN "pass" ELSE "fail"
        ELSE NotReached("fail")

Declared(holds(_)) == First({k \in Sent({"server/activate"}, 0) : holds(rec[k].v)})

PairingRequired ==
    LET activation == Declared(LAMBDA v : v.playback)
    IN  IF activation = 0 THEN "na" ELSE Refusal(activation, "pairing_required")
InadmissibleActivation ==
    LET activation == Declared(LAMBDA v : v.method # "none")
    IN  IF activation = 0 THEN "na" ELSE Refusal(activation, "unauthorized")

UnpairedPlayback ==
    LET activation == Declared(LAMBDA v : v.roles # {})
        response == First(Came({"client/state"} \cup Refusals, activation))
    IN  IF activation = 0 THEN "tool"
        ELSE IF response = 0 THEN NotReached("fail")
        ELSE IF rec[response].t = "client/state" THEN "pass" ELSE "fail"

PairingActivation(n) == First({k \in Sent({"server/activate"}, n) : rec[k].v.method = "pairing_psk"})

PairingRehandshake ==
    LET message1 == First(Sent({"rehs1"}, since))
        message2 == First(Came({"rehs2"}, message1))
    IN  IF message1 = 0 THEN "na"
        ELSE IF message2 = 0 \/ PairingActivation(message2) = 0 THEN NotReached("fail") ELSE "pass"

\* The attempt is the first since the handshake, so its index is 1.
PairInit ==
    LET activation == PairingActivation(since)
        response == First(Came({"client/pair-init", "client/pair-finalize"} \cup Refusals, activation))
    IN  IF activation = 0 THEN "na"
        ELSE IF response = 0 THEN NotReached("fail")
        ELSE IF rec[response].t = "client/pair-init" /\ rec[response].v.index = 1 /\ ~rec[response].v.commit
        THEN "pass" ELSE "fail"

PairFinalize ==
    LET init == First(Came({"client/pair-init"}, since))
        finalize == First(Came({"client/pair-init", "client/pair-finalize"} \cup Refusals, init))
    IN  IF init = 0 THEN "na"
        ELSE IF finalize = 0 THEN NotReached("fail")
        ELSE IF /\ rec[finalize].t = "client/pair-finalize" /\ ~rec[finalize].v.wrapped
                /\ Sent({"server/pair-finalize"}, finalize) # {}
        THEN "pass" ELSE "fail"

Promotion ==
    LET acknowledged == First(Sent({"server/pair-finalize"}, since))
        message1 == First(Sent({"rehs1"}, acknowledged))
        psks == {n \in DOMAIN keyed : keyed[n][2] > acknowledged}
    IN  IF acknowledged = 0 \/ message1 = 0 THEN "na"
        ELSE IF Came({"rehs2"}, message1) = {} THEN NotReached("fail")
        ELSE IF psks # {} /\ keyed[Min(psks)][1] = "long_term" THEN "pass" ELSE "fail"

PairedActivation ==
    LET acknowledged == First(Sent({"server/pair-finalize"}, since))
        message2 == First(Came({"rehs2"}, acknowledged))
        activation == First(Sent({"server/activate"}, message2))
    IN  IF acknowledged = 0 \/ message2 = 0 \/ activation = 0 THEN "na"
        ELSE IF Came(Refusals, activation) # {} \/ closed THEN "fail" ELSE "pass"

-----------------------------------------------------------------------------
(* The report.                                                               *)

\* run_checks and check_noncompliance.
OpeningFindings ==
    [INIT |-> OpensWithInit, INIT_ID |-> ClientId, INIT_VERSION |-> InitVersion, INIT_SUITE |-> InitSuite, INIT_FIELDS |-> InitFields,
     NOISE |-> NoiseMessage2, ORDER |-> NothingBeforeActivation,
     HELLO |-> HelloSent, SUPPORT |-> HelloSupport, ROLES |-> HelloRoles, METHODS |-> HelloPairMethods,
     ACCESS |-> HelloAccess, HELLO_FIELDS |-> HelloFields, NAME |-> HelloName,
     STATE_SENT |-> InitialStateSent, AVAILABLE |-> StateAvailable, OBJECTS |-> StateRoleObjects, TIME |-> TimeInteger]

StepFindings ==
    CASE plan = "U2" -> [U2 |-> PairingRequired]
      [] plan = "U3" -> [U3 |-> UnpairedPlayback]
      [] plan = "U4" -> [U4 |-> InadmissibleActivation]
      [] plan = "P1" -> [PSK3 |-> PairingRehandshake, PSK4 |-> PairInit, PSK5 |-> PairFinalize, PSK6 |-> Promotion, PSK7 |-> PairedActivation]
      [] OTHER -> [none |-> "na"]

\* judge_session and the step's own findings; a step that found no connection reports nothing but N/A.
Findings ==
    LET opening == IF later THEN [STRICT |-> Strict] ELSE OpeningFindings @@ [STRICT |-> Strict]
    IN  IF since = 0 THEN opening ELSE opening @@ StepFindings

With(vs) == {c \in DOMAIN Findings : Findings[c] \in vs}

-----------------------------------------------------------------------------
(* Properties.                                                               *)

\* What each fault breaks: the checks that are about it.
About ==
    CASE fault = "noinit" -> {"INIT"} [] fault = "badid" -> {"INIT_ID"} [] fault = "badversion" -> {"INIT_VERSION"}
      [] fault = "badsuite" -> {"INIT_SUITE"} [] fault = "extrainit" -> {"INIT_FIELDS"}
      [] fault \in {"nomsg2", "noisepayload", "garbled2"} -> {"NOISE"}
      [] fault = "nohello" -> {"HELLO"} [] fault = "earlier" -> {"ORDER", "HELLO", "OBJECTS"} [] fault = "early" -> {"ORDER", "OBJECTS"}
      [] fault = "rolesnotlist" -> {"ROLES", "SUPPORT"} [] fault = "unversioned" -> {"ROLES"}
      [] fault \in {"nosupport", "oversupport"} -> {"SUPPORT"} [] fault \in {"nopsk", "bothcodes", "nodisplay"} -> {"METHODS"}
      [] fault = "noaccess" -> {"ACCESS"} [] fault = "extrahello" -> {"HELLO_FIELDS"} [] fault = "othername" -> {"NAME"}
      [] fault = "nostate" -> {"STATE_SENT", "U3"} [] fault = "noavailable" -> {"AVAILABLE", "PSK6", "PSK7"} [] fault = "inactive" -> {"OBJECTS"}
      [] fault = "badtime" -> {"TIME"} [] fault \in {"accepts", "closes", "silent", "wrongreason"} -> {"U2", "U4", "STATE_SENT"}
      [] fault = "refuses" -> {"U3", "PSK3"} [] fault \in {"norehandshake", "wrongpsk"} -> {"PSK3"}
      [] fault \in {"nopairinit", "onlyfinalize"} -> {"PSK4"} [] fault \in {"badindex", "commit"} -> {"PSK4", "PSK5"}
      [] fault \in {"nofinalize", "badkey", "wrapped"} -> {"PSK5"} [] fault = "nopromotion" -> {"PSK6"}
      [] fault = "refusespaired" -> {"PSK6", "PSK7"} [] OTHER -> {}

\* The client did what the fault is, on this connection.
Showed ==
    CASE fault \in {"none", "goodbyehello"} -> FALSE
      [] fault \in {"accepts", "closes", "silent", "wrongreason"} -> plan \in {"U2", "U4"} /\ since # 0
      [] fault = "noavailable" -> Said("client/state")
      [] fault = "inactive" -> Said("client/state") /\ ~later
      [] fault = "badtime" -> Said("client/time")
      [] fault = "nostate" -> access = "on" /\ (~later \/ plan = "U3")
      [] fault = "refuses" -> plan = "U3" /\ since # 0
      [] fault \in {"norehandshake", "wrongpsk", "nopairinit", "onlyfinalize", "badindex", "commit", "nofinalize",
                    "badkey", "wrapped", "nopromotion", "refusespaired"} -> plan = "P1" /\ since # 0
      [] OTHER -> ~later

\* A client that conforms is blamed for nothing: no check of the opening or of a step fails, warns or gives
\* up on it, whatever its clock messages cross and however the observation and the connection's end race.
ConformantNotBlamed == vpc = "verdict" /\ fault \in {"none", "goodbyehello"} => With({"fail", "warn", "tool"}) = {}

\* A fault the client showed is reported, by a verdict or, where the payload is encrypted or never came,
\* by a TOOL_ERROR: the checks that are N/A once the strict server has ended the connection do not hide it.
FaultFound == vpc = "verdict" /\ Showed /\ fault # "early" => With({"fail", "warn", "tool"}) # {}

\* Only what a fault breaks is reported: an early end of the connection (a rejection, a goodbye, a close)
\* leaves every check of what was not reached N/A, and never fails one.
BlameIsPrecise == vpc = "verdict" => With({"fail", "warn"}) \subseteq About \cup {"STRICT"}

\* CORE-ORDER-001 as its docstring states it: a message other than the hello or a goodbye that the client
\* sends before it is activated fails the check.
EarlyMessageIsFound == vpc = "verdict" /\ fault = "early" /\ ~later => NothingBeforeActivation = "fail"

\* The session reaches its report: every wait is bounded, by what it waits for, the connection's end or its
\* deadline.
SessionEnds == <>(vpc = "verdict")
=============================================================================
