--------------------------------- MODULE Dial ---------------------------------
(***************************************************************************)
(* Who is connected to the SDK server (server/server.py, server/client.py): *)
(* one background task per dialed URL that connects, serves a connection    *)
(* and redials, the tables the tasks share, mDNS announcements, the         *)
(* connections themselves from hello to close, and the client registry      *)
(* with its timers.                                                         *)
(*                                                                          *)
(* The event loop runs one handler at a time; a handler gives way where it  *)
(* awaits. A task that was cancelled ends in a step of its own.             *)
(***************************************************************************)
EXTENDS Integers, FiniteSets

CONSTANTS Urls, Clients, \* WebSocket addresses, and the devices that may answer there
          NoUrl, NoOne,
          MaxTasks,      \* bound: dial tasks ever started
          MaxConns,      \* bound: connections ever made
          MaxOps,        \* bound: calls of the application and mDNS events
          Reasons        \* how a connection may end (see AllReasons)

VARIABLES tab,    \* the server's tables, by URL
          task,   \* the dial tasks
          conn,   \* the connections
          client, \* the registry
          mdns,   \* the URL the device's service announces, and the goodbye URLs
          ops,    \* calls so far
          asked   \* ghost: URLs somebody wants dialed, URLs disconnected under a waiter, URLs
                  \* whose client ended its session for good, and URLs dialed again before
                  \* their earlier task was over (see Asks)

vars == <<tab, task, conn, client, mdns, ops, asked>>

TaskIds == 1..MaxTasks
ConnIds == 1..MaxConns

\* client/goodbye reasons, by what the server does about them.
AllReasons == {"none", "restart", "another_server", "shutdown"}
NoRedial == {"another_server"}

ASSUME DialAssumption ==
    /\ NoUrl \notin Urls /\ NoOne \notin Clients
    /\ Reasons \subseteq AllReasons
    /\ MaxTasks \in Nat /\ MaxConns \in Nat /\ MaxOps \in Nat

NewTables ==
    [task |-> [u \in Urls |-> 0],           \* _connection_tasks
     dial |-> [u \in Urls |-> 0],           \* _dial_connections
     redial |-> {}, succeeded |-> {}, persistent |-> {}, playback |-> {},
     waiters |-> {}]                        \* URLs with someone in connect_to_client_and_wait

NewClient == [known |-> FALSE, conn |-> 0, up |-> FALSE, timer |-> FALSE, retained |-> FALSE,
              reclaim |-> FALSE, deferred |-> FALSE, url |-> NoUrl]

NewTask == [pc |-> "none", url |-> NoUrl, first |-> FALSE, cut |-> FALSE]

NewConn == [pc |-> "none", task |-> 0, url |-> NoUrl, want |-> NoOne, peer |-> NoOne,
            bye |-> "none", closing |-> FALSE, active |-> "none"]

Init ==
    /\ tab = NewTables
    /\ task = [t \in TaskIds |-> NewTask]
    /\ conn = [k \in ConnIds |-> NewConn]
    /\ client = [c \in Clients |-> NewClient]
    /\ mdns = [url |-> NoUrl, bye |-> {}]
    /\ ops = 0
    /\ asked = [dial |-> {}, cut |-> {}, ended |-> {}, beside |-> {}]

-----------------------------------------------------------------------------
(* Connections, as the server sees them.                                     *)

\* should_retry_server_initiated_connection
ShouldRetry(k) ==
    /\ ~conn[k].closing
    /\ IF conn[k].bye = "none" THEN conn[k].active # "other" ELSE conn[k].bye = "restart"

EndedWithoutRedial(k) ==
    conn[k].bye \in NoRedial \/ (conn[k].bye = "none" /\ ~conn[k].closing)

Disconnecting(k) == k # 0 /\ conn[k].pc \in {"closing", "gone"}

\* get_client_id_for_url
ClientAt(u) ==
    LET cs == {c \in Clients : client[c].url = u}
    IN  IF Cardinality(cs) = 1 THEN CHOOSE c \in cs : TRUE ELSE NoOne

-----------------------------------------------------------------------------
(* Dialing. An operator takes the tables and the tasks and returns them.     *)

Fresh == {t \in TaskIds : task[t].pc = "none"}
NextTask == CHOOSE t \in Fresh : \A s \in Fresh : t <= s

CanDial(u) == tab.task[u] # 0 \/ Fresh # {}

\* A task of the URL is not over: it winds down, or lost its place in the table.
WindingDown(u) == tab.task[u] = 0 /\ \E t \in TaskIds : task[t].url = u

\* _redial_if_closing: an explicit dial while the last connection closes for good.
RedialIfClosing(tb, u) ==
    LET k == tb.dial[u]
    IN  IF Disconnecting(k) /\ ~ShouldRetry(k)
        THEN [tb EXCEPT !.redial = @ \cup {u}, !.succeeded = @ \ {u}]
        ELSE tb

\* _dial: leave it to the task there is, or start one. The retry event a dial sets only cuts
\* the sleep between two attempts short, and a sleep may end at any time here.
StartDial(tb, u, playback, persist) ==
    LET tp == [tb EXCEPT !.playback = IF playback THEN @ \cup {u} ELSE @ \ {u},
                         !.persistent = IF persist THEN @ \cup {u} ELSE @]
    IN  IF tb.task[u] # 0
        THEN tab' = tp /\ UNCHANGED task
        ELSE /\ tab' = [tp EXCEPT !.task[u] = NextTask, !.succeeded = @ \ {u}]
             /\ task' = [task EXCEPT ![NextTask] = [NewTask EXCEPT !.pc = "new", !.url = u]]

\* A dial is unsettled from the moment it starts a task beside one that is not over, whose end
\* will take the new one's entries out of the tables (see Popped), until all of them are over;
\* whoever waits may then be forgotten.
Asks(u) ==
    asked' = [asked EXCEPT !.dial = @ \cup {u}, !.ended = @ \ {u},
                           !.beside = IF WindingDown(u) THEN @ \cup {u}
                                      ELSE IF tab.task[u] = 0 THEN @ \ {u} ELSE @,
                           !.cut = IF WindingDown(u) THEN @ \cup {u} ELSE @]

Cut(u) == [asked EXCEPT !.dial = @ \ {u}, !.cut = @ \cup ({u} \cap tab.waiters), !.ended = @ \ {u}]

Call == ops < MaxOps /\ ops' = ops + 1

\* connect_to_client
ConnectToClient(u, persist) ==
    /\ Call /\ CanDial(u)
    /\ StartDial(RedialIfClosing(tab, u), u, FALSE, persist)
    /\ mdns' = [mdns EXCEPT !.bye = @ \ {u}]
    /\ Asks(u)
    /\ UNCHANGED <<conn, client>>

\* connect_to_client_and_wait: returns at once when the URL is connected.
ConnectAndWait(u) ==
    LET tb == RedialIfClosing(tab, u)
    IN  /\ Call /\ CanDial(u)
        /\ IF u \in tb.succeeded
           THEN tab' = [tb EXCEPT !.playback = @ \ {u}] /\ UNCHANGED task
           ELSE StartDial([tb EXCEPT !.waiters = @ \cup {u}], u, FALSE, FALSE)
        /\ mdns' = [mdns EXCEPT !.bye = @ \ {u}]
        /\ Asks(u)
        /\ UNCHANGED <<conn, client>>

\* reclaim_client_for_playback, for a client that is not connected
ReclaimClient(c) ==
    LET u == client[c].url
    IN  /\ Call /\ client[c].known /\ ~client[c].up /\ u # NoUrl /\ CanDial(u)
        /\ StartDial(RedialIfClosing(tab, u), u, TRUE, FALSE)
        /\ client' = [client EXCEPT ![c].reclaim = TRUE]
        /\ mdns' = [mdns EXCEPT !.bye = @ \ {u}]
        /\ Asks(u)
        /\ UNCHANGED conn

\* disconnect_from_client: the task is cancelled and no longer the URL's.
Disconnected(tb, u) ==
    [tb EXCEPT !.task[u] = 0, !.succeeded = @ \ {u}, !.persistent = @ \ {u}, !.playback = @ \ {u}]

CutTask(ts, u) ==
    IF tab.task[u] = 0 THEN ts ELSE [ts EXCEPT ![tab.task[u]].cut = TRUE]

DisconnectFromClient(u) ==
    /\ Call
    /\ tab' = Disconnected(tab, u)
    /\ task' = CutTask(task, u)
    /\ asked' = Cut(u)
    /\ UNCHANGED <<conn, client, mdns>>

-----------------------------------------------------------------------------
(* The registry.                                                             *)

\* remove_client, from the timers: the group is left in the background.
Removed(cl, c) == [cl EXCEPT ![c] = NewClient]

\* _full_unregister_disconnected_client: deferred while the URL's task may yet reconnect it.
FullUnregister(cl, tasks, c) ==
    IF cl[c].conn # 0 THEN cl
    ELSE IF cl[c].url # NoUrl /\ tasks[cl[c].url] # 0 THEN [cl EXCEPT ![c].deferred = TRUE]
    ELSE Removed(cl, c)

\* _expire_reclaim
ExpireReclaim(c) ==
    /\ client[c].reclaim
    /\ client' = FullUnregister([client EXCEPT ![c].reclaim = FALSE], tab.task, c)
    /\ UNCHANGED <<tab, task, conn, mdns, ops, asked>>

\* _do_cleanup
DoCleanup(c) ==
    /\ client[c].timer
    /\ client' = IF client[c].up THEN [client EXCEPT ![c].timer = FALSE] ELSE Removed(client, c)
    /\ UNCHANGED <<tab, task, conn, mdns, ops, asked>>

\* _complete_deferred_unregister, at the end of the URL's task
CompleteDeferred(cl, tasks, u, succeeded, cut) ==
    LET c == ClientAt(u)
    IN  IF c = NoOne \/ ~cl[c].deferred THEN cl
        ELSE LET settled == [cl EXCEPT ![c].deferred = FALSE]
             IN  IF succeeded \/ cut THEN settled ELSE FullUnregister(settled, tasks, c)

-----------------------------------------------------------------------------
(* A dial task.                                                              *)

\* Top of the loop: a dial from now on is served by this attempt.
BeginAttempt(t) ==
    LET u == task[t].url
    IN  /\ task[t].pc \in {"new", "sleep"} /\ ~task[t].cut
        /\ task' = [task EXCEPT ![t].pc = "connecting"]
        /\ tab' = [tab EXCEPT !.dial[u] = 0, !.redial = @ \ {u}]
        /\ UNCHANGED <<conn, client, mdns, ops, asked>>

FreshConn == {k \in ConnIds : conn[k].pc = "none"}
NextConn == CHOOSE k \in FreshConn : \A j \in FreshConn : k <= j

\* The WebSocket is up.
Connected(t) ==
    LET u == task[t].url
    IN  /\ task[t].pc = "connecting" /\ ~task[t].cut /\ FreshConn # {}
        /\ task' = [task EXCEPT ![t].pc = "session", ![t].first = TRUE]
        /\ conn' = [conn EXCEPT ![NextConn] =
                       [@ EXCEPT !.pc = "hello", !.task = t, !.url = u, !.want = ClientAt(u)]]
        /\ tab' = IF task[t].first THEN [tab EXCEPT !.dial[u] = NextConn]
                  ELSE [tab EXCEPT !.dial[u] = NextConn, !.succeeded = @ \cup {u},
                                   !.waiters = @ \ {u}]
        /\ UNCHANGED <<client, mdns, ops, asked>>

\* What the finally clause takes out of the tables, whoever's they are by now.
Popped(tb, u) ==
    [tb EXCEPT !.task[u] = 0, !.dial[u] = 0, !.redial = @ \ {u},
               !.succeeded = @ \ {u}, !.persistent = @ \ {u}, !.playback = @ \ {u}]

\* A connection no task and no client has.
Over == [NewConn EXCEPT !.pc = "gone"]

EndTask(t, tb) ==
    LET u == task[t].url
        tb2 == Popped(tb, u)
    IN  /\ task' = [task EXCEPT ![t] = [NewTask EXCEPT !.pc = "done"]]
        /\ conn' = [k \in ConnIds |-> IF conn[k].task = t THEN Over ELSE conn[k]]
        /\ tab' = tb2
        /\ client' = CompleteDeferred(client, tb2.task, u, task[t].first, task[t].cut)

\* A connection attempt timed out or was refused.
ConnectFails(t) ==
    LET u == task[t].url
    IN  /\ task[t].pc = "connecting" /\ ~task[t].cut
        /\ IF task[t].first \/ u \in tab.persistent
           THEN task' = [task EXCEPT ![t].pc = "sleep"] /\ UNCHANGED <<tab, client, conn>>
           ELSE EndTask(t, [tab EXCEPT !.waiters = @ \ {u}])
        /\ UNCHANGED <<mdns, ops, asked>>

SessionOf(t) == CHOOSE k \in ConnIds : conn[k].task = t /\ \A j \in ConnIds : conn[j].task = t => j <= k

\* Faulty variant: the goodbye of a client is not remembered for its announcements.
SessionEndsForgetting(t) ==
    LET k == SessionOf(t)
        u == task[t].url
    IN  /\ task[t].pc = "session" /\ ~task[t].cut /\ conn[k].pc = "gone"
        /\ u \notin tab.redial /\ ~ShouldRetry(k)
        /\ asked' = [asked EXCEPT !.dial = @ \ {u}]
        /\ EndTask(t, tab)
        /\ UNCHANGED <<mdns, ops>>

\* The connection is over: redial on request, stop for good, or reconnect.
SessionEnds(t) ==
    LET k == SessionOf(t)
        u == task[t].url
    IN  /\ task[t].pc = "session" /\ ~task[t].cut /\ conn[k].pc = "gone"
        /\ \/ /\ u \in tab.redial
              /\ task' = [task EXCEPT ![t].pc = "sleep", ![t].first = FALSE]
              /\ UNCHANGED <<tab, conn, client, mdns, asked>>
           \/ /\ u \notin tab.redial /\ ~ShouldRetry(k)
              /\ mdns' = IF mdns.url = u /\ EndedWithoutRedial(k)
                         THEN [mdns EXCEPT !.bye = @ \cup {u}] ELSE mdns
              /\ asked' = [asked EXCEPT !.dial = @ \ {u}]
              /\ EndTask(t, tab)
           \/ /\ u \notin tab.redial /\ ShouldRetry(k)
              /\ task' = [task EXCEPT ![t].pc = "sleep"]
              /\ UNCHANGED <<tab, conn, client, mdns, asked>>
        /\ UNCHANGED ops

\* A cancelled task: its connection is closed first. One that never ran just ends.
TaskCancelled(t) ==
    LET u == task[t].url
    IN  /\ task[t].cut /\ task[t].pc \in {"new", "connecting", "sleep", "session"}
        /\ task[t].pc = "session" => conn[SessionOf(t)].pc = "gone"
        /\ IF task[t].pc = "new"
           THEN task' = [task EXCEPT ![t] = [NewTask EXCEPT !.pc = "done"]] /\ UNCHANGED <<tab, conn, client>>
           ELSE EndTask(t, IF task[t].first THEN tab ELSE [tab EXCEPT !.waiters = @ \ {u}])
        /\ UNCHANGED <<mdns, ops, asked>>

-----------------------------------------------------------------------------
(* A connection.                                                             *)

\* on_client_connect: a client dials the server.
Incoming ==
    /\ Call /\ FreshConn # {}
    /\ conn' = [conn EXCEPT ![NextConn].pc = "hello"]
    /\ UNCHANGED <<tab, task, client, mdns, asked>>

\* _attach_new_client and attach_connection: the previous connection of the client is told to
\* close and no longer is the client's.
Attached(c, k) ==
    [client[c] EXCEPT !.known = TRUE, !.conn = k, !.up = FALSE, !.timer = FALSE,
                      !.retained = FALSE, !.reclaim = FALSE]

\* register_client_url: whoever had the URL loses it, and a deferred one goes.
RegisterUrl(cl, c, u) ==
    [d \in Clients |->
        IF d = c THEN [cl[d] EXCEPT !.url = u]
        ELSE IF cl[d].url = u
             THEN IF cl[d].deferred
                  THEN FullUnregister([cl EXCEPT ![d].url = NoUrl, ![d].deferred = FALSE],
                                      tab.task, d)[d]
                  ELSE [cl[d] EXCEPT !.url = NoUrl]
        ELSE cl[d]]

Attach(k, c) ==
    LET u == conn[k].url
        old == client[c].url
        moved == u # NoUrl /\ old \notin {NoUrl, u}
        cl == [client EXCEPT ![c] = Attached(c, k)]
        stranger == u # NoUrl /\ conn[k].want \notin {NoOne, c}
        tb == IF stranger THEN [tab EXCEPT !.playback = @ \ {u}] ELSE tab
    IN  /\ conn[k].pc = "hello"
        /\ conn[k].task # 0 => ~task[conn[k].task].cut
        /\ client' = IF u = NoUrl THEN cl ELSE RegisterUrl(cl, c, u)
        /\ conn' = [j \in ConnIds |->
                      IF j = k THEN [conn[k] EXCEPT !.pc = "attached", !.peer = c]
                      ELSE IF j = client[c].conn /\ conn[j].pc = "attached"
                      THEN [conn[j] EXCEPT !.pc = "closing", !.closing = TRUE]
                      ELSE IF j = client[c].conn THEN [conn[j] EXCEPT !.closing = TRUE]
                      ELSE conn[j]]
        /\ tab' = IF moved THEN Disconnected(tb, old) ELSE tb
        /\ task' = IF moved THEN CutTask(task, old) ELSE task
        /\ asked' = IF moved THEN Cut(old)
                    ELSE asked
        /\ UNCHANGED <<mdns, ops>>

\* The first server/activate uses up a playback dial; other is a session for pairing alone.
Activate(k) ==
    LET u == conn[k].url
    IN  /\ conn[k].pc = "attached" /\ conn[k].active = "none"
        /\ \E a \in {"idle", "other"} :
              conn' = [conn EXCEPT ![k].active = IF u \in tab.playback THEN "playback" ELSE a]
        /\ tab' = IF u = NoUrl THEN tab ELSE [tab EXCEPT !.playback = @ \ {u}]
        /\ UNCHANGED <<task, client, mdns, ops, asked>>

\* mark_connected
MarkConnected(k) ==
    /\ conn[k].pc = "attached" /\ conn[k].active # "none" /\ client[conn[k].peer].conn = k
    /\ ~client[conn[k].peer].up
    /\ client' = [client EXCEPT ![conn[k].peer].up = TRUE]
    /\ UNCHANGED <<tab, task, conn, mdns, ops, asked>>

\* disconnect begins: a goodbye, a lost socket, or the cancelled dial task.
BeginClose(k, r) ==
    /\ conn[k].pc \in {"hello", "attached"}
    /\ conn' = [conn EXCEPT ![k].pc = "closing", ![k].bye = r,
                            ![k].closing = @ \/ r \notin {"none", "restart"}]
    /\ asked' = [asked EXCEPT !.ended =
                    IF /\ conn[k].task # 0 /\ ~task[conn[k].task].cut /\ r \in NoRedial
                       /\ conn[k].url \notin asked.beside
                    THEN @ \cup {conn[k].url} ELSE @]
    /\ UNCHANGED <<tab, task, client, mdns, ops>>

\* _schedule_cleanup
ScheduleCleanup(cl, r) ==
    IF r = "another_server" THEN [cl EXCEPT !.retained = TRUE]
    ELSE [cl EXCEPT !.retained = FALSE, !.timer = TRUE]

\* Faulty variant: the client is detached whichever connection it has by now.
DetachRegardless(cl, k) ==
    [cl EXCEPT !.up = FALSE, !.conn = 0, !.timer = TRUE]

\* detach_connection, if this connection still is the client's.
Detach(cl, k) ==
    IF cl.conn = k THEN ScheduleCleanup([cl EXCEPT !.up = FALSE, !.conn = 0], conn[k].bye) ELSE cl

CloseDone(k) ==
    LET c == conn[k].peer
    IN  /\ conn[k].pc = "closing"
        /\ conn' = [conn EXCEPT ![k] = IF @.task = 0 THEN Over ELSE [@ EXCEPT !.pc = "gone"]]
        /\ client' = IF c = NoOne THEN client ELSE [client EXCEPT ![c] = Detach(@, k)]
        /\ UNCHANGED <<tab, task, mdns, ops, asked>>

-----------------------------------------------------------------------------
(* mDNS, for the service of one device.                                      *)

\* _is_closing_without_redial
ClosingWithoutRedial(u) ==
    /\ u # NoUrl
    /\ LET k == tab.dial[u]
       IN  Disconnecting(k) /\ ~ShouldRetry(k) /\ u \notin tab.redial /\ EndedWithoutRedial(k)

SaidGoodbye(u) == u \in mdns.bye \/ ClosingWithoutRedial(u)

\* _handle_service_added for Added, and for Updated when the client did not say goodbye.
ServiceAnnounced(u, updated) ==
    /\ Call /\ CanDial(u)
    /\ updated => ~SaidGoodbye(mdns.url)
    /\ StartDial(tab, u, u \in tab.playback, FALSE)
    /\ mdns' = [url |-> u, bye |-> mdns.bye \ {u}]
    /\ IF updated /\ mdns.url \in asked.ended THEN UNCHANGED asked ELSE Asks(u)
    /\ UNCHANGED <<conn, client>>

\* Updated after a goodbye: the address is noted, nothing is dialed.
ServiceMoved(u) ==
    LET old == mdns.url
        moved == {c \in Clients : client[c].url = old}
    IN  /\ Call /\ old # NoUrl /\ SaidGoodbye(old)
        /\ IF u = old THEN UNCHANGED <<mdns, client, tab, task, asked>>
           ELSE /\ mdns' = [url |-> u, bye |-> (mdns.bye \ {old}) \cup {u}]
                /\ client' = IF moved = {} THEN client
                             ELSE RegisterUrl(client, CHOOSE c \in moved : TRUE, u)
                /\ tab' = IF moved = {} THEN tab ELSE Disconnected(tab, old)
                /\ task' = IF moved = {} THEN task ELSE CutTask(task, old)
                /\ asked' = [(IF moved = {} THEN asked ELSE Cut(old))
                               EXCEPT !.ended = (@ \ {old}) \cup {u}]
        /\ UNCHANGED conn

\* _handle_service_removed and the cleanup of the clients retained for it.
ServiceRemoved ==
    LET u == mdns.url
        at == {c \in Clients : client[c].url = u}
        wanted == \E c \in at : client[c].known /\ ~client[c].retained
    IN  /\ Call /\ u # NoUrl
        /\ mdns' = [url |-> NoUrl, bye |-> mdns.bye \ {u}]
        /\ tab' = IF wanted THEN tab ELSE Disconnected(tab, u)
        /\ task' = IF wanted THEN task ELSE CutTask(task, u)
        /\ asked' = [(IF wanted THEN asked ELSE Cut(u)) EXCEPT !.ended = @ \ {u}]
        /\ client' = [c \in Clients |->
                        IF c \notin at THEN client[c]
                        ELSE IF client[c].retained /\ ~client[c].up THEN NewClient
                        ELSE IF client[c].retained \/ ~client[c].known
                             THEN [client[c] EXCEPT !.url = NoUrl]
                        ELSE client[c]]
        /\ UNCHANGED conn

Next ==
    \/ \E u \in Urls : ConnectToClient(u, TRUE)
    \/ \E u \in Urls : ConnectAndWait(u)
    \/ \E c \in Clients : ReclaimClient(c)
    \/ \E u \in Urls : DisconnectFromClient(u)
    \/ \E c \in Clients : ExpireReclaim(c)
    \/ \E c \in Clients : DoCleanup(c)
    \/ \E t \in TaskIds : BeginAttempt(t)
    \/ \E t \in TaskIds : Connected(t)
    \/ \E t \in TaskIds : ConnectFails(t)
    \/ \E t \in TaskIds : SessionEnds(t)
    \/ \E t \in TaskIds : TaskCancelled(t)
    \/ Incoming
    \/ \E k \in ConnIds, c \in Clients : Attach(k, c)
    \/ \E k \in ConnIds : Activate(k)
    \/ \E k \in ConnIds : MarkConnected(k)
    \/ \E k \in ConnIds, r \in Reasons : BeginClose(k, r)
    \/ \E k \in ConnIds : CloseDone(k)
    \/ \E u \in Urls, b \in BOOLEAN : ServiceAnnounced(u, b)
    \/ \E u \in Urls : ServiceMoved(u)
    \/ ServiceRemoved

Spec == Init /\ [][Next]_vars

-----------------------------------------------------------------------------
\* The tables name tasks and connections of their own URL.
TypeOK ==
    /\ \A u \in Urls : tab.task[u] # 0 => task[tab.task[u]].url = u
    /\ \A u \in Urls : tab.dial[u] # 0 => conn[tab.dial[u]].url = u
    /\ \A k \in ConnIds : conn[k].pc \in {"none", "hello", "attached", "closing", "gone"}
    /\ \A t \in TaskIds : task[t].pc \in {"none", "new", "connecting", "session", "sleep", "done"}

\* A connection that serves a client is the one the registry has for it, and the registry has
\* no connection that is gone: incoming and dialed connections of one device replace each other
\* (attach_connection) while the replaced one is still closing (disconnect, detach_connection).
OneCurrent ==
    /\ \A k \in ConnIds : conn[k].pc = "attached" =>
          client[conn[k].peer].conn = k /\ client[conn[k].peer].known
    /\ \A c \in Clients : client[c].conn # 0 =>
          conn[client[c].conn].peer = c /\ conn[client[c].conn].pc \in {"attached", "closing"}

\* No device stays in the registry for no reason: disconnected, it has its cleanup timer or was
\* kept because it went to another server (_schedule_cleanup, _do_cleanup, attach_connection).
NoLingering ==
    \A c \in Clients : (client[c].known /\ client[c].conn = 0) => client[c].timer \/ client[c].retained

\* A URL is dialed only while someone wants it: after a client ended its session for good the
\* server does not connect to it again until it is asked to, or the client announces itself
\* anew (_handle_client_connection, _redial_if_closing, _handle_service_added). Not so a URL
\* dialed beside a task that was not over, as long as such tasks run.
DialsAreAsked ==
    \A t \in TaskIds : (task[t].pc = "connecting" /\ ~task[t].cut) =>
        task[t].url \in asked.dial \/ task[t].url \in asked.beside

\* One task per URL is at work, cancelled or not, and the table has it unless it was
\* cancelled (connect_to_client, disconnect_from_client, the finally clause of
\* _handle_client_connection); once the tasks of a URL dialed beside another are over, again.
OneTaskPerUrl ==
    \A t \in TaskIds : (task[t].pc \notin {"none", "done"} /\ task[t].url \notin asked.beside) =>
        /\ ~task[t].cut => tab.task[task[t].url] = t
        /\ \A s \in TaskIds : task[s].url = task[t].url => s = t

\* Whoever waits for a first connection waits for a task that will tell: one that has not
\* connected yet, or is about to start over (connect_to_client_and_wait, unless the URL was
\* disconnected meanwhile, or dialed beside a task that was not over).
WaitersServed ==
    \A u \in tab.waiters : u \in asked.cut \/
        \E t \in TaskIds : task[t].url = u /\ task[t].pc \notin {"none", "done"}
                              /\ (~task[t].first \/ u \in tab.redial)

\* A URL is known for one device at most (register_client_url), so that a dial knows whom to
\* expect.
OneDevicePerUrl == \A c, d \in Clients : (c # d /\ client[c].url # NoUrl) => client[c].url # client[d].url

\* The registry holds one current connection and one device for an address, and a client that ended its
\* session for good does not linger in it.
RegistrySound == TypeOK /\ OneCurrent /\ NoLingering /\ OneDevicePerUrl

\* An address is dialed by one task, as long as somebody asks for it, and whoever waits for its connection
\* is served or told, unless it is dialed again before its earlier task was over.
DialsAreAccounted == DialsAreAsked /\ OneTaskPerUrl /\ WaitersServed

=============================================================================
