-------------------------------- MODULE Link --------------------------------
(***************************************************************************)
(* The validator's Link (validator/suites.py) follows one client, the app  *)
(* under test, from connection to connection: it closes the current one    *)
(* and waits for the next, or waits for the user to restart the app.  All  *)
(* it knows is what the Recorder wrote down (validator/recorder.py): the   *)
(* client/init and client/goodbye frames, the violations, and the KEYED    *)
(* and CLOSED events that _ConnectionEvents (validator/session.py) makes   *)
(* of what the vendored server reports.                                    *)
(*                                                                         *)
(* Meanwhile the app connects, closes and reconnects as it likes, also     *)
(* before its old connection is gone: the server then lets the new one     *)
(* replace the old.  Another client may turn up.                           *)
(*                                                                         *)
(* Where the server dials the app, Link cancels the task that dials and,   *)
(* without an await between, asks for the next connection.  Tasks share    *)
(* the server's tables, which have one entry for the app's url, and a task *)
(* that ends pops that entry, whoever's it is (Dial has the tables of any  *)
(* number of urls).                                                        *)
(***************************************************************************)
EXTENDS Integers, Sequences, FiniteSets, SequencesExt, FiniteSetsExt

CONSTANTS
    MaxConns,       \* bound for TLC: WebSockets the server numbers
    MaxTasks        \* bound for TLC: dial tasks that are not over at one time

ASSUME LinkAssumption == MaxConns \in Nat \ {0} /\ MaxTasks \in Nat \ {0}

Conns == 1 .. MaxConns
Tasks == 1 .. MaxTasks

VARIABLES
    dialing,    \* Link has a url, and the server dials the app; never changes
    owner,      \* whose connection it is: app, other; nobody: not yet numbered
    stage,      \* the handler of it: free, accepted, greeted, keyed, closing, gone
    attached,   \* the connection the server holds for the app, 0 if none
    tasks,      \* the tasks that dial the app's url
    dial,       \* the server's entries for the url
    waiter,     \* the future Link awaits: none, pending, done, cancelled, error, timeout
    final,      \* connections that are not to be redialed when they end
    framed,     \* recorder: connections with a recorded frame
    inits,      \* recorder: those of them with a client/init
    byes,       \* recorder: those whose client/goodbye was
    rejected,   \* recorder: those with a violation
    events,     \* recorder: the KEYED and CLOSED events, in order
    pc,         \* where Link is: idle, disconnecting, awaitClosed, awaitPrevious,
                \* dialing, settling; raised: its call ended in an exception
    op,         \* the call it is in: none, reconnect, await_reconnect
    number,     \* the connection that call is to leave behind, 0 if none
    watermark,  \* the watermark of _next
    result,     \* what the last call returned, 0 for None or no call
    before      \* ghost: the connections in inits when the call was made

server   == <<owner, stage, attached>>
dials    == <<tasks, dial, waiter, final>>
recorder == <<framed, inits, byes, rejected, events>>
link     == <<pc, op, number, watermark, result, before>>
vars     == <<dialing, server, dials, recorder, link>>

\* A task is dialing (or waits to redial) or runs a connection; its first
\* connection is what a waiter waits for.
NoTask  == [at |-> "over", conn |-> 0, first |-> FALSE, cancelled |-> FALSE]
NewTask == [NoTask EXCEPT !.at = "dialing"]

\* _connection_tasks, _dial_connections, retry_initial_connection of
\* _connection_options, _initial_connect_succeeded, _redial_urls.
NoDial == [task |-> 0, conn |-> 0, persistent |-> FALSE, succeeded |-> FALSE, redial |-> FALSE]

Event(kind, n) == [kind |-> kind, connection |-> n]

Is(kind, n) == Contains(events, Event(kind, n))

----------------------------------------------------------------------------
(* What Link reads out of the recorder.                                    *)

\* The connection of the last KEYED event, open or not.
current ==
    LET keyed == SelectLastInSeq(events, LAMBDA e : e.kind = "keyed")
    IN  IF keyed = 0 THEN 0 ELSE events[keyed].connection

is_open(n) == n \in Conns /\ Is("keyed", n) /\ ~Is("closed", n) /\ n \notin byes

connections_since(mark) == {n \in inits : n > mark /\ owner[n] = "app"}

Watermark == Max(framed \cup {0})

\* A new connection was keyed, or the first new one is known to have failed.
Settled ==
    LET new == connections_since(watermark)
    IN  \/ \E n \in new : Is("keyed", n)
        \/ new # {} /\ (Min(new) \in rejected \/ Cardinality(new) > 1)

\* Faulty variant: the first new connection, whatever became of it.
FirstOfAll(new) == IF new = {} THEN 0 ELSE Min(new)

\* (keyed or new or [None])[0]
FirstOf(new) ==
    LET keyed == {n \in new : Is("keyed", n)}
    IN  IF keyed # {} THEN Min(keyed) ELSE IF new # {} THEN Min(new) ELSE 0

----------------------------------------------------------------------------
(* The app, another client, and the server's handlers of their connections. *)

Init ==
    /\ dialing \in BOOLEAN
    /\ owner = [n \in Conns |-> IF n = 1 THEN "app" ELSE "nobody"]
    /\ stage = [n \in Conns |-> IF n = 1 THEN "keyed" ELSE "free"]
    /\ attached = 1
    /\ tasks = [t \in Tasks |-> IF dialing /\ t = 1
                                THEN [NoTask EXCEPT !.at = "running", !.conn = 1, !.first = TRUE]
                                ELSE NoTask]
    /\ dial = IF dialing THEN [NoDial EXCEPT !.task = 1, !.conn = 1, !.succeeded = TRUE] ELSE NoDial
    /\ waiter = "none" /\ final = {}
    /\ framed = {1} /\ inits = {1} /\ byes = {} /\ rejected = {}
    /\ events = <<Event("keyed", 1)>>
    /\ pc = "idle" /\ op = "none" /\ number = 0 /\ watermark = 0 /\ result = 0
    /\ before = {}

\* A WebSocket is numbered when the server takes it up, before any frame.
Number(n, whose) ==
    /\ stage[n] = "free" /\ \A m \in 1 .. (n - 1) : stage[m] # "free"
    /\ owner' = [owner EXCEPT ![n] = whose]
    /\ stage' = [stage EXCEPT ![n] = "accepted"]

Accept(n) ==
    /\ ~dialing
    /\ \E whose \in {"app", "other"} : Number(n, whose)
    /\ UNCHANGED <<dialing, attached, dials, recorder, link>>

ReceiveInit(n) ==
    /\ stage[n] = "accepted"
    /\ stage' = [stage EXCEPT ![n] = "greeted"]
    /\ framed' = framed \cup {n}
    /\ inits' = inits \cup {n}
    /\ UNCHANGED <<dialing, owner, attached, dials, byes, rejected, events, link>>

\* Whether the server is to redial after connection n is decided while it runs,
\* by its activities, the reason of its goodbye and who ended it.
MayBeFinal(n) ==
    IF dialing THEN final' \in {final, final \cup {n}} ELSE UNCHANGED final
IsFinal(gone) == final' = IF dialing THEN final \cup gone ELSE final

\* The handshake is over: the server attaches the connection, a task ends the
\* one it replaces for good, and the KEYED event is recorded.
Attach(n) ==
    /\ stage[n] = "greeted" /\ owner[n] = "app"
    /\ stage' = [m \in Conns |-> IF m = n THEN "keyed"
                                 ELSE IF m = attached THEN "closing" ELSE stage[m]]
    /\ attached' = n
    /\ events' = Append(events, Event("keyed", n))
    /\ IsFinal({attached} \ {0})
    /\ UNCHANGED <<dialing, owner, tasks, dial, waiter, framed, inits, byes, rejected, link>>

\* The strict server flags a violation, which ends the connection; the first
\* frame itself may be one, and no client/init.
Reject(n) ==
    /\ stage[n] \in {"accepted", "greeted", "keyed"}
    /\ framed' = framed \cup {n}
    /\ stage' = [stage EXCEPT ![n] = "closing"]
    /\ rejected' = rejected \cup {n}
    /\ IsFinal({n})
    /\ UNCHANGED <<dialing, owner, attached, tasks, dial, waiter, inits, byes, events, link>>

Goodbye(n) ==
    /\ stage[n] = "keyed"
    /\ stage' = [stage EXCEPT ![n] = "closing"]
    /\ byes' = byes \cup {n}
    /\ MayBeFinal(n)
    /\ UNCHANGED <<dialing, owner, attached, tasks, dial, waiter, framed, inits, rejected, events, link>>

\* The client closes the socket, or the network loses it.
Leave(n) ==
    /\ stage[n] \in {"accepted", "greeted", "keyed"}
    /\ stage' = [stage EXCEPT ![n] = "closing"]
    /\ MayBeFinal(n)
    /\ UNCHANGED <<dialing, owner, attached, tasks, dial, waiter, recorder, link>>

\* The end of disconnect: only the connection still attached is detached, and
\* only then is there a disconnect event to record as CLOSED.
Detach(n) ==
    /\ stage' = [stage EXCEPT ![n] = "gone"]
    /\ attached' = IF attached = n THEN 0 ELSE attached
    /\ events' = IF attached = n THEN Append(events, Event("closed", n)) ELSE events

End(n) ==
    /\ stage[n] = "closing"
    /\ ~(pc = "disconnecting" /\ n = number)
    /\ Detach(n)
    /\ UNCHANGED <<dialing, owner, dials, framed, inits, byes, rejected, link>>

----------------------------------------------------------------------------
(* The tasks that dial (_handle_client_connection).                        *)

\* The waiter, once a task that has not had its first connection answers it.
Told(t, answer) == IF waiter = "pending" /\ ~tasks[t].first THEN answer ELSE waiter

Dial(t, n) ==
    /\ tasks[t].at = "dialing" /\ ~tasks[t].cancelled
    /\ Number(n, "app")
    /\ tasks' = [tasks EXCEPT ![t] = [@ EXCEPT !.at = "running", !.conn = n, !.first = TRUE]]
    /\ dial' = [dial EXCEPT !.conn = n, !.succeeded = @ \/ ~tasks[t].first]
    /\ waiter' = Told(t, "done")
    /\ UNCHANGED <<dialing, attached, final, recorder, link>>

\* The task is over, and with it the url's entries.
Over(t, answer) ==
    /\ tasks' = [tasks EXCEPT ![t] = NoTask]
    /\ dial' = NoDial
    /\ waiter' = Told(t, answer)
    /\ UNCHANGED <<dialing, server, final, recorder, link>>

\* An attempt that fails is repeated, unless it is the first and is not to be.
DialFails(t) ==
    /\ tasks[t].at = "dialing" /\ ~tasks[t].cancelled /\ ~tasks[t].first
    /\ ~dial.persistent
    /\ \E answer \in {"error", "timeout"} : Over(t, answer)

\* The task's connection has ended: the task dials again, as if for the first
\* time if it was asked to, or is over.
HandlerEnds(t) ==
    /\ tasks[t].at = "running" /\ ~tasks[t].cancelled /\ stage[tasks[t].conn] = "gone"
    /\ \/ /\ dial.redial \/ tasks[t].conn \notin final
          /\ tasks' = [tasks EXCEPT ![t] = [NewTask EXCEPT !.first = ~dial.redial]]
          /\ dial' = [dial EXCEPT !.conn = 0, !.redial = FALSE]
          /\ UNCHANGED <<dialing, server, waiter, final, recorder, link>>
       \/ /\ ~dial.redial /\ tasks[t].conn \in final
          /\ Over(t, waiter)

\* A task that was cancelled closes its connection first.
WindDown(t) ==
    /\ tasks[t].cancelled
    /\ tasks[t].at = "running" => stage[tasks[t].conn] = "gone"
    /\ Over(t, "cancelled")

----------------------------------------------------------------------------
(* Link.  Each action runs from one await to the next.                     *)

HasRoom == \E t \in Tasks : tasks[t] = NoTask

\* connect_to_client_and_wait: a task that has its first connection is enough,
\* unless that connection is ending for good; otherwise Link awaits the first
\* connection of the task there is, or of a new one.
Connect(ts, d) ==
    LET again == /\ d.conn # 0 /\ d.conn \in final
                 /\ stage[d.conn] \in {"closing", "gone"}
        known == d.succeeded /\ ~again
        asked == [d EXCEPT !.persistent = TRUE, !.succeeded = known, !.redial = @ \/ again]
    IN  \/ /\ known
           /\ pc' = "settling"
           /\ tasks' = ts /\ dial' = asked /\ UNCHANGED waiter
        \/ /\ ~known
           /\ pc' = "dialing"
           /\ waiter' = "pending"
           /\ \/ asked.task # 0 /\ tasks' = ts /\ dial' = asked
              \/ /\ asked.task = 0
                 /\ \E t \in Tasks :
                       /\ ts[t] = NoTask /\ \A u \in 1 .. (t - 1) : ts[u] # NoTask
                       /\ tasks' = [ts EXCEPT ![t] = NewTask]
                       /\ dial' = [asked EXCEPT !.task = t, !.conn = 0, !.redial = FALSE]

\* _next: dial the app again unless it is there already, and wait.
SeekNext(mark) ==
    /\ watermark' = mark
    /\ \/ /\ dialing /\ connections_since(mark) = {}
          /\ Connect(tasks, dial)
       \/ /\ ~(dialing /\ connections_since(mark) = {})
          /\ pc' = "settling"
          /\ UNCHANGED <<tasks, dial, waiter>>
    /\ UNCHANGED final

Call(name, leaving) ==
    /\ pc = "idle"
    /\ op' = name
    /\ number' = leaving
    /\ before' = inits

\* connection(number) of the current one, unless a task ends it already.
ToDisconnect ==
    attached # 0 /\ attached = current /\ stage[attached] # "closing"

\* reconnect by a Link that waits for the app: the attached connection is
\* disconnected, which another task may be doing already.
ReconnectWaiting ==
    /\ ~dialing
    /\ Call("reconnect", current)
    /\ \/ /\ ToDisconnect
          /\ stage' = [stage EXCEPT ![attached] = "closing"]
          /\ pc' = "disconnecting"
          /\ UNCHANGED <<watermark, dials>>
       \/ /\ ~ToDisconnect /\ is_open(current)
          /\ pc' = "awaitClosed"
          /\ UNCHANGED <<stage, watermark, dials>>
       \/ /\ ~ToDisconnect /\ ~is_open(current)
          /\ SeekNext(Watermark)
          /\ UNCHANGED stage
    /\ UNCHANGED <<dialing, owner, attached, recorder, result>>

\* disconnect_from_client: the entries go, but for the connection's, and the
\* task is cancelled, and with it the connection it runs.
Cancelled == IF dial.task = 0 THEN tasks ELSE [tasks EXCEPT ![dial.task].cancelled = TRUE]
Dropped   == [dial EXCEPT !.task = 0, !.persistent = FALSE, !.succeeded = FALSE]

\* reconnect by a Link that dials: unless the session still looks open, the
\* next connection is asked for in the same step.
ReconnectDialing ==
    /\ dialing /\ HasRoom
    /\ Call("reconnect", current)
    /\ stage' = [n \in Conns |-> IF /\ dial.task # 0 /\ n = tasks[dial.task].conn
                                    /\ stage[n] # "gone"
                                 THEN "closing" ELSE stage[n]]
    /\ \/ /\ is_open(current)
          /\ pc' = "awaitClosed"
          /\ tasks' = Cancelled /\ dial' = Dropped
          /\ UNCHANGED <<watermark, waiter>>
       \/ /\ ~is_open(current)
          /\ watermark' = Watermark
          /\ Connect(Cancelled, Dropped)
    /\ UNCHANGED <<dialing, owner, attached, final, recorder, result>>

\* The disconnect is done.  If no CLOSED event came of it, Link waits for one.
FinishDisconnect ==
    /\ pc = "disconnecting"
    /\ Detach(number)
    /\ \/ /\ attached # number /\ number \notin byes
          /\ pc' = "awaitClosed"
          /\ UNCHANGED <<watermark, dials>>
       \/ /\ attached = number \/ number \in byes
          /\ SeekNext(Watermark)
    /\ UNCHANGED <<dialing, owner, framed, inits, byes, rejected, op, number, result, before>>

SeeClosed ==
    /\ pc = "awaitClosed" /\ Is("closed", number)
    /\ SeekNext(Watermark)
    /\ UNCHANGED <<dialing, server, recorder, op, number, result, before>>

\* Faulty variant: the wait for CLOSED has no timeout.
CloseNeverTimesOut == SeeClosed

CloseTimesOut ==
    /\ pc = "awaitClosed"
    /\ SeekNext(Watermark)
    /\ UNCHANGED <<dialing, server, recorder, op, number, result, before>>

\* open_connection, where there is an open one; otherwise it is reconnect.
OpenConnection ==
    /\ pc = "idle" /\ is_open(current)
    /\ result' = current
    /\ UNCHANGED <<dialing, server, dials, recorder, pc, op, number, watermark, before>>

\* await_reconnect, called for the connection the step ran on.
AwaitReconnect ==
    /\ result # 0 /\ (dialing => HasRoom)
    /\ Call("await_reconnect", result)
    /\ pc' = "awaitPrevious"
    /\ UNCHANGED <<dialing, server, dials, recorder, watermark, result>>

SeePreviousClosed ==
    /\ pc = "awaitPrevious" /\ Is("closed", number)
    /\ SeekNext(number)
    /\ UNCHANGED <<dialing, server, recorder, op, number, result, before>>

HandBack(n) ==
    /\ result' = n
    /\ pc' = "idle" /\ op' = "none" /\ number' = 0 /\ watermark' = 0 /\ before' = {}
    /\ waiter' = "none"
    /\ UNCHANGED <<dialing, server, tasks, dial, final, recorder>>

\* A task that has been woken runs long before timeout_s is over.
PreviousTimesOut ==
    /\ pc = "awaitPrevious" /\ ~Is("closed", number)
    /\ HandBack(0)

\* The waiter is answered: the connection is there, or the exception is Link's.
SeeDialed ==
    /\ pc = "dialing" /\ waiter = "done"
    /\ pc' = "settling" /\ waiter' = "none"
    /\ UNCHANGED <<dialing, server, tasks, dial, final, recorder, op, number, watermark, result, before>>

DialRaises ==
    /\ pc = "dialing" /\ waiter \in {"cancelled", "error"}
    /\ pc' = "raised" /\ waiter' = "none"
    /\ UNCHANGED <<dialing, server, tasks, dial, final, recorder, op, number, watermark, result, before>>

Return == HandBack(FirstOf(connections_since(watermark)))

\* timeout_s is over, or TimeoutError is what the waiter was told.
DialTimesOut == pc = "dialing" /\ waiter \in {"pending", "timeout"} /\ Return

SeeSettled == pc = "settling" /\ Settled /\ Return

NextTimesOut == pc = "settling" /\ ~Settled /\ Return

----------------------------------------------------------------------------
Environment ==
    \E n \in Conns :
        \/ Accept(n) \/ ReceiveInit(n) \/ Attach(n)
        \/ Reject(n) \/ Goodbye(n) \/ Leave(n) \/ End(n)

Dialing ==
    \E t \in Tasks :
        \/ \E n \in Conns : Dial(t, n)
        \/ DialFails(t) \/ HandlerEnds(t) \/ WindDown(t)

Calls == OpenConnection \/ ReconnectWaiting \/ ReconnectDialing \/ AwaitReconnect

Resume ==
    \/ FinishDisconnect \/ SeeClosed \/ CloseTimesOut
    \/ SeePreviousClosed \/ PreviousTimesOut
    \/ SeeDialed \/ DialRaises \/ DialTimesOut \/ SeeSettled \/ NextTimesOut

Next == Environment \/ Dialing \/ Calls \/ Resume

\* The event loop resumes Link once what it awaits is there, disconnect is
\* bounded by the WebSocket's close timeout, and every other wait by a timer.
Spec == Init /\ [][Next]_vars /\ WF_vars(Resume)

----------------------------------------------------------------------------
TypeOK ==
    /\ dialing \in BOOLEAN
    /\ owner \in [Conns -> {"app", "other", "nobody"}]
    /\ stage \in [Conns -> {"free", "accepted", "greeted", "keyed", "closing", "gone"}]
    /\ attached \in 0 .. MaxConns
    /\ tasks \in [Tasks -> [at : {"over", "dialing", "running"}, conn : 0 .. MaxConns,
                            first : BOOLEAN, cancelled : BOOLEAN]]
    /\ dial \in [task : 0 .. MaxTasks, conn : 0 .. MaxConns,
                  persistent : BOOLEAN, succeeded : BOOLEAN, redial : BOOLEAN]
    /\ waiter \in {"none", "pending", "done", "cancelled", "error", "timeout"}
    /\ final \subseteq Conns
    /\ framed \subseteq Conns /\ inits \subseteq framed
    /\ byes \subseteq inits /\ rejected \subseteq framed
    /\ events \in Seq([kind : {"keyed", "closed"}, connection : Conns])
    /\ pc \in {"idle", "disconnecting", "awaitClosed", "awaitPrevious", "dialing",
               "settling", "raised"}
    /\ op \in {"none", "reconnect", "await_reconnect"}
    /\ number \in 0 .. MaxConns /\ watermark \in 0 .. MaxConns
    /\ result \in 0 .. MaxConns /\ before \subseteq inits

\* Link and the server agree which session is the app's, though Link has only
\* the recorder: the server serves one session of it at a time, that one is
\* `current', and a `current' that looks open is the one the server holds, in
\* any order of handshakes, replacements and disconnects.
CurrentIsAttached ==
    /\ \A n \in Conns : stage[n] = "keyed" => n = attached
    /\ attached # 0 => current = attached /\ ~Is("closed", attached)
    /\ is_open(current) => attached = current

\* What reconnect and await_reconnect return is the app's, is not the
\* connection left behind or an older one, began after the call when the
\* validator closed the old one, and failed its handshake only if every new
\* connection of the app has so far.
ReturnsTheNextOne ==
    [][pc # "idle" /\ pc' = "idle" /\ result' # 0 =>
        /\ result' \in inits /\ owner[result'] = "app"
        /\ result' > number
        /\ op = "reconnect" => result' \notin before
        /\ Is("keyed", result')
            \/ \A n \in Conns : owner[n] = "app" /\ n > watermark => ~Is("keyed", n)]_vars

\* class Link: "Every wait is bounded by `timeout_s`": a call ends, though by
\* an exception where the task that dials gives one to its waiter.
CallsReturn == pc \notin {"idle", "raised"} ~> pc \in {"idle", "raised"}

\* class Link: "Every wait is bounded by `timeout_s`, and a connection that
\* never came is reported as None."  So no call of it raises.
CallsAnswer == pc # "raised"
=============================================================================
