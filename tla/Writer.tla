-------------------------------- MODULE Writer --------------------------------
(***************************************************************************)
(* The outbound side of the SDK server's connection to one client          *)
(* (server/connection.py): priority and role queues, the writer task that  *)
(* empties them, backpressure from the device buffer (server/audio.py),    *)
(* stream epochs, and the activation that pauses the writer to add and     *)
(* remove roles. The roles are the producers; the client is what the wire  *)
(* told it.                                                                *)
(*                                                                         *)
(* A chunk is one byte, lasts one tick and is in the queue until the       *)
(* writer takes it. A send awaits the socket, so that everything else runs *)
(* in between.                                                             *)
(***************************************************************************)
EXTENDS Integers, Sequences, FiniteSets, SequencesExt

CONSTANTS Roles,      \* role families of the client
          Capacity,   \* bytes the client's buffer holds
          MaxPending, \* bound of a role's queue and of the priority queue (MAX_PENDING_MSG)
          Grace,      \* grace period in which late chunks still go out
          Ahead,      \* bound: how far ahead a chunk is scheduled
          MaxNow,     \* bound: the clock
          MaxOps      \* bound: calls of the roles and activations

ASSUME WriterAssumption ==
    /\ Capacity \in Nat \ {0} /\ MaxPending \in Nat \ {0} /\ Grace \in Nat
    /\ Ahead \in Nat /\ MaxNow \in Nat /\ MaxOps \in Nat
    /\ IsFiniteSet(Roles) /\ -1 \notin Roles

VARIABLES now,     \* the clock
          ops,     \* calls so far
          q,       \* the connection's queues
          role,    \* the roles' own view: active, held, stream started, its number
          track,   \* BufferTracker per role: ends of the chunks that count
          writer,  \* the writer task
          act,     \* the activation in progress
          client   \* ghost: what the client was sent

vars == <<now, ops, q, role, track, writer, act, client>>

None == -1

\* ts orders the queue, play is a chunk's own time.
NoEntry == [ts |-> 0, seq |-> 0, play |-> 0, kind |-> "none", role |-> None, n |-> 0, epoch |-> 0]

Init ==
    /\ now = 0
    /\ ops = 0
    /\ q = [prio |-> <<>>, of |-> [r \in Roles |-> {}], ready |-> {}, seq |-> 0,
            lastTs |-> [r \in Roles |-> 0], epoch |-> [r \in Roles |-> 0],
            streaming |-> {}, blocked |-> [r \in Roles |-> None], delayed |-> {},
            gen |-> [r \in Roles |-> 0], held |-> [r \in Roles |-> <<>>], wake |-> FALSE,
            broken |-> FALSE]
    /\ role = [r \in Roles |-> [active |-> TRUE, hold |-> FALSE, started |-> FALSE,
                                n |-> 0, since |-> None]]
    /\ track = [r \in Roles |-> [ends |-> <<>>, sending |-> FALSE]]
    /\ writer = [pc |-> "run", role |-> None, until |-> None]
    /\ act = [pc |-> "idle", roles |-> {}]
    /\ client = [r \in Roles |-> [active |-> TRUE, open |-> FALSE, n |-> 0, device |-> {},
                                  stray |-> {}]]

-----------------------------------------------------------------------------
(* The queues. An operator takes the queues as they are and returns them.   *)

Before(a, b) == a.ts < b.ts \/ (a.ts = b.ts /\ a.seq < b.seq)

Head1(es) == CHOOSE e \in es : \A f \in es \ {e} : Before(e, f)

Ticket(e) == [ts |-> e.ts, seq |-> e.seq, role |-> e.role]

\* _wake_writer
Wake(x) == [x EXCEPT !.wake = TRUE]

\* _disconnect_due_to_queue_overflow: the message is lost with the connection.
Overflow(x) == [x EXCEPT !.broken = TRUE]

IsFull(x, r) == Cardinality(x.of[r]) >= MaxPending

\* _schedule_role_head
ScheduleHead(x, r) ==
    IF x.blocked[r] /= None \/ x.of[r] = {} THEN x
    ELSE [x EXCEPT !.ready = @ \cup {Ticket(Head1(x.of[r]))}]

\* _enqueue_role_entry: the entry is scheduled when it is the role's new head.
Enqueue(x, e) ==
    LET f == [e EXCEPT !.seq = x.seq]
        y == [x EXCEPT !.seq = @ + 1, !.of[e.role] = @ \cup {f}]
    IN  Wake(IF y.blocked[e.role] = None /\ Head1(y.of[e.role]) = f
             THEN [y EXCEPT !.ready = @ \cup {Ticket(f)}] ELSE y)

\* Faulty variant: chunks of the old stream stay valid.
DropPendingNothing(x, r) == Wake(x)

\* drop_pending_binary for one role: a new epoch, and no waiting on the old one's account.
DropPending(x, r) ==
    LET y == [x EXCEPT !.epoch[r] = @ + 1]
    IN  Wake(IF y.blocked[r] = None THEN y
             ELSE ScheduleHead([y EXCEPT !.blocked[r] = None, !.gen[r] = @ + 1], r))

\* send_priority_message, under the same bound as a role's queue
SendPriority(x, e) ==
    IF Len(x.prio) >= MaxPending THEN Overflow(x)
    ELSE Wake([x EXCEPT !.prio = Append(@, e), !.seq = @ + 1])

\* _supersede_queued_stream: an unsent stream/start and stream/clear are dropped.
Supersede(x, r) == [x EXCEPT !.of[r] = {e \in @ : e.kind \notin {"start", "clear"}}]

EndOwed(x, r) ==
    /\ \A e \in x.of[r] : e.kind /= "end"
    /\ r \in x.streaming

\* A stream message joins the role's queue, or goes ahead of all when the role is retiring.
EnqueueMessage(x, r, e, retiring) ==
    IF retiring THEN SendPriority(x, e)
    ELSE IF IsFull(x, r) THEN Overflow(x)
    ELSE LET ts == CASE e.kind = "end" -> now
                     [] e.kind = "start" -> Max({now, x.lastTs[r]})
                     [] OTHER -> x.lastTs[r]
         IN  Enqueue([x EXCEPT !.lastTs[r] = IF e.kind = "clear" THEN @ ELSE ts],
                     [e EXCEPT !.ts = ts, !.epoch = x.epoch[r]])

\* send_role_message for a stream message of kind k.
SendRoleMessage(x, r, k, n, retiring) ==
    LET e == [NoEntry EXCEPT !.kind = k, !.role = r, !.n = n]
        y == IF k \in {"clear", "end"} THEN DropPending(x, r) ELSE x
        z == IF k = "end" THEN Supersede(y, r) ELSE y
    IN  IF k = "end" /\ ~EndOwed(z, r) THEN z ELSE EnqueueMessage(z, r, e, retiring)

\* send_binary past the hold: the queue stays in the order of the calls.
SendBinary(x, r, ts, n) ==
    IF IsFull(x, r) THEN Overflow(x)
    ELSE LET at == Max({ts, x.lastTs[r]})
         IN  Enqueue([x EXCEPT !.lastTs[r] = at],
                     [NoEntry EXCEPT !.ts = at, !.play = ts, !.kind = "chunk", !.role = r,
                                     !.n = n, !.epoch = x.epoch[r]])

\* _discard_role_queue: all but a stream/end that is still owed.
DiscardRoleQueue(x, r) ==
    LET life == {e \in x.of[r] : e.kind \in {"start", "end"}}
        newest == CHOOSE e \in life : \A f \in life \ {e} : Before(f, e)
        y == [x EXCEPT !.of[r] = {}, !.lastTs[r] = 0]
        z == IF life /= {} /\ newest.kind = "end" THEN SendPriority(y, newest) ELSE y
    IN  DropPending(z, r)

-----------------------------------------------------------------------------
(* The roles' calls.                                                        *)

CanCall(r) == ops < MaxOps /\ role[r].active /\ ~q.broken

\* on_stream_start and the first chunk: a stream/start, also for a new format. A held role is
\* not in the audio pipeline, its stream is not started over.
StreamStart(r) ==
    /\ CanCall(r) /\ ~(role[r].hold /\ role[r].started)
    /\ role' = [role EXCEPT ![r].started = TRUE, ![r].n = @ + 1, ![r].since = None]
    /\ q' = SendRoleMessage(q, r, "start", role[r].n + 1, FALSE)
    /\ ops' = ops + 1
    /\ UNCHANGED <<now, track, writer, act, client>>

\* on_audio_chunk; the chunk waits for the role's state when that is held.
AudioChunk(r, ts) ==
    /\ CanCall(r) /\ role[r].started
    /\ q' = IF role[r].hold
            THEN [q EXCEPT !.held[r] = Append(@, [ts |-> ts, n |-> role[r].n, epoch |-> q.epoch[r]])]
            ELSE SendBinary(q, r, ts, role[r].n)
    /\ ops' = ops + 1
    /\ UNCHANGED <<now, role, track, writer, act, client>>

ResetTracker(t) == [t EXCEPT !.ends = <<>>, !.sending = FALSE]

\* on_stream_clear of a started stream
StreamClear(r) ==
    /\ CanCall(r) /\ role[r].started
    /\ role' = [role EXCEPT ![r].n = @ + 1, ![r].since = None]
    /\ q' = SendRoleMessage(q, r, "clear", role[r].n + 1, FALSE)
    /\ track' = [track EXCEPT ![r] = ResetTracker(@)]
    /\ ops' = ops + 1
    /\ UNCHANGED <<now, writer, act, client>>

\* on_stream_end of a started stream
StreamEnd(r) ==
    /\ CanCall(r) /\ role[r].started
    /\ role' = [role EXCEPT ![r].started = FALSE, ![r].since = None]
    /\ q' = SendRoleMessage(q, r, "end", role[r].n, FALSE)
    /\ track' = [track EXCEPT ![r] = ResetTracker(@)]
    /\ ops' = ops + 1
    /\ UNCHANGED <<now, writer, act, client>>

SendHeld(x, r, c) == IF c.epoch = x.epoch[r] THEN SendBinary(x, r, c.ts, c.n) ELSE x

\* _flush_pending_binary: held chunks of the current epoch are queued in their order.
Flushed(x, r) ==
    LET after[i \in 0..Len(x.held[r])] ==
            IF i = 0 THEN [x EXCEPT !.held[r] = <<>>] ELSE SendHeld(after[i - 1], r, x.held[r][i])
    IN  after[Len(x.held[r])]

\* _release_roles
ReleaseRole(r) ==
    /\ role[r].hold /\ ~q.broken
    /\ role' = [role EXCEPT ![r].hold = FALSE]
    /\ q' = Flushed(q, r)
    /\ UNCHANGED <<now, ops, track, writer, act, client>>

\* A message of no role that goes ahead of the roles' queues: server/time and others.
PriorityMessage ==
    /\ ops < MaxOps /\ ~q.broken
    /\ q' = SendPriority(q, [NoEntry EXCEPT !.kind = "other"])
    /\ ops' = ops + 1
    /\ UNCHANGED <<now, role, track, writer, act, client>>

-----------------------------------------------------------------------------
(* What the client makes of a frame.                                        *)

Told(c, e) ==
    CASE e.kind = "start" -> [c EXCEPT !.open = TRUE, !.n = e.n]
      [] e.kind = "clear" -> [c EXCEPT !.n = e.n, !.device = {}]
      [] e.kind = "end" -> [c EXCEPT !.open = FALSE, !.device = {}]
      [] e.kind = "chunk" -> [c EXCEPT !.device = @ \cup {d \in {[end |-> e.play + 1, seq |-> e.seq]} : d.end > now},
                                       !.stray = IF c.open /\ c.n = e.n THEN @ ELSE @ \cup {"chunk"}]
      [] OTHER -> c

Receive(e) ==
    IF e.kind = "other" THEN client
    ELSE IF e.kind = "activate"
    THEN [r \in Roles |-> [client[r] EXCEPT !.active = r \in e.n]]
    ELSE LET c == client[e.role]
             idle == IF c.active THEN {} ELSE {e.kind}
         IN  [client EXCEPT ![e.role] = [Told(c, e) EXCEPT !.stray = @ \cup idle]]

\* _send_message: what the connection notes as it sends.
Note(x, e) ==
    CASE e.kind = "start" -> [x EXCEPT !.streaming = @ \cup {e.role}]
      [] e.kind = "end" -> [x EXCEPT !.streaming = @ \ {e.role}]
      [] OTHER -> x

-----------------------------------------------------------------------------
(* The writer task.                                                         *)

\* prune_consumed: completed chunks no longer count, the one being sent does.
Prune(t) ==
    LET n == Len(t.ends)
        Counts(i) == t.ends[i] > now \/ (t.sending /\ i = n)
        first == IF \E i \in 1..n : Counts(i) THEN Min({i \in 1..n : Counts(i)}) ELSE n + 1
    IN  [t EXCEPT !.ends = SubSeq(@, first, n)]

\* Faulty variant: one chunk more than the buffer holds.
TimeUntilCapacityOffByOne(t) ==
    LET over == Len(t.ends) + 1 - (Capacity + 1)
    IN  IF over <= 0 THEN 0 ELSE t.ends[over] - now

\* time_until_capacity for one more chunk: until the oldest ones are played.
TimeUntilCapacity(t) ==
    LET over == Len(t.ends) + 1 - Capacity
    IN  IF over <= 0 THEN 0 ELSE Max({t.ends[i] - now : i \in 1..over})

\* _promote_ready_roles: the roles whose wait is over and was not called off.
Promote(x) ==
    LET due == {d \in x.delayed : d.at <= now}
        free == {r \in Roles : \E d \in due : d.role = r /\ d.gen = x.gen[r] /\ x.blocked[r] = d.at}
        heads == {Ticket(Head1(x.of[r])) : r \in {f \in free : x.of[f] /= {}}}
    IN  [x EXCEPT !.delayed = @ \ due,
                  !.blocked = [r \in Roles |-> IF r \in free THEN None ELSE @[r]],
                  !.ready = @ \cup heads]

\* Roles _peek_ready_entry can find work for.
Serviceable(x) == {t.role : t \in {u \in x.ready : x.blocked[u.role] = None /\ x.of[u.role] /= {}}}

\* Everything up to the entry found has been popped; the other roles met on the way are
\* scheduled again by their heads.
Popped(x, e) ==
    LET gone == {t \in x.ready : ~Before(e, t)}
        met == {t.role : t \in gone} \cap (Serviceable(x) \ {e.role})
    IN  [x EXCEPT !.ready = (@ \ gone) \cup {Ticket(Head1(x.of[r])) : r \in met}]

Writing(pc) == writer.pc = pc /\ ~q.broken

SendPriorityMessage ==
    /\ Writing("run") /\ act.pc /= "pausing" /\ q.prio /= <<>>
    /\ client' = Receive(Head(q.prio))
    /\ q' = Note([q EXCEPT !.prio = Tail(@)], Head(q.prio))
    /\ writer' = [writer EXCEPT !.pc = "send"]
    /\ UNCHANGED <<now, ops, role, track, act>>

\* What the writer does with the head e of a role's queue.
DiscardHead(x, e) == [x EXCEPT !.of[e.role] = @ \ {e}]

Skip(x, e) ==
    /\ q' = ScheduleHead(DiscardHead(x, e), e.role)
    /\ UNCHANGED <<role, track, writer, client>>

Transmit(x, e) ==
    /\ q' = Note(DiscardHead(x, e), e)
    /\ client' = Receive(e)
    /\ writer' = [writer EXCEPT !.pc = "send", !.role = e.role]

\* _check_late_binary: the first look at a stream starts its grace period.
SinceOf(r) == IF role[r].since = None THEN now ELSE role[r].since

Late(e) == now > e.play /\ now - SinceOf(e.role) >= Grace

Block(x, r, wait) ==
    [x EXCEPT !.blocked[r] = now + wait, !.gen[r] = @ + 1,
              !.delayed = @ \cup {[at |-> now + wait, gen |-> x.gen[r] + 1, role |-> r]}]

\* _process_binary_role_messages for a chunk of the current epoch.
ProcessChunk(x, e) ==
    LET r == e.role
        t == Prune(track[r])
        wait == TimeUntilCapacity(t)
    IN  /\ role' = [role EXCEPT ![r].since = SinceOf(r)]
        /\ \/ /\ Late(e)
              /\ q' = ScheduleHead(DiscardHead(x, e), r)
              /\ UNCHANGED <<track, writer, client>>
           \/ /\ ~Late(e) /\ wait > 0
              /\ q' = Block(x, r, wait)
              /\ track' = [track EXCEPT ![r] = t]
              /\ UNCHANGED <<writer, client>>
           \/ /\ ~Late(e) /\ wait = 0
              /\ Transmit(x, e)
              /\ track' = [track EXCEPT ![r].ends = Append(t.ends, e.play + 1), ![r].sending = TRUE]

\* One turn of _writer for the role heap: promote, peek, process.
ServeRole ==
    LET x == Promote(q)
        e == Head1({Head1(x.of[r]) : r \in Serviceable(x)})
        y == Popped(x, e)
    IN  /\ Writing("run") /\ act.pc /= "pausing" /\ q.prio = <<>>
        /\ Serviceable(x) /= {}
        /\ \/ /\ e.kind = "chunk" /\ e.epoch /= q.epoch[e.role]
              /\ Skip(y, e)
           \/ /\ e.kind = "chunk" /\ e.epoch = q.epoch[e.role]
              /\ ProcessChunk(y, e)
           \/ /\ e.kind /= "chunk"
              /\ Transmit(y, e)
              /\ UNCHANGED <<role, track>>
        /\ UNCHANGED <<now, ops, act>>

\* The await of the socket is over: the role goes on with its next entry.
Sent ==
    /\ writer.pc = "send" /\ ~q.broken
    /\ LET r == writer.role
       IN  IF r = None THEN UNCHANGED <<q, track>>
           ELSE /\ q' = ScheduleHead(q, r)
                /\ track' = [track EXCEPT ![r].sending = FALSE]
    /\ writer' = [writer EXCEPT !.pc = "run", !.role = None]
    /\ UNCHANGED <<now, ops, role, act, client>>

\* Faulty variant: asleep without a look at the priority messages and the roles that wait.
WaitForWorkUnlooked ==
    /\ Writing("run") /\ act.pc /= "pausing"
    /\ Serviceable(Promote(q)) = {}
    /\ q' = [Promote(q) EXCEPT !.wake = FALSE]
    /\ writer' = [writer EXCEPT !.pc = "wait", !.until = None]
    /\ UNCHANGED <<now, ops, role, track, act, client>>

\* _wait_for_writer_work: asleep until woken, or until the first delayed role is due.
WaitForWork ==
    LET x == [Promote(q) EXCEPT !.ready = {}, !.wake = FALSE]
    IN  /\ Writing("run") /\ act.pc /= "pausing" /\ q.prio = <<>>
        /\ Serviceable(Promote(q)) = {}
        /\ q' = x
        /\ writer' = [writer EXCEPT !.pc = "wait",
                          !.until = IF x.delayed = {} THEN None ELSE Min({d.at : d \in x.delayed})]
        /\ UNCHANGED <<now, ops, role, track, act, client>>

\* Woken, or timed out.
WakeUp ==
    /\ Writing("wait")
    /\ q.wake \/ (writer.until /= None /\ writer.until <= now)
    /\ writer' = [writer EXCEPT !.pc = "run", !.until = None]
    /\ UNCHANGED <<now, ops, q, role, track, act, client>>

-----------------------------------------------------------------------------
(* _activate: pause the writer, swap the roles, resume.                     *)

Activate(rs) ==
    /\ act.pc = "idle" /\ ops < MaxOps /\ ~q.broken
    /\ act' = [act EXCEPT !.pc = "pausing", !.roles = rs]
    /\ q' = [q EXCEPT !.wake = TRUE]
    /\ ops' = ops + 1
    /\ UNCHANGED <<now, role, track, writer, client>>

\* The writer ends at its next turn, after the message it has taken.
WriterPaused ==
    /\ act.pc = "pausing" /\ Writing("run")
    /\ act' = [act EXCEPT !.pc = "drain"]
    /\ writer' = [writer EXCEPT !.pc = "paused"]
    /\ UNCHANGED <<now, ops, q, role, track, client>>

\* Priority messages sent from the activation itself while the writer is paused.
Drain ==
    /\ act.pc \in {"drain", "announce"} /\ q.prio /= <<>> /\ ~q.broken
    /\ client' = Receive(Head(q.prio))
    /\ q' = Note([q EXCEPT !.prio = Tail(@)], Head(q.prio))
    /\ UNCHANGED <<now, ops, role, track, writer, act>>

Retiring(rs) == {r \in Roles : role[r].active /\ r \notin rs}

\* The queue goes, then on_deactivate ends the stream ahead of the activation.
Retire(x, r) ==
    LET y == DiscardRoleQueue(x, r)
    IN  IF role[r].started THEN SendRoleMessage(y, r, "end", role[r].n, TRUE) ELSE y

\* One role after the other.
RetireAll(x, rs) ==
    LET order == SetToSeq(rs)
        after[i \in 0..Len(order)] == IF i = 0 THEN x ELSE Retire(after[i - 1], order[i])
    IN  after[Len(order)]

SendActivation ==
    LET rs == act.roles
        x == RetireAll(q, Retiring(rs))
        msg == [NoEntry EXCEPT !.kind = "activate", !.n = rs]
    IN  /\ act.pc = "drain" /\ q.prio = <<>> /\ ~q.broken
        /\ q' = SendPriority(x, msg)
        /\ \E hold \in SUBSET (rs \ {r \in Roles : role[r].active}) :
              role' = [r \in Roles |->
                         IF r \in Retiring(rs) THEN [role[r] EXCEPT !.active = FALSE, !.started = FALSE,
                                                                    !.hold = FALSE]
                         ELSE IF r \in rs /\ ~role[r].active
                              THEN [role[r] EXCEPT !.active = TRUE, !.hold = r \in hold]
                         ELSE role[r]]
        /\ track' = [r \in Roles |-> IF r \in Retiring(rs) THEN ResetTracker(track[r]) ELSE track[r]]
        /\ act' = [act EXCEPT !.pc = "announce"]
        /\ UNCHANGED <<now, ops, writer, client>>

\* _resume_writer, once the activation is on the wire.
Resume ==
    /\ act.pc = "announce" /\ q.prio = <<>> /\ ~q.broken
    /\ act' = [act EXCEPT !.pc = "idle"]
    /\ writer' = [writer EXCEPT !.pc = "run"]
    /\ UNCHANGED <<now, ops, q, role, track, client>>

\* The device has played what ended.
Tick ==
    /\ now < MaxNow
    /\ now' = now + 1
    /\ client' = [r \in Roles |-> [client[r] EXCEPT !.device = {d \in @ : d.end > now + 1}]]
    /\ UNCHANGED <<ops, q, role, track, writer, act>>

Next ==
    \/ \E r \in Roles : StreamStart(r)
    \/ \E r \in Roles, d \in 0..Ahead : AudioChunk(r, now + d)
    \/ \E r \in Roles : StreamClear(r)
    \/ \E r \in Roles : StreamEnd(r)
    \/ \E r \in Roles : ReleaseRole(r)
    \/ PriorityMessage
    \/ SendPriorityMessage \/ ServeRole \/ Sent \/ WaitForWork \/ WakeUp
    \/ \E rs \in SUBSET Roles : Activate(rs)
    \/ WriterPaused \/ Drain \/ SendActivation \/ Resume
    \/ Tick

Spec == Init /\ [][Next]_vars

-----------------------------------------------------------------------------
\* What the queues, the roles and the writer hold.
TypeOK ==
    /\ now \in 0..MaxNow /\ ops \in 0..MaxOps
    /\ writer.pc \in {"run", "send", "wait", "paused"}
    /\ act.pc \in {"idle", "pausing", "drain", "announce"}
    /\ (writer.pc = "paused") <=> (act.pc \in {"drain", "announce"})
    /\ \A r \in Roles : Cardinality(q.of[r]) <= MaxPending /\ \A e \in q.of[r] : e.role = r

\* Audio reaches the client only inside the stream it was made for: after that stream's
\* stream/start, before a later stream/clear, stream/end or stream/start, whatever was queued
\* in between (send_role_message, send_binary, drop_pending_binary). Nothing of a role
\* reaches it while the role is not active (_send_activation).
InStream == \A r \in Roles : client[r].stray = {}

\* The chunks the client holds and has not played never exceed its buffer
\* (BufferTracker), though streams are cleared and ended while a chunk is being sent.
BufferBound == \A r \in Roles : Cardinality(client[r].device) <= Capacity

\* When everything queued is out, the client has a stream open exactly where the role has:
\* no stream/end was dropped that was owed, and no stream/start lost.
Settled ==
    (/\ ~q.broken /\ act.pc = "idle" /\ q.prio = <<>> /\ \A r \in Roles : q.of[r] = {}) =>
        \A r \in Roles : role[r].active => (client[r].open <=> role[r].started)

\* No role is forgotten: what it has queued is scheduled, is waiting for room until a time
\* the writer will look at, or follows what is being sent.
NoRoleForgotten ==
    ~q.broken => \A r \in Roles : q.of[r] /= {} =>
        \/ \E t \in q.ready : t.role = r
        \/ writer.pc = "send" /\ writer.role = r
        \/ q.blocked[r] /= None /\ \E d \in q.delayed :
              d.role = r /\ d.at = q.blocked[r] /\ d.gen = q.gen[r]

\* The writer does not sleep over work: asleep, it was woken, or nothing is ready and it
\* will wake for the first role that waits for room.
NoLostWakeup ==
    (writer.pc = "wait" /\ ~q.broken /\ ~q.wake) =>
        /\ q.prio = <<>>
        /\ Serviceable(q) = {}
        /\ q.delayed /= {} => writer.until = Min({d.at : d \in q.delayed})

=============================================================================
