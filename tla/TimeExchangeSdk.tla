-------------------------- MODULE TimeExchangeSdk --------------------------
(***************************************************************************)
(* TimeExchange for the server the recorder is installed in: the vendored  *)
(* aiosendspin connection (_vendor/aiosendspin/server/connection.py) once  *)
(* it is activated.  Its message loop queues a reply for each client/time  *)
(* on the priority queue, and one writer task sends that queue before      *)
(* anything else.  The queue is first in, first out, and it is not the     *)
(* replies' own: a later server/activate, the stream ends of the roles it  *)
(* retires and a server/unpair are queued on it too, so a message may go   *)
(* out ahead of a reply.  So may what is sent while the writer is paused   *)
(* (a pairing on the connection), and the activation that ends the pause.  *)
(*                                                                         *)
(* A reply that is queued or half written when the connection ends is      *)
(* lost.  Left out: the cap of 4096 on the queue, at which the connection  *)
(* is closed.  Under which name of Senders the writer sends makes no       *)
(* difference.                                                             *)
(***************************************************************************)
EXTENDS TimeExchange

VARIABLES
    priority_messages,      \* the queue: the client/time that is replied to, or Another
    open,                   \* the connection lives
    paused,                 \* the writer is stopped, and whoever stopped it sends directly
    overtaken               \* ghost: a message was begun ahead of a queued reply

sdkown == <<priority_messages, open, paused, overtaken>>
sdkvars == <<timevars, sdkown>>

\* A message of the queue that is no reply.
Another == 0

RepliesQueued == {i \in DOMAIN priority_messages : priority_messages[i] # Another}
OthersQueued  == DOMAIN priority_messages \ RepliesQueued

Reply(v) == [type |-> "server/time", value |-> v, backwards |-> FALSE]

SdkInit ==
    /\ TimeInit
    /\ priority_messages = <<>> /\ open = TRUE
    /\ paused = FALSE /\ overtaken = FALSE

-----------------------------------------------------------------------------
(* What is queued.                                                         *)

\* _handle_message: no await lies between the hand-over and the queueing.
HandleClientTime(v) ==
    /\ open
    /\ ReadClientTime(v)
    /\ priority_messages' = Append(priority_messages, Len(reads) + 1)
    /\ UNCHANGED <<open, paused, overtaken>>

\* The bound on sends counts what is queued to be sent.
MayQueue == Len(done) + Cardinality(InFlight) + Cardinality(OthersQueued) < MaxSends

\* _send_activation, unpair and the rest of the callers of send_priority_message.
QueueOther ==
    /\ open /\ MayQueue
    /\ priority_messages' = Append(priority_messages, Another)
    /\ UNCHANGED <<timevars, open, paused, overtaken>>

-----------------------------------------------------------------------------
(* The writer, which sends one message at a time.                          *)

Writes == open /\ ~paused /\ InFlight = {}

\* _process_priority_messages, at a reply.
WriteReply(s) ==
    /\ Writes
    /\ priority_messages # <<>> /\ Head(priority_messages) # Another
    /\ BeginSend(s, Reply(reads[Head(priority_messages)]))
    /\ priority_messages' = Tail(priority_messages)
    /\ UNCHANGED <<open, paused, overtaken>>

\* _process_priority_messages, at anything else.
WriteAnother(s) ==
    /\ Writes
    /\ priority_messages # <<>> /\ Head(priority_messages) = Another
    /\ BeginSend(s, OtherSent)
    /\ priority_messages' = Tail(priority_messages)
    /\ overtaken' = (overtaken \/ RepliesQueued # {})
    /\ UNCHANGED <<open, paused>>

\* Faulty variant: a queued reply does not hold back the other messages.
WriteOtherAnyTime(s) ==
    /\ Writes
    /\ BeginSend(s, OtherSent)
    /\ UNCHANGED sdkown

\* _process_normal_messages and the role queues come after the priority queue.
WriteOther(s) ==
    /\ Writes
    /\ priority_messages = <<>>
    /\ BeginSend(s, OtherSent)
    /\ UNCHANGED sdkown

Written(s) == EndSend(s) /\ UNCHANGED sdkown

-----------------------------------------------------------------------------
(* The pause.                                                              *)

\* _pause_writer: the writer is awaited, and what is queued is sent first.
Pause ==
    /\ Writes
    /\ priority_messages = <<>>
    /\ paused' = TRUE
    /\ UNCHANGED <<timevars, priority_messages, open, overtaken>>

\* transport.send_str of whoever paused the writer.
WriteDirect(s) ==
    /\ open /\ paused /\ InFlight = {}
    /\ BeginSend(s, OtherSent)
    /\ overtaken' = (overtaken \/ RepliesQueued # {})
    /\ UNCHANGED <<priority_messages, open, paused>>

\* _resume_writer, and before it, in _activate, the activation that is put ahead
\* of what was queued during the pause.
Resume ==
    /\ open /\ paused /\ InFlight = {}
    /\ paused' = FALSE
    /\ \/ UNCHANGED priority_messages
       \/ MayQueue /\ priority_messages' = <<Another>> \o priority_messages
    /\ UNCHANGED <<timevars, open, overtaken>>

-----------------------------------------------------------------------------
\* disconnect cancels the writer, or its send raises: the loop is over.
Disconnect ==
    /\ open /\ open' = FALSE
    /\ flight' = [s \in Senders |-> Idle]
    /\ UNCHANGED <<exchange, reads, done, overlapped, priority_messages, paused, overtaken>>

Closed == ~ open /\ UNCHANGED sdkvars

SdkNext ==
    \/ \E v \in Values : HandleClientTime(v)
    \/ QueueOther \/ Pause \/ Resume
    \/ \E s \in Senders :
         WriteReply(s) \/ WriteAnother(s) \/ WriteOther(s) \/ WriteDirect(s) \/ Written(s)
    \/ Disconnect \/ Closed

SdkSpec == SdkInit /\ [][SdkNext]_sdkvars

-----------------------------------------------------------------------------
\* A reply is being written.
Replying == \E s \in Senders : flight[s].type = "server/time"

\* What the verdict may hold against the SDK, which replies to every client/time
\* in the order received: never an echo, never a later reply, but only that it
\* sent something past a client/time.  It takes a message begun ahead of a
\* queued reply, and lasts as long as the reply is not written: a connection
\* that lives on, all replies written, is not blamed, and without such a message
\* the SDK is never blamed, wherever the connection ends, be it with replies
\* queued or with one on the wire that the recorder does not know of.
SdkIsBlamedAtTheCut ==
    /\ Verdict.kind \in {"none", "sent_past"}
    /\ ~overtaken => Verdict = NoBlame
    /\ open /\ RepliesQueued = {} /\ ~Replying => Verdict = NoBlame

=============================================================================
