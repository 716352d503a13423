------------------------------ MODULE IpcManager -------------------------------
(***************************************************************************)
(* The kernel's IPC manager, kernel/src/ipc/mod.rs: channels, each a ring  *)
(* of BufferSize slots behind the `channels` mutex, and the asynchronous   *)
(* operations that wait in pending_sends and pending_receives, each behind *)
(* a mutex of its own, until process_pending, meant to be called by the    *)
(* kernel's main loop, completes them.                                     *)
(*                                                                         *)
(* One step is one critical section.  send_async and receive_async release *)
(* `channels` before they queue the operation, so they take two steps.     *)
(* process_pending holds `channels` throughout and one pending mutex at a  *)
(* time; each iteration of its loops is a step, and the steps of others    *)
(* that need a mutex it holds wait.  A message is abstracted to the number *)
(* of its acceptance by the channel and the sequence number it is given.   *)
(***************************************************************************)
EXTENDS Integers, FiniteSets, SequencesExt

CONSTANTS
    Process,        \* processes that call the manager
    NoChannel,      \* the channel id is not in the map
    NoMessage,      \* an empty Option<Message>
    BufferSize,     \* IpcConfig::default_buffer_size
    MaxChannels,    \* IpcConfig::max_channels
    MaxPending,     \* AsyncIpcManager::max_pending_per_channel
    ChannelIds,     \* bound: create_channel is called at most this often
    MaxMessages,    \* bound: messages accepted per channel
    MaxOps          \* bound: asynchronous operations queued

ASSUME IpcAssumption ==
    /\ BufferSize \in Nat /\ BufferSize > 0
    /\ MaxChannels \in Nat /\ MaxPending \in Nat
    /\ ChannelIds \in Nat /\ ChannelIds > 0
    /\ MaxMessages \in Nat /\ MaxOps \in Nat

VARIABLES
    channels,           \* BTreeMap<ChannelId, Channel>
    next_channel_id,
    pending_sends,      \* per channel, the queued PendingOps of sends
    pending_receives,   \* per channel, the queued PendingOps of receives
    next_pending_id,
    call,               \* per process, the asynchronous call it is halfway through
    pump,               \* where process_pending is
    reply,              \* what the last finished call returned
    (* history: what happened to the messages of each channel *)
    accepted,           \* how many messages were accepted, into the ring or the queue
    got,                \* the message taken out of the ring last
    taken,              \* messages handed to the receiver
    discarded           \* messages that left the channel and reached nobody

ring == <<channels, next_channel_id>>
pending == <<pending_sends, pending_receives, next_pending_id>>
history == <<accepted, got, taken, discarded>>
vars == <<ring, pending, call, pump, reply, history>>

--------------------------------------------------------------------------------
(* Channel *)

ChannelId == 1 .. ChannelIds
SlotIndex == 0 .. BufferSize - 1
Message == [body : Nat, sequence : Nat]
Channel == [sender : Process, receiver : Process,
            buffer : [SlotIndex -> Message \cup {NoMessage}],
            write_pos : SlotIndex, read_pos : SlotIndex,
            message_count : Nat, next_sequence : Nat, closed : BOOLEAN]

\* An Option is None or Some, never both.
ASSUME OptionAssumption == NoMessage \notin Message \cup Nat /\ NoChannel \notin Channel

NewChannel(s, r) ==
    [sender |-> s, receiver |-> r, buffer |-> [i \in SlotIndex |-> NoMessage],
     write_pos |-> 0, read_pos |-> 0, message_count |-> 0, next_sequence |-> 0,
     closed |-> FALSE]

Exists(c) == channels[c] # NoChannel

\* Wrong variant: off by one.
IsFullLate(ch) == ch.message_count > BufferSize

IsFull(ch) == ch.message_count >= BufferSize
IsEmpty(ch) == ch.message_count = 0

(* Channel::send once its checks passed: the message gets its sequence here *)
ChannelSend(ch, body) ==
    [ch EXCEPT !.buffer = [@ EXCEPT ![ch.write_pos] =
                              [body |-> body, sequence |-> ch.next_sequence]],
               !.next_sequence = ch.next_sequence + 1,
               !.write_pos = (ch.write_pos + 1) % BufferSize,
               !.message_count = ch.message_count + 1]

(* Channel::receive once its checks passed: the slot is taken *)
ChannelReceive(ch) ==
    [ch EXCEPT !.buffer = [@ EXCEPT ![ch.read_pos] = NoMessage],
               !.read_pos = (ch.read_pos + 1) % BufferSize,
               !.message_count = ch.message_count - 1]

\* Wrong variant: the newest message is returned instead of the oldest.
NewestFirst(ch) == ch.buffer[(ch.write_pos - 1) % BufferSize]

Oldest(ch) == ch.buffer[ch.read_pos]

--------------------------------------------------------------------------------
(* What send and receive return, in the order the code decides *)

SendResult(p, c, large) ==
    CASE ~Exists(c)                -> "ChannelNotFound"
      [] Exists(c) /\ channels[c].sender # p -> "NotAuthorized"
      [] Exists(c) /\ channels[c].sender = p /\ large -> "MessageTooLarge"
      [] OTHER -> IF channels[c].closed THEN "ChannelClosed"
                  ELSE IF IsFull(channels[c]) THEN "BufferFull" ELSE "Ok"

ReceiveResult(p, c) ==
    CASE ~Exists(c) -> "ChannelNotFound"
      [] Exists(c) /\ channels[c].receiver # p -> "NotAuthorized"
      [] OTHER -> IF IsEmpty(channels[c])
                  THEN IF channels[c].closed THEN "ChannelClosed" ELSE "BufferEmpty"
                  ELSE IF Oldest(channels[c]) = NoMessage THEN "BufferEmpty" ELSE "Ok"

--------------------------------------------------------------------------------
(* Mutexes that process_pending holds between two steps *)

ChannelsFree == pump.at = "idle"
SendsFree == pump.at # "sends"
ReceivesFree == pump.at # "receives"

NotCalling == [op |-> "none", chan |-> 1]
CanCall(p) == call[p] = NotCalling
NotPumping == [at |-> "idle", chan |-> 1, i |-> 1]

PendingOp == [id : Nat, process : Process, message : Nat \cup {NoMessage}]

Init ==
    /\ channels = [c \in ChannelId |-> NoChannel]
    /\ next_channel_id = 1
    /\ pending_sends = [c \in ChannelId |-> <<>>]
    /\ pending_receives = [c \in ChannelId |-> <<>>]
    /\ next_pending_id = 1
    /\ call = [p \in Process |-> NotCalling]
    /\ pump = NotPumping
    /\ reply = "None"
    /\ accepted = [c \in ChannelId |-> 0]
    /\ got = [c \in ChannelId |-> NoMessage]
    /\ taken = [c \in ChannelId |-> {}]
    /\ discarded = [c \in ChannelId |-> {}]

--------------------------------------------------------------------------------
(* create_channel, close *)

\* The id is consumed whether or not there is room for the channel.
CreateChannel(s, r) ==
    /\ ChannelsFree
    /\ next_channel_id \in ChannelId
    /\ next_channel_id' = next_channel_id + 1
    /\ IF Cardinality({c \in ChannelId : Exists(c)}) >= MaxChannels
       THEN /\ reply' = "TooManyChannels"
            /\ UNCHANGED channels
       ELSE /\ reply' = "Ok"
            /\ channels' = [channels EXCEPT ![next_channel_id] = NewChannel(s, r)]
    /\ UNCHANGED <<pending, call, pump, history>>

Close(p, c) ==
    /\ ChannelsFree
    /\ CanCall(p)
    /\ IF ~Exists(c)
       THEN reply' = "ChannelNotFound" /\ UNCHANGED channels
       ELSE IF p \notin {channels[c].sender, channels[c].receiver}
       THEN reply' = "NotAuthorized" /\ UNCHANGED channels
       ELSE reply' = "Ok" /\ channels' = [channels EXCEPT ![c].closed = TRUE]
    /\ UNCHANGED <<next_channel_id, pending, call, pump, history>>

--------------------------------------------------------------------------------
(* send, receive: one critical section on `channels` *)

PutInRing(c, body) ==
    channels' = [channels EXCEPT ![c] = ChannelSend(channels[c], body)]

TakeFromRing(c) ==
    /\ channels' = [channels EXCEPT ![c] = ChannelReceive(channels[c])]
    /\ got' = [got EXCEPT ![c] = Oldest(channels[c])]

AcceptSend(c) ==
    /\ PutInRing(c, accepted[c] + 1)
    /\ accepted' = [accepted EXCEPT ![c] = @ + 1]
    /\ UNCHANGED <<got, taken, discarded>>

HandOver(c) ==
    /\ TakeFromRing(c)
    /\ taken' = [taken EXCEPT ![c] = @ \cup {Oldest(channels[c]).body}]
    /\ UNCHANGED <<accepted, discarded>>

Send(p, c, large) ==
    /\ ChannelsFree
    /\ CanCall(p)
    /\ accepted[c] < MaxMessages
    /\ reply' = SendResult(p, c, large)
    /\ IF reply' = "Ok" THEN AcceptSend(c) ELSE UNCHANGED <<channels, history>>
    /\ UNCHANGED <<next_channel_id, pending, call, pump>>

Receive(p, c) ==
    /\ ChannelsFree
    /\ CanCall(p)
    /\ reply' = ReceiveResult(p, c)
    /\ IF reply' = "Ok" THEN HandOver(c) ELSE UNCHANGED <<channels, history>>
    /\ UNCHANGED <<next_channel_id, pending, call, pump>>

--------------------------------------------------------------------------------
(* send_async, receive_async: the same, then another critical section if    *)
(* the ring was full or empty; a message too large is refused as by send    *)

\* Beyond the bound on messages it is still called when the queue is full too, for
\* queue_send to refuse.
SendAsync(p, c) ==
    /\ ChannelsFree
    /\ CanCall(p)
    /\ \/ accepted[c] < MaxMessages
       \/ Exists(c) /\ IsFull(channels[c]) /\ Len(pending_sends[c]) >= MaxPending
    /\ next_pending_id <= MaxOps
    /\ LET result == SendResult(p, c, FALSE)
       IN  CASE result = "Ok" -> reply' = "Ok" /\ AcceptSend(c) /\ UNCHANGED call
             [] result = "BufferFull" ->
                   /\ call' = [call EXCEPT ![p] = [op |-> "send", chan |-> c]]
                   /\ UNCHANGED <<channels, history, reply>>
             [] OTHER -> reply' = result /\ UNCHANGED <<channels, history, call>>
    /\ UNCHANGED <<next_channel_id, pending, pump>>

\* Wrong variant: the id is drawn but the counter is not advanced.
QueueSendSameId(p) ==
    LET c == call[p].chan
    IN  /\ call[p].op = "send"
        /\ SendsFree
        /\ Len(pending_sends[c]) < MaxPending
        /\ call' = [call EXCEPT ![p] = NotCalling]
        /\ pending_sends' = [pending_sends EXCEPT ![c] = Append(@,
              [id |-> next_pending_id, process |-> p, message |-> accepted[c] + 1])]
        /\ accepted' = [accepted EXCEPT ![c] = @ + 1]
        /\ reply' = "Pending"
        /\ UNCHANGED <<ring, pending_receives, next_pending_id, pump, got, taken, discarded>>

(* queue_send *)
QueueSend(p) ==
    LET c == call[p].chan
    IN  /\ call[p].op = "send"
        /\ SendsFree
        /\ call' = [call EXCEPT ![p] = NotCalling]
        /\ IF Len(pending_sends[c]) >= MaxPending
           THEN reply' = "TooManyPending" /\ UNCHANGED <<pending, accepted>>
           ELSE /\ pending_sends' = [pending_sends EXCEPT ![c] = Append(@,
                      [id |-> next_pending_id, process |-> p, message |-> accepted[c] + 1])]
                /\ next_pending_id' = next_pending_id + 1
                /\ accepted' = [accepted EXCEPT ![c] = @ + 1]
                /\ reply' = "Pending"
                /\ UNCHANGED pending_receives
        /\ UNCHANGED <<ring, pump, got, taken, discarded>>

ReceiveAsync(p, c) ==
    /\ ChannelsFree
    /\ CanCall(p)
    /\ next_pending_id <= MaxOps
    /\ LET result == ReceiveResult(p, c)
       IN  CASE result = "Ok" -> reply' = "Ok" /\ HandOver(c) /\ UNCHANGED call
             [] result = "BufferEmpty" ->
                   /\ call' = [call EXCEPT ![p] = [op |-> "receive", chan |-> c]]
                   /\ UNCHANGED <<channels, history, reply>>
             [] OTHER -> reply' = result /\ UNCHANGED <<channels, history, call>>
    /\ UNCHANGED <<next_channel_id, pending, pump>>

(* queue_receive *)
QueueReceive(p) ==
    LET c == call[p].chan
    IN  /\ call[p].op = "receive"
        /\ ReceivesFree
        /\ call' = [call EXCEPT ![p] = NotCalling]
        /\ IF Len(pending_receives[c]) >= MaxPending
           THEN reply' = "TooManyPending" /\ UNCHANGED pending
           ELSE /\ pending_receives' = [pending_receives EXCEPT ![c] = Append(@,
                      [id |-> next_pending_id, process |-> p, message |-> NoMessage])]
                /\ next_pending_id' = next_pending_id + 1
                /\ reply' = "Pending"
                /\ UNCHANGED pending_sends
        /\ UNCHANGED <<ring, pump, history>>

--------------------------------------------------------------------------------
(* cancel_pending, poll_pending: by any process, for any id ever issued *)

QueuedAt(queues, id) ==
    {w \in UNION {{<<c, i>> : i \in 1 .. Len(queues[c])} : c \in ChannelId} :
        queues[w[1]][w[2]].id = id}

SendQueued(id) == QueuedAt(pending_sends, id) # {}
ReceiveQueued(id) == QueuedAt(pending_receives, id) # {}

\* The body of a queued operation's message, if it still has one.
BodyOf(op) == {op.message} \ {NoMessage}

CancelSend(id) ==
    /\ SendsFree
    /\ \E w \in QueuedAt(pending_sends, id) :
          /\ pending_sends' = [pending_sends EXCEPT ![w[1]] = RemoveAt(@, w[2])]
          /\ discarded' = [discarded EXCEPT ![w[1]] = @ \cup BodyOf(pending_sends[w[1]][w[2]])]
    /\ reply' = "Ok"
    /\ UNCHANGED <<ring, pending_receives, next_pending_id, call, pump, accepted, got, taken>>

\* The scan of pending_sends came up empty earlier, and an id once issued does
\* not turn up there later, so only the second mutex matters here.
CancelReceive(id) ==
    /\ ReceivesFree
    /\ ~SendQueued(id)
    /\ \E w \in QueuedAt(pending_receives, id) :
          pending_receives' = [pending_receives EXCEPT ![w[1]] = RemoveAt(@, w[2])]
    /\ reply' = "Ok"
    /\ UNCHANGED <<ring, pending_sends, next_pending_id, call, pump, history>>

CancelNotFound(id) ==
    /\ ReceivesFree
    /\ ~SendQueued(id) /\ ~ReceiveQueued(id)
    /\ reply' = "PendingNotFound"
    /\ UNCHANGED <<ring, pending, call, pump, history>>

Cancel(id) == CancelSend(id) \/ CancelReceive(id) \/ CancelNotFound(id)

Poll(id) ==
    /\ SendsFree /\ ReceivesFree
    /\ reply' = IF SendQueued(id) \/ ReceiveQueued(id) THEN "WouldBlock" ELSE "PendingNotFound"
    /\ UNCHANGED <<ring, pending, call, pump, history>>

--------------------------------------------------------------------------------
(* process_pending: for each channel in id order, try_complete_sends, then *)
(* try_complete_receives.  What the two return is dropped by the caller.   *)

ChannelsFrom(c) == {d \in ChannelId : d >= c /\ Exists(d)}

\* The loop over the channels arrives at the first one with an id of at least c.
VisitFrom(c) ==
    \/ ChannelsFrom(c) = {} /\ pump' = NotPumping
    \/ \E first \in ChannelsFrom(c) :
          /\ \A d \in ChannelsFrom(c) : first <= d
          /\ pump' = [at |-> "sends", chan |-> first, i |-> 1]

PumpStart ==
    /\ ChannelsFree
    /\ ChannelsFrom(1) # {}
    /\ VisitFrom(1)
    /\ UNCHANGED <<ring, pending, call, reply, history>>

\* Wrong variant: the message is copied, not taken, and the operation stays.
PumpSendKeeps ==
    LET c == pump.chan
        op == pending_sends[c][pump.i]
    IN  /\ pump.at = "sends"
        /\ pump.i <= Len(pending_sends[c]) /\ ~IsFull(channels[c])
        /\ op.message # NoMessage /\ ~channels[c].closed
        /\ PutInRing(c, op.message)
        /\ pump' = [pump EXCEPT !.i = @ + 1]
        /\ UNCHANGED <<next_channel_id, pending, call, reply, history>>

\* Wrong variant: the ring is filled without Channel::send's closed check.
PumpSendUnchecked ==
    LET c == pump.chan
        op == pending_sends[c][pump.i]
    IN  /\ pump.at = "sends"
        /\ pump.i <= Len(pending_sends[c]) /\ ~IsFull(channels[c])
        /\ op.message # NoMessage
        /\ PutInRing(c, op.message)
        /\ pending_sends' = [pending_sends EXCEPT ![c] = RemoveAt(@, pump.i)]
        /\ UNCHANGED <<next_channel_id, pending_receives, next_pending_id, call, pump,
                       reply, history>>

\* An iteration that finds a message and an open channel moves it into the ring.
PumpSend ==
    LET c == pump.chan
        op == pending_sends[c][pump.i]
    IN  /\ pump.at = "sends"
        /\ pump.i <= Len(pending_sends[c]) /\ ~IsFull(channels[c])
        /\ op.message # NoMessage /\ ~channels[c].closed
        /\ PutInRing(c, op.message)
        /\ pending_sends' = [pending_sends EXCEPT ![c] = RemoveAt(@, pump.i)]
        /\ UNCHANGED <<next_channel_id, pending_receives, next_pending_id, call, pump,
                       reply, history>>

\* Wrong variant: the loop index is not advanced past the operation that failed.
PumpSendFailsInPlace ==
    LET c == pump.chan
        op == pending_sends[c][pump.i]
    IN  /\ pump.at = "sends"
        /\ pump.i <= Len(pending_sends[c]) /\ ~IsFull(channels[c])
        /\ op.message = NoMessage \/ channels[c].closed
        /\ pending_sends' = [pending_sends EXCEPT ![c][pump.i].message = NoMessage]
        /\ discarded' = [discarded EXCEPT ![c] = @ \cup BodyOf(op)]
        /\ UNCHANGED <<ring, pending_receives, next_pending_id, call, pump, reply,
                       accepted, got, taken>>

\* Otherwise the operation stays queued without its message: take() was called
\* before Channel::send refused, or had been called in an earlier round.
PumpSendFails ==
    LET c == pump.chan
        op == pending_sends[c][pump.i]
    IN  /\ pump.at = "sends"
        /\ pump.i <= Len(pending_sends[c]) /\ ~IsFull(channels[c])
        /\ op.message = NoMessage \/ channels[c].closed
        /\ pending_sends' = [pending_sends EXCEPT ![c][pump.i].message = NoMessage]
        /\ discarded' = [discarded EXCEPT ![c] = @ \cup BodyOf(op)]
        /\ pump' = [pump EXCEPT !.i = @ + 1]
        /\ UNCHANGED <<ring, pending_receives, next_pending_id, call, reply,
                       accepted, got, taken>>

PumpSendsDone ==
    /\ pump.at = "sends"
    /\ pump.i > Len(pending_sends[pump.chan]) \/ IsFull(channels[pump.chan])
    /\ ReceivesFree
    /\ pump' = [pump EXCEPT !.at = "receives"]
    /\ UNCHANGED <<ring, pending, call, reply, history>>

\* A queued receive is completed with the oldest message; both are dropped.
PumpReceive ==
    LET c == pump.chan
    IN  /\ pump.at = "receives"
        /\ pending_receives[c] # <<>> /\ ~IsEmpty(channels[c])
        /\ Oldest(channels[c]) # NoMessage
        /\ TakeFromRing(c)
        /\ pending_receives' = [pending_receives EXCEPT ![c] = RemoveAt(@, 1)]
        /\ discarded' = [discarded EXCEPT ![c] = @ \cup {Oldest(channels[c]).body}]
        /\ UNCHANGED <<next_channel_id, pending_sends, next_pending_id, call, pump, reply,
                       accepted, taken>>

PumpReceivesDone ==
    LET c == pump.chan
    IN  /\ pump.at = "receives"
        /\ \/ pending_receives[c] = <<>>
           \/ IsEmpty(channels[c])
           \/ Oldest(channels[c]) = NoMessage
        /\ VisitFrom(c + 1)
        /\ UNCHANGED <<ring, pending, call, reply, history>>

PumpStep ==
    PumpSend \/ PumpSendFails \/ PumpSendsDone \/ PumpReceive \/ PumpReceivesDone

ProcessPending == PumpStart \/ PumpStep

--------------------------------------------------------------------------------

Calls(p, c) ==
    \/ \E large \in BOOLEAN : Send(p, c, large)
    \/ Receive(p, c)
    \/ SendAsync(p, c)
    \/ ReceiveAsync(p, c)
    \/ Close(p, c)

Next ==
    \/ \E s, r \in Process : CreateChannel(s, r)
    \/ \E p \in Process, c \in ChannelId : Calls(p, c)
    \/ \E p \in Process : QueueSend(p) \/ QueueReceive(p)
    \/ \E id \in 1 .. next_pending_id - 1 : Cancel(id) \/ Poll(id)
    \/ ProcessPending

Spec == Init /\ [][Next]_vars

(* process_pending runs to its end once started: it waits for nothing while *)
(* it holds the mutexes.                                                    *)
FairSpec == Spec /\ WF_vars(PumpStep)

--------------------------------------------------------------------------------
(* Properties *)

Replies == {"None", "Ok", "Pending", "ChannelNotFound", "NotAuthorized", "MessageTooLarge",
            "ChannelClosed", "BufferFull", "BufferEmpty", "TooManyChannels",
            "TooManyPending", "WouldBlock", "PendingNotFound"}

TypeOK ==
    /\ channels \in [ChannelId -> Channel \cup {NoChannel}]
    /\ next_channel_id \in Nat
    /\ pending_sends \in [ChannelId -> Seq(PendingOp)]
    /\ pending_receives \in [ChannelId -> Seq(PendingOp)]
    /\ next_pending_id \in Nat
    /\ call \in [Process -> [op : {"none", "send", "receive"}, chan : ChannelId]]
    /\ pump \in [at : {"idle", "sends", "receives"}, chan : ChannelId, i : Nat \ {0}]
    /\ reply \in Replies
    /\ accepted \in [ChannelId -> Nat]
    /\ got \in [ChannelId -> Message \cup {NoMessage}]
    /\ taken \in [ChannelId -> SUBSET Nat]
    /\ discarded \in [ChannelId -> SUBSET Nat]

\* The slot a number of slots after the oldest message.
SlotAfter(ch, k) == (ch.read_pos + k) % BufferSize

\* The slots in use are exactly the message_count slots from read_pos on, they
\* end where write_pos points, and their sequence numbers are consecutive up to
\* next_sequence: no interleaving of send, receive, close and process_pending
\* leaves a hole, overwrites a message or numbers two messages alike
\* (ipc/mod.rs:201-234).
WindowOK(ch) ==
    /\ ch.message_count <= BufferSize
    /\ ch.message_count <= ch.next_sequence
    /\ ch.write_pos = SlotAfter(ch, ch.message_count)
    /\ \A k \in SlotIndex :
          IF k < ch.message_count
          THEN /\ ch.buffer[SlotAfter(ch, k)] # NoMessage
               /\ ch.buffer[SlotAfter(ch, k)].sequence = ch.next_sequence - ch.message_count + k
          ELSE ch.buffer[SlotAfter(ch, k)] = NoMessage

RingWindows == \A c \in ChannelId : Exists(c) => WindowOK(channels[c])

\* process_pending visits channels of the map only.
PumpOnChannel == pump.at # "idle" => Exists(pump.chan)

\* An id that create_channel has not handed out names no channel, so a new
\* channel never replaces one.
FreshIds == \A c \in ChannelId : c >= next_channel_id => ~Exists(c)

\* The inductive invariant: types, ring windows, where the pump stands, and
\* which ids are free.
IpcInv == TypeOK /\ RingWindows /\ PumpOnChannel /\ FreshIds

InRing(c) ==
    IF Exists(c)
    THEN {channels[c].buffer[i].body : i \in {j \in SlotIndex : channels[c].buffer[j] # NoMessage}}
    ELSE {}
InQueue(c) == UNION {BodyOf(pending_sends[c][i]) : i \in 1 .. Len(pending_sends[c])}

\* Every message send or send_async accepted is in exactly one place: the ring,
\* the pending queue, the receiver, or, once cancelled, stripped off by
\* try_complete_sends on a closed channel or completed by process_pending, with
\* nobody.  None is duplicated and none vanishes otherwise.
Conservation ==
    \A c \in ChannelId :
        /\ InRing(c) \cup InQueue(c) \cup taken[c] \cup discarded[c] = 1 .. accepted[c]
        /\ Cardinality(InRing(c)) + Cardinality(InQueue(c)) + Cardinality(taken[c])
             + Cardinality(discarded[c]) = accepted[c]

\* Once a channel is closed and drained it stays so, and a closed channel takes
\* no message from anybody, process_pending included: a receiver that was told
\* ChannelClosed has missed nothing that is in the ring later.
ClosedIsFinal ==
    [][\A c \in ChannelId : Exists(c) /\ channels[c].closed =>
          /\ channels'[c].closed
          /\ channels'[c].next_sequence = channels[c].next_sequence
          /\ IsEmpty(channels[c]) => IsEmpty(channels'[c])]_vars

\* The operations of a channel wait in the order they were queued: ids increase
\* from front to back in both queues, and ids never repeat, although the id is
\* drawn under another mutex than the one the call began with and cancel and
\* process_pending remove operations from the middle (ipc/mod.rs:619-623, 705).
QueuesInIdOrder ==
    \A c \in ChannelId : \A q \in {pending_sends[c], pending_receives[c]} :
        \A i, j \in 1 .. Len(q) : i < j => q[i].id < q[j].id /\ q[j].id < next_pending_id

\* The content of a channel's ring, oldest first.
Contents(c) ==
    IF Exists(c)
    THEN [i \in 1 .. channels[c].message_count |-> channels[c].buffer[SlotAfter(channels[c], i - 1)]]
    ELSE <<>>

Fifo(c) == INSTANCE BoundedFifo
             WITH queue <- Contents(c), got <- got[c], Capacity <- BufferSize

\* Every channel's ring is a bounded FIFO, whoever puts messages in or takes
\* them out: the sender, the receiver or process_pending.
RefinesFifo ==
    /\ \A c \in ChannelId : Fifo(c)!Init
    /\ [][\A c \in ChannelId : [Fifo(c)!Next]_(Fifo(c)!fifoVars)]_vars

\* process_pending terminates: no queue and no channel state makes its loops
\* spin while it holds the mutex every other IPC call needs.
PumpTerminates == (pump.at # "idle") ~> (pump.at = "idle")

\* Messages reach the receiver in the order the channel accepted them, as
\* ipc/mod.rs:12 says ("Message delivery order is guaranteed").
DeliveredInOrder ==
    [][\A c \in ChannelId : \A m \in taken'[c] \ taken[c] : \A n \in taken[c] : n < m]_vars

================================================================================
