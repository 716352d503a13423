---------------------------- MODULE IpcManagerProofs ---------------------------
(***************************************************************************)
(* For every ring size, every bound and every set of processes: the IPC    *)
(* manager keeps IpcInv, every channel's ring implements the bounded FIFO, *)
(* and a closed channel stays closed.                                      *)
(***************************************************************************)
EXTENDS IpcManager, SequenceTheorems, FiniteSetTheorems, TLAPS

--------------------------------------------------------------------------------
(* One channel *)

\* The remainder after one whole turn.
LEMMA OneTurn ==
    ASSUME NEW n \in Nat, n > 0, NEW a \in Nat, a - n \in 0 .. n - 1
    PROVE  a % n = a - n
<1>1. a = n * (a \div n) + (a % n) /\ a % n \in 0 .. n - 1 /\ a \div n \in Int
  OBVIOUS
<1>2. n * (1 - (a \div n)) = (a % n) - (a - n)
  BY <1>1
<1> QED
  BY <1>1, <1>2

\* The slots ahead of the oldest message, without remainders.
LEMMA SlotAhead ==
    ASSUME NEW r \in SlotIndex, NEW k \in 0 .. BufferSize
    PROVE  /\ (r + k) % BufferSize \in SlotIndex
           /\ (r + k) % BufferSize = IF r + k < BufferSize THEN r + k ELSE r + k - BufferSize
<1>1. (r + k) % BufferSize = IF r + k < BufferSize THEN r + k ELSE r + k - BufferSize
  <2>1. CASE r + k < BufferSize
    BY <2>1, IpcAssumption DEF SlotIndex
  <2>2. CASE ~(r + k < BufferSize)
    <3>1. r + k - BufferSize \in 0 .. BufferSize - 1
      BY <2>2, IpcAssumption DEF SlotIndex
    <3> QED
      BY <2>2, <3>1, OneTurn, IpcAssumption DEF SlotIndex
  <2> QED
    BY <2>1, <2>2
<1> QED
  BY <1>1, IpcAssumption DEF SlotIndex

\* The fields of a channel whose window is right.
LEMMA ChannelFields ==
    ASSUME NEW ch \in Channel, WindowOK(ch)
    PROVE  /\ ch.message_count \in Nat /\ ch.next_sequence \in Nat
           /\ ch.read_pos \in SlotIndex /\ ch.write_pos \in SlotIndex
           /\ ch.buffer \in [SlotIndex -> Message \cup {NoMessage}]
           /\ ch.message_count <= BufferSize /\ ch.message_count <= ch.next_sequence
           /\ ch.write_pos = (ch.read_pos + ch.message_count) % BufferSize
<1>1. /\ ch.message_count \in Nat /\ ch.next_sequence \in Nat
      /\ ch.read_pos \in SlotIndex /\ ch.write_pos \in SlotIndex
      /\ ch.buffer \in [SlotIndex -> Message \cup {NoMessage}]
  BY DEF Channel
<1>2. /\ ch.message_count <= BufferSize /\ ch.message_count <= ch.next_sequence
      /\ ch.write_pos = (ch.read_pos + ch.message_count) % BufferSize
  BY DEF WindowOK, SlotAfter
<1> QED
  BY <1>1, <1>2

\* Channel::new makes a channel with an empty window.
LEMMA NewChannelOK ==
    ASSUME NEW s \in Process, NEW r \in Process
    PROVE  NewChannel(s, r) \in Channel /\ WindowOK(NewChannel(s, r))
<1> DEFINE n == NewChannel(s, r)
<1>1. 0 \in SlotIndex
  BY IpcAssumption DEF SlotIndex
<1>2. n \in Channel
  BY <1>1 DEF NewChannel, Channel
<1>3. n.message_count = 0 /\ n.next_sequence = 0 /\ n.read_pos = 0 /\ n.write_pos = 0
  BY DEF NewChannel
<1>4. \A k \in 0 .. BufferSize : SlotAfter(n, k) \in SlotIndex
  BY <1>1, <1>3, SlotAhead DEF SlotAfter
<1>5. SlotAfter(n, 0) = 0
  BY <1>1, <1>3, SlotAhead, IpcAssumption DEF SlotAfter
<1>6. \A k \in SlotIndex : n.buffer[SlotAfter(n, k)] = NoMessage
  <2>1. n.buffer = [i \in SlotIndex |-> NoMessage]
    BY DEF NewChannel
  <2>2. \A k \in SlotIndex : SlotAfter(n, k) \in SlotIndex
    BY <1>4, IpcAssumption DEF SlotIndex
  <2> HIDE DEF n
  <2> QED
    BY <2>1, <2>2
<1> QED
  BY <1>2, <1>3, <1>5, <1>6, IpcAssumption DEF WindowOK, SlotIndex

\* Closing touches the flag only.
LEMMA CloseChannelOK ==
    ASSUME NEW ch \in Channel, WindowOK(ch)
    PROVE  [ch EXCEPT !.closed = TRUE] \in Channel /\ WindowOK([ch EXCEPT !.closed = TRUE])
  BY DEF Channel, WindowOK, SlotAfter


\* Putting a message in the slot past the window.
LEMMA WindowPut ==
    ASSUME NEW r \in SlotIndex, NEW c \in 0 .. BufferSize - 1, NEW w \in SlotIndex,
           w = (r + c) % BufferSize
    PROVE  /\ (w + 1) % BufferSize = (r + (c + 1)) % BufferSize
           /\ \A k \in SlotIndex : k # c => (r + k) % BufferSize # w
<1> USE IpcAssumption DEF SlotIndex
<1>1. w = IF r + c < BufferSize THEN r + c ELSE r + c - BufferSize
  BY SlotAhead
<1>2. (w + 1) % BufferSize = IF w + 1 < BufferSize THEN w + 1 ELSE w + 1 - BufferSize
  BY SlotAhead
<1>3. c + 1 \in 0 .. BufferSize
  OBVIOUS
<1>4. (r + (c + 1)) % BufferSize
        = IF r + (c + 1) < BufferSize THEN r + (c + 1) ELSE r + (c + 1) - BufferSize
  BY <1>3, SlotAhead
<1>5. (w + 1) % BufferSize = (r + (c + 1)) % BufferSize
  BY <1>1, <1>2, <1>4
<1>6. ASSUME NEW k \in SlotIndex, k # c PROVE (r + k) % BufferSize # w
  <2>1. (r + k) % BufferSize = IF r + k < BufferSize THEN r + k ELSE r + k - BufferSize
    BY SlotAhead
  <2> QED
    BY <1>1, <1>6, <2>1
<1> QED
  BY <1>5, <1>6

\* Taking the message at the start of the window.
LEMMA WindowTake ==
    ASSUME NEW r \in SlotIndex, NEW c \in 1 .. BufferSize, NEW n \in SlotIndex,
           n = (r + 1) % BufferSize
    PROVE  /\ (r + 0) % BufferSize = r
           /\ (r + c) % BufferSize = (n + (c - 1)) % BufferSize
           /\ \A k \in 0 .. BufferSize - 2 :
                 /\ (n + k) % BufferSize = (r + (k + 1)) % BufferSize
                 /\ (n + k) % BufferSize # r
           /\ (n + (BufferSize - 1)) % BufferSize = r
<1> USE IpcAssumption DEF SlotIndex
<1>0. (r + 0) % BufferSize = r
  BY SlotAhead
<1>1. n = IF r + 1 < BufferSize THEN r + 1 ELSE r + 1 - BufferSize
  BY SlotAhead
<1>2. ASSUME NEW j \in 1 .. BufferSize
      PROVE  (n + (j - 1)) % BufferSize = (r + j) % BufferSize
  <2>1. (r + j) % BufferSize = IF r + j < BufferSize THEN r + j ELSE r + j - BufferSize
    BY SlotAhead
  <2>2. j - 1 \in 0 .. BufferSize
    OBVIOUS
  <2>3. (n + (j - 1)) % BufferSize
          = IF n + (j - 1) < BufferSize THEN n + (j - 1) ELSE n + (j - 1) - BufferSize
    BY <2>2, SlotAhead
  <2> QED
    BY <1>1, <2>1, <2>3
<1>3. ASSUME NEW k \in 0 .. BufferSize - 2
      PROVE  /\ (n + k) % BufferSize = (r + (k + 1)) % BufferSize
             /\ (n + k) % BufferSize # r
  <2>1. k + 1 \in 1 .. BufferSize /\ (k + 1) - 1 = k /\ k + 1 \in 0 .. BufferSize
    OBVIOUS
  <2>2. (n + k) % BufferSize = (r + (k + 1)) % BufferSize
    BY <1>2, <2>1
  <2>3. (r + (k + 1)) % BufferSize
          = IF r + (k + 1) < BufferSize THEN r + (k + 1) ELSE r + (k + 1) - BufferSize
    BY <2>1, SlotAhead
  <2> QED
    BY <2>2, <2>3
<1>4. (n + (BufferSize - 1)) % BufferSize = r
  <2>1. (r + BufferSize) % BufferSize = r
    BY SlotAhead
  <2> QED
    BY <1>2, <2>1
<1> QED
  BY <1>0, <1>2, <1>3, <1>4

\* Channel::send on a channel that is not full extends the window by one.
LEMMA ChannelSendOK ==
    ASSUME NEW ch \in Channel, WindowOK(ch), ~IsFull(ch), NEW body \in Nat
    PROVE  /\ ChannelSend(ch, body) \in Channel
           /\ WindowOK(ChannelSend(ch, body))
<1> DEFINE n == ChannelSend(ch, body)
           new == [body |-> body, sequence |-> ch.next_sequence]
<1>1. /\ ch.message_count \in Nat /\ ch.next_sequence \in Nat
      /\ ch.read_pos \in SlotIndex /\ ch.write_pos \in SlotIndex
      /\ ch.message_count \in 0 .. BufferSize - 1 /\ ch.message_count <= ch.next_sequence
      /\ ch.buffer \in [SlotIndex -> Message \cup {NoMessage}]
      /\ ch.write_pos = (ch.read_pos + ch.message_count) % BufferSize
  BY ChannelFields, IpcAssumption DEF IsFull
<1>2. (ch.write_pos + 1) % BufferSize \in SlotIndex
  BY <1>1, SlotAhead, IpcAssumption
<1>3. new \in Message /\ new # NoMessage /\ new.sequence = ch.next_sequence
  BY <1>1, OptionAssumption DEF Message
<1>4. n \in Channel
  <2> DEFINE b == [ch.buffer EXCEPT ![ch.write_pos] = new]
             w == (ch.write_pos + 1) % BufferSize
  <2>1. b \in [SlotIndex -> Message \cup {NoMessage}]
    BY <1>1, <1>3
  <2>2. n = [ch EXCEPT !.buffer = b, !.next_sequence = ch.next_sequence + 1,
                       !.write_pos = w, !.message_count = ch.message_count + 1]
    BY DEF ChannelSend
  <2>3. w \in SlotIndex
    BY <1>2
  <2>4. ch.message_count + 1 \in Nat /\ ch.next_sequence + 1 \in Nat
    BY <1>1
  <2> HIDE DEF b, w, n
  <2> QED
    BY <1>1, <2>1, <2>2, <2>3, <2>4 DEF Channel
<1>5. /\ n.read_pos = ch.read_pos /\ n.message_count = ch.message_count + 1
      /\ n.next_sequence = ch.next_sequence + 1
      /\ n.write_pos = (ch.write_pos + 1) % BufferSize
      /\ n.buffer = [ch.buffer EXCEPT ![ch.write_pos] = new]
  BY DEF Channel, ChannelSend
<1> HIDE DEF n, new
<1>6. /\ (ch.write_pos + 1) % BufferSize = (ch.read_pos + (ch.message_count + 1)) % BufferSize
      /\ \A k \in SlotIndex :
            k # ch.message_count => (ch.read_pos + k) % BufferSize # ch.write_pos
  BY <1>1, WindowPut
<1>7. ASSUME NEW k \in SlotIndex
      PROVE  IF k < n.message_count
             THEN /\ n.buffer[SlotAfter(n, k)] # NoMessage
                  /\ n.buffer[SlotAfter(n, k)].sequence = n.next_sequence - n.message_count + k
             ELSE n.buffer[SlotAfter(n, k)] = NoMessage
  <2>0. k \in 0 .. BufferSize
    BY IpcAssumption DEF SlotIndex
  <2>1. /\ SlotAfter(n, k) = (ch.read_pos + k) % BufferSize
        /\ SlotAfter(ch, k) = (ch.read_pos + k) % BufferSize
        /\ (ch.read_pos + k) % BufferSize \in SlotIndex
    BY <1>1, <1>5, <2>0, SlotAhead DEF SlotAfter
  <2>2. CASE k = ch.message_count
    <3>1. n.buffer[SlotAfter(n, k)] = new
      BY <1>1, <1>5, <2>1, <2>2
    <3>2. k < n.message_count /\ n.next_sequence - n.message_count + k = ch.next_sequence
      BY <1>1, <1>5, <2>2
    <3> QED
      BY <1>3, <3>1, <3>2
  <2>3. CASE k # ch.message_count
    <3>1. n.buffer[SlotAfter(n, k)] = ch.buffer[SlotAfter(ch, k)]
      BY <1>1, <1>5, <1>6, <2>1, <2>3
    <3>2. k < n.message_count <=> k < ch.message_count
      BY <1>1, <1>5, <2>0, <2>3, IpcAssumption
    <3>3. n.next_sequence - n.message_count + k = ch.next_sequence - ch.message_count + k
      BY <1>1, <1>5, <2>0, IpcAssumption
    <3> QED
      BY <3>1, <3>2, <3>3 DEF WindowOK
  <2> QED
    BY <2>2, <2>3
<1>8. n.write_pos = SlotAfter(n, n.message_count)
  BY <1>5, <1>6 DEF SlotAfter
<1>9. n.message_count <= BufferSize /\ n.message_count <= n.next_sequence
  BY <1>1, <1>5, IpcAssumption
<1>10. WindowOK(n)
  BY <1>7, <1>8, <1>9 DEF WindowOK
<1> QED
  BY <1>4, <1>10 DEF n

\* Channel::receive on a channel that is not empty shortens the window by one,
\* and the slot it takes holds a message.
LEMMA ChannelReceiveOK ==
    ASSUME NEW ch \in Channel, WindowOK(ch), ~IsEmpty(ch)
    PROVE  /\ Oldest(ch) \in Message
           /\ ChannelReceive(ch) \in Channel
           /\ WindowOK(ChannelReceive(ch))
<1> DEFINE n == ChannelReceive(ch)
<1>1. /\ ch.message_count \in Nat /\ ch.next_sequence \in Nat
      /\ ch.read_pos \in SlotIndex /\ ch.write_pos \in SlotIndex
      /\ ch.message_count \in 1 .. BufferSize /\ ch.message_count <= ch.next_sequence
      /\ ch.buffer \in [SlotIndex -> Message \cup {NoMessage}]
      /\ ch.write_pos = (ch.read_pos + ch.message_count) % BufferSize
  BY ChannelFields, IpcAssumption DEF IsEmpty
<1>2. (ch.read_pos + 1) % BufferSize \in SlotIndex
  BY <1>1, SlotAhead, IpcAssumption
<1>3. n \in Channel
  <2> DEFINE b == [ch.buffer EXCEPT ![ch.read_pos] = NoMessage]
             r == (ch.read_pos + 1) % BufferSize
  <2>1. b \in [SlotIndex -> Message \cup {NoMessage}]
    BY <1>1
  <2>2. n = [ch EXCEPT !.buffer = b, !.read_pos = r, !.message_count = ch.message_count - 1]
    BY DEF ChannelReceive
  <2>3. r \in SlotIndex
    BY <1>2
  <2>4. ch.message_count - 1 \in Nat
    BY <1>1
  <2> HIDE DEF b, r, n
  <2> QED
    BY <1>1, <2>1, <2>2, <2>3, <2>4 DEF Channel
<1>4. /\ n.read_pos = (ch.read_pos + 1) % BufferSize
      /\ n.message_count = ch.message_count - 1
      /\ n.next_sequence = ch.next_sequence /\ n.write_pos = ch.write_pos
      /\ n.buffer = [ch.buffer EXCEPT ![ch.read_pos] = NoMessage]
  BY DEF Channel, ChannelReceive
<1> HIDE DEF n
<1>5. /\ (ch.read_pos + 0) % BufferSize = ch.read_pos
      /\ (ch.read_pos + ch.message_count) % BufferSize
            = (n.read_pos + (ch.message_count - 1)) % BufferSize
      /\ \A k \in 0 .. BufferSize - 2 :
            /\ (n.read_pos + k) % BufferSize = (ch.read_pos + (k + 1)) % BufferSize
            /\ (n.read_pos + k) % BufferSize # ch.read_pos
      /\ (n.read_pos + (BufferSize - 1)) % BufferSize = ch.read_pos
  BY <1>1, <1>2, <1>4, WindowTake
<1>6. Oldest(ch) \in Message
  <2>1. 0 \in SlotIndex /\ 0 < ch.message_count
    BY <1>1, IpcAssumption DEF SlotIndex
  <2>2. ch.buffer[SlotAfter(ch, 0)] # NoMessage
    BY <2>1 DEF WindowOK
  <2> QED
    BY <1>1, <1>5, <2>2 DEF Oldest, SlotAfter
<1>7. ASSUME NEW k \in SlotIndex
      PROVE  IF k < n.message_count
             THEN /\ n.buffer[SlotAfter(n, k)] # NoMessage
                  /\ n.buffer[SlotAfter(n, k)].sequence = n.next_sequence - n.message_count + k
             ELSE n.buffer[SlotAfter(n, k)] = NoMessage
  <2>1. CASE k = BufferSize - 1
    <3>1. SlotAfter(n, k) = ch.read_pos
      BY <1>5, <2>1 DEF SlotAfter
    <3>2. ~(k < n.message_count)
      BY <1>1, <1>4, <2>1, IpcAssumption
    <3> QED
      BY <1>1, <1>4, <3>1, <3>2
  <2>2. CASE k # BufferSize - 1
    <3>1. k \in 0 .. BufferSize - 2 /\ k + 1 \in SlotIndex /\ k + 1 \in 0 .. BufferSize
      BY <2>2, IpcAssumption DEF SlotIndex
    <3>2. /\ SlotAfter(n, k) = SlotAfter(ch, k + 1) /\ SlotAfter(ch, k + 1) # ch.read_pos
          /\ SlotAfter(ch, k + 1) \in SlotIndex
      BY <1>1, <1>5, <3>1, SlotAhead DEF SlotAfter
    <3>3. n.buffer[SlotAfter(n, k)] = ch.buffer[SlotAfter(ch, k + 1)]
      BY <1>1, <1>4, <3>2
    <3>4. k < n.message_count <=> k + 1 < ch.message_count
      BY <1>1, <1>4, <3>1, IpcAssumption
    <3>5. n.next_sequence - n.message_count + k = ch.next_sequence - ch.message_count + (k + 1)
      BY <1>1, <1>4, <3>1, IpcAssumption
    <3> QED
      BY <3>1, <3>3, <3>4, <3>5 DEF WindowOK
  <2> QED
    BY <2>1, <2>2
<1>8. n.write_pos = SlotAfter(n, n.message_count)
  BY <1>1, <1>4, <1>5 DEF SlotAfter
<1>9. n.message_count <= BufferSize /\ n.message_count <= n.next_sequence
  BY <1>1, <1>4, IpcAssumption
<1>10. WindowOK(n)
  BY <1>7, <1>8, <1>9 DEF WindowOK
<1> QED
  BY <1>3, <1>6, <1>10 DEF n

--------------------------------------------------------------------------------
(* What a step of the manager does to one channel *)

Unmoved(c) == channels'[c] = channels[c] /\ got'[c] = got[c]

Created(c) ==
    /\ ~Exists(c) /\ got'[c] = got[c]
    /\ c = next_channel_id /\ next_channel_id' = next_channel_id + 1
    /\ \E s, r \in Process : channels'[c] = NewChannel(s, r)

Closed(c) ==
    /\ Exists(c) /\ got'[c] = got[c]
    /\ channels'[c] = [channels[c] EXCEPT !.closed = TRUE]

Filled(c) ==
    /\ Exists(c) /\ got'[c] = got[c]
    /\ ~channels[c].closed /\ ~IsFull(channels[c])
    /\ \E body \in Nat : channels'[c] = ChannelSend(channels[c], body)

Drained(c) ==
    /\ Exists(c) /\ ~IsEmpty(channels[c])
    /\ channels'[c] = ChannelReceive(channels[c])
    /\ got'[c] = Oldest(channels[c])

Move(c) == Unmoved(c) \/ Created(c) \/ Closed(c) \/ Filled(c) \/ Drained(c)

Moves ==
    /\ channels' = [c \in ChannelId |-> channels'[c]]
    /\ got' = [c \in ChannelId |-> got'[c]]
    /\ next_channel_id' \in {next_channel_id, next_channel_id + 1}
    /\ \A c \in ChannelId : Move(c)

LEMMA Unmoves ==
    ASSUME TypeOK, UNCHANGED <<channels, got>>,
           next_channel_id' \in {next_channel_id, next_channel_id + 1}
    PROVE  Moves
  BY DEF TypeOK, Moves, Move, Unmoved

LEMMA AcceptMoves ==
    ASSUME TypeOK, NEW c \in ChannelId, NEW body \in Nat, Exists(c), ~channels[c].closed,
           ~IsFull(channels[c]), PutInRing(c, body), UNCHANGED <<next_channel_id, got>>
    PROVE  Moves
<1>1. channels' = [channels EXCEPT ![c] = ChannelSend(channels[c], body)]
  BY DEF PutInRing
<1>2. Filled(c)
  BY <1>1 DEF TypeOK, Filled
<1>3. \A d \in ChannelId \ {c} : Unmoved(d)
  BY <1>1 DEF TypeOK, Unmoved
<1> QED
  BY <1>1, <1>2, <1>3 DEF TypeOK, Moves, Move

LEMMA TakeMoves ==
    ASSUME TypeOK, NEW c \in ChannelId, Exists(c), ~IsEmpty(channels[c]), TakeFromRing(c),
           UNCHANGED next_channel_id
    PROVE  Moves
<1>1. /\ channels' = [channels EXCEPT ![c] = ChannelReceive(channels[c])]
      /\ got' = [got EXCEPT ![c] = Oldest(channels[c])]
  BY DEF TakeFromRing
<1>2. Drained(c)
  BY <1>1 DEF TypeOK, Drained
<1>3. \A d \in ChannelId \ {c} : Unmoved(d)
  BY <1>1 DEF TypeOK, Unmoved
<1> QED
  BY <1>1, <1>2, <1>3 DEF TypeOK, Moves, Move

\* What "Ok" of send and receive says about the channel.
LEMMA ResultOk ==
    ASSUME NEW p \in Process, NEW c \in ChannelId
    PROVE  /\ \A large \in BOOLEAN : SendResult(p, c, large) = "Ok" =>
                 Exists(c) /\ ~channels[c].closed /\ ~IsFull(channels[c])
           /\ ReceiveResult(p, c) = "Ok" =>
                 Exists(c) /\ ~IsEmpty(channels[c])
  BY DEF SendResult, ReceiveResult

\* Every step of the manager moves each channel in one of the five ways.
LEMMA StepMoves ==
    ASSUME IpcInv, [Next]_vars
    PROVE  Moves
<1> USE DEF IpcInv
<1>1. ASSUME NEW s \in Process, NEW r \in Process, CreateChannel(s, r) PROVE Moves
  <2>1. CASE UNCHANGED channels
    BY <1>1, <2>1, Unmoves DEF CreateChannel, history
  <2>2. CASE channels' = [channels EXCEPT ![next_channel_id] = NewChannel(s, r)]
    <3>1. /\ next_channel_id \in ChannelId /\ ~Exists(next_channel_id) /\ UNCHANGED got
          /\ next_channel_id' = next_channel_id + 1
      BY <1>1 DEF CreateChannel, FreshIds, history, ChannelId, TypeOK
    <3>2. Created(next_channel_id)
      BY <2>2, <3>1 DEF TypeOK, Created
    <3>3. \A d \in ChannelId \ {next_channel_id} : Unmoved(d)
      BY <2>2, <3>1 DEF TypeOK, Unmoved
    <3> QED
      BY <2>2, <3>1, <3>2, <3>3 DEF TypeOK, Moves, Move
  <2> QED
    BY <1>1, <2>1, <2>2 DEF CreateChannel
<1>2. ASSUME NEW p \in Process, NEW c \in ChannelId, Calls(p, c) PROVE Moves
  <2>1. ASSUME NEW large \in BOOLEAN, Send(p, c, large) PROVE Moves
    <3>1. CASE SendResult(p, c, large) = "Ok"
      <4>1. PutInRing(c, accepted[c] + 1) /\ UNCHANGED <<next_channel_id, got>>
        BY <2>1, <3>1 DEF Send, AcceptSend
      <4>2. accepted[c] + 1 \in Nat
        BY DEF TypeOK
      <4> QED
        BY <3>1, <4>1, <4>2, ResultOk, AcceptMoves
    <3>2. CASE SendResult(p, c, large) # "Ok"
      BY <2>1, <3>2, Unmoves DEF Send, history
    <3> QED
      BY <3>1, <3>2
  <2>2. CASE Receive(p, c)
    <3>1. CASE ReceiveResult(p, c) = "Ok"
      BY <2>2, <3>1, ResultOk, TakeMoves DEF Receive, HandOver
    <3>2. CASE ReceiveResult(p, c) # "Ok"
      BY <2>2, <3>2, Unmoves DEF Receive, history
    <3> QED
      BY <3>1, <3>2
  <2>3. CASE SendAsync(p, c)
    <3>1. CASE SendResult(p, c, FALSE) = "Ok"
      <4>1. PutInRing(c, accepted[c] + 1) /\ UNCHANGED <<next_channel_id, got>>
        BY <2>3, <3>1 DEF SendAsync, AcceptSend
      <4>2. accepted[c] + 1 \in Nat
        BY DEF TypeOK
      <4> QED
        BY <3>1, <4>1, <4>2, ResultOk, AcceptMoves
    <3>2. CASE SendResult(p, c, FALSE) # "Ok"
      BY <2>3, <3>2, Unmoves DEF SendAsync, history
    <3> QED
      BY <3>1, <3>2
  <2>4. CASE ReceiveAsync(p, c)
    <3>1. CASE ReceiveResult(p, c) = "Ok"
      BY <2>4, <3>1, ResultOk, TakeMoves DEF ReceiveAsync, HandOver
    <3>2. CASE ReceiveResult(p, c) # "Ok"
      BY <2>4, <3>2, Unmoves DEF ReceiveAsync, history
    <3> QED
      BY <3>1, <3>2
  <2>5. CASE Close(p, c)
    <3>1. CASE UNCHANGED channels
      BY <2>5, <3>1, Unmoves DEF Close, history
    <3>2. CASE Exists(c) /\ channels' = [channels EXCEPT ![c].closed = TRUE]
      <4>1. UNCHANGED <<next_channel_id, got>>
        BY <2>5 DEF Close, history
      <4>2. Closed(c)
        BY <3>2, <4>1 DEF TypeOK, Closed
      <4>3. \A d \in ChannelId \ {c} : Unmoved(d)
        BY <3>2, <4>1 DEF TypeOK, Unmoved
      <4> QED
        BY <3>2, <4>1, <4>2, <4>3 DEF TypeOK, Moves, Move
    <3> QED
      BY <2>5, <3>1, <3>2 DEF Close
  <2> QED
    BY <1>2, <2>1, <2>2, <2>3, <2>4, <2>5 DEF Calls
<1>3. ASSUME NEW p \in Process, QueueSend(p) \/ QueueReceive(p) PROVE Moves
  BY <1>3, Unmoves DEF QueueSend, QueueReceive, ring, history
<1>4. ASSUME NEW id, Cancel(id) \/ Poll(id) PROVE Moves
  BY <1>4, Unmoves DEF Cancel, CancelSend, CancelReceive, CancelNotFound, Poll, ring, history
<1>5. CASE PumpSend
  <2>1. pump.chan \in ChannelId /\ Exists(pump.chan)
    BY <1>5 DEF PumpSend, TypeOK, PumpOnChannel
  <2>2. pending_sends[pump.chan][pump.i].message \in Nat
    <3>1. pump.i \in 1 .. Len(pending_sends[pump.chan])
      BY <1>5, <2>1 DEF PumpSend, TypeOK
    <3>2. pending_sends[pump.chan][pump.i] \in PendingOp
      BY <2>1, <3>1 DEF TypeOK
    <3> QED
      BY <1>5, <3>2 DEF PumpSend, PendingOp
  <2> QED
    BY <1>5, <2>1, <2>2, AcceptMoves DEF PumpSend, history
<1>6. CASE PumpReceive
  <2>1. pump.chan \in ChannelId /\ Exists(pump.chan)
    BY <1>6 DEF PumpReceive, TypeOK, PumpOnChannel
  <2> QED
    BY <1>6, <2>1, TakeMoves DEF PumpReceive
<1>7. CASE PumpStart \/ PumpSendFails \/ PumpSendsDone \/ PumpReceivesDone
  BY <1>7, Unmoves DEF PumpStart, PumpSendFails, PumpSendsDone, PumpReceivesDone, ring, history
<1>8. CASE UNCHANGED vars
  BY <1>8, Unmoves DEF vars, ring, history
<1> QED
  BY <1>1, <1>2, <1>3, <1>4, <1>5, <1>6, <1>7, <1>8 DEF Next, ProcessPending, PumpStep

--------------------------------------------------------------------------------
(* The inductive invariant *)

\* A move keeps a channel a channel, and its window right.
LEMMA MoveOK ==
    ASSUME IpcInv, NEW c \in ChannelId, Move(c)
    PROVE  /\ channels'[c] \in Channel \cup {NoChannel}
           /\ got'[c] \in Message \cup {NoMessage}
           /\ channels'[c] # NoChannel => WindowOK(channels'[c])
           /\ Exists(c) => channels'[c] # NoChannel
<1>1. /\ Exists(c) => channels[c] \in Channel /\ WindowOK(channels[c])
      /\ channels[c] \in Channel \cup {NoChannel} /\ got[c] \in Message \cup {NoMessage}
  BY DEF IpcInv, TypeOK, RingWindows, Exists
<1>2. CASE Unmoved(c)
  BY <1>1, <1>2 DEF Unmoved, Exists
<1>3. CASE Created(c)
  BY <1>1, <1>3, NewChannelOK DEF Created
<1>4. CASE Closed(c)
  BY <1>1, <1>4, CloseChannelOK, OptionAssumption DEF Closed
<1>5. CASE Filled(c)
  BY <1>1, <1>5, ChannelSendOK, OptionAssumption DEF Filled
<1>6. CASE Drained(c)
  BY <1>1, <1>6, ChannelReceiveOK, OptionAssumption DEF Drained
<1> QED
  BY <1>2, <1>3, <1>4, <1>5, <1>6 DEF Move

\* Channels, the last message taken, and the windows.
LEMMA ChannelsStep ==
    ASSUME IpcInv, [Next]_vars
    PROVE  /\ channels' \in [ChannelId -> Channel \cup {NoChannel}]
           /\ got' \in [ChannelId -> Message \cup {NoMessage}]
           /\ RingWindows'
           /\ \A c \in ChannelId : Exists(c) => Exists(c)'
  BY StepMoves, MoveOK DEF Moves, RingWindows, Exists

\* What RemoveAt leaves: the elements before the place, then those after it.
LEMMA RemoveAtElements ==
    ASSUME NEW S, NEW s \in Seq(S), NEW i \in 1 .. Len(s)
    PROVE  /\ RemoveAt(s, i) \in Seq(S)
           /\ Len(RemoveAt(s, i)) = Len(s) - 1
           /\ \A j \in 1 .. Len(s) - 1 :
                 RemoveAt(s, i)[j] = IF j < i THEN s[j] ELSE s[j + 1]
<1> DEFINE a == SubSeq(s, 1, i - 1)
           b == SubSeq(s, i + 1, Len(s))
<1>1. Len(s) \in Nat /\ i \in Nat /\ i <= Len(s) /\ i > 0
  OBVIOUS
<1>2. /\ \A j \in 1 .. i - 1 : s[j] \in S
      /\ \A j \in i + 1 .. Len(s) : s[j] \in S
  BY <1>1
<1>3. ASSUME NEW m \in Int, NEW n \in Int, m <= n + 1, \A j \in m .. n : s[j] \in S
      PROVE  /\ SubSeq(s, m, n) \in Seq(S)
             /\ Len(SubSeq(s, m, n)) = n - m + 1
             /\ \A j \in 1 .. n - m + 1 : SubSeq(s, m, n)[j] = s[m + j - 1]
  BY <1>3, SubSeqProperties
<1>4. /\ a \in Seq(S) /\ Len(a) = i - 1
      /\ \A j \in 1 .. i - 1 : a[j] = s[j]
  <2>1. /\ a \in Seq(S) /\ Len(a) = (i - 1) - 1 + 1
        /\ \A j \in 1 .. (i - 1) - 1 + 1 : a[j] = s[1 + j - 1]
    BY <1>1, <1>2, <1>3
  <2> HIDE DEF a
  <2>2. \A j \in 1 .. i - 1 : j \in 1 .. (i - 1) - 1 + 1 /\ 1 + j - 1 = j
    BY <1>1
  <2> QED
    BY <1>1, <2>1, <2>2
<1>5. /\ b \in Seq(S) /\ Len(b) = Len(s) - i
      /\ \A j \in 1 .. Len(s) - i : b[j] = s[i + j]
  <2>1. /\ b \in Seq(S) /\ Len(b) = Len(s) - (i + 1) + 1
        /\ \A j \in 1 .. Len(s) - (i + 1) + 1 : b[j] = s[i + 1 + j - 1]
    BY <1>1, <1>2, <1>3
  <2> HIDE DEF b
  <2>2. \A j \in 1 .. Len(s) - i : j \in 1 .. Len(s) - (i + 1) + 1 /\ i + 1 + j - 1 = i + j
    BY <1>1
  <2> QED
    BY <1>1, <2>1, <2>2
<1>6. RemoveAt(s, i) = a \o b
  BY DEF RemoveAt
<1> HIDE DEF a, b
<1>7. /\ a \o b \in Seq(S) /\ Len(a \o b) = Len(s) - 1
      /\ \A j \in 1 .. Len(s) - 1 :
            (a \o b)[j] = IF j <= i - 1 THEN a[j] ELSE b[j - (i - 1)]
  <2>1. /\ a \o b \in Seq(S) /\ Len(a \o b) = Len(a) + Len(b)
        /\ \A j \in 1 .. Len(a) + Len(b) :
              (a \o b)[j] = IF j <= Len(a) THEN a[j] ELSE b[j - Len(a)]
    BY <1>4, <1>5, ConcatProperties
  <2>2. Len(a) + Len(b) = Len(s) - 1
    BY <1>1, <1>4, <1>5
  <2> QED
    BY <1>4, <2>1, <2>2
<1>8. ASSUME NEW j \in 1 .. Len(s) - 1
      PROVE  (a \o b)[j] = IF j < i THEN s[j] ELSE s[j + 1]
  <2>1. CASE j < i
    <3>1. j \in 1 .. i - 1 /\ j <= i - 1
      BY <1>1, <2>1
    <3> QED
      BY <1>4, <1>7, <2>1, <3>1
  <2>2. CASE ~(j < i)
    <3>1. j - (i - 1) \in 1 .. Len(s) - i /\ ~(j <= i - 1) /\ i + (j - (i - 1)) = j + 1
      BY <1>1, <2>2
    <3> QED
      BY <1>5, <1>7, <2>2, <3>1
  <2> QED
    BY <2>1, <2>2
<1> QED
  BY <1>6, <1>7, <1>8

\* The type of everything but the channels.
OtherTypes ==
    /\ next_channel_id \in Nat
    /\ pending_sends \in [ChannelId -> Seq(PendingOp)]
    /\ pending_receives \in [ChannelId -> Seq(PendingOp)]
    /\ next_pending_id \in Nat
    /\ call \in [Process -> [op : {"none", "send", "receive"}, chan : ChannelId]]
    /\ pump \in [at : {"idle", "sends", "receives"}, chan : ChannelId, i : Nat \ {0}]
    /\ reply \in Replies
    /\ accepted \in [ChannelId -> Nat]
    /\ taken \in [ChannelId -> SUBSET Nat]
    /\ discarded \in [ChannelId -> SUBSET Nat]

LEMMA ResultsAreReplies ==
    ASSUME NEW p, NEW c, NEW large
    PROVE  SendResult(p, c, large) \in Replies /\ ReceiveResult(p, c) \in Replies
  BY DEF SendResult, ReceiveResult, Replies

\* What AcceptSend and HandOver do to the history.
LEMMA HistoryTypes ==
    ASSUME IpcInv, NEW c \in ChannelId
    PROVE  /\ AcceptSend(c) => /\ accepted' \in [ChannelId -> Nat]
                               /\ UNCHANGED <<taken, discarded>>
           /\ HandOver(c) /\ Exists(c) /\ ~IsEmpty(channels[c]) =>
                 /\ taken' \in [ChannelId -> SUBSET Nat]
                 /\ UNCHANGED <<accepted, discarded>>
<1>1. ASSUME AcceptSend(c) PROVE accepted' \in [ChannelId -> Nat] /\ UNCHANGED <<taken, discarded>>
  BY <1>1 DEF AcceptSend, IpcInv, TypeOK
<1>2. ASSUME HandOver(c), Exists(c), ~IsEmpty(channels[c])
      PROVE  taken' \in [ChannelId -> SUBSET Nat] /\ UNCHANGED <<accepted, discarded>>
  <2>1. Oldest(channels[c]) \in Message
    BY <1>2, ChannelReceiveOK DEF IpcInv, TypeOK, RingWindows, Exists
  <2>2. Oldest(channels[c]).body \in Nat
    BY <2>1 DEF Message
  <2> QED
    BY <1>2, <2>2 DEF HandOver, IpcInv, TypeOK
<1> QED
  BY <1>1, <1>2

LEMMA NotCallingType == NotCalling \in [op : {"none", "send", "receive"}, chan : ChannelId]
  BY IpcAssumption DEF NotCalling, ChannelId

\* The loop over the channels arrives at a channel of the map, or ends.
LEMMA VisitOK ==
    ASSUME NEW c \in Nat, VisitFrom(c)
    PROVE  /\ pump' \in [at : {"idle", "sends", "receives"}, chan : ChannelId, i : Nat \ {0}]
           /\ pump'.at # "idle" => Exists(pump'.chan)
  BY IpcAssumption DEF VisitFrom, NotPumping, ChannelId, ChannelsFrom

\* Where the pump stands after a step, and which ids are free.
LEMMA PumpStepOK ==
    ASSUME IpcInv, [Next]_vars, pump' # pump
    PROVE  /\ pump' \in [at : {"idle", "sends", "receives"}, chan : ChannelId, i : Nat \ {0}]
           /\ pump'.at # "idle" => Exists(pump'.chan)
<1> USE DEF IpcInv, TypeOK
<1>1. CASE PumpStart
  BY <1>1, VisitOK DEF PumpStart
<1>2. CASE PumpSendFails \/ PumpSendsDone
  <2>1. pump.at = "sends" /\ pump.chan \in ChannelId /\ Exists(pump.chan)
    BY <1>2 DEF PumpSendFails, PumpSendsDone, PumpOnChannel
  <2>2. pump' = [pump EXCEPT !.i = pump.i + 1] \/ pump' = [pump EXCEPT !.at = "receives"]
    BY <1>2 DEF PumpSendFails, PumpSendsDone
  <2>3. pump.i + 1 \in Nat \ {0}
    OBVIOUS
  <2>4. pump' \in [at : {"idle", "sends", "receives"}, chan : ChannelId, i : Nat \ {0}]
    BY <2>2, <2>3
  <2>5. pump'.chan = pump.chan
    BY <2>2
  <2> QED
    BY <2>1, <2>4, <2>5
<1>3. CASE PumpReceivesDone
  <2>1. pump.chan + 1 \in Nat
    BY DEF ChannelId
  <2> QED
    BY <1>3, <2>1, VisitOK DEF PumpReceivesDone
<1> QED
  BY <1>1, <1>2, <1>3
  DEF Next, CreateChannel, Calls, Send, Receive, SendAsync, ReceiveAsync, Close, QueueSend,
      QueueReceive, Cancel, CancelSend, CancelReceive, CancelNotFound, Poll, ProcessPending,
      PumpStep, PumpSend, PumpReceive, vars

LEMMA FreshIdsStep ==
    ASSUME IpcInv, [Next]_vars
    PROVE  next_channel_id' \in Nat /\ FreshIds'
<1>1. Moves /\ next_channel_id \in Nat /\ FreshIds
  BY StepMoves DEF IpcInv, TypeOK
<1>2. next_channel_id' \in Nat /\ next_channel_id <= next_channel_id'
  BY <1>1 DEF Moves
<1>3. ASSUME NEW c \in ChannelId, c >= next_channel_id' PROVE ~Exists(c)'
  <2>1. ~Exists(c) /\ (c # next_channel_id \/ next_channel_id' # next_channel_id + 1)
    BY <1>1, <1>2, <1>3 DEF FreshIds, ChannelId
  <2>2. Unmoved(c)
    BY <1>1, <2>1 DEF Moves, Move, Created, Closed, Filled, Drained
  <2> QED
    BY <2>1, <2>2 DEF Unmoved, Exists
<1> QED
  BY <1>2, <1>3 DEF FreshIds

\* The pending queues and the calls in flight.
LEMMA OtherTypesStep ==
    ASSUME IpcInv, [Next]_vars
    PROVE  OtherTypes'
<1> USE DEF IpcInv, TypeOK, OtherTypes
<1>0. next_channel_id' \in Nat
  BY FreshIdsStep
<1>1. ASSUME NEW s \in Process, NEW r \in Process, CreateChannel(s, r) PROVE OtherTypes'
  BY <1>0, <1>1 DEF CreateChannel, pending, history, Replies
<1>2. ASSUME NEW p \in Process, NEW c \in ChannelId, NEW large \in BOOLEAN, Send(p, c, large)
      PROVE  OtherTypes'
  BY <1>0, <1>2, ResultsAreReplies, HistoryTypes DEF Send, pending, history
<1>3. ASSUME NEW p \in Process, NEW c \in ChannelId, Receive(p, c) PROVE OtherTypes'
  BY <1>0, <1>3, ResultsAreReplies, ResultOk, HistoryTypes DEF Receive, pending, history
<1>4. ASSUME NEW p \in Process, NEW c \in ChannelId, SendAsync(p, c) PROVE OtherTypes'
  <2>1. call' \in [Process -> [op : {"none", "send", "receive"}, chan : ChannelId]]
    <3>1. [op |-> "send", chan |-> c] \in [op : {"none", "send", "receive"}, chan : ChannelId]
      OBVIOUS
    <3>2. call' = call \/ call' = [call EXCEPT ![p] = [op |-> "send", chan |-> c]]
      BY <1>4 DEF SendAsync
    <3> QED
      BY <3>1, <3>2
  <2>2. reply' \in Replies
    BY ZenonT(30), <1>4, ResultsAreReplies DEF SendAsync, Replies
  <2>3. accepted' \in [ChannelId -> Nat] /\ UNCHANGED <<taken, discarded>>
    BY <1>4, HistoryTypes DEF SendAsync, history
  <2> QED
    BY <1>0, <1>4, <2>1, <2>2, <2>3 DEF SendAsync, pending
<1>5. ASSUME NEW p \in Process, NEW c \in ChannelId, ReceiveAsync(p, c) PROVE OtherTypes'
  <2>1. call' \in [Process -> [op : {"none", "send", "receive"}, chan : ChannelId]]
    <3>1. [op |-> "receive", chan |-> c] \in [op : {"none", "send", "receive"}, chan : ChannelId]
      OBVIOUS
    <3>2. call' = call \/ call' = [call EXCEPT ![p] = [op |-> "receive", chan |-> c]]
      BY <1>5 DEF ReceiveAsync
    <3> QED
      BY <3>1, <3>2
  <2>2. reply' \in Replies
    BY <1>5, ResultsAreReplies DEF ReceiveAsync, Replies
  <2>3. taken' \in [ChannelId -> SUBSET Nat] /\ UNCHANGED <<accepted, discarded>>
    BY <1>5, HistoryTypes, ResultOk DEF ReceiveAsync, history
  <2> QED
    BY <1>0, <1>5, <2>1, <2>2, <2>3 DEF ReceiveAsync, pending
<1>6. ASSUME NEW p \in Process, NEW c \in ChannelId, Close(p, c) PROVE OtherTypes'
  BY <1>0, <1>6 DEF Close, pending, history, Replies
<1>7. ASSUME NEW p \in Process, QueueSend(p) PROVE OtherTypes'
  <2> DEFINE c == call[p].chan
             op == [id |-> next_pending_id, process |-> p, message |-> accepted[c] + 1]
  <2>1. c \in ChannelId /\ call' \in [Process -> [op : {"none", "send", "receive"}, chan : ChannelId]]
    BY <1>7, NotCallingType DEF QueueSend
  <2>2. op \in PendingOp
    BY <2>1 DEF PendingOp
  <2>3. Append(pending_sends[c], op) \in Seq(PendingOp)
    BY <2>1, <2>2
  <2> HIDE DEF op
  <2>4. CASE reply' = "TooManyPending" /\ UNCHANGED <<pending, accepted>>
    BY <1>0, <1>7, <2>1, <2>4 DEF QueueSend, pending, Replies
  <2>5. CASE /\ pending_sends' = [pending_sends EXCEPT ![c] = Append(@, op)]
             /\ next_pending_id' = next_pending_id + 1
             /\ accepted' = [accepted EXCEPT ![c] = @ + 1]
             /\ reply' = "Pending"
             /\ UNCHANGED pending_receives
    <3>1. pending_sends' \in [ChannelId -> Seq(PendingOp)] /\ accepted' \in [ChannelId -> Nat]
      BY <2>1, <2>3, <2>5
    <3> QED
      BY SMTT(30), <1>0, <1>7, <2>1, <2>5, <3>1 DEF QueueSend, Replies
  <2> QED
    BY <1>7, <2>4, <2>5 DEF QueueSend, op
<1>8. ASSUME NEW p \in Process, QueueReceive(p) PROVE OtherTypes'
  <2> DEFINE c == call[p].chan
             op == [id |-> next_pending_id, process |-> p, message |-> NoMessage]
  <2>1. c \in ChannelId /\ call' \in [Process -> [op : {"none", "send", "receive"}, chan : ChannelId]]
    BY <1>8, NotCallingType DEF QueueReceive
  <2>2. op \in PendingOp
    BY <2>1 DEF PendingOp
  <2>3. Append(pending_receives[c], op) \in Seq(PendingOp)
    BY <2>1, <2>2
  <2> HIDE DEF op
  <2>4. CASE reply' = "TooManyPending" /\ UNCHANGED pending
    BY <1>0, <1>8, <2>1, <2>4 DEF QueueReceive, pending, history, Replies
  <2>5. CASE /\ pending_receives' = [pending_receives EXCEPT ![c] = Append(@, op)]
             /\ next_pending_id' = next_pending_id + 1
             /\ reply' = "Pending"
             /\ UNCHANGED pending_sends
    <3>1. pending_receives' \in [ChannelId -> Seq(PendingOp)]
      BY <2>1, <2>3, <2>5
    <3> QED
      BY SMTT(30), <1>0, <1>8, <2>1, <2>5, <3>1 DEF QueueReceive, history, Replies
  <2> QED
    BY <1>8, <2>4, <2>5 DEF QueueReceive, op
<1>9. ASSUME NEW id, CancelSend(id) PROVE OtherTypes'
  <2>1. PICK w \in QueuedAt(pending_sends, id) :
          /\ pending_sends' = [pending_sends EXCEPT ![w[1]] = RemoveAt(@, w[2])]
          /\ discarded' = [discarded EXCEPT ![w[1]] = @ \cup BodyOf(pending_sends[w[1]][w[2]])]
    BY <1>9 DEF CancelSend
  <2>2. w[1] \in ChannelId /\ w[2] \in 1 .. Len(pending_sends[w[1]])
    BY DEF QueuedAt
  <2>3. RemoveAt(pending_sends[w[1]], w[2]) \in Seq(PendingOp)
    BY <2>2, RemoveAtElements
  <2>4. BodyOf(pending_sends[w[1]][w[2]]) \subseteq Nat
    <3>1. pending_sends[w[1]][w[2]] \in PendingOp
      BY <2>2
    <3> QED
      BY <3>1 DEF PendingOp, BodyOf
  <2> QED
    BY <1>0, <1>9, <2>1, <2>2, <2>3, <2>4 DEF CancelSend, Replies
<1>10. ASSUME NEW id, CancelReceive(id) PROVE OtherTypes'
  <2>1. PICK w \in QueuedAt(pending_receives, id) :
          pending_receives' = [pending_receives EXCEPT ![w[1]] = RemoveAt(@, w[2])]
    BY <1>10 DEF CancelReceive
  <2>2. w[1] \in ChannelId /\ w[2] \in 1 .. Len(pending_receives[w[1]])
    BY DEF QueuedAt
  <2>3. RemoveAt(pending_receives[w[1]], w[2]) \in Seq(PendingOp)
    BY <2>2, RemoveAtElements
  <2> QED
    BY <1>0, <1>10, <2>1, <2>2, <2>3 DEF CancelReceive, history, Replies
<1>11. ASSUME NEW id, CancelNotFound(id) \/ Poll(id) PROVE OtherTypes'
  BY <1>0, <1>11 DEF CancelNotFound, Poll, pending, history, Replies
<1>12. CASE PumpSend
  <2>1. pump.chan \in ChannelId /\ pump.i \in 1 .. Len(pending_sends[pump.chan])
    BY <1>12 DEF PumpSend
  <2>2. RemoveAt(pending_sends[pump.chan], pump.i) \in Seq(PendingOp)
    BY <2>1, RemoveAtElements
  <2> QED
    BY <1>0, <1>12, <2>1, <2>2 DEF PumpSend, history
<1>13. CASE PumpSendFails
  <2> DEFINE q == pending_sends[pump.chan]
             op == q[pump.i]
             stripped == [op EXCEPT !.message = NoMessage]
  <2>1. pump.chan \in ChannelId /\ pump.i \in 1 .. Len(q) /\ op \in PendingOp
    BY <1>13 DEF PumpSendFails
  <2>2. stripped \in PendingOp /\ BodyOf(op) \subseteq Nat
    BY <2>1 DEF PendingOp, BodyOf
  <2>3. [q EXCEPT ![pump.i] = stripped] \in Seq(PendingOp)
    BY <2>1, <2>2, ExceptSeq
  <2>4. pending_sends' = [pending_sends EXCEPT ![pump.chan] = [q EXCEPT ![pump.i] = stripped]]
    BY <1>13 DEF PumpSendFails
  <2>5. pending_sends' \in [ChannelId -> Seq(PendingOp)]
    BY <2>1, <2>3, <2>4
  <2>6. discarded' \in [ChannelId -> SUBSET Nat]
    BY <1>13, <2>1, <2>2 DEF PumpSendFails
  <2>7. pump' \in [at : {"idle", "sends", "receives"}, chan : ChannelId, i : Nat \ {0}]
    BY PumpStepOK
  <2> QED
    BY <1>0, <1>13, <2>5, <2>6, <2>7 DEF PumpSendFails
<1>14. CASE PumpReceive
  <2>1. pump.chan \in ChannelId /\ Exists(pump.chan)
    BY <1>14 DEF PumpReceive, PumpOnChannel
  <2>2. RemoveAt(pending_receives[pump.chan], 1) \in Seq(PendingOp)
    <3>1. 1 \in 1 .. Len(pending_receives[pump.chan])
      BY <1>14, <2>1 DEF PumpReceive
    <3> QED
      BY <2>1, <3>1, RemoveAtElements
  <2>3. Oldest(channels[pump.chan]).body \in Nat
    <3>1. Oldest(channels[pump.chan]) \in Message
      BY <1>14, <2>1, ChannelReceiveOK DEF PumpReceive, RingWindows, Exists
    <3> QED
      BY <3>1 DEF Message
  <2>4. discarded' \in [ChannelId -> SUBSET Nat]
    BY <1>14, <2>1, <2>3 DEF PumpReceive
  <2>5. pending_receives' \in [ChannelId -> Seq(PendingOp)]
    BY <1>14, <2>1, <2>2 DEF PumpReceive
  <2> QED
    BY <1>0, <1>14, <2>4, <2>5 DEF PumpReceive
<1>15. CASE PumpStart \/ PumpSendsDone \/ PumpReceivesDone
  <2>1. pump' \in [at : {"idle", "sends", "receives"}, chan : ChannelId, i : Nat \ {0}]
    BY PumpStepOK
  <2> QED
    BY <1>0, <1>15, <2>1 DEF PumpStart, PumpSendsDone, PumpReceivesDone, pending, history
<1>16. CASE UNCHANGED vars
  BY <1>16 DEF vars, ring, pending, history
<1> HIDE DEF IpcInv, TypeOK, OtherTypes
<1>17. ASSUME NEW p \in Process, NEW c \in ChannelId, Calls(p, c) PROVE OtherTypes'
  BY <1>2, <1>3, <1>4, <1>5, <1>6, <1>17 DEF Calls
<1>18. ASSUME NEW id, Cancel(id) \/ Poll(id) PROVE OtherTypes'
  BY <1>9, <1>10, <1>11, <1>18 DEF Cancel
<1>19. CASE ProcessPending
  BY <1>12, <1>13, <1>14, <1>15, <1>19 DEF ProcessPending, PumpStep
<1> QED
  BY <1>1, <1>7, <1>8, <1>16, <1>17, <1>18, <1>19 DEF Next

LEMMA PumpOnChannelStep ==
    ASSUME IpcInv, [Next]_vars
    PROVE  PumpOnChannel'
<1>1. pump.chan \in ChannelId /\ PumpOnChannel
  BY DEF IpcInv, TypeOK
<1>2. CASE pump' = pump
  BY <1>1, <1>2, ChannelsStep DEF PumpOnChannel
<1>3. CASE pump' # pump
  <2>1. pump'.chan \in ChannelId /\ (pump'.at # "idle" => Exists(pump'.chan))
    BY <1>3, PumpStepOK
  <2> QED
    BY <2>1, ChannelsStep DEF PumpOnChannel, Exists
<1> QED
  BY <1>2, <1>3

LEMMA InitIpcInv == Init => IpcInv
<1> SUFFICES ASSUME Init PROVE IpcInv
  OBVIOUS
<1>1. NotPumping \in [at : {"idle", "sends", "receives"}, chan : ChannelId, i : Nat \ {0}]
  BY IpcAssumption DEF NotPumping, ChannelId
<1>2. TypeOK
  BY <1>1, NotCallingType DEF Init, TypeOK, Replies
<1> QED
  BY <1>2 DEF Init, IpcInv, RingWindows, PumpOnChannel, FreshIds, Exists, NotPumping

\* In every reachable state the IPC manager is type correct and each channel's
\* ring window is right: the slots in use are the message_count slots from
\* read_pos on, numbered consecutively.
THEOREM IpcInvariant == Spec => []IpcInv
<1>1. IpcInv /\ [Next]_vars => IpcInv'
  <2> SUFFICES ASSUME IpcInv, [Next]_vars PROVE IpcInv'
    OBVIOUS
  <2>1. TypeOK'
    BY ChannelsStep, OtherTypesStep DEF TypeOK, OtherTypes
  <2> QED
    BY <2>1, ChannelsStep, FreshIdsStep, PumpOnChannelStep DEF IpcInv
<1> QED
  BY <1>1, InitIpcInv, PTL DEF Spec

--------------------------------------------------------------------------------
(* Consequences *)

\* A closed channel stays closed, numbers no further message and, once drained,
\* stays drained, whichever process or process_pending moves next.
THEOREM ClosedForever == Spec => ClosedIsFinal
<1>1. ASSUME IpcInv, [Next]_vars, NEW c \in ChannelId, Exists(c), channels[c].closed
      PROVE  /\ channels'[c].closed
             /\ channels'[c].next_sequence = channels[c].next_sequence
             /\ IsEmpty(channels[c]) => IsEmpty(channels'[c])
  <2>1. Move(c) /\ channels[c] \in Channel
    BY <1>1, StepMoves DEF Moves, IpcInv, TypeOK, Exists
  <2>2. CASE Unmoved(c)
    BY <1>1, <2>2 DEF Unmoved
  <2>3. CASE Closed(c)
    BY <1>1, <2>1, <2>3 DEF Closed, Channel, IsEmpty
  <2>4. CASE Drained(c)
    BY <1>1, <2>1, <2>4 DEF Drained, ChannelReceive, Channel
  <2> QED
    BY <1>1, <2>1, <2>2, <2>3, <2>4 DEF Move, Created, Filled
<1>2. IpcInv /\ [Next]_vars =>
        [\A c \in ChannelId : Exists(c) /\ channels[c].closed =>
            /\ channels'[c].closed
            /\ channels'[c].next_sequence = channels[c].next_sequence
            /\ IsEmpty(channels[c]) => IsEmpty(channels'[c])]_vars
  BY <1>1
<1> QED
  BY <1>2, IpcInvariant, PTL DEF Spec, ClosedIsFinal

--------------------------------------------------------------------------------
(* Refinement: the ring of a channel as a sequence *)

RingSeq(ch) == [i \in 1 .. ch.message_count |-> ch.buffer[SlotAfter(ch, i - 1)]]

LEMMA RingSeqOK ==
    ASSUME NEW ch \in Channel, WindowOK(ch)
    PROVE  /\ RingSeq(ch) \in Seq(Message)
           /\ Len(RingSeq(ch)) = ch.message_count
<1>1. /\ ch.message_count \in Nat /\ ch.message_count <= BufferSize /\ ch.read_pos \in SlotIndex
      /\ ch.buffer \in [SlotIndex -> Message \cup {NoMessage}]
  BY ChannelFields
<1>2. ASSUME NEW i \in 1 .. ch.message_count PROVE ch.buffer[SlotAfter(ch, i - 1)] \in Message
  <2>1. i - 1 \in SlotIndex /\ i - 1 < ch.message_count /\ i - 1 \in 0 .. BufferSize
    BY <1>1, IpcAssumption DEF SlotIndex
  <2>2. ch.buffer[SlotAfter(ch, i - 1)] # NoMessage
    BY <2>1 DEF WindowOK
  <2>3. SlotAfter(ch, i - 1) \in SlotIndex
    BY <1>1, <2>1, SlotAhead DEF SlotAfter
  <2> QED
    BY <1>1, <2>2, <2>3
<1> QED
  BY <1>1, <1>2 DEF RingSeq

LEMMA AppendAsFunction ==
    ASSUME NEW S, NEW s \in Seq(S), NEW e \in S
    PROVE  Append(s, e) = [i \in 1 .. Len(s) + 1 |-> IF i = Len(s) + 1 THEN e ELSE s[i]]
<1> DEFINE t == Append(s, e)
           f == [i \in 1 .. Len(s) + 1 |-> IF i = Len(s) + 1 THEN e ELSE s[i]]
<1>1. Len(s) \in Nat
  OBVIOUS
<1>2. t \in Seq(S) /\ Len(t) = Len(s) + 1 /\ t[Len(s) + 1] = e
      /\ \A i \in 1 .. Len(s) : t[i] = s[i]
  BY AppendProperties
<1>3. \A i \in 1 .. Len(s) + 1 : f[i] = IF i = Len(s) + 1 THEN e ELSE s[i]
  OBVIOUS
<1> HIDE DEF t
<1>4. t = [i \in 1 .. Len(t) |-> t[i]]
  BY <1>2
<1>5. \A i \in 1 .. Len(s) + 1 : t[i] = IF i = Len(s) + 1 THEN e ELSE s[i]
  BY <1>1, <1>2
<1>6. t = f
  BY <1>1, <1>2, <1>4, <1>5
<1> QED
  BY <1>6 DEF t

LEMMA SendAppends ==
    ASSUME NEW ch \in Channel, WindowOK(ch), ~IsFull(ch), NEW body \in Nat
    PROVE  LET new == [body |-> body, sequence |-> ch.next_sequence]
           IN  /\ new \in Message
               /\ RingSeq(ChannelSend(ch, body)) = Append(RingSeq(ch), new)
<1> DEFINE n == ChannelSend(ch, body)
           new == [body |-> body, sequence |-> ch.next_sequence]
<1>1. /\ ch.message_count \in Nat /\ ch.next_sequence \in Nat
      /\ ch.read_pos \in SlotIndex /\ ch.write_pos \in SlotIndex
      /\ ch.message_count \in 0 .. BufferSize - 1
      /\ ch.buffer \in [SlotIndex -> Message \cup {NoMessage}]
      /\ ch.write_pos = (ch.read_pos + ch.message_count) % BufferSize
  BY ChannelFields, IpcAssumption DEF IsFull
<1>2. new \in Message
  BY <1>1 DEF Message
<1>3. /\ n.read_pos = ch.read_pos /\ n.message_count = ch.message_count + 1
      /\ n.buffer = [ch.buffer EXCEPT ![ch.write_pos] = new]
  BY DEF Channel, ChannelSend
<1> HIDE DEF n, new
<1>4. \A k \in SlotIndex : k # ch.message_count => (ch.read_pos + k) % BufferSize # ch.write_pos
  BY <1>1, WindowPut
<1>5. RingSeq(ch) \in Seq(Message) /\ Len(RingSeq(ch)) = ch.message_count
  BY RingSeqOK
<1>6. ASSUME NEW i \in 1 .. ch.message_count + 1
      PROVE  n.buffer[SlotAfter(n, i - 1)]
               = IF i = ch.message_count + 1 THEN new ELSE RingSeq(ch)[i]
  <2>1. i - 1 \in SlotIndex /\ i - 1 \in 0 .. BufferSize
    BY <1>1, IpcAssumption DEF SlotIndex
  <2>2. /\ SlotAfter(n, i - 1) = (ch.read_pos + (i - 1)) % BufferSize
        /\ SlotAfter(ch, i - 1) = (ch.read_pos + (i - 1)) % BufferSize
        /\ (ch.read_pos + (i - 1)) % BufferSize \in SlotIndex
    BY <1>1, <1>3, <2>1, SlotAhead DEF SlotAfter
  <2>3. CASE i = ch.message_count + 1
    <3>1. i - 1 = ch.message_count
      BY <1>1, <2>3
    <3> QED
      BY <1>1, <1>3, <2>2, <2>3, <3>1
  <2>4. CASE i # ch.message_count + 1
    <3>1. i \in 1 .. ch.message_count /\ i - 1 # ch.message_count
      BY <1>1, <2>4
    <3>2. RingSeq(ch)[i] = ch.buffer[SlotAfter(ch, i - 1)]
      BY <3>1 DEF RingSeq
    <3> QED
      BY <1>1, <1>3, <1>4, <2>1, <2>2, <2>4, <3>1, <3>2
  <2> QED
    BY <2>3, <2>4
<1>7. RingSeq(n) = [i \in 1 .. ch.message_count + 1 |-> n.buffer[SlotAfter(n, i - 1)]]
  BY <1>3 DEF RingSeq
<1>8. Append(RingSeq(ch), new)
        = [i \in 1 .. ch.message_count + 1 |->
              IF i = ch.message_count + 1 THEN new ELSE RingSeq(ch)[i]]
  BY <1>2, <1>5, AppendAsFunction
<1>9. RingSeq(n) = Append(RingSeq(ch), new)
  BY <1>6, <1>7, <1>8
<1> QED
  BY <1>2, <1>9 DEF n, new

LEMMA ReceiveTakesHead ==
    ASSUME NEW ch \in Channel, WindowOK(ch), ~IsEmpty(ch)
    PROVE  /\ RingSeq(ch) # <<>>
           /\ Oldest(ch) = Head(RingSeq(ch))
           /\ RingSeq(ChannelReceive(ch)) = Tail(RingSeq(ch))
<1> DEFINE n == ChannelReceive(ch)
           s == RingSeq(ch)
           t == Tail(s)
<1>1. /\ ch.message_count \in 1 .. BufferSize /\ ch.read_pos \in SlotIndex
      /\ ch.buffer \in [SlotIndex -> Message \cup {NoMessage}]
  BY ChannelFields, IpcAssumption DEF IsEmpty
<1>2. (ch.read_pos + 1) % BufferSize \in SlotIndex
  BY <1>1, SlotAhead, IpcAssumption
<1>3. /\ n.read_pos = (ch.read_pos + 1) % BufferSize
      /\ n.message_count = ch.message_count - 1
      /\ n.buffer = [ch.buffer EXCEPT ![ch.read_pos] = NoMessage]
  BY DEF Channel, ChannelReceive
<1> HIDE DEF n
<1>4. /\ (ch.read_pos + 0) % BufferSize = ch.read_pos
      /\ \A k \in 0 .. BufferSize - 2 :
            /\ (n.read_pos + k) % BufferSize = (ch.read_pos + (k + 1)) % BufferSize
            /\ (n.read_pos + k) % BufferSize # ch.read_pos
  BY <1>1, <1>2, <1>3, WindowTake
<1>5. s \in Seq(Message) /\ Len(s) = ch.message_count
  BY RingSeqOK
<1>6. \A i \in 1 .. ch.message_count : s[i] = ch.buffer[SlotAfter(ch, i - 1)]
  BY DEF RingSeq
<1> HIDE DEF s
<1>7. s # <<>> /\ Head(s) = s[1]
  BY <1>1, <1>5
<1>8. Oldest(ch) = s[1]
  <2>1. SlotAfter(ch, 1 - 1) = ch.read_pos
    BY <1>4 DEF SlotAfter
  <2> QED
    BY <1>1, <1>6, <2>1 DEF Oldest
<1>9. /\ t \in Seq(Message) /\ Len(t) = ch.message_count - 1
      /\ \A i \in 1 .. Len(t) : t[i] = s[i + 1]
  BY <1>1, <1>5, <1>7
<1>10. ASSUME NEW i \in 1 .. ch.message_count - 1
       PROVE  n.buffer[SlotAfter(n, i - 1)] = s[i + 1]
  <2>1. i - 1 \in 0 .. BufferSize - 2 /\ (i - 1) + 1 = (i + 1) - 1 /\ i + 1 \in 1 .. ch.message_count
        /\ (i - 1) + 1 \in 0 .. BufferSize
    BY <1>1, IpcAssumption
  <2>2. /\ SlotAfter(n, i - 1) = SlotAfter(ch, (i + 1) - 1)
        /\ SlotAfter(n, i - 1) # ch.read_pos
    BY <1>4, <2>1 DEF SlotAfter
  <2>3. SlotAfter(n, i - 1) \in SlotIndex
    BY <1>1, <2>1, <2>2, SlotAhead DEF SlotAfter
  <2> QED
    BY <1>1, <1>3, <1>6, <2>1, <2>2, <2>3
<1>11. RingSeq(n) = [i \in 1 .. ch.message_count - 1 |-> n.buffer[SlotAfter(n, i - 1)]]
  BY <1>3 DEF RingSeq
<1> HIDE DEF t
<1>12. t = [i \in 1 .. ch.message_count - 1 |-> s[i + 1]]
  BY <1>9
<1>13. RingSeq(n) = t
  BY <1>10, <1>11, <1>12
<1> QED
  BY <1>7, <1>8, <1>13 DEF n, s, t

\* Every channel's ring implements the bounded FIFO, whoever moves messages in
\* and out: the sender, the receiver or process_pending.
THEOREM ChannelsImplementFifo == Spec => RefinesFifo
<1>1. Init => \A c \in ChannelId : Fifo(c)!Init
  BY DEF Init, Fifo!Init, Contents, Exists
<1>2. ASSUME IpcInv, [Next]_vars, NEW c \in ChannelId
      PROVE  [Fifo(c)!Next]_(Fifo(c)!fifoVars)
  <2> DEFINE ch == channels[c]
             nx == channels'[c]
  <2>1. /\ Move(c)
        /\ Exists(c) => ch \in Channel /\ WindowOK(ch)
    BY <1>2, StepMoves DEF Moves, IpcInv, TypeOK, RingWindows, Exists
  <2>2. /\ Contents(c) = IF ch # NoChannel THEN RingSeq(ch) ELSE <<>>
        /\ Contents(c)' = IF nx # NoChannel THEN RingSeq(nx) ELSE <<>>
        /\ Exists(c) => nx # NoChannel
    BY <1>2, <2>1, MoveOK DEF Contents, RingSeq, Exists
  <2>3. CASE Unmoved(c)
    BY <2>2, <2>3 DEF Unmoved, Fifo!fifoVars
  <2>4. CASE Created(c)
    <3>1. PICK s \in Process, r \in Process : nx = NewChannel(s, r)
      BY <2>4 DEF Created
    <3>2. nx \in Channel /\ WindowOK(nx) /\ nx.message_count = 0
      BY <3>1, NewChannelOK DEF NewChannel
    <3>3. RingSeq(nx) = <<>>
      BY <3>2, RingSeqOK
    <3> QED
      BY <2>2, <2>4, <3>2, <3>3, OptionAssumption DEF Created, Exists, Fifo!fifoVars
  <2>5. CASE Closed(c)
    <3>1. nx = [ch EXCEPT !.closed = TRUE] /\ ch \in Channel
      BY <2>1, <2>5 DEF Closed
    <3>2. /\ nx.message_count = ch.message_count /\ nx.buffer = ch.buffer
          /\ nx.read_pos = ch.read_pos
      BY <3>1 DEF Channel
    <3>3. RingSeq(nx) = RingSeq(ch)
      BY <3>2 DEF RingSeq, SlotAfter
    <3> QED
      BY <2>2, <2>5, <3>3 DEF Closed, Exists, Fifo!fifoVars
  <2>6. CASE Filled(c)
    <3>1. PICK body \in Nat : nx = ChannelSend(ch, body)
      BY <2>6 DEF Filled
    <3>2. ch \in Channel /\ WindowOK(ch) /\ ~IsFull(ch)
      BY <2>1, <2>6 DEF Filled
    <3>3. PICK new \in Message : RingSeq(nx) = Append(RingSeq(ch), new)
      BY <3>1, <3>2, SendAppends
    <3>4. /\ RingSeq(ch) \in Seq(Message) /\ Len(RingSeq(ch)) = ch.message_count
          /\ ch.message_count \in Nat /\ ch.message_count < BufferSize
      BY <3>2, RingSeqOK, ChannelFields, IpcAssumption DEF IsFull
    <3>5. /\ RingSeq(nx) # <<>> /\ RingSeq(nx)[Len(RingSeq(nx))] = new
          /\ Len(RingSeq(ch)) < BufferSize
      BY <3>3, <3>4
    <3>6. Contents(c) = RingSeq(ch) /\ Contents(c)' = RingSeq(nx) /\ got'[c] = got[c]
      BY <2>2, <2>6 DEF Filled, Exists
    <3> QED
      BY <3>3, <3>5, <3>6 DEF Fifo!Next, Fifo!PutSome, Fifo!Put
  <2>7. CASE Drained(c)
    <3>1. ch \in Channel /\ WindowOK(ch) /\ ~IsEmpty(ch) /\ nx = ChannelReceive(ch)
      BY <2>1, <2>7 DEF Drained
    <3>2. Contents(c) = RingSeq(ch) /\ Contents(c)' = RingSeq(nx) /\ got'[c] = Oldest(ch)
      BY <2>2, <2>7 DEF Drained, Exists
    <3> QED
      BY <3>1, <3>2, ReceiveTakesHead DEF Fifo!Next, Fifo!Take
  <2> QED
    BY <2>1, <2>3, <2>4, <2>5, <2>6, <2>7 DEF Move
<1>3. IpcInv /\ [Next]_vars => [\A c \in ChannelId : [Fifo(c)!Next]_(Fifo(c)!fifoVars)]_vars
  BY <1>2
<1> QED
  BY <1>1, <1>3, IpcInvariant, PTL DEF Spec, RefinesFifo

--------------------------------------------------------------------------------
(* The pending queues *)

\* The ids of a queue increase and were all issued.
OrderedQueue(q, next) ==
    \A i \in 1 .. Len(q) :
        /\ q[i].id < next
        /\ \A j \in 1 .. Len(q) : i < j => q[i].id < q[j].id

\* The operation once take() has been called on its message.
Stripped(op) == [op EXCEPT !.message = NoMessage]

\* What a step does to a queue: nothing, one more operation at the end with a
\* fresh id, one less anywhere, or an operation stripped of its message.
QueueMove(q, r) ==
    \/ r = q
    \/ /\ next_pending_id' = next_pending_id + 1
       /\ \E op \in PendingOp : op.id = next_pending_id /\ r = Append(q, op)
    \/ \E i \in 1 .. Len(q) : r = RemoveAt(q, i)
    \/ \E i \in 1 .. Len(q) : r = [q EXCEPT ![i] = Stripped(q[i])]

LEMMA PendingOpFields ==
    ASSUME NEW op \in PendingOp
    PROVE  /\ op.id \in Nat
           /\ op.message \in Nat \cup {NoMessage}
           /\ Stripped(op) \in PendingOp
           /\ Stripped(op).id = op.id
           /\ Stripped(op).message = NoMessage
  BY DEF PendingOp, Stripped

LEMMA QueueStaysOrdered ==
    ASSUME NEW q \in Seq(PendingOp), NEW r, QueueMove(q, r), next_pending_id \in Nat,
           next_pending_id' \in {next_pending_id, next_pending_id + 1},
           OrderedQueue(q, next_pending_id)
    PROVE  OrderedQueue(r, next_pending_id')
<1>1. Len(q) \in Nat /\ \A i \in 1 .. Len(q) : q[i] \in PendingOp /\ q[i].id \in Nat
  BY PendingOpFields
<1>2. next_pending_id' \in Nat /\ next_pending_id <= next_pending_id'
  OBVIOUS
<1>3. CASE r = q
  BY <1>1, <1>2, <1>3 DEF OrderedQueue
<1>4. ASSUME NEW op \in PendingOp, op.id = next_pending_id, r = Append(q, op),
             next_pending_id' = next_pending_id + 1
      PROVE  OrderedQueue(r, next_pending_id')
  <2>1. /\ Len(r) = Len(q) + 1 /\ r[Len(q) + 1] = op
        /\ \A i \in 1 .. Len(q) : r[i] = q[i]
    BY <1>4
  <2>2. ASSUME NEW i \in 1 .. Len(r)
        PROVE  r[i].id \in Nat /\ r[i].id < next_pending_id'
    <3>1. i \in 1 .. Len(q) \/ i = Len(q) + 1
      BY <1>1, <2>1
    <3> QED
      BY <1>1, <1>4, <2>1, <3>1 DEF OrderedQueue
  <2>3. ASSUME NEW i \in 1 .. Len(r), NEW j \in 1 .. Len(r), i < j
        PROVE  r[i].id < r[j].id
    <3>1. i \in 1 .. Len(q) /\ (j \in 1 .. Len(q) \/ j = Len(q) + 1)
      BY <1>1, <2>1, <2>3
    <3> QED
      BY <1>1, <1>4, <2>1, <2>3, <3>1 DEF OrderedQueue
  <2> QED
    BY <2>2, <2>3 DEF OrderedQueue
<1>5. ASSUME NEW k \in 1 .. Len(q), r = RemoveAt(q, k)
      PROVE  OrderedQueue(r, next_pending_id')
  <2> DEFINE Old(j) == IF j < k THEN j ELSE j + 1
  <2>1. Len(r) = Len(q) - 1 /\ \A j \in 1 .. Len(q) - 1 : r[j] = IF j < k THEN q[j] ELSE q[j + 1]
    BY <1>5, RemoveAtElements
  <2>2. \A j \in 1 .. Len(r) : Old(j) \in 1 .. Len(q) /\ r[j] = q[Old(j)]
    BY <1>1, <2>1
  <2>3. \A i, j \in 1 .. Len(r) : i < j => Old(i) < Old(j)
    BY <1>1, <2>1
  <2> HIDE DEF Old
  <2>4. ASSUME NEW i \in 1 .. Len(r)
        PROVE  r[i].id < next_pending_id' /\ \A j \in 1 .. Len(r) : i < j => r[i].id < r[j].id
    <3>1. /\ q[Old(i)].id \in Nat /\ q[Old(i)].id < next_pending_id
          /\ \A j \in 1 .. Len(q) : Old(i) < j => q[Old(i)].id < q[j].id
      BY <1>1, <2>2 DEF OrderedQueue
    <3>2. q[Old(i)].id < next_pending_id'
      BY <1>2, <3>1
    <3> QED
      BY <2>2, <2>3, <3>1, <3>2
  <2> QED
    BY <2>4 DEF OrderedQueue
<1>6. ASSUME NEW k \in 1 .. Len(q), r = [q EXCEPT ![k] = Stripped(q[k])]
      PROVE  OrderedQueue(r, next_pending_id')
  <2>1. Len(r) = Len(q) /\ \A j \in 1 .. Len(q) : r[j] = IF j = k THEN Stripped(q[k]) ELSE q[j]
    BY <1>1, <1>6, PendingOpFields, ExceptSeq
  <2>2. \A j \in 1 .. Len(r) : r[j].id = q[j].id
    BY <1>1, <2>1, PendingOpFields
  <2> QED
    BY <1>1, <1>2, <2>1, <2>2 DEF OrderedQueue
<1> QED
  BY <1>3, <1>4, <1>5, <1>6 DEF QueueMove

--------------------------------------------------------------------------------
(* Where a step moves the messages of one channel *)

QueueKept(c) == pending_sends'[c] = pending_sends[c]
RingKept(c) == channels'[c] = channels[c] \/ Created(c) \/ Closed(c)
EndsKept(c) == taken'[c] = taken[c] /\ discarded'[c] = discarded[c]

\* No message moves.
FlowNone(c) ==
    RingKept(c) /\ QueueKept(c) /\ EndsKept(c) /\ accepted'[c] = accepted[c]

\* Channel::send accepts a message into the ring.
FlowSend(c) ==
    /\ Exists(c) /\ ~IsFull(channels[c])
    /\ channels'[c] = ChannelSend(channels[c], accepted[c] + 1)
    /\ QueueKept(c) /\ EndsKept(c) /\ accepted'[c] = accepted[c] + 1

\* queue_send accepts a message into the queue.
FlowQueue(c) ==
    /\ channels'[c] = channels[c] /\ EndsKept(c) /\ accepted'[c] = accepted[c] + 1
    /\ next_pending_id' = next_pending_id + 1
    /\ \E op \in PendingOp :
          /\ op.id = next_pending_id /\ op.message = accepted[c] + 1
          /\ pending_sends'[c] = Append(pending_sends[c], op)

\* process_pending moves a message from the queue into the ring.
FlowMove(c) ==
    /\ Exists(c) /\ ~IsFull(channels[c]) /\ EndsKept(c) /\ accepted'[c] = accepted[c]
    /\ \E i \in 1 .. Len(pending_sends[c]) :
          /\ pending_sends[c][i].message # NoMessage
          /\ channels'[c] = ChannelSend(channels[c], pending_sends[c][i].message)
          /\ pending_sends'[c] = RemoveAt(pending_sends[c], i)

\* The oldest message leaves the ring, for the receiver or for nobody.
FlowTake(c) ==
    /\ Exists(c) /\ ~IsEmpty(channels[c]) /\ QueueKept(c) /\ accepted'[c] = accepted[c]
    /\ channels'[c] = ChannelReceive(channels[c])
    /\ LET body == Oldest(channels[c]).body
       IN  \/ taken'[c] = taken[c] \cup {body} /\ discarded'[c] = discarded[c]
           \/ taken'[c] = taken[c] /\ discarded'[c] = discarded[c] \cup {body}

\* The message of a queued operation is dropped, with the operation or without it.
FlowDrop(c) ==
    /\ channels'[c] = channels[c] /\ accepted'[c] = accepted[c] /\ taken'[c] = taken[c]
    /\ \E i \in 1 .. Len(pending_sends[c]) :
          /\ discarded'[c] = discarded[c] \cup BodyOf(pending_sends[c][i])
          /\ \/ pending_sends'[c] = RemoveAt(pending_sends[c], i)
             \/ pending_sends'[c]
                  = [pending_sends[c] EXCEPT ![i] = Stripped(pending_sends[c][i])]

Flow(c) ==
    FlowNone(c) \/ FlowSend(c) \/ FlowQueue(c) \/ FlowMove(c) \/ FlowTake(c) \/ FlowDrop(c)

\* What a step does to everything but one channel's messages.
Flows ==
    /\ next_pending_id' \in {next_pending_id, next_pending_id + 1}
    /\ \A c \in ChannelId :
          Flow(c) /\ QueueMove(pending_receives[c], pending_receives'[c])

LEMMA FlowsNowhere ==
    ASSUME UNCHANGED <<channels, pending, accepted, taken, discarded>>
    PROVE  Flows
  BY DEF pending, Flows, Flow, FlowNone, RingKept, QueueKept, EndsKept, QueueMove

\* Creating and closing channels moves no message.
LEMMA FlowsNone ==
    ASSUME IpcInv, UNCHANGED <<pending, history>>,
           \A c \in ChannelId : Unmoved(c) \/ Created(c) \/ Closed(c)
    PROVE  Flows
  BY DEF pending, history, Flows, Flow, FlowNone, Unmoved, RingKept, QueueKept, EndsKept,
         QueueMove

LEMMA FlowsAccept ==
    ASSUME IpcInv, NEW c \in ChannelId, Exists(c), ~IsFull(channels[c]), AcceptSend(c),
           UNCHANGED pending
    PROVE  Flows
<1>1. /\ channels' = [channels EXCEPT ![c] = ChannelSend(channels[c], accepted[c] + 1)]
      /\ accepted' = [accepted EXCEPT ![c] = accepted[c] + 1]
      /\ UNCHANGED <<taken, discarded, pending_sends, pending_receives, next_pending_id>>
  BY DEF AcceptSend, PutInRing, pending
<1>2. /\ channels \in [ChannelId -> Channel \cup {NoChannel}] /\ accepted \in [ChannelId -> Nat]
  BY DEF IpcInv, TypeOK
<1>3. FlowSend(c)
  BY <1>1, <1>2 DEF FlowSend, QueueKept, EndsKept
<1>4. \A d \in ChannelId \ {c} : FlowNone(d)
  BY <1>1, <1>2 DEF FlowNone, RingKept, QueueKept, EndsKept
<1> QED
  BY <1>1, <1>3, <1>4 DEF Flows, Flow, QueueMove

LEMMA FlowsHandOver ==
    ASSUME IpcInv, NEW c \in ChannelId, Exists(c), ~IsEmpty(channels[c]), HandOver(c),
           UNCHANGED pending
    PROVE  Flows
<1>1. /\ channels' = [channels EXCEPT ![c] = ChannelReceive(channels[c])]
      /\ taken' = [taken EXCEPT ![c] = taken[c] \cup {Oldest(channels[c]).body}]
      /\ UNCHANGED <<accepted, discarded, pending_sends, pending_receives, next_pending_id>>
  BY DEF HandOver, TakeFromRing, pending
<1>2. /\ channels \in [ChannelId -> Channel \cup {NoChannel}]
      /\ taken \in [ChannelId -> SUBSET Nat]
  BY DEF IpcInv, TypeOK
<1>3. FlowTake(c)
  BY <1>1, <1>2 DEF FlowTake, QueueKept
<1>4. \A d \in ChannelId \ {c} : FlowNone(d)
  BY <1>1, <1>2 DEF FlowNone, RingKept, QueueKept, EndsKept
<1> QED
  BY <1>1, <1>3, <1>4 DEF Flows, Flow, QueueMove

\* Every step moves the messages of each channel in one of these ways.
LEMMA StepFlows ==
    ASSUME IpcInv, [Next]_vars
    PROVE  Flows
<1>0. TypeOK /\ Moves
  BY StepMoves DEF IpcInv
<1>1. ASSUME NEW s \in Process, NEW r \in Process, CreateChannel(s, r) PROVE Flows
  <2>1. \A c \in ChannelId : Unmoved(c) \/ Created(c) \/ Closed(c)
    <3>1. UNCHANGED channels \/ channels' = [channels EXCEPT ![next_channel_id] = NewChannel(s, r)]
      BY <1>1 DEF CreateChannel
    <3>2. /\ next_channel_id \in ChannelId /\ ~Exists(next_channel_id) /\ UNCHANGED got
          /\ next_channel_id' = next_channel_id + 1
      BY <1>0, <1>1 DEF CreateChannel, IpcInv, FreshIds, history, ChannelId, TypeOK
    <3> QED
      BY <1>0, <3>1, <3>2 DEF TypeOK, Unmoved, Created
  <2> QED
    BY <1>1, <2>1, FlowsNone DEF CreateChannel
<1>2. ASSUME NEW p \in Process, NEW c \in ChannelId, Close(p, c) PROVE Flows
  <2>1. \A d \in ChannelId : Unmoved(d) \/ Created(d) \/ Closed(d)
    <3>1. UNCHANGED channels \/ (Exists(c) /\ channels' = [channels EXCEPT ![c].closed = TRUE])
      BY <1>2 DEF Close
    <3>2. UNCHANGED got
      BY <1>2 DEF Close, history
    <3> QED
      BY <1>0, <3>1, <3>2 DEF TypeOK, Unmoved, Closed
  <2> QED
    BY <1>2, <2>1, FlowsNone DEF Close
<1>3. ASSUME NEW p \in Process, NEW c \in ChannelId, NEW large \in BOOLEAN, Send(p, c, large)
      PROVE  Flows
  <2>1. CASE SendResult(p, c, large) = "Ok"
    BY <1>3, <2>1, ResultOk, FlowsAccept DEF Send
  <2>2. CASE SendResult(p, c, large) # "Ok"
    BY <1>3, <2>2, FlowsNowhere DEF Send, history
  <2> QED
    BY <2>1, <2>2
<1>4. ASSUME NEW p \in Process, NEW c \in ChannelId, Receive(p, c) PROVE Flows
  <2>1. CASE ReceiveResult(p, c) = "Ok"
    BY <1>4, <2>1, ResultOk, FlowsHandOver DEF Receive
  <2>2. CASE ReceiveResult(p, c) # "Ok"
    BY <1>4, <2>2, FlowsNowhere DEF Receive, history
  <2> QED
    BY <2>1, <2>2
<1>5. ASSUME NEW p \in Process, NEW c \in ChannelId, SendAsync(p, c) PROVE Flows
  <2>1. CASE SendResult(p, c, FALSE) = "Ok"
    BY <1>5, <2>1, ResultOk, FlowsAccept DEF SendAsync
  <2>2. CASE SendResult(p, c, FALSE) # "Ok"
    BY <1>5, <2>2, FlowsNowhere DEF SendAsync, history
  <2> QED
    BY <2>1, <2>2
<1>6. ASSUME NEW p \in Process, NEW c \in ChannelId, ReceiveAsync(p, c) PROVE Flows
  <2>1. CASE ReceiveResult(p, c) = "Ok"
    BY <1>6, <2>1, ResultOk, FlowsHandOver DEF ReceiveAsync
  <2>2. CASE ReceiveResult(p, c) # "Ok"
    BY <1>6, <2>2, FlowsNowhere DEF ReceiveAsync, history
  <2> QED
    BY <2>1, <2>2
<1>7. ASSUME NEW p \in Process, QueueSend(p) PROVE Flows
  <2> DEFINE c == call[p].chan
             op == [id |-> next_pending_id, process |-> p, message |-> accepted[c] + 1]
  <2>1. c \in ChannelId /\ accepted[c] + 1 \in Nat
    BY <1>0 DEF TypeOK
  <2>2. op \in PendingOp /\ op.id = next_pending_id /\ op.message = accepted[c] + 1
    BY <1>0, <2>1 DEF PendingOp, TypeOK
  <2>3. CASE UNCHANGED <<pending, accepted>>
    BY <1>7, <2>3, FlowsNowhere DEF QueueSend, ring
  <2>4. CASE /\ pending_sends' = [pending_sends EXCEPT ![c] = Append(@, op)]
             /\ next_pending_id' = next_pending_id + 1
             /\ accepted' = [accepted EXCEPT ![c] = @ + 1]
             /\ UNCHANGED pending_receives
    <3> HIDE DEF op, c
    <3>1. UNCHANGED <<channels, taken, discarded>>
      BY <1>7 DEF QueueSend, ring
    <3>2. FlowQueue(c)
      BY <1>0, <2>1, <2>2, <2>4, <3>1 DEF FlowQueue, EndsKept, TypeOK
    <3>3. \A d \in ChannelId \ {c} : FlowNone(d)
      BY <1>0, <2>1, <2>4, <3>1 DEF FlowNone, RingKept, QueueKept, EndsKept, TypeOK
    <3> QED
      BY <2>4, <3>2, <3>3 DEF Flows, Flow, QueueMove
  <2> QED
    BY <1>7, <2>3, <2>4 DEF QueueSend
<1>8. ASSUME NEW p \in Process, QueueReceive(p) PROVE Flows
  <2> DEFINE c == call[p].chan
             op == [id |-> next_pending_id, process |-> p, message |-> NoMessage]
  <2>1. c \in ChannelId
    BY <1>0 DEF TypeOK
  <2>2. op \in PendingOp /\ op.id = next_pending_id
    BY <1>0, <2>1 DEF PendingOp, TypeOK
  <2>3. CASE UNCHANGED pending
    BY <1>8, <2>3, FlowsNowhere DEF QueueReceive, ring, history
  <2>4. CASE /\ pending_receives' = [pending_receives EXCEPT ![c] = Append(@, op)]
             /\ next_pending_id' = next_pending_id + 1
             /\ UNCHANGED pending_sends
    <3> HIDE DEF op, c
    <3>1. UNCHANGED <<channels, accepted, taken, discarded>>
      BY <1>8 DEF QueueReceive, ring, history
    <3>2. \A d \in ChannelId : FlowNone(d)
      BY <2>4, <3>1 DEF FlowNone, RingKept, QueueKept, EndsKept
    <3>3. \A d \in ChannelId : QueueMove(pending_receives[d], pending_receives'[d])
      BY <1>0, <2>1, <2>2, <2>4 DEF QueueMove, TypeOK
    <3> QED
      BY <2>4, <3>2, <3>3 DEF Flows, Flow
  <2> QED
    BY <1>8, <2>3, <2>4 DEF QueueReceive
<1>9. ASSUME NEW id, CancelSend(id) PROVE Flows
  <2>1. PICK w \in QueuedAt(pending_sends, id) :
          /\ pending_sends' = [pending_sends EXCEPT ![w[1]] = RemoveAt(@, w[2])]
          /\ discarded' = [discarded EXCEPT ![w[1]] = @ \cup BodyOf(pending_sends[w[1]][w[2]])]
    BY <1>9 DEF CancelSend
  <2>2. w[1] \in ChannelId /\ w[2] \in 1 .. Len(pending_sends[w[1]])
    BY DEF QueuedAt
  <2>3. UNCHANGED <<channels, pending_receives, next_pending_id, accepted, taken>>
    BY <1>9 DEF CancelSend, ring
  <2>4. FlowDrop(w[1])
    BY <1>0, <2>1, <2>2, <2>3 DEF FlowDrop, TypeOK
  <2>5. \A d \in ChannelId \ {w[1]} : FlowNone(d)
    BY <1>0, <2>1, <2>2, <2>3 DEF FlowNone, RingKept, QueueKept, EndsKept, TypeOK
  <2> QED
    BY <2>3, <2>4, <2>5 DEF Flows, Flow, QueueMove
<1>10. ASSUME NEW id, CancelReceive(id) PROVE Flows
  <2>1. PICK w \in QueuedAt(pending_receives, id) :
          pending_receives' = [pending_receives EXCEPT ![w[1]] = RemoveAt(@, w[2])]
    BY <1>10 DEF CancelReceive
  <2>2. w[1] \in ChannelId /\ w[2] \in 1 .. Len(pending_receives[w[1]])
    BY DEF QueuedAt
  <2>3. UNCHANGED <<channels, pending_sends, next_pending_id, accepted, taken, discarded>>
    BY <1>10 DEF CancelReceive, ring, history
  <2>4. \A d \in ChannelId : FlowNone(d)
    BY <2>3 DEF FlowNone, RingKept, QueueKept, EndsKept
  <2>5. \A d \in ChannelId : QueueMove(pending_receives[d], pending_receives'[d])
    BY <1>0, <2>1, <2>2 DEF QueueMove, TypeOK
  <2> QED
    BY <2>3, <2>4, <2>5 DEF Flows, Flow
<1>11. ASSUME NEW id, CancelNotFound(id) \/ Poll(id) PROVE Flows
  BY <1>11, FlowsNowhere DEF CancelNotFound, Poll, ring, history
<1>12. CASE PumpSend
  <2> DEFINE c == pump.chan
             op == pending_sends[c][pump.i]
  <2>1. c \in ChannelId /\ Exists(c) /\ pump.i \in 1 .. Len(pending_sends[c])
    BY <1>0, <1>12 DEF PumpSend, TypeOK, IpcInv, PumpOnChannel
  <2>2. /\ channels' = [channels EXCEPT ![c] = ChannelSend(channels[c], op.message)]
        /\ pending_sends' = [pending_sends EXCEPT ![c] = RemoveAt(@, pump.i)]
        /\ ~IsFull(channels[c]) /\ op.message # NoMessage
        /\ UNCHANGED <<pending_receives, next_pending_id, accepted, taken, discarded>>
    BY <1>12 DEF PumpSend, PutInRing, history
  <2> HIDE DEF c
  <2>3. FlowMove(c)
    BY <1>0, <2>1, <2>2 DEF FlowMove, EndsKept, TypeOK
  <2>4. \A d \in ChannelId \ {c} : FlowNone(d)
    BY <1>0, <2>1, <2>2 DEF FlowNone, RingKept, QueueKept, EndsKept, TypeOK
  <2> QED
    BY <2>2, <2>3, <2>4 DEF Flows, Flow, QueueMove
<1>13. CASE PumpSendFails
  <2> DEFINE c == pump.chan
             q == pending_sends[c]
  <2>1. c \in ChannelId /\ pump.i \in 1 .. Len(q) /\ q[pump.i] \in PendingOp
    BY <1>0, <1>13 DEF PumpSendFails, TypeOK
  <2>2. /\ pending_sends' = [pending_sends EXCEPT ![c] = [q EXCEPT ![pump.i] = Stripped(q[pump.i])]]
        /\ discarded' = [discarded EXCEPT ![c] = @ \cup BodyOf(q[pump.i])]
        /\ UNCHANGED <<channels, pending_receives, next_pending_id, accepted, taken>>
    BY <1>13 DEF PumpSendFails, ring, Stripped
  <2> HIDE DEF c
  <2>3. FlowDrop(c)
    BY <1>0, <2>1, <2>2 DEF FlowDrop, TypeOK
  <2>4. \A d \in ChannelId \ {c} : FlowNone(d)
    BY <1>0, <2>1, <2>2 DEF FlowNone, RingKept, QueueKept, EndsKept, TypeOK
  <2> QED
    BY <2>2, <2>3, <2>4 DEF Flows, Flow, QueueMove
<1>14. CASE PumpReceive
  <2> DEFINE c == pump.chan
  <2>1. c \in ChannelId /\ Exists(c) /\ ~IsEmpty(channels[c])
    BY <1>0, <1>14 DEF PumpReceive, IpcInv, PumpOnChannel, TypeOK
  <2>2. /\ channels' = [channels EXCEPT ![c] = ChannelReceive(channels[c])]
        /\ pending_receives' = [pending_receives EXCEPT ![c] = RemoveAt(@, 1)]
        /\ discarded' = [discarded EXCEPT ![c] = @ \cup {Oldest(channels[c]).body}]
        /\ UNCHANGED <<pending_sends, next_pending_id, accepted, taken>>
    BY <1>14 DEF PumpReceive, TakeFromRing
  <2>3. pending_receives[c] # <<>>
    BY <1>14 DEF PumpReceive
  <2> HIDE DEF c
  <2>4. 1 \in 1 .. Len(pending_receives[c])
    BY <1>0, <2>1, <2>3 DEF TypeOK
  <2>5. FlowTake(c)
    BY <1>0, <2>1, <2>2 DEF FlowTake, QueueKept, TypeOK
  <2>6. \A d \in ChannelId \ {c} : FlowNone(d)
    BY <1>0, <2>1, <2>2 DEF FlowNone, RingKept, QueueKept, EndsKept, TypeOK
  <2>7. \A d \in ChannelId : QueueMove(pending_receives[d], pending_receives'[d])
    BY <1>0, <2>1, <2>2, <2>4 DEF QueueMove, TypeOK
  <2> QED
    BY <2>2, <2>5, <2>6, <2>7 DEF Flows, Flow
<1>15. CASE PumpStart \/ PumpSendsDone \/ PumpReceivesDone
  BY <1>15, FlowsNowhere DEF PumpStart, PumpSendsDone, PumpReceivesDone, ring, history
<1>16. CASE UNCHANGED vars
  BY <1>16, FlowsNowhere DEF vars, ring, history
<1> QED
  BY <1>1, <1>2, <1>3, <1>4, <1>5, <1>6, <1>7, <1>8, <1>9, <1>10, <1>11, <1>12, <1>13, <1>14,
     <1>15, <1>16
  DEF Next, Calls, Cancel, ProcessPending, PumpStep

--------------------------------------------------------------------------------
(* The order of the queues *)

QueuesOrdered ==
    \A c \in ChannelId :
        /\ OrderedQueue(pending_sends[c], next_pending_id)
        /\ OrderedQueue(pending_receives[c], next_pending_id)

LEMMA FlowMovesQueue ==
    ASSUME NEW c \in ChannelId, Flow(c)
    PROVE  QueueMove(pending_sends[c], pending_sends'[c])
<1>1. CASE FlowNone(c) \/ FlowSend(c) \/ FlowTake(c)
  BY <1>1 DEF FlowNone, FlowSend, FlowTake, QueueKept, QueueMove
<1>2. CASE FlowQueue(c)
  BY <1>2 DEF FlowQueue, QueueMove
<1>3. CASE FlowMove(c) \/ FlowDrop(c)
  BY <1>3 DEF FlowMove, FlowDrop, QueueMove
<1> QED
  BY <1>1, <1>2, <1>3 DEF Flow

\* The operations of a channel wait in the order they were queued, however many
\* are cancelled from the middle and whatever process_pending completes.
THEOREM QueuesKeepOrder == Spec => []QueuesInIdOrder
<1>1. Init => QueuesOrdered
  <2> SUFFICES ASSUME Init PROVE QueuesOrdered
    OBVIOUS
  <2>1. \A c \in ChannelId : pending_sends[c] = <<>> /\ pending_receives[c] = <<>>
    BY DEF Init
  <2>2. 1 .. Len(<<>>) = {}
    OBVIOUS
  <2> QED
    BY <2>1, <2>2 DEF QueuesOrdered, OrderedQueue
<1>2. IpcInv /\ QueuesOrdered /\ [Next]_vars => QueuesOrdered'
  <2> SUFFICES ASSUME IpcInv, QueuesOrdered, [Next]_vars, NEW c \in ChannelId
               PROVE  /\ OrderedQueue(pending_sends'[c], next_pending_id')
                      /\ OrderedQueue(pending_receives'[c], next_pending_id')
    BY DEF QueuesOrdered, OrderedQueue
  <2>1. Flows
    BY StepFlows
  <2>2. /\ pending_sends[c] \in Seq(PendingOp) /\ pending_receives[c] \in Seq(PendingOp)
        /\ next_pending_id \in Nat
    BY DEF IpcInv, TypeOK
  <2>3. /\ QueueMove(pending_sends[c], pending_sends'[c])
        /\ QueueMove(pending_receives[c], pending_receives'[c])
        /\ next_pending_id' \in {next_pending_id, next_pending_id + 1}
    BY <2>1, FlowMovesQueue DEF Flows
  <2> QED
    BY <2>2, <2>3, QueueStaysOrdered DEF QueuesOrdered
<1>3. QueuesOrdered => QueuesInIdOrder
  BY DEF QueuesOrdered, OrderedQueue, QueuesInIdOrder
<1> QED
  BY <1>1, <1>2, <1>3, IpcInvariant, PTL DEF Spec

--------------------------------------------------------------------------------
(* Where the messages are *)

RingBodies(ch) == {ch.buffer[i].body : i \in {j \in SlotIndex : ch.buffer[j] # NoMessage}}
QueueBodies(q) == UNION {BodyOf(q[i]) : i \in 1 .. Len(q)}

\* No two slots, and no two queued operations, hold the same message.
DistinctRing(ch) ==
    \A i, j \in SlotIndex :
        i # j /\ ch.buffer[i] # NoMessage /\ ch.buffer[j] # NoMessage =>
            ch.buffer[i].body # ch.buffer[j].body
DistinctQueue(q) ==
    \A i, j \in 1 .. Len(q) : i # j => BodyOf(q[i]) \cap BodyOf(q[j]) = {}

\* Channel::send adds the message, Channel::receive removes the oldest.
LEMMA SendBodies ==
    ASSUME NEW ch \in Channel, WindowOK(ch), ~IsFull(ch), NEW body \in Nat,
           DistinctRing(ch), body \notin RingBodies(ch)
    PROVE  /\ RingBodies(ChannelSend(ch, body)) = RingBodies(ch) \cup {body}
           /\ DistinctRing(ChannelSend(ch, body))
<1> DEFINE n == ChannelSend(ch, body)
           w == ch.write_pos
           new == [body |-> body, sequence |-> ch.next_sequence]
<1>1. /\ ch.message_count \in 0 .. BufferSize - 1 /\ ch.next_sequence \in Nat
      /\ w \in SlotIndex /\ w = SlotAfter(ch, ch.message_count)
      /\ ch.buffer \in [SlotIndex -> Message \cup {NoMessage}]
  BY ChannelFields, IpcAssumption DEF IsFull, SlotAfter
<1>2. new # NoMessage /\ new.body = body
  BY <1>1, OptionAssumption DEF Message
<1>3. n.buffer = [ch.buffer EXCEPT ![w] = new]
  BY DEF Channel, ChannelSend
<1> HIDE DEF n, w, new
<1>4. /\ n.buffer[w] = new
      /\ \A i \in SlotIndex : i # w => n.buffer[i] = ch.buffer[i]
  BY <1>1, <1>3
<1>5. ch.buffer[w] = NoMessage
  BY <1>1, IpcAssumption DEF WindowOK, SlotIndex
<1>6. RingBodies(n) = RingBodies(ch) \cup {body}
  BY <1>1, <1>2, <1>4, <1>5 DEF RingBodies
<1>7. \A i \in SlotIndex : ch.buffer[i] # NoMessage => ch.buffer[i].body # body
  BY DEF RingBodies
<1>8. DistinctRing(n)
  BY <1>1, <1>2, <1>4, <1>7 DEF DistinctRing
<1> QED
  BY <1>6, <1>8 DEF n

LEMMA ReceiveBodies ==
    ASSUME NEW ch \in Channel, WindowOK(ch), ~IsEmpty(ch), DistinctRing(ch)
    PROVE  /\ Oldest(ch).body \in RingBodies(ch)
           /\ RingBodies(ChannelReceive(ch)) = RingBodies(ch) \ {Oldest(ch).body}
           /\ DistinctRing(ChannelReceive(ch))
<1> DEFINE n == ChannelReceive(ch)
           r == ch.read_pos
<1>1. r \in SlotIndex /\ ch.buffer \in [SlotIndex -> Message \cup {NoMessage}]
  BY ChannelFields
<1>2. Oldest(ch) = ch.buffer[r] /\ ch.buffer[r] # NoMessage
  BY ChannelReceiveOK, OptionAssumption DEF Oldest
<1>3. n.buffer = [ch.buffer EXCEPT ![r] = NoMessage]
  BY DEF Channel, ChannelReceive
<1> HIDE DEF n, r
<1>4. /\ n.buffer[r] = NoMessage
      /\ \A i \in SlotIndex : i # r => n.buffer[i] = ch.buffer[i]
  BY <1>1, <1>3
<1>5. Oldest(ch).body \in RingBodies(ch)
  BY <1>1, <1>2 DEF RingBodies
<1>6. \A i \in SlotIndex :
         i # r /\ ch.buffer[i] # NoMessage => ch.buffer[i].body # Oldest(ch).body
  BY <1>1, <1>2 DEF DistinctRing
<1>7. RingBodies(n) = RingBodies(ch) \ {Oldest(ch).body}
  BY <1>1, <1>2, <1>4, <1>6 DEF RingBodies
<1>8. DistinctRing(n)
  BY <1>4 DEF DistinctRing
<1> QED
  BY <1>5, <1>7, <1>8 DEF n

LEMMA QueueBodiesAppend ==
    ASSUME NEW q \in Seq(PendingOp), NEW op \in PendingOp, DistinctQueue(q),
           BodyOf(op) \cap QueueBodies(q) = {}
    PROVE  /\ QueueBodies(Append(q, op)) = QueueBodies(q) \cup BodyOf(op)
           /\ DistinctQueue(Append(q, op))
<1> DEFINE r == Append(q, op)
<1>1. /\ Len(q) \in Nat /\ Len(r) = Len(q) + 1 /\ r[Len(q) + 1] = op
      /\ \A i \in 1 .. Len(q) : r[i] = q[i]
  OBVIOUS
<1> HIDE DEF r
<1>2. \A i \in 1 .. Len(r) : i \in 1 .. Len(q) \/ i = Len(q) + 1
  BY <1>1
<1>3. \A i \in 1 .. Len(q) : i \in 1 .. Len(r)
  BY <1>1
<1>4. Len(q) + 1 \in 1 .. Len(r)
  BY <1>1
<1>5. QueueBodies(r) = QueueBodies(q) \cup BodyOf(op)
  BY <1>1, <1>2, <1>3, <1>4 DEF QueueBodies
<1>6. \A i \in 1 .. Len(q) : BodyOf(q[i]) \cap BodyOf(op) = {}
  BY DEF QueueBodies
<1>7. DistinctQueue(r)
  BY <1>1, <1>2, <1>6 DEF DistinctQueue
<1> QED
  BY <1>5, <1>7 DEF r

LEMMA QueueBodiesRemove ==
    ASSUME NEW q \in Seq(PendingOp), NEW k \in 1 .. Len(q), DistinctQueue(q)
    PROVE  /\ BodyOf(q[k]) \subseteq QueueBodies(q)
           /\ QueueBodies(RemoveAt(q, k)) = QueueBodies(q) \ BodyOf(q[k])
           /\ DistinctQueue(RemoveAt(q, k))
<1> DEFINE r == RemoveAt(q, k)
           Old(j) == IF j < k THEN j ELSE j + 1
           New(j) == IF j < k THEN j ELSE j - 1
<1>1. /\ Len(q) \in Nat /\ Len(r) = Len(q) - 1
      /\ \A j \in 1 .. Len(q) - 1 : r[j] = IF j < k THEN q[j] ELSE q[j + 1]
  BY RemoveAtElements
<1> HIDE DEF r
<1>2. \A j \in 1 .. Len(r) : Old(j) \in 1 .. Len(q) /\ Old(j) # k /\ r[j] = q[Old(j)]
  BY <1>1
<1>3. \A j \in 1 .. Len(q) : j # k => New(j) \in 1 .. Len(r) /\ Old(New(j)) = j
  BY <1>1
<1>4. \A i, j \in 1 .. Len(r) : i # j => Old(i) # Old(j)
  BY <1>1
<1> HIDE DEF Old, New
<1>5. \A j \in 1 .. Len(q) : j # k => BodyOf(q[j]) \cap BodyOf(q[k]) = {}
  BY DEF DistinctQueue
<1>6. BodyOf(q[k]) \subseteq QueueBodies(q)
  BY DEF QueueBodies
<1>7. QueueBodies(r) \subseteq QueueBodies(q) \ BodyOf(q[k])
  BY <1>2, <1>5 DEF QueueBodies
<1>8. ASSUME NEW b \in QueueBodies(q) \ BodyOf(q[k]) PROVE b \in QueueBodies(r)
  <2>1. PICK j \in 1 .. Len(q) : b \in BodyOf(q[j])
    BY DEF QueueBodies
  <2>2. j # k
    BY <1>8, <2>1
  <2>3. New(j) \in 1 .. Len(r) /\ b \in BodyOf(r[New(j)])
    BY <1>2, <1>3, <2>1, <2>2
  <2> QED
    BY <2>3 DEF QueueBodies
<1>9. DistinctQueue(r)
  BY <1>2, <1>4 DEF DistinctQueue
<1> QED
  BY <1>6, <1>7, <1>8, <1>9 DEF r

LEMMA QueueBodiesStrip ==
    ASSUME NEW q \in Seq(PendingOp), NEW k \in 1 .. Len(q), DistinctQueue(q)
    PROVE  LET r == [q EXCEPT ![k] = Stripped(q[k])]
           IN  /\ QueueBodies(r) = QueueBodies(q) \ BodyOf(q[k])
               /\ DistinctQueue(r)
<1> DEFINE r == [q EXCEPT ![k] = Stripped(q[k])]
<1>1. q[k] \in PendingOp /\ Stripped(q[k]) \in PendingOp /\ Stripped(q[k]).message = NoMessage
  BY PendingOpFields
<1>2. /\ Len(r) = Len(q) /\ r[k] = Stripped(q[k])
      /\ \A j \in 1 .. Len(q) : j # k => r[j] = q[j]
  BY <1>1, ExceptSeq
<1> HIDE DEF r
<1>3. BodyOf(r[k]) = {}
  BY <1>1, <1>2 DEF BodyOf
<1>4. \A j \in 1 .. Len(q) : j # k => BodyOf(q[j]) \cap BodyOf(q[k]) = {}
  BY DEF DistinctQueue
<1>5. QueueBodies(r) \subseteq QueueBodies(q) \ BodyOf(q[k])
  BY <1>2, <1>3, <1>4 DEF QueueBodies
<1>6. QueueBodies(q) \ BodyOf(q[k]) \subseteq QueueBodies(r)
  <2>1. ASSUME NEW b \in QueueBodies(q) \ BodyOf(q[k]) PROVE b \in QueueBodies(r)
    <3>1. PICK j \in 1 .. Len(q) : b \in BodyOf(q[j])
      BY DEF QueueBodies
    <3>2. j # k /\ r[j] = q[j]
      BY <1>2, <2>1, <3>1
    <3> QED
      BY <1>2, <3>1, <3>2 DEF QueueBodies
  <2> QED
    BY <2>1
<1>7. DistinctQueue(r)
  BY <1>2, <1>3 DEF DistinctQueue
<1> QED
  BY <1>5, <1>6, <1>7 DEF r

\* Four sets share out the numbers up to n.
SharedOut(R, Q, T, D, n) ==
    /\ R \cup Q \cup T \cup D = 1 .. n
    /\ R \cap Q = {} /\ R \cap T = {} /\ R \cap D = {}
    /\ Q \cap T = {} /\ Q \cap D = {} /\ T \cap D = {}

LEMMA SharedOutCounts ==
    ASSUME NEW R, NEW Q, NEW T, NEW D, NEW n \in Nat, SharedOut(R, Q, T, D, n)
    PROVE  Cardinality(R) + Cardinality(Q) + Cardinality(T) + Cardinality(D) = n
<1>1. IsFiniteSet(1 .. n) /\ Cardinality(1 .. n) = n
  <2>1. 1 \in Int /\ n \in Int
    OBVIOUS
  <2>2. IsFiniteSet(1 .. n) /\ Cardinality(1 .. n) = IF 1 > n THEN 0 ELSE n - 1 + 1
    BY <2>1, FS_Interval
  <2> QED
    BY <2>2
<1>2. IsFiniteSet(R) /\ IsFiniteSet(Q) /\ IsFiniteSet(T) /\ IsFiniteSet(D)
  <2>1. R \subseteq 1 .. n /\ Q \subseteq 1 .. n /\ T \subseteq 1 .. n /\ D \subseteq 1 .. n
    BY DEF SharedOut
  <2> QED
    BY <1>1, <2>1, FS_Subset
<1>3. /\ Cardinality(R) \in Nat /\ Cardinality(Q) \in Nat /\ Cardinality(T) \in Nat
      /\ Cardinality(D) \in Nat
  BY <1>2, FS_CardinalityType
<1>4. ASSUME NEW A, NEW B, IsFiniteSet(A), IsFiniteSet(B), A \cap B = {}
      PROVE  IsFiniteSet(A \cup B) /\ Cardinality(A \cup B) = Cardinality(A) + Cardinality(B)
  <2>1. /\ IsFiniteSet(A \cup B)
        /\ Cardinality(A \cup B) = Cardinality(A) + Cardinality(B) - Cardinality(A \cap B)
    BY <1>4, FS_Union
  <2>2. Cardinality(A \cap B) = 0 /\ Cardinality(A) \in Nat /\ Cardinality(B) \in Nat
    BY <1>4, FS_EmptySet, FS_CardinalityType
  <2> QED
    BY <2>1, <2>2
<1>5. IsFiniteSet(R \cup Q) /\ Cardinality(R \cup Q) = Cardinality(R) + Cardinality(Q)
  BY <1>2, <1>4 DEF SharedOut
<1>6. IsFiniteSet(T \cup D) /\ Cardinality(T \cup D) = Cardinality(T) + Cardinality(D)
  BY <1>2, <1>4 DEF SharedOut
<1>7. (R \cup Q) \cap (T \cup D) = {} /\ (R \cup Q) \cup (T \cup D) = 1 .. n
  BY DEF SharedOut
<1>8. Cardinality((R \cup Q) \cup (T \cup D)) = Cardinality(R \cup Q) + Cardinality(T \cup D)
  BY <1>4, <1>5, <1>6, <1>7
<1>9. Cardinality(R \cup Q) + Cardinality(T \cup D) = n
  BY <1>1, <1>7, <1>8, Zenon
<1>10. (Cardinality(R) + Cardinality(Q)) + (Cardinality(T) + Cardinality(D)) = n
  BY <1>5, <1>6, <1>9, Zenon
<1> QED
  BY <1>3, <1>10

\* The messages of a channel are shared out between the ring, the queue, the
\* receiver and nobody, and neither the ring nor the queue holds one twice.
MessagesApart ==
    \A c \in ChannelId :
        /\ SharedOut(InRing(c), InQueue(c), taken[c], discarded[c], accepted[c])
        /\ Exists(c) => DistinctRing(channels[c])
        /\ DistinctQueue(pending_sends[c])

\* One more message, and one message changing sides.
LEMMA ShareGrows ==
    ASSUME NEW R, NEW Q, NEW T, NEW D, NEW n \in Nat, SharedOut(R, Q, T, D, n)
    PROVE  /\ n + 1 \notin R /\ n + 1 \notin Q
           /\ SharedOut(R \cup {n + 1}, Q, T, D, n + 1)
           /\ SharedOut(R, Q \cup {n + 1}, T, D, n + 1)
<1>1. 1 .. n + 1 = (1 .. n) \cup {n + 1} /\ n + 1 \notin 1 .. n
  OBVIOUS
<1> QED
  BY <1>1 DEF SharedOut

LEMMA ShareMoves ==
    ASSUME NEW R, NEW Q, NEW T, NEW D, NEW n \in Nat, SharedOut(R, Q, T, D, n), NEW B
    PROVE  /\ B \subseteq Q => /\ SharedOut(R \cup B, Q \ B, T, D, n)
                               /\ SharedOut(R, Q \ B, T, D \cup B, n)
                               /\ B \cap R = {}
           /\ B \subseteq R => /\ SharedOut(R \ B, Q, T \cup B, D, n)
                               /\ SharedOut(R \ B, Q, T, D \cup B, n)
  BY Zenon DEF SharedOut

LEMMA FlowShares ==
    ASSUME IpcInv, MessagesApart, NEW c \in ChannelId, Flow(c)
    PROVE  /\ SharedOut(InRing(c)', InQueue(c)', taken'[c], discarded'[c], accepted'[c])
           /\ Exists(c)' => DistinctRing(channels'[c])
           /\ DistinctQueue(pending_sends'[c])
<1> DEFINE ch == channels[c]
           nx == channels'[c]
           q == pending_sends[c]
           r == pending_sends'[c]
           R == InRing(c)
           Q == InQueue(c)
           T == taken[c]
           D == discarded[c]
           n == accepted[c]
           Goal == /\ SharedOut(InRing(c)', InQueue(c)', taken'[c], discarded'[c], accepted'[c])
                   /\ Exists(c)' => DistinctRing(channels'[c])
                   /\ DistinctQueue(pending_sends'[c])
<1>1. /\ q \in Seq(PendingOp) /\ n \in Nat
      /\ Exists(c) => ch \in Channel /\ WindowOK(ch)
  BY DEF IpcInv, TypeOK, RingWindows, Exists
<1>2. /\ SharedOut(R, Q, T, D, n) /\ DistinctQueue(q)
      /\ Exists(c) => DistinctRing(ch)
  BY DEF MessagesApart
<1>3. /\ R = IF ch # NoChannel THEN RingBodies(ch) ELSE {}
      /\ InRing(c)' = IF nx # NoChannel THEN RingBodies(nx) ELSE {}
      /\ Q = QueueBodies(q) /\ InQueue(c)' = QueueBodies(r)
      /\ (Exists(c) <=> ch # NoChannel) /\ (Exists(c)' <=> nx # NoChannel)
  BY DEF InRing, InQueue, RingBodies, QueueBodies, Exists
<1>4. /\ Exists(c) /\ ~IsFull(ch) => \A body \in Nat : ChannelSend(ch, body) # NoChannel
      /\ Exists(c) /\ ~IsEmpty(ch) => ChannelReceive(ch) # NoChannel
  BY <1>1, ChannelSendOK, ChannelReceiveOK, OptionAssumption
<1> HIDE DEF R, Q, T, D, n, ch, nx, q, r
<1>5. CASE FlowNone(c)
  <2>1. RingKept(c) /\ r = q /\ taken'[c] = T /\ discarded'[c] = D /\ accepted'[c] = n
    BY <1>5 DEF FlowNone, QueueKept, EndsKept, T, D, n, q, r
  <2>2. InRing(c)' = R /\ (nx # NoChannel => DistinctRing(nx))
    <3>1. CASE nx = ch
      BY <1>2, <1>3, <3>1
    <3>2. CASE Created(c)
      <4>1. PICK s1 \in Process, r1 \in Process : nx = NewChannel(s1, r1)
        BY <3>2 DEF Created, nx
      <4>2. \A i \in SlotIndex : nx.buffer[i] = NoMessage
        BY <4>1 DEF NewChannel
      <4>3. RingBodies(nx) = {} /\ DistinctRing(nx)
        BY <4>2 DEF RingBodies, DistinctRing
      <4>4. ch = NoChannel
        BY <3>2 DEF Created, Exists, ch
      <4> QED
        BY <1>3, <4>3, <4>4
    <3>3. CASE Closed(c)
      <4>1. nx = [ch EXCEPT !.closed = TRUE] /\ ch \in Channel /\ ch # NoChannel
        BY <1>1, <1>3, <3>3 DEF Closed, ch, nx
      <4>2. nx.buffer = ch.buffer /\ nx \in Channel
        BY <4>1 DEF Channel
      <4>3. RingBodies(nx) = RingBodies(ch) /\ (DistinctRing(ch) => DistinctRing(nx))
        BY <4>2 DEF RingBodies, DistinctRing
      <4> QED
        BY <1>2, <1>3, <4>1, <4>2, <4>3, OptionAssumption
    <3> QED
      BY <2>1, <3>1, <3>2, <3>3 DEF RingKept, ch, nx
  <2> QED
    BY <1>2, <1>3, <2>1, <2>2 DEF q, r, nx
<1>6. CASE FlowSend(c)
  <2>1. /\ Exists(c) /\ ~IsFull(ch) /\ nx = ChannelSend(ch, n + 1)
        /\ r = q /\ taken'[c] = T /\ discarded'[c] = D /\ accepted'[c] = n + 1
    BY <1>6 DEF FlowSend, QueueKept, EndsKept, T, D, n, q, r, ch, nx
  <2>2. n + 1 \in Nat /\ n + 1 \notin R /\ SharedOut(R \cup {n + 1}, Q, T, D, n + 1)
    <3>1. n + 1 \notin R /\ SharedOut(R \cup {n + 1}, Q, T, D, n + 1)
      BY <1>1, <1>2, ShareGrows, Zenon
    <3> QED
      BY <1>1, <3>1
  <2>3. RingBodies(nx) = R \cup {n + 1} /\ DistinctRing(nx) /\ nx # NoChannel
    BY <1>1, <1>2, <1>3, <1>4, <2>1, <2>2, SendBodies
  <2> QED
    BY <1>2, <1>3, <2>1, <2>2, <2>3 DEF q, r, nx
<1>7. CASE FlowQueue(c)
  <2>1. /\ nx = ch /\ taken'[c] = T /\ discarded'[c] = D /\ accepted'[c] = n + 1
    BY <1>7 DEF FlowQueue, EndsKept, T, D, n, ch, nx
  <2>2. PICK op \in PendingOp : op.message = n + 1 /\ r = Append(q, op)
    BY <1>7 DEF FlowQueue, n, q, r
  <2>3. n + 1 \notin Q /\ SharedOut(R, Q \cup {n + 1}, T, D, n + 1)
    BY <1>1, <1>2, ShareGrows
  <2>4. BodyOf(op) = {n + 1}
    <3>1. n + 1 # NoMessage
      BY <1>1, OptionAssumption
    <3> QED
      BY <2>2, <3>1 DEF BodyOf
  <2>5. QueueBodies(r) = Q \cup {n + 1} /\ DistinctQueue(r)
    BY <1>1, <1>2, <1>3, <2>2, <2>3, <2>4, QueueBodiesAppend
  <2> QED
    BY <1>2, <1>3, <2>1, <2>3, <2>5 DEF r, nx
<1>8. CASE FlowMove(c)
  <2>1. Exists(c) /\ ~IsFull(ch) /\ taken'[c] = T /\ discarded'[c] = D /\ accepted'[c] = n
    BY <1>8 DEF FlowMove, EndsKept, T, D, n, ch
  <2>2. PICK i \in 1 .. Len(q) :
           q[i].message # NoMessage /\ nx = ChannelSend(ch, q[i].message) /\ r = RemoveAt(q, i)
    BY <1>8 DEF FlowMove, q, r, ch, nx
  <2> DEFINE b == q[i].message
  <2>3. b \in Nat /\ BodyOf(q[i]) = {b}
    BY <1>1, <2>2, PendingOpFields DEF BodyOf
  <2> HIDE DEF b
  <2>4. {b} \subseteq Q /\ QueueBodies(r) = Q \ {b} /\ DistinctQueue(r)
    BY <1>1, <1>2, <1>3, <2>2, <2>3, QueueBodiesRemove
  <2>5. SharedOut(R \cup {b}, Q \ {b}, T, D, n) /\ b \notin R
    <3>1. PICK B : B = {b}
      OBVIOUS
    <3>2. B \subseteq Q
      BY <2>4, <3>1
    <3>3. SharedOut(R \cup B, Q \ B, T, D, n) /\ B \cap R = {}
      BY <1>1, <1>2, <3>2, ShareMoves
    <3> QED
      BY <3>1, <3>3
  <2>6. RingBodies(nx) = R \cup {b} /\ DistinctRing(nx) /\ nx # NoChannel
    BY <1>1, <1>2, <1>3, <1>4, <2>1, <2>2, <2>3, <2>5, SendBodies DEF b
  <2> QED
    BY <1>3, <2>1, <2>4, <2>5, <2>6 DEF r, nx
<1>9. CASE FlowTake(c)
  <2> DEFINE b == Oldest(ch).body
  <2>1. /\ Exists(c) /\ ~IsEmpty(ch) /\ nx = ChannelReceive(ch) /\ r = q /\ accepted'[c] = n
        /\ \/ taken'[c] = T \cup {b} /\ discarded'[c] = D
           \/ taken'[c] = T /\ discarded'[c] = D \cup {b}
    BY <1>9 DEF FlowTake, QueueKept, T, D, n, q, r, ch, nx
  <2> HIDE DEF b
  <2>2. {b} \subseteq R /\ RingBodies(nx) = R \ {b} /\ DistinctRing(nx) /\ nx # NoChannel
    BY <1>1, <1>2, <1>3, <1>4, <2>1, ReceiveBodies DEF b
  <2>3. SharedOut(R \ {b}, Q, T \cup {b}, D, n) /\ SharedOut(R \ {b}, Q, T, D \cup {b}, n)
    <3>1. PICK B : B = {b}
      OBVIOUS
    <3>2. B \subseteq R
      BY <2>2, <3>1
    <3>3. SharedOut(R \ B, Q, T \cup B, D, n) /\ SharedOut(R \ B, Q, T, D \cup B, n)
      BY <1>1, <1>2, <3>2, ShareMoves
    <3> QED
      BY <3>1, <3>3
  <2> QED
    BY <1>2, <1>3, <2>1, <2>2, <2>3 DEF q, r, nx
<1>10. CASE FlowDrop(c)
  <2>1. nx = ch /\ taken'[c] = T /\ accepted'[c] = n
    BY <1>10 DEF FlowDrop, T, n, ch, nx
  <2>2. PICK i \in 1 .. Len(q) :
           /\ discarded'[c] = D \cup BodyOf(q[i])
           /\ r = RemoveAt(q, i) \/ r = [q EXCEPT ![i] = Stripped(q[i])]
    BY <1>10 DEF FlowDrop, q, r, D
  <2> DEFINE B == BodyOf(q[i])
  <2>3. B \subseteq Q
    BY <1>1, <1>2, <1>3, QueueBodiesRemove
  <2>4. QueueBodies(r) = Q \ B /\ DistinctQueue(r)
    BY <1>1, <1>2, <1>3, <2>2, QueueBodiesRemove, QueueBodiesStrip
  <2> HIDE DEF B
  <2>5. SharedOut(R, Q \ B, T, D \cup B, n)
    BY <1>1, <1>2, <2>3, ShareMoves
  <2> QED
    BY <1>2, <1>3, <2>1, <2>2, <2>4, <2>5 DEF r, nx, B
<1> QED
  BY <1>5, <1>6, <1>7, <1>8, <1>9, <1>10 DEF Flow

\* Every message accepted is in exactly one place, for every number of channels,
\* processes, messages and queued operations: nothing that process_pending,
\* cancel_pending and the calls do in any order duplicates or loses one.
THEOREM MessagesConserved == Spec => []Conservation
<1>1. Init => MessagesApart
  <2> SUFFICES ASSUME Init, NEW c \in ChannelId
               PROVE  /\ SharedOut(InRing(c), InQueue(c), taken[c], discarded[c], accepted[c])
                      /\ Exists(c) => DistinctRing(channels[c])
                      /\ DistinctQueue(pending_sends[c])
    BY DEF MessagesApart
  <2>1. /\ ~Exists(c) /\ pending_sends[c] = <<>> /\ taken[c] = {} /\ discarded[c] = {}
        /\ accepted[c] = 0
    BY DEF Init, Exists
  <2>2. 1 .. Len(<<>>) = {} /\ 1 .. 0 = {}
    OBVIOUS
  <2>3. InRing(c) = {} /\ InQueue(c) = {} /\ DistinctQueue(pending_sends[c])
    BY <2>1, <2>2 DEF InRing, InQueue, DistinctQueue
  <2> QED
    BY <2>1, <2>2, <2>3 DEF SharedOut
<1>2. IpcInv /\ MessagesApart /\ [Next]_vars => MessagesApart'
  <2> SUFFICES ASSUME IpcInv, MessagesApart, [Next]_vars PROVE MessagesApart'
    OBVIOUS
  <2>1. \A c \in ChannelId : Flow(c)
    BY StepFlows DEF Flows
  <2>2. \A c \in ChannelId :
           /\ SharedOut(InRing(c)', InQueue(c)', taken'[c], discarded'[c], accepted'[c])
           /\ Exists(c)' => DistinctRing(channels'[c])
           /\ DistinctQueue(pending_sends'[c])
    BY <2>1, FlowShares
  <2> QED
    BY <2>2 DEF MessagesApart, SharedOut, DistinctRing, DistinctQueue, BodyOf
<1>3. IpcInv /\ MessagesApart => Conservation
  <2> SUFFICES ASSUME IpcInv, MessagesApart, NEW c \in ChannelId
               PROVE  /\ InRing(c) \cup InQueue(c) \cup taken[c] \cup discarded[c] = 1 .. accepted[c]
                      /\ Cardinality(InRing(c)) + Cardinality(InQueue(c)) + Cardinality(taken[c])
                           + Cardinality(discarded[c]) = accepted[c]
    BY DEF Conservation
  <2>1. accepted[c] \in Nat
    BY DEF IpcInv, TypeOK
  <2>2. SharedOut(InRing(c), InQueue(c), taken[c], discarded[c], accepted[c])
    BY DEF MessagesApart
  <2>3. Cardinality(InRing(c)) + Cardinality(InQueue(c)) + Cardinality(taken[c])
           + Cardinality(discarded[c]) = accepted[c]
    BY <2>1, <2>2, SharedOutCounts
  <2> QED
    BY <2>2, <2>3 DEF SharedOut
<1> QED
  BY <1>1, <1>2, <1>3, IpcInvariant, PTL DEF Spec

================================================================================
