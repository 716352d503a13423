------------------------------- MODULE SpscRing --------------------------------
(***************************************************************************)
(* SpscRing of kernel/src/ipc/fastpath.rs: the lock-free ring under every  *)
(* FastEndpoint.  One producer runs try_send, one consumer runs try_recv,  *)
(* without a lock; a step is what lies between two accesses to shared      *)
(* memory.  Positions are machine words that wrap at Word; the slot of a   *)
(* position is its remainder by Size.  The Acquire loads and Release       *)
(* stores of the code order the slot accesses as written here.             *)
(***************************************************************************)
EXTENDS Integers, Sequences

CONSTANTS
    Message,    \* messages a client may send
    NoMessage,  \* content of a slot that was never written
    Size,       \* RING_BUFFER_SIZE
    Word        \* number of values of a position (2^64 in the build)

\* The mask `pos & (SIZE - 1)` is a remainder because Size divides the word.
ASSUME RingAssumption ==
    /\ Size \in Nat /\ Size > 0
    /\ Word \in Nat /\ Word > Size /\ Word % Size = 0
    /\ NoMessage \notin Message

VARIABLES
    slots,      \* UnsafeCell<[FastMessage; SIZE]>
    write_pos,  \* AtomicUsize, stored by the producer only
    read_pos,   \* AtomicUsize, stored by the consumer only
    sender,     \* where the producer is, and its locals write, read, msg
    receiver,   \* where the consumer is, and its locals read, write, msg
    got         \* what try_recv returned last

vars == <<slots, write_pos, read_pos, sender, receiver, got>>

--------------------------------------------------------------------------------
(* Word arithmetic *)

Position == 0 .. Word - 1
Slot == 0 .. Size - 1

WrappingAdd1(p) == (p + 1) % Word

\* Wrong variant: saturating_sub in place of wrapping_sub.
SaturatingSub(p, q) == IF p >= q THEN p - q ELSE 0

WrappingSub(p, q) == (p - q) % Word
SlotOf(p) == p % Size

Locals == [pc : {"idle", "loaded", "accessed"},
           write : Position, read : Position, msg : Message \cup {NoMessage}]

Idle == [pc |-> "idle", write |-> 0, read |-> 0, msg |-> NoMessage]

\* Wrong variant: off by one.
SenderSeesOverfull == WrappingSub(sender.write, sender.read) > Size

SenderSeesFull == WrappingSub(sender.write, sender.read) >= Size

\* Wrong variant: masked positions are compared, so a full ring looks empty.
ReceiverSeesSameSlot == SlotOf(receiver.read) = SlotOf(receiver.write)

ReceiverSeesEmpty == receiver.read = receiver.write

--------------------------------------------------------------------------------

Init ==
    /\ slots = [s \in Slot |-> NoMessage]
    /\ write_pos = 0
    /\ read_pos = 0
    /\ sender = Idle
    /\ receiver = Idle
    /\ got = NoMessage

(* try_send: load both positions, the other end's with Acquire *)
SendLoad(m) ==
    /\ sender.pc = "idle"
    /\ sender' = [pc |-> "loaded", write |-> write_pos, read |-> read_pos, msg |-> m]
    /\ UNCHANGED <<slots, write_pos, read_pos, receiver, got>>

(* the ring looked full: Err(msg), nothing written *)
SendFull ==
    /\ sender.pc = "loaded"
    /\ SenderSeesFull
    /\ sender' = Idle
    /\ UNCHANGED <<slots, write_pos, read_pos, receiver, got>>

SendWrite ==
    /\ sender.pc = "loaded"
    /\ ~SenderSeesFull
    /\ slots' = [slots EXCEPT ![SlotOf(sender.write)] = sender.msg]
    /\ sender' = [sender EXCEPT !.pc = "accessed"]
    /\ UNCHANGED <<write_pos, read_pos, receiver, got>>

(* the Release store that publishes the slot: Ok(()) *)
SendPublish ==
    /\ sender.pc = "accessed"
    /\ write_pos' = WrappingAdd1(sender.write)
    /\ sender' = Idle
    /\ UNCHANGED <<slots, read_pos, receiver, got>>

(* try_recv *)
RecvLoad ==
    /\ receiver.pc = "idle"
    /\ receiver' = [pc |-> "loaded", read |-> read_pos, write |-> write_pos, msg |-> NoMessage]
    /\ UNCHANGED <<slots, write_pos, read_pos, sender, got>>

(* the ring looked empty: None *)
RecvEmpty ==
    /\ receiver.pc = "loaded"
    /\ ReceiverSeesEmpty
    /\ receiver' = Idle
    /\ UNCHANGED <<slots, write_pos, read_pos, sender, got>>

(* the message is copied out of its slot *)
RecvRead ==
    /\ receiver.pc = "loaded"
    /\ ~ReceiverSeesEmpty
    /\ receiver' = [receiver EXCEPT !.pc = "accessed", !.msg = slots[SlotOf(receiver.read)]]
    /\ UNCHANGED <<slots, write_pos, read_pos, sender, got>>

\* Wrong variant: the read position jumps to the write position that was loaded.
RecvReleaseAll ==
    /\ receiver.pc = "accessed"
    /\ read_pos' = receiver.write
    /\ got' = receiver.msg
    /\ receiver' = Idle
    /\ UNCHANGED <<slots, write_pos, sender>>

(* the Release store that gives the slot back: Some(msg) *)
RecvRelease ==
    /\ receiver.pc = "accessed"
    /\ read_pos' = WrappingAdd1(receiver.read)
    /\ got' = receiver.msg
    /\ receiver' = Idle
    /\ UNCHANGED <<slots, write_pos, sender>>

TrySend == (\E m \in Message : SendLoad(m)) \/ SendFull \/ SendWrite \/ SendPublish
RecvGoesOn == RecvEmpty \/ RecvRead \/ RecvRelease
TryRecv == RecvLoad \/ RecvGoesOn

Next == TrySend \/ TryRecv

Spec == Init /\ [][Next]_vars

(* A try_recv that has begun goes on, for nothing in it waits.  Nobody has *)
(* to call it: FastEndpoint::call gives up after a million spins, and recv *)
(* is called when its user likes.                                          *)
FairSpec == Spec /\ WF_vars(RecvGoesOn)

--------------------------------------------------------------------------------
(* Properties *)

TypeOK ==
    /\ slots \in [Slot -> Message \cup {NoMessage}]
    /\ write_pos \in Position
    /\ read_pos \in Position
    /\ sender \in Locals
    /\ receiver \in Locals
    /\ got \in Message \cup {NoMessage}

\* How many published messages wait in the ring.
Held == WrappingSub(write_pos, read_pos)

\* The producer never stands ready to write the slot the consumer stands ready
\* to copy: the unsynchronised accesses of fastpath.rs:166 and :190 never
\* touch the same slot, whatever stale position either end has loaded.
NoSlotRace ==
    (sender.pc = "loaded" /\ ~SenderSeesFull /\ receiver.pc = "loaded" /\ ~ReceiverSeesEmpty)
        => SlotOf(sender.write) # SlotOf(receiver.read)

\* The slots between the two positions hold messages that were sent, and the
\* write position is Held slots past the read position.
RingWindow ==
    /\ Held <= Size
    /\ SlotOf(write_pos) = (SlotOf(read_pos) + Held) % Size
    /\ \A i \in 0 .. Size - 1 :
          i < Held => slots[(SlotOf(read_pos) + i) % Size] \in Message

\* What the producer knows: its own position exactly, the consumer's from the
\* past, so it overestimates what the ring holds; the slot it has filled is the
\* one past the window.
SenderView ==
    sender.pc # "idle" =>
        /\ sender.msg \in Message
        /\ sender.write = write_pos
        /\ Held <= WrappingSub(write_pos, sender.read)
        /\ WrappingSub(write_pos, sender.read) <= Size
        /\ sender.pc = "accessed" =>
              Held < Size /\ slots[SlotOf(write_pos)] = sender.msg

\* What the consumer knows: its own position exactly, the producer's from the
\* past, so it underestimates what the ring holds; the copy it has made is still
\* the content of the oldest slot.
ReceiverView ==
    receiver.pc # "idle" =>
        /\ receiver.read = read_pos
        /\ WrappingSub(receiver.write, read_pos) <= Held
        /\ receiver.pc = "accessed" =>
              Held > 0 /\ receiver.msg = slots[SlotOf(read_pos)]

\* Stale positions only ever err on the safe side: the producer reuses no slot
\* before the read position has moved past it (fastpath.rs:158-166), and the
\* consumer returns no slot's content before it was published (:183-190).  This
\* is the inductive invariant of the ring.
RingInv == TypeOK /\ RingWindow /\ SenderView /\ ReceiverView

\* The published messages, oldest first.
Published == [i \in 1 .. Held |-> slots[(SlotOf(read_pos) + i - 1) % Size]]

Fifo == INSTANCE BoundedFifo WITH queue <- Published, Capacity <- Size

\* The ring is a bounded FIFO: the store to write_pos puts a message at the
\* tail, the store to read_pos takes the head, no other step is visible, and
\* there are never more than Size messages between them.
RefinesFifo == Fifo!Spec

\* If the consumer calls try_recv again and again, a full ring is drained below its
\* capacity: its calls are not answered None for ever on positions loaded earlier
\* or positions that look alike (fastpath.rs:183-187).
FullRingDrains ==
    []<>(receiver.pc = "loaded") => ((Held = Size) ~> (Held < Size))

================================================================================
