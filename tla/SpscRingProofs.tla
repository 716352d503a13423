----------------------------- MODULE SpscRingProofs ----------------------------
(***************************************************************************)
(* For every ring size and every word size that is a multiple of it: the   *)
(* lock-free ring keeps RingInv, so its two ends never race for a slot,    *)
(* and it implements the bounded FIFO.                                     *)
(***************************************************************************)
EXTENDS SpscRing, TLAPS

--------------------------------------------------------------------------------
(* Remainders, for every modulus *)

\* The remainder of a number written as a multiple plus a small rest.
LEMMA RemainderUnique ==
    ASSUME NEW n \in Nat, n > 0, NEW q \in Int, NEW r \in 0 .. n - 1
    PROVE  (n * q + r) % n = r
<1>1. PICK a \in Int : a = n * q + r
  OBVIOUS
<1>2. a = n * (a \div n) + (a % n) /\ a % n \in 0 .. n - 1 /\ a \div n \in Int
  OBVIOUS
<1>3. n * (q - (a \div n)) = (a % n) - r
  BY <1>1, <1>2
<1> QED
  BY <1>1, <1>2, <1>3

\* Advancing by one advances the remainder by one, or wraps it to zero.
LEMMA RemainderSucc ==
    ASSUME NEW n \in Nat, n > 0, NEW p \in Nat
    PROVE  /\ p % n \in 0 .. n - 1
           /\ (p + 1) % n = IF (p % n) + 1 = n THEN 0 ELSE (p % n) + 1
<1> DEFINE q == p \div n
           r == p % n
<1>1. q \in Int /\ r \in 0 .. n - 1 /\ p = n * q + r
  OBVIOUS
<1> HIDE DEF q, r
<1>2. CASE r + 1 = n
  <2>1. p + 1 = n * (q + 1) + 0
    BY <1>1, <1>2
  <2>2. (n * (q + 1) + 0) % n = 0
    BY <1>1, RemainderUnique
  <2> QED
    BY <1>1, <1>2, <2>1, <2>2 DEF r
<1>3. CASE r + 1 # n
  <2>1. p + 1 = n * q + (r + 1) /\ r + 1 \in 0 .. n - 1
    BY <1>1, <1>3
  <2>2. (n * q + (r + 1)) % n = r + 1
    BY <1>1, <2>1, RemainderUnique
  <2> QED
    BY <1>1, <1>3, <2>1, <2>2 DEF r
<1> QED
  BY <1>2, <1>3

\* A position below the modulus that advances by one.
LEMMA PositionSucc ==
    ASSUME NEW n \in Nat, n > 0, NEW p \in 0 .. n - 1
    PROVE  (p + 1) % n = IF p + 1 = n THEN 0 ELSE p + 1
  OBVIOUS

\* The distance from one position to another, backwards wrapping around.
LEMMA PositionDistance ==
    ASSUME NEW n \in Nat, n > 0, NEW p \in 0 .. n - 1, NEW q \in 0 .. n - 1
    PROVE  (p - q) % n = IF p >= q THEN p - q ELSE p - q + n
  OBVIOUS

\* The slot that lies a given number of slots, at most a whole turn, ahead.
LEMMA PositionAhead ==
    ASSUME NEW n \in Nat, n > 0, NEW p \in 0 .. n - 1, NEW k \in 0 .. n
    PROVE  (p + k) % n = IF p + k < n THEN p + k ELSE p + k - n
<1>1. CASE p + k < n
  BY <1>1
<1>2. CASE ~(p + k < n)
  <2>1. p + k - n \in 0 .. n - 1 /\ p + k = n * 1 + (p + k - n)
    BY <1>2
  <2>2. (n * 1 + (p + k - n)) % n = p + k - n
    BY <2>1, RemainderUnique
  <2> QED
    BY <1>2, <2>1, <2>2
<1> QED
  BY <1>1, <1>2

--------------------------------------------------------------------------------
(* Positions and slots, without remainders *)

\* Where a position goes when it advances, and its slot with it.
LEMMA Advance ==
    ASSUME NEW p \in Position
    PROVE  /\ WrappingAdd1(p) \in Position
           /\ WrappingAdd1(p) = IF p + 1 = Word THEN 0 ELSE p + 1
           /\ SlotOf(p) \in Slot
           /\ SlotOf(WrappingAdd1(p)) = IF SlotOf(p) + 1 = Size THEN 0 ELSE SlotOf(p) + 1
<1> USE RingAssumption
<1>1. p \in Nat /\ p \in 0 .. Word - 1 /\ Word > 0
  BY DEF Position
<1>2. (p + 1) % Word = IF p + 1 = Word THEN 0 ELSE p + 1
  BY <1>1, PositionSucc
<1>3. /\ p % Size \in 0 .. Size - 1
      /\ (p + 1) % Size = IF (p % Size) + 1 = Size THEN 0 ELSE (p % Size) + 1
  BY <1>1, RemainderSucc
<1>4. 0 % Size = 0
  BY PositionSucc
<1>5. ((p + 1) % Word) % Size = (p + 1) % Size
  <2>1. CASE p + 1 = Word
    BY <1>2, <1>4, <2>1
  <2>2. CASE p + 1 # Word
    BY <1>2, <2>2
  <2> QED
    BY <2>1, <2>2
<1> QED
  BY <1>1, <1>2, <1>3, <1>5 DEF Position, Slot, WrappingAdd1, SlotOf

\* The distance between two positions.
LEMMA Distance ==
    ASSUME NEW p \in Position, NEW q \in Position
    PROVE  /\ WrappingSub(p, q) \in Position
           /\ WrappingSub(p, q) = IF p >= q THEN p - q ELSE p - q + Word
<1>1. (p - q) % Word = IF p >= q THEN p - q ELSE p - q + Word
  BY RingAssumption, PositionDistance DEF Position
<1> QED
  BY <1>1, RingAssumption DEF Position, WrappingSub

\* The slot a number of slots ahead of another, at most a whole turn.
LEMMA Ahead ==
    ASSUME NEW s \in Slot, NEW k \in 0 .. Size
    PROVE  /\ (s + k) % Size \in Slot
           /\ (s + k) % Size = IF s + k < Size THEN s + k ELSE s + k - Size
<1>1. (s + k) % Size = IF s + k < Size THEN s + k ELSE s + k - Size
  BY RingAssumption, PositionAhead DEF Slot
<1> QED
  BY <1>1, RingAssumption DEF Slot

\* Publishing makes the ring hold one message more, releasing one less; what
\* either end has loaded stays a bound.
LEMMA HeldAfterPublish ==
    ASSUME NEW w \in Position, NEW r \in Position, WrappingSub(w, r) < Size
    PROVE  WrappingSub(WrappingAdd1(w), r) = WrappingSub(w, r) + 1
<1>1. WrappingAdd1(w) \in Position /\ WrappingAdd1(w) = IF w + 1 = Word THEN 0 ELSE w + 1
  BY Advance
<1>2. WrappingSub(w, r) = IF w >= r THEN w - r ELSE w - r + Word
  BY Distance
<1>3. WrappingSub(WrappingAdd1(w), r)
        = IF WrappingAdd1(w) >= r THEN WrappingAdd1(w) - r ELSE WrappingAdd1(w) - r + Word
  BY <1>1, Distance
<1> QED
  BY <1>1, <1>2, <1>3, RingAssumption DEF Position

LEMMA HeldAfterRelease ==
    ASSUME NEW w \in Position, NEW r \in Position, WrappingSub(w, r) > 0
    PROVE  WrappingSub(w, WrappingAdd1(r)) = WrappingSub(w, r) - 1
<1>1. WrappingAdd1(r) \in Position /\ WrappingAdd1(r) = IF r + 1 = Word THEN 0 ELSE r + 1
  BY Advance
<1>2. WrappingSub(w, r) = IF w >= r THEN w - r ELSE w - r + Word
  BY Distance
<1>3. WrappingSub(w, WrappingAdd1(r))
        = IF w >= WrappingAdd1(r) THEN w - WrappingAdd1(r) ELSE w - WrappingAdd1(r) + Word
  BY <1>1, Distance
<1> QED
  BY <1>1, <1>2, <1>3, RingAssumption DEF Position

--------------------------------------------------------------------------------
(* The inductive invariant *)

LEMMA InitRingInv == Init => RingInv
<1> SUFFICES ASSUME Init PROVE RingInv
  OBVIOUS
<1>1. 0 \in Position /\ 0 \in Slot
  BY RingAssumption DEF Position, Slot
<1>2. WrappingSub(0, 0) = 0 /\ SlotOf(0) \in Slot
  BY <1>1, Distance, Advance DEF Position
<1>3. SlotOf(0) = (SlotOf(0) + 0) % Size
  BY <1>2, Ahead, RingAssumption DEF Slot
<1>4. TypeOK
  BY <1>1 DEF Init, TypeOK, Locals, Idle
<1>5. Held = 0
  BY <1>2 DEF Init, Held
<1>6. RingWindow
  BY <1>3, <1>5, RingAssumption DEF Init, RingWindow
<1> QED
  BY <1>4, <1>6 DEF Init, RingInv, SenderView, ReceiverView, Idle

\* The facts about positions that every step of the induction needs.
LEMMA RingShape ==
    ASSUME TypeOK, RingWindow
    PROVE  /\ Held \in Nat /\ Held <= Size
           /\ SlotOf(read_pos) \in Slot /\ SlotOf(write_pos) \in Slot
           /\ SlotOf(write_pos) = (SlotOf(read_pos) + Held) % Size
  BY Advance, Distance, RingAssumption DEF TypeOK, RingWindow, Held, Position

\* TypeOK is preserved by every step.
LEMMA TypeStep ==
    ASSUME RingInv, [Next]_vars
    PROVE  TypeOK'
<1> USE DEF RingInv, TypeOK, Locals
<1>0. Idle \in Locals
  BY RingAssumption DEF Idle, Position
<1>1. ASSUME NEW m \in Message, SendLoad(m) PROVE TypeOK'
  BY <1>1 DEF SendLoad
<1>2. CASE SendFull
  BY <1>0, <1>2 DEF SendFull
<1>3. CASE SendWrite
  <2>1. SlotOf(sender.write) \in Slot
    BY Advance
  <2> QED
    BY <1>3, <2>1 DEF SendWrite
<1>4. CASE SendPublish
  BY <1>0, <1>4, Advance DEF SendPublish
<1>5. CASE RecvLoad
  BY <1>5 DEF RecvLoad
<1>6. CASE RecvEmpty
  BY <1>0, <1>6 DEF RecvEmpty
<1>7. CASE RecvRead
  <2>1. SlotOf(receiver.read) \in Slot
    BY Advance
  <2> QED
    BY <1>7, <2>1 DEF RecvRead
<1>8. CASE RecvRelease
  BY <1>0, <1>8, Advance DEF RecvRelease
<1>9. CASE UNCHANGED vars
  BY <1>9 DEF vars
<1> QED
  BY <1>1, <1>2, <1>3, <1>4, <1>5, <1>6, <1>7, <1>8, <1>9 DEF Next, TrySend, TryRecv, RecvGoesOn

\* Two different slots of the window, or a slot of it and the one past it, are
\* different slots of the ring.
LEMMA SlotsDistinct ==
    ASSUME NEW s \in Slot, NEW i \in 0 .. Size - 1, NEW j \in 0 .. Size - 1, i # j
    PROVE  (s + i) % Size # (s + j) % Size
  BY Ahead, RingAssumption DEF Slot

\* Every step but the write and the two stores leaves the ring as it is.
LEMMA WindowStep ==
    ASSUME RingInv, [Next]_vars
    PROVE  RingWindow'
<1> DEFINE r == SlotOf(read_pos)
<1>0. /\ Held \in Nat /\ Held <= Size /\ r \in Slot /\ SlotOf(write_pos) \in Slot
      /\ SlotOf(write_pos) = (r + Held) % Size
  BY RingShape DEF RingInv
<1>1. CASE UNCHANGED <<slots, write_pos, read_pos>>
  BY <1>1 DEF RingInv, RingWindow, Held
<1>2. CASE SendWrite
  <2>1. sender.write = write_pos /\ Held < Size
    <3>1. sender.write \in Position /\ sender.read \in Position
      BY DEF RingInv, TypeOK, Locals
    <3>2. WrappingSub(sender.write, sender.read) \in Position
      BY <3>1, Distance
    <3> QED
      BY <1>0, <1>2, <3>2, RingAssumption DEF Position, SendWrite, SenderSeesFull, RingInv, SenderView
  <2>2. ASSUME NEW i \in 0 .. Size - 1, i < Held
        PROVE  slots'[(r + i) % Size] \in Message
    <3>1. (r + i) % Size # SlotOf(write_pos)
      BY <1>0, <2>1, <2>2, SlotsDistinct, RingAssumption
    <3>2. (r + i) % Size \in Slot
      BY <1>0, Ahead, RingAssumption
    <3> QED
      BY <1>2, <2>1, <2>2, <3>1, <3>2 DEF SendWrite, RingInv, RingWindow, TypeOK
  <2> QED
    BY <1>2, <2>2 DEF SendWrite, RingInv, RingWindow, Held
<1>3. CASE SendPublish
  <2>1. /\ sender.write = write_pos /\ Held < Size /\ sender.msg \in Message
        /\ slots[SlotOf(write_pos)] = sender.msg
    BY <1>3 DEF SendPublish, RingInv, SenderView
  <2>2. write_pos \in Position /\ read_pos \in Position /\ write_pos' = WrappingAdd1(write_pos)
    BY <1>3, <2>1 DEF SendPublish, RingInv, TypeOK
  <2>3. Held' = Held + 1
    BY <1>3, <2>1, <2>2, HeldAfterPublish DEF SendPublish, Held
  <2>4. SlotOf(write_pos)' = IF SlotOf(write_pos) + 1 = Size THEN 0 ELSE SlotOf(write_pos) + 1
    BY <2>2, Advance DEF SlotOf
  <2>5. SlotOf(write_pos)' = (r + Held') % Size
    BY <1>0, <2>1, <2>3, <2>4, Ahead, RingAssumption DEF Slot
  <2>6. ASSUME NEW i \in 0 .. Size - 1, i < Held'
        PROVE  slots[(r + i) % Size] \in Message
    BY <1>0, <2>1, <2>3, <2>6, RingAssumption DEF RingInv, RingWindow
  <2> QED
    BY <1>0, <1>3, <2>1, <2>3, <2>5, <2>6, RingAssumption DEF SendPublish, RingWindow, SlotOf
<1>4. CASE RecvRelease
  <2>1. receiver.read = read_pos /\ Held > 0
    BY <1>4 DEF RecvRelease, RingInv, ReceiverView
  <2>2. write_pos \in Position /\ read_pos \in Position /\ read_pos' = WrappingAdd1(read_pos)
    BY <1>4, <2>1 DEF RecvRelease, RingInv, TypeOK
  <2>3. Held' = Held - 1
    BY <1>4, <2>1, <2>2, HeldAfterRelease DEF RecvRelease, Held
  <2>4. r' = IF r + 1 = Size THEN 0 ELSE r + 1
    BY <2>2, Advance
  <2>5. r' \in Slot
    BY <1>0, <2>4, RingAssumption DEF Slot
  <2>6. SlotOf(write_pos) = (r' + Held') % Size
    <3>1. (r + Held) % Size = IF r + Held < Size THEN r + Held ELSE r + Held - Size
      BY <1>0, Ahead, RingAssumption
    <3>2. Held' \in 0 .. Size
      BY <1>0, <2>1, <2>3, RingAssumption
    <3>3. (r' + Held') % Size = IF r' + Held' < Size THEN r' + Held' ELSE r' + Held' - Size
      BY <2>5, <3>2, Ahead
    <3> HIDE DEF r
    <3> QED
      BY <1>0, <2>1, <2>3, <2>4, <3>1, <3>3, RingAssumption DEF Slot
  <2>7. ASSUME NEW i \in 0 .. Size - 1, i < Held'
        PROVE  slots[(r' + i) % Size] \in Message
    <3>1. i + 1 \in 0 .. Size - 1 /\ i + 1 < Held
      BY <1>0, <2>3, <2>7, RingAssumption
    <3>2. (r + (i + 1)) % Size = IF r + (i + 1) < Size THEN r + (i + 1) ELSE r + (i + 1) - Size
      BY <1>0, <3>1, Ahead, RingAssumption
    <3>3. (r' + i) % Size = IF r' + i < Size THEN r' + i ELSE r' + i - Size
      BY <2>5, Ahead, RingAssumption
    <3>4. (r' + i) % Size = (r + (i + 1)) % Size
      <4> HIDE DEF r
      <4> QED BY <1>0, <2>4, <3>2, <3>3, RingAssumption DEF Slot
    <3> QED
      BY <3>1, <3>4 DEF RingInv, RingWindow
  <2> QED
    BY <1>0, <1>4, <2>1, <2>3, <2>6, <2>7, RingAssumption DEF RecvRelease, RingWindow
<1> QED
  BY <1>1, <1>2, <1>3, <1>4
  DEF Next, TrySend, TryRecv, RecvGoesOn, SendLoad, SendFull, RecvLoad, RecvEmpty, RecvRead, vars

\* The producer's view survives the consumer's steps because releasing a slot
\* only lowers what the ring holds.
LEMMA SenderViewStep ==
    ASSUME RingInv, [Next]_vars
    PROVE  SenderView'
<1>0. /\ Held \in Nat /\ Held <= Size /\ SlotOf(read_pos) \in Slot /\ SlotOf(write_pos) \in Slot
      /\ SlotOf(write_pos) = (SlotOf(read_pos) + Held) % Size
  BY RingShape DEF RingInv
<1>1. ASSUME NEW m \in Message, SendLoad(m) PROVE SenderView'
  BY <1>0, <1>1 DEF SendLoad, SenderView, Held
<1>2. CASE SendWrite
  <2>1. sender.write = write_pos /\ SlotOf(write_pos) \in Slot
    BY <1>0, <1>2 DEF SendWrite, RingInv, SenderView
  <2>2. Held < Size
    <3>1. sender.write \in Position /\ sender.read \in Position
      BY DEF RingInv, TypeOK, Locals
    <3>2. WrappingSub(sender.write, sender.read) \in Position
      BY <3>1, Distance
    <3> QED
      BY <1>0, <1>2, <3>2, RingAssumption
      DEF Position, SendWrite, SenderSeesFull, RingInv, SenderView
  <2>3. slots'[SlotOf(write_pos)] = sender.msg
    BY <1>2, <2>1 DEF SendWrite, RingInv, TypeOK
  <2>4. sender' = [sender EXCEPT !.pc = "accessed"] /\ sender \in Locals
    BY <1>2 DEF SendWrite, RingInv, TypeOK
  <2> QED
    BY <1>2, <2>1, <2>2, <2>3, <2>4 DEF SendWrite, RingInv, SenderView, Held, Locals
<1>3. CASE SendFull \/ SendPublish
  BY <1>3 DEF SendFull, SendPublish, SenderView, Idle
<1>4. CASE RecvRelease
  <2>1. receiver.read = read_pos /\ Held > 0
    BY <1>4 DEF RecvRelease, RingInv, ReceiverView
  <2>2. write_pos \in Position /\ read_pos \in Position /\ read_pos' = WrappingAdd1(read_pos)
    BY <1>4, <2>1 DEF RecvRelease, RingInv, TypeOK
  <2>3. Held' = Held - 1
    BY <1>4, <2>1, <2>2, HeldAfterRelease DEF RecvRelease, Held
  <2>4. sender.read \in Position
    BY DEF RingInv, TypeOK, Locals
  <2>5. WrappingSub(write_pos, sender.read) \in Position
    BY <2>2, <2>4, Distance
  <2> QED
    BY <1>0, <1>4, <2>3, <2>5, RingAssumption DEF RecvRelease, RingInv, SenderView, Position
<1>5. CASE UNCHANGED <<slots, write_pos, read_pos, sender>>
  BY <1>5 DEF RingInv, SenderView, Held
<1> QED
  BY <1>1, <1>2, <1>3, <1>4, <1>5
  DEF Next, TrySend, TryRecv, RecvGoesOn, RecvLoad, RecvEmpty, RecvRead, vars

\* The consumer's view survives the producer's steps because publishing only
\* raises what the ring holds, and because the producer fills no slot of the
\* window.
LEMMA ReceiverViewStep ==
    ASSUME RingInv, [Next]_vars
    PROVE  ReceiverView'
<1>0. /\ Held \in Nat /\ Held <= Size /\ SlotOf(read_pos) \in Slot /\ SlotOf(write_pos) \in Slot
      /\ SlotOf(write_pos) = (SlotOf(read_pos) + Held) % Size
  BY RingShape DEF RingInv
<1>1. CASE RecvLoad
  BY <1>0, <1>1 DEF RecvLoad, ReceiverView, Held
<1>2. CASE RecvRead
  <2>1. receiver.read \in Position /\ receiver.write \in Position /\ receiver.read = read_pos
    BY <1>2 DEF RecvRead, RingInv, TypeOK, Locals, ReceiverView
  <2>2. /\ WrappingSub(receiver.write, read_pos) \in Position
        /\ WrappingSub(receiver.write, read_pos) =
             IF receiver.write >= read_pos THEN receiver.write - read_pos
                                           ELSE receiver.write - read_pos + Word
    BY <2>1, Distance
  <2>3. WrappingSub(receiver.write, read_pos) > 0
    BY <1>2, <2>1, <2>2, RingAssumption DEF RecvRead, ReceiverSeesEmpty, Position
  <2>4. Held > 0
    BY <1>0, <1>2, <2>2, <2>3, RingAssumption DEF RecvRead, RingInv, ReceiverView, Position
  <2>5. receiver \in Locals
    BY DEF RingInv, TypeOK
  <2> QED
    BY <1>2, <2>1, <2>4, <2>5 DEF RecvRead, RingInv, ReceiverView, Held, Locals
<1>3. CASE RecvEmpty \/ RecvRelease
  BY <1>3 DEF RecvEmpty, RecvRelease, ReceiverView, Idle
<1>4. CASE SendWrite
  <2>1. sender.write = write_pos /\ Held < Size
    <3>1. sender.write \in Position /\ sender.read \in Position
      BY DEF RingInv, TypeOK, Locals
    <3>2. WrappingSub(sender.write, sender.read) \in Position
      BY <3>1, Distance
    <3> QED
      BY <1>0, <1>4, <3>2, RingAssumption
      DEF Position, SendWrite, SenderSeesFull, RingInv, SenderView
  <2>2. Held > 0 => SlotOf(write_pos) # SlotOf(read_pos)
    BY <1>0, <2>1, Ahead, RingAssumption DEF Slot
  <2> QED
    BY <1>0, <1>4, <2>1, <2>2 DEF SendWrite, RingInv, ReceiverView, TypeOK, Held
<1>5. CASE SendPublish
  <2>1. sender.write = write_pos /\ Held < Size
    BY <1>5 DEF SendPublish, RingInv, SenderView
  <2>2. write_pos \in Position /\ read_pos \in Position /\ write_pos' = WrappingAdd1(write_pos)
    BY <1>5, <2>1 DEF SendPublish, RingInv, TypeOK
  <2>3. Held' = Held + 1
    BY <1>5, <2>1, <2>2, HeldAfterPublish DEF SendPublish, Held
  <2>4. receiver.write \in Position
    BY DEF RingInv, TypeOK, Locals
  <2>5. WrappingSub(receiver.write, read_pos) \in Position
    BY <2>2, <2>4, Distance
  <2> QED
    BY <1>0, <1>5, <2>3, <2>5, RingAssumption DEF SendPublish, RingInv, ReceiverView, Position
<1>6. CASE UNCHANGED <<slots, write_pos, read_pos, receiver>>
  BY <1>6 DEF RingInv, ReceiverView, Held
<1> QED
  BY <1>1, <1>2, <1>3, <1>4, <1>5, <1>6
  DEF Next, TrySend, TryRecv, RecvGoesOn, SendLoad, SendFull, vars

\* RingInv holds in every reachable state: the ring of fastpath.rs is type
\* correct, its window is exactly the published messages, and each end's stale
\* view of the other errs on the safe side.
THEOREM RingInvariant == Spec => []RingInv
<1>1. Init => RingInv
  BY InitRingInv
<1>2. RingInv /\ [Next]_vars => RingInv'
  BY TypeStep, WindowStep, SenderViewStep, ReceiverViewStep DEF RingInv
<1> QED
  BY <1>1, <1>2, PTL DEF Spec

--------------------------------------------------------------------------------
(* Consequences *)

\* The unsynchronised slot accesses of try_send and try_recv never meet.
THEOREM SlotAccessesDisjoint == Spec => []NoSlotRace
<1>1. RingInv => NoSlotRace
  <2> SUFFICES ASSUME RingInv, sender.pc = "loaded", ~SenderSeesFull,
                      receiver.pc = "loaded", ~ReceiverSeesEmpty
               PROVE  SlotOf(sender.write) # SlotOf(receiver.read)
    BY DEF NoSlotRace
  <2>0. /\ Held \in Nat /\ Held <= Size /\ SlotOf(read_pos) \in Slot
        /\ SlotOf(write_pos) = (SlotOf(read_pos) + Held) % Size
    BY RingShape DEF RingInv
  <2>1. /\ sender.write = write_pos /\ receiver.read = read_pos
        /\ Held <= WrappingSub(write_pos, sender.read)
        /\ WrappingSub(receiver.write, read_pos) <= Held
    BY DEF RingInv, SenderView, ReceiverView
  <2>2. /\ sender.read \in Position /\ receiver.write \in Position
        /\ write_pos \in Position /\ read_pos \in Position
    BY DEF RingInv, TypeOK, Locals
  <2>3. /\ WrappingSub(write_pos, sender.read) \in Position
        /\ WrappingSub(receiver.write, read_pos) \in Position
        /\ WrappingSub(receiver.write, read_pos) =
             IF receiver.write >= read_pos THEN receiver.write - read_pos
                                           ELSE receiver.write - read_pos + Word
    BY <2>2, Distance
  <2>4. Held < Size
    BY <2>0, <2>1, <2>3, RingAssumption DEF SenderSeesFull, Position
  <2>5. Held > 0
    BY <2>0, <2>1, <2>2, <2>3, RingAssumption DEF ReceiverSeesEmpty, Position
  <2> QED
    BY <2>0, <2>1, <2>4, <2>5, Ahead, RingAssumption DEF Slot
<1> QED
  BY <1>1, RingInvariant, PTL

--------------------------------------------------------------------------------
(* Refinement *)

\* The published messages form a sequence as long as the window.
LEMMA PublishedSeq ==
    ASSUME RingInv
    PROVE  /\ Held \in Nat
           /\ Published \in Seq(Message)
           /\ Len(Published) = Held
           /\ \A i \in 1 .. Held : Published[i] = slots[(SlotOf(read_pos) + i - 1) % Size]
<1>1. Held \in Nat /\ Held <= Size /\ SlotOf(read_pos) \in Slot
  BY RingShape DEF RingInv
<1>2. ASSUME NEW i \in 1 .. Held
      PROVE  slots[(SlotOf(read_pos) + i - 1) % Size] \in Message
  <2>1. i - 1 \in 0 .. Size - 1 /\ i - 1 < Held
    BY <1>1, RingAssumption
  <2>2. SlotOf(read_pos) + (i - 1) = SlotOf(read_pos) + i - 1
    BY <1>1, RingAssumption DEF Slot
  <2>3. slots[(SlotOf(read_pos) + (i - 1)) % Size] \in Message
    BY <2>1 DEF RingInv, RingWindow
  <2> QED
    BY <2>2, <2>3
<1> QED
  BY <1>1, <1>2 DEF Published

\* Publishing appends.
LEMMA PublishPuts ==
    ASSUME RingInv, RingInv', SendPublish
    PROVE  /\ sender.msg \in Message
           /\ Len(Published) < Size
           /\ Published' = Append(Published, sender.msg)
<1>1. /\ sender.write = write_pos /\ Held < Size /\ sender.msg \in Message
      /\ slots[SlotOf(write_pos)] = sender.msg
  BY DEF SendPublish, RingInv, SenderView
<1>2. write_pos \in Position /\ read_pos \in Position /\ write_pos' = WrappingAdd1(write_pos)
  BY <1>1 DEF SendPublish, RingInv, TypeOK
<1>3. Held' = Held + 1
  BY <1>1, <1>2, HeldAfterPublish DEF SendPublish, Held
<1>4. /\ Held \in Nat
      /\ Published \in Seq(Message)
      /\ Len(Published) = Held
      /\ \A i \in 1 .. Held : Published[i] = slots[(SlotOf(read_pos) + i - 1) % Size]
  BY PublishedSeq
<1>5. /\ SlotOf(read_pos) \in Slot
      /\ SlotOf(write_pos) = (SlotOf(read_pos) + Held) % Size
  BY RingShape DEF RingInv
<1>6. Published' = [i \in 1 .. Held + 1 |-> slots[(SlotOf(read_pos) + i - 1) % Size]]
  BY <1>3 DEF Published, SendPublish
<1>7. slots[(SlotOf(read_pos) + (Held + 1) - 1) % Size] = sender.msg
  <2>1. SlotOf(read_pos) + (Held + 1) - 1 = SlotOf(read_pos) + Held
    BY <1>4, <1>5, RingAssumption DEF Slot
  <2> QED
    BY <1>1, <1>5, <2>1
<1>8. Append(Published, sender.msg)
        = [i \in 1 .. Held + 1 |-> IF i = Held + 1 THEN sender.msg ELSE Published[i]]
  BY <1>1, <1>4
<1> QED
  BY <1>1, <1>4, <1>6, <1>7, <1>8

\* Releasing takes the head, and the message returned is that head.
LEMMA ReleaseTakes ==
    ASSUME RingInv, RingInv', RecvRelease
    PROVE  /\ Published # <<>>
           /\ got' = Head(Published)
           /\ Published' = Tail(Published)
<1>1. receiver.read = read_pos /\ Held > 0 /\ receiver.msg = slots[SlotOf(read_pos)]
  BY DEF RecvRelease, RingInv, ReceiverView
<1>2. write_pos \in Position /\ read_pos \in Position /\ read_pos' = WrappingAdd1(read_pos)
  BY <1>1 DEF RecvRelease, RingInv, TypeOK
<1>3. Held' = Held - 1
  BY <1>1, <1>2, HeldAfterRelease DEF RecvRelease, Held
<1>4. /\ Held \in Nat
      /\ Published \in Seq(Message)
      /\ Len(Published) = Held
      /\ \A i \in 1 .. Held : Published[i] = slots[(SlotOf(read_pos) + i - 1) % Size]
  BY PublishedSeq
<1>5. SlotOf(read_pos) \in Slot /\ Held <= Size
  BY RingShape DEF RingInv
<1>6. SlotOf(read_pos)' = IF SlotOf(read_pos) + 1 = Size THEN 0 ELSE SlotOf(read_pos) + 1
  BY <1>2, Advance DEF SlotOf
<1>7. Published[1] = slots[SlotOf(read_pos)]
  <2>1. SlotOf(read_pos) + 1 - 1 = SlotOf(read_pos) + 0
    BY <1>5, RingAssumption DEF Slot
  <2>2. (SlotOf(read_pos) + 0) % Size = SlotOf(read_pos)
    BY <1>5, Ahead, RingAssumption DEF Slot
  <2> QED
    BY <1>1, <1>4, <2>1, <2>2
<1>8. ASSUME NEW i \in 1 .. Held - 1
      PROVE  slots[(SlotOf(read_pos)' + i - 1) % Size] = Published[i + 1]
  <2> DEFINE r == SlotOf(read_pos)
             rn == SlotOf(read_pos)'
  <2>1. r \in Slot /\ rn \in Slot /\ rn = IF r + 1 = Size THEN 0 ELSE r + 1
    BY <1>5, <1>6, RingAssumption DEF Slot
  <2>2. i \in 0 .. Size /\ i - 1 \in 0 .. Size /\ i \in Int
    BY <1>4, <1>5, RingAssumption
  <2> HIDE DEF r, rn
  <2>3. (r + i) % Size = IF r + i < Size THEN r + i ELSE r + i - Size
    BY <2>1, <2>2, Ahead
  <2>4. (rn + (i - 1)) % Size = IF rn + (i - 1) < Size THEN rn + (i - 1) ELSE rn + (i - 1) - Size
    BY <2>1, <2>2, Ahead
  <2>5. r + (i + 1) - 1 = r + i /\ rn + i - 1 = rn + (i - 1)
    BY <2>1, <2>2, RingAssumption DEF Slot
  <2>6. (rn + (i - 1)) % Size = (r + i) % Size
    BY <2>1, <2>2, <2>3, <2>4, RingAssumption DEF Slot
  <2>7. i + 1 \in 1 .. Held
    BY <1>4
  <2>8. Published[i + 1] = slots[(r + (i + 1) - 1) % Size]
    BY <1>4, <2>7 DEF r
  <2> QED
    BY <2>5, <2>6, <2>8 DEF rn
<1>9. Published' = [i \in 1 .. Held - 1 |-> slots[(SlotOf(read_pos)' + i - 1) % Size]]
  BY <1>3 DEF Published, RecvRelease
<1>10. Tail(Published) = [i \in 1 .. Held - 1 |-> Published[i + 1]]
  <2> DEFINE t == Tail(Published)
  <2>1. t \in Seq(Message) /\ Len(t) = Held - 1 /\ \A i \in 1 .. Len(t) : t[i] = Published[i + 1]
    BY <1>1, <1>4
  <2> HIDE DEF t
  <2>2. t = [i \in 1 .. Len(t) |-> t[i]]
    BY <2>1
  <2>3. t = [i \in 1 .. Held - 1 |-> Published[i + 1]]
    BY <2>1, <2>2
  <2> QED
    BY <2>3 DEF t
<1>11. Published' = Tail(Published)
  BY <1>8, <1>9, <1>10
<1>12. got' = Head(Published)
  BY <1>1, <1>4, <1>7 DEF RecvRelease
<1> QED
  BY <1>1, <1>4, <1>11, <1>12

\* A step that moves neither position and fills no slot of the window leaves the
\* published messages as they are.
LEMMA OtherStepsInvisible ==
    ASSUME RingInv, [Next]_vars, ~SendPublish, ~RecvRelease
    PROVE  UNCHANGED <<Published, got>>
<1>1. CASE SendWrite
  <2>0. /\ Held \in Nat /\ Held <= Size /\ SlotOf(read_pos) \in Slot
        /\ SlotOf(write_pos) = (SlotOf(read_pos) + Held) % Size
    BY RingShape DEF RingInv
  <2>1. sender.write = write_pos /\ Held < Size
    <3>1. sender.write \in Position /\ sender.read \in Position
      BY DEF RingInv, TypeOK, Locals
    <3>2. WrappingSub(sender.write, sender.read) \in Position
      BY <3>1, Distance
    <3> QED
      BY <1>1, <2>0, <3>2, RingAssumption
      DEF Position, SendWrite, SenderSeesFull, RingInv, SenderView
  <2>2. ASSUME NEW i \in 1 .. Held
        PROVE  slots'[(SlotOf(read_pos) + i - 1) % Size] = slots[(SlotOf(read_pos) + i - 1) % Size]
    <3>1. i - 1 \in 0 .. Size - 1 /\ Held \in 0 .. Size - 1 /\ i - 1 # Held
      BY <2>0, <2>1, RingAssumption
    <3>2. SlotOf(read_pos) + i - 1 = SlotOf(read_pos) + (i - 1)
      BY <2>0, RingAssumption DEF Slot
    <3>3. (SlotOf(read_pos) + (i - 1)) % Size # SlotOf(write_pos)
      BY <2>0, <3>1, SlotsDistinct
    <3>4. (SlotOf(read_pos) + (i - 1)) % Size \in Slot
      BY <2>0, <3>1, Ahead, RingAssumption
    <3> QED
      BY <1>1, <2>1, <3>2, <3>3, <3>4 DEF SendWrite, RingInv, TypeOK
  <2> QED
    BY <1>1, <2>2 DEF SendWrite, Published, Held
<1>2. CASE UNCHANGED <<slots, write_pos, read_pos, got>>
  BY <1>2 DEF Published, Held
<1> QED
  BY <1>1, <1>2 DEF Next, TrySend, TryRecv, RecvGoesOn, SendLoad, SendFull, RecvLoad, RecvEmpty, RecvRead, vars

\* The lock-free ring implements the bounded FIFO of capacity Size.
THEOREM RingImplementsFifo == Spec => RefinesFifo
<1>1. Init => Fifo!Init
  <2> SUFFICES ASSUME Init PROVE Fifo!Init
    OBVIOUS
  <2>1. RingInv
    BY InitRingInv
  <2>2. Held = 0
    BY RingAssumption, Distance DEF Init, Held, Position
  <2> QED
    BY <2>1, <2>2, PublishedSeq DEF Init, Fifo!Init
<1>2. RingInv /\ RingInv' /\ [Next]_vars => [Fifo!Next]_(Fifo!fifoVars)
  <2> SUFFICES ASSUME RingInv, RingInv', [Next]_vars
               PROVE  [Fifo!Next]_(Fifo!fifoVars)
    OBVIOUS
  <2>1. CASE SendPublish
    <3>1. Fifo!Put(sender.msg) /\ sender.msg \in Message
      BY <2>1, PublishPuts DEF Fifo!Put, SendPublish
    <3>2. Published' # <<>> /\ Published'[Len(Published')] = sender.msg
      BY <2>1, PublishPuts, PublishedSeq
    <3> QED
      BY <3>1, <3>2 DEF Fifo!Next, Fifo!PutSome
  <2>2. CASE RecvRelease
    BY <2>2, ReleaseTakes DEF Fifo!Next, Fifo!Take
  <2>3. CASE ~SendPublish /\ ~RecvRelease
    BY <2>3, OtherStepsInvisible DEF Fifo!fifoVars
  <2> QED
    BY <2>1, <2>2, <2>3
<1> QED
  BY <1>1, <1>2, RingInvariant, PTL DEF Spec, RefinesFifo, Fifo!Spec

================================================================================
