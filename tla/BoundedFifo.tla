------------------------------ MODULE BoundedFifo ------------------------------
(***************************************************************************)
(* What every in-kernel message queue of Splax promises its two ends: a    *)
(* queue of at most Capacity messages that are taken out once each, in the *)
(* order they were put in.  The slot ring of kernel/src/ipc/mod.rs and the *)
(* lock-free ring of kernel/src/ipc/fastpath.rs are both shown to          *)
(* implement this specification.                                           *)
(***************************************************************************)
EXTENDS Naturals, Sequences

CONSTANTS
    Message,    \* what may be put in the queue
    NoMessage,  \* "nothing has been taken yet"
    Capacity    \* the largest number of messages held

VARIABLES
    queue,      \* messages accepted and not yet taken, oldest first
    got         \* the message taken last

fifoVars == <<queue, got>>

--------------------------------------------------------------------------------

Init ==
    /\ queue = <<>>
    /\ got = NoMessage

Put(m) ==
    /\ Len(queue) < Capacity
    /\ queue' = Append(queue, m)
    /\ UNCHANGED got

Take ==
    /\ queue # <<>>
    /\ got' = Head(queue)
    /\ queue' = Tail(queue)

\* The message put in is the one now last: Message may be an infinite set.
PutSome ==
    /\ queue' # <<>>
    /\ queue'[Len(queue')] \in Message
    /\ Put(queue'[Len(queue')])

Next == PutSome \/ Take

Spec == Init /\ [][Next]_fifoVars

================================================================================
