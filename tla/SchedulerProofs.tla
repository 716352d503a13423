---------------------------- MODULE SchedulerProofs ----------------------------
(***************************************************************************)
(* Proofs about the scheduler, for any number of processes and any length  *)
(* of the queues.                                                          *)
(***************************************************************************)
EXTENDS Scheduler, WellFoundedInduction, TLAPS

--------------------------------------------------------------------------------
(* What retain does to a queue of any length.  The proofs are by induction *)
(* in the form of a least counterexample.                                  *)

\* A nonempty set of natural numbers has a least element.
LEMMA Least ==
    ASSUME NEW T \in SUBSET Nat, T # {}
    PROVE  \E n \in T : \A m \in T : n <= m
<1>1. \E n \in T : \A m \in T : ~ (<<m, n>> \in OpToRel(<, Nat))
  BY NatLessThanWellFounded, WFMin
<1>2. ASSUME NEW m \in Nat, NEW n \in Nat, m < n PROVE <<m, n>> \in OpToRel(<, Nat)
  <2>1. <<m, n>> \in Nat \X Nat /\ <<m, n>>[1] < <<m, n>>[2]
    BY <1>2
  <2> QED
    BY <2>1, Zenon DEF OpToRel
<1>3. PICK n \in T : \A m \in T : ~ (<<m, n>> \in OpToRel(<, Nat))
  BY <1>1
<1>4. \A m \in T : ~ (m < n)
  BY <1>2, <1>3
<1> QED
  BY <1>4

\* What is true of 0 and passes from one number to the next holds up to any bound.
LEMMA UpTo ==
    ASSUME NEW n \in Nat, NEW T \in SUBSET Nat, 0 \in T,
           \A i \in 1 .. n : i - 1 \in T => i \in T
    PROVE  0 .. n \subseteq T
<1> SUFFICES ASSUME (0 .. n) \ T # {} PROVE FALSE
  OBVIOUS
<1> DEFINE Rest == (0 .. n) \ T
<1>0. Rest \in SUBSET Nat /\ Rest # {}
  OBVIOUS
<1> HIDE DEF Rest
<1>1. PICK i \in Rest : \A m \in Rest : i <= m
  BY <1>0, Least
<1> USE DEF Rest
<1> QED
  BY <1>1

\* retain goes through the queue entry by entry.
LEMMA RetainStep ==
    ASSUME NEW S, NEW s \in Seq(S), NEW p
    PROVE \E F \in [0 .. Len(s) -> Seq(S)] :
            /\ Retain(s, p) = F[Len(s)]
            /\ F[0] = << >>
            /\ \A i \in 1 .. Len(s) :
                F[i] = IF s[i] = p THEN F[i - 1] ELSE Append(F[i - 1], s[i])
<1>0. Len(s) \in Nat
  OBVIOUS
<1> DEFINE Rule(F, i) == IF i = 0 THEN << >>
                         ELSE IF s[i] = p THEN F[i - 1] ELSE Append(F[i - 1], s[i])
           Exists(n) == \E F \in [0 .. n -> Seq(S)] : \A i \in 0 .. n : F[i] = Rule(F, i)
           T == {n \in Nat : n <= Len(s) => Exists(n)}
<1>1. Exists(0)
  <2> DEFINE G == [i \in 0 .. 0 |-> << >>]
  <2>1. G \in [0 .. 0 -> Seq(S)] /\ \A i \in 0 .. 0 : G[i] = Rule(G, i)
    OBVIOUS
  <2> QED
   BY <2>1
<1>2. ASSUME NEW n \in 1 .. Len(s), Exists(n - 1) PROVE Exists(n)
  <2>1. PICK F \in [0 .. n - 1 -> Seq(S)] : \A i \in 0 .. n - 1 : F[i] = Rule(F, i)
    BY <1>2
  <2> DEFINE G == [i \in 0 .. n |-> IF i = n THEN Rule(F, n) ELSE F[i]]
  <2>2. Rule(F, n) \in Seq(S)
    BY <2>1
  <2>3. G \in [0 .. n -> Seq(S)]
    BY <2>1, <2>2
  <2>4. \A i \in 0 .. n : G[i] = Rule(G, i)
    <3>1. \A i \in 0 .. n - 1 : G[i] = F[i]
      OBVIOUS
    <3>2. G[n] = Rule(F, n)
      OBVIOUS
    <3> HIDE DEF G
    <3>3. ASSUME NEW i \in 0 .. n PROVE Rule(G, i) = Rule(F, i)
      <4>1. CASE i = 0
        BY <4>1
      <4>2. CASE i # 0
        <5>1. i - 1 \in 0 .. n - 1
          BY <4>2
        <5>2. G[i - 1] = F[i - 1]
          BY <3>1, <5>1
        <5> QED
          BY <5>2
      <4> QED
        BY <4>1, <4>2
    <3> HIDE DEF Rule
    <3> QED
      BY <2>1, <3>1, <3>2, <3>3
  <2> HIDE DEF G
  <2> QED
    BY <2>3, <2>4
<1> HIDE DEF Exists
<1>3. Exists(Len(s))
  <2>1. T \in SUBSET Nat /\ 0 \in T /\ \A i \in 1 .. Len(s) : i - 1 \in T => i \in T
    BY <1>1, <1>2
  <2>2. 0 .. Len(s) \subseteq T
    <3> HIDE DEF T
    <3> QED
      BY <1>0, <2>1, UpTo
  <2> QED
    BY <2>2
<1>4. PICK F \in [0 .. Len(s) -> Seq(S)] : \A i \in 0 .. Len(s) : F[i] = Rule(F, i)
  BY <1>3 DEF Exists
<1>5. F = [i \in 0 .. Len(s) |-> Rule(F, i)]
  BY <1>4
<1> DEFINE K == CHOOSE G : G = [i \in 0 .. Len(s) |-> Rule(G, i)]
<1>6. K = [i \in 0 .. Len(s) |-> Rule(K, i)]
  BY <1>5
<1>10. \A i \in 0 .. Len(s) : K[i] = Rule(K, i)
  <2> HIDE DEF K, Rule
  <2> QED
    BY <1>6
<1>7. Retain(s, p) = K[Len(s)]
  BY DEF Retain
<1> HIDE DEF K
<1>9. K[0] = << >> /\ \A i \in 1 .. Len(s) :
                K[i] = IF s[i] = p THEN K[i - 1] ELSE Append(K[i - 1], s[i])
  BY <1>0, <1>10
<1>8. K \in [0 .. Len(s) -> Seq(S)]
  <2> DEFINE U == {n \in Nat : n <= Len(s) => K[n] \in Seq(S)}
  <2>1. U \in SUBSET Nat /\ 0 \in U
    <3>1. K[0] \in Seq(S)
      BY <1>9
    <3> QED
      BY <3>1
  <2>2. ASSUME NEW n \in 1 .. Len(s), n - 1 \in U PROVE n \in U
    <3>1. K[n - 1] \in Seq(S) /\ s[n] \in S
      BY <2>2
    <3>2. Append(K[n - 1], s[n]) \in Seq(S)
      BY <3>1
    <3>3. K[n] \in Seq(S)
      BY <1>9, <3>1, <3>2
    <3> QED
      BY <3>3
  <2>3. 0 .. Len(s) \subseteq U
    <3> HIDE DEF U
    <3> QED
      BY <1>0, <2>1, <2>2, UpTo
  <2> QED
    BY <1>6, <2>3
<1> QED
  BY <1>7, <1>8, <1>9

\* The members of a queue.
Has(s, x) == \E i \in 1 .. Len(s) : s[i] = x

\* Vec::retain keeps exactly the entries that are not p.
LEMMA RetainKeeps ==
    ASSUME NEW S, NEW s \in Seq(S), NEW p
    PROVE  /\ Retain(s, p) \in Seq(S)
           /\ \A x : Has(Retain(s, p), x) <=> x # p /\ Has(s, x)
<1>1. PICK F \in [0 .. Len(s) -> Seq(S)] :
        /\ Retain(s, p) = F[Len(s)]
        /\ F[0] = << >>
        /\ \A i \in 1 .. Len(s) :
            F[i] = IF s[i] = p THEN F[i - 1] ELSE Append(F[i - 1], s[i])
  BY RetainStep
<1> DEFINE In(n, x) == \E i \in 1 .. Len(F[n]) : F[n][i] = x
           Kept(n) == \A x : In(n, x) <=> x # p /\ \E i \in 1 .. n : s[i] = x
           T == {n \in Nat : n <= Len(s) => Kept(n)}
<1>2. Kept(0)
  BY <1>1
<1>3. ASSUME NEW n \in 1 .. Len(s), Kept(n - 1) PROVE Kept(n)
  <2>1. F[n - 1] \in Seq(S) /\ s[n] \in S
    OBVIOUS
  <2>2. CASE s[n] = p
    <3>1. F[n] = F[n - 1]
      BY <1>1, <2>2
    <3>2. \A x : In(n, x) <=> In(n - 1, x)
      BY <3>1
    <3>3. \A x : (\E i \in 1 .. n : s[i] = x) <=> (\E i \in 1 .. n - 1 : s[i] = x)
              \/ x = s[n]
      OBVIOUS
    <3> HIDE DEF In
    <3> QED
      BY <1>3, <2>2, <3>2, <3>3
  <2>3. CASE s[n] # p
    <3>1. F[n] = Append(F[n - 1], s[n])
      BY <1>1, <2>3
    <3>2. /\ Len(F[n]) = Len(F[n - 1]) + 1
          /\ F[n][Len(F[n])] = s[n]
          /\ \A i \in 1 .. Len(F[n - 1]) : F[n][i] = F[n - 1][i]
      BY <2>1, <3>1
    <3>3. \A x : In(n, x) <=> In(n - 1, x) \/ x = s[n]
      <4>1. Len(F[n - 1]) \in Nat
        BY <2>1
      <4>2. ASSUME NEW x, In(n, x) PROVE In(n - 1, x) \/ x = s[n]
        <5>1. PICK i \in 1 .. Len(F[n]) : F[n][i] = x
          BY <4>2
        <5>2. i = Len(F[n]) \/ i \in 1 .. Len(F[n - 1])
          BY <3>2, <4>1, <5>1
        <5> QED
          BY <3>2, <5>1, <5>2
      <4>3. ASSUME NEW x, In(n - 1, x) \/ x = s[n] PROVE In(n, x)
        <5>1. 1 .. Len(F[n - 1]) \subseteq 1 .. Len(F[n]) /\ Len(F[n]) \in 1 .. Len(F[n])
          BY <3>2, <4>1
        <5> QED
          BY <3>2, <4>3, <5>1
      <4> QED
        BY <4>2, <4>3
    <3>4. \A x : (\E i \in 1 .. n : s[i] = x) <=> (\E i \in 1 .. n - 1 : s[i] = x)
              \/ x = s[n]
      OBVIOUS
    <3> HIDE DEF In
    <3> QED
      BY <1>3, <2>3, <3>3, <3>4
  <2> QED
    BY <2>2, <2>3
<1> HIDE DEF Kept
<1>0. Len(s) \in Nat
  OBVIOUS
<1>4. T \in SUBSET Nat /\ 0 \in T /\ \A i \in 1 .. Len(s) : i - 1 \in T => i \in T
  BY <1>2, <1>3
<1>5. 0 .. Len(s) \subseteq T
  <2> HIDE DEF T
  <2> QED
    BY <1>0, <1>4, UpTo
<1>6. Kept(Len(s))
  BY <1>0, <1>5
<1> QED
  BY <1>1, <1>6 DEF Kept, Has

--------------------------------------------------------------------------------
(* The queues as sets: what is in one after a change *)

\* A queue has its own class only, said of its members.
LEMMA QueueClass ==
    ASSUME TypeOK
    PROVE  PidsRegistered <=>
            /\ \A p \in Pid : p >= next_pid => ~Registered(p)
            /\ \A x \in {current, registering, picked} \ {NoPid} : Registered(x)
            /\ \A p \in Pid, c \in Class :
                InQueue(p, c) => Registered(p) /\ processes[p].class = c
BY DEF PidsRegistered, InQueue, TypeOK

\* enqueue adds a process to one queue.
LEMMA EnqueueAdds ==
    ASSUME TypeOK, NEW p \in Pid, NEW c \in Class, ready_queues' = Enqueued(p, c)
    PROVE  /\ ready_queues' \in [Class -> Seq(Pid)]
           /\ \A q \in Pid, d \in Class :
                InQueue(q, d)' <=> InQueue(q, d) \/ (q = p /\ d = c)
<1> DEFINE old == ready_queues[c]
           new == Append(old, p)
<1>1. ready_queues \in [Class -> Seq(Pid)]
          /\ ready_queues' = [ready_queues EXCEPT ![c] = new]
  BY DEF TypeOK, Enqueued
<1>2. old \in Seq(Pid) /\ Len(old) \in Nat
  BY <1>1
<1>3. /\ new \in Seq(Pid) /\ Len(new) = Len(old) + 1 /\ new[Len(new)] = p
      /\ \A i \in 1 .. Len(old) : new[i] = old[i]
  BY <1>2
<1>4. \A q \in Pid : (\E i \in 1 .. Len(new) : new[i] = q)
                      <=> (\E i \in 1 .. Len(old) : old[i] = q) \/ q = p
  <2> HIDE DEF old, new
  <2>1. 1 .. Len(new) = (1 .. Len(old)) \cup {Len(new)}
    BY <1>2, <1>3
  <2> QED
    BY <1>3, <2>1
<1> HIDE DEF new
<1>5. ready_queues' \in [Class -> Seq(Pid)]
  BY <1>1, <1>3
<1>6. \A d \in Class : ready_queues'[d] = IF d = c THEN new ELSE ready_queues[d]
  BY <1>1
<1> QED
  BY <1>4, <1>5, <1>6 DEF InQueue

\* schedule takes the last entry of one queue.
LEMMA PopTakes ==
    ASSUME TypeOK, NEW c \in Class, ready_queues[c] # << >>,
           ready_queues' = [ready_queues EXCEPT ![c] = Front(@)]
    PROVE  /\ Last(ready_queues[c]) \in Pid /\ InQueue(Last(ready_queues[c]), c)
           /\ ready_queues' \in [Class -> Seq(Pid)]
           /\ \A q \in Pid, d \in Class : InQueue(q, d)' => InQueue(q, d)
           /\ \A q \in Pid, d \in Class :
                InQueue(q, d) => InQueue(q, d)' \/ (d = c /\ q = Last(ready_queues[c]))
<1> DEFINE old == ready_queues[c]
           new == Front(old)
<1>1. ready_queues \in [Class -> Seq(Pid)]
          /\ ready_queues' = [ready_queues EXCEPT ![c] = new]
  BY DEF TypeOK
<1>2. old \in Seq(Pid) /\ old # << >> /\ Len(old) \in Nat \ {0}
  BY <1>1
<1>3. Last(old) = old[Len(old)] /\ Last(old) \in Pid
  BY <1>2 DEF Last
<1>4. /\ new \in Seq(Pid) /\ Len(new) = Len(old) - 1
      /\ \A i \in 1 .. Len(old) - 1 : new[i] = old[i]
  BY <1>2 DEF Front
<1>5. 1 .. Len(old) = (1 .. Len(new)) \cup {Len(old)}
  BY <1>2, <1>4
<1> HIDE DEF old, new
<1>6. \A d \in Class : ready_queues'[d] = IF d = c THEN new ELSE ready_queues[d]
  BY <1>1
<1>7. ready_queues' \in [Class -> Seq(Pid)]
  BY <1>1, <1>4
<1>8. /\ \A q \in Pid : (\E i \in 1 .. Len(new) : new[i] = q)
          => \E i \in 1 .. Len(old) : old[i] = q
      /\ \A q \in Pid : (\E i \in 1 .. Len(old) : old[i] = q)
                            => (\E i \in 1 .. Len(new) : new[i] = q) \/ q = Last(old)
  BY <1>3, <1>4, <1>5
<1>9. InQueue(Last(old), c)
  BY <1>2, <1>3, <1>5 DEF InQueue, old
<1> QED
  BY <1>3, <1>6, <1>7, <1>8, <1>9 DEF InQueue, old

\* terminate takes one process from all queues.
LEMMA RetainTakes ==
    ASSUME TypeOK, NEW p \in Pid,
           ready_queues' = [c \in Class |-> Retain(ready_queues[c], p)]
    PROVE  /\ ready_queues' \in [Class -> Seq(Pid)]
           /\ \A q \in Pid, d \in Class : InQueue(q, d)' <=> InQueue(q, d) /\ q # p
<1>1. \A d \in Class : ready_queues[d] \in Seq(Pid)
          /\ ready_queues'[d] = Retain(ready_queues[d], p)
  BY DEF TypeOK
<1>2. \A d \in Class : Retain(ready_queues[d], p) \in Seq(Pid)
  BY <1>1, RetainKeeps
<1>3. ASSUME NEW q \in Pid, NEW d \in Class PROVE InQueue(q, d)' <=> InQueue(q, d) /\ q # p
  <2>1. Has(Retain(ready_queues[d], p), q) <=> q # p /\ Has(ready_queues[d], q)
    BY <1>1, RetainKeeps
  <2>2. InQueue(q, d) <=> Has(ready_queues[d], q)
    BY DEF InQueue, Has
  <2>3. InQueue(q, d)' <=> Has(ready_queues'[d], q)
    BY DEF InQueue, Has
  <2> QED
    BY <1>1, <2>1, <2>2, <2>3
<1> QED
  BY <1>1, <1>2, <1>3

--------------------------------------------------------------------------------
(* Each step keeps the invariant *)

(* SchedInv with the queues as sets *)
FreshPids == \A p \in Pid : p >= next_pid => ~Registered(p)
HeldRegistered == \A x \in {current, registering, picked} \ {NoPid} : Registered(x)
OwnClass ==
    \A p \in Pid, c \in Class : InQueue(p, c) => Registered(p) /\ processes[p].class = c
NotYetQueued ==
    registering # NoPid =>
        /\ InState(registering, "Ready") /\ registering \notin {current, picked}
        /\ \A c \in Class : ~InQueue(registering, c)

Sets ==
    /\ FreshPids /\ HeldRegistered /\ OwnClass /\ NotYetQueued
    /\ ReadyNotLost /\ RunningIsCurrent /\ TerminatedIsGone

\* The two forms are the same, before and after a step.
LEMMA SameInv == (SchedInv <=> TypeOK /\ Sets) /\ (SchedInv' <=> TypeOK' /\ Sets')
<1>1. SchedInv <=> TypeOK /\ Sets
  BY QueueClass DEF SchedInv, Sets, FreshPids, HeldRegistered, OwnClass, NotYetQueued
<1>2. ASSUME TypeOK'
      PROVE  PidsRegistered' <=>
            (/\ \A p \in Pid : p >= next_pid => ~Registered(p)
             /\ \A x \in {current, registering, picked} \ {NoPid} : Registered(x)
             /\ \A p \in Pid, c \in Class :
                InQueue(p, c) => Registered(p) /\ processes[p].class = c)'
  BY <1>2 DEF PidsRegistered, InQueue, TypeOK
<1>3. SchedInv' <=> TypeOK' /\ Sets'
  BY <1>2 DEF SchedInv, Sets, FreshPids, HeldRegistered, OwnClass, NotYetQueued
<1> QED
  BY <1>1, <1>3

\* At the start there are no processes.
LEMMA InitSched == Init => SchedInv
<1> SUFFICES ASSUME Init PROVE SchedInv
  OBVIOUS
<1>1. \A c \in Class : ready_queues[c] = << >>
  BY DEF Init
<1>2. TypeOK
  BY SchedulerAssumption DEF Init, TypeOK
<1>3. \A p, c : c \in Class => ~InQueue(p, c)
  BY <1>1 DEF InQueue
<1>4. Sets
  BY <1>2, <1>3 DEF Init, Sets, FreshPids, HeldRegistered, OwnClass, NotYetQueued,
     Registered, InState, ReadyNotLost, RunningIsCurrent, TerminatedIsGone
<1> QED
  BY <1>2, <1>4, SameInv

\* Every step of the scheduler and its callers.
LEMMA StepKeeps == SchedInv /\ [Next]_vars => SchedInv'
<1> SUFFICES ASSUME TypeOK, Sets, [Next]_vars PROVE TypeOK' /\ Sets'
  BY SameInv
<1>0. /\ Pid \subseteq Nat /\ NoPid \notin Pid
      /\ \A p \in Pid : Registered(p) => processes[p] \in ProcessInfo
            /\ processes[p].class \in Class
      /\ NoProcess \notin ProcessInfo
      /\ {current, registering, picked} \subseteq Pid \cup {NoPid} /\ next_pid \in Nat
  BY SchedulerAssumption, NoPidAssumption, NoProcessAssumption
     DEF Pid, TypeOK, Registered, ProcessInfo
<1>1. ASSUME NEW class \in Class, RegisterInsert(class) PROVE TypeOK' /\ Sets'
  <2> DEFINE p == next_pid
             info == [class |-> class, state |-> "Ready"]
  <2>1. /\ p \in Pid /\ ~Registered(p) /\ info \in ProcessInfo /\ registering = NoPid
        /\ processes' = [processes EXCEPT ![p] = info]
        /\ registering' = p /\ next_pid' = p + 1
        /\ UNCHANGED <<ready_queues, current, picked>>
    BY <1>1, <1>0 DEF RegisterInsert, Sets, FreshPids, ProcessInfo, State
  <2>2. TypeOK'
    BY <1>0, <2>1 DEF TypeOK
  <2>3. \A q \in Pid : \A c : InQueue(q, c)' <=> InQueue(q, c)
    BY <2>1 DEF InQueue
  <2>4. /\ processes'[p] = info /\ info # NoProcess /\ info.state = "Ready"
        /\ \A q \in Pid : q # p => processes'[q] = processes[q]
    BY <1>0, <2>1 DEF TypeOK
  <2> HIDE DEF p, info
  <2>5. Sets'
    <3>1. FreshPids'
      <4>1. \A q \in Pid : q >= p + 1 => q # p /\ q >= p
        BY <1>0, <2>1
      <4> QED
        BY <2>1, <2>4, <4>1 DEF Sets, FreshPids, Registered, p
    <3>2. HeldRegistered'
      BY <1>0, <2>1, <2>3, <2>4 DEF Sets, HeldRegistered, Registered, InState
    <3>3. OwnClass'
      BY <1>0, <2>1, <2>3, <2>4 DEF Sets, OwnClass, Registered, InState
    <3>4. NotYetQueued'
      BY <1>0, <2>1, <2>3, <2>4 DEF Sets, NotYetQueued, HeldRegistered, Registered,
         InState, TerminatedIsGone, FreshPids, OwnClass
    <3>5. ReadyNotLost'
      BY <1>0, <2>1, <2>3, <2>4 DEF Sets, ReadyNotLost, Registered, InState
    <3>6. RunningIsCurrent'
      BY <1>0, <2>1, <2>3, <2>4 DEF Sets, RunningIsCurrent, Registered, InState,
         NotYetQueued, HeldRegistered, TerminatedIsGone, FreshPids, OwnClass
    <3>7. TerminatedIsGone'
      BY <1>0, <2>1, <2>3, <2>4 DEF Sets, TerminatedIsGone, Registered, InState,
         NotYetQueued, HeldRegistered, FreshPids, OwnClass
    <3> QED
      BY <3>1, <3>2, <3>3, <3>4, <3>5, <3>6, <3>7 DEF Sets
  <2> QED
    BY <2>2, <2>5
<1>2. ASSUME RegisterEnqueue PROVE TypeOK' /\ Sets'
  <2> DEFINE p == registering
             class == processes[p].class
  <2>1. p \in Pid /\ Registered(p) /\ class \in Class /\ InState(p, "Ready")
    BY <1>0, <1>2
       DEF RegisterEnqueue, Sets, HeldRegistered, NotYetQueued, TypeOK, ProcessInfo
  <2>2. /\ ready_queues' = Enqueued(p, class) /\ registering' = NoPid
        /\ UNCHANGED <<processes, current, next_pid, picked>>
    BY <1>2 DEF RegisterEnqueue
  <2>3. /\ ready_queues' \in [Class -> Seq(Pid)]
        /\ \A q \in Pid, d \in Class :
            InQueue(q, d)' <=> InQueue(q, d) \/ (q = p /\ d = class)
    BY <2>1, <2>2, EnqueueAdds
  <2>4. TypeOK'
    BY <2>2, <2>3 DEF TypeOK
  <2>5. Sets'
    <3>1. FreshPids'
      BY <1>0, <2>1, <2>2, <2>3
         DEF Sets, FreshPids, Registered, InState, TypeOK, ProcessInfo
    <3>2. HeldRegistered'
      BY <1>0, <2>1, <2>2, <2>3
         DEF Sets, HeldRegistered, Registered, InState, TypeOK, ProcessInfo
    <3>3. OwnClass'
      BY <1>0, <2>1, <2>2, <2>3 DEF Sets, OwnClass, Registered, InState, TypeOK, ProcessInfo
    <3>4. NotYetQueued'
      BY <1>0, <2>1, <2>2, <2>3 DEF Sets, NotYetQueued, HeldRegistered, Registered,
         InState, TypeOK, ProcessInfo, TerminatedIsGone, FreshPids, OwnClass
    <3>5. ReadyNotLost'
      BY <1>0, <2>1, <2>2, <2>3
         DEF Sets, ReadyNotLost, Registered, InState, TypeOK, ProcessInfo
    <3>6. RunningIsCurrent'
      BY <1>0, <2>1, <2>2, <2>3 DEF Sets, RunningIsCurrent, Registered, InState, TypeOK,
         ProcessInfo, NotYetQueued, HeldRegistered, TerminatedIsGone, FreshPids, OwnClass
    <3>7. TerminatedIsGone'
      BY <1>0, <2>1, <2>2, <2>3 DEF Sets, TerminatedIsGone, Registered, InState, TypeOK,
         ProcessInfo, NotYetQueued, HeldRegistered, FreshPids, OwnClass
    <3> QED
      BY <3>1, <3>2, <3>3, <3>4, <3>5, <3>6, <3>7 DEF Sets
  <2> QED
    BY <2>4, <2>5
<1>3. ASSUME NEW p \in Pid, Wake(p) PROVE TypeOK' /\ Sets'
  <2> DEFINE class == processes[p].class
             info == [processes[p] EXCEPT !.state = "Ready"]
  <2>1. Registered(p) /\ class \in Class /\ InState(p, "Blocked")
            /\ processes[p] \in ProcessInfo
    BY <1>0, <1>3 DEF Wake, InState, ProcessInfo
  <2>2. /\ ready_queues' = Enqueued(p, class)
        /\ processes' = [processes EXCEPT ![p] = info]
        /\ UNCHANGED <<current, next_pid, registering, picked>>
    BY <1>3 DEF Wake
  <2>3. /\ ready_queues' \in [Class -> Seq(Pid)]
        /\ \A q \in Pid, d \in Class :
            InQueue(q, d)' <=> InQueue(q, d) \/ (q = p /\ d = class)
    BY <2>1, <2>2, EnqueueAdds
  <2>4. info \in ProcessInfo /\ info.class = class /\ info.state = "Ready"
            /\ info # NoProcess
    BY <1>0, <2>1 DEF ProcessInfo, State
  <2>5. processes'[p] = info /\ \A q \in Pid : q # p => processes'[q] = processes[q]
    BY <2>2 DEF TypeOK
  <2> HIDE DEF info, class
  <2>6. TypeOK'
    BY <2>2, <2>3, <2>4 DEF TypeOK
  <2>7. Sets'
    <3>1. FreshPids'
      BY <1>0, <2>1, <2>2, <2>3, <2>4, <2>5 DEF Sets, FreshPids, Registered, InState, class
    <3>2. HeldRegistered'
      BY <1>0, <2>1, <2>2, <2>3, <2>4, <2>5
         DEF Sets, HeldRegistered, Registered, InState, class
    <3>3. OwnClass'
      BY <1>0, <2>1, <2>2, <2>3, <2>4, <2>5 DEF Sets, OwnClass, Registered, InState, class
    <3>4. NotYetQueued'
      BY <1>0, <2>1, <2>2, <2>3, <2>4, <2>5 DEF Sets, NotYetQueued, HeldRegistered,
         Registered, InState, class, TerminatedIsGone, FreshPids, OwnClass
    <3>5. ReadyNotLost'
      BY <1>0, <2>1, <2>2, <2>3, <2>4, <2>5
         DEF Sets, ReadyNotLost, Registered, InState, class
    <3>6. RunningIsCurrent'
      BY <1>0, <2>1, <2>2, <2>3, <2>4, <2>5 DEF Sets, RunningIsCurrent, Registered,
         InState, class, NotYetQueued, HeldRegistered, TerminatedIsGone, FreshPids, OwnClass
    <3>7. TerminatedIsGone'
      BY ZenonT(30), <1>0, <2>1, <2>2, <2>3, <2>4, <2>5 DEF Sets, TerminatedIsGone, Registered,
         InState, class, NotYetQueued, HeldRegistered, FreshPids, OwnClass
    <3> QED
      BY <3>1, <3>2, <3>3, <3>4, <3>5, <3>6, <3>7 DEF Sets
  <2> QED
    BY <2>6, <2>7
<1>4. ASSUME Block PROVE TypeOK' /\ Sets'
  <2> DEFINE p == current
             info == [processes[p] EXCEPT !.state = "Blocked"]
  <2>1. p \in Pid /\ Registered(p) /\ processes[p] \in ProcessInfo
    BY <1>0, <1>4 DEF Block, Sets, HeldRegistered, NotYetQueued, TypeOK
  <2>2. /\ processes' = [processes EXCEPT ![p] = info]
        /\ UNCHANGED <<ready_queues, current, next_pid, registering, picked>>
    BY <1>4 DEF Block
  <2>3. \A q \in Pid, d \in Class : InQueue(q, d)' <=> InQueue(q, d)
    BY <2>2 DEF InQueue
  <2>4. info \in ProcessInfo /\ info.class = processes[p].class
            /\ info.state = "Blocked" /\ info # NoProcess
    BY <1>0, <2>1 DEF ProcessInfo, State
  <2>5. processes'[p] = info /\ \A q \in Pid : q # p => processes'[q] = processes[q]
    BY <2>2, <2>1 DEF TypeOK
  <2> HIDE DEF info
  <2>6. TypeOK'
    BY <2>2, <2>4 DEF TypeOK
  <2>7. Sets'
    <3>1. FreshPids'
      BY <1>0, <2>1, <2>2, <2>3, <2>4, <2>5 DEF Sets, FreshPids, Registered, InState
    <3>2. HeldRegistered'
      BY <1>0, <2>1, <2>2, <2>3, <2>4, <2>5 DEF Sets, HeldRegistered, Registered, InState
    <3>3. OwnClass'
      BY <1>0, <2>1, <2>2, <2>3, <2>4, <2>5 DEF Sets, OwnClass, Registered, InState
    <3>4. NotYetQueued'
      BY <1>0, <2>1, <2>2, <2>3, <2>4, <2>5 DEF Sets, NotYetQueued, HeldRegistered,
         Registered, InState, TerminatedIsGone, FreshPids, OwnClass
    <3>5. ReadyNotLost'
      BY <1>0, <2>1, <2>2, <2>3, <2>4, <2>5 DEF Sets, ReadyNotLost, Registered, InState
    <3>6. RunningIsCurrent'
      BY <1>0, <2>1, <2>2, <2>3, <2>4, <2>5 DEF Sets, RunningIsCurrent, Registered,
         InState, NotYetQueued, HeldRegistered, TerminatedIsGone, FreshPids, OwnClass
    <3>7. TerminatedIsGone'
      BY <1>0, <2>1, <2>2, <2>3, <2>4, <2>5 DEF Sets, TerminatedIsGone, Registered,
         InState, NotYetQueued, HeldRegistered, FreshPids, OwnClass
    <3> QED
      BY <3>1, <3>2, <3>3, <3>4, <3>5, <3>6, <3>7 DEF Sets
  <2> QED
    BY <2>6, <2>7
<1>5. ASSUME Terminate PROVE TypeOK' /\ Sets'
  <2> DEFINE p == current
             info == [processes[p] EXCEPT !.state = "Terminated"]
  <2>1. p \in Pid /\ Registered(p) /\ processes[p] \in ProcessInfo
    BY <1>0, <1>5 DEF Terminate, Sets, HeldRegistered, NotYetQueued, TypeOK
  <2>2. /\ processes' = [processes EXCEPT ![p] = info]
        /\ ready_queues' = [c \in Class |-> Retain(ready_queues[c], p)]
        /\ current' = NoPid /\ picked = NoPid
        /\ UNCHANGED <<next_pid, registering, picked>>
    BY <1>5 DEF Terminate
  <2>3. /\ ready_queues' \in [Class -> Seq(Pid)]
        /\ \A q \in Pid, d \in Class : InQueue(q, d)' <=> InQueue(q, d) /\ q # p
    BY <2>1, <2>2, RetainTakes
  <2>4. info \in ProcessInfo /\ info.class = processes[p].class
            /\ info.state = "Terminated" /\ info # NoProcess
    BY <1>0, <2>1 DEF ProcessInfo, State
  <2>5. processes'[p] = info /\ \A q \in Pid : q # p => processes'[q] = processes[q]
    BY <2>2, <2>1 DEF TypeOK
  <2> HIDE DEF info
  <2>6. TypeOK'
    BY <2>2, <2>3, <2>4 DEF TypeOK
  <2>7. Sets'
    <3>1. FreshPids'
      BY <1>0, <2>1, <2>2, <2>3, <2>4, <2>5 DEF Sets, FreshPids, Registered, InState
    <3>2. HeldRegistered'
      BY <1>0, <2>1, <2>2, <2>3, <2>4, <2>5 DEF Sets, HeldRegistered, Registered, InState
    <3>3. OwnClass'
      BY <1>0, <2>1, <2>2, <2>3, <2>4, <2>5 DEF Sets, OwnClass, Registered, InState
    <3>4. NotYetQueued'
      BY <1>0, <2>1, <2>2, <2>3, <2>4, <2>5 DEF Sets, NotYetQueued, HeldRegistered,
         Registered, InState, TerminatedIsGone, FreshPids, OwnClass
    <3>5. ReadyNotLost'
      BY <1>0, <2>1, <2>2, <2>3, <2>4, <2>5 DEF Sets, ReadyNotLost, Registered, InState
    <3>6. RunningIsCurrent'
      BY <1>0, <2>1, <2>2, <2>3, <2>4, <2>5 DEF Sets, RunningIsCurrent, Registered,
         InState, NotYetQueued, HeldRegistered, TerminatedIsGone, FreshPids, OwnClass
    <3>7. TerminatedIsGone'
      <4>1. ASSUME NEW q \in Pid, InState(q, "Terminated")'
            PROVE  q \notin {current', registering', picked'}
                  /\ \A d \in Class : ~InQueue(q, d)'
        <5>1. CASE q = p
          <6>1. q # registering /\ q # NoPid
            BY <1>0, <2>1, <5>1 DEF Sets, NotYetQueued
          <6> QED
            BY <2>2, <2>3, <5>1, <6>1
        <5>2. CASE q # p
          <6>1. InState(q, "Terminated") /\ q # NoPid
            BY <1>0, <2>5, <4>1, <5>2 DEF InState, Registered
          <6>2. q \notin {current, registering, picked} /\ \A d \in Class : ~InQueue(q, d)
            BY <6>1 DEF Sets, TerminatedIsGone
          <6> QED
            BY <2>2, <2>3, <6>1, <6>2
        <5> QED
          BY <5>1, <5>2
      <4> QED
        BY <4>1 DEF TerminatedIsGone
    <3> QED
      BY <3>1, <3>2, <3>3, <3>4, <3>5, <3>6, <3>7 DEF Sets
  <2> QED
    BY <2>6, <2>7
<1>6. ASSUME Schedule PROVE TypeOK' /\ Sets'
  <2>1. PICK c \in Class :
          /\ ready_queues[c] # << >> /\ picked = NoPid
          /\ picked' = Last(ready_queues[c])
          /\ ready_queues' = [ready_queues EXCEPT ![c] = Front(@)]
          /\ UNCHANGED <<processes, current, next_pid, registering>>
    BY <1>6 DEF Schedule
  <2>2. /\ picked' \in Pid /\ InQueue(picked', c)
        /\ ready_queues' \in [Class -> Seq(Pid)]
        /\ \A q \in Pid, d \in Class : InQueue(q, d)' => InQueue(q, d)
        /\ \A q \in Pid, d \in Class :
            InQueue(q, d) => InQueue(q, d)' \/ (d = c /\ q = picked')
    BY <2>1, PopTakes
  <2>3. TypeOK'
    BY <2>1, <2>2 DEF TypeOK
  <2>4. Sets'
    <3>1. FreshPids'
      BY <1>0, <2>1, <2>2 DEF Sets, FreshPids, Registered, InState, TypeOK, ProcessInfo
    <3>2. HeldRegistered'
      BY <1>0, <2>1, <2>2 DEF Sets, HeldRegistered, OwnClass, Registered
    <3>3. OwnClass'
      BY <1>0, <2>1, <2>2 DEF Sets, OwnClass, Registered, InState, TypeOK, ProcessInfo
    <3>4. NotYetQueued'
      BY <1>0, <2>1, <2>2 DEF Sets, NotYetQueued, HeldRegistered, Registered, InState,
         TypeOK, ProcessInfo, TerminatedIsGone, FreshPids, OwnClass
    <3>5. ReadyNotLost'
      BY <1>0, <2>1, <2>2 DEF Sets, ReadyNotLost, Registered, InState, TypeOK, ProcessInfo
    <3>6. RunningIsCurrent'
      BY <1>0, <2>1, <2>2 DEF Sets, RunningIsCurrent, Registered, InState, TypeOK,
         ProcessInfo, NotYetQueued, HeldRegistered, TerminatedIsGone, FreshPids, OwnClass
    <3>7. TerminatedIsGone'
      BY <1>0, <2>1, <2>2 DEF Sets, TerminatedIsGone, Registered, InState, TypeOK,
         ProcessInfo, NotYetQueued, HeldRegistered, FreshPids, OwnClass
    <3> QED
      BY <3>1, <3>2, <3>3, <3>4, <3>5, <3>6, <3>7 DEF Sets
  <2> QED
    BY <2>3, <2>4
<1>7. ASSUME SwitchTo PROVE TypeOK' /\ Sets'
  <2> DEFINE info(p, st) == [processes[p] EXCEPT !.state = st]
  <2>1. /\ picked \in Pid /\ Registered(picked) /\ processes[picked] \in ProcessInfo
        /\ current' = picked /\ picked' = NoPid /\ UNCHANGED <<next_pid, registering>>
    BY <1>0, <1>7 DEF SwitchTo, Sets, HeldRegistered, NotYetQueued, TypeOK
  <2>2. ASSUME NEW p \in Pid, Registered(p), NEW st \in {"Ready", "Running"}
        PROVE  info(p, st) \in ProcessInfo /\ info(p, st).state = st
              /\ info(p, st).class = processes[p].class /\ info(p, st) # NoProcess
    BY <1>0, <2>2 DEF ProcessInfo, State
  <2>3. CASE Preempts
    <3>1. current \in Pid /\ Registered(current) /\ processes[current].state = "Running"
              /\ processes[current].class \in Class
      BY <1>0, <2>3 DEF Preempts, InState, TypeOK, ProcessInfo
    <3>2. ready_queues' = Enqueued(current, processes[current].class)
      BY <1>7, <2>3 DEF SwitchTo
    <3>3. /\ ready_queues' \in [Class -> Seq(Pid)]
          /\ \A q \in Pid, d \in Class :
              InQueue(q, d)' <=> InQueue(q, d) \/ (q = current
                    /\ d = processes[current].class)
      BY <3>1, <3>2, EnqueueAdds
    <3>4. /\ processes' \in [Pid -> ProcessInfo \cup {NoProcess}]
          /\ \A q \in Pid : q \notin {current, picked} => processes'[q] = processes[q]
          /\ processes'[picked] # NoProcess /\ processes'[picked].state = "Running"
                /\ processes'[picked].class = processes[picked].class
          /\ current # picked => processes'[current] # NoProcess
                /\ processes'[current].state = "Ready"
                      /\ processes'[current].class = processes[current].class
      <4>1. Demoted = [processes EXCEPT ![current] = info(current, "Ready")]
        BY <2>3 DEF Demoted
      <4>2. info(current, "Ready") \in ProcessInfo
        BY <2>2, <3>1
      <4>3. /\ Demoted \in [Pid -> ProcessInfo \cup {NoProcess}]
            /\ Demoted[current] = info(current, "Ready")
            /\ \A q \in Pid : q # current => Demoted[q] = processes[q]
        BY <3>1, <4>1, <4>2 DEF TypeOK
      <4>4. Demoted[picked] \in ProcessInfo
                /\ Demoted[picked].class = processes[picked].class
        <5>1. info(current, "Ready").class = processes[current].class
          BY <2>2, <3>1
        <5> HIDE DEF info
        <5> QED
          BY <2>1, <4>2, <4>3, <5>1
      <4> DEFINE run == [Demoted[picked] EXCEPT !.state = "Running"]
      <4>5. run \in ProcessInfo /\ run.state = "Running"
                /\ run.class = processes[picked].class /\ run # NoProcess
        BY <1>0, <4>4 DEF ProcessInfo, State
      <4>6. processes' = [Demoted EXCEPT ![picked] = run]
        BY <1>7 DEF SwitchTo
      <4> HIDE DEF run, info
      <4>7. /\ processes' \in [Pid -> ProcessInfo \cup {NoProcess}]
            /\ processes'[picked] = run
            /\ \A q \in Pid : q # picked => processes'[q] = Demoted[q]
        BY <2>1, <4>3, <4>5, <4>6
      <4> QED
        BY <2>2, <3>1, <4>3, <4>5, <4>7
    <3> HIDE DEF info
    <3>5. TypeOK'
      BY <2>1, <3>3, <3>4 DEF TypeOK
    <3>6. Sets'
      <4>1. FreshPids'
        BY <1>0, <2>1, <3>1, <3>3, <3>4 DEF Sets, FreshPids, Registered, InState
      <4>2. HeldRegistered'
        BY <1>0, <2>1, <3>1, <3>3, <3>4 DEF Sets, HeldRegistered, Registered, InState
      <4>3. OwnClass'
        BY SMTT(30), <1>0, <2>1, <3>1, <3>3, <3>4 DEF Sets, OwnClass, Registered, InState
      <4>4. NotYetQueued'
        BY <1>0, <2>1, <3>1, <3>3, <3>4 DEF Sets, NotYetQueued, HeldRegistered, Registered,
           InState, TerminatedIsGone, FreshPids, OwnClass
      <4>5. ReadyNotLost'
        BY <1>0, <2>1, <3>1, <3>3, <3>4 DEF Sets, ReadyNotLost, Registered, InState
      <4>6. RunningIsCurrent'
        BY <1>0, <2>1, <3>1, <3>3, <3>4 DEF Sets, RunningIsCurrent, Registered, InState,
           NotYetQueued, HeldRegistered, TerminatedIsGone, FreshPids, OwnClass
      <4>7. TerminatedIsGone'
        <5>1. ASSUME NEW q \in Pid, InState(q, "Terminated")'
              PROVE  q \notin {current', registering', picked'}
                    /\ \A d \in Class : ~InQueue(q, d)'
          <6>1. q # picked /\ q # current
            BY <3>4, <5>1 DEF InState, Registered
          <6>2. InState(q, "Terminated") /\ q # NoPid
            BY <1>0, <3>4, <5>1, <6>1 DEF InState, Registered
          <6>3. q \notin {current, registering, picked} /\ \A d \in Class : ~InQueue(q, d)
            BY <6>2 DEF Sets, TerminatedIsGone
          <6> QED
            BY <2>1, <3>3, <6>1, <6>2, <6>3
        <5> QED
          BY <5>1 DEF TerminatedIsGone
      <4> QED
        BY <4>1, <4>2, <4>3, <4>4, <4>5, <4>6, <4>7 DEF Sets
    <3> QED
      BY <3>5, <3>6
  <2>4. CASE ~Preempts
    <3>1. ready_queues' = ready_queues
              /\ processes' = [processes EXCEPT ![picked] = info(picked, "Running")]
      BY <1>7, <2>4 DEF SwitchTo, Demoted
    <3>2. /\ info(picked, "Running") \in ProcessInfo
              /\ info(picked, "Running").state = "Running"
          /\ info(picked, "Running").class = processes[picked].class
                /\ info(picked, "Running") # NoProcess
      BY <2>1, <2>2
    <3> HIDE DEF info
    <3>3. processes'[picked] = info(picked, "Running") /\ \A q \in Pid : q # picked
              => processes'[q] = processes[q]
      BY <2>1, <3>1 DEF TypeOK
    <3>4. \A q \in Pid, d \in Class : InQueue(q, d)' <=> InQueue(q, d)
      BY <3>1 DEF InQueue
    <3>5. TypeOK'
      BY <2>1, <3>1, <3>2 DEF TypeOK
    <3>6. Sets'
      <4>1. FreshPids'
        BY <1>0, <2>1, <2>4, <3>2, <3>3, <3>4
           DEF Sets, FreshPids, Registered, InState, Preempts
      <4>2. HeldRegistered'
        BY <1>0, <2>1, <2>4, <3>2, <3>3, <3>4
           DEF Sets, HeldRegistered, Registered, InState, Preempts
      <4>3. OwnClass'
        BY <1>0, <2>1, <2>4, <3>2, <3>3, <3>4
           DEF Sets, OwnClass, Registered, InState, Preempts
      <4>4. NotYetQueued'
        BY <1>0, <2>1, <2>4, <3>2, <3>3, <3>4 DEF Sets, NotYetQueued, HeldRegistered,
           Registered, InState, Preempts, TerminatedIsGone, FreshPids, OwnClass
      <4>5. ReadyNotLost'
        BY <1>0, <2>1, <2>4, <3>2, <3>3, <3>4
           DEF Sets, ReadyNotLost, Registered, InState, Preempts
      <4>6. RunningIsCurrent'
        BY <1>0, <2>1, <2>4, <3>2, <3>3, <3>4 DEF Sets, RunningIsCurrent, Registered,
           InState, Preempts, NotYetQueued, HeldRegistered, TerminatedIsGone, FreshPids, OwnClass
      <4>7. TerminatedIsGone'
        BY <1>0, <2>1, <2>4, <3>2, <3>3, <3>4 DEF Sets, TerminatedIsGone, Registered,
           InState, Preempts, NotYetQueued, HeldRegistered, FreshPids, OwnClass
      <4> QED
        BY <4>1, <4>2, <4>3, <4>4, <4>5, <4>6, <4>7 DEF Sets
    <3> QED
      BY <3>5, <3>6
  <2> QED
    BY <2>3, <2>4
<1>8. CASE UNCHANGED vars
  BY <1>8 DEF vars, TypeOK, Sets, FreshPids, HeldRegistered, OwnClass, NotYetQueued,
     Registered, InState, ReadyNotLost, RunningIsCurrent, TerminatedIsGone, InQueue
<1> QED
  BY <1>1, <1>2, <1>3, <1>4, <1>5, <1>6, <1>7, <1>8 DEF Next, CpuStep

--------------------------------------------------------------------------------

(***************************************************************************)
(* The scheduler's invariant, for any number of processes and queues of    *)
(* any length: what it holds is registered and in the queue of its class,  *)
(* and at most the current process is marked Running.                      *)
(***************************************************************************)
THEOREM SchedulerInvariant == Spec => []SchedInv
BY InitSched, StepKeeps, PTL DEF Spec

(***************************************************************************)
(* wake, block, preemption and terminate never lose a Ready process.       *)
(***************************************************************************)
THEOREM NoReadyLost == Spec => []ReadyNotLost
<1>1. SchedInv => ReadyNotLost
  BY DEF SchedInv
<1> QED
  BY <1>1, SchedulerInvariant, PTL

(***************************************************************************)
(* A process that has called terminate is never scheduled again.           *)
(***************************************************************************)
THEOREM TerminatedNeverRuns == Spec => []TerminatedIsGone
<1>1. SchedInv => TerminatedIsGone
  BY DEF SchedInv
<1> QED
  BY <1>1, SchedulerInvariant, PTL

================================================================================
