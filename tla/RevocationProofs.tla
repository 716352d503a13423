--------------------------- MODULE RevocationProofs ----------------------------
(***************************************************************************)
(* Proofs about the revocation engine, for every set of tokens and callers *)
(* and every choice of hash functions of the bloom filter.                 *)
(***************************************************************************)
EXTENDS Revocation, SequenceTheorems, TLAPS

--------------------------------------------------------------------------------
(* That an answer of is_revoked stays is not inductive.  The answer is     *)
(* given by the set of revoked tokens, after the filter was asked; later   *)
(* calls ask the filter first.  So a call between its two questions must   *)
(* know that the filter still has the token.                               *)

FilterPassed ==
    \A c \in Callers :
        pc[c] = "ask_revoked" /\ use_bloom_filter => bits[call[c].token] \subseteq bloom

SeenStays == \A t \in seen : t \in revoked /\ (use_bloom_filter => bits[t] \subseteq bloom)

Shape == pc \in [Callers -> Step] /\ call = [c \in Callers |-> call[c]]

FinalInv == Shape /\ FilterPassed /\ SeenStays

(* what all steps but the two of is_revoked have in common *)
Quiet ==
    /\ revoked \subseteq revoked' /\ bloom \subseteq bloom'
    /\ seen' = seen
    /\ pc' \in [Callers -> Step] /\ call' = [c \in Callers |-> call'[c]]
    /\ \A d \in Callers : pc'[d] = "ask_revoked" => pc[d] = "ask_revoked"
          /\ call'[d] = call[d]

\* Such a step keeps the invariant.
LEMMA QuietKeeps == FinalInv /\ Quiet => FinalInv'
<1> SUFFICES ASSUME FinalInv, Quiet PROVE FinalInv'
  OBVIOUS
<1> USE DEF FinalInv, Quiet
<1>1. Shape'
  BY DEF Shape
<1>2. FilterPassed'
  BY DEF FilterPassed
<1>3. SeenStays'
  BY DEF SeenStays
<1> QED
  BY <1>1, <1>2, <1>3

\* A step that sends one caller to a program point other than ask_revoked,
\* and touches the locals of no other caller, moves nobody to ask_revoked.
LEMMA MoveIsQuiet ==
    ASSUME Shape, NEW c \in Callers, NEW step \in Step \ {"ask_revoked"},
           Goto(c, step),
           \/ call' = call
           \/ \E new : Set(c, new)
    PROVE  /\ pc' \in [Callers -> Step] /\ call' = [d \in Callers |-> call'[d]]
           /\ \A d \in Callers :
                pc'[d] = "ask_revoked" => pc[d] = "ask_revoked" /\ call'[d] = call[d]
<1>1. pc' \in [Callers -> Step] /\ pc'[c] = step
  BY DEF Shape, Goto
<1>2. \A d \in Callers : d # c => pc'[d] = pc[d]
  BY DEF Shape, Goto
<1>3. /\ call' = [d \in Callers |-> call'[d]]
      /\ \A d \in Callers : d # c => call'[d] = call[d]
  <2>1. CASE call' = call
    BY <2>1 DEF Shape
  <2>2. ASSUME NEW new, Set(c, new)
        PROVE  /\ call' = [d \in Callers |-> call'[d]]
               /\ \A d \in Callers : d # c => call'[d] = call[d]
    BY <2>2 DEF Shape, Set
  <2> QED
    BY <2>1, <2>2
<1> QED
  BY <1>1, <1>2, <1>3

--------------------------------------------------------------------------------

\* At the start no lookup has begun or been answered.
LEMMA InitFinal == Init => FinalInv
BY DEF Init, FinalInv, Shape, FilterPassed, SeenStays, Step

\* A lookup goes on to the set only if the filter has the token.
LEMMA AskPasses ==
    ASSUME FinalInv, NEW c \in Callers, NEW t \in Tokens, AskRevoked(c, t)
    PROVE  FinalInv'
<1> DEFINE args == [NoCall EXCEPT !.token = t]
<1>1. /\ use_bloom_filter => bits[t] \subseteq bloom
      /\ pc' = [pc EXCEPT ![c] = "ask_revoked"]
      /\ call' = [call EXCEPT ![c] = args]
      /\ bloom' = bloom /\ revoked' = revoked /\ seen' = seen
  BY DEF AskRevoked, Begin, Goto, Set, may_contain, engine, history
<1>2. args.token = t
  BY DEF NoCall
<1> HIDE DEF args
<1>3. Shape'
  BY <1>1 DEF FinalInv, Shape, Step
<1>4. /\ call'[c] = args
      /\ \A d \in Callers : d # c => call'[d] = call[d] /\ pc'[d] = pc[d]
  BY <1>1 DEF FinalInv, Shape
<1>5. FilterPassed'
  <2>1. use_bloom_filter => bits[call'[c].token] \subseteq bloom'
    BY <1>1, <1>2, <1>4
  <2>2. \A d \in Callers : d # c /\ pc'[d] = "ask_revoked" /\ use_bloom_filter
                            => bits[call'[d].token] \subseteq bloom'
    BY <1>1, <1>4 DEF FinalInv, FilterPassed
  <2> QED
    BY <2>1, <2>2 DEF FilterPassed
<1>6. SeenStays'
  BY <1>1 DEF FinalInv, SeenStays
<1> QED
  BY <1>3, <1>5, <1>6 DEF FinalInv

\* The answer is yes only for a token of the set that has passed the filter.
LEMMA AnswerStays ==
    ASSUME FinalInv, NEW c \in Callers, AskSet(c)
    PROVE  FinalInv'
<1>1. /\ pc[c] = "ask_revoked"
      /\ Goto(c, "idle") /\ Set(c, NoCall)
      /\ bloom' = bloom /\ revoked' = revoked
      /\ seen' = seen \cup ({call[c].token} \cap revoked)
  BY DEF AskSet, At, Return, engine
<1>2. /\ pc' \in [Callers -> Step] /\ call' = [d \in Callers |-> call'[d]]
      /\ \A d \in Callers :
            pc'[d] = "ask_revoked" => pc[d] = "ask_revoked" /\ call'[d] = call[d]
  <2>1. "idle" \in Step \ {"ask_revoked"}
    BY DEF Step
  <2> QED
    BY <1>1, <2>1, MoveIsQuiet DEF FinalInv
<1>3. Shape' /\ FilterPassed'
  BY <1>1, <1>2 DEF FinalInv, Shape, FilterPassed
<1>4. SeenStays'
  BY <1>1 DEF FinalInv, FilterPassed, SeenStays
<1> QED
  BY <1>3, <1>4 DEF FinalInv

\* A step of one caller elsewhere in the code, in which the set and the
\* filter at most grow.
LEMMA MoveKeeps ==
    ASSUME FinalInv, NEW c \in Callers,
           revoked \subseteq revoked', bloom \subseteq bloom', seen' = seen,
           \/ \E step \in Step \ {"ask_revoked"} : Goto(c, step)
           \/ pc' = pc /\ pc[c] # "ask_revoked",
           \/ call' = call
           \/ \E new : Set(c, new)
    PROVE  FinalInv'
<1>1. Shape
  BY DEF FinalInv
<1>2. CASE \E step \in Step \ {"ask_revoked"} : Goto(c, step)
  BY <1>1, <1>2, MoveIsQuiet, QuietKeeps DEF Quiet
<1>3. CASE pc' = pc /\ pc[c] # "ask_revoked"
  <2>1. pc[c] \in Step \ {"ask_revoked"} /\ Goto(c, pc[c])
    BY <1>1, <1>3 DEF Shape, Goto
  <2> QED
    BY <1>1, <2>1, MoveIsQuiet, QuietKeeps DEF Quiet
<1> QED
  BY <1>2, <1>3

\* Every operation of the engine, in its first step.
LEMMA CallBeginsKeeps ==
    ASSUME FinalInv, NEW c \in Callers, CallBegins(c)
    PROVE  FinalInv'
<1>1. ASSUME NEW reg \in Registrations, Register(c, reg) PROVE FinalInv'
  <2>1. "store_chain" \in Step \ {"ask_revoked"}
    BY DEF Step
  <2>2. /\ Goto(c, "store_chain") /\ \E new : Set(c, new)
        /\ revoked' = revoked /\ bloom' = bloom /\ seen' = seen
    BY <1>1 DEF Register, Begin, engine, history
  <2> QED
    BY <2>1, <2>2, MoveKeeps
<1>2. ASSUME CheckExpirations(c) PROVE FinalInv'
  <2>1. "lock_timed" \in Step \ {"ask_revoked"}
    BY DEF Step
  <2>2. /\ Goto(c, "lock_timed") /\ \E new : Set(c, new)
        /\ revoked' = revoked /\ bloom' = bloom /\ seen' = seen
    BY <1>2 DEF CheckExpirations, Begin, engine, history
  <2> QED
    BY <2>1, <2>2, MoveKeeps
<1>3. ASSUME NEW rev \in Revocations, Revoke(c, rev.token, rev.cascade)
          PROVE FinalInv'
  <2>1. "insert_revoked" \in Step \ {"ask_revoked"}
    BY DEF Step
  <2>2. /\ Goto(c, "insert_revoked") /\ \E new : Set(c, new)
        /\ revoked' = revoked /\ bloom' = bloom /\ seen' = seen
    BY <1>3 DEF Revoke, Begin, engine, history
  <2> QED
    BY <2>1, <2>2, MoveKeeps
<1>4. ASSUME NEW t \in Lookups, AskRevoked(c, t) PROVE FinalInv'
  BY <1>4, AskPasses, RevocationAssumption
<1>5. ASSUME NEW t \in Tokens, NEW duration \in Durations, Renew(c, t, duration)
          PROVE FinalInv'
  <2>1. "renew_expiry" \in Step \ {"ask_revoked"}
    BY DEF Step
  <2>2. /\ Goto(c, "renew_expiry") /\ \E new : Set(c, new)
        /\ revoked' = revoked /\ bloom' = bloom /\ seen' = seen
    BY <1>5 DEF Renew, Begin, engine, history
  <2> QED
    BY <2>1, <2>2, MoveKeeps
<1> QED
  BY <1>1, <1>2, <1>3, <1>4, <1>5 DEF CallBegins

\* Every operation of the engine, in its later steps.
LEMMA CallStepKeeps ==
    ASSUME FinalInv, NEW c \in Callers, CallStep(c)
    PROVE  FinalInv'
<1>1. ASSUME StoreChain(c) PROVE FinalInv'
  <2>1. "add_child" \in Step \ {"ask_revoked"}
    BY DEF Step
  <2>2. /\ Goto(c, "add_child") /\ call' = call
        /\ revoked \subseteq revoked' /\ bloom \subseteq bloom' /\ seen' = seen
    BY <1>1 DEF StoreChain, history
  <2> QED
    BY <2>1, <2>2, MoveKeeps
<1>2. ASSUME AddChild(c) PROVE FinalInv'
  <2>1. "idle" \in Step \ {"ask_revoked"} /\ "add_expiry" \in Step \ {"ask_revoked"}
    BY DEF Step
  <2>2. /\ (Goto(c, "idle") \/ Goto(c, "add_expiry")) /\ \E new : Set(c, new)
        /\ revoked \subseteq revoked' /\ bloom \subseteq bloom' /\ seen' = seen
    BY <1>2 DEF AddChild, Return, history
  <2> QED
    BY <2>1, <2>2, MoveKeeps
<1>3. ASSUME AddExpiry(c) PROVE FinalInv'
  <2>1. "idle" \in Step \ {"ask_revoked"}
    BY DEF Step
  <2>2. /\ Goto(c, "idle") /\ \E new : Set(c, new)
        /\ revoked \subseteq revoked' /\ bloom \subseteq bloom' /\ seen' = seen
    BY <1>3 DEF AddExpiry, Return, history
  <2> QED
    BY <2>1, <2>2, MoveKeeps
<1>4. ASSUME InsertRevoked(c) PROVE FinalInv'
  <2>1. "insert_bloom" \in Step \ {"ask_revoked"}
    BY DEF Step
  <2>2. /\ Goto(c, "insert_bloom") /\ call' = call
        /\ revoked \subseteq revoked' /\ bloom \subseteq bloom' /\ seen' = seen
    BY <1>4 DEF InsertRevoked, history
  <2> QED
    BY <2>1, <2>2, MoveKeeps
<1>5. ASSUME InsertBloom(c) PROVE FinalInv'
  <2>1. "read_children" \in Step \ {"ask_revoked"}
            /\ "next_child" \in Step \ {"ask_revoked"}
    BY DEF Step
  <2>2. /\ (Goto(c, "read_children") \/ Goto(c, "next_child")) /\ call' = call
        /\ revoked \subseteq revoked' /\ bloom \subseteq bloom' /\ seen' = seen
    BY <1>5 DEF InsertBloom, history
  <2> QED
    BY <2>1, <2>2, MoveKeeps
<1>6. ASSUME ReadChildren(c) PROVE FinalInv'
  <2>1. "next_child" \in Step \ {"ask_revoked"}
    BY DEF Step
  <2>2. /\ Goto(c, "next_child") /\ \E new : Set(c, new)
        /\ revoked \subseteq revoked' /\ bloom \subseteq bloom' /\ seen' = seen
    BY <1>6 DEF ReadChildren, engine, history
  <2> QED
    BY <2>1, <2>2, MoveKeeps
<1>7. ASSUME RevokeChild(c) PROVE FinalInv'
  <2>1. "insert_revoked" \in Step \ {"ask_revoked"}
    BY DEF Step
  <2>2. /\ Goto(c, "insert_revoked") /\ \E new : Set(c, new)
        /\ revoked \subseteq revoked' /\ bloom \subseteq bloom' /\ seen' = seen
    BY <1>7 DEF RevokeChild, engine, history
  <2> QED
    BY <2>1, <2>2, MoveKeeps
<1>8. ASSUME ChildrenDone(c) PROVE FinalInv'
  <2>1. pc[c] = "next_child"
    BY <1>8 DEF ChildrenDone, At
  <2>2. /\ pc' = pc /\ \E new : Set(c, new)
        /\ revoked \subseteq revoked' /\ bloom \subseteq bloom' /\ seen' = seen
    BY <1>8 DEF ChildrenDone, At, engine, history
  <2> QED
    BY <2>1, <2>2, MoveKeeps
<1>9. ASSUME RevokeReturns(c) PROVE FinalInv'
  <2>1. "idle" \in Step \ {"ask_revoked"}
    BY DEF Step
  <2>2. /\ Goto(c, "idle") /\ \E new : Set(c, new)
        /\ revoked \subseteq revoked' /\ bloom \subseteq bloom' /\ seen' = seen
    BY <1>9 DEF RevokeReturns, Return, engine, history
  <2> QED
    BY <2>1, <2>2, MoveKeeps
<1>10. ASSUME RenewExpiry(c) PROVE FinalInv'
  <2>1. "idle" \in Step \ {"ask_revoked"}
    BY DEF Step
  <2>2. /\ Goto(c, "idle") /\ \E new : Set(c, new)
        /\ revoked \subseteq revoked' /\ bloom \subseteq bloom' /\ seen' = seen
    BY <1>10 DEF RenewExpiry, Return, history
  <2> QED
    BY <2>1, <2>2, MoveKeeps
<1>11. ASSUME LockTimed(c) PROVE FinalInv'
  <2>1. "expire_bloom" \in Step \ {"ask_revoked"}
    BY DEF Step
  <2>2. /\ Goto(c, "expire_bloom") /\ \E new : Set(c, new)
        /\ revoked \subseteq revoked' /\ bloom \subseteq bloom' /\ seen' = seen
    BY <1>11 DEF LockTimed, history
  <2> QED
    BY <2>1, <2>2, MoveKeeps
<1>12. ASSUME ExpireRevoked(c) PROVE FinalInv'
  <2>1. "expire_bloom" \in Step \ {"ask_revoked"}
    BY DEF Step
  <2>2. /\ Goto(c, "expire_bloom") /\ \E new : Set(c, new)
        /\ revoked \subseteq revoked' /\ bloom \subseteq bloom' /\ seen' = seen
    BY <1>12 DEF ExpireRevoked, engine, history
  <2> QED
    BY <2>1, <2>2, MoveKeeps
<1>13. ASSUME ExpireReturns(c) PROVE FinalInv'
  <2>1. "idle" \in Step \ {"ask_revoked"}
    BY DEF Step
  <2>2. /\ Goto(c, "idle") /\ \E new : Set(c, new)
        /\ revoked \subseteq revoked' /\ bloom \subseteq bloom' /\ seen' = seen
    BY <1>13 DEF ExpireReturns, Return, history
  <2> QED
    BY <2>1, <2>2, MoveKeeps
<1>14. ASSUME ExpireBloom(c) PROVE FinalInv'
  <2>1. "expire_revoked" \in Step \ {"ask_revoked"} /\ pc[c] = "expire_bloom"
    BY <1>14 DEF Step, ExpireBloom, At
  <2>2. /\ Goto(c, "expire_revoked") \/ pc' = pc
        /\ \E new : Set(c, new)
        /\ revoked' = revoked /\ bloom' = bloom /\ seen' = seen
    BY <1>14 DEF ExpireBloom, engine, history
  <2> QED
    BY <2>1, <2>2, MoveKeeps
<1>15. ASSUME AskSet(c) PROVE FinalInv'
  BY <1>15, AnswerStays
<1> QED
  BY <1>1, <1>2, <1>3, <1>4, <1>5, <1>6, <1>7, <1>8, <1>9, <1>10, <1>11, <1>12, <1>13,
     <1>14, <1>15 DEF CallStep

(***************************************************************************)
(* is_revoked never goes back on its answer: what it has once reported as  *)
(* revoked, the filter and the set both keep, however calls interleave and *)
(* whatever hash functions the filter uses.                                *)
(***************************************************************************)
THEOREM RevocationIsFinal == Spec => []RevokedForGood
<1>1. FinalInv /\ [Next]_vars => FinalInv'
  <2> SUFFICES ASSUME FinalInv, [Next]_vars PROVE FinalInv'
    OBVIOUS
  <2>1. CASE Tick
    BY <2>1, QuietKeeps DEF Tick, Quiet, FinalInv, Shape, engine, history
  <2>2. ASSUME NEW c \in Callers, CallBegins(c) PROVE FinalInv'
    BY <2>2, CallBeginsKeeps
  <2>3. ASSUME NEW c \in Callers, CallStep(c) PROVE FinalInv'
    BY <2>3, CallStepKeeps
  <2>4. CASE UNCHANGED vars
    BY <2>4, QuietKeeps DEF Quiet, FinalInv, Shape, vars, engine, history
  <2> QED
    BY <2>1, <2>2, <2>3, <2>4 DEF Next
<1>2. FinalInv => RevokedForGood
  BY DEF FinalInv, SeenStays, RevokedForGood, IsRevoked, may_contain
<1> QED
  BY InitFinal, <1>1, <1>2, PTL DEF Spec

--------------------------------------------------------------------------------
(* Sequences: the stack of frames, the chains and the lists of children *)

LEMMA LastFacts ==
    ASSUME NEW S, NEW s \in Seq(S), s # << >>
    PROVE  /\ Len(s) \in Nat /\ Len(s) > 0
           /\ Last(s) = s[Len(s)] /\ Last(s) \in S
BY DEF Last

LEMMA FrontFacts ==
    ASSUME NEW S, NEW s \in Seq(S), s # << >>
    PROVE  /\ Front(s) \in Seq(S) /\ Len(Front(s)) = Len(s) - 1
           /\ \A i \in 1 .. Len(s) - 1 : Front(s)[i] = s[i]
<1> DEFINE k == Len(s) - 1
<1>1. k \in Nat /\ k < Len(s)
  OBVIOUS
<1>2. \A i \in 1 .. k : s[i] \in S
  BY <1>1
<1>3. Front(s) \in Seq(S) /\ \A i \in 1 .. Len(s) - 1 : Front(s)[i] = s[i]
  BY DEF Front
<1> HIDE DEF k
<1>4. Len(SubSeq(s, 1, k)) = IF 1 <= k THEN k - 1 + 1 ELSE 0
  BY <1>1, <1>2, SubSeqProperties
<1>5. (IF 1 <= k THEN k - 1 + 1 ELSE 0) = k
  BY <1>1
<1> QED
  BY <1>3, <1>4, <1>5 DEF Front, k

LEMMA AppendFacts ==
    ASSUME NEW S, NEW s \in Seq(S), NEW e \in S
    PROVE  /\ Append(s, e) \in Seq(S) /\ Len(Append(s, e)) = Len(s) + 1
           /\ \A i \in 1 .. Len(s) : Append(s, e)[i] = s[i]
           /\ Append(s, e)[Len(s) + 1] = e
OBVIOUS

LEMMA PushFacts ==
    ASSUME NEW S, NEW s \in Seq(S), NEW e \in S, NEW f \in S
    PROVE  /\ s \o <<e, f>> \in Seq(S) /\ Len(s \o <<e, f>>) = Len(s) + 2
           /\ \A i \in 1 .. Len(s) : (s \o <<e, f>>)[i] = s[i]
           /\ (s \o <<e, f>>)[Len(s) + 1] = e /\ (s \o <<e, f>>)[Len(s) + 2] = f
OBVIOUS

LEMMA TailFacts ==
    ASSUME NEW S, NEW s \in Seq(S), s # << >>
    PROVE  /\ Head(s) \in S /\ Tail(s) \in Seq(S)
           /\ \A i \in 1 .. Len(s) :
                s[i] = Head(s) \/ \E j \in 1 .. Len(Tail(s)) : Tail(s)[j] = s[i]
OBVIOUS

--------------------------------------------------------------------------------
(* The other results need the types of the locals of a call: which step    *)
(* has a token, and which a stack of frames.                               *)

CallRecord ==
    [token : Tokens \cup {NoToken}, parent : Tokens \cup {NoToken}, chain : Seq(Tokens),
     limit : Limit, duration : Nat, stack : Seq(Frame), cascade : BOOLEAN, goal : SUBSET Tokens,
     now : Nat, todo : SUBSET Tokens, found : SUBSET Tokens]

RegisterSteps == {"store_chain", "add_child"}
RevokeSteps == {"insert_revoked", "insert_bloom", "read_children", "next_child"}
TokenSteps ==
    RegisterSteps \cup {"add_expiry", "renew_expiry", "ask_revoked", "expire_revoked"}

EngineTyped ==
    /\ revoked \subseteq Tokens /\ bloom \subseteq Bits
    /\ chains \in [Tokens -> Seq(Tokens)] /\ children \in [Tokens -> Seq(Tokens)]
    /\ timed_tokens \subseteq Nat \X Tokens /\ timed_lock \in Callers \cup {NoToken}
    /\ time_limit \in [Tokens -> Limit]
    /\ now \in 0 .. MaxTime
    /\ promised \subseteq Tokens /\ seen \subseteq Tokens /\ expired \subseteq Tokens

Typed ==
    /\ EngineTyped
    /\ pc \in [Callers -> Step]
    /\ call \in [Callers -> CallRecord]
    /\ \A c \in Callers : pc[c] \in TokenSteps => call[c].token \in Tokens
    /\ \A c \in Callers : pc[c] \in RevokeSteps => call[c].stack # << >>

LEMMA NoCallTyped == NoCall \in CallRecord /\ NoCall.todo = {} /\ NoCall.found = {}
BY DEF NoCall, CallRecord, Limit

\* What a step of one caller may do to the locals.
LEMMA Moves ==
    ASSUME Typed, EngineTyped', NEW c \in Callers, NEW step \in Step, Goto(c, step),
           NEW new \in CallRecord, Set(c, new),
           step \in TokenSteps => new.token \in Tokens,
           step \in RevokeSteps => new.stack # << >>
    PROVE  Typed'
<1>1. /\ pc' \in [Callers -> Step] /\ pc'[c] = step
      /\ call' \in [Callers -> CallRecord] /\ call'[c] = new
      /\ \A d \in Callers : d # c => pc'[d] = pc[d] /\ call'[d] = call[d]
  BY DEF Typed, Goto, Set
<1> QED
  BY <1>1 DEF Typed

LEMMA InitTyped == Init => Typed
<1> SUFFICES ASSUME Init PROVE Typed
  OBVIOUS
<1>1. << >> \in Seq(Tokens)
  OBVIOUS
<1>2. EngineTyped
  BY <1>1, RevocationAssumption DEF Init, EngineTyped, Limit
<1>3. /\ pc \in [Callers -> Step] /\ call \in [Callers -> CallRecord]
      /\ \A c \in Callers : pc[c] = "idle"
  BY NoCallTyped DEF Init, Step
<1> QED
  BY <1>2, <1>3 DEF Typed, TokenSteps, RegisterSteps, RevokeSteps

LEMMA RevokeArguments ==
    \A rev \in Revocations : rev.token \in Tokens /\ rev.cascade \in BOOLEAN
BY RevocationAssumption

\* The first step of each operation sets all the locals.
LEMMA BeginsTyped ==
    ASSUME Typed, NEW c \in Callers, CallBegins(c)
    PROVE  Typed'
<1> USE DEF Step, TokenSteps, RegisterSteps, RevokeSteps
<1>1. ASSUME NEW reg \in Registrations, Register(c, reg) PROVE Typed'
  <2> DEFINE chain == IF reg.parent = NoToken THEN <<reg.token>>
                      ELSE Append(Chain(reg.parent), reg.token)
             new == [NoCall EXCEPT !.token = reg.token, !.parent = reg.parent,
                                   !.limit = reg.limit, !.duration = reg.duration,
                                   !.chain = chain]
  <2>1. /\ reg.token \in Tokens /\ reg.parent \in Tokens \cup {NoToken}
        /\ reg.limit \in Limit /\ reg.duration \in Nat
    BY RevocationAssumption DEF Registration
  <2>2. chain \in Seq(Tokens)
    BY <2>1 DEF Typed, EngineTyped, Chain
  <2>3. new \in CallRecord /\ new.token = reg.token
    <3> HIDE DEF chain
    <3> QED
      BY <2>1, <2>2, NoCallTyped DEF CallRecord
  <2>4. Goto(c, "store_chain") /\ Set(c, new)
    BY <1>1 DEF Register, Begin
  <2>5. EngineTyped'
    BY <1>1 DEF Register, EngineTyped, Typed, engine, history
  <2> HIDE DEF new
  <2> QED
    BY <2>1, <2>3, <2>4, <2>5, Moves
<1>2. CASE CheckExpirations(c)
  <2> DEFINE new == [NoCall EXCEPT !.now = now]
  <2>1. new \in CallRecord
    <3>1. now \in Nat
      BY RevocationAssumption DEF Typed, EngineTyped
    <3> QED
      BY <3>1, NoCallTyped DEF CallRecord
  <2>2. Goto(c, "lock_timed") /\ Set(c, new) /\ EngineTyped'
    BY <1>2 DEF CheckExpirations, Begin, Typed, EngineTyped, engine, history
  <2> HIDE DEF new
  <2> QED
    BY <2>1, <2>2, Moves
<1>3. ASSUME NEW t \in Tokens, NEW cascade \in BOOLEAN, Revoke(c, t, cascade) PROVE Typed'
  <2> DEFINE goal == IF cascade \/ default_cascade THEN Below(t) ELSE {t}
             frame == [token |-> t, todo |-> << >>]
             new == [NoCall EXCEPT !.stack = <<frame>>, !.cascade = cascade, !.goal = goal]
  <2>1. goal \subseteq Tokens
    BY DEF Below
  <2>2. frame \in Frame
    BY DEF Frame
  <2>3. Goto(c, "insert_revoked") /\ Set(c, new) /\ EngineTyped'
    BY <1>3 DEF Revoke, Begin, Typed, EngineTyped, engine, history
  <2> HIDE DEF goal, frame
  <2>4. new \in CallRecord /\ new.stack # << >>
    <3>1. <<frame>> \in Seq(Frame) /\ <<frame>> # << >>
      BY <2>2
    <3> QED
      BY <2>1, <3>1, NoCallTyped DEF CallRecord
  <2> HIDE DEF new
  <2> QED
    BY <2>3, <2>4, Moves
<1>4. ASSUME NEW t \in Lookups, AskRevoked(c, t) PROVE Typed'
  <2> DEFINE new == [NoCall EXCEPT !.token = t]
  <2>1. new \in CallRecord /\ new.token \in Tokens
    BY RevocationAssumption, NoCallTyped DEF CallRecord
  <2>2. Goto(c, "ask_revoked") /\ Set(c, new) /\ EngineTyped'
    BY <1>4 DEF AskRevoked, Begin, Typed, EngineTyped, engine, history
  <2> HIDE DEF new
  <2> QED
    BY <2>1, <2>2, Moves
<1>5. ASSUME NEW t \in Tokens, NEW duration \in Durations, Renew(c, t, duration)
      PROVE  Typed'
  <2> DEFINE new == [NoCall EXCEPT !.token = t, !.duration = duration, !.now = now]
  <2>1. new \in CallRecord /\ new.token \in Tokens
    <3>1. duration \in Nat /\ now \in Nat
      BY RevocationAssumption DEF Typed, EngineTyped
    <3> QED
      BY <3>1, NoCallTyped DEF CallRecord
  <2>2. Goto(c, "renew_expiry") /\ Set(c, new) /\ EngineTyped'
    BY <1>5 DEF Renew, Begin, Typed, EngineTyped, engine, history
  <2> HIDE DEF new
  <2> QED
    BY <2>1, <2>2, Moves
<1> QED
  BY <1>1, <1>2, <1>3, <1>4, <1>5, RevokeArguments DEF CallBegins

\* The innermost frame, and the stacks the steps of a revocation make of it.
LEMMA TopFrame ==
    ASSUME Typed, NEW c \in Callers, pc[c] \in RevokeSteps
    PROVE  /\ call[c] \in CallRecord /\ call[c].stack \in Seq(Frame)
           /\ call[c].stack # << >>
           /\ Top(c) = Last(call[c].stack) /\ Top(c) \in Frame
           /\ Top(c).token \in Tokens /\ Top(c).todo \in Seq(Tokens)
<1>1. call[c] \in CallRecord /\ call[c].stack \in Seq(Frame) /\ call[c].stack # << >>
  BY DEF Typed, CallRecord
<1>2. Top(c) = Last(call[c].stack) /\ Top(c) \in Frame
  BY <1>1, LastFacts DEF Top
<1> QED
  BY <1>1, <1>2 DEF Frame

LEMMA StepsTyped ==
    ASSUME Typed, NEW c \in Callers, CallStep(c)
    PROVE  Typed'
<1> USE DEF Step, TokenSteps, RegisterSteps, RevokeSteps
<1>1. call[c] \in CallRecord
  BY DEF Typed
<1>2. ASSUME Return(c), EngineTyped' PROVE Typed'
  BY <1>2, NoCallTyped, Moves DEF Return
<1>3. ASSUME NEW step \in Step, Goto(c, step), call' = call, EngineTyped',
             step \in TokenSteps => call[c].token \in Tokens,
             step \in RevokeSteps => call[c].stack # << >>
      PROVE  Typed'
  <2>1. Set(c, call[c])
    BY <1>3 DEF Typed, Set
  <2> QED
    BY <1>1, <1>3, <2>1, Moves
<1>4. CASE StoreChain(c)
  <2>1. call[c].token \in Tokens /\ call[c].chain \in Seq(Tokens) /\ call[c].limit \in Limit
    BY <1>1, <1>4 DEF StoreChain, At, Typed, CallRecord
  <2>2. EngineTyped'
    BY <1>4, <2>1 DEF StoreChain, Typed, EngineTyped, history
  <2> QED
    BY <1>3, <1>4, <2>1, <2>2 DEF StoreChain
<1>5. CASE AddChild(c)
  <2>1. call[c].token \in Tokens /\ call[c].parent \in Tokens \cup {NoToken}
    BY <1>1, <1>5 DEF AddChild, At, Typed, CallRecord
  <2>2. children' \in [Tokens -> Seq(Tokens)]
    <3>1. CASE call[c].parent = NoToken
      BY <1>5, <3>1 DEF AddChild, Typed, EngineTyped
    <3>2. CASE call[c].parent # NoToken
      <4> DEFINE new == Append(children[call[c].parent], call[c].token)
      <4>1. children' = [children EXCEPT ![call[c].parent] = new]
        BY <1>5, <3>2 DEF AddChild
      <4>2. new \in Seq(Tokens)
        BY <2>1, <3>2, AppendFacts DEF Typed, EngineTyped
      <4> HIDE DEF new
      <4> QED
        BY <4>1, <4>2 DEF Typed, EngineTyped
    <3> QED
      BY <3>1, <3>2
  <2>3. EngineTyped'
    BY <1>5, <2>2 DEF AddChild, Typed, EngineTyped, history
  <2>4. CASE Return(c)
    BY <1>2, <2>3, <2>4
  <2>5. CASE Goto(c, "add_expiry") /\ Set(c, [call[c] EXCEPT !.now = now])
    <3>1. now \in Nat
      BY RevocationAssumption DEF Typed, EngineTyped
    <3>2. /\ [call[c] EXCEPT !.now = now] \in CallRecord
          /\ [call[c] EXCEPT !.now = now].token = call[c].token
      BY <1>1, <3>1 DEF CallRecord
    <3> QED
      BY <2>1, <2>3, <2>5, <3>2, Moves
  <2> QED
    BY <1>5, <2>4, <2>5 DEF AddChild
<1>6. CASE AddExpiry(c) \/ RenewExpiry(c)
  <2>1. call[c].token \in Tokens /\ call[c].now \in Nat /\ call[c].duration \in Nat
    BY <1>1, <1>6 DEF AddExpiry, RenewExpiry, At, Typed, CallRecord
  <2>2. PICK read \in call[c].now .. now :
          timed_tokens' = timed_tokens \cup {<<read + call[c].duration, call[c].token>>}
    BY <1>6 DEF AddExpiry, RenewExpiry, PushExpiry
  <2>3. read + call[c].duration \in Nat
    BY <2>1, RevocationAssumption DEF Typed, EngineTyped
  <2>4. EngineTyped'
    BY <1>6, <2>1, <2>2, <2>3 DEF AddExpiry, RenewExpiry, Typed, EngineTyped, history
  <2> QED
    BY <1>2, <1>6, <2>4 DEF AddExpiry, RenewExpiry
<1>7. CASE InsertRevoked(c)
  <2>1. Top(c).token \in Tokens /\ call[c].stack # << >>
    BY <1>7, TopFrame DEF InsertRevoked, At
  <2>2. EngineTyped'
    BY <1>7, <2>1 DEF InsertRevoked, Typed, EngineTyped, history
  <2> QED
    BY <1>3, <1>7, <2>1, <2>2 DEF InsertRevoked
<1>8. CASE InsertBloom(c)
  <2>1. Top(c).token \in Tokens /\ call[c].stack # << >>
    BY <1>8, TopFrame DEF InsertBloom, At
  <2>2. bits[Top(c).token] \subseteq Bits
    BY <2>1, RevocationAssumption
  <2>3. EngineTyped'
    BY <1>8, <2>2 DEF InsertBloom, Typed, EngineTyped, history
  <2>4. PICK step \in {"read_children", "next_child"} : Goto(c, step)
    BY <1>8 DEF InsertBloom
  <2> QED
    BY <1>3, <1>8, <2>1, <2>3, <2>4 DEF InsertBloom
<1>9. ASSUME UNCHANGED <<engine, now, history>> PROVE EngineTyped'
  BY <1>9 DEF Typed, EngineTyped, engine, history
<1>10. ASSUME NEW s \in Seq(Frame), s # << >>, NEW step \in RevokeSteps, Goto(c, step),
              \/ Set(c, [call[c] EXCEPT !.stack = s])
              \/ Set(c, [call[c] EXCEPT !.cascade = TRUE, !.stack = s]),
              UNCHANGED <<engine, now, history>>
       PROVE  Typed'
  <2>1. /\ [call[c] EXCEPT !.stack = s] \in CallRecord
        /\ [call[c] EXCEPT !.stack = s].stack = s
        /\ [call[c] EXCEPT !.cascade = TRUE, !.stack = s] \in CallRecord
        /\ [call[c] EXCEPT !.cascade = TRUE, !.stack = s].stack = s
    BY <1>1 DEF CallRecord
  <2> QED
    BY <1>9, <1>10, <2>1, Moves
<1>11. CASE ReadChildren(c)
  <2> DEFINE f == [Top(c) EXCEPT !.todo = children[Top(c).token]]
             s == Append(Front(call[c].stack), f)
  <2>1. /\ call[c].stack \in Seq(Frame) /\ call[c].stack # << >> /\ Top(c) \in Frame
        /\ Top(c).token \in Tokens
    BY <1>11, TopFrame DEF ReadChildren, At
  <2>2. f \in Frame
    BY <2>1 DEF Frame, Typed, EngineTyped
  <2>3. Set(c, [call[c] EXCEPT !.stack = s])
    BY <1>11 DEF ReadChildren
  <2> HIDE DEF f
  <2>4. s \in Seq(Frame) /\ s # << >>
    BY <2>1, <2>2, FrontFacts, AppendFacts
  <2> HIDE DEF s
  <2> QED
    BY <1>10, <1>11, <2>3, <2>4 DEF ReadChildren
<1>12. CASE RevokeChild(c)
  <2> DEFINE f == [Top(c) EXCEPT !.todo = Tail(@)]
             g == [token |-> Head(Top(c).todo), todo |-> << >>]
             s == Front(call[c].stack) \o <<f, g>>
  <2>1. /\ call[c].stack \in Seq(Frame) /\ call[c].stack # << >> /\ Top(c) \in Frame
        /\ Top(c).todo \in Seq(Tokens) /\ Top(c).todo # << >>
    BY <1>12, TopFrame DEF RevokeChild, At
  <2>2. f \in Frame /\ g \in Frame
    <3>1. Head(Top(c).todo) \in Tokens /\ Tail(Top(c).todo) \in Seq(Tokens)
      BY <2>1, TailFacts
    <3>2. f \in Frame
      BY <2>1, <3>1 DEF Frame
    <3>3. g \in Frame
      BY <3>1 DEF Frame
    <3> QED
      BY <3>2, <3>3
  <2>3. Set(c, [call[c] EXCEPT !.cascade = TRUE, !.stack = s])
    BY <1>12 DEF RevokeChild
  <2> HIDE DEF f, g
  <2>4. s \in Seq(Frame) /\ s # << >>
    BY <2>1, <2>2, FrontFacts, PushFacts
  <2> HIDE DEF s
  <2> QED
    BY <1>10, <1>12, <2>3, <2>4 DEF RevokeChild
<1>13. CASE ChildrenDone(c)
  <2>1. call[c].stack \in Seq(Frame) /\ call[c].stack # << >> /\ Len(call[c].stack) > 1
    BY <1>13, TopFrame DEF ChildrenDone, At
  <2>2. Front(call[c].stack) \in Seq(Frame) /\ Front(call[c].stack) # << >>
    BY <2>1, FrontFacts
  <2>3. Goto(c, "next_child")
    BY <1>13 DEF ChildrenDone, At, Goto, Typed
  <2> QED
    BY <1>10, <1>13, <2>2, <2>3 DEF ChildrenDone
<1>14. CASE RevokeReturns(c)
  <2>1. call[c].goal \subseteq Tokens
    BY <1>1 DEF CallRecord
  <2>2. EngineTyped'
    BY <1>14, <2>1 DEF RevokeReturns, Typed, EngineTyped, engine
  <2> QED
    BY <1>2, <1>14, <2>2 DEF RevokeReturns
<1>15. CASE AskSet(c)
  <2>1. call[c].token \in Tokens
    BY <1>15 DEF AskSet, At, Typed
  <2>2. EngineTyped'
    BY <1>15, <2>1 DEF AskSet, Typed, EngineTyped, engine
  <2> QED
    BY <1>2, <1>15, <2>2 DEF AskSet
<1>16. CASE LockTimed(c)
  <2> DEFINE S == {e[2] : e \in Due(c)}
  <2>1. S \subseteq Tokens
    BY DEF Due, Typed, EngineTyped
  <2>2. EngineTyped'
    BY <1>16 DEF LockTimed, Due, Typed, EngineTyped, history
  <2> HIDE DEF S
  <2>3. [call[c] EXCEPT !.todo = S] \in CallRecord
    BY <1>1, <2>1 DEF CallRecord
  <2> QED
    BY <1>16, <2>2, <2>3, Moves DEF LockTimed, S
<1>17. CASE ExpireBloom(c)
  <2>1. PICK t \in call[c].todo :
          \/ Set(c, [call[c] EXCEPT !.token = t]) /\ Goto(c, "expire_revoked")
          \/ /\ Set(c, [call[c] EXCEPT !.todo = @ \ {t}, !.found = @ \cup {t}])
             /\ UNCHANGED pc
    BY <1>17 DEF ExpireBloom
  <2>2. t \in Tokens
    BY <1>1 DEF CallRecord
  <2>3. EngineTyped'
    BY <1>9, <1>17 DEF ExpireBloom
  <2>4. CASE Set(c, [call[c] EXCEPT !.token = t]) /\ Goto(c, "expire_revoked")
    <3>1. /\ [call[c] EXCEPT !.token = t] \in CallRecord
          /\ [call[c] EXCEPT !.token = t].token = t
      BY <1>1, <2>2 DEF CallRecord
    <3> QED
      BY <2>2, <2>3, <2>4, <3>1, Moves
  <2>5. CASE /\ Set(c, [call[c] EXCEPT !.todo = @ \ {t}, !.found = @ \cup {t}])
             /\ UNCHANGED pc
    <3>1. [call[c] EXCEPT !.todo = @ \ {t}, !.found = @ \cup {t}] \in CallRecord
      BY <1>1, <2>2 DEF CallRecord
    <3>2. Goto(c, "expire_bloom")
      BY <1>17, <2>5 DEF ExpireBloom, At, Goto, Typed
    <3> QED
      BY <2>3, <2>5, <3>1, <3>2, Moves
  <2> QED
    BY <2>1, <2>4, <2>5
<1>18. CASE ExpireRevoked(c)
  <2> DEFINE t == call[c].token
             new == [call[c] EXCEPT !.todo = @ \ {t}, !.token = NoToken,
                                    !.found = @ \cup ({t} \ revoked)]
  <2>1. t \in Tokens
    BY <1>18 DEF ExpireRevoked, At, Typed
  <2>2. Set(c, new) /\ Goto(c, "expire_bloom") /\ EngineTyped'
    BY <1>9, <1>18 DEF ExpireRevoked
  <2> HIDE DEF t
  <2>3. new \in CallRecord
    BY <1>1, <2>1 DEF CallRecord
  <2> HIDE DEF new
  <2> QED
    BY <2>2, <2>3, Moves
<1>19. CASE ExpireReturns(c)
  <2>1. call[c].found \subseteq Tokens
    BY <1>1 DEF CallRecord
  <2>2. EngineTyped'
    BY <1>19, <2>1 DEF ExpireReturns, Typed, EngineTyped
  <2> QED
    BY <1>2, <1>19, <2>2 DEF ExpireReturns
<1> QED
  BY <1>4, <1>5, <1>6, <1>7, <1>8, <1>11, <1>12, <1>13, <1>14, <1>15, <1>16, <1>17,
     <1>18, <1>19 DEF CallStep

LEMMA AlwaysTyped == Spec => []Typed
<1>1. ASSUME Typed, [Next]_vars PROVE Typed'
  <2>1. CASE Tick
    <3>1. EngineTyped'
      BY <1>1, <2>1, RevocationAssumption DEF Tick, Typed, EngineTyped, engine, history
    <3> QED
      BY <1>1, <2>1, <3>1 DEF Tick, Typed
  <2>2. CASE UNCHANGED vars
    BY <1>1, <2>2 DEF Typed, EngineTyped, vars, engine, history
  <2> QED
    BY <1>1, <2>1, <2>2, BeginsTyped, StepsTyped DEF Next
<1> QED
  BY <1>1, InitTyped, PTL DEF Spec

\* A step is the step of one caller.
LEMMA OthersStay ==
    ASSUME Typed, NEW c \in Callers, CallBegins(c) \/ CallStep(c)
    PROVE  \A d \in Callers : d # c => pc'[d] = pc[d] /\ call'[d] = call[d]
<1>1. (\E step : Goto(c, step)) \/ pc' = pc
  <2>1. ASSUME CallBegins(c) PROVE \E step : Goto(c, step)
    BY <2>1 DEF CallBegins, Register, CheckExpirations, Revoke, AskRevoked, Renew, Begin
  <2>2. ASSUME CallStep(c) PROVE (\E step : Goto(c, step)) \/ pc' = pc
    BY <2>2 DEF CallStep, StoreChain, AddChild, AddExpiry, InsertRevoked, InsertBloom,
                ReadChildren, RevokeChild, ChildrenDone, RevokeReturns, AskSet, RenewExpiry,
                LockTimed, ExpireBloom, ExpireRevoked, ExpireReturns, Return
  <2> QED
    BY <2>1, <2>2
<1>2. (\E new : Set(c, new)) \/ call' = call
  <2>1. ASSUME CallBegins(c) PROVE \E new : Set(c, new)
    BY <2>1 DEF CallBegins, Register, CheckExpirations, Revoke, AskRevoked, Renew, Begin
  <2>2. ASSUME CallStep(c) PROVE (\E new : Set(c, new)) \/ call' = call
    BY <2>2 DEF CallStep, StoreChain, AddChild, AddExpiry, InsertRevoked, InsertBloom,
                ReadChildren, RevokeChild, ChildrenDone, RevokeReturns, AskSet, RenewExpiry,
                LockTimed, ExpireBloom, ExpireRevoked, ExpireReturns, Return
  <2> QED
    BY <2>1, <2>2
<1> QED
  BY <1>1, <1>2 DEF Goto, Set, Typed

--------------------------------------------------------------------------------
(* The two records of a delegation.  A link is in the children list before *)
(* its registration returns, and stays there; so the chain a registration  *)
(* builds on its parent's has its links, all but the last one, listed or   *)
(* about to be.  The last one the registration adds itself.                *)

ChainOf(t) ==
    Registered(t) =>
        /\ chains[t][Len(chains[t])] = t
        /\ \A i \in 1 .. Len(chains[t]) - 1 : Linked(chains[t][i], chains[t][i + 1])

Carries(c) ==
    pc[c] = "store_chain" =>
        /\ Len(call[c].chain) > 0 /\ call[c].chain[Len(call[c].chain)] = call[c].token
        /\ Len(call[c].chain) > 1 => call[c].chain[Len(call[c].chain) - 1] = call[c].parent
        /\ \A i \in 1 .. Len(call[c].chain) - 2 :
                Linked(call[c].chain[i], call[c].chain[i + 1])

ChainInv == (\A t \in Tokens : ChainOf(t)) /\ (\A c \in Callers : Carries(c))

\* The locals of a registration.
LEMMA RegisterLocals ==
    ASSUME Typed, NEW c \in Callers, pc[c] \in RegisterSteps
    PROVE  /\ call[c].token \in Tokens /\ call[c].chain \in Seq(Tokens)
           /\ call[c].parent # NoToken => call[c].parent \in Tokens
BY DEF Typed, TokenSteps, CallRecord

\* The children lists only grow, and a registration about to add a link
\* does so in its next step.
LEMMA ChildrenGrow ==
    ASSUME Typed, NEW c \in Callers, CallBegins(c) \/ CallStep(c)
    PROVE  /\ \A p \in Tokens, t \in Tokens :
                Contains(children[p], t) => Contains(children[p], t)'
           /\ pc[c] = "add_child" /\ call[c].parent # NoToken =>
                Contains(children'[call[c].parent], call[c].token)
           /\ pc[c] # "add_child" => children' = children
<1>1. CASE AddChild(c)
  <2>1. pc[c] = "add_child" /\ pc[c] \in RegisterSteps
    BY <1>1 DEF AddChild, At, RegisterSteps
  <2>2. CASE call[c].parent = NoToken
    BY <1>1, <2>1, <2>2 DEF AddChild
  <2>3. CASE call[c].parent # NoToken
    <3> DEFINE t == call[c].token
               p == call[c].parent
               new == Append(children[p], t)
    <3>1. t \in Tokens /\ p \in Tokens /\ children[p] \in Seq(Tokens)
      BY <2>1, <2>3, RegisterLocals DEF Typed, EngineTyped
    <3>2. children'[p] = new /\ \A q \in Tokens : q # p => children'[q] = children[q]
      BY <1>1, <2>3, <3>1 DEF AddChild, Typed, EngineTyped
    <3>3. /\ Len(new) = Len(children[p]) + 1 /\ new[Len(children[p]) + 1] = t
          /\ \A i \in 1 .. Len(children[p]) : new[i] = children[p][i]
      BY <3>1, AppendFacts
    <3> HIDE DEF new, p, t
    <3>4. \A q \in Tokens : \A i \in 1 .. Len(children[q]) :
            i \in 1 .. Len(children'[q]) /\ children'[q][i] = children[q][i]
      BY <3>1, <3>2, <3>3
    <3>5. \A q \in Tokens, u \in Tokens :
            Contains(children[q], u) => Contains(children'[q], u)
      BY <3>4 DEF Contains
    <3>6. Len(children[p]) + 1 \in 1 .. Len(new)
      BY <3>1, <3>3
    <3>7. Contains(children'[p], t)
      BY <3>2, <3>3, <3>6 DEF Contains
    <3> QED
      BY <2>1, <3>5, <3>7 DEF p, t
  <2> QED
    BY <2>2, <2>3
<1>2. CASE ~AddChild(c)
  <2>1. pc[c] # "add_child" /\ children' = children
    <3>1. CASE CallBegins(c)
      BY <3>1 DEF CallBegins, Register, CheckExpirations, Revoke, AskRevoked, Renew, Begin,
                  At, engine
    <3>2. CASE CallStep(c)
      BY <1>2, <3>2
         DEF CallStep, StoreChain, AddExpiry, InsertRevoked, InsertBloom, ReadChildren,
             RevokeChild, ChildrenDone, RevokeReturns, AskSet, RenewExpiry, LockTimed,
             ExpireBloom, ExpireRevoked, ExpireReturns, At, engine
    <3> QED
      BY <3>1, <3>2
  <2> QED
    BY <2>1
<1> QED
  BY <1>1, <1>2

\* Hence a link stays a link.
LEMMA LinksStay ==
    ASSUME Typed, NEW c \in Callers, CallBegins(c) \/ CallStep(c)
    PROVE  \A p \in Tokens, t \in Tokens : Linked(p, t) => Linked(p, t)'
<1> SUFFICES ASSUME NEW p \in Tokens, NEW t \in Tokens, Linked(p, t) PROVE Linked(p, t)'
  OBVIOUS
<1>1. CASE Contains(children[p], t)
  BY <1>1, ChildrenGrow DEF Linked
<1>2. ASSUME NEW d \in Callers, pc[d] = "add_child", call[d].parent = p, call[d].token = t
      PROVE  Linked(p, t)'
  <2>1. CASE d = c
    <3>1. call[c].parent # NoToken
      BY <1>2, <2>1, RevocationAssumption
    <3> QED
      BY <1>2, <2>1, <3>1, ChildrenGrow DEF Linked
  <2>2. CASE d # c
    BY <1>2, <2>2, OthersStay DEF Linked, At
  <2> QED
    BY <2>1, <2>2
<1> QED
  BY <1>1, <1>2 DEF Linked, At

\* The links of a sequence of tokens stay links.
LEMMA LinksOfStay ==
    ASSUME Typed, NEW c \in Callers, CallBegins(c) \/ CallStep(c), NEW s \in Seq(Tokens),
           NEW n \in Int, n < Len(s), \A i \in 1 .. n : Linked(s[i], s[i + 1])
    PROVE  \A i \in 1 .. n : Linked(s[i], s[i + 1])'
<1> SUFFICES ASSUME NEW i \in 1 .. n PROVE Linked(s[i], s[i + 1])'
  OBVIOUS
<1>1. s[i] \in Tokens /\ s[i + 1] \in Tokens
  OBVIOUS
<1>2. ASSUME NEW p \in Tokens, NEW t \in Tokens, Linked(p, t) PROVE Linked(p, t)'
  BY <1>2, LinksStay
<1> QED
  BY <1>1, <1>2

\* A chain that is not stored again, and one that waits to be stored.
LEMMA ChainOfStays ==
    ASSUME Typed, NEW c \in Callers, CallBegins(c) \/ CallStep(c),
           NEW t \in Tokens, ChainOf(t), chains'[t] = chains[t]
    PROVE  ChainOf(t)'
<1> SUFFICES ASSUME Registered(t)
             PROVE  /\ chains'[t][Len(chains'[t])] = t
                    /\ \A i \in 1 .. Len(chains'[t]) - 1 :
                            Linked(chains[t][i], chains[t][i + 1])'
  BY DEF ChainOf, Registered
<1>1. ASSUME NEW u, u = chains[t] PROVE \A i \in 1 .. Len(u) - 1 : Linked(u[i], u[i + 1])'
  <2>1. u \in Seq(Tokens) /\ Len(u) - 1 \in Int /\ Len(u) - 1 < Len(u)
    BY <1>1 DEF Typed, EngineTyped
  <2>2. \A i \in 1 .. Len(u) - 1 : Linked(u[i], u[i + 1])
    BY <1>1 DEF ChainOf
  <2> QED
    BY <2>1, <2>2, LinksOfStay
<1> QED
  BY <1>1 DEF ChainOf

LEMMA CarriesStays ==
    ASSUME Typed, NEW c \in Callers, CallBegins(c) \/ CallStep(c),
           NEW d \in Callers, Carries(d), pc'[d] = pc[d], call'[d] = call[d]
    PROVE  Carries(d)'
<1> SUFFICES ASSUME pc[d] = "store_chain"
             PROVE  /\ Len(call'[d].chain) > 0
                    /\ call'[d].chain[Len(call'[d].chain)] = call'[d].token
                    /\ Len(call'[d].chain) > 1 =>
                            call'[d].chain[Len(call'[d].chain) - 1] = call'[d].parent
                    /\ \A i \in 1 .. Len(call'[d].chain) - 2 :
                            Linked(call[d].chain[i], call[d].chain[i + 1])'
  BY DEF Carries
<1>1. ASSUME NEW u, u = call[d].chain
      PROVE  \A i \in 1 .. Len(u) - 2 : Linked(u[i], u[i + 1])'
  <2>1. u \in Seq(Tokens) /\ Len(u) - 2 \in Int /\ Len(u) - 2 < Len(u)
    BY <1>1, RegisterLocals DEF RegisterSteps
  <2>2. \A i \in 1 .. Len(u) - 2 : Linked(u[i], u[i + 1])
    BY <1>1 DEF Carries
  <2> QED
    BY <2>1, <2>2, LinksOfStay
<1> QED
  BY <1>1 DEF Carries

\* A step that stores no chain and begins no registration.
LEMMA ChainQuiet ==
    ASSUME Typed, ChainInv, NEW c \in Callers, CallBegins(c) \/ CallStep(c),
           chains' = chains, pc'[c] # "store_chain"
    PROVE  ChainInv'
<1>1. \A t \in Tokens : ChainOf(t)'
  BY ChainOfStays DEF ChainInv
<1>2. \A d \in Callers : d # c => Carries(d)'
  BY CarriesStays, OthersStay DEF ChainInv
<1>3. Carries(c)'
  BY DEF Carries
<1> QED
  BY <1>1, <1>2, <1>3 DEF ChainInv

\* register, first section: the parent's chain, or a chain of its own for
\* a parent that has none, and the token.
LEMMA RegisterChain ==
    ASSUME Typed, ChainInv, NEW c \in Callers, NEW reg \in Registrations, Register(c, reg)
    PROVE  ChainInv'
<1> DEFINE t == reg.token
           p == reg.parent
           chain == IF p = NoToken THEN <<t>> ELSE Append(Chain(p), t)
           new == [NoCall EXCEPT !.token = t, !.parent = p, !.limit = reg.limit,
                                 !.duration = reg.duration, !.chain = chain]
<1>1. t \in Tokens /\ p \in Tokens \cup {NoToken}
  BY RevocationAssumption DEF Registration
<1>2. CallBegins(c) /\ chains' = chains /\ pc'[c] = "store_chain" /\ call'[c] = new
  BY DEF CallBegins, Register, Begin, Goto, Set, Typed, engine
<1>3. \A d \in Callers : d # c => pc'[d] = pc[d] /\ call'[d] = call[d]
  BY <1>2, OthersStay
<1>4. new.token = t /\ new.parent = p /\ new.chain = chain
  <2> HIDE DEF chain, t, p
  <2> QED
    BY DEF NoCall
<1>5. ASSUME p # NoToken
      PROVE  /\ Chain(p) \in Seq(Tokens) /\ Len(Chain(p)) > 0
             /\ Chain(p)[Len(Chain(p))] = p
             /\ \A i \in 1 .. Len(Chain(p)) - 1 : Linked(Chain(p)[i], Chain(p)[i + 1])
  <2>1. p \in Tokens
    BY <1>1, <1>5
  <2> HIDE DEF p
  <2>2. CASE Registered(p)
    <3>1. Chain(p) = chains[p] /\ chains[p] \in Seq(Tokens) /\ chains[p] # << >>
      BY <2>1, <2>2 DEF Chain, Registered, Typed, EngineTyped
    <3> QED
      BY <2>1, <2>2, <3>1 DEF ChainInv, ChainOf
  <2>3. CASE ~Registered(p)
    BY <2>1, <2>3 DEF Chain
  <2> QED
    BY <2>2, <2>3
<1> HIDE DEF t, p, new
<1>6. /\ chain \in Seq(Tokens) /\ Len(chain) > 0 /\ chain[Len(chain)] = t
      /\ Len(chain) > 1 => chain[Len(chain) - 1] = p
      /\ \A i \in 1 .. Len(chain) - 2 : Linked(chain[i], chain[i + 1])
  <2>1. CASE p = NoToken
    BY <1>1, <2>1
  <2>2. CASE p # NoToken
    <3> DEFINE s == Chain(p)
    <3>1. /\ s \in Seq(Tokens) /\ Len(s) > 0 /\ s[Len(s)] = p
          /\ \A i \in 1 .. Len(s) - 1 : Linked(s[i], s[i + 1])
      BY <1>5, <2>2
    <3>2. chain = Append(s, t)
      BY <2>2
    <3> HIDE DEF s, chain
    <3>3. /\ chain \in Seq(Tokens) /\ Len(chain) = Len(s) + 1 /\ chain[Len(s) + 1] = t
          /\ \A i \in 1 .. Len(s) : chain[i] = s[i]
      BY <1>1, <3>1, <3>2, AppendFacts
    <3>4. Len(s) \in Nat /\ Len(chain) - 1 = Len(s) /\ Len(chain) - 2 = Len(s) - 1
      BY <3>1, <3>3
    <3>5. ASSUME NEW i \in 1 .. Len(s) - 1 PROVE Linked(chain[i], chain[i + 1])
      <4>1. i \in 1 .. Len(s) /\ i + 1 \in 1 .. Len(s)
        BY <3>4
      <4> QED
        BY <3>1, <3>3, <4>1
    <3> QED
      BY <3>1, <3>3, <3>4, <3>5
  <2> QED
    BY <2>1, <2>2
<1> HIDE DEF chain
<1>7. ASSUME NEW u, u = chain
      PROVE  \A i \in 1 .. Len(u) - 2 : Linked(u[i], u[i + 1])'
  <2>1. u \in Seq(Tokens) /\ Len(u) - 2 \in Int /\ Len(u) - 2 < Len(u)
    BY <1>6, <1>7
  <2> QED
    BY <1>2, <1>6, <1>7, <2>1, LinksOfStay
<1>8. Carries(c)'
  BY <1>2, <1>4, <1>6, <1>7 DEF Carries
<1>9. \A d \in Callers : d # c => Carries(d)'
  BY <1>2, <1>3, CarriesStays DEF ChainInv
<1>10. \A u \in Tokens : ChainOf(u)'
  BY <1>2, ChainOfStays DEF ChainInv
<1> QED
  BY <1>8, <1>9, <1>10 DEF ChainInv

\* register, second section: the last link of the chain is the one the
\* caller is now about to add.
LEMMA StoreChainChain ==
    ASSUME Typed, ChainInv, NEW c \in Callers, StoreChain(c)
    PROVE  ChainInv'
<1> DEFINE t == call[c].token
           p == call[c].parent
           chain == call[c].chain
           n == Len(chain)
<1>0. pc[c] \in RegisterSteps /\ pc[c] = "store_chain" /\ CallStep(c)
  BY DEF StoreChain, At, RegisterSteps, CallStep
<1>1. /\ t \in Tokens /\ chain \in Seq(Tokens) /\ n > 0 /\ chain[n] = t
      /\ n > 1 => chain[n - 1] = p
      /\ \A i \in 1 .. n - 2 : Linked(chain[i], chain[i + 1])
  BY <1>0, RegisterLocals DEF ChainInv, Carries
<1>2. /\ pc'[c] = "add_child" /\ call' = call
      /\ chains'[t] = chain /\ \A u \in Tokens : u # t => chains'[u] = chains[u]
  BY <1>1 DEF StoreChain, Goto, Typed, EngineTyped
<1>3. \A d \in Callers : d # c => pc'[d] = pc[d]
  BY <1>0, OthersStay
<1>4. \A u \in Tokens : u # t => ChainOf(u)'
  BY <1>0, <1>2, ChainOfStays DEF ChainInv
<1>5. Carries(c)' /\ \A d \in Callers : d # c => Carries(d)'
  <2>1. Carries(c)'
    BY <1>2 DEF Carries
  <2>2. \A d \in Callers : d # c => Carries(d)'
    BY <1>0, <1>2, <1>3, CarriesStays DEF ChainInv
  <2> QED
    BY <2>1, <2>2
<1> HIDE DEF n
<1>6. ASSUME NEW u, NEW v, u = p, v = t PROVE Linked(u, v)'
  BY <1>2, <1>6 DEF Linked, At
<1>7. ASSUME NEW s, s = chain PROVE \A i \in 1 .. n - 1 : Linked(s[i], s[i + 1])'
  <2>1. \A i \in 1 .. n - 2 : Linked(s[i], s[i + 1])'
    <3>1. s \in Seq(Tokens) /\ n - 2 \in Int /\ n - 2 < Len(s)
      BY <1>1, <1>7 DEF n
    <3> QED
      BY <1>0, <1>1, <1>7, <3>1, LinksOfStay
  <2>2. ASSUME NEW k, k = n - 1, n > 1 PROVE Linked(s[k], s[k + 1])'
    <3>1. k + 1 = n
      BY <1>1, <2>2 DEF n
    <3>2. s[k] = p /\ s[k + 1] = t
      BY <1>1, <1>7, <2>2, <3>1 DEF n
    <3> QED
      BY <1>6, <3>2
  <2>3. n \in Nat
    BY <1>1 DEF n
  <2>4. ASSUME NEW i \in 1 .. n - 1 PROVE Linked(s[i], s[i + 1])'
    <3>1. CASE i \in 1 .. n - 2
      BY <2>1, <3>1
    <3>2. CASE i = n - 1
      <4>1. n > 1
        BY <2>3, <3>2
      <4> QED
        BY <2>2, <3>2, <4>1
    <3> QED
      BY <2>3, <3>1, <3>2
  <2> QED
    BY <2>4
<1>8. ASSUME NEW u \in Tokens, u = t PROVE ChainOf(u)'
  <2>1. \A i \in 1 .. n - 1 : Linked(chains[u][i], chains[u][i + 1])'
    BY <1>2, <1>7, <1>8
  <2> QED
    BY <1>1, <1>2, <1>8, <2>1 DEF ChainOf, n
<1>9. \A u \in Tokens : ChainOf(u)'
  BY <1>4, <1>8
<1> QED
  BY <1>5, <1>9 DEF ChainInv

\* The other steps store no chain.
LEMMA OtherStepsChain ==
    ASSUME Typed, ChainInv, NEW c \in Callers,
           \/ \E rev \in Revocations : Revoke(c, rev.token, rev.cascade)
           \/ CheckExpirations(c)
           \/ \E t \in Lookups : AskRevoked(c, t)
           \/ \E t \in Tokens, duration \in Durations : Renew(c, t, duration)
           \/ AddChild(c) \/ AddExpiry(c) \/ InsertRevoked(c) \/ InsertBloom(c)
           \/ ReadChildren(c) \/ RevokeChild(c) \/ ChildrenDone(c) \/ RevokeReturns(c)
           \/ AskSet(c) \/ RenewExpiry(c)
           \/ LockTimed(c) \/ ExpireBloom(c) \/ ExpireRevoked(c) \/ ExpireReturns(c)
    PROVE  ChainInv'
<1>1. CallBegins(c) \/ CallStep(c)
  BY DEF CallBegins, CallStep
<1>2. chains' = chains
  BY DEF CheckExpirations, Revoke, AskRevoked, Renew, AddChild, AddExpiry, InsertRevoked,
         InsertBloom, ReadChildren, RevokeChild, ChildrenDone, RevokeReturns, AskSet,
         RenewExpiry, LockTimed, ExpireBloom, ExpireRevoked, ExpireReturns, engine
<1>3. pc'[c] # "store_chain"
  <2>1. CASE CheckExpirations(c) \/ \E rev \in Revocations : Revoke(c, rev.token, rev.cascade)
    BY <2>1 DEF CheckExpirations, Revoke, Begin, Goto, Typed
  <2>2. CASE \/ \E t \in Lookups : AskRevoked(c, t)
             \/ \E t \in Tokens, duration \in Durations : Renew(c, t, duration)
    BY <2>2 DEF AskRevoked, Renew, Begin, Goto, Typed
  <2>3. CASE \/ AddChild(c) \/ AddExpiry(c) \/ RevokeReturns(c) \/ AskSet(c)
             \/ RenewExpiry(c) \/ ExpireReturns(c)
    BY <2>3 DEF AddChild, AddExpiry, RevokeReturns, AskSet, RenewExpiry, ExpireReturns,
                Return, Goto, Typed
  <2>4. CASE InsertRevoked(c) \/ InsertBloom(c) \/ ReadChildren(c) \/ RevokeChild(c)
             \/ ChildrenDone(c)
    BY <2>4 DEF InsertRevoked, InsertBloom, ReadChildren, RevokeChild, ChildrenDone, At,
                Goto, Typed
  <2>5. CASE LockTimed(c) \/ ExpireBloom(c) \/ ExpireRevoked(c)
    BY <2>5 DEF LockTimed, ExpireBloom, ExpireRevoked, At, Goto, Typed
  <2> QED
    BY <2>1, <2>2, <2>3, <2>4, <2>5
<1> QED
  BY <1>1, <1>2, <1>3, ChainQuiet

LEMMA ChainInvariant == Spec => []ChainInv
<1>1. Init => ChainInv
  BY DEF Init, ChainInv, ChainOf, Carries, Registered
<1>2. ASSUME Typed, ChainInv, [Next]_vars PROVE ChainInv'
  <2>1. CASE Tick \/ UNCHANGED vars
    <3>1. UNCHANGED <<chains, children, pc, call>>
      BY <2>1 DEF Tick, vars, engine
    <3>2. \A p, t : Linked(p, t) => Linked(p, t)'
      BY <3>1 DEF Linked, At
    <3>3. \A t \in Tokens : ChainOf(t)'
      BY <1>2, <3>1, <3>2 DEF ChainInv, ChainOf, Registered
    <3>4. \A c \in Callers : Carries(c)'
      BY <1>2, <3>1, <3>2 DEF ChainInv, Carries
    <3> QED
      BY <3>3, <3>4 DEF ChainInv
  <2>2. ASSUME NEW c \in Callers, CallBegins(c) PROVE ChainInv'
    BY <1>2, <2>2, RegisterChain, OtherStepsChain DEF CallBegins
  <2>3. ASSUME NEW c \in Callers, CallStep(c) PROVE ChainInv'
    BY <1>2, <2>3, StoreChainChain, OtherStepsChain DEF CallStep
  <2> QED
    BY <1>2, <2>1, <2>2, <2>3 DEF Next
<1> QED
  BY <1>1, <1>2, AlwaysTyped, PTL DEF Spec

(***************************************************************************)
(* The chains and the lists of children agree at every moment, although    *)
(* register writes them in different critical sections, takes any parent,  *)
(* may be called again for a token, and any number of callers register,    *)
(* revoke and expire at once: every link of a stored chain is listed, or   *)
(* the registration that makes it has not returned.                        *)
(***************************************************************************)
THEOREM DelegationsAgree == Spec => []RevocationInv
<1>1. Typed /\ ChainInv => RevocationInv
  <2> SUFFICES ASSUME Typed, ChainInv PROVE RevocationInv
    OBVIOUS
  <2>1. TypeOK
    BY DEF Typed, EngineTyped, TypeOK
  <2>2. ASSUME NEW t \in Tokens, Registered(t) PROVE Last(chains[t]) = t
    <3>1. chains[t] \in Seq(Tokens) /\ chains[t] # << >>
      BY <2>2 DEF Typed, EngineTyped, Registered
    <3> QED
      BY <2>2, <3>1, LastFacts DEF ChainInv, ChainOf
  <2> QED
    BY <2>1, <2>2 DEF RevocationInv, ChainInv, ChainOf
<1> QED
  BY <1>1, AlwaysTyped, ChainInvariant, PTL

--------------------------------------------------------------------------------
(* Expiries.  A token with a time limit is settled: in timed_tokens,       *)
(* reported or revoked, or it is in the hands of a caller.  That a call    *)
(* lets nothing go when it returns needs that only check_expirations holds *)
(* expired tokens.                                                         *)

Checking ==
    \A c \in Callers : pc[c] \notin {"expire_bloom", "expire_revoked"} =>
        call[c].todo = {} /\ call[c].found = {}

Settled(t) == (\E e \in timed_tokens : e[2] = t) \/ t \in expired \cup revoked
Holds(c, t) ==
    \/ t \in call[c].todo \cup call[c].found
    \/ /\ call[c].token = t /\ call[c].limit # "none"
       /\ pc[c] \in {"add_child", "add_expiry"}
Limited(t) == Registered(t) /\ time_limit[t] # "none"

ExpiryInv == Checking /\ ExpiryNotLost

\* What a step of one caller has to show.
LEMMA ExpiryStep ==
    ASSUME ExpiryInv, NEW c \in Callers,
           \A d \in Callers : d # c => pc'[d] = pc[d] /\ call'[d] = call[d],
           pc'[c] \notin {"expire_bloom", "expire_revoked"} =>
                call'[c].todo = {} /\ call'[c].found = {},
           \A t \in Tokens : Limited(t)' => Limited(t) \/ Settled(t)' \/ Holds(c, t)',
           \A t \in Tokens : Limited(t)' /\ (Settled(t) \/ Holds(c, t))
                                => Settled(t)' \/ Holds(c, t)'
    PROVE  ExpiryInv'
<1>1. Checking'
  BY DEF ExpiryInv, Checking
<1>2. ASSUME NEW t \in Tokens, Limited(t)'
      PROVE  Settled(t)' \/ \E d \in Callers : Holds(d, t)'
  <2>1. CASE Limited(t) /\ ~Settled(t) /\ ~Holds(c, t)
    <3>1. PICK d \in Callers : Holds(d, t)
      BY <2>1 DEF ExpiryInv, ExpiryNotLost, Limited, Expiring, Settled, Holds
    <3>2. d # c
      BY <2>1, <3>1
    <3>3. Holds(d, t)'
      BY <3>1, <3>2 DEF Holds
    <3> QED
      BY <3>3
  <2> QED
    BY <1>2, <2>1
<1>3. ExpiryNotLost'
  BY <1>2 DEF ExpiryNotLost, Limited, Expiring, Settled, Holds
<1> QED
  BY <1>1, <1>3 DEF ExpiryInv

\* A caller that holds nothing, in a step that takes nothing away.
LEMMA ExpiryQuiet ==
    ASSUME ExpiryInv, NEW c \in Callers,
           \A d \in Callers : d # c => pc'[d] = pc[d] /\ call'[d] = call[d],
           call'[c].todo = call[c].todo \/ call'[c].todo = {},
           call'[c].found = call[c].found \/ call'[c].found = {},
           chains' = chains, time_limit' = time_limit,
           timed_tokens \subseteq timed_tokens', expired' = expired, revoked \subseteq revoked',
           pc[c] \notin {"add_child", "add_expiry", "expire_bloom", "expire_revoked"}
    PROVE  ExpiryInv'
<1>1. call[c].todo = {} /\ call[c].found = {} /\ call'[c].todo = {} /\ call'[c].found = {}
  BY DEF ExpiryInv, Checking
<1>2. \A t \in Tokens : ~Holds(c, t)
  BY <1>1 DEF Holds
<1>3. \A t \in Tokens : (Limited(t)' => Limited(t)) /\ (Settled(t) => Settled(t)')
  BY DEF Limited, Registered, Settled
<1> QED
  BY <1>1, <1>2, <1>3, ExpiryStep

\* The first step of each operation.
LEMMA BeginsExpiry ==
    ASSUME Typed, ExpiryInv, NEW c \in Callers, CallBegins(c)
    PROVE  ExpiryInv'
<1>1. \A d \in Callers : d # c => pc'[d] = pc[d] /\ call'[d] = call[d]
  BY OthersStay
<1>2. pc[c] = "idle"
  BY DEF CallBegins, Register, CheckExpirations, Revoke, AskRevoked, Renew, Begin, At
<1>3. call'[c].todo = {} /\ call'[c].found = {}
  <2>1. ASSUME NEW new, Set(c, new), new.todo = {}, new.found = {}
        PROVE  call'[c].todo = {} /\ call'[c].found = {}
    BY <2>1 DEF Set, Typed
  <2>2. ASSUME NEW reg \in Registrations, Register(c, reg)
        PROVE  call'[c].todo = {} /\ call'[c].found = {}
    <3> DEFINE chain == IF reg.parent = NoToken THEN <<reg.token>>
                        ELSE Append(Chain(reg.parent), reg.token)
               new == [NoCall EXCEPT !.token = reg.token, !.parent = reg.parent,
                                     !.limit = reg.limit, !.duration = reg.duration,
                                     !.chain = chain]
    <3>1. Set(c, new)
      BY <2>2 DEF Register, Begin
    <3> HIDE DEF chain
    <3>2. new.todo = {} /\ new.found = {}
      BY NoCallTyped DEF CallRecord
    <3> HIDE DEF new
    <3> QED
      BY <2>1, <3>1, <3>2
  <2>3. ASSUME CheckExpirations(c) PROVE call'[c].todo = {} /\ call'[c].found = {}
    <3>1. Set(c, [NoCall EXCEPT !.now = now])
      BY <2>3 DEF CheckExpirations, Begin
    <3>2. [NoCall EXCEPT !.now = now].todo = {} /\ [NoCall EXCEPT !.now = now].found = {}
      BY NoCallTyped DEF CallRecord
    <3> QED
      BY <2>1, <3>1, <3>2
  <2>4. ASSUME NEW t \in Tokens, NEW cascade \in BOOLEAN, Revoke(c, t, cascade)
        PROVE  call'[c].todo = {} /\ call'[c].found = {}
    <3> DEFINE goal == IF cascade \/ default_cascade THEN Below(t) ELSE {t}
               stack == <<[token |-> t, todo |-> << >>]>>
               new == [NoCall EXCEPT !.stack = stack, !.cascade = cascade, !.goal = goal]
    <3>1. Set(c, new)
      BY <2>4 DEF Revoke, Begin
    <3> HIDE DEF goal, stack
    <3>2. new.todo = {} /\ new.found = {}
      BY NoCallTyped DEF CallRecord
    <3> HIDE DEF new
    <3> QED
      BY <2>1, <3>1, <3>2
  <2>5. ASSUME NEW t \in Lookups, AskRevoked(c, t)
        PROVE  call'[c].todo = {} /\ call'[c].found = {}
    <3>1. Set(c, [NoCall EXCEPT !.token = t])
      BY <2>5 DEF AskRevoked, Begin
    <3>2. [NoCall EXCEPT !.token = t].todo = {} /\ [NoCall EXCEPT !.token = t].found = {}
      BY NoCallTyped DEF CallRecord
    <3> QED
      BY <2>1, <3>1, <3>2
  <2>6. ASSUME NEW t \in Tokens, NEW duration \in Durations, Renew(c, t, duration)
        PROVE  call'[c].todo = {} /\ call'[c].found = {}
    <3> DEFINE new == [NoCall EXCEPT !.token = t, !.duration = duration, !.now = now]
    <3>1. Set(c, new)
      BY <2>6 DEF Renew, Begin
    <3>2. new.todo = {} /\ new.found = {}
      BY NoCallTyped DEF CallRecord
    <3> HIDE DEF new
    <3> QED
      BY <2>1, <3>1, <3>2
  <2> QED
    BY <2>2, <2>3, <2>4, <2>5, <2>6, RevokeArguments DEF CallBegins
<1>4. /\ chains' = chains /\ timed_tokens' = timed_tokens /\ expired' = expired
      /\ revoked' = revoked /\ time_limit' = time_limit
  BY DEF CallBegins, Register, CheckExpirations, Revoke, AskRevoked, Renew, engine, history
<1> QED
  BY <1>1, <1>2, <1>3, <1>4, ExpiryQuiet

\* The later steps of the operations.
LEMMA StepsExpiry ==
    ASSUME Typed, ExpiryInv, NEW c \in Callers, CallStep(c)
    PROVE  ExpiryInv'
<1>1. \A d \in Callers : d # c => pc'[d] = pc[d] /\ call'[d] = call[d]
  BY OthersStay
<1>2. call[c] \in CallRecord
  BY DEF Typed
<1>3. ASSUME Return(c)
      PROVE  pc'[c] = "idle" /\ call'[c].todo = {} /\ call'[c].found = {}
  BY <1>3, NoCallTyped DEF Return, Goto, Set, Typed
<1>4. CASE StoreChain(c)
  <2>1. /\ pc[c] = "store_chain" /\ pc'[c] = "add_child" /\ call' = call
        /\ timed_tokens' = timed_tokens /\ revoked' = revoked
        /\ expired' = expired \ {call[c].token} /\ call[c].token \in Tokens
        /\ time_limit'[call[c].token] = call[c].limit
        /\ \A t \in Tokens : t # call[c].token =>
                chains'[t] = chains[t] /\ time_limit'[t] = time_limit[t]
    BY <1>4 DEF StoreChain, At, Goto, Typed, EngineTyped, TokenSteps, RegisterSteps
  <2>2. call[c].todo = {} /\ call[c].found = {}
    BY <2>1 DEF ExpiryInv, Checking
  <2>3. Limited(call[c].token)' => Holds(c, call[c].token)'
    BY <2>1 DEF Limited, Holds
  <2>4. ASSUME NEW t \in Tokens, t # call[c].token
        PROVE  /\ Limited(t)' => Limited(t)
               /\ ~Holds(c, t) /\ (Settled(t) => Settled(t)')
    BY <2>1, <2>2, <2>4 DEF Holds, Settled, Limited, Registered
  <2>5. ASSUME NEW t \in Tokens, t = call[c].token, Limited(t)' PROVE Holds(c, t)'
    BY <2>1, <2>5 DEF Limited, Holds
  <2>6. \A t \in Tokens : Limited(t)' => Limited(t) \/ Settled(t)' \/ Holds(c, t)'
    BY <2>4, <2>5
  <2>7. \A t \in Tokens : Limited(t)' /\ (Settled(t) \/ Holds(c, t))
                            => Settled(t)' \/ Holds(c, t)'
    BY <2>4, <2>5
  <2> QED
    BY <1>1, <2>1, <2>2, <2>6, <2>7, ExpiryStep
<1>5. CASE AddChild(c)
  <2>1. /\ pc[c] = "add_child" /\ timed_tokens' = timed_tokens /\ chains' = chains
        /\ time_limit' = time_limit /\ expired' = expired /\ revoked' = revoked
    BY <1>5 DEF AddChild, At, history
  <2>2. call[c].todo = {} /\ call[c].found = {}
    BY <2>1 DEF ExpiryInv, Checking
  <2>3. \A t \in Tokens : (Limited(t)' <=> Limited(t)) /\ (Settled(t) => Settled(t)')
    BY <2>1 DEF Settled, Limited, Registered
  <2>4. \A t \in Tokens : Holds(c, t) => t = call[c].token /\ call[c].limit # "none"
    BY <2>2 DEF Holds
  <2>5. CASE call[c].limit = "none"
    <3>1. pc'[c] = "idle" /\ call'[c].todo = {} /\ call'[c].found = {}
      BY <1>3, <1>5, <2>5 DEF AddChild
    <3> QED
      BY <1>1, <2>3, <2>4, <2>5, <3>1, ExpiryStep
  <2>6. CASE call[c].limit # "none"
    <3> DEFINE new == [call[c] EXCEPT !.now = now]
    <3>1. pc'[c] = "add_expiry" /\ call'[c] = new
      BY <1>5, <2>6 DEF AddChild, Goto, Set, Typed
    <3>2. /\ new.token = call[c].token /\ new.limit = call[c].limit
          /\ new.todo = call[c].todo /\ new.found = call[c].found
      BY <1>2 DEF CallRecord
    <3> HIDE DEF new
    <3>3. Holds(c, call[c].token)' /\ call'[c].token = call[c].token
      BY <2>6, <3>1, <3>2 DEF Holds
    <3>4. \A t \in Tokens : Holds(c, t) => Holds(c, t)'
      BY <2>4, <3>1, <3>3 DEF Holds
    <3> QED
      BY <1>1, <2>2, <2>3, <3>1, <3>2, <3>4, ExpiryStep
  <2> QED
    BY <2>5, <2>6
<1>6. CASE AddExpiry(c)
  <2>0. PICK read \in call[c].now .. now :
          timed_tokens' = timed_tokens \cup {<<read + call[c].duration, call[c].token>>}
    BY <1>6 DEF AddExpiry, PushExpiry
  <2>1. /\ pc[c] = "add_expiry" /\ timed_tokens \subseteq timed_tokens'
        /\ \E e \in timed_tokens' : e[2] = call[c].token
        /\ chains' = chains /\ time_limit' = time_limit
        /\ expired' = expired /\ revoked' = revoked
    <3> DEFINE e == <<read + call[c].duration, call[c].token>>
    <3>1. e[2] = call[c].token
      OBVIOUS
    <3> HIDE DEF e
    <3>2. e \in timed_tokens'
      BY <2>0 DEF e
    <3> QED
      BY <1>6, <2>0, <3>1, <3>2 DEF AddExpiry, At, history
  <2>2. call[c].todo = {} /\ call[c].found = {}
    BY <2>1 DEF ExpiryInv, Checking
  <2>3. \A t \in Tokens : (Limited(t)' <=> Limited(t)) /\ (Settled(t) => Settled(t)')
    BY <2>1 DEF Settled, Limited, Registered
  <2>4. \A t \in Tokens : Holds(c, t) => Settled(t)'
    BY <2>1, <2>2 DEF Holds, Settled
  <2>5. pc'[c] = "idle" /\ call'[c].todo = {} /\ call'[c].found = {}
    BY <1>3, <1>6 DEF AddExpiry
  <2> QED
    BY <1>1, <2>3, <2>4, <2>5, ExpiryStep
<1>7. CASE RenewExpiry(c)
  <2>1. /\ pc[c] = "renew_expiry" /\ timed_tokens \subseteq timed_tokens'
        /\ chains' = chains /\ time_limit' = time_limit
        /\ expired' = expired /\ revoked' = revoked
    BY <1>7 DEF RenewExpiry, PushExpiry, At, history
  <2> QED
    BY <1>1, <1>3, <1>7, <2>1, ExpiryQuiet DEF RenewExpiry
<1>8. CASE InsertRevoked(c) \/ InsertBloom(c)
  <2>1. /\ pc[c] \in {"insert_revoked", "insert_bloom"} /\ timed_tokens' = timed_tokens
        /\ chains' = chains /\ time_limit' = time_limit /\ call' = call
        /\ expired' = expired /\ revoked \subseteq revoked'
    BY <1>8 DEF InsertRevoked, InsertBloom, At, history
  <2> QED
    BY <1>1, <2>1, ExpiryQuiet
<1>9. CASE ReadChildren(c) \/ RevokeChild(c) \/ ChildrenDone(c)
  <2>1. \A s : /\ [call[c] EXCEPT !.stack = s].todo = call[c].todo
               /\ [call[c] EXCEPT !.stack = s].found = call[c].found
               /\ [call[c] EXCEPT !.cascade = TRUE, !.stack = s].todo = call[c].todo
               /\ [call[c] EXCEPT !.cascade = TRUE, !.stack = s].found = call[c].found
    BY <1>2 DEF CallRecord
  <2>2. \E s : \/ Set(c, [call[c] EXCEPT !.stack = s])
               \/ Set(c, [call[c] EXCEPT !.cascade = TRUE, !.stack = s])
    BY <1>9 DEF ReadChildren, RevokeChild, ChildrenDone
  <2>3. \E new : Set(c, new) /\ new.todo = call[c].todo /\ new.found = call[c].found
    BY <2>1, <2>2
  <2>4. call'[c].todo = call[c].todo /\ call'[c].found = call[c].found
    BY <2>3 DEF Set, Typed
  <2>5. /\ pc[c] \in {"read_children", "next_child"} /\ timed_tokens' = timed_tokens
        /\ chains' = chains /\ time_limit' = time_limit
        /\ expired' = expired /\ revoked' = revoked
    BY <1>9 DEF ReadChildren, RevokeChild, ChildrenDone, At, engine, history
  <2> QED
    BY <1>1, <2>4, <2>5, ExpiryQuiet
<1>10. CASE RevokeReturns(c) \/ AskSet(c)
  <2>1. /\ pc[c] \in {"next_child", "ask_revoked"} /\ timed_tokens' = timed_tokens
        /\ chains' = chains /\ time_limit' = time_limit
        /\ expired' = expired /\ revoked' = revoked /\ Return(c)
    BY <1>10 DEF RevokeReturns, AskSet, At, engine
  <2> QED
    BY <1>1, <1>3, <2>1, ExpiryQuiet
<1>11. CASE LockTimed(c)
  <2> DEFINE S == {e[2] : e \in Due(c)}
             new == [call[c] EXCEPT !.todo = S]
  <2>1. /\ pc[c] = "lock_timed" /\ pc'[c] = "expire_bloom"
        /\ timed_tokens' = timed_tokens \ Due(c) /\ call'[c] = new
        /\ chains' = chains /\ time_limit' = time_limit
        /\ expired' = expired /\ revoked' = revoked
    BY <1>11 DEF LockTimed, At, Goto, Set, Typed, history
  <2>2. \A t \in Tokens : ~Holds(c, t)
    BY <2>1 DEF ExpiryInv, Checking, Holds
  <2>3. new.todo = S
    <3> HIDE DEF S
    <3> QED
      BY <1>2 DEF CallRecord
  <2>4. ASSUME NEW t \in Tokens, Settled(t) PROVE Settled(t)' \/ t \in call'[c].todo
    <3> HIDE DEF new
    <3>1. ASSUME NEW e \in timed_tokens, e[2] = t PROVE Settled(t)' \/ t \in S
      BY <2>1, <3>1 DEF Settled
    <3> QED
      BY <2>1, <2>3, <2>4, <3>1 DEF Settled
  <2>5. \A t \in Tokens : Limited(t)' <=> Limited(t)
    BY <2>1 DEF Limited, Registered
  <2> HIDE DEF S, new
  <2> QED
    BY <1>1, <2>1, <2>2, <2>4, <2>5, ExpiryStep DEF Holds
<1>12. ASSUME pc[c] \in {"expire_bloom", "expire_revoked"}, UNCHANGED <<engine, history>>,
              pc'[c] \in {"expire_bloom", "expire_revoked"},
              \A t \in call[c].todo \cup call[c].found :
                    t \in revoked \/ t \in call'[c].todo \cup call'[c].found
       PROVE  ExpiryInv'
  <2>1. \A t \in Tokens : (Limited(t)' <=> Limited(t)) /\ (Settled(t)' <=> Settled(t))
    BY <1>12 DEF Limited, Registered, Settled, engine, history
  <2>2. \A t \in Tokens : Holds(c, t) => Settled(t) \/ Holds(c, t)'
    BY <1>12 DEF Holds, Settled
  <2> QED
    BY <1>1, <1>12, <2>1, <2>2, ExpiryStep
<1>13. CASE ExpireBloom(c)
  <2>1. PICK t \in call[c].todo :
          \/ Set(c, [call[c] EXCEPT !.token = t]) /\ Goto(c, "expire_revoked")
          \/ /\ Set(c, [call[c] EXCEPT !.todo = @ \ {t}, !.found = @ \cup {t}])
             /\ UNCHANGED pc
    BY <1>13 DEF ExpireBloom
  <2>2. /\ [call[c] EXCEPT !.token = t].todo = call[c].todo
        /\ [call[c] EXCEPT !.token = t].found = call[c].found
        /\ [call[c] EXCEPT !.todo = @ \ {t}, !.found = @ \cup {t}].todo = call[c].todo \ {t}
        /\ [call[c] EXCEPT !.todo = @ \ {t}, !.found = @ \cup {t}].found
              = call[c].found \cup {t}
    BY <1>2 DEF CallRecord
  <2>3. /\ pc[c] = "expire_bloom" /\ UNCHANGED <<engine, history>>
        /\ pc'[c] \in {"expire_bloom", "expire_revoked"}
    BY <1>13, <2>1 DEF ExpireBloom, At, Goto, Typed
  <2>4. call'[c] = [call[c] EXCEPT !.token = t]
        \/ call'[c] = [call[c] EXCEPT !.todo = @ \ {t}, !.found = @ \cup {t}]
    BY <2>1 DEF Set, Typed
  <2>5. call[c].todo \cup call[c].found \subseteq call'[c].todo \cup call'[c].found
    BY <2>2, <2>4
  <2> QED
    BY <1>12, <2>3, <2>5
<1>14. CASE ExpireRevoked(c)
  <2> DEFINE t == call[c].token
             new == [call[c] EXCEPT !.todo = @ \ {t}, !.token = NoToken,
                                    !.found = @ \cup ({t} \ revoked)]
  <2>1. /\ pc[c] = "expire_revoked" /\ UNCHANGED <<engine, history>>
        /\ pc'[c] = "expire_bloom" /\ call'[c] = new
    BY <1>14 DEF ExpireRevoked, At, Goto, Set, Typed
  <2> HIDE DEF t
  <2>2. new.todo = call[c].todo \ {t} /\ new.found = call[c].found \cup ({t} \ revoked)
    BY <1>2 DEF CallRecord
  <2> HIDE DEF new
  <2> QED
    BY <1>12, <2>1, <2>2
<1>15. CASE ExpireReturns(c)
  <2>1. /\ pc[c] = "expire_bloom" /\ call[c].todo = {} /\ timed_tokens' = timed_tokens
        /\ chains' = chains /\ time_limit' = time_limit
        /\ expired' = expired \cup call[c].found /\ revoked' = revoked
    BY <1>15 DEF ExpireReturns, At
  <2>2. pc'[c] = "idle" /\ call'[c].todo = {} /\ call'[c].found = {}
    BY <1>3, <1>15 DEF ExpireReturns
  <2>3. \A t \in Tokens : (Limited(t)' <=> Limited(t)) /\ (Settled(t) => Settled(t)')
    BY <2>1 DEF Limited, Registered, Settled
  <2>4. \A t \in Tokens : Holds(c, t) => Settled(t)'
    BY <2>1 DEF Holds, Settled
  <2> QED
    BY <1>1, <2>2, <2>3, <2>4, ExpiryStep
<1> QED
  BY <1>4, <1>5, <1>6, <1>7, <1>8, <1>9, <1>10, <1>11, <1>13, <1>14, <1>15 DEF CallStep

(***************************************************************************)
(* No expiry is lost between register, renew and check_expirations, for    *)
(* any number of callers and tokens: a registered token with a time limit  *)
(* waits for it, is with a running check, has been reported or is revoked. *)
(***************************************************************************)
THEOREM ExpiriesKept == Spec => []ExpiryNotLost
<1>1. Init => ExpiryInv
  BY NoCallTyped DEF Init, ExpiryInv, Checking, ExpiryNotLost, Registered
<1>2. ASSUME Typed, ExpiryInv, [Next]_vars PROVE ExpiryInv'
  <2>1. CASE Tick \/ UNCHANGED vars
    BY <1>2, <2>1 DEF Tick, vars, engine, history, ExpiryInv, Checking, ExpiryNotLost,
                      Registered, Expiring
  <2> QED
    BY <1>2, <2>1, BeginsExpiry, StepsExpiry DEF Next
<1>3. ExpiryInv => ExpiryNotLost
  BY DEF ExpiryInv
<1> QED
  BY <1>1, <1>2, <1>3, AlwaysTyped, PTL DEF Spec

--------------------------------------------------------------------------------
(* The reach of a revocation.  While it runs, every token it must reach is *)
(* revoked, or is below a token it is still going to visit: the one it has *)
(* just descended to, or one on the lists of its frames.  What is below a  *)
(* token only grows while others register.                                 *)

Visits(c, y) ==
    \/ pc[c] \in RevokeSteps \ {"next_child"} /\ y = Top(c).token
    \/ \E m \in 1 .. Len(call[c].stack) : Contains(call[c].stack[m].todo, y)

ReachOf(c) ==
    pc[c] \in RevokeSteps =>
        /\ \A x \in call[c].goal :
            IsRevoked(x) \/ \E y \in Tokens : Visits(c, y) /\ x \in Below(y)
        /\ pc[c] # "next_child" => Top(c).todo = << >>
        /\ pc[c] = "insert_bloom" => Top(c).token \in revoked
        /\ pc[c] = "read_children" => IsRevoked(Top(c).token)
        /\ pc[c] \in {"insert_revoked", "insert_bloom"} /\ ~Cascades(c) =>
            call[c].goal \subseteq {Top(c).token}

ReachInv == (\A c \in Callers : ReachOf(c)) /\ RevokeReaches

(* what every step keeps *)
Grows ==
    /\ \A p \in Tokens, t \in Tokens :
            Contains(children[p], t) => Contains(children[p], t)'
    /\ revoked \subseteq revoked' /\ bloom \subseteq bloom'

LEMMA StepsGrow ==
    ASSUME Typed, NEW c \in Callers, CallBegins(c) \/ CallStep(c)
    PROVE  Grows
<1>1. revoked \subseteq revoked' /\ bloom \subseteq bloom'
  <2>1. CASE CallBegins(c)
    BY <2>1 DEF CallBegins, Register, CheckExpirations, Revoke, AskRevoked, Renew, engine
  <2>2. CASE CallStep(c)
    BY <2>2 DEF CallStep, StoreChain, AddChild, AddExpiry, InsertRevoked, InsertBloom,
                ReadChildren, RevokeChild, ChildrenDone, RevokeReturns, AskSet, RenewExpiry,
                LockTimed, ExpireBloom, ExpireRevoked, ExpireReturns, engine
  <2> QED
    BY <2>1, <2>2
<1> QED
  BY <1>1, ChildrenGrow DEF Grows

\* The children lists as a relation.
LEMMA ClosedIs ==
    ASSUME Typed, NEW S \in SUBSET Tokens
    PROVE  Closed(S) <=>
                \A p \in S, t \in Tokens : Contains(children[p], t) => t \in S
<1>1. \A p \in S : children[p] \in Seq(Tokens)
  BY DEF Typed, EngineTyped
<1>2. \A p \in S : DOMAIN children[p] = 1 .. Len(children[p])
  BY <1>1
<1>3. \A p \in S : \A i \in 1 .. Len(children[p]) : children[p][i] \in Tokens
  BY <1>1
<1> QED
  BY <1>2, <1>3 DEF Closed, Contains

\* What is below a token grows with the lists: a set closed afterwards was
\* closed before.
LEMMA BelowGrows ==
    ASSUME Typed, Typed', Grows
    PROVE  /\ \A x \in Tokens, y \in Tokens : x \in Below(y) => x \in Below(y)'
           /\ \A x \in Tokens : IsRevoked(x) => IsRevoked(x)'
<1>1. ASSUME NEW x \in Tokens, NEW y \in Tokens, x \in Below(y) PROVE x \in Below(y)'
  <2>1. ASSUME NEW S \in SUBSET Tokens, y \in S, Closed(S)' PROVE x \in S
    <3>1. \A p \in S, t \in Tokens : Contains(children[p], t)' => t \in S
      <4>1. \A p \in S : children'[p] \in Seq(Tokens)
        BY DEF Typed, EngineTyped
      <4>2. \A p \in S : DOMAIN children'[p] = 1 .. Len(children'[p])
        BY <4>1
      <4> QED
        BY <2>1, <4>2 DEF Closed, Contains
    <3>2. \A p \in S, t \in Tokens : Contains(children[p], t) => t \in S
      BY <3>1 DEF Grows
    <3>3. Closed(S)
      BY <3>2, ClosedIs
    <3> QED
      BY <1>1, <2>1, <3>3 DEF Below
  <2> QED
    BY <2>1 DEF Below
<1>2. \A x \in Tokens : IsRevoked(x) => IsRevoked(x)'
  BY DEF Grows, IsRevoked, may_contain
<1> QED
  BY <1>1, <1>2

\* A step of one caller keeps what the others know.
LEMMA ReachStep ==
    ASSUME Typed, Typed', Grows, ReachInv, NEW c \in Callers,
           \A d \in Callers : d # c => pc'[d] = pc[d] /\ call'[d] = call[d],
           ReachOf(c)', \A t \in promised' : t \in promised \/ IsRevoked(t)'
    PROVE  ReachInv'
<1>1. ASSUME NEW d \in Callers, d # c PROVE ReachOf(d)'
  <2>1. pc'[d] = pc[d] /\ call'[d] = call[d]
    BY <1>1
  <2>2. \A y : Visits(d, y)' <=> Visits(d, y)
    BY <2>1 DEF Visits, Top
  <2>3. Top(d)' = Top(d) /\ (Cascades(d)' <=> Cascades(d))
    BY <2>1 DEF Top, Cascades
  <2>4. pc[d] \in RevokeSteps => Top(d).token \in Tokens /\ call[d].goal \subseteq Tokens
    BY TopFrame DEF CallRecord
  <2>5. ASSUME pc[d] \in RevokeSteps, NEW x \in call[d].goal
        PROVE  IsRevoked(x)' \/ \E y \in Tokens : Visits(d, y)' /\ x \in Below(y)'
    <3>1. x \in Tokens
      BY <2>4, <2>5
    <3>2. IsRevoked(x) \/ \E y \in Tokens : Visits(d, y) /\ x \in Below(y)
      BY <2>5 DEF ReachInv, ReachOf
    <3> QED
      BY <2>2, <3>1, <3>2, BelowGrows
  <2>6. pc[d] \in RevokeSteps =>
          /\ pc[d] # "next_child" => Top(d).todo = << >>
          /\ pc[d] = "insert_bloom" => Top(d).token \in revoked'
          /\ pc[d] = "read_children" => IsRevoked(Top(d).token)'
          /\ pc[d] \in {"insert_revoked", "insert_bloom"} /\ ~Cascades(d) =>
                call[d].goal \subseteq {Top(d).token}
    <3>1. pc[d] = "read_children" => IsRevoked(Top(d).token)'
      <4>1. ASSUME pc[d] = "read_children", NEW u \in Tokens, u = Top(d).token
            PROVE  IsRevoked(u)'
        BY <4>1, BelowGrows DEF ReachInv, ReachOf, RevokeSteps
      <4> QED
        BY <2>3, <2>4, <4>1 DEF IsRevoked, may_contain, RevokeSteps
    <3> QED
      BY <3>1 DEF ReachInv, ReachOf, Grows
  <2> QED
    BY <2>1, <2>3, <2>5, <2>6 DEF ReachOf
<1>2. RevokeReaches'
  <2>1. promised \subseteq Tokens
    BY DEF Typed, EngineTyped
  <2> QED
    BY <2>1, BelowGrows DEF ReachInv, RevokeReaches
<1> QED
  BY <1>1, <1>2 DEF ReachInv

\* A revocation begins: all that is below the token is below the first frame.
LEMMA RevokeReach ==
    ASSUME Typed, Typed', ReachInv, NEW c \in Callers, NEW t \in Tokens,
           NEW cascade \in BOOLEAN, CallBegins(c), Revoke(c, t, cascade)
    PROVE  ReachInv'
<1> DEFINE goal == IF cascade \/ default_cascade THEN Below(t) ELSE {t}
           frame == [token |-> t, todo |-> << >>]
           stack == <<frame>>
           new == [NoCall EXCEPT !.stack = stack, !.cascade = cascade, !.goal = goal]
<1>2. Grows /\ \A d \in Callers : d # c => pc'[d] = pc[d] /\ call'[d] = call[d]
  BY StepsGrow, OthersStay
<1>3. /\ pc'[c] = "insert_revoked" /\ call'[c] = new
      /\ chains' = chains /\ children' = children /\ promised' = promised
  BY DEF Revoke, Begin, Goto, Set, Typed, engine, history
<1>4. Last(stack) = frame /\ frame.token = t /\ frame.todo = << >>
  BY DEF Last
<1>5. t \in Below(t) /\ goal \subseteq Below(t) /\ Below(t)' = Below(t)
  BY <1>3 DEF Below, Closed
<1>6. ~(cascade \/ default_cascade) => goal = {t}
  OBVIOUS
<1> HIDE DEF goal, frame, stack
<1>7. new.stack = stack /\ new.cascade = cascade /\ new.goal = goal
  BY NoCallTyped DEF CallRecord
<1> HIDE DEF new
<1>8. Top(c)' = frame /\ (Cascades(c)' => cascade \/ default_cascade)
      /\ (cascade \/ default_cascade => Cascades(c)')
  BY <1>3, <1>4, <1>7 DEF Top, Cascades
<1>9. Visits(c, t)'
  BY <1>3, <1>4, <1>8 DEF Visits, RevokeSteps
<1>10. ReachOf(c)'
  <2>1. \A x \in goal : Visits(c, t)' /\ x \in Below(t)'
    BY <1>5, <1>9
  <2> QED
    BY <1>3, <1>4, <1>6, <1>7, <1>8, <2>1 DEF ReachOf
<1> QED
  BY <1>2, <1>3, <1>10, ReachStep

\* The two insertions: the innermost token is done when both are.
LEMMA InsertReach ==
    ASSUME Typed, Typed', ReachInv, NEW c \in Callers, InsertRevoked(c) \/ InsertBloom(c)
    PROVE  ReachInv'
<1>1. CallStep(c)
  BY DEF CallStep
<1>2. Grows /\ \A d \in Callers : d # c => pc'[d] = pc[d] /\ call'[d] = call[d]
  BY <1>1, StepsGrow, OthersStay
<1>3. /\ pc[c] \in {"insert_revoked", "insert_bloom"} /\ call' = call
      /\ chains' = chains /\ children' = children /\ promised' = promised
  BY DEF InsertRevoked, InsertBloom, At, history
<1>4. Top(c)' = Top(c) /\ (Cascades(c)' <=> Cascades(c)) /\ Top(c).token \in Tokens
      /\ call[c].goal \subseteq Tokens
  BY <1>3, TopFrame DEF Top, Cascades, RevokeSteps, CallRecord
<1>5. /\ \A x \in call[c].goal :
            IsRevoked(x) \/ \E y \in Tokens : Visits(c, y) /\ x \in Below(y)
      /\ Top(c).todo = << >>
      /\ pc[c] = "insert_bloom" => Top(c).token \in revoked
      /\ ~Cascades(c) => call[c].goal \subseteq {Top(c).token}
  BY <1>3 DEF ReachInv, ReachOf, RevokeSteps
<1>6. CASE pc'[c] # "next_child"
  <2>1. pc'[c] \in {"insert_bloom", "read_children"}
    BY <1>3, <1>6 DEF InsertRevoked, InsertBloom, Goto, Typed
  <2>2. \A y : Visits(c, y)' <=> Visits(c, y)
    BY <1>3, <1>4, <2>1 DEF Visits, RevokeSteps
  <2>3. \A x \in call[c].goal :
            IsRevoked(x)' \/ \E y \in Tokens : Visits(c, y)' /\ x \in Below(y)'
    BY <1>2, <1>4, <1>5, <2>2, BelowGrows
  <2>4. CASE InsertRevoked(c)
    <3>1. pc'[c] = "insert_bloom" /\ Top(c).token \in revoked'
      BY <2>4 DEF InsertRevoked, Goto, Typed
    <3>2. ReachOf(c)'
      BY <1>3, <1>4, <1>5, <2>3, <3>1 DEF ReachOf
    <3> QED
      BY <1>2, <1>3, <3>2, ReachStep
  <2>5. CASE InsertBloom(c)
    <3>1. pc[c] = "insert_bloom" /\ pc'[c] = "read_children"
      BY <1>6, <2>5 DEF InsertBloom, At, Goto, Typed
    <3>2. IsRevoked(Top(c).token)'
      BY <1>4, <1>5, <2>5, <3>1 DEF InsertBloom, IsRevoked, may_contain
    <3>3. ReachOf(c)'
      BY <1>3, <1>4, <1>5, <2>3, <3>1, <3>2 DEF ReachOf
    <3> QED
      BY <1>2, <1>3, <3>3, ReachStep
  <2> QED
    BY <2>4, <2>5
<1>7. CASE pc'[c] = "next_child"
  <2>1. InsertBloom(c) /\ pc[c] = "insert_bloom" /\ ~Cascades(c)
    BY <1>7 DEF InsertRevoked, InsertBloom, At, Goto, Typed
  <2>2. ASSUME NEW x \in call[c].goal PROVE IsRevoked(x)'
    <3>1. x = Top(c).token /\ x \in revoked
      BY <1>5, <2>1
    <3> QED
      BY <2>1, <3>1 DEF InsertBloom, IsRevoked, may_contain
  <2>3. ReachOf(c)'
    BY <1>3, <1>7, <2>2 DEF ReachOf
  <2> QED
    BY <1>2, <1>3, <2>3, ReachStep
<1> QED
  BY <1>6, <1>7

\* What is below a token has its own children below it as well.
LEMMA BelowClosed ==
    ASSUME Typed, NEW y \in Tokens
    PROVE  y \in Below(y) /\ Below(y) \in SUBSET Tokens /\ Closed(Below(y))
<1>1. y \in Below(y) /\ Below(y) \in SUBSET Tokens
  BY DEF Below
<1>2. ASSUME NEW p \in Below(y), NEW t \in Tokens, Contains(children[p], t)
      PROVE  t \in Below(y)
  <2>1. ASSUME NEW S \in SUBSET Tokens, y \in S, Closed(S) PROVE t \in S
    <3>1. p \in S
      BY <2>1 DEF Below
    <3> QED
      BY <1>2, <2>1, <3>1, ClosedIs
  <2> QED
    BY <2>1 DEF Below
<1> QED
  BY <1>1, <1>2, ClosedIs

\* What is below a token, and is not the token, is below one of its children.
LEMMA BelowChild ==
    ASSUME Typed, NEW y \in Tokens, NEW x \in Below(y), x # y
    PROVE  \E z \in Tokens : Contains(children[y], z) /\ x \in Below(z)
<1> DEFINE T == {u \in Tokens : \E z \in Tokens : Contains(children[y], z) /\ u \in Below(z)}
           S == {y} \cup T
<1>1. S \in SUBSET Tokens /\ y \in S
  OBVIOUS
<1>2. ASSUME NEW p \in S, NEW t \in Tokens, Contains(children[p], t) PROVE t \in S
  <2>1. CASE p = y
    <3>1. t \in Below(t)
      BY BelowClosed
    <3> QED
      BY <1>2, <2>1, <3>1
  <2>2. ASSUME NEW z \in Tokens, Contains(children[y], z), p \in Below(z) PROVE t \in S
    <3>1. t \in Below(z)
      BY <1>2, <2>2, BelowClosed, ClosedIs
    <3> QED
      BY <2>2, <3>1
  <2> QED
    BY <1>2, <2>1, <2>2
<1>3. Closed(S)
  <2> HIDE DEF S
  <2> QED
    BY <1>1, <1>2, ClosedIs
<1>4. x \in S
  <2> HIDE DEF S
  <2> QED
    BY <1>1, <1>3 DEF Below
<1> QED
  BY <1>4

\* The children are read: what was below the token is below one of them.
LEMMA ReadReach ==
    ASSUME Typed, Typed', ReachInv, NEW c \in Callers, ReadChildren(c)
    PROVE  ReachInv'
<1> DEFINE n == Len(call[c].stack)
           f == [Top(c) EXCEPT !.todo = children[Top(c).token]]
           s == Append(Front(call[c].stack), f)
<1>0. CallStep(c)
  BY DEF CallStep
<1>1. Grows /\ \A d \in Callers : d # c => pc'[d] = pc[d] /\ call'[d] = call[d]
  BY <1>0, StepsGrow, OthersStay
<1>2. /\ pc[c] = "read_children" /\ pc'[c] = "next_child"
      /\ call'[c] = [call[c] EXCEPT !.stack = s]
      /\ chains' = chains /\ children' = children /\ promised' = promised
  BY DEF ReadChildren, At, Goto, Set, Typed, engine, history
<1>3. /\ call[c] \in CallRecord /\ call[c].stack \in Seq(Frame) /\ call[c].stack # << >>
      /\ Top(c) = call[c].stack[n] /\ n \in Nat /\ n > 0 /\ Top(c) \in Frame
      /\ Top(c).token \in Tokens
  BY <1>2, TopFrame, LastFacts DEF RevokeSteps
<1>4. f \in Frame /\ f.todo = children[Top(c).token]
  BY <1>3 DEF Frame, Typed, EngineTyped
<1> HIDE DEF f
<1>5. /\ s \in Seq(Frame) /\ Len(s) = n /\ s[n] = f
      /\ \A m \in 1 .. n - 1 : s[m] = call[c].stack[m]
  BY <1>3, <1>4, FrontFacts, AppendFacts
<1> HIDE DEF n, s
<1>6. call'[c].stack = s /\ call'[c].goal = call[c].goal
  BY <1>2, <1>3 DEF CallRecord
<1>7. /\ \A x \in call[c].goal :
            IsRevoked(x) \/ \E y \in Tokens : Visits(c, y) /\ x \in Below(y)
      /\ Top(c).todo = << >> /\ IsRevoked(Top(c).token)
  BY <1>2 DEF ReachInv, ReachOf, RevokeSteps
<1>8. \A y : Contains(children[Top(c).token], y) => Visits(c, y)'
  BY <1>3, <1>4, <1>5, <1>6 DEF Visits
<1>9. ASSUME NEW y, Visits(c, y) PROVE y = Top(c).token \/ Visits(c, y)'
  <2>1. ASSUME NEW m \in 1 .. n, Contains(call[c].stack[m].todo, y) PROVE Visits(c, y)'
    <3>1. m # n
      BY <1>3, <1>7, <2>1 DEF Contains
    <3>2. m \in 1 .. n - 1
      BY <1>3, <3>1
    <3> QED
      BY <1>5, <1>6, <2>1, <3>2 DEF Visits
  <2> QED
    BY <1>9, <2>1 DEF Visits, n
<1>10. \A y : Below(y)' = Below(y)
  BY <1>2 DEF Below, Closed
<1>11. ASSUME NEW x \in call[c].goal
       PROVE  IsRevoked(x)' \/ \E y \in Tokens : Visits(c, y)' /\ x \in Below(y)'
  <2>0. x \in Tokens
    BY <1>3 DEF CallRecord
  <2>1. CASE IsRevoked(x)
    BY <1>1, <2>0, <2>1, BelowGrows
  <2>2. ASSUME NEW y \in Tokens, Visits(c, y), x \in Below(y)
        PROVE  IsRevoked(x)' \/ \E z \in Tokens : Visits(c, z)' /\ x \in Below(z)'
    <3>1. CASE y # Top(c).token
      BY <1>9, <1>10, <2>2, <3>1
    <3>2. CASE y = Top(c).token /\ x = y
      BY <1>1, <1>7, <2>0, <3>2, BelowGrows
    <3>3. CASE y = Top(c).token /\ x # y
      BY <1>8, <1>10, <2>2, <3>3, BelowChild
    <3> QED
      BY <3>1, <3>2, <3>3
  <2> QED
    BY <1>7, <2>1, <2>2
<1>12. ReachOf(c)'
  BY <1>2, <1>6, <1>11 DEF ReachOf
<1> QED
  BY <1>1, <1>2, <1>12, ReachStep

\* The next child becomes the innermost token; the others stay on the list.
LEMMA ChildReach ==
    ASSUME Typed, Typed', ReachInv, NEW c \in Callers, RevokeChild(c)
    PROVE  ReachInv'
<1> DEFINE n == Len(call[c].stack)
           f == [Top(c) EXCEPT !.todo = Tail(@)]
           g == [token |-> Head(Top(c).todo), todo |-> << >>]
           s == Front(call[c].stack) \o <<f, g>>
<1>0. CallStep(c)
  BY DEF CallStep
<1>1. Grows /\ \A d \in Callers : d # c => pc'[d] = pc[d] /\ call'[d] = call[d]
  BY <1>0, StepsGrow, OthersStay
<1>2. /\ pc[c] = "next_child" /\ pc'[c] = "insert_revoked" /\ Top(c).todo # << >>
      /\ call'[c] = [call[c] EXCEPT !.cascade = TRUE, !.stack = s]
      /\ chains' = chains /\ children' = children /\ promised' = promised
  BY DEF RevokeChild, At, Goto, Set, Typed, engine, history
<1>3. /\ call[c] \in CallRecord /\ call[c].stack \in Seq(Frame) /\ call[c].stack # << >>
      /\ Top(c) = call[c].stack[n] /\ n \in Nat /\ n > 0 /\ Top(c) \in Frame
      /\ Top(c).token \in Tokens /\ Top(c).todo \in Seq(Tokens)
  BY <1>2, TopFrame, LastFacts DEF RevokeSteps
<1>4. /\ Head(Top(c).todo) \in Tokens /\ Tail(Top(c).todo) \in Seq(Tokens)
      /\ \A y : Contains(Top(c).todo, y) =>
            y = Head(Top(c).todo) \/ Contains(Tail(Top(c).todo), y)
  <2> DEFINE l == Top(c).todo
  <2>1. l \in Seq(Tokens) /\ l # << >>
    BY <1>2, <1>3
  <2> HIDE DEF l
  <2>2. /\ Head(l) \in Tokens /\ Tail(l) \in Seq(Tokens)
        /\ \A i \in 1 .. Len(l) :
                l[i] = Head(l) \/ \E j \in 1 .. Len(Tail(l)) : Tail(l)[j] = l[i]
    BY <2>1, TailFacts
  <2>3. \A y : Contains(l, y) => y = Head(l) \/ Contains(Tail(l), y)
    BY <2>2 DEF Contains
  <2> QED
    BY <2>2, <2>3 DEF l
<1>5. f \in Frame /\ f.todo = Tail(Top(c).todo)
  BY <1>3, <1>4 DEF Frame
<1>6. g \in Frame /\ g.token = Head(Top(c).todo) /\ g.todo = << >>
  BY <1>4 DEF Frame
<1> HIDE DEF f, g
<1>7. /\ s \in Seq(Frame) /\ Len(s) = n + 1 /\ s[n] = f /\ s[n + 1] = g
      /\ \A m \in 1 .. n - 1 : s[m] = call[c].stack[m]
  <2> DEFINE r == Front(call[c].stack)
  <2>1. r \in Seq(Frame) /\ Len(r) = n - 1 /\ \A m \in 1 .. n - 1 : r[m] = call[c].stack[m]
    BY <1>3, FrontFacts
  <2> HIDE DEF r
  <2>2. /\ r \o <<f, g>> \in Seq(Frame) /\ Len(r \o <<f, g>>) = Len(r) + 2
        /\ \A i \in 1 .. Len(r) : (r \o <<f, g>>)[i] = r[i]
        /\ (r \o <<f, g>>)[Len(r) + 1] = f /\ (r \o <<f, g>>)[Len(r) + 2] = g
    BY <1>5, <1>6, <2>1, PushFacts
  <2>3. Len(r) + 2 = n + 1 /\ Len(r) + 1 = n
    BY <1>3, <2>1
  <2> QED
    BY <2>1, <2>2, <2>3 DEF r
<1> HIDE DEF n, s
<1>8. call'[c].stack = s /\ call'[c].goal = call[c].goal /\ call'[c].cascade = TRUE
  BY <1>2, <1>3 DEF CallRecord
<1>9. Top(c)' = g /\ Cascades(c)'
  BY <1>3, <1>7, <1>8, LastFacts DEF Top, Cascades, Last
<1>10. ASSUME NEW y, Visits(c, y) PROVE Visits(c, y)'
  <2>1. PICK m \in 1 .. n : Contains(call[c].stack[m].todo, y)
    BY <1>2, <1>10 DEF Visits, n
  <2>2. CASE m # n
    <3>1. m \in 1 .. n - 1 /\ m \in 1 .. n + 1
      BY <1>3, <2>2
    <3> QED
      BY <1>7, <1>8, <2>1, <3>1 DEF Visits
  <2>3. CASE m = n
    <3>1. y = Head(Top(c).todo) \/ Contains(Tail(Top(c).todo), y)
      BY <1>3, <1>4, <2>1, <2>3
    <3>2. CASE y = Head(Top(c).todo)
      BY <1>2, <1>6, <1>9, <3>2 DEF Visits, RevokeSteps
    <3>3. CASE Contains(Tail(Top(c).todo), y)
      <4>1. n \in 1 .. n + 1
        BY <1>3
      <4> QED
        BY <1>5, <1>7, <1>8, <3>3, <4>1 DEF Visits
    <3> QED
      BY <3>1, <3>2, <3>3
  <2> QED
    BY <2>2, <2>3
<1>11. ASSUME NEW x \in call[c].goal
       PROVE  IsRevoked(x)' \/ \E y \in Tokens : Visits(c, y)' /\ x \in Below(y)'
  <2>1. x \in Tokens
    BY <1>3 DEF CallRecord
  <2>2. IsRevoked(x) \/ \E y \in Tokens : Visits(c, y) /\ x \in Below(y)
    BY <1>2 DEF ReachInv, ReachOf, RevokeSteps
  <2> QED
    BY <1>1, <1>10, <2>1, <2>2, BelowGrows
<1>12. ReachOf(c)'
  BY <1>2, <1>6, <1>8, <1>9, <1>11 DEF ReachOf
<1> QED
  BY <1>1, <1>2, <1>12, ReachStep

\* A frame without children to visit is left, or it was the last one.
LEMMA DoneReach ==
    ASSUME Typed, Typed', ReachInv, NEW c \in Callers, ChildrenDone(c) \/ RevokeReturns(c)
    PROVE  ReachInv'
<1> DEFINE n == Len(call[c].stack)
           s == Front(call[c].stack)
<1>0. CallStep(c)
  BY DEF CallStep
<1>1. Grows /\ \A d \in Callers : d # c => pc'[d] = pc[d] /\ call'[d] = call[d]
  BY <1>0, StepsGrow, OthersStay
<1>2. pc[c] = "next_child" /\ Top(c).todo = << >>
  BY DEF ChildrenDone, RevokeReturns, At
<1>3. /\ call[c] \in CallRecord /\ call[c].stack \in Seq(Frame) /\ call[c].stack # << >>
      /\ Top(c) = call[c].stack[n] /\ n \in Nat /\ n > 0
      /\ call[c].goal \subseteq Tokens
  BY <1>2, TopFrame, LastFacts DEF RevokeSteps, CallRecord
<1>4. \A x \in call[c].goal :
        IsRevoked(x) \/ \E y \in Tokens : Visits(c, y) /\ x \in Below(y)
  BY <1>2 DEF ReachInv, ReachOf, RevokeSteps
<1>5. ASSUME NEW y, Visits(c, y)
      PROVE  \E m \in 1 .. n - 1 : Contains(call[c].stack[m].todo, y)
  <2>1. PICK m \in 1 .. n : Contains(call[c].stack[m].todo, y)
    BY <1>2, <1>5 DEF Visits
  <2>2. m # n
    BY <1>2, <1>3, <2>1 DEF Contains
  <2>3. m \in 1 .. n - 1
    BY <1>3, <2>2
  <2> QED
    BY <2>1, <2>3
<1>6. CASE ChildrenDone(c)
  <2>1. /\ pc'[c] = "next_child" /\ call'[c] = [call[c] EXCEPT !.stack = s]
        /\ promised' = promised
    BY <1>2, <1>6 DEF ChildrenDone, Set, Typed, history
  <2>2. s \in Seq(Frame) /\ Len(s) = n - 1 /\ \A m \in 1 .. n - 1 : s[m] = call[c].stack[m]
    BY <1>3, FrontFacts
  <2> HIDE DEF s, n
  <2>3. call'[c].stack = s /\ call'[c].goal = call[c].goal
    BY <1>3, <2>1 DEF CallRecord
  <2>4. \A y : Visits(c, y) => Visits(c, y)'
    BY <1>5, <2>2, <2>3 DEF Visits
  <2>5. \A x \in call[c].goal :
            IsRevoked(x)' \/ \E y \in Tokens : Visits(c, y)' /\ x \in Below(y)'
    BY <1>1, <1>3, <1>4, <2>4, BelowGrows
  <2>6. ReachOf(c)'
    BY <2>1, <2>3, <2>5 DEF ReachOf
  <2> QED
    BY <1>1, <2>1, <2>6, ReachStep
<1>7. CASE RevokeReturns(c)
  <2>1. n = 1 /\ pc'[c] = "idle" /\ promised' = promised \cup call[c].goal
    BY <1>7 DEF RevokeReturns, Return, Goto, Typed
  <2>2. \A y : ~Visits(c, y)
    BY <1>5, <2>1
  <2>3. \A x \in call[c].goal : IsRevoked(x)'
    BY <1>1, <1>3, <1>4, <2>2, BelowGrows
  <2>4. ReachOf(c)'
    BY <2>1 DEF ReachOf, RevokeSteps
  <2> QED
    BY <1>1, <2>1, <2>3, <2>4, ReachStep
<1> QED
  BY <1>6, <1>7

\* The steps of the other operations.
LEMMA OtherStepsReach ==
    ASSUME Typed, Typed', ReachInv, NEW c \in Callers,
           \/ \E reg \in Registrations : Register(c, reg)
           \/ CheckExpirations(c)
           \/ \E t \in Lookups : AskRevoked(c, t)
           \/ \E t \in Tokens, duration \in Durations : Renew(c, t, duration)
           \/ StoreChain(c) \/ AddChild(c) \/ AddExpiry(c) \/ AskSet(c) \/ RenewExpiry(c)
           \/ LockTimed(c) \/ ExpireBloom(c) \/ ExpireRevoked(c) \/ ExpireReturns(c)
    PROVE  ReachInv'
<1>1. CallBegins(c) \/ CallStep(c)
  BY DEF CallBegins, CallStep
<1>2. Grows /\ \A d \in Callers : d # c => pc'[d] = pc[d] /\ call'[d] = call[d]
  BY <1>1, StepsGrow, OthersStay
<1>3. promised' = promised
  BY DEF Register, CheckExpirations, AskRevoked, Renew, StoreChain, AddChild, AddExpiry,
         AskSet, RenewExpiry, LockTimed, ExpireBloom, ExpireRevoked, ExpireReturns, history
<1>4. pc'[c] \notin RevokeSteps
  <2>1. CASE (\E reg \in Registrations : Register(c, reg)) \/ CheckExpirations(c)
    BY <2>1 DEF Register, CheckExpirations, Begin, Goto, Typed, RevokeSteps
  <2>2. CASE \/ \E t \in Lookups : AskRevoked(c, t)
             \/ \E t \in Tokens, duration \in Durations : Renew(c, t, duration)
    BY <2>2 DEF AskRevoked, Renew, Begin, Goto, Typed, RevokeSteps
  <2>3. CASE StoreChain(c) \/ AddChild(c) \/ AddExpiry(c) \/ AskSet(c) \/ RenewExpiry(c)
    BY <2>3 DEF StoreChain, AddChild, AddExpiry, AskSet, RenewExpiry, Return, Goto, Typed,
                RevokeSteps
  <2>4. CASE LockTimed(c) \/ ExpireBloom(c) \/ ExpireRevoked(c) \/ ExpireReturns(c)
    BY <2>4 DEF LockTimed, ExpireBloom, ExpireRevoked, ExpireReturns, Return, At, Goto,
                Typed, RevokeSteps
  <2> QED
    BY <2>1, <2>2, <2>3, <2>4
<1>5. ReachOf(c)'
  BY <1>4 DEF ReachOf
<1> QED
  BY <1>2, <1>3, <1>5, ReachStep

(***************************************************************************)
(* A revocation reaches what was below the token when it began, through    *)
(* any depth of delegation and whatever other callers register, revoke and *)
(* expire in the meantime: once revoke has returned, is_revoked says yes   *)
(* for all of it.                                                          *)
(***************************************************************************)
THEOREM RevocationReaches == Spec => []RevokeReaches
<1>1. Init => ReachInv
  BY DEF Init, ReachInv, ReachOf, RevokeReaches, RevokeSteps
<1>2. ASSUME Typed, Typed', ReachInv, [Next]_vars PROVE ReachInv'
  <2>1. CASE Tick \/ UNCHANGED vars
    <3>1. UNCHANGED <<engine, pc, call, promised>>
      BY <2>1 DEF Tick, vars, history
    <3> QED
      BY <1>2, <3>1 DEF engine, ReachInv, ReachOf, RevokeReaches, IsRevoked, may_contain,
                        Visits, Below, Closed, Top, Cascades
  <2>2. ASSUME NEW c \in Callers, CallBegins(c) PROVE ReachInv'
    BY <1>2, <2>2, RevokeReach, RevokeArguments, OtherStepsReach DEF CallBegins
  <2>3. ASSUME NEW c \in Callers, CallStep(c) PROVE ReachInv'
    BY <1>2, <2>3, InsertReach, ReadReach, ChildReach, DoneReach, OtherStepsReach
       DEF CallStep
  <2> QED
    BY <1>2, <2>1, <2>2, <2>3 DEF Next
<1>3. ReachInv => RevokeReaches
  BY DEF ReachInv
<1> QED
  BY <1>1, <1>2, <1>3, AlwaysTyped, PTL DEF Spec

================================================================================
