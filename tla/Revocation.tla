------------------------------- MODULE Revocation -------------------------------
(***************************************************************************)
(* The revocation engine, kernel/src/cap/revocation.rs: the set of revoked *)
(* tokens with the bloom filter in front of it, the delegation chains, the *)
(* children a revocation cascades through, and the expiry times.  Each of  *)
(* these has a mutex of its own, and a call takes them one after the       *)
(* other: one step is one critical section.  The history of revocations    *)
(* is left out; only get_history reads it, and cleanup touches only it.    *)
(***************************************************************************)
EXTENDS Integers, Sequences, SequencesExt

CONSTANTS
    Tokens,
    Callers,
    NoToken,
    Bits,               \* bits of the bloom filter
    bits,               \* the ones insert sets for a token
    use_bloom_filter,   \* RevocationConfig
    default_cascade,
    Registrations,      \* arguments register is called with
    Revocations,        \* arguments revoke is called with
    Lookups,            \* tokens is_revoked is asked about
    Durations,          \* of renewals, in ticks of the cycle counter
    MaxChildren,        \* bound: a longer list of children gets no new entry
    MaxTime             \* bound: the cycle counter stops here

Limit == {"none", "fixed", "renewable"}
Registration ==
    [token : Tokens, parent : Tokens \cup {NoToken}, limit : Limit, duration : Nat]

ASSUME RevocationAssumption ==
    /\ NoToken \notin Tokens
    /\ Registrations \subseteq Registration
    /\ Revocations \subseteq [token : Tokens, cascade : BOOLEAN]
    /\ bits \in [Tokens -> SUBSET Bits \ {{}}]
    /\ use_bloom_filter \in BOOLEAN /\ default_cascade \in BOOLEAN
    /\ Lookups \subseteq Tokens /\ Durations \subseteq Nat
    /\ MaxChildren \in Nat /\ MaxTime \in Nat

VARIABLES
    revoked,
    chains,         \* token -> the tokens from the root down to it
    children,       \* token -> tokens registered with it as the parent
    bloom,          \* bits that are set
    timed_tokens,   \* pairs of an expiry time and a token
    timed_lock,     \* who holds its mutex over several steps
    time_limit,     \* token -> "none", "fixed" or "renewable", stored with its chain
    now,
    pc,
    call,           \* arguments and locals of the running call
    promised,       \* history: tokens some finished revoke had to reach
    seen,           \* history: tokens is_revoked has said to be revoked
    expired         \* history: tokens reported since they were last registered

engine == <<revoked, chains, children, bloom, timed_tokens, timed_lock, time_limit>>
history == <<promised, seen, expired>>
vars == <<engine, now, pc, call, history>>

Step == {"idle",
         "store_chain", "add_child", "add_expiry",
         "insert_revoked", "insert_bloom", "read_children", "next_child",
         "ask_revoked", "renew_expiry",
         "lock_timed", "expire_bloom", "expire_revoked"}

(* a frame of the recursion revoke - revoke_children: a token and those of *)
(* its children that are still to be revoked                               *)
Frame == [token : Tokens, todo : Seq(Tokens)]

NoCall == [token |-> NoToken, parent |-> NoToken, chain |-> << >>, limit |-> "none",
           duration |-> 0, stack |-> << >>, cascade |-> FALSE, goal |-> {}, now |-> 0,
           todo |-> {}, found |-> {}]

Init ==
    /\ revoked = {}
    /\ chains = [t \in Tokens |-> << >>]
    /\ children = [t \in Tokens |-> << >>]
    /\ bloom = {}
    /\ timed_tokens = {}
    /\ timed_lock = NoToken
    /\ time_limit = [t \in Tokens |-> "none"]
    /\ now = 0
    /\ pc = [c \in Callers |-> "idle"]
    /\ call = [c \in Callers |-> NoCall]
    /\ promised = {}
    /\ seen = {}
    /\ expired = {}

--------------------------------------------------------------------------------

At(c, step) == pc[c] = step
Goto(c, step) == pc' = [pc EXCEPT ![c] = step]
Set(c, new) == call' = [call EXCEPT ![c] = new]
Begin(c, step, args) == At(c, "idle") /\ Goto(c, step) /\ Set(c, args)
Return(c) == Goto(c, "idle") /\ Set(c, NoCall)

may_contain(t) == bits[t] \subseteq bloom

(* what is_revoked answers when nobody else is at work *)
IsRevoked(t) == t \in revoked /\ (use_bloom_filter => may_contain(t))

Registered(t) == chains[t] # << >>

Tick ==
    /\ now < MaxTime
    /\ now' = now + 1
    /\ UNCHANGED <<engine, pc, call, history>>

--------------------------------------------------------------------------------
(* register.  It asks neither whether the token is new nor whether its     *)
(* parent is known: a parent without a chain becomes the root of a new     *)
(* one, and a chain that is stored again replaces the old one.             *)

Chain(t) == IF Registered(t) THEN chains[t] ELSE <<t>>

Register(c, reg) ==
    /\ reg.parent # NoToken => Len(children[reg.parent]) < MaxChildren
    /\ Begin(c, "store_chain",
             [NoCall EXCEPT !.token = reg.token, !.parent = reg.parent,
                            !.limit = reg.limit, !.duration = reg.duration,
                            !.chain = IF reg.parent = NoToken THEN <<reg.token>>
                                      ELSE Append(Chain(reg.parent), reg.token)])
    /\ UNCHANGED <<engine, now, history>>

StoreChain(c) ==
    /\ At(c, "store_chain")
    /\ chains' = [chains EXCEPT ![call[c].token] = call[c].chain]
    /\ time_limit' = [time_limit EXCEPT ![call[c].token] = call[c].limit]
    /\ expired' = expired \ {call[c].token}
    /\ Goto(c, "add_child")
    /\ UNCHANGED <<revoked, children, bloom, timed_tokens, timed_lock, now, call,
                   promised, seen>>

\* Wrong variant: the token becomes a child of the root of its chain.
AddChildOfRoot(c) ==
    /\ At(c, "add_child")
    /\ children' = IF call[c].parent = NoToken THEN children
                   ELSE [children EXCEPT ![Head(call[c].chain)] = Append(@, call[c].token)]
    /\ IF call[c].limit = "none" THEN Return(c)
       ELSE Goto(c, "add_expiry") /\ Set(c, [call[c] EXCEPT !.now = now])
    /\ UNCHANGED <<revoked, chains, bloom, timed_tokens, timed_lock, time_limit, now, history>>

AddChild(c) ==
    /\ At(c, "add_child")
    /\ children' = IF call[c].parent = NoToken THEN children
                   ELSE [children EXCEPT ![call[c].parent] = Append(@, call[c].token)]
    /\ IF call[c].limit = "none" THEN Return(c)
       ELSE Goto(c, "add_expiry") /\ Set(c, [call[c] EXCEPT !.now = now])
    /\ UNCHANGED <<revoked, chains, bloom, timed_tokens, timed_lock, time_limit, now, history>>

(* The cycle counter is read before timed_tokens is locked, so the value   *)
(* may be old; call[c].now is the time of the section before.              *)
PushExpiry(c) ==
    /\ timed_lock = NoToken
    /\ \E read \in call[c].now .. now :
        timed_tokens' = timed_tokens \cup {<<read + call[c].duration, call[c].token>>}

AddExpiry(c) ==
    /\ At(c, "add_expiry")
    /\ PushExpiry(c)
    /\ Return(c)
    /\ UNCHANGED <<revoked, chains, children, bloom, timed_lock, time_limit, now, history>>

--------------------------------------------------------------------------------
(* revoke and revoke_children; the innermost frame is the last one         *)

(* what a revocation of t finds in the children lists, all the way down:   *)
(* the least set that has t and the children of all its members            *)
Closed(S) == \A p \in S : \A i \in DOMAIN children[p] : children[p][i] \in S
Below(t) == {x \in Tokens : \A S \in SUBSET Tokens : t \in S /\ Closed(S) => x \in S}

Cascades(c) == call[c].cascade \/ default_cascade

Revoke(c, t, cascade) ==
    /\ Begin(c, "insert_revoked",
             [NoCall EXCEPT !.stack = <<[token |-> t, todo |-> << >>]>>,
                            !.cascade = cascade,
                            !.goal = IF cascade \/ default_cascade THEN Below(t) ELSE {t}])
    /\ UNCHANGED <<engine, now, history>>

Top(c) == Last(call[c].stack)

InsertRevoked(c) ==
    /\ At(c, "insert_revoked")
    /\ revoked' = revoked \cup {Top(c).token}
    /\ Goto(c, "insert_bloom")
    /\ UNCHANGED <<chains, children, bloom, timed_tokens, timed_lock, time_limit,
                   now, call, history>>

\* Wrong variant: the words of the filter are assigned, not or-ed.
InsertBloomReplaces(c) ==
    /\ At(c, "insert_bloom")
    /\ bloom' = IF use_bloom_filter THEN bits[Top(c).token] ELSE bloom
    /\ Goto(c, IF Cascades(c) THEN "read_children" ELSE "next_child")
    /\ UNCHANGED <<revoked, chains, children, timed_tokens, timed_lock, time_limit,
                   now, call, history>>

InsertBloom(c) ==
    /\ At(c, "insert_bloom")
    /\ bloom' = IF use_bloom_filter THEN bloom \cup bits[Top(c).token] ELSE bloom
    /\ Goto(c, IF Cascades(c) THEN "read_children" ELSE "next_child")
    /\ UNCHANGED <<revoked, chains, children, timed_tokens, timed_lock, time_limit,
                   now, call, history>>

\* Wrong variant: a child that is revoked already is not descended into.
ReadChildrenUnrevoked(c) ==
    LET live == SelectSeq(children[Top(c).token], LAMBDA t : t \notin revoked)
    IN  /\ At(c, "read_children")
        /\ Set(c, [call[c] EXCEPT !.stack = Append(Front(@), [Top(c) EXCEPT !.todo = live])])
        /\ Goto(c, "next_child")
        /\ UNCHANGED <<engine, now, history>>

ReadChildren(c) ==
    /\ At(c, "read_children")
    /\ Set(c, [call[c] EXCEPT !.stack =
                Append(Front(@), [Top(c) EXCEPT !.todo = children[Top(c).token]])])
    /\ Goto(c, "next_child")
    /\ UNCHANGED <<engine, now, history>>

(* children are revoked with cascade *)
RevokeChild(c) ==
    /\ At(c, "next_child") /\ Top(c).todo # << >>
    /\ Set(c, [call[c] EXCEPT !.cascade = TRUE, !.stack =
                Front(@) \o <<[Top(c) EXCEPT !.todo = Tail(@)],
                              [token |-> Head(Top(c).todo), todo |-> << >>]>>])
    /\ Goto(c, "insert_revoked")
    /\ UNCHANGED <<engine, now, history>>

ChildrenDone(c) ==
    /\ At(c, "next_child") /\ Top(c).todo = << >> /\ Len(call[c].stack) > 1
    /\ Set(c, [call[c] EXCEPT !.stack = Front(@)])
    /\ UNCHANGED <<engine, now, pc, history>>

RevokeReturns(c) ==
    /\ At(c, "next_child") /\ Top(c).todo = << >> /\ Len(call[c].stack) = 1
    /\ promised' = promised \cup call[c].goal
    /\ Return(c)
    /\ UNCHANGED <<engine, now, seen, expired>>

--------------------------------------------------------------------------------
(* is_revoked                                                              *)

(* if the filter does not have the token, the call returns false at once *)
AskRevoked(c, t) ==
    /\ use_bloom_filter => may_contain(t)
    /\ Begin(c, "ask_revoked", [NoCall EXCEPT !.token = t])
    /\ UNCHANGED <<engine, now, history>>

AskSet(c) ==
    /\ At(c, "ask_revoked")
    /\ seen' = seen \cup ({call[c].token} \cap revoked)
    /\ Return(c)
    /\ UNCHANGED <<engine, now, promised, expired>>

--------------------------------------------------------------------------------
(* check_expirations reads the clock, and goes through the expired tokens  *)
(* with timed_tokens locked                                                *)

CheckExpirations(c) ==
    /\ Begin(c, "lock_timed", [NoCall EXCEPT !.now = now])
    /\ UNCHANGED <<engine, now, history>>

Due(c) == {e \in timed_tokens : e[1] <= call[c].now}

LockTimed(c) ==
    /\ At(c, "lock_timed") /\ timed_lock = NoToken
    /\ timed_lock' = c
    /\ timed_tokens' = timed_tokens \ Due(c)
    /\ Set(c, [call[c] EXCEPT !.todo = {e[2] : e \in Due(c)}])
    /\ Goto(c, "expire_bloom")
    /\ UNCHANGED <<revoked, chains, children, bloom, time_limit, now, history>>

ExpireBloom(c) ==
    /\ At(c, "expire_bloom")
    /\ \E t \in call[c].todo :
        IF use_bloom_filter => may_contain(t)
        THEN Set(c, [call[c] EXCEPT !.token = t]) /\ Goto(c, "expire_revoked")
        ELSE Set(c, [call[c] EXCEPT !.todo = @ \ {t}, !.found = @ \cup {t}]) /\ UNCHANGED pc
    /\ UNCHANGED <<engine, now, history>>

\* Wrong variant: the filter alone decides.
ExpireRevokedTrusting(c) ==
    /\ At(c, "expire_revoked")
    /\ Set(c, [call[c] EXCEPT !.todo = @ \ {call[c].token}, !.token = NoToken])
    /\ Goto(c, "expire_bloom")
    /\ UNCHANGED <<engine, now, history>>

ExpireRevoked(c) ==
    /\ At(c, "expire_revoked")
    /\ LET t == call[c].token
       IN  Set(c, [call[c] EXCEPT !.todo = @ \ {t}, !.token = NoToken,
                                  !.found = @ \cup ({t} \ revoked)])
    /\ Goto(c, "expire_bloom")
    /\ UNCHANGED <<engine, now, history>>

ExpireReturns(c) ==
    /\ At(c, "expire_bloom") /\ call[c].todo = {}
    /\ timed_lock' = NoToken
    /\ expired' = expired \cup call[c].found
    /\ Return(c)
    /\ UNCHANGED <<revoked, chains, children, bloom, timed_tokens, time_limit,
                   now, promised, seen>>

--------------------------------------------------------------------------------
(* renew; it returns an error unless the token is renewable.  A root has   *)
(* no node in its chain, hence no constraints.                             *)

Renew(c, t, duration) ==
    /\ Len(chains[t]) > 1 /\ time_limit[t] = "renewable"
    /\ Begin(c, "renew_expiry", [NoCall EXCEPT !.token = t, !.duration = duration, !.now = now])
    /\ UNCHANGED <<engine, now, history>>

RenewExpiry(c) ==
    /\ At(c, "renew_expiry")
    /\ PushExpiry(c)
    /\ Return(c)
    /\ UNCHANGED <<revoked, chains, children, bloom, timed_lock, time_limit, now, history>>

--------------------------------------------------------------------------------

CallBegins(c) ==
    \/ \E reg \in Registrations : Register(c, reg)
    \/ \E rev \in Revocations : Revoke(c, rev.token, rev.cascade)
    \/ CheckExpirations(c)
    \/ \E t \in Lookups : AskRevoked(c, t)
    \/ \E t \in Tokens, duration \in Durations : Renew(c, t, duration)

CallStep(c) ==
    \/ StoreChain(c) \/ AddChild(c) \/ AddExpiry(c)
    \/ InsertRevoked(c) \/ InsertBloom(c) \/ ReadChildren(c)
    \/ RevokeChild(c) \/ ChildrenDone(c) \/ RevokeReturns(c)
    \/ AskSet(c) \/ RenewExpiry(c)
    \/ LockTimed(c) \/ ExpireBloom(c) \/ ExpireRevoked(c) \/ ExpireReturns(c)

Next ==
    \/ Tick
    \/ \E c \in Callers : CallBegins(c) \/ CallStep(c)

Spec == Init /\ [][Next]_vars

--------------------------------------------------------------------------------

TypeOK ==
    /\ revoked \subseteq Tokens
    /\ \A t \in Tokens : chains[t] \in Seq(Tokens) /\ children[t] \in Seq(Tokens)
    /\ bloom \subseteq Bits
    /\ timed_tokens \subseteq Nat \X Tokens
    /\ timed_lock \in Callers \cup {NoToken}
    /\ time_limit \in [Tokens -> Limit]
    /\ now \in 0 .. MaxTime
    /\ pc \in [Callers -> Step]
    /\ promised \subseteq Tokens /\ seen \subseteq Tokens /\ expired \subseteq Tokens

(* a revocation of p finds t, or the registration of t is about to see to it *)
Linked(p, t) ==
    \/ Contains(children[p], t)
    \/ \E c \in Callers : At(c, "add_child") /\ call[c].parent = p /\ call[c].token = t

(***************************************************************************)
(* The two records of a delegation agree, although register writes them    *)
(* under different locks, takes parents nobody registered, and may be      *)
(* called again for a token: a chain ends in its token, and whatever link  *)
(* a stored chain goes through, the children lists have it as well, so     *)
(* that a cascade from any token of the chain comes through. Only a link   *)
(* whose registration has not returned yet may still be missing there.     *)
(***************************************************************************)
RevocationInv ==
    /\ TypeOK
    /\ \A t \in Tokens : Registered(t) =>
        /\ Last(chains[t]) = t
        /\ \A i \in 1 .. Len(chains[t]) - 1 : Linked(chains[t][i], chains[t][i + 1])

(***************************************************************************)
(* A revocation reaches what it can know of: once revoke has returned, the *)
(* filter and the set both have the token and, with cascade, every token   *)
(* that was below it in the children lists when the call began, whatever   *)
(* others revoke, register and look up in the meantime.                    *)
(***************************************************************************)
RevokeReaches == \A t \in promised : IsRevoked(t)

(***************************************************************************)
(* The answer of is_revoked never goes back: a token it has once reported  *)
(* as revoked, perhaps before the filter had it, it keeps reporting.       *)
(***************************************************************************)
RevokedForGood == \A t \in seen : IsRevoked(t)

Expiring(t) ==
    \/ \E e \in timed_tokens : e[2] = t
    \/ \E c \in Callers : t \in call[c].todo \cup call[c].found
    \/ \E c \in Callers :
        call[c].token = t /\ call[c].limit # "none" /\ pc[c] \in {"add_child", "add_expiry"}

(***************************************************************************)
(* No expiry is lost: a token whose latest registration set a time limit   *)
(* waits in timed_tokens, is with a running check_expirations, has been    *)
(* reported by one since, or has been revoked.  What the filter only seems *)
(* to have is reported as well.                                            *)
(***************************************************************************)
ExpiryNotLost ==
    \A t \in Tokens :
        Registered(t) /\ time_limit[t] # "none" => Expiring(t) \/ t \in expired \cup revoked

================================================================================
