------------------------------- MODULE CapTable --------------------------------
(***************************************************************************)
(* The kernel's capability table, kernel/src/cap/mod.rs.  Every call takes *)
(* the `entries` mutex anew for each access: grant reads a copy of the     *)
(* parent, releases the mutex and inserts the child later; revoke marks    *)
(* the capability, and revoke_derived walks down the tree of derived ones, *)
(* locking once to collect the live children of a capability and once for  *)
(* each child it marks.  One step is one such critical section, so grants  *)
(* and revocations of different processes interleave between them.         *)
(*                                                                         *)
(* A token is the count drawn for it: the value generate_token makes of    *)
(* the count is taken to be different for each, which the mixing of the    *)
(* fallback guarantees and 256 random bits make certain enough.  Nothing   *)
(* ever sets expires_at to a time, so no capability of this table expires, *)
(* and the audit log, which no call reads, is left out.                    *)
(***************************************************************************)
EXTENDS Integers, FiniteSets, SequencesExt

CONSTANTS
    Process,          \* processes, each in at most one call at a time
    Resource,         \* resources capabilities give access to
    Operation,        \* the bits of Operations
    RootOperations,   \* what the kernel may allow with a root capability
    GRANT,            \* the bit that allows to derive capabilities
    NoEntry,          \* a token that is not in the table
    NoToken,          \* the parent of a root capability
    MaxCapabilities,  \* max_capabilities
    MaxTokens         \* bound: tokens generated

ASSUME CapAssumption ==
    /\ GRANT \in Operation
    /\ RootOperations \subseteq SUBSET Operation
    /\ MaxCapabilities \in Nat /\ MaxTokens \in Nat

Token == 1 .. MaxTokens

ASSUME NoTokenAssumption == NoToken \notin Token

VARIABLES
    entries,        \* BTreeMap<CapabilityToken, CapabilityEntry>
    by_owner,       \* per process, the tokens it was given, in order
    token_counter,
    call,           \* per process, the call it is in and what it has read
    stack,          \* per process, the activations of revoke_derived
    (* history *)
    lineage,        \* per token, every token it was derived from
    late            \* tokens inserted when their parent was revoked already

vars == <<entries, by_owner, token_counter, call, stack, lineage, late>>

--------------------------------------------------------------------------------

Entry == [owner : Process, resource : Resource, operations : SUBSET Operation,
          parent : Token \cup {NoToken}, revoked : BOOLEAN]

ASSUME NoEntryAssumption == NoEntry \notin Entry

\* An activation of revoke_derived: whose children it revokes, and, once it has
\* collected them, which are left.
Frame == [parent : Token, collected : BOOLEAN, todo : SUBSET Token]

Call == [at : {"idle", "insert", "mark", "derived"}, token : Token \cup {NoToken},
         entry : Entry \cup {NoEntry}]

Idle == [at |-> "idle", token |-> NoToken, entry |-> NoEntry]

Present(t) == entries[t] # NoEntry
Live(t) == Present(t) /\ ~entries[t].revoked
CapCount == Cardinality({t \in Token : Present(t)})

Init ==
    /\ entries = [t \in Token |-> NoEntry]
    /\ by_owner = [p \in Process |-> <<>>]
    /\ token_counter = 0
    /\ call = [p \in Process |-> Idle]
    /\ stack = [p \in Process |-> <<>>]
    /\ lineage = [t \in Token |-> {}]
    /\ late = {}

--------------------------------------------------------------------------------
(* generate_token and insert_entry *)

\* The bound on tokens leaves one for every grant that is under way.
TokenLeft == token_counter + Cardinality({p \in Process : call[p].at = "insert"}) < MaxTokens

\* What a token derived from parent descends from.
LineageBelow(parent) == IF parent = NoToken THEN {} ELSE lineage[parent] \cup {parent}

\* Wrong variant: the owner index is updated before the table is found full.
InsertEntryIndexed(e) ==
    LET t == token_counter + 1
    IN  /\ t \in Token
        /\ token_counter' = t
        /\ by_owner' = [by_owner EXCEPT ![e.owner] = Append(@, t)]
        /\ IF CapCount >= MaxCapabilities
           THEN UNCHANGED <<entries, lineage, late>>
           ELSE /\ entries' = [entries EXCEPT ![t] = e]
                /\ lineage' = [lineage EXCEPT ![t] = LineageBelow(e.parent)]
                /\ UNCHANGED late

\* Wrong variant: tokens are numbered by the size of the table less one.
InsertEntryReused(e) ==
    LET t == IF CapCount = 0 THEN 1 ELSE CapCount
    IN  /\ token_counter < MaxTokens
        /\ token_counter' = token_counter + 1
        /\ entries' = [entries EXCEPT ![t] = e]
        /\ by_owner' = [by_owner EXCEPT ![e.owner] = Append(@, t)]
        /\ lineage' = [lineage EXCEPT ![t] = LineageBelow(e.parent)]
        /\ UNCHANGED late

\* The count is drawn first, and is spent when the table turns out to be full.
\* Nothing but the draw reads the counter, so it is taken with the insertion.
InsertEntry(e) ==
    LET t == token_counter + 1
    IN  /\ t \in Token
        /\ token_counter' = t
        /\ IF CapCount >= MaxCapabilities
           THEN UNCHANGED <<entries, by_owner, lineage, late>>
           ELSE /\ entries' = [entries EXCEPT ![t] = e]
                /\ by_owner' = [by_owner EXCEPT ![e.owner] = Append(@, t)]
                /\ lineage' = [lineage EXCEPT ![t] = LineageBelow(e.parent)]
                /\ late' = IF e.parent # NoToken /\ entries[e.parent].revoked
                           THEN late \cup {t} ELSE late

CreateRoot(owner, resource, operations) ==
    /\ TokenLeft
    /\ InsertEntry([owner |-> owner, resource |-> resource, operations |-> operations,
                    parent |-> NoToken, revoked |-> FALSE])
    /\ UNCHANGED <<call, stack>>

--------------------------------------------------------------------------------
(* grant *)

\* Wrong variant: the operations asked for are granted as they are.
DerivedUnattenuated(t, grantee, operations) ==
    [owner |-> grantee, resource |-> entries[t].resource, operations |-> operations,
     parent |-> t, revoked |-> FALSE]

\* The entry grant inserts below the capability t.
Derived(t, grantee, operations) ==
    [owner |-> grantee, resource |-> entries[t].resource,
     operations |-> operations \cap entries[t].operations,
     parent |-> t, revoked |-> FALSE]

\* Wrong variant: the GRANT bit is not checked.
GrantLookupUnchecked(p, t, grantee, operations) ==
    /\ TokenLeft
    /\ call[p] = Idle
    /\ Present(t)
    /\ entries[t].owner = p
    /\ call' = [call EXCEPT ![p] =
          [at |-> "insert", token |-> t, entry |-> Derived(t, grantee, operations)]]
    /\ UNCHANGED <<entries, by_owner, token_counter, stack, lineage, late>>

\* get_entry and the checks on the copy.  A call that fails them changes nothing.
GrantLookup(p, t, grantee, operations) ==
    /\ TokenLeft
    /\ call[p] = Idle
    /\ Present(t)
    /\ entries[t].owner = p
    /\ GRANT \in entries[t].operations
    /\ call' = [call EXCEPT ![p] =
          [at |-> "insert", token |-> t, entry |-> Derived(t, grantee, operations)]]
    /\ UNCHANGED <<entries, by_owner, token_counter, stack, lineage, late>>

GrantInsert(p) ==
    /\ call[p].at = "insert"
    /\ InsertEntry(call[p].entry)
    /\ call' = [call EXCEPT ![p] = Idle]
    /\ UNCHANGED stack

--------------------------------------------------------------------------------
(* revoke *)

\* get_entry and the owner check; the REVOKE bit is not looked at.
RevokeLookup(p, t) ==
    /\ call[p] = Idle
    /\ Present(t)
    /\ entries[t].owner = p
    /\ call' = [call EXCEPT ![p] = [at |-> "mark", token |-> t, entry |-> NoEntry]]
    /\ UNCHANGED <<entries, by_owner, token_counter, stack, lineage, late>>

Activation(t) == [parent |-> t, collected |-> FALSE, todo |-> {}]

RevokeMark(p) ==
    LET t == call[p].token
    IN  /\ call[p].at = "mark"
        /\ entries' = [entries EXCEPT ![t].revoked = TRUE]
        /\ stack' = [stack EXCEPT ![p] = <<Activation(t)>>]
        /\ call' = [call EXCEPT ![p].at = "derived"]
        /\ UNCHANGED <<by_owner, token_counter, lineage, late>>

\* The innermost activation of revoke_derived.
Top(p) == stack[p][Len(stack[p])]

LiveChildren(t) == {d \in Token : Live(d) /\ entries[d].parent = t}

Collect(p) ==
    /\ stack[p] # <<>>
    /\ ~Top(p).collected
    /\ stack' = [stack EXCEPT ![p] = [@ EXCEPT ![Len(stack[p])] =
          [parent |-> Top(p).parent, collected |-> TRUE, todo |-> LiveChildren(Top(p).parent)]]]
    /\ UNCHANGED <<entries, by_owner, token_counter, call, lineage, late>>

\* Wrong variant: the child is marked and its own children are forgotten.
RevokeChildShallow(p) ==
    /\ stack[p] # <<>>
    /\ Top(p).collected
    /\ \E d \in Top(p).todo :
          /\ entries' = [entries EXCEPT ![d].revoked = TRUE]
          /\ stack' = [stack EXCEPT ![p][Len(stack[p])].todo = @ \ {d}]
    /\ UNCHANGED <<by_owner, token_counter, call, lineage, late>>

\* The loop body: mark one of the children left, in the order of their token
\* values, which is any order, and descend to its own children.
RevokeChild(p) ==
    /\ stack[p] # <<>>
    /\ Top(p).collected
    /\ \E d \in Top(p).todo :
          /\ entries' = [entries EXCEPT ![d].revoked = TRUE]
          /\ stack' = [stack EXCEPT ![p] = Append([@ EXCEPT ![Len(stack[p])] =
                [parent |-> Top(p).parent, collected |-> TRUE, todo |-> Top(p).todo \ {d}]],
                Activation(d))]
    /\ UNCHANGED <<by_owner, token_counter, call, lineage, late>>

\* Wrong variant: the activation waits until no child is live any more.
DerivedDoneWaits(p) ==
    /\ stack[p] # <<>>
    /\ Top(p).collected
    /\ Top(p).todo = {} /\ LiveChildren(Top(p).parent) = {}
    /\ stack' = [stack EXCEPT ![p] = SubSeq(@, 1, Len(@) - 1)]
    /\ call' = IF Len(stack[p]) = 1 THEN [call EXCEPT ![p] = Idle] ELSE call
    /\ UNCHANGED <<entries, by_owner, token_counter, lineage, late>>

\* No child is left: the activation returns, the outermost one to revoke's caller.
DerivedDone(p) ==
    /\ stack[p] # <<>>
    /\ Top(p).collected
    /\ Top(p).todo = {}
    /\ stack' = [stack EXCEPT ![p] = SubSeq(@, 1, Len(@) - 1)]
    /\ call' = IF Len(stack[p]) = 1 THEN [call EXCEPT ![p] = Idle] ELSE call
    /\ UNCHANGED <<entries, by_owner, token_counter, lineage, late>>

RevokeStep(p) == RevokeMark(p) \/ Collect(p) \/ RevokeChild(p) \/ DerivedDone(p)

--------------------------------------------------------------------------------

Next ==
    \/ \E p \in Process, r \in Resource, ops \in RootOperations : CreateRoot(p, r, ops)
    \/ \E p, q \in Process, t \in Token, ops \in SUBSET Operation : GrantLookup(p, t, q, ops)
    \/ \E p \in Process : GrantInsert(p)
    \/ \E p \in Process, t \in Token : RevokeLookup(p, t)
    \/ \E p \in Process : RevokeStep(p)

Spec == Init /\ [][Next]_vars

(* A call of revoke waits for nothing but mutexes that are released at the   *)
(* end of each step, so it keeps taking steps.                               *)
FairSpec == Spec /\ \A p \in Process : WF_vars(RevokeStep(p))

--------------------------------------------------------------------------------
(* check, which reads one copy of the entry and decides *)

CheckResult(p, t, op) ==
    IF ~Present(t) THEN "TokenNotFound"
    ELSE IF entries[t].owner # p THEN "NotOwner"
    ELSE IF entries[t].revoked THEN "Revoked"
    ELSE IF op \notin entries[t].operations THEN "OperationNotAllowed"
    ELSE "Ok"

--------------------------------------------------------------------------------
(* Properties *)

TypeOK ==
    /\ entries \in [Token -> Entry \cup {NoEntry}]
    /\ by_owner \in [Process -> Seq(Token)]
    /\ token_counter \in Nat
    /\ call \in [Process -> Call]
    /\ stack \in [Process -> Seq(Frame)]
    /\ lineage \in [Token -> SUBSET Token]
    /\ late \in SUBSET Token

\* A token not drawn yet is not in the table, so inserting never replaces an
\* entry.
FreshTokens == \A t \in Token : t > token_counter => ~Present(t)

\* An entry's parent, and whatever an unfinished call has read, is still in the
\* table when the call acts on it.
ParentsPresent ==
    /\ \A t \in Token : Present(t) /\ entries[t].parent # NoToken => Present(entries[t].parent)
    /\ \A p \in Process :
          /\ call[p].at \in {"insert", "mark"} => call[p].token # NoToken /\ Present(call[p].token)
          /\ call[p].at = "insert" =>
                call[p].entry # NoEntry /\ call[p].entry.parent = call[p].token
          /\ \A i \in 1 .. Len(stack[p]) :
                /\ Present(stack[p][i].parent)
                /\ \A d \in stack[p][i].todo : Present(d) /\ entries[d].parent = stack[p][i].parent

\* Activations of revoke_derived belong to a revoke that has marked its token.
StackInRevoke == \A p \in Process : stack[p] # <<>> => call[p].at = "derived"

\* A capability held below e allows no operation e does not, on no other
\* resource, and e allows to grant.
Attenuates(d, e) ==
    /\ d.operations \subseteq e.operations
    /\ d.resource = e.resource
    /\ GRANT \in e.operations

\* Attenuation (cap/mod.rs:16, :266-267): along a whole chain of grants, made in
\* any interleaving from copies of entries read earlier, a derived capability
\* has no operation that any of its ancestors lacks, is for the same resource,
\* and each ancestor could grant; nothing descends from itself.
Attenuation ==
    \A t \in Token : \A a \in lineage[t] :
        a < t /\ Present(t) /\ Present(a) /\ Attenuates(entries[t], entries[a])

\* The same of an entry that is about to be inserted, and its parent.
AttenuationPending ==
    \A p \in Process : call[p].at = "insert" =>
        Attenuates(call[p].entry, entries[call[p].token])

\* The lineage of an entry is its parent and the parent's lineage.
LineageOK ==
    \A t \in Token : Present(t) => lineage[t] = LineageBelow(entries[t].parent)

\* Some activation of revoke_derived has the capability t still to revoke: it is
\* about to collect the children of t's parent, or has t on its list.
Awaited(t) ==
    \E p \in Process : \E i \in 1 .. Len(stack[p]) :
        /\ stack[p][i].parent = entries[t].parent
        /\ ~stack[p][i].collected \/ t \in stack[p][i].todo

\* What revoke leaves behind (cap/mod.rs:354-387, :494-522): a capability that is
\* live below a revoked parent is one that a revocation in progress will still
\* reach, or one that was granted after its parent had been revoked.  No
\* interleaving of revocations of overlapping subtrees skips any other.
RevocationReaches ==
    \A t \in Token :
        (Live(t) /\ entries[t].parent # NoToken /\ entries[entries[t].parent].revoked)
            => t \in late \/ Awaited(t)

\* The inductive invariant of the table.
CapInv ==
    /\ TypeOK
    /\ FreshTokens
    /\ ParentsPresent
    /\ StackInRevoke
    /\ LineageOK
    /\ Attenuation
    /\ AttenuationPending
    /\ RevocationReaches

\* The owner index lists exactly the tokens of the table by their owner, each
\* once, revoked or not.
OwnerIndexAgrees ==
    \A p \in Process :
        /\ Cardinality(ToSet(by_owner[p])) = Len(by_owner[p])
        /\ ToSet(by_owner[p]) = {t \in Token : Present(t) /\ entries[t].owner = p}

\* Once check has refused a token of the table for an operation, it refuses it
\* for ever: nothing un-revokes a capability, adds an operation, changes its
\* owner or hands its token out again (cap/mod.rs:17, "Tokens can be revoked at
\* any time").
RefusedForever ==
    [][\A p \in Process, t \in Token, op \in Operation :
          Present(t) /\ CheckResult(p, t, op) # "Ok" => CheckResult(p, t, op)' # "Ok"]_vars

\* Every call of revoke returns, however many capabilities others derive from
\* the subtree while it walks down: max_capabilities bounds them.
RevokeReturns == \A p \in Process : (stack[p] # <<>>) ~> (stack[p] = <<>>)

\* When revoke returns, everything derived from its token by then is revoked, as
\* the comment on it says (cap/mod.rs:348, "Revokes a capability and all derived
\* capabilities.").
RevokeIsComplete ==
    [][\A p \in Process :
          call[p].at = "derived" /\ call'[p].at = "idle" =>
              \A t \in Token : call[p].token \in lineage[t] => entries[t].revoked]_vars

================================================================================
