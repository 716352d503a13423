---------------------------- MODULE CapTableProofs -----------------------------
(***************************************************************************)
(* Proofs about the capability table, for every set of processes,          *)
(* resources and operations and every capacity.                            *)
(***************************************************************************)
EXTENDS CapTable, SequenceTheorems, FiniteSetTheorems, TLAPS

--------------------------------------------------------------------------------
(* The stack of activations *)

\* Replacing the innermost activation leaves the others in place.
LEMMA TopReplaced ==
    ASSUME NEW s \in Seq(Frame), s # <<>>, NEW f \in Frame
    PROVE  LET n == [s EXCEPT ![Len(s)] = f]
           IN  /\ n \in Seq(Frame)
               /\ Len(n) = Len(s)
               /\ n[Len(s)] = f
               /\ \A i \in 1 .. Len(s) : i # Len(s) => n[i] = s[i]
<1>1. Len(s) \in Nat /\ Len(s) > 0 /\ Len(s) \in 1 .. Len(s)
  OBVIOUS
<1> QED
  BY <1>1, ExceptSeq

\* Returning from the innermost activation leaves the others in place.
LEMMA TopRemoved ==
    ASSUME NEW s \in Seq(Frame), s # <<>>
    PROVE  LET n == SubSeq(s, 1, Len(s) - 1)
           IN  /\ n \in Seq(Frame)
               /\ Len(n) = Len(s) - 1
               /\ \A i \in 1 .. Len(s) - 1 : n[i] = s[i]
               /\ Len(s) = 1 => n = <<>>
<1> DEFINE n == SubSeq(s, 1, Len(s) - 1)
<1>1. Len(s) \in Nat /\ Len(s) > 0
  OBVIOUS
<1>2. \A i \in 1 .. Len(s) - 1 : i \in 1 .. Len(s)
  BY <1>1
<1>3. n \in Seq(Frame) /\ Len(n) = Len(s) - 1
  <2>1. 1 \in Int /\ Len(s) - 1 \in Int /\ \A i \in 1 .. Len(s) - 1 : s[i] \in Frame
    BY <1>1, <1>2
  <2>2. ASSUME NEW m \in Int, NEW k \in Int, \A i \in m .. k : s[i] \in Frame
        PROVE  /\ SubSeq(s, m, k) \in Seq(Frame)
               /\ Len(SubSeq(s, m, k)) = IF m <= k THEN k - m + 1 ELSE 0
    BY <2>2, SubSeqProperties
  <2>3. /\ SubSeq(s, 1, Len(s) - 1) \in Seq(Frame)
        /\ Len(SubSeq(s, 1, Len(s) - 1)) = IF 1 <= Len(s) - 1 THEN (Len(s) - 1) - 1 + 1 ELSE 0
    BY <2>1, <2>2, Zenon
  <2> HIDE DEF n
  <2>4. Len(n) = IF 1 <= Len(s) - 1 THEN (Len(s) - 1) - 1 + 1 ELSE 0
    BY <2>3 DEF n
  <2>5. Len(n) = Len(s) - 1
    <3>1. ASSUME NEW k \in Nat, k > 0 PROVE (IF 1 <= k - 1 THEN (k - 1) - 1 + 1 ELSE 0) = k - 1
      BY <3>1
    <3> QED
      BY <1>1, <2>4, <3>1, Zenon
  <2>6. n \in Seq(Frame)
    BY <2>3 DEF n
  <2> QED
    BY <2>5, <2>6
<1>4. \A i \in 1 .. Len(s) - 1 : n[i] = s[i]
  <2>1. ASSUME NEW i \in 1 .. Len(s) - 1 PROVE n[i] = s[1 + i - 1]
    BY <1>1
  <2> QED
    BY <1>1, <2>1
<1> HIDE DEF n
<1>5. Len(s) = 1 => n = <<>>
  BY <1>3, EmptySeq
<1> QED
  BY <1>3, <1>4, <1>5 DEF n

--------------------------------------------------------------------------------
(* Facts about entries *)

LEMMA EntryFields ==
    ASSUME TypeOK, NEW t \in Token, Present(t)
    PROVE  /\ entries[t] \in Entry
           /\ entries[t].owner \in Process
           /\ entries[t].resource \in Resource
           /\ entries[t].operations \in SUBSET Operation
           /\ entries[t].parent \in Token \cup {NoToken}
           /\ entries[t].revoked \in BOOLEAN
<1>1. entries[t] \in Entry
  BY DEF TypeOK, Present
<1> QED
  BY <1>1 DEF Entry

\* Marking a capability of the table changes its revoked flag and nothing else.
LEMMA MarkKeeps ==
    ASSUME TypeOK, NEW t \in Token, Present(t),
           entries' = [entries EXCEPT ![t].revoked = TRUE]
    PROVE  /\ entries' \in [Token -> Entry \cup {NoEntry}]
           /\ \A u \in Token :
                 /\ Present(u)' <=> Present(u)
                 /\ Present(u) =>
                       /\ entries'[u].owner = entries[u].owner
                       /\ entries'[u].resource = entries[u].resource
                       /\ entries'[u].operations = entries[u].operations
                       /\ entries'[u].parent = entries[u].parent
                 /\ u # t => entries'[u] = entries[u]
           /\ entries'[t].revoked = TRUE
<1>1. entries \in [Token -> Entry \cup {NoEntry}]
  BY DEF TypeOK
<1>2. entries[t] \in Entry
  BY EntryFields
<1> DEFINE m == [entries[t] EXCEPT !.revoked = TRUE]
<1>3. /\ m \in Entry /\ m.revoked = TRUE /\ m.owner = entries[t].owner
      /\ m.resource = entries[t].resource /\ m.operations = entries[t].operations
      /\ m.parent = entries[t].parent
  BY <1>2 DEF Entry
<1>4. entries' = [entries EXCEPT ![t] = m]
  OBVIOUS
<1> HIDE DEF m
<1>5. m # NoEntry
  BY <1>3, NoEntryAssumption
<1>6. entries'[t] = m /\ \A u \in Token : u # t => entries'[u] = entries[u]
  BY <1>1, <1>4
<1>7. entries' \in [Token -> Entry \cup {NoEntry}]
  BY <1>1, <1>3, <1>4
<1> QED
  BY <1>3, <1>5, <1>6, <1>7 DEF Present

--------------------------------------------------------------------------------
(* Preservation of the invariant, one lemma per kind of step *)

\* An entry that may be inserted: a root, or one that attenuates its parent.
Insertable(e) ==
    /\ e \in Entry
    /\ e.parent # NoToken => Present(e.parent) /\ Attenuates(e, entries[e.parent])

LEMMA InsertStep ==
    ASSUME CapInv, NEW e, Insertable(e), InsertEntry(e), stack' = stack,
           call' \in [Process -> Call],
           \A p \in Process : call'[p] = call[p] \/ (call'[p] = Idle /\ call[p].at = "insert")
    PROVE  CapInv'
<1>1. /\ TypeOK /\ FreshTokens /\ ParentsPresent /\ StackInRevoke
      /\ LineageOK /\ Attenuation /\ AttenuationPending /\ RevocationReaches
  BY DEF CapInv
<1>0. PICK t \in Token : t = token_counter + 1
  BY DEF InsertEntry
<1>2. /\ t \in Token /\ token_counter' = t /\ t \in Nat /\ token_counter \in Nat /\ t > token_counter
  BY <1>0, <1>1 DEF InsertEntry, TypeOK, Token
<1>3. ~Present(t)
  BY <1>1, <1>2 DEF FreshTokens
<1>4. e \in Entry /\ e # NoEntry /\ e.owner \in Process /\ e.parent \in Token \cup {NoToken}
  BY NoEntryAssumption DEF Insertable, Entry
<1>5. Idle.at = "idle"
  BY DEF Idle
<1>6. CASE UNCHANGED <<entries, by_owner, lineage, late>>
  <2>1. \A u \in Token : Present(u)' <=> Present(u)
    BY <1>6 DEF Present
  <2>2. TypeOK'
    BY <1>1, <1>2, <1>6 DEF TypeOK
  <2>3. FreshTokens'
    BY <1>1, <1>2, <2>1 DEF FreshTokens, Token
  <2>4. ParentsPresent'
    BY <1>1, <1>5, <1>6, <2>1 DEF ParentsPresent, Present
  <2>5. StackInRevoke'
    BY <1>1, <1>5 DEF StackInRevoke
  <2>6. LineageOK' /\ Attenuation'
    BY <1>1, <1>6 DEF LineageOK, LineageBelow, Attenuation, Attenuates, Present
  <2>7. AttenuationPending'
    BY <1>1, <1>5, <1>6 DEF AttenuationPending, Attenuates
  <2>8. RevocationReaches'
    BY <1>1, <1>6 DEF RevocationReaches, Awaited, Live, Present
  <2> QED
    BY <2>2, <2>3, <2>4, <2>5, <2>6, <2>7, <2>8 DEF CapInv
<1>7. CASE /\ entries' = [entries EXCEPT ![t] = e]
           /\ by_owner' = [by_owner EXCEPT ![e.owner] = Append(@, t)]
           /\ lineage' = [lineage EXCEPT ![t] = LineageBelow(e.parent)]
           /\ late' = IF e.parent # NoToken /\ entries[e.parent].revoked
                      THEN late \cup {t} ELSE late
  <2>1. /\ entries' \in [Token -> Entry \cup {NoEntry}]
        /\ entries'[t] = e
        /\ \A u \in Token : u # t => entries'[u] = entries[u]
    BY <1>1, <1>2, <1>4, <1>7 DEF TypeOK
  <2>2. Present(t)' /\ \A u \in Token : u # t => (Present(u)' <=> Present(u))
    BY <1>4, <2>1 DEF Present
  <2>3. \A u \in Token : Present(u) => u # t /\ Present(u)' /\ entries'[u] = entries[u]
    BY <1>3, <2>1, <2>2
  <2>4. e.parent # NoToken => e.parent \in Token /\ Present(e.parent) /\ e.parent # t /\ e.parent < t
    BY <1>1, <1>2, <1>3, <1>4 DEF Insertable, FreshTokens, Token
  <2>5. LineageBelow(e.parent) \in SUBSET Token
    BY <1>1, <1>4 DEF LineageBelow, TypeOK
  <2>6. /\ lineage'[t] = LineageBelow(e.parent)
        /\ \A u \in Token : u # t => lineage'[u] = lineage[u]
        /\ lineage' \in [Token -> SUBSET Token]
    BY <1>1, <1>2, <1>7, <2>5 DEF TypeOK
  <2>7. TypeOK'
    <3>1. by_owner[e.owner] \in Seq(Token)
      BY <1>1, <1>4 DEF TypeOK
    <3>2. Append(by_owner[e.owner], t) \in Seq(Token)
      BY <1>2, <3>1, AppendProperties
    <3>3. by_owner' \in [Process -> Seq(Token)]
      BY <1>1, <1>4, <1>7, <3>2 DEF TypeOK
    <3>4. late' \in SUBSET Token
      BY <1>1, <1>2, <1>7 DEF TypeOK
    <3> QED
      BY <1>1, <1>2, <2>1, <2>6, <3>3, <3>4 DEF TypeOK
  <2>8. FreshTokens'
    BY <1>1, <1>2, <2>2 DEF FreshTokens, Token
  <2>9. ParentsPresent'
    <3>1. ASSUME NEW u \in Token, Present(u)', entries'[u].parent # NoToken
          PROVE  Present(entries[u].parent)'
      <4>1. CASE u = t
        BY <2>1, <2>3, <2>4, <3>1, <4>1
      <4>2. CASE u # t
        <5>1. Present(u) /\ entries'[u] = entries[u]
          BY <2>1, <2>2, <3>1, <4>2
        <5>2. Present(entries[u].parent) /\ entries[u].parent \in Token
          BY <1>1, <3>1, <5>1, EntryFields DEF ParentsPresent
        <5> QED
          BY <2>3, <5>1, <5>2
      <4> QED
        BY <4>1, <4>2
    <3>2. ASSUME NEW p \in Process
          PROVE  /\ call'[p].at \in {"insert", "mark"} =>
                       call'[p].token # NoToken /\ Present(call[p].token)'
                 /\ call'[p].at = "insert" =>
                       call'[p].entry # NoEntry /\ call'[p].entry.parent = call'[p].token
      <4>1. call[p].token \in Token \cup {NoToken}
        BY <1>1 DEF TypeOK, Call
      <4> QED
        BY <1>1, <1>5, <2>3, <4>1 DEF ParentsPresent
    <3>3. ASSUME NEW p \in Process, NEW i \in 1 .. Len(stack[p])
          PROVE  /\ Present(stack[p][i].parent)'
                 /\ \A d \in stack[p][i].todo :
                       Present(d)' /\ entries'[d].parent = stack[p][i].parent
      <4>1. stack[p] \in Seq(Frame)
        BY <1>1 DEF TypeOK
      <4>2. stack[p][i] \in Frame
        BY <4>1
      <4>3. stack[p][i].parent \in Token /\ stack[p][i].todo \in SUBSET Token
        BY <4>2 DEF Frame
      <4> QED
        BY <1>1, <2>3, <4>3 DEF ParentsPresent
    <3> QED
      BY <3>1, <3>2, <3>3 DEF ParentsPresent
  <2>10. StackInRevoke'
    BY <1>1, <1>5 DEF StackInRevoke
  <2>11. LineageOK'
    <3>1. ASSUME NEW u \in Token, Present(u)'
          PROVE  lineage'[u] = LineageBelow(entries[u].parent)'
      <4>1. CASE u = t
        BY <2>1, <2>4, <2>6, <4>1 DEF LineageBelow
      <4>2. CASE u # t
        <5>1. Present(u) /\ entries'[u] = entries[u] /\ lineage'[u] = lineage[u]
          BY <2>1, <2>2, <2>6, <3>1, <4>2
        <5>2. entries[u].parent # NoToken => entries[u].parent \in Token /\ entries[u].parent # t
          BY <1>1, <1>3, <5>1, EntryFields DEF ParentsPresent
        <5>3. entries[u].parent # NoToken => lineage'[entries[u].parent] = lineage[entries[u].parent]
          BY <2>6, <5>2
        <5>4. lineage[u] = LineageBelow(entries[u].parent)
          BY <1>1, <5>1 DEF LineageOK
        <5> QED
          BY <5>1, <5>3, <5>4 DEF LineageBelow
      <4> QED
        BY <4>1, <4>2
    <3> QED
      BY <3>1 DEF LineageOK
  <2>12. Attenuation'
    <3>1. ASSUME NEW u \in Token, NEW a \in lineage'[u]
          PROVE  a < u /\ Present(u)' /\ Present(a)' /\ Attenuates(entries'[u], entries'[a])
      <4>1. CASE u # t
        <5>1. a \in lineage[u] /\ a \in Token
          BY <1>1, <2>6, <4>1 DEF TypeOK
        <5>2. a < u /\ Present(u) /\ Present(a) /\ Attenuates(entries[u], entries[a])
          BY <1>1, <5>1 DEF Attenuation
        <5> QED
          BY <2>3, <5>1, <5>2
      <4>2. CASE u = t
        <5>1. e.parent # NoToken /\ a \in lineage[e.parent] \cup {e.parent}
          BY <2>6, <4>2 DEF LineageBelow
        <5>2. Attenuates(e, entries[e.parent])
          BY <5>1 DEF Insertable
        <5>3. CASE a = e.parent
          BY <2>1, <2>2, <2>3, <2>4, <4>2, <5>1, <5>2, <5>3
        <5>4. CASE a \in lineage[e.parent]
          <6>1. a \in Token
            BY <1>1, <2>4, <5>1, <5>4 DEF TypeOK
          <6>2. a < e.parent /\ Present(a) /\ Attenuates(entries[e.parent], entries[a])
            BY <1>1, <2>4, <5>1, <5>4 DEF Attenuation
          <6>3. Attenuates(e, entries[a])
            BY <5>2, <6>2 DEF Attenuates
          <6>4. a < t
            BY <1>2, <2>4, <5>1, <6>1, <6>2 DEF Token
          <6> QED
            BY <2>1, <2>2, <2>3, <4>2, <6>1, <6>2, <6>3, <6>4
        <5> QED
          BY <5>1, <5>3, <5>4
      <4> QED
        BY <4>1, <4>2
    <3> QED
      BY <3>1 DEF Attenuation, Attenuates
  <2>13. AttenuationPending'
    <3>1. ASSUME NEW p \in Process, call'[p].at = "insert"
          PROVE  Attenuates(call'[p].entry, entries'[call'[p].token])
      <4>1. call'[p] = call[p]
        BY <1>5, <3>1
      <4>2. call[p].token \in Token /\ Present(call[p].token)
        BY <1>1, <3>1, <4>1 DEF ParentsPresent, TypeOK, Call
      <4> QED
        BY <1>1, <2>3, <3>1, <4>1, <4>2 DEF AttenuationPending
    <3> QED
      BY <3>1 DEF AttenuationPending, Attenuates
  <2>14. RevocationReaches'
    <3>1. ASSUME NEW u \in Token, Live(u)', entries'[u].parent # NoToken,
                 entries'[entries'[u].parent].revoked
          PROVE  u \in late' \/ Awaited(u)'
      <4>1. CASE u = t
        BY <1>7, <2>1, <2>3, <2>4, <3>1, <4>1
      <4>2. CASE u # t
        <5>1. Live(u) /\ Present(u) /\ entries'[u] = entries[u]
          BY <2>1, <2>2, <3>1, <4>2 DEF Live
        <5>2. entries[u].parent \in Token /\ Present(entries[u].parent)
          BY <1>1, <3>1, <5>1, EntryFields DEF ParentsPresent
        <5>3. u \in late \/ Awaited(u)
          BY <1>1, <2>3, <3>1, <5>1, <5>2 DEF RevocationReaches
        <5>4. Awaited(u) => Awaited(u)'
          BY <5>1 DEF Awaited
        <5> QED
          BY <1>7, <5>3, <5>4
      <4> QED
        BY <4>1, <4>2
    <3> QED
      BY <3>1 DEF RevocationReaches
  <2> QED
    BY <2>7, <2>8, <2>9, <2>10, <2>11, <2>12, <2>13, <2>14 DEF CapInv
<1> QED
  BY <1>0, <1>6, <1>7 DEF InsertEntry

LEMMA LookupStep ==
    ASSUME CapInv, NEW p \in Process, NEW c \in Call, call[p] = Idle,
           call' = [call EXCEPT ![p] = c],
           c.at \in {"insert", "mark"}, c.token \in Token, Present(c.token),
           c.at = "insert" => /\ c.entry # NoEntry /\ c.entry.parent = c.token
                              /\ Attenuates(c.entry, entries[c.token]),
           UNCHANGED <<entries, by_owner, token_counter, stack, lineage, late>>
    PROVE  CapInv'
<1>1. /\ TypeOK /\ FreshTokens /\ ParentsPresent /\ StackInRevoke
      /\ LineageOK /\ Attenuation /\ AttenuationPending /\ RevocationReaches
  BY DEF CapInv
<1>2. \A u : Present(u)' <=> Present(u)
  BY DEF Present
<1>3. call'[p] = c /\ \A q \in Process : q # p => call'[q] = call[q]
  BY <1>1 DEF TypeOK
<1>4. TypeOK'
  BY <1>1 DEF TypeOK
<1>5. FreshTokens'
  BY <1>1, <1>2 DEF FreshTokens
<1>6. ParentsPresent'
  <2>1. ASSUME NEW q \in Process
        PROVE  /\ call'[q].at \in {"insert", "mark"} =>
                     call'[q].token # NoToken /\ Present(call[q].token)'
               /\ call'[q].at = "insert" =>
                     call'[q].entry # NoEntry /\ call'[q].entry.parent = call'[q].token
    <3>1. CASE q = p
      BY <1>3, <3>1, NoTokenAssumption DEF Present
    <3>2. CASE q # p
      BY <1>1, <1>3, <3>2 DEF ParentsPresent, Present
    <3> QED
      BY <3>1, <3>2
  <2>2. /\ \A t \in Token : Present(t)' /\ entries'[t].parent # NoToken => Present(entries[t].parent)'
        /\ \A q \in Process : \A i \in 1 .. Len(stack'[q]) :
              /\ Present(stack[q][i].parent)'
              /\ \A d \in stack'[q][i].todo :
                    Present(d)' /\ entries'[d].parent = stack'[q][i].parent
    BY <1>1 DEF ParentsPresent, Present
  <2> QED
    BY <2>1, <2>2 DEF ParentsPresent
<1>7. StackInRevoke'
  <2>1. stack[p] = <<>>
    BY <1>1 DEF StackInRevoke, Idle
  <2> QED
    BY <1>1, <1>3, <2>1 DEF StackInRevoke
<1>8. LineageOK' /\ Attenuation'
  BY <1>1 DEF LineageOK, LineageBelow, Attenuation, Attenuates, Present
<1>9. AttenuationPending'
  <2>1. ASSUME NEW q \in Process, call'[q].at = "insert"
        PROVE  Attenuates(call'[q].entry, entries[call'[q].token])
    <3>1. CASE q = p
      BY <1>3, <2>1, <3>1
    <3>2. CASE q # p
      BY <1>1, <1>3, <2>1, <3>2 DEF AttenuationPending
    <3> QED
      BY <3>1, <3>2
  <2> QED
    BY <2>1 DEF AttenuationPending, Attenuates
<1>10. RevocationReaches'
  BY <1>1 DEF RevocationReaches, Awaited, Live, Present
<1> QED
  BY <1>4, <1>5, <1>6, <1>7, <1>8, <1>9, <1>10 DEF CapInv

LEMMA FrameFields ==
    ASSUME TypeOK, NEW p \in Process
    PROVE  /\ stack[p] \in Seq(Frame)
           /\ Len(stack[p]) \in Nat
           /\ stack[p] # <<>> => Len(stack[p]) \in 1 .. Len(stack[p]) /\ Len(stack[p]) > 0
           /\ \A i \in 1 .. Len(stack[p]) :
                 /\ stack[p][i] \in Frame
                 /\ stack[p][i].parent \in Token
                 /\ stack[p][i].collected \in BOOLEAN
                 /\ stack[p][i].todo \in SUBSET Token
<1>1. stack[p] \in Seq(Frame)
  BY DEF TypeOK
<1>2. \A i \in 1 .. Len(stack[p]) : stack[p][i] \in Frame
  BY <1>1
<1>3. \A f \in Frame : f.parent \in Token /\ f.collected \in BOOLEAN /\ f.todo \in SUBSET Token
  BY DEF Frame
<1>4. Len(stack[p]) \in Nat
      /\ (stack[p] # <<>> => Len(stack[p]) \in 1 .. Len(stack[p]) /\ Len(stack[p]) > 0)
  BY <1>1
<1> QED
  BY <1>1, <1>2, <1>3, <1>4

\* Marking a capability leaves the tree of grants as it is.
LEMMA TreeKept ==
    ASSUME CapInv, NEW t \in Token, Present(t),
           entries' = [entries EXCEPT ![t].revoked = TRUE],
           UNCHANGED <<token_counter, lineage>>,
           \A p \in Process : call'[p].at = "insert" => call'[p] = call[p]
    PROVE  FreshTokens' /\ LineageOK' /\ Attenuation' /\ AttenuationPending'
<1>1. /\ TypeOK /\ FreshTokens /\ ParentsPresent
      /\ LineageOK /\ Attenuation /\ AttenuationPending
  BY DEF CapInv
<1>2. \A u \in Token :
         /\ Present(u)' <=> Present(u)
         /\ Present(u) =>
               /\ entries'[u].resource = entries[u].resource
               /\ entries'[u].operations = entries[u].operations
               /\ entries'[u].parent = entries[u].parent
  BY <1>1, MarkKeeps
<1>3. FreshTokens'
  BY <1>1, <1>2 DEF FreshTokens
<1>4. LineageOK'
  BY <1>1, <1>2 DEF LineageOK, LineageBelow
<1>5. Attenuation'
  <2>1. ASSUME NEW u \in Token, NEW a \in lineage[u]
        PROVE  a < u /\ Present(u)' /\ Present(a)' /\ Attenuates(entries'[u], entries'[a])
    <3>1. a \in Token
      BY <1>1 DEF TypeOK
    <3>2. a < u /\ Present(u) /\ Present(a) /\ Attenuates(entries[u], entries[a])
      BY <1>1 DEF Attenuation
    <3> QED
      BY <1>2, <3>1, <3>2 DEF Attenuates
  <2> QED
    BY <2>1 DEF Attenuation, Attenuates
<1>6. AttenuationPending'
  <2>1. ASSUME NEW p \in Process, call'[p].at = "insert"
        PROVE  Attenuates(call'[p].entry, entries'[call'[p].token])
    <3>1. call'[p] = call[p]
      BY <2>1
    <3>2. call[p].token \in Token /\ Present(call[p].token)
      BY <1>1, <2>1, <3>1 DEF ParentsPresent, TypeOK, Call
    <3> QED
      BY <1>1, <1>2, <2>1, <3>1, <3>2 DEF AttenuationPending, Attenuates
  <2> QED
    BY <2>1 DEF AttenuationPending, Attenuates
<1> QED
  BY <1>3, <1>4, <1>5, <1>6

LEMMA MarkStep ==
    ASSUME CapInv, NEW p \in Process, RevokeMark(p)
    PROVE  CapInv'
<1>1. /\ TypeOK /\ FreshTokens /\ ParentsPresent /\ StackInRevoke
      /\ LineageOK /\ Attenuation /\ AttenuationPending /\ RevocationReaches
  BY DEF CapInv
<1>2. PICK t \in Token : t = call[p].token /\ Present(t)
  BY <1>1 DEF RevokeMark, ParentsPresent, TypeOK, Call
<1>3. /\ call[p].at = "mark"
      /\ entries' = [entries EXCEPT ![t].revoked = TRUE]
      /\ stack' = [stack EXCEPT ![p] = <<Activation(t)>>]
      /\ call' = [call EXCEPT ![p].at = "derived"]
      /\ UNCHANGED <<by_owner, token_counter, lineage, late>>
  BY <1>2 DEF RevokeMark
<1>4. /\ entries' \in [Token -> Entry \cup {NoEntry}]
      /\ \A u \in Token :
            /\ Present(u)' <=> Present(u)
            /\ Present(u) => entries'[u].parent = entries[u].parent
            /\ u # t => entries'[u] = entries[u]
      /\ entries'[t].revoked = TRUE
  BY <1>1, <1>2, <1>3, MarkKeeps
<1>5. /\ call' \in [Process -> Call] /\ call'[p].at = "derived"
      /\ \A q \in Process : q # p => call'[q] = call[q]
  BY <1>1, <1>3 DEF TypeOK, Call
<1>6. /\ Activation(t) \in Frame /\ Activation(t).parent = t
      /\ ~Activation(t).collected /\ Activation(t).todo = {}
  BY DEF Activation, Frame
<1>7. /\ stack'[p] = <<Activation(t)>>
      /\ \A q \in Process : q # p => stack'[q] = stack[q]
      /\ stack' \in [Process -> Seq(Frame)]
  BY <1>1, <1>3, <1>6 DEF TypeOK
<1>8. Len(stack'[p]) = 1 /\ stack'[p][1] = Activation(t)
  BY <1>7
<1>9. FreshTokens' /\ LineageOK' /\ Attenuation' /\ AttenuationPending'
  <2>1. \A q \in Process : call'[q].at = "insert" => call'[q] = call[q]
    BY <1>5
  <2> QED
    BY <1>2, <1>3, <2>1, TreeKept
<1>10. TypeOK'
  BY <1>1, <1>3, <1>4, <1>5, <1>7 DEF TypeOK
<1>11. StackInRevoke'
  BY <1>1, <1>5, <1>7 DEF StackInRevoke
<1>12. ParentsPresent'
  <2>1. ASSUME NEW u \in Token, Present(u)', entries'[u].parent # NoToken
        PROVE  Present(entries[u].parent)'
    <3>1. Present(u) /\ entries'[u].parent = entries[u].parent
      BY <1>4, <2>1
    <3>2. entries[u].parent \in Token /\ Present(entries[u].parent)
      BY <1>1, <2>1, <3>1, EntryFields DEF ParentsPresent
    <3> QED
      BY <1>4, <3>1, <3>2
  <2>2. ASSUME NEW q \in Process
        PROVE  /\ call'[q].at \in {"insert", "mark"} =>
                     call'[q].token # NoToken /\ Present(call[q].token)'
               /\ call'[q].at = "insert" =>
                     call'[q].entry # NoEntry /\ call'[q].entry.parent = call'[q].token
    <3>1. CASE q = p
      BY <1>5, <3>1
    <3>2. CASE q # p
      <4>1. call[q].token \in Token \cup {NoToken}
        BY <1>1 DEF TypeOK, Call
      <4> QED
        BY <1>1, <1>4, <1>5, <3>2, <4>1 DEF ParentsPresent
    <3> QED
      BY <3>1, <3>2
  <2>3. ASSUME NEW q \in Process, NEW i \in 1 .. Len(stack'[q])
        PROVE  /\ Present(stack[q][i].parent)'
               /\ \A d \in stack'[q][i].todo :
                     Present(d)' /\ entries'[d].parent = stack'[q][i].parent
    <3>1. CASE q = p
      <4>1. i = 1
        <5>1. i \in 1 .. 1
          BY <1>8, <3>1
        <5> QED
          BY <5>1
      <4> QED
        BY <1>2, <1>4, <1>6, <1>8, <3>1, <4>1
    <3>2. CASE q # p
      BY <1>1, <1>4, <1>7, <2>3, <3>2, FrameFields DEF ParentsPresent
    <3> QED
      BY <3>1, <3>2
  <2> QED
    BY <2>1, <2>2, <2>3 DEF ParentsPresent
<1>13. RevocationReaches'
  <2>1. ASSUME NEW u \in Token, Live(u)', entries'[u].parent # NoToken,
               entries'[entries'[u].parent].revoked
        PROVE  u \in late' \/ Awaited(u)'
    <3>1. Present(u) /\ u # t /\ entries'[u] = entries[u] /\ Live(u)
      BY <1>4, <2>1 DEF Live
    <3>2. entries[u].parent \in Token /\ Present(entries[u].parent)
      BY <1>1, <2>1, <3>1, EntryFields DEF ParentsPresent
    <3>3. CASE entries[u].parent = t
      <4>1. 1 \in 1 .. Len(stack'[p])
        BY <1>8
      <4> QED
        BY <1>6, <1>8, <3>1, <3>3, <4>1 DEF Awaited
    <3>4. CASE entries[u].parent # t
      <4>1. u \in late \/ Awaited(u)
        BY <1>1, <1>4, <2>1, <3>1, <3>2, <3>4 DEF RevocationReaches
      <4>2. ASSUME NEW q \in Process, NEW i \in 1 .. Len(stack[q]),
                   stack[q][i].parent = entries[u].parent,
                   ~stack[q][i].collected \/ u \in stack[q][i].todo
            PROVE  Awaited(u)'
        <5>1. q # p
          <6>1. stack[p] = <<>>
            BY <1>1, <1>3 DEF StackInRevoke
          <6> QED
            BY <4>2, <6>1
        <5> QED
          BY <1>7, <3>1, <4>2, <5>1 DEF Awaited
      <4> QED
        BY <1>3, <4>1, <4>2 DEF Awaited
    <3> QED
      BY <3>3, <3>4
  <2> QED
    BY <2>1 DEF RevocationReaches
<1> QED
  BY <1>9, <1>10, <1>11, <1>12, <1>13 DEF CapInv

LEMMA CollectStep ==
    ASSUME CapInv, NEW p \in Process, Collect(p)
    PROVE  CapInv'
<1> DEFINE s == stack[p]
           n == Len(stack[p])
           f == [parent |-> s[n].parent, collected |-> TRUE, todo |-> LiveChildren(s[n].parent)]
<1>1. /\ TypeOK /\ FreshTokens /\ ParentsPresent /\ StackInRevoke
      /\ LineageOK /\ Attenuation /\ AttenuationPending /\ RevocationReaches
  BY DEF CapInv
<1>2. s # <<>> /\ stack' = [stack EXCEPT ![p] = [s EXCEPT ![n] = f]]
      /\ UNCHANGED <<entries, by_owner, token_counter, call, lineage, late>>
  BY DEF Collect, Top
<1>3. /\ s \in Seq(Frame) /\ n \in 1 .. n /\ n \in Nat
      /\ \A i \in 1 .. n : s[i] \in Frame /\ s[i].parent \in Token /\ s[i].todo \in SUBSET Token
  BY <1>1, <1>2, FrameFields
<1>4. LiveChildren(s[n].parent) \in SUBSET Token
      /\ \A d \in LiveChildren(s[n].parent) :
            Present(d) /\ entries[d].parent = s[n].parent
  BY DEF LiveChildren, Live
<1>5. f \in Frame /\ f.parent = s[n].parent /\ f.collected = TRUE /\ f.todo = LiveChildren(s[n].parent)
  BY <1>3, <1>4 DEF Frame
<1> HIDE DEF f
<1>6. LET r == [s EXCEPT ![n] = f]
      IN  /\ r \in Seq(Frame) /\ Len(r) = n /\ r[n] = f
          /\ \A i \in 1 .. n : i # n => r[i] = s[i]
  BY <1>2, <1>3, <1>5, TopReplaced
<1>7. /\ stack' \in [Process -> Seq(Frame)] /\ stack'[p] = [s EXCEPT ![n] = f]
      /\ \A q \in Process : q # p => stack'[q] = stack[q]
  BY <1>1, <1>2, <1>6 DEF TypeOK
<1>8. /\ Len(stack'[p]) = n /\ stack'[p][n] = f
      /\ \A i \in 1 .. n : i # n => stack'[p][i] = s[i]
  BY <1>6, <1>7
<1>9. TypeOK'
  BY <1>1, <1>2, <1>7 DEF TypeOK
<1>10. FreshTokens' /\ LineageOK' /\ Attenuation' /\ AttenuationPending'
  BY <1>1, <1>2
     DEF FreshTokens, LineageOK, LineageBelow, Attenuation, AttenuationPending, Attenuates, Present
<1>11. StackInRevoke'
  BY <1>1, <1>2, <1>7 DEF StackInRevoke
<1>12. ParentsPresent'
  <2>1. ASSUME NEW q \in Process, NEW i \in 1 .. Len(stack'[q])
        PROVE  /\ Present(stack[q][i].parent)'
               /\ \A d \in stack'[q][i].todo :
                     Present(d)' /\ entries'[d].parent = stack'[q][i].parent
    <3>1. CASE q = p /\ i = n
      BY <1>1, <1>2, <1>3, <1>4, <1>5, <1>8, <3>1 DEF ParentsPresent, Present
    <3>2. CASE q = p /\ i # n
      BY <1>1, <1>2, <1>8, <2>1, <3>2 DEF ParentsPresent, Present
    <3>3. CASE q # p
      BY <1>1, <1>2, <1>7, <2>1, <3>3 DEF ParentsPresent, Present
    <3> QED
      BY <3>1, <3>2, <3>3
  <2>2. /\ \A t \in Token : Present(t)' /\ entries'[t].parent # NoToken => Present(entries[t].parent)'
        /\ \A q \in Process :
              /\ call'[q].at \in {"insert", "mark"} =>
                     call'[q].token # NoToken /\ Present(call[q].token)'
              /\ call'[q].at = "insert" =>
                     call'[q].entry # NoEntry /\ call'[q].entry.parent = call'[q].token
    BY <1>1, <1>2 DEF ParentsPresent, Present
  <2> QED
    BY <2>1, <2>2 DEF ParentsPresent
<1>13. RevocationReaches'
  <2>1. ASSUME NEW u \in Token, Live(u)', entries'[u].parent # NoToken,
               entries'[entries'[u].parent].revoked
        PROVE  u \in late' \/ Awaited(u)'
    <3>1. Live(u) /\ (u \in late \/ Awaited(u))
      BY <1>1, <1>2, <2>1 DEF RevocationReaches, Live, Present
    <3>2. ASSUME NEW q \in Process, NEW i \in 1 .. Len(stack[q]),
                 stack[q][i].parent = entries[u].parent,
                 ~stack[q][i].collected \/ u \in stack[q][i].todo
          PROVE  Awaited(u)'
      <4>1. CASE q = p /\ i = n
        <5>1. u \in f.todo /\ f.parent = entries[u].parent
          BY <1>5, <3>1, <3>2, <4>1 DEF LiveChildren
        <5> QED
          BY <1>2, <1>3, <1>8, <4>1, <5>1 DEF Awaited
      <4>2. CASE q = p /\ i # n
        <5>1. i \in 1 .. Len(stack'[p]) /\ stack'[p][i] = stack[p][i]
          BY <1>8, <3>2, <4>2
        <5> QED
          BY <1>2, <3>2, <4>2, <5>1 DEF Awaited
      <4>3. CASE q # p
        BY <1>2, <1>7, <3>2, <4>3 DEF Awaited
      <4> QED
        BY <4>1, <4>2, <4>3
    <3> QED
      BY <1>2, <3>1, <3>2 DEF Awaited
  <2> QED
    BY <2>1 DEF RevocationReaches
<1> QED
  BY <1>9, <1>10, <1>11, <1>12, <1>13 DEF CapInv

LEMMA ChildStep ==
    ASSUME CapInv, NEW p \in Process, RevokeChild(p)
    PROVE  CapInv'
<1>1. /\ TypeOK /\ FreshTokens /\ ParentsPresent /\ StackInRevoke
      /\ LineageOK /\ Attenuation /\ AttenuationPending /\ RevocationReaches
  BY DEF CapInv
<1>2. stack[p] # <<>> /\ UNCHANGED <<by_owner, token_counter, call, lineage, late>>
  BY DEF RevokeChild
<1> DEFINE s == stack[p]
           n == Len(stack[p])
<1>3. /\ s \in Seq(Frame) /\ n \in 1 .. n /\ n \in Nat
      /\ \A i \in 1 .. n : s[i] \in Frame /\ s[i].parent \in Token /\ s[i].todo \in SUBSET Token
  BY <1>1, <1>2, FrameFields
<1>4. PICK d \in s[n].todo :
         /\ s[n].collected
         /\ entries' = [entries EXCEPT ![d].revoked = TRUE]
         /\ stack' = [stack EXCEPT ![p] = Append([s EXCEPT ![n] =
               [parent |-> s[n].parent, collected |-> TRUE, todo |-> s[n].todo \ {d}]], Activation(d))]
  BY DEF RevokeChild, Top
<1> DEFINE f == [parent |-> s[n].parent, collected |-> TRUE, todo |-> s[n].todo \ {d}]
           a == Activation(d)
           r == [s EXCEPT ![n] = f]
<1>5. d \in Token /\ Present(d) /\ entries[d].parent = s[n].parent
  BY <1>1, <1>3 DEF ParentsPresent
<1>6. /\ entries' \in [Token -> Entry \cup {NoEntry}]
      /\ \A u \in Token :
            /\ Present(u)' <=> Present(u)
            /\ Present(u) => entries'[u].parent = entries[u].parent
            /\ u # d => entries'[u] = entries[u]
      /\ entries'[d].revoked = TRUE
  BY <1>1, <1>4, <1>5, MarkKeeps
<1>7. f \in Frame /\ f.parent = s[n].parent /\ f.collected = TRUE /\ f.todo = s[n].todo \ {d}
  BY <1>3 DEF Frame
<1>8. a \in Frame /\ a.parent = d /\ ~a.collected /\ a.todo = {}
  BY <1>5 DEF Activation, Frame
<1>9. stack' = [stack EXCEPT ![p] = Append(r, a)]
  BY <1>4
<1> HIDE DEF f, a
<1>10. r \in Seq(Frame) /\ Len(r) = n /\ r[n] = f /\ \A i \in 1 .. n : i # n => r[i] = s[i]
  BY <1>2, <1>3, <1>7, TopReplaced
<1> HIDE DEF r
<1>11. /\ Append(r, a) \in Seq(Frame) /\ Len(Append(r, a)) = n + 1
       /\ Append(r, a)[n + 1] = a /\ \A i \in 1 .. n : Append(r, a)[i] = r[i]
  BY <1>8, <1>10, AppendProperties
<1>12. /\ stack' \in [Process -> Seq(Frame)] /\ stack'[p] = Append(r, a)
       /\ \A q \in Process : q # p => stack'[q] = stack[q]
  BY <1>1, <1>9, <1>11 DEF TypeOK
<1>13. /\ Len(stack'[p]) = n + 1 /\ stack'[p][n + 1] = a /\ stack'[p][n] = f
       /\ \A i \in 1 .. n : i # n => stack'[p][i] = s[i]
  BY <1>3, <1>10, <1>11, <1>12
<1>14. TypeOK'
  BY <1>1, <1>2, <1>6, <1>12 DEF TypeOK
<1>15. FreshTokens' /\ LineageOK' /\ Attenuation' /\ AttenuationPending'
  BY <1>2, <1>4, <1>5, TreeKept
<1>16. StackInRevoke'
  BY <1>1, <1>2, <1>12 DEF StackInRevoke
<1>17. ParentsPresent'
  <2>1. ASSUME NEW u \in Token, Present(u)', entries'[u].parent # NoToken
        PROVE  Present(entries[u].parent)'
    <3>1. Present(u) /\ entries'[u].parent = entries[u].parent
      BY <1>6, <2>1
    <3>2. entries[u].parent \in Token /\ Present(entries[u].parent)
      BY <1>1, <2>1, <3>1, EntryFields DEF ParentsPresent
    <3> QED
      BY <1>6, <3>1, <3>2
  <2>2. ASSUME NEW q \in Process
        PROVE  /\ call'[q].at \in {"insert", "mark"} =>
                     call'[q].token # NoToken /\ Present(call[q].token)'
               /\ call'[q].at = "insert" =>
                     call'[q].entry # NoEntry /\ call'[q].entry.parent = call'[q].token
    <3>1. call[q].token \in Token \cup {NoToken}
      BY <1>1 DEF TypeOK, Call
    <3> QED
      BY <1>1, <1>2, <1>6, <3>1 DEF ParentsPresent
  <2>3. ASSUME NEW q \in Process, NEW i \in 1 .. Len(stack'[q])
        PROVE  /\ Present(stack[q][i].parent)'
               /\ \A c \in stack'[q][i].todo :
                     Present(c)' /\ entries'[c].parent = stack'[q][i].parent
    <3>1. CASE q = p /\ i = n + 1
      BY <1>5, <1>6, <1>8, <1>13, <3>1
    <3>2. CASE q = p /\ i = n
      <4>1. /\ Present(s[n].parent) /\ s[n].parent \in Token
            /\ \A c \in s[n].todo : c \in Token /\ Present(c) /\ entries[c].parent = s[n].parent
        BY <1>1, <1>3 DEF ParentsPresent
      <4> QED
        BY <1>6, <1>7, <1>13, <3>2, <4>1
    <3>3. CASE q = p /\ i # n /\ i # n + 1
      <4>1. i \in 1 .. n
        BY <1>3, <1>13, <2>3, <3>3
      <4>2. /\ Present(s[i].parent) /\ s[i].parent \in Token
            /\ \A c \in s[i].todo : c \in Token /\ Present(c) /\ entries[c].parent = s[i].parent
        BY <1>1, <1>3, <4>1 DEF ParentsPresent
      <4> QED
        BY <1>6, <1>13, <3>3, <4>1, <4>2
    <3>4. CASE q # p
      BY <1>1, <1>6, <1>12, <2>3, <3>4, FrameFields DEF ParentsPresent
    <3> QED
      BY <3>1, <3>2, <3>3, <3>4
  <2> QED
    BY <2>1, <2>2, <2>3 DEF ParentsPresent
<1>18. RevocationReaches'
  <2>1. ASSUME NEW u \in Token, Live(u)', entries'[u].parent # NoToken,
               entries'[entries'[u].parent].revoked
        PROVE  u \in late' \/ Awaited(u)'
    <3>1. Present(u) /\ u # d /\ entries'[u] = entries[u] /\ Live(u)
      BY <1>6, <2>1 DEF Live
    <3>2. entries[u].parent \in Token /\ Present(entries[u].parent)
      BY <1>1, <2>1, <3>1, EntryFields DEF ParentsPresent
    <3>3. n \in 1 .. Len(stack'[p]) /\ n + 1 \in 1 .. Len(stack'[p])
      BY <1>3, <1>13
    <3>4. CASE entries[u].parent = d
      BY <1>8, <1>13, <3>1, <3>3, <3>4 DEF Awaited
    <3>5. CASE entries[u].parent # d
      <4>1. u \in late \/ Awaited(u)
        BY <1>1, <1>6, <2>1, <3>1, <3>2, <3>5 DEF RevocationReaches
      <4>2. ASSUME NEW q \in Process, NEW i \in 1 .. Len(stack[q]),
                   stack[q][i].parent = entries[u].parent,
                   ~stack[q][i].collected \/ u \in stack[q][i].todo
            PROVE  Awaited(u)'
        <5>1. CASE q = p /\ i = n
          <6>1. u \in f.todo /\ f.parent = entries[u].parent
            BY <1>4, <1>7, <3>1, <4>2, <5>1
          <6> QED
            BY <1>13, <3>1, <3>3, <6>1 DEF Awaited
        <5>2. CASE q = p /\ i # n
          <6>1. i \in 1 .. Len(stack'[p]) /\ stack'[p][i] = stack[p][i]
            BY <1>3, <1>13, <4>2, <5>2
          <6> QED
            BY <3>1, <4>2, <5>2, <6>1 DEF Awaited
        <5>3. CASE q # p
          BY <1>12, <3>1, <4>2, <5>3 DEF Awaited
        <5> QED
          BY <5>1, <5>2, <5>3
      <4> QED
        BY <1>2, <4>1, <4>2 DEF Awaited
    <3> QED
      BY <3>4, <3>5
  <2> QED
    BY <2>1 DEF RevocationReaches
<1> QED
  BY <1>14, <1>15, <1>16, <1>17, <1>18 DEF CapInv

LEMMA DoneStep ==
    ASSUME CapInv, NEW p \in Process, DerivedDone(p)
    PROVE  CapInv'
<1> DEFINE s == stack[p]
           n == Len(stack[p])
           r == SubSeq(s, 1, n - 1)
<1>1. /\ TypeOK /\ FreshTokens /\ ParentsPresent /\ StackInRevoke
      /\ LineageOK /\ Attenuation /\ AttenuationPending /\ RevocationReaches
  BY DEF CapInv
<1>2. /\ s # <<>> /\ s[n].collected /\ s[n].todo = {}
      /\ stack' = [stack EXCEPT ![p] = r]
      /\ call' = IF n = 1 THEN [call EXCEPT ![p] = Idle] ELSE call
      /\ UNCHANGED <<entries, by_owner, token_counter, lineage, late>>
  BY DEF DerivedDone, Top
<1>3. s \in Seq(Frame) /\ n \in Nat /\ n > 0
  BY <1>1, <1>2, FrameFields
<1>4. /\ r \in Seq(Frame) /\ Len(r) = n - 1
      /\ \A i \in 1 .. n - 1 : r[i] = s[i]
      /\ n = 1 => r = <<>>
  BY <1>2, <1>3, TopRemoved
<1> HIDE DEF r
<1>5. /\ stack' \in [Process -> Seq(Frame)] /\ stack'[p] = r
      /\ \A q \in Process : q # p => stack'[q] = stack[q]
  BY <1>1, <1>2, <1>4 DEF TypeOK
<1>6. Idle \in Call /\ Idle.at = "idle"
  BY DEF Idle, Call
<1>7. /\ call' \in [Process -> Call]
      /\ \A q \in Process : call'[q] = call[q] \/ (q = p /\ n = 1 /\ call'[q] = Idle)
  BY <1>1, <1>2, <1>6 DEF TypeOK
<1>8. TypeOK'
  BY <1>1, <1>2, <1>5, <1>7 DEF TypeOK
<1>9. FreshTokens' /\ LineageOK' /\ Attenuation'
  BY <1>1, <1>2 DEF FreshTokens, LineageOK, LineageBelow, Attenuation, Attenuates, Present
<1>10. AttenuationPending'
  BY <1>1, <1>2, <1>6, <1>7 DEF AttenuationPending, Attenuates
<1>11. StackInRevoke'
  <2>1. ASSUME NEW q \in Process, stack'[q] # <<>> PROVE call'[q].at = "derived"
    <3>1. stack[q] # <<>>
      BY <1>2, <1>5, <2>1
    <3>2. ~(q = p /\ n = 1)
      BY <1>4, <1>5, <2>1
    <3> QED
      BY <1>1, <1>7, <3>1, <3>2 DEF StackInRevoke
  <2> QED
    BY <2>1 DEF StackInRevoke
<1>12. ASSUME NEW q \in Process, NEW i \in 1 .. Len(stack'[q])
       PROVE  i \in 1 .. Len(stack[q]) /\ stack'[q][i] = stack[q][i]
  <2>1. CASE q = p
    <3>1. i \in 1 .. n - 1
      BY <1>4, <1>5, <1>12, <2>1
    <3> QED
      BY <1>3, <1>4, <1>5, <2>1, <3>1
  <2>2. CASE q # p
    BY <1>5, <1>12, <2>2
  <2> QED
    BY <2>1, <2>2
<1>13. ParentsPresent'
  <2>1. ASSUME NEW q \in Process, NEW i \in 1 .. Len(stack'[q])
        PROVE  /\ Present(stack[q][i].parent)'
               /\ \A d \in stack'[q][i].todo :
                     Present(d)' /\ entries'[d].parent = stack'[q][i].parent
    BY <1>1, <1>2, <1>12 DEF ParentsPresent, Present
  <2>2. ASSUME NEW q \in Process
        PROVE  /\ call'[q].at \in {"insert", "mark"} =>
                     call'[q].token # NoToken /\ Present(call[q].token)'
               /\ call'[q].at = "insert" =>
                     call'[q].entry # NoEntry /\ call'[q].entry.parent = call'[q].token
    BY <1>1, <1>2, <1>6, <1>7 DEF ParentsPresent, Present
  <2>3. \A t \in Token : Present(t)' /\ entries'[t].parent # NoToken => Present(entries[t].parent)'
    BY <1>1, <1>2 DEF ParentsPresent, Present
  <2> QED
    BY <2>1, <2>2, <2>3 DEF ParentsPresent
<1>14. RevocationReaches'
  <2>1. ASSUME NEW u \in Token, Live(u)', entries'[u].parent # NoToken,
               entries'[entries'[u].parent].revoked
        PROVE  u \in late' \/ Awaited(u)'
    <3>1. u \in late \/ Awaited(u)
      BY <1>1, <1>2, <2>1 DEF RevocationReaches, Live, Present
    <3>2. ASSUME NEW q \in Process, NEW i \in 1 .. Len(stack[q]),
                 stack[q][i].parent = entries[u].parent,
                 ~stack[q][i].collected \/ u \in stack[q][i].todo
          PROVE  Awaited(u)'
      <4>1. CASE q = p
        <5>1. i # n
          BY <1>2, <3>2, <4>1
        <5>2. i \in 1 .. n - 1
          BY <1>3, <3>2, <4>1, <5>1
        <5>3. i \in 1 .. Len(stack'[p]) /\ stack'[p][i] = stack[p][i]
          BY <1>4, <1>5, <5>2
        <5> QED
          BY <1>2, <3>2, <4>1, <5>3 DEF Awaited
      <4>2. CASE q # p
        BY <1>2, <1>5, <3>2, <4>2 DEF Awaited
      <4> QED
        BY <4>1, <4>2
    <3> QED
      BY <1>2, <3>1, <3>2 DEF Awaited
  <2> QED
    BY <2>1 DEF RevocationReaches
<1> QED
  BY <1>8, <1>9, <1>10, <1>11, <1>13, <1>14 DEF CapInv

--------------------------------------------------------------------------------
(* The invariant *)

LEMMA InitCap == Init => CapInv
<1> SUFFICES ASSUME Init PROVE CapInv
  OBVIOUS
<1>1. Idle \in Call /\ Idle.at = "idle"
  BY DEF Idle, Call
<1>2. \A p \in Process : call[p] = Idle /\ stack[p] = <<>>
  BY DEF Init
<1>3. \A p \in Process : Len(stack[p]) = 0
  BY <1>2
<1>4. \A t \in Token : ~Present(t) /\ lineage[t] = {}
  BY DEF Init, Present
<1>5. TypeOK
  BY <1>1 DEF Init, TypeOK
<1>6. FreshTokens /\ LineageOK /\ Attenuation /\ RevocationReaches
  BY <1>4 DEF FreshTokens, LineageOK, Attenuation, RevocationReaches, Live
<1>7. ParentsPresent /\ StackInRevoke /\ AttenuationPending
  <2>1. \A p \in Process : 1 .. Len(stack[p]) = {}
    BY <1>3
  <2> QED
    BY <1>1, <1>2, <1>4, <2>1 DEF ParentsPresent, StackInRevoke, AttenuationPending
<1> QED
  BY <1>5, <1>6, <1>7 DEF CapInv

LEMMA NextCap == CapInv /\ [Next]_vars => CapInv'
<1> SUFFICES ASSUME CapInv, [Next]_vars PROVE CapInv'
  OBVIOUS
<1>1. TypeOK /\ ParentsPresent /\ AttenuationPending
  BY DEF CapInv
<1>2. ASSUME NEW p \in Process, NEW r \in Resource, NEW ops \in RootOperations,
             CreateRoot(p, r, ops)
      PROVE  CapInv'
  <2> DEFINE e == [owner |-> p, resource |-> r, operations |-> ops,
                   parent |-> NoToken, revoked |-> FALSE]
  <2>1. e \in Entry /\ e.parent = NoToken
    BY CapAssumption DEF Entry
  <2>2. InsertEntry(e) /\ stack' = stack /\ call' = call
    BY <1>2 DEF CreateRoot
  <2> HIDE DEF e
  <2>3. Insertable(e)
    BY <2>1 DEF Insertable
  <2>4. call' \in [Process -> Call] /\ \A q \in Process : call'[q] = call[q]
    BY <1>1, <2>2 DEF TypeOK
  <2> QED
    BY <2>2, <2>3, <2>4, InsertStep
<1>3. ASSUME NEW p \in Process, NEW q \in Process, NEW t \in Token,
             NEW ops \in SUBSET Operation, GrantLookup(p, t, q, ops)
      PROVE  CapInv'
  <2> DEFINE e == Derived(t, q, ops)
             c == [at |-> "insert", token |-> t, entry |-> e]
  <2>1. Present(t) /\ GRANT \in entries[t].operations /\ call[p] = Idle
        /\ call' = [call EXCEPT ![p] = c]
        /\ UNCHANGED <<entries, by_owner, token_counter, stack, lineage, late>>
    BY <1>3 DEF GrantLookup
  <2>2. e \in Entry /\ e.parent = t /\ Attenuates(e, entries[t])
    BY <1>1, <2>1, EntryFields DEF Derived, Entry, Attenuates
  <2> HIDE DEF e
  <2>3. c \in Call /\ c.at = "insert" /\ c.token = t /\ c.entry = e /\ e # NoEntry
    BY <2>2, NoEntryAssumption DEF Call
  <2> HIDE DEF c
  <2> QED
    BY <2>1, <2>2, <2>3, LookupStep
<1>4. ASSUME NEW p \in Process, GrantInsert(p)
      PROVE  CapInv'
  <2>1. /\ call[p].at = "insert" /\ InsertEntry(call[p].entry) /\ stack' = stack
        /\ call' = [call EXCEPT ![p] = Idle]
    BY <1>4 DEF GrantInsert
  <2>2. Idle \in Call
    BY DEF Idle, Call
  <2>3. call' \in [Process -> Call]
        /\ \A q \in Process : call'[q] = call[q] \/ (call'[q] = Idle /\ call[q].at = "insert")
    BY <1>1, <2>1, <2>2 DEF TypeOK
  <2>4. call[p] \in Call
    BY <1>1 DEF TypeOK
  <2>5. call[p].entry \in Entry \cup {NoEntry}
    BY <2>4 DEF Call
  <2>6. Insertable(call[p].entry)
    BY <1>1, <2>1, <2>5 DEF Insertable, ParentsPresent, AttenuationPending
  <2> QED
    BY <2>1, <2>3, <2>6, InsertStep
<1>5. ASSUME NEW p \in Process, NEW t \in Token, RevokeLookup(p, t)
      PROVE  CapInv'
  <2> DEFINE c == [at |-> "mark", token |-> t, entry |-> NoEntry]
  <2>1. Present(t) /\ call[p] = Idle /\ call' = [call EXCEPT ![p] = c]
        /\ UNCHANGED <<entries, by_owner, token_counter, stack, lineage, late>>
    BY <1>5 DEF RevokeLookup
  <2>2. c \in Call /\ c.at = "mark" /\ c.token = t
    BY DEF Call
  <2> HIDE DEF c
  <2> QED
    BY <2>1, <2>2, LookupStep
<1>6. ASSUME NEW p \in Process, RevokeStep(p)
      PROVE  CapInv'
  BY <1>6, MarkStep, CollectStep, ChildStep, DoneStep DEF RevokeStep
<1>7. CASE UNCHANGED vars
  BY <1>7
     DEF vars, CapInv, TypeOK, FreshTokens, ParentsPresent, StackInRevoke, LineageOK, LineageBelow,
         Attenuation, AttenuationPending, Attenuates, RevocationReaches, Awaited, Live, Present
<1> QED
  BY <1>2, <1>3, <1>4, <1>5, <1>6, <1>7 DEF Next

\* The invariant of the table holds in every reachable state, whatever grants and
\* revocations interleave.
THEOREM CapInvariant == Spec => []CapInv
<1> QED
  BY InitCap, NextCap, PTL DEF Spec

\* Attenuation along every chain of grants (cap/mod.rs:16).
THEOREM GrantsAttenuate == Spec => []Attenuation
<1>1. CapInv => Attenuation
  BY DEF CapInv
<1> QED
  BY <1>1, CapInvariant, PTL

\* Nothing but a grant made after its parent's revocation escapes revoke.
THEOREM RevocationReachesAll == Spec => []RevocationReaches
<1>1. CapInv => RevocationReaches
  BY DEF CapInv
<1> QED
  BY <1>1, CapInvariant, PTL

--------------------------------------------------------------------------------
(* What check refuses it refuses for ever *)

\* A step keeps the owner and operations of every entry and revokes at most.
LEMMA EntriesPersist ==
    ASSUME CapInv, [Next]_vars, NEW t \in Token, Present(t)
    PROVE  /\ Present(t)'
           /\ entries'[t].owner = entries[t].owner
           /\ entries'[t].operations = entries[t].operations
           /\ entries[t].revoked => entries'[t].revoked
<1>1. TypeOK /\ FreshTokens /\ ParentsPresent
  BY DEF CapInv
<1>2. CASE entries' = entries
  BY <1>2 DEF Present
<1>3. ASSUME NEW e, InsertEntry(e), entries' = [entries EXCEPT ![token_counter + 1] = e]
      PROVE  entries'[t] = entries[t]
  <2>1. t # token_counter + 1
    BY <1>1 DEF FreshTokens, TypeOK
  <2> QED
    BY <1>1, <1>3, <2>1 DEF TypeOK
<1>4. ASSUME NEW d \in Token, Present(d), entries' = [entries EXCEPT ![d].revoked = TRUE]
      PROVE  /\ Present(t)'
             /\ entries'[t].owner = entries[t].owner
             /\ entries'[t].operations = entries[t].operations
             /\ entries[t].revoked => entries'[t].revoked
  BY <1>1, <1>4, MarkKeeps
<1>5. CASE \E e : InsertEntry(e)
  BY <1>2, <1>3, <1>5 DEF InsertEntry, Present
<1>6. CASE \E p \in Process : RevokeMark(p)
  <2>1. PICK p \in Process : RevokeMark(p)
    BY <1>6
  <2>2. call[p].token \in Token /\ Present(call[p].token)
    BY <1>1, <2>1 DEF RevokeMark, ParentsPresent, TypeOK, Call
  <2> QED
    BY <1>4, <2>1, <2>2 DEF RevokeMark
<1>7. CASE \E p \in Process : RevokeChild(p)
  <2>1. PICK p \in Process : RevokeChild(p)
    BY <1>7
  <2>2. PICK d \in Top(p).todo : entries' = [entries EXCEPT ![d].revoked = TRUE]
    BY <2>1 DEF RevokeChild
  <2>3. Len(stack[p]) \in 1 .. Len(stack[p])
    BY <1>1, <2>1, FrameFields DEF RevokeChild
  <2>4. d \in Token /\ Present(d)
    BY <1>1, <2>2, <2>3, FrameFields DEF Top, ParentsPresent
  <2> QED
    BY <1>4, <2>2, <2>4
<1>8. \/ entries' = entries
      \/ \E e : InsertEntry(e)
      \/ \E p \in Process : RevokeMark(p)
      \/ \E p \in Process : RevokeChild(p)
  BY DEF Next, vars, CreateRoot, GrantLookup, GrantInsert, RevokeLookup, RevokeStep, Collect, DerivedDone
<1> QED
  BY <1>2, <1>5, <1>6, <1>7, <1>8

\* A token that check has refused stays refused for that process and operation.
THEOREM RefusalIsFinal == Spec => RefusedForever
<1>1. CapInv /\ [Next]_vars =>
        [\A p \in Process, t \in Token, op \in Operation :
            Present(t) /\ CheckResult(p, t, op) # "Ok" => CheckResult(p, t, op)' # "Ok"]_vars
  <2> SUFFICES ASSUME CapInv, [Next]_vars, NEW p \in Process, NEW t \in Token,
                      NEW op \in Operation, Present(t), CheckResult(p, t, op) # "Ok"
               PROVE  CheckResult(p, t, op)' # "Ok"
    OBVIOUS
  <2>1. /\ Present(t)'
        /\ entries'[t].owner = entries[t].owner
        /\ entries'[t].operations = entries[t].operations
        /\ entries[t].revoked => entries'[t].revoked
    BY EntriesPersist
  <2> QED
    BY <2>1 DEF CheckResult
<1> QED
  BY <1>1, CapInvariant, PTL DEF Spec, RefusedForever

--------------------------------------------------------------------------------
(* The owner index *)

\* Every step inserts the entry of a token that was never used, and appends it to
\* its owner's list, or leaves the owners of the table and their lists alone.
LEMMA IndexSteps ==
    ASSUME CapInv, [Next]_vars
    PROVE  \/ /\ by_owner' = by_owner
              /\ \A u \in Token :
                    /\ Present(u)' <=> Present(u)
                    /\ Present(u) => entries'[u].owner = entries[u].owner
           \/ \E e \in Entry, t \in Token :
                 /\ ~Present(t)
                 /\ entries' = [entries EXCEPT ![t] = e]
                 /\ by_owner' = [by_owner EXCEPT ![e.owner] = Append(@, t)]
<1> DEFINE Kept == /\ by_owner' = by_owner
                   /\ \A u \in Token :
                         /\ Present(u)' <=> Present(u)
                         /\ Present(u) => entries'[u].owner = entries[u].owner
           Inserted == \E e \in Entry, t \in Token :
                          /\ ~Present(t)
                          /\ entries' = [entries EXCEPT ![t] = e]
                          /\ by_owner' = [by_owner EXCEPT ![e.owner] = Append(@, t)]
<1>1. TypeOK /\ FreshTokens /\ ParentsPresent
  BY DEF CapInv
<1>2. CASE entries' = entries /\ by_owner' = by_owner
  BY <1>2 DEF Present
<1>3. ASSUME NEW e \in Entry, InsertEntry(e) PROVE Kept \/ Inserted
  <2>1. PICK t \in Token : t = token_counter + 1
    BY <1>3 DEF InsertEntry
  <2>2. ~Present(t)
    BY <1>1, <2>1 DEF FreshTokens, TypeOK
  <2> QED
    BY <1>2, <1>3, <2>1, <2>2 DEF InsertEntry
<1>4. ASSUME NEW d \in Token, Present(d), entries' = [entries EXCEPT ![d].revoked = TRUE],
             by_owner' = by_owner
      PROVE  Kept
  BY <1>1, <1>4, MarkKeeps
<1>5. ASSUME NEW p \in Process, NEW r \in Resource, NEW ops \in RootOperations,
             CreateRoot(p, r, ops)
      PROVE  \E e \in Entry : InsertEntry(e)
  <2> DEFINE e == [owner |-> p, resource |-> r, operations |-> ops,
                   parent |-> NoToken, revoked |-> FALSE]
  <2>1. e \in Entry
    BY CapAssumption DEF Entry
  <2>2. InsertEntry(e)
    BY <1>5 DEF CreateRoot
  <2> HIDE DEF e
  <2> QED
    BY <2>1, <2>2
<1>6. ASSUME NEW p \in Process, GrantInsert(p) PROVE \E e \in Entry : InsertEntry(e)
  <2>1. call[p].at = "insert" /\ InsertEntry(call[p].entry) /\ call[p] \in Call
    BY <1>1, <1>6 DEF GrantInsert, TypeOK
  <2>2. call[p].entry \in Entry \cup {NoEntry} /\ call[p].entry # NoEntry
    BY <1>1, <2>1 DEF Call, ParentsPresent
  <2> QED
    BY <2>1, <2>2
<1>7. ASSUME NEW p \in Process, RevokeMark(p) PROVE Kept
  <2>1. call[p].token \in Token /\ Present(call[p].token)
    BY <1>1, <1>7 DEF RevokeMark, ParentsPresent, TypeOK, Call
  <2> QED
    BY <1>4, <1>7, <2>1 DEF RevokeMark
<1>8. ASSUME NEW p \in Process, RevokeChild(p) PROVE Kept
  <2>1. PICK d \in Top(p).todo : entries' = [entries EXCEPT ![d].revoked = TRUE]
    BY <1>8 DEF RevokeChild
  <2>2. Len(stack[p]) \in 1 .. Len(stack[p])
    BY <1>1, <1>8, FrameFields DEF RevokeChild
  <2>3. d \in Token /\ Present(d)
    BY <1>1, <2>1, <2>2, FrameFields DEF Top, ParentsPresent
  <2> QED
    BY <1>4, <1>8, <2>1, <2>3 DEF RevokeChild
<1>9. \/ entries' = entries /\ by_owner' = by_owner
      \/ \E p \in Process, r \in Resource, ops \in RootOperations : CreateRoot(p, r, ops)
      \/ \E p \in Process : GrantInsert(p)
      \/ \E p \in Process : RevokeMark(p)
      \/ \E p \in Process : RevokeChild(p)
  BY DEF Next, vars, GrantLookup, RevokeLookup, RevokeStep, Collect, DerivedDone
<1> HIDE DEF Kept, Inserted
<1>10. Kept \/ Inserted
  <2>1. (entries' = entries /\ by_owner' = by_owner) => Kept
    BY <1>2 DEF Kept, Present
  <2> QED
    BY <1>3, <1>5, <1>6, <1>7, <1>8, <1>9, <2>1
<1> QED
  BY <1>10 DEF Kept, Inserted

\* Appending a token that is not in a list without repetitions keeps it so.
LEMMA AppendNew ==
    ASSUME NEW s \in Seq(Token), NEW t \in Token, t \notin ToSet(s),
           Cardinality(ToSet(s)) = Len(s)
    PROVE  /\ ToSet(Append(s, t)) = ToSet(s) \cup {t}
           /\ Cardinality(ToSet(Append(s, t))) = Len(Append(s, t))
<1>1. Len(s) \in Nat /\ Len(Append(s, t)) = Len(s) + 1
  OBVIOUS
<1>2. /\ \A i \in 1 .. Len(s) : Append(s, t)[i] = s[i]
      /\ Append(s, t)[Len(s) + 1] = t
  OBVIOUS
<1>3. ToSet(Append(s, t)) = ToSet(s) \cup {t}
  BY <1>1, <1>2 DEF ToSet
<1>4. IsFiniteSet(ToSet(s))
  <2>1. ToSet(s) \subseteq Token
    BY DEF ToSet
  <2>2. IsFiniteSet(Token)
    BY CapAssumption, FS_Interval DEF Token
  <2> QED
    BY <2>1, <2>2, FS_Subset
<1>5. Cardinality(ToSet(s) \cup {t}) = Cardinality(ToSet(s)) + 1
  BY <1>4, FS_AddElement
<1> QED
  BY <1>1, <1>3, <1>5

\* Every list of by_owner names exactly the capabilities of its process, each
\* once, although a full table refuses an entry whose token is drawn already
\* (cap/mod.rs:459-489).
THEOREM OwnerIndexExact == Spec => []OwnerIndexAgrees
<1>1. Init => OwnerIndexAgrees
  <2> SUFFICES ASSUME Init, NEW p \in Process
               PROVE  /\ Cardinality(ToSet(by_owner[p])) = Len(by_owner[p])
                      /\ ToSet(by_owner[p]) = {t \in Token : Present(t) /\ entries[t].owner = p}
    BY DEF OwnerIndexAgrees
  <2>1. by_owner[p] = <<>> /\ \A t \in Token : ~Present(t)
    BY DEF Init, Present
  <2>2. Len(<<>>) = 0 /\ ToSet(<<>>) = {}
    BY DEF ToSet
  <2> QED
    BY <2>1, <2>2, FS_EmptySet
<1>2. OwnerIndexAgrees /\ CapInv /\ [Next]_vars => OwnerIndexAgrees'
  <2> SUFFICES ASSUME OwnerIndexAgrees, CapInv, [Next]_vars, NEW p \in Process
               PROVE  /\ Cardinality(ToSet(by_owner'[p])) = Len(by_owner'[p])
                      /\ ToSet(by_owner'[p]) = {t \in Token : Present(t)' /\ entries'[t].owner = p}
    BY DEF OwnerIndexAgrees
  <2>1. /\ Cardinality(ToSet(by_owner[p])) = Len(by_owner[p])
        /\ ToSet(by_owner[p]) = {t \in Token : Present(t) /\ entries[t].owner = p}
    BY DEF OwnerIndexAgrees
  <2>2. TypeOK
    BY DEF CapInv
  <2>3. ASSUME by_owner' = by_owner,
               \A u \in Token : /\ Present(u)' <=> Present(u)
                                /\ Present(u) => entries'[u].owner = entries[u].owner
        PROVE  /\ Cardinality(ToSet(by_owner'[p])) = Len(by_owner'[p])
               /\ ToSet(by_owner'[p]) = {u \in Token : Present(u)' /\ entries'[u].owner = p}
    <3>1. {u \in Token : Present(u)' /\ entries'[u].owner = p}
            = {u \in Token : Present(u) /\ entries[u].owner = p}
      BY <2>3
    <3> QED
      BY <2>1, <2>3, <3>1
  <2>4. ASSUME NEW e \in Entry, NEW t \in Token, ~Present(t),
               entries' = [entries EXCEPT ![t] = e],
               by_owner' = [by_owner EXCEPT ![e.owner] = Append(@, t)]
        PROVE  /\ Cardinality(ToSet(by_owner'[p])) = Len(by_owner'[p])
               /\ ToSet(by_owner'[p]) = {u \in Token : Present(u)' /\ entries'[u].owner = p}
    <3>1. entries'[t] = e /\ \A u \in Token : u # t => entries'[u] = entries[u]
      BY <2>2, <2>4 DEF TypeOK
    <3>2. Present(t)' /\ \A u \in Token : u # t => (Present(u)' <=> Present(u))
      BY <3>1, NoEntryAssumption DEF Present
    <3>3. e.owner \in Process
      BY DEF Entry
    <3>4. CASE e.owner = p
      <4>1. by_owner'[p] = Append(by_owner[p], t) /\ by_owner[p] \in Seq(Token)
        BY <2>2, <2>4, <3>4 DEF TypeOK
      <4>2. t \notin ToSet(by_owner[p])
        BY <2>1, <2>4
      <4>3. /\ ToSet(by_owner'[p]) = ToSet(by_owner[p]) \cup {t}
            /\ Cardinality(ToSet(by_owner'[p])) = Len(by_owner'[p])
        BY <2>1, <4>1, <4>2, AppendNew
      <4> QED
        BY <2>1, <3>1, <3>2, <3>4, <4>3
    <3>5. CASE e.owner # p
      <4>1. by_owner'[p] = by_owner[p]
        BY <2>2, <2>4, <3>5 DEF TypeOK
      <4> QED
        BY <2>1, <2>4, <3>1, <3>2, <3>5, <4>1
    <3> QED
      BY <3>4, <3>5
  <2> QED
    BY <2>3, <2>4, IndexSteps
<1> QED
  BY <1>1, <1>2, CapInvariant, PTL DEF Spec

================================================================================
