----------------------------- MODULE SplaxFsProofs -----------------------------
(***************************************************************************)
(* The four safety properties of SplaxFs, for every number of inodes,      *)
(* blocks and directory slots, all paths and buffers and any number of     *)
(* faults.  The inductive invariant grows in layers, each resting on the   *)
(* one before:                                                             *)
(*   ShapeInv    the types, and where the running call is;                 *)
(*   FreeInv     the order in which sync writes the bitmaps and the        *)
(*               superblock, and the free counts;                          *)
(*   WrittenInv  an inode is written before it is named;                   *)
(*   CrossInv    unless torn: names and blocks are used once, the bitmaps  *)
(*               cover them, and what a call has allocated is its own;     *)
(*   ReadInv     unless torn: the root has no name, what the running call  *)
(*               found still holds, and what was acknowledged is read.     *)
(***************************************************************************)
EXTENDS SplaxFs, SequenceTheorems, FiniteSetTheorems, WellFoundedInduction, TLAPS

--------------------------------------------------------------------------------
(* The inductive invariant: types *)

Names == UNION {{p[k] : k \in DOMAIN p} : p \in Paths}
Values == {NoData} \cup UNION {{b[k] : k \in DOMAIN b} : b \in Buffers}
InodeRecord == [type : {"unknown", "file", "dir"}, direct : Seq(Block), size : Nat]
Entry == [name : Names, inode : Inode]
Content == [entries : Seq(Entry), data : Values]

DiskTypes ==
    /\ inodes \in [Inode -> InodeRecord]
    /\ \A i \in Inode : inodes[i].size <= Len(inodes[i].direct)
    /\ contents \in [Block -> Content]
    /\ \A b \in Block : Len(contents[b].entries) <= DirSlots

OtherTypes ==
    /\ saved \in Bitmaps /\ fs \in Bitmaps
    /\ mounted \in BOOLEAN /\ unsaved \in BOOLEAN /\ torn \in BOOLEAN
    /\ faults \in 0 .. MaxFaults
    /\ acked \in [Paths -> Buffers \cup {NoBuffer}]

StepName ==
    {"alloc_inode", "alloc_block", "find_dir", "find_file", "write_inode", "write_dir_inode",
     "write_dir", "add_dirent", "write_data", "write_file_inode", "block_bitmap",
     "inode_bitmap", "superblock", "remove"}

OpRecord ==
    [todo : Seq(StepName), path : Paths \cup {<<>>}, buffer : Buffers \cup {<<>>},
     blocks : Seq(Block), inode : Inode \cup {None}, dir : Inode \cup {None},
     write : BOOLEAN]

--------------------------------------------------------------------------------
(* The inductive invariant: where a call is.  The steps of each call are   *)
(* listed from its end, so that the length of what is left is the place.   *)

SyncSteps == <<"superblock", "inode_bitmap", "block_bitmap">>
UnmountSteps == <<"remove", "superblock", "inode_bitmap", "block_bitmap">>
FileSteps ==
    <<"superblock", "inode_bitmap", "block_bitmap", "add_dirent", "write_inode",
      "find_dir", "alloc_inode">>
DirSteps ==
    <<"superblock", "inode_bitmap", "block_bitmap", "add_dirent", "write_dir",
      "write_dir_inode", "find_dir", "alloc_block", "alloc_inode">>
WriteSteps(len) ==
    [m \in 1 .. 2 * len + 5 |->
        IF m = 1 THEN "superblock" ELSE IF m = 2 THEN "inode_bitmap"
        ELSE IF m = 3 THEN "block_bitmap" ELSE IF m = 4 THEN "write_file_inode"
        ELSE IF m <= len + 4 THEN "write_data" ELSE IF m = len + 5 THEN "find_file"
        ELSE "alloc_block"]

Runs(steps, todo) == \A j \in 1 .. Len(todo) : todo[j] = steps[Len(todo) + 1 - j]

Left == Len(op.todo)

SyncCall == Left <= 3 /\ Runs(SyncSteps, op.todo) /\ ~op.write
UnmountCall == Left <= 4 /\ Runs(UnmountSteps, op.todo) /\ ~op.write

FileCall ==
    /\ Left <= 7 /\ Runs(FileSteps, op.todo) /\ ~op.write
    /\ op.path \in Paths
    /\ Left <= 6 => op.inode \in Inode
    /\ Left <= 5 => op.dir \in Inode

DirCall ==
    /\ Left <= 9 /\ Runs(DirSteps, op.todo) /\ ~op.write
    /\ op.path \in Paths
    /\ Left <= 8 => op.inode \in Inode
    /\ Left <= 6 => op.dir \in Inode
    /\ Len(op.blocks) = IF Left <= 7 THEN 1 ELSE 0

WriteCall ==
    /\ Left <= 2 * Len(op.buffer) + 5 /\ Runs(WriteSteps(Len(op.buffer)), op.todo)
    /\ op.path \in Paths /\ op.buffer \in Buffers
    /\ op.write <=> Left <= Len(op.buffer) + 4
    /\ ~op.write => Len(op.blocks) = 2 * Len(op.buffer) + 5 - Left
    /\ op.write => op.inode \in Inode /\ Len(op.blocks) >= Len(op.buffer)

CallShape ==
    \/ op = Idle
    \/ /\ mounted /\ op \in OpRecord /\ op.todo # <<>>
       /\ SyncCall \/ UnmountCall \/ FileCall \/ DirCall \/ WriteCall

ShapeInv == DiskTypes /\ OtherTypes /\ CallShape

--------------------------------------------------------------------------------
(* The inductive invariant: free counts *)

SyncOrder ==
    /\ mounted => saved.blocks \subseteq fs.blocks /\ saved.inodes \subseteq fs.inodes
    /\ At("inode_bitmap") => saved.blocks = fs.blocks
    /\ At("superblock") => saved.blocks = fs.blocks /\ saved.inodes = fs.inodes

--------------------------------------------------------------------------------
(* The inductive invariant: names and blocks *)

(* the running call is at one of these steps *)
AtAny(steps) == op.todo # <<>> /\ Head(op.todo) \in steps

NewIsWritten ==
    AtAny({"write_dir", "add_dirent"}) => inodes[op.inode].type # "unknown"

NamedIsWritten ==
    \A b \in Block : \A k \in DOMAIN contents[b].entries :
        inodes[contents[b].entries[k].inode].type # "unknown"

NamesOnce ==
    \A b, c \in Block : \A k \in DOMAIN contents[b].entries, l \in DOMAIN contents[c].entries :
        contents[b].entries[k].inode = contents[c].entries[l].inode => b = c /\ k = l

BlocksOnce ==
    \A i, j \in Inode : \A k \in DOMAIN inodes[i].direct, l \in DOMAIN inodes[j].direct :
        inodes[i].direct[k] = inodes[j].direct[l] => i = j /\ k = l

Named(i) == \E b \in Block : \E k \in DOMAIN contents[b].entries : contents[b].entries[k].inode = i
Points(i, b) == \E k \in DOMAIN inodes[i].direct : inodes[i].direct[k] = b

Covers(m) ==
    /\ ROOT_INODE \in m.inodes
    /\ \A i \in Inode : Named(i) \/ inodes[i].type # "unknown" => i \in m.inodes
    /\ \A i \in Inode, b \in Block : Points(i, b) => b \in m.blocks

(* what the running call has allocated: an inode without a name, which is  *)
(* blank at first, and blocks that no other inode points to                *)
BlankSteps == {"alloc_block", "find_dir", "write_inode", "write_dir_inode"}
InodeSteps == BlankSteps \cup {"write_dir", "add_dirent"}
BlockSteps ==
    {"alloc_inode", "alloc_block", "find_dir", "write_dir_inode", "find_file", "write_data",
     "write_file_inode"}

NewInode ==
    /\ AtAny(InodeSteps) /\ op.inode \in Inode =>
        ~Named(op.inode) /\ op.inode \in fs.inodes /\ op.inode # ROOT_INODE
    /\ AtAny(BlankSteps) /\ op.inode \in Inode => inodes[op.inode].type = "unknown"

NewBlocks ==
    AtAny(BlockSteps) =>
        /\ \A k, l \in DOMAIN op.blocks : op.blocks[k] = op.blocks[l] => k = l
        /\ \A k \in DOMAIN op.blocks :
            /\ op.blocks[k] \in fs.blocks
            /\ \A i \in Inode : Points(i, op.blocks[k]) => op.write /\ i = op.inode

DataSteps == {"write_data", "write_file_inode"}
OpenFile ==
    AtAny(DataSteps) => inodes[op.inode].type = "file"

Links ==
    /\ NamesOnce /\ BlocksOnce
    /\ mounted => Covers(fs)
    /\ ~unsaved => Covers(saved)
Held == NewInode /\ NewBlocks /\ OpenFile
Untorn == Links /\ Held

--------------------------------------------------------------------------------
(* The inductive invariant: what was written is read *)

RootStays == inodes[ROOT_INODE].type = "dir" /\ ~Named(ROOT_INODE)

(* the directory a new name goes to, the block of a new directory, the file *)
EntrySteps == {"write_inode", "write_dir_inode", "write_dir", "add_dirent"}
SaveSteps == {"block_bitmap", "inode_bitmap", "superblock"}

Open ==
    /\ AtAny(EntrySteps) => inodes[op.dir].type = "dir"
    /\ AtAny({"write_dir"}) => Points(op.inode, op.blocks[1])
    /\ AtAny(DataSteps) => op.inode = Lookup(op.path)

(* the values written so far *)
DataWritten ==
    /\ AtAny(DataSteps) =>
        \A k \in 1 .. Len(op.buffer) + 4 - Left : contents[op.blocks[k]].data = op.buffer[k]
    /\ AtAny(SaveSteps) /\ op.write => IsFile(Lookup(op.path)) /\ ReadFile(op.path) = op.buffer

NotAckedYet == op.todo # <<>> /\ op.write => acked[op.path] = NoBuffer

AckedRead ==
    \A p \in Paths : acked[p] # NoBuffer => IsFile(Lookup(p)) /\ ReadFile(p) = acked[p]

Running == Open /\ DataWritten /\ NotAckedYet

--------------------------------------------------------------------------------
(* Constants and sequences *)

\* What the constants are.
LEMMA ConstFacts ==
    /\ Inode \subseteq Nat /\ None \notin Inode /\ ROOT_INODE \in Inode
    /\ Block \subseteq Nat /\ RootBlock \in Block
    /\ \A p \in Paths : p \in Seq(Names) /\ Len(p) \in Nat /\ Len(p) >= 1
    /\ \A b \in Buffers : b \in Seq(Values) /\ Len(b) \in Nat
<1>1. ASSUME NEW p \in Paths PROVE p \in Seq(Names) /\ Len(p) \in Nat /\ Len(p) >= 1
  <2> DEFINE S == {p[k] : k \in DOMAIN p}
  <2>1. p \in Seq(S) /\ p # <<>>
    BY SplaxFsAssumption
  <2>2. S \subseteq Names
    BY DEF Names
  <2> HIDE DEF S
  <2> QED
    BY <2>1, <2>2, SeqMonotonic, EmptySeq
<1>2. ASSUME NEW b \in Buffers PROVE b \in Seq(Values) /\ Len(b) \in Nat
  <2> DEFINE S == {b[k] : k \in DOMAIN b}
  <2>1. b \in Seq(S)
    BY SplaxFsAssumption
  <2>2. S \subseteq Values
    BY DEF Values
  <2> HIDE DEF S
  <2> QED
    BY <2>1, <2>2, SeqMonotonic, LenProperties
<1> QED
  BY <1>1, <1>2, SplaxFsAssumption DEF Inode, Block, None, ROOT_INODE, RootBlock

\* A nonempty set of natural numbers has a least element.
LEMMA Least ==
    ASSUME NEW T \in SUBSET Nat, T # {}
    PROVE  \E n \in T : \A m \in T : n <= m
<1>1. \E n \in T : \A m \in T : ~ (<<m, n>> \in OpToRel(<, Nat))
  BY NatLessThanWellFounded, WFMin
<1>2. ASSUME NEW m \in Nat, NEW n \in Nat, m < n PROVE <<m, n>> \in OpToRel(<, Nat)
  <2>1. <<m, n>> \in Nat \X Nat /\ <<m, n>>[1] < <<m, n>>[2]
    BY <1>2
  <2> QED
    BY <2>1, Zenon DEF OpToRel
<1>3. PICK n \in T : \A m \in T : ~ (<<m, n>> \in OpToRel(<, Nat))
  BY <1>1
<1>4. \A m \in T : ~ (m < n)
  BY <1>2, <1>3
<1> QED
  BY <1>4

\* What is true of 0 and passes from one number to the next holds up to any bound.
LEMMA UpTo ==
    ASSUME NEW n \in Nat, NEW T \in SUBSET Nat, 0 \in T,
           \A i \in 1 .. n : i - 1 \in T => i \in T
    PROVE  0 .. n \subseteq T
<1> SUFFICES ASSUME (0 .. n) \ T # {} PROVE FALSE
  OBVIOUS
<1> DEFINE Beyond == (0 .. n) \ T
<1>0. Beyond \in SUBSET Nat /\ Beyond # {}
  OBVIOUS
<1> HIDE DEF Beyond
<1>1. PICK i \in Beyond : \A m \in Beyond : i <= m
  BY <1>0, Least
<1> USE DEF Beyond
<1> QED
  BY <1>1

\* A call that goes on is one step further along its list.
LEMMA RunsTail ==
    ASSUME NEW f, NEW todo \in Seq(StepName), todo # <<>>, Runs(f, todo)
    PROVE  /\ Len(todo) \in Nat /\ Len(todo) >= 1
           /\ Head(todo) = f[Len(todo)]
           /\ todo[Len(todo)] = f[1]
           /\ Tail(todo) \in Seq(StepName)
           /\ Len(Tail(todo)) = Len(todo) - 1
           /\ Runs(f, Tail(todo))
<1>1. Len(todo) \in Nat /\ Len(todo) >= 1 /\ Head(todo) = todo[1]
  OBVIOUS
<1>2. /\ Tail(todo) \in Seq(StepName) /\ Len(Tail(todo)) = Len(todo) - 1
      /\ \A i \in 1 .. Len(Tail(todo)) : Tail(todo)[i] = todo[i + 1]
  BY HeadTailProperties
<1>3. Runs(f, Tail(todo))
  BY <1>1, <1>2 DEF Runs
<1> QED
  BY <1>1, <1>2, <1>3 DEF Runs

\* What is left of a call after a step.
LEMMA RestFacts ==
    ASSUME NEW o \in OpRecord, o.todo # <<>>
    PROVE  /\ Len(o.todo) = 1 => Rest(o) = Idle
           /\ Len(o.todo) # 1 =>
                /\ Rest(o) \in OpRecord
                /\ Rest(o).todo = Tail(o.todo) /\ Rest(o).todo # <<>>
                /\ Rest(o).path = o.path /\ Rest(o).buffer = o.buffer
                /\ Rest(o).blocks = o.blocks /\ Rest(o).inode = o.inode
                /\ Rest(o).dir = o.dir /\ Rest(o).write = o.write
<1>1. o.todo \in Seq(StepName)
  BY DEF OpRecord
<1>2. PICK t \in Seq(StepName) : t = Tail(o.todo) /\ Len(t) = Len(o.todo) - 1
  BY <1>1, HeadTailProperties
<1>3. Len(o.todo) # 1 => t # <<>>
  <2>1. Len(o.todo) \in Nat /\ Len(o.todo) > 0
    BY <1>1
  <2>2. Len(o.todo) # 1 => Len(t) # 0
    BY <1>2, <2>1
  <2>3. t = <<>> => Len(t) = 0
    OBVIOUS
  <2> QED
    BY <2>2, <2>3
<1>4. Len(o.todo) # 1 => Rest(o) = [o EXCEPT !.todo = t]
  BY <1>2 DEF Rest
<1>5. [o EXCEPT !.todo = t] \in OpRecord
  BY <1>2 DEF OpRecord
<1>6. \A r : r = [o EXCEPT !.todo = t] =>
        /\ r.todo = t /\ r.path = o.path /\ r.buffer = o.buffer
        /\ r.blocks = o.blocks /\ r.inode = o.inode
        /\ r.dir = o.dir /\ r.write = o.write
  BY DEF OpRecord
<1> QED
  BY <1>2, <1>3, <1>4, <1>5, <1>6 DEF Rest

--------------------------------------------------------------------------------
(* Looking up a path *)

(* the slot that counts for a name *)
Hit(i, name, k) ==
    /\ k \in DOMAIN Entries(i) /\ Entries(i)[k].name = name
    /\ \A l \in DOMAIN Entries(i) : Entries(i)[l].name = name => k <= l

EntriesTyped ==
    \A i \in Inode \cup {None} : Entries(i) \in Seq(Entry)

ChildRule ==
    \A i \in Inode \cup {None}, name \in Names :
        \/ /\ Child(i, name) = None
           /\ \A k \in DOMAIN Entries(i) : Entries(i)[k].name # name
        \/ /\ Child(i, name) \in Inode
           /\ \E k \in DOMAIN Entries(i) :
                Hit(i, name, k) /\ Entries(i)[k].inode = Child(i, name)

WalkRule ==
    \A path \in Seq(Names) : \E w \in [0 .. Len(path) -> Inode \cup {None}] :
        /\ Lookup(path) = w[Len(path)] /\ w[0] = ROOT_INODE
        /\ \A k \in 1 .. Len(path) : w[k] = Child(w[k - 1], path[k])

\* The entries of a directory.
LEMMA EntriesType == DiskTypes => EntriesTyped
<1> SUFFICES ASSUME DiskTypes, NEW i \in Inode \cup {None} PROVE Entries(i) \in Seq(Entry)
  BY DEF EntriesTyped
<1>1. CASE IsDir(i) /\ inodes[i].direct # <<>>
  <2>1. i \in Inode /\ inodes[i].direct \in Seq(Block)
    BY <1>1 DEF IsDir, DiskTypes, InodeRecord
  <2>2. inodes[i].direct[1] \in Block
    BY <1>1, <2>1
  <2> QED
    BY <1>1, <2>2 DEF Entries, DiskTypes, Content
<1>2. CASE ~(IsDir(i) /\ inodes[i].direct # <<>>)
  BY <1>2 DEF Entries
<1> QED
  BY <1>1, <1>2

\* The child of that name is that of the first entry of that name.
LEMMA ChildIs == DiskTypes => ChildRule
<1> SUFFICES ASSUME DiskTypes, NEW i \in Inode \cup {None}, NEW name \in Names
             PROVE  \/ /\ Child(i, name) = None
                       /\ \A k \in DOMAIN Entries(i) : Entries(i)[k].name # name
                    \/ /\ Child(i, name) \in Inode
                       /\ \E k \in DOMAIN Entries(i) :
                            Hit(i, name, k) /\ Entries(i)[k].inode = Child(i, name)
  BY DEF ChildRule
<1> DEFINE hits == {k \in DOMAIN Entries(i) : Entries(i)[k].name = name}
<1>1. Entries(i) \in Seq(Entry) /\ DOMAIN Entries(i) = 1 .. Len(Entries(i))
  BY EntriesType, LenProperties DEF EntriesTyped
<1>2. CASE hits = {}
  BY <1>2 DEF Child
<1>3. CASE hits # {}
  <2>1. hits \in SUBSET Nat
    BY <1>1
  <2> HIDE DEF hits
  <2>2. \E k \in hits : \A l \in hits : k <= l
    BY <1>3, <2>1, Least
  <2>3. PICK k \in hits : k = (CHOOSE m \in hits : \A l \in hits : m <= l) /\ \A l \in hits : k <= l
    BY <2>2
  <2>4. Child(i, name) = Entries(i)[k].inode
    BY <1>3, <2>3 DEF Child, hits
  <2>5. k \in DOMAIN Entries(i) /\ Hit(i, name, k)
    BY <2>3 DEF hits, Hit
  <2>6. Entries(i)[k] \in Entry
    BY <1>1, <2>5
  <2> QED
    BY <2>4, <2>5, <2>6 DEF Entry
<1> QED
  BY <1>2, <1>3

\* The walk exists, so it follows its recursive definition.
LEMMA WalkIs == DiskTypes => WalkRule
<1> SUFFICES ASSUME DiskTypes, NEW path \in Seq(Names)
             PROVE  \E w \in [0 .. Len(path) -> Inode \cup {None}] :
                        /\ Lookup(path) = w[Len(path)] /\ w[0] = ROOT_INODE
                        /\ \A k \in 1 .. Len(path) : w[k] = Child(w[k - 1], path[k])
  BY DEF WalkRule
<1> DEFINE Found == Inode \cup {None}
           Rule(w, k) == IF k = 0 THEN ROOT_INODE ELSE Child(w[k - 1], path[k])
           Exists(n) == \E w \in [0 .. n -> Found] : \A k \in 0 .. n : w[k] = Rule(w, k)
           T == {n \in Nat : n <= Len(path) => Exists(n)}
<1>0. Len(path) \in Nat /\ \A k \in 1 .. Len(path) : path[k] \in Names
  OBVIOUS
<1>c. \A i \in Found, k \in 1 .. Len(path) : Child(i, path[k]) \in Found
  BY <1>0, ChildIs DEF ChildRule
<1>1. Exists(0)
  <2> DEFINE G == [k \in 0 .. 0 |-> ROOT_INODE]
  <2>1. G \in [0 .. 0 -> Found] /\ \A k \in 0 .. 0 : G[k] = Rule(G, k)
    BY ConstFacts
  <2> QED
    BY <2>1
<1>2. ASSUME NEW n \in 1 .. Len(path), Exists(n - 1) PROVE Exists(n)
  <2>1. PICK F \in [0 .. n - 1 -> Found] : \A k \in 0 .. n - 1 : F[k] = Rule(F, k)
    BY <1>2
  <2> DEFINE G == [k \in 0 .. n |-> IF k = n THEN Rule(F, n) ELSE F[k]]
  <2>2. Rule(F, n) \in Found
    <3>1. F[n - 1] \in Found
      BY <2>1
    <3> QED
      BY <1>c, <3>1
  <2>3. G \in [0 .. n -> Found]
    BY <2>1, <2>2
  <2>4. \A k \in 0 .. n : G[k] = Rule(G, k)
    <3>1. \A k \in 0 .. n - 1 : G[k] = F[k]
      OBVIOUS
    <3>2. G[n] = Rule(F, n)
      OBVIOUS
    <3> HIDE DEF G
    <3>3. ASSUME NEW k \in 0 .. n PROVE Rule(G, k) = Rule(F, k)
      <4>1. CASE k = 0
        BY <4>1
      <4>2. CASE k # 0
        <5>1. G[k - 1] = F[k - 1]
          BY <3>1, <4>2
        <5> QED
          BY <5>1
      <4> QED
        BY <4>1, <4>2
    <3> HIDE DEF Rule
    <3> QED
      BY <2>1, <3>1, <3>2, <3>3
  <2> HIDE DEF G
  <2> QED
    BY <2>3, <2>4
<1> HIDE DEF Exists
<1>3. Exists(Len(path))
  <2>1. T \in SUBSET Nat /\ 0 \in T /\ \A k \in 1 .. Len(path) : k - 1 \in T => k \in T
    BY <1>1, <1>2
  <2>2. 0 .. Len(path) \subseteq T
    <3> HIDE DEF T
    <3> QED
      BY <1>0, <2>1, UpTo
  <2> QED
    BY <1>0, <2>2
<1>4. PICK F \in [0 .. Len(path) -> Found] : \A k \in 0 .. Len(path) : F[k] = Rule(F, k)
  BY <1>3 DEF Exists
<1>5. F = [k \in 0 .. Len(path) |-> Rule(F, k)]
  BY <1>4
<1> DEFINE K == CHOOSE w : w = [k \in 0 .. Len(path) |-> Rule(w, k)]
<1>6. K = [k \in 0 .. Len(path) |-> Rule(K, k)]
  BY <1>5
<1>7. Lookup(path) = K[Len(path)]
  BY DEF Lookup
<1> HIDE DEF K
<1>8. \A k \in 0 .. Len(path) : K[k] = Rule(K, k)
  <2> HIDE DEF Rule
  <2> QED
    BY <1>6
<1>9. K \in [0 .. Len(path) -> Found]
  <2> DEFINE U == {n \in Nat : n <= Len(path) => K[n] \in Found}
  <2>1. U \in SUBSET Nat /\ 0 \in U
    BY <1>0, <1>8, ConstFacts
  <2>2. \A k \in 1 .. Len(path) : k - 1 \in U => k \in U
    BY <1>0, <1>8, <1>c
  <2>3. 0 .. Len(path) \subseteq U
    <3> HIDE DEF U
    <3> QED
      BY <1>0, <2>1, <2>2, UpTo
  <2>4. \A k \in 0 .. Len(path) : K[k] \in Found
    BY <1>0, <2>3
  <2>5. \A k \in 0 .. Len(path) : Rule(K, k) \in Found
    BY <1>8, <2>4
  <2> HIDE DEF Rule
  <2> QED
    BY <1>6, <2>5
<1>10. K[0] = ROOT_INODE /\ \A k \in 1 .. Len(path) : K[k] = Child(K[k - 1], path[k])
  BY <1>0, <1>8
<1> QED
  BY <1>7, <1>9, <1>10

\* The same after a step.
LEMMA WalkIsNext == DiskTypes' => WalkRule' /\ ChildRule' /\ EntriesTyped'
BY WalkIs, ChildIs, EntriesType, PTL

--------------------------------------------------------------------------------
(* Where a call is *)

SyncPlace ==
    \/ Left = 1 /\ At("superblock")
    \/ Left = 2 /\ At("inode_bitmap")
    \/ Left = 3 /\ At("block_bitmap")

UnmountPlace ==
    \/ Left = 1 /\ At("remove")
    \/ Left = 2 /\ At("superblock")
    \/ Left = 3 /\ At("inode_bitmap")
    \/ Left = 4 /\ At("block_bitmap")

FilePlace ==
    \/ Left = 1 /\ At("superblock")
    \/ Left = 2 /\ At("inode_bitmap")
    \/ Left = 3 /\ At("block_bitmap")
    \/ Left = 4 /\ At("add_dirent")
    \/ Left = 5 /\ At("write_inode")
    \/ Left = 6 /\ At("find_dir")
    \/ Left = 7 /\ At("alloc_inode")

DirPlace ==
    \/ Left = 1 /\ At("superblock")
    \/ Left = 2 /\ At("inode_bitmap")
    \/ Left = 3 /\ At("block_bitmap")
    \/ Left = 4 /\ At("add_dirent")
    \/ Left = 5 /\ At("write_dir")
    \/ Left = 6 /\ At("write_dir_inode")
    \/ Left = 7 /\ At("find_dir")
    \/ Left = 8 /\ At("alloc_block")
    \/ Left = 9 /\ At("alloc_inode")

WritePlace ==
    \/ Left = 1 /\ At("superblock")
    \/ Left = 2 /\ At("inode_bitmap")
    \/ Left = 3 /\ At("block_bitmap")
    \/ Left = 4 /\ At("write_file_inode")
    \/ Left \in 5 .. Len(op.buffer) + 4 /\ At("write_data")
    \/ Left = Len(op.buffer) + 5 /\ At("find_file")
    \/ Left \in Len(op.buffer) + 6 .. 2 * Len(op.buffer) + 5 /\ At("alloc_block")

PlaceRule ==
    op.todo # <<>> =>
        /\ op \in OpRecord /\ mounted /\ Left \in Nat /\ Left >= 1
        /\ SyncCall => SyncPlace
        /\ UnmountCall => UnmountPlace
        /\ FileCall => FilePlace
        /\ DirCall => DirPlace
        /\ WriteCall => Len(op.buffer) \in Nat /\ WritePlace

\* The number of steps left says which step is next.
LEMMA Places == CallShape => PlaceRule
<1> SUFFICES ASSUME CallShape, op.todo # <<>> PROVE PlaceRule
  BY DEF PlaceRule
<1>1. op \in OpRecord /\ mounted /\ op.todo \in Seq(StepName)
  BY DEF CallShape, Idle, OpRecord
<1>2. Left \in Nat /\ Left >= 1
  BY <1>1 DEF Left
<1>3. \A f : Runs(f, op.todo) => Head(op.todo) = f[Left]
  BY <1>1, RunsTail DEF Left
<1>4. SyncCall => Left \in 1 .. 3 /\ Head(op.todo) = SyncSteps[Left]
  BY <1>2, <1>3 DEF SyncCall
<1>5. UnmountCall => Left \in 1 .. 4 /\ Head(op.todo) = UnmountSteps[Left]
  BY <1>2, <1>3 DEF UnmountCall
<1>6. FileCall => Left \in 1 .. 7 /\ Head(op.todo) = FileSteps[Left]
  BY <1>2, <1>3 DEF FileCall
<1>7. DirCall => Left \in 1 .. 9 /\ Head(op.todo) = DirSteps[Left]
  BY <1>2, <1>3 DEF DirCall
<1>8. WriteCall => /\ Len(op.buffer) \in Nat /\ Left \in 1 .. 2 * Len(op.buffer) + 5
                   /\ Head(op.todo) = WriteSteps(Len(op.buffer))[Left]
  BY <1>2, <1>3, ConstFacts DEF WriteCall
<1> HIDE DEF Left, SyncCall, UnmountCall, FileCall, DirCall, WriteCall
<1>h. PICK h : h = Head(op.todo)
  OBVIOUS
<1>a. \A step : h = step => At(step)
  BY <1>h DEF At
<1>9. WriteCall => WritePlace
  BY <1>8, <1>h, <1>a DEF WriteSteps, WritePlace
<1>10. FileCall => FilePlace
  BY <1>6, <1>h, <1>a DEF FileSteps, FilePlace
<1>11. DirCall => DirPlace
  BY <1>7, <1>h, <1>a DEF DirSteps, DirPlace
<1>12. SyncCall => SyncPlace
  BY <1>4, <1>h, <1>a DEF SyncSteps, SyncPlace
<1>13. UnmountCall => UnmountPlace
  BY <1>5, <1>h, <1>a DEF UnmountSteps, UnmountPlace
<1> QED
  BY <1>1, <1>2, <1>8, <1>9, <1>10, <1>11, <1>12, <1>13 DEF PlaceRule

\* The same after a step.
LEMMA PlacesNext == CallShape' => PlaceRule'
BY Places, PTL

\* Which call is at a step.
LEMMA AtStep ==
    ASSUME CallShape
    PROVE  /\ At("alloc_inode") => (FileCall /\ Left = 7) \/ (DirCall /\ Left = 9)
           /\ At("alloc_block") =>
                \/ DirCall /\ Left = 8
                \/ WriteCall /\ Left \in Len(op.buffer) + 6 .. 2 * Len(op.buffer) + 5
           /\ At("find_dir") => (FileCall /\ Left = 6) \/ (DirCall /\ Left = 7)
           /\ At("find_file") => WriteCall /\ Left = Len(op.buffer) + 5
           /\ At("write_inode") => FileCall /\ Left = 5
           /\ At("write_dir_inode") => DirCall /\ Left = 6
           /\ At("write_dir") => DirCall /\ Left = 5
           /\ At("add_dirent") => (FileCall \/ DirCall) /\ Left = 4
           /\ At("write_data") => WriteCall /\ Left \in 5 .. Len(op.buffer) + 4
           /\ At("write_file_inode") => WriteCall /\ Left = 4
           /\ At("remove") => UnmountCall /\ Left = 1
<1> DEFINE Somewhere == (SyncCall /\ SyncPlace) \/ (UnmountCall /\ UnmountPlace)
                        \/ (FileCall /\ FilePlace) \/ (DirCall /\ DirPlace)
                        \/ (WriteCall /\ WritePlace)
<1>1. op.todo # <<>> => Somewhere
  BY Places DEF CallShape, PlaceRule, Idle
<1>2. PICK h : h = Head(op.todo)
  OBVIOUS
<1>3. \A step : At(step) <=> op.todo # <<>> /\ h = step
  BY <1>2 DEF At
<1> HIDE DEF Somewhere
<1>4. op.todo # <<>> =>
        \/ SyncCall /\ h \in {"superblock", "inode_bitmap", "block_bitmap"}
        \/ UnmountCall /\ h \in {"superblock", "inode_bitmap", "block_bitmap"}
        \/ UnmountCall /\ h = "remove" /\ Left = 1
        \/ FileCall /\ FilePlace
        \/ DirCall /\ DirPlace
        \/ WriteCall /\ WritePlace
  BY <1>1, <1>3 DEF Somewhere, SyncPlace, UnmountPlace
<1>5. FilePlace =>
        \/ h \in {"superblock", "inode_bitmap", "block_bitmap"}
        \/ Left = 4 /\ h = "add_dirent"
        \/ Left = 5 /\ h = "write_inode"
        \/ Left = 6 /\ h = "find_dir"
        \/ Left = 7 /\ h = "alloc_inode"
  BY <1>3 DEF FilePlace
<1>6. DirPlace =>
        \/ h \in {"superblock", "inode_bitmap", "block_bitmap"}
        \/ Left = 4 /\ h = "add_dirent"
        \/ Left = 5 /\ h = "write_dir"
        \/ Left = 6 /\ h = "write_dir_inode"
        \/ Left = 7 /\ h = "find_dir"
        \/ Left = 8 /\ h = "alloc_block"
        \/ Left = 9 /\ h = "alloc_inode"
  BY <1>3 DEF DirPlace
<1>7. WritePlace =>
        \/ h \in {"superblock", "inode_bitmap", "block_bitmap"}
        \/ Left = 4 /\ h = "write_file_inode"
        \/ Left \in 5 .. Len(op.buffer) + 4 /\ h = "write_data"
        \/ Left = Len(op.buffer) + 5 /\ h = "find_file"
        \/ Left \in Len(op.buffer) + 6 .. 2 * Len(op.buffer) + 5 /\ h = "alloc_block"
  BY <1>3 DEF WritePlace
<1> HIDE DEF FilePlace, DirPlace, WritePlace, Left
<1> QED
  BY <1>3, <1>4, <1>5, <1>6, <1>7

\* A call goes on as what it was, one step further.
LEMMA Advance ==
    ASSUME CallShape, op.todo # <<>>, mounted' = mounted,
           NEW o \in OpRecord, o.todo = op.todo, o.path = op.path, o.buffer = op.buffer,
           op' = Rest(o),
           \/ SyncCall /\ ~o.write
           \/ UnmountCall /\ ~o.write
           \/ /\ FileCall /\ ~o.write
              /\ Left <= 7 => o.inode \in Inode
              /\ Left <= 6 => o.dir \in Inode
           \/ /\ DirCall /\ ~o.write
              /\ Left <= 9 => o.inode \in Inode
              /\ Left <= 7 => o.dir \in Inode
              /\ Len(o.blocks) = IF Left <= 8 THEN 1 ELSE 0
           \/ /\ WriteCall
              /\ o.write <=> Left <= Len(op.buffer) + 5
              /\ ~o.write => Len(o.blocks) = 2 * Len(op.buffer) + 6 - Left
              /\ o.write => o.inode \in Inode /\ Len(o.blocks) >= Len(op.buffer)
    PROVE  /\ CallShape'
           /\ Left = 1 => op' = Idle
           /\ Left # 1 =>
                /\ op' # Idle /\ op'.todo # <<>> /\ op'.todo = Tail(op.todo) /\ Left' = Left - 1
                /\ op'.path = o.path /\ op'.buffer = o.buffer /\ op'.blocks = o.blocks
                /\ op'.inode = o.inode /\ op'.dir = o.dir /\ op'.write = o.write
<1>1. op \in OpRecord /\ mounted /\ op.todo \in Seq(StepName) /\ Left \in Nat /\ Left >= 1
  BY Places DEF PlaceRule, OpRecord
<1>2. CASE Left = 1
  BY <1>2, RestFacts DEF Left, CallShape
<1>3. CASE Left # 1
  <2>1. /\ op' \in OpRecord /\ op'.todo = Tail(op.todo) /\ op'.todo # <<>>
        /\ op'.path = o.path /\ op'.buffer = o.buffer /\ op'.blocks = o.blocks
        /\ op'.inode = o.inode /\ op'.dir = o.dir /\ op'.write = o.write
    BY <1>3, RestFacts DEF Left
  <2>2. \A f : Runs(f, op.todo) => Runs(f, op'.todo)
    BY <1>1, <2>1, RunsTail
  <2>3. Left' = Left - 1
    BY <1>1, <2>1, HeadTailProperties DEF Left
  <2>4. op' # Idle
    <3>1. Idle.todo = <<>>
      BY DEF Idle
    <3> QED
      BY <2>1, <3>1
  <2>5. SyncCall' \/ UnmountCall' \/ FileCall' \/ DirCall' \/ WriteCall'
    <3>1. CASE SyncCall /\ ~o.write
      BY <1>1, <2>1, <2>2, <2>3, <3>1 DEF SyncCall
    <3>2. CASE UnmountCall /\ ~o.write
      BY <1>1, <2>1, <2>2, <2>3, <3>2 DEF UnmountCall
    <3>3. CASE /\ FileCall /\ ~o.write
               /\ Left <= 7 => o.inode \in Inode
               /\ Left <= 6 => o.dir \in Inode
      BY <1>1, <2>1, <2>2, <2>3, <3>3 DEF FileCall
    <3>4. CASE /\ DirCall /\ ~o.write
               /\ Left <= 9 => o.inode \in Inode
               /\ Left <= 7 => o.dir \in Inode
               /\ Len(o.blocks) = IF Left <= 8 THEN 1 ELSE 0
      BY <1>1, <2>1, <2>2, <2>3, <3>4 DEF DirCall
    <3>5. CASE /\ WriteCall
               /\ o.write <=> Left <= Len(op.buffer) + 5
               /\ ~o.write => Len(o.blocks) = 2 * Len(op.buffer) + 6 - Left
               /\ o.write => o.inode \in Inode /\ Len(o.blocks) >= Len(op.buffer)
      <4>1. Len(op.buffer) \in Nat
        BY <3>5, ConstFacts DEF WriteCall
      <4> QED
        BY <1>1, <2>1, <2>2, <2>3, <3>5, <4>1 DEF WriteCall
    <3> QED
      BY <3>1, <3>2, <3>3, <3>4, <3>5
  <2> QED
    BY <1>1, <1>3, <2>1, <2>3, <2>4, <2>5 DEF CallShape
<1> QED
  BY <1>2, <1>3

(* what a step of a call that goes on leaves of it *)
GoesOn(o) ==
    /\ CallShape'
    /\ Left = 1 => op' = Idle
    /\ Left # 1 =>
        /\ op' # Idle /\ op'.todo # <<>> /\ op'.todo = Tail(op.todo) /\ Left' = Left - 1
        /\ op'.path = o.path /\ op'.buffer = o.buffer /\ op'.blocks = o.blocks
        /\ op'.inode = o.inode /\ op'.dir = o.dir /\ op'.write = o.write

\* A step that neither allocates nor looks up leaves the call as it is.
LEMMA Continue ==
    ASSUME CallShape, op.todo # <<>>, mounted' = mounted, op' = Rest(op),
           ~At("alloc_inode"), ~At("alloc_block"), ~At("find_dir"), ~At("find_file")
    PROVE  GoesOn(op) /\ op \in OpRecord /\ mounted /\ Left \in Nat /\ Left >= 1
<1>1. /\ op \in OpRecord /\ mounted /\ Left \in Nat /\ Left >= 1
      /\ FileCall => FilePlace
      /\ DirCall => DirPlace
      /\ WriteCall => Len(op.buffer) \in Nat /\ WritePlace
  BY Places DEF PlaceRule
<1>2. FileCall => Left <= 5
  BY <1>1 DEF FilePlace
<1>3. DirCall => Left <= 6
  BY <1>1 DEF DirPlace
<1>4. WriteCall => Left <= Len(op.buffer) + 4
  BY <1>1 DEF WritePlace
<1>5. SyncCall \/ UnmountCall \/ FileCall \/ DirCall \/ WriteCall
  BY DEF CallShape, Idle
<1>6. \/ SyncCall /\ ~op.write
      \/ UnmountCall /\ ~op.write
      \/ /\ FileCall /\ ~op.write
         /\ Left <= 7 => op.inode \in Inode
         /\ Left <= 6 => op.dir \in Inode
      \/ /\ DirCall /\ ~op.write
         /\ Left <= 9 => op.inode \in Inode
         /\ Left <= 7 => op.dir \in Inode
         /\ Len(op.blocks) = IF Left <= 8 THEN 1 ELSE 0
      \/ /\ WriteCall
         /\ op.write <=> Left <= Len(op.buffer) + 5
         /\ ~op.write => Len(op.blocks) = 2 * Len(op.buffer) + 6 - Left
         /\ op.write => op.inode \in Inode /\ Len(op.blocks) >= Len(op.buffer)
  <2>1. CASE SyncCall
    BY <2>1 DEF SyncCall
  <2>2. CASE UnmountCall
    BY <2>2 DEF UnmountCall
  <2>3. CASE FileCall
    BY <1>1, <1>2, <2>3 DEF FileCall
  <2>4. CASE DirCall
    BY <1>1, <1>3, <2>4 DEF DirCall
  <2>5. CASE WriteCall
    BY <1>1, <1>4, <2>5 DEF WriteCall
  <2> QED
    BY <1>5, <2>1, <2>2, <2>3, <2>4, <2>5
<1> QED
  BY <1>1, <1>6, Advance DEF GoesOn

\* A call begins with all of its steps to take.
LEMMA Begins ==
    ASSUME NEW todo \in Seq(StepName), todo # <<>>, NEW path \in Paths \cup {<<>>},
           NEW buffer \in Buffers \cup {<<>>}, Begin(todo, path, buffer)
    PROVE  /\ mounted' /\ op = Idle /\ op' \in OpRecord
           /\ op'.todo = todo /\ op' # Idle /\ op'.path = path /\ op'.buffer = buffer
           /\ op'.blocks = <<>> /\ op'.write = FALSE
           /\ UNCHANGED <<disk, fs, mounted, faults, acked, unsaved, torn>>
<1>1. /\ op' = [todo |-> todo, path |-> path, buffer |-> buffer, blocks |-> <<>>,
                inode |-> None, dir |-> None, write |-> FALSE]
      /\ mounted /\ op = Idle
      /\ UNCHANGED <<disk, fs, mounted, faults, acked, unsaved, torn>>
  BY DEF Begin
<1>2. op' \in OpRecord
  BY <1>1 DEF OpRecord
<1>3. Idle.todo = <<>>
  BY DEF Idle
<1> QED
  BY <1>1, <1>2, <1>3

\* create_file, step by step.
LEMMA CreateFileDoes ==
    ASSUME NEW path \in Paths, create_file(path)
    PROVE  /\ op = Idle /\ CallShape' /\ FileCall' /\ Left' = 7 /\ op' # Idle /\ op'.todo # <<>>
           /\ UNCHANGED <<disk, fs, mounted, faults, acked, unsaved, torn>>
<1> DEFINE a == <<"alloc_inode", "find_dir", "write_inode", "add_dirent">>
           todo == a \o sync_bitmaps
<1>1. a \in Seq(StepName) /\ sync_bitmaps \in Seq(StepName) /\ Len(a) = 4 /\ Len(sync_bitmaps) = 3
  BY DEF sync_bitmaps, StepName
<1>2. /\ todo \in Seq(StepName) /\ Len(todo) = Len(a) + Len(sync_bitmaps)
      /\ \A j \in 1 .. Len(a) + Len(sync_bitmaps) :
            todo[j] = IF j <= Len(a) THEN a[j] ELSE sync_bitmaps[j - Len(a)]
  <2> HIDE DEF a
  <2> QED
    BY <1>1, ConcatProperties
<1>3. Len(todo) = 7 /\ Runs(FileSteps, todo)
  BY <1>1, <1>2 DEF Runs, FileSteps, sync_bitmaps
<1> HIDE DEF todo
<1>4. todo # <<>>
  BY <1>3
<1>5. Begin(todo, path, <<>>)
  BY DEF create_file, todo
<1>6. /\ mounted' /\ op = Idle /\ op' \in OpRecord
      /\ op'.todo = todo /\ op' # Idle /\ op'.path = path
      /\ op'.blocks = <<>> /\ op'.write = FALSE
      /\ UNCHANGED <<disk, fs, mounted, faults, acked, unsaved, torn>>
  BY <1>2, <1>4, <1>5, Begins
<1>7. FileCall'
  <2>1. Left' = 7 /\ Runs(FileSteps, op.todo)' /\ (~op.write)'
    BY <1>3, <1>6 DEF Left
  <2> QED
    BY <1>6, <2>1 DEF FileCall
<1> QED
  BY <1>3, <1>4, <1>6, <1>7 DEF CallShape, Left

\* create_dir, step by step.
LEMMA CreateDirDoes ==
    ASSUME NEW path \in Paths, create_dir(path)
    PROVE  /\ op = Idle /\ CallShape' /\ DirCall' /\ Left' = 9 /\ op' # Idle /\ op'.todo # <<>>
           /\ UNCHANGED <<disk, fs, mounted, faults, acked, unsaved, torn>>
<1> DEFINE a == <<"alloc_inode", "alloc_block", "find_dir", "write_dir_inode", "write_dir",
                  "add_dirent">>
           todo == a \o sync_bitmaps
<1>1. a \in Seq(StepName) /\ sync_bitmaps \in Seq(StepName) /\ Len(a) = 6 /\ Len(sync_bitmaps) = 3
  BY DEF sync_bitmaps, StepName
<1>2. /\ todo \in Seq(StepName) /\ Len(todo) = Len(a) + Len(sync_bitmaps)
      /\ \A j \in 1 .. Len(a) + Len(sync_bitmaps) :
            todo[j] = IF j <= Len(a) THEN a[j] ELSE sync_bitmaps[j - Len(a)]
  <2> HIDE DEF a
  <2> QED
    BY <1>1, ConcatProperties
<1>3. Len(todo) = 9 /\ Runs(DirSteps, todo)
  BY <1>1, <1>2 DEF Runs, DirSteps, sync_bitmaps
<1> HIDE DEF todo
<1>4. todo # <<>>
  BY <1>3
<1>5. Begin(todo, path, <<>>)
  BY DEF create_dir, todo
<1>6. /\ mounted' /\ op = Idle /\ op' \in OpRecord
      /\ op'.todo = todo /\ op' # Idle /\ op'.path = path
      /\ op'.blocks = <<>> /\ op'.write = FALSE
      /\ UNCHANGED <<disk, fs, mounted, faults, acked, unsaved, torn>>
  BY <1>2, <1>4, <1>5, Begins
<1>7. DirCall'
  <2>1. Left' = 9 /\ Runs(DirSteps, op.todo)' /\ (~op.write)'
    BY <1>3, <1>6 DEF Left
  <2> QED
    BY <1>6, <2>1 DEF DirCall
<1> QED
  BY <1>3, <1>4, <1>6, <1>7 DEF CallShape, Left

\* sync and unmount, step by step.
LEMMA SyncDoes ==
    ASSUME sync \/ unmount
    PROVE  /\ op = Idle /\ CallShape' /\ op' # Idle /\ op'.todo # <<>>
           /\ (SyncCall' /\ Left' = 3) \/ (UnmountCall' /\ Left' = 4)
           /\ UNCHANGED <<disk, fs, mounted, faults, acked, unsaved, torn>>
<1> DEFINE b == <<"remove">>
           todo == sync_bitmaps \o b
<1>1. b \in Seq(StepName) /\ sync_bitmaps \in Seq(StepName) /\ Len(b) = 1 /\ Len(sync_bitmaps) = 3
  BY DEF sync_bitmaps, StepName
<1>2. /\ todo \in Seq(StepName) /\ Len(todo) = Len(sync_bitmaps) + Len(b)
      /\ \A j \in 1 .. Len(sync_bitmaps) + Len(b) :
            todo[j] = IF j <= Len(sync_bitmaps) THEN sync_bitmaps[j] ELSE b[j - Len(sync_bitmaps)]
  <2> HIDE DEF b
  <2> QED
    BY <1>1, ConcatProperties
<1>3. Len(todo) = 4 /\ Runs(UnmountSteps, todo)
  BY <1>1, <1>2 DEF Runs, UnmountSteps, sync_bitmaps
<1>4. Runs(SyncSteps, sync_bitmaps)
  BY <1>1 DEF Runs, SyncSteps, sync_bitmaps
<1> HIDE DEF todo
<1>5. CASE sync
  <2>1. Begin(sync_bitmaps, <<>>, <<>>) /\ sync_bitmaps # <<>>
    BY <1>1, <1>5 DEF sync
  <2>2. /\ mounted' /\ op = Idle /\ op' \in OpRecord
        /\ op'.todo = sync_bitmaps /\ op' # Idle /\ op'.write = FALSE
        /\ UNCHANGED <<disk, fs, mounted, faults, acked, unsaved, torn>>
    BY <1>1, <2>1, Begins
  <2>3. SyncCall' /\ Left' = 3
    <3>1. Left' = 3 /\ Runs(SyncSteps, op.todo)' /\ (~op.write)'
      BY <1>1, <1>4, <2>2 DEF Left
    <3> QED
      BY <3>1 DEF SyncCall
  <2> QED
    BY <2>1, <2>2, <2>3 DEF CallShape
<1>6. CASE unmount
  <2>1. Begin(todo, <<>>, <<>>) /\ todo # <<>>
    BY <1>3, <1>6 DEF unmount, todo
  <2>2. /\ mounted' /\ op = Idle /\ op' \in OpRecord
        /\ op'.todo = todo /\ op' # Idle /\ op'.write = FALSE
        /\ UNCHANGED <<disk, fs, mounted, faults, acked, unsaved, torn>>
    BY <1>2, <2>1, Begins
  <2>3. UnmountCall' /\ Left' = 4
    <3>1. Left' = 4 /\ Runs(UnmountSteps, op.todo)' /\ (~op.write)'
      BY <1>3, <2>2 DEF Left
    <3> QED
      BY <3>1 DEF UnmountCall
  <2> QED
    BY <2>1, <2>2, <2>3 DEF CallShape
<1> QED
  BY <1>5, <1>6

\* write_file, step by step.
LEMMA WriteFileDoes ==
    ASSUME NEW path \in Paths, NEW buffer \in Buffers, write_file(path, buffer)
    PROVE  /\ op = Idle /\ CallShape' /\ op' # Idle /\ op'.todo # <<>>
           /\ WriteCall' /\ Left' = 2 * Len(buffer) + 5 /\ op'.buffer = buffer
           /\ op'.blocks = <<>>
           /\ UNCHANGED <<disk, fs, mounted, faults, acked, unsaved, torn>>
<1>0. PICK n \in Nat : n = Len(buffer)
  BY ConstFacts
<1> DEFINE a == [k \in 1 .. n |-> "alloc_block"]
           d == [k \in 1 .. n |-> "write_data"]
           f == <<"find_file">>
           g == <<"write_file_inode">>
           todo == a \o f \o d \o g \o sync_bitmaps
<1>1. /\ a \in Seq(StepName) /\ Len(a) = n /\ \A k \in 1 .. n : a[k] = "alloc_block"
      /\ d \in Seq(StepName) /\ Len(d) = n /\ \A k \in 1 .. n : d[k] = "write_data"
  BY DEF StepName
<1>2. /\ f \in Seq(StepName) /\ Len(f) = 1 /\ f[1] = "find_file"
      /\ g \in Seq(StepName) /\ Len(g) = 1 /\ g[1] = "write_file_inode"
  BY DEF StepName
<1>3. /\ sync_bitmaps \in Seq(StepName) /\ Len(sync_bitmaps) = 3
      /\ sync_bitmaps[1] = "block_bitmap" /\ sync_bitmaps[2] = "inode_bitmap"
      /\ sync_bitmaps[3] = "superblock"
  BY DEF sync_bitmaps, StepName
<1>4. Begin(todo, path, buffer)
  BY <1>0 DEF write_file
<1>m. /\ a \in Seq(StepName) /\ d \in Seq(StepName) /\ f \in Seq(StepName)
      /\ g \in Seq(StepName) /\ sync_bitmaps \in Seq(StepName)
  BY <1>1, <1>2, <1>3
<1> HIDE DEF a, d, f, g
<1> DEFINE x == a \o f
           y == x \o d
           z == y \o g
<1>5. /\ x \in Seq(StepName) /\ Len(x) = Len(a) + Len(f)
      /\ \A j \in 1 .. Len(a) + Len(f) : x[j] = IF j <= Len(a) THEN a[j] ELSE f[j - Len(a)]
  BY <1>m, ConcatProperties
<1>x. x \in Seq(StepName)
  BY <1>5
<1> HIDE DEF x
<1>6. /\ y \in Seq(StepName) /\ Len(y) = Len(x) + Len(d)
      /\ \A j \in 1 .. Len(x) + Len(d) : y[j] = IF j <= Len(x) THEN x[j] ELSE d[j - Len(x)]
  BY <1>m, <1>x, ConcatProperties
<1>y. y \in Seq(StepName)
  BY <1>6
<1> HIDE DEF y
<1>7. /\ z \in Seq(StepName) /\ Len(z) = Len(y) + Len(g)
      /\ \A j \in 1 .. Len(y) + Len(g) : z[j] = IF j <= Len(y) THEN y[j] ELSE g[j - Len(y)]
  BY <1>m, <1>y, ConcatProperties
<1>z. z \in Seq(StepName)
  BY <1>7
<1> HIDE DEF z
<1>8. PICK s : s = todo /\ s = z \o sync_bitmaps
  BY DEF x, y, z
<1>9. /\ s \in Seq(StepName) /\ Len(s) = Len(z) + Len(sync_bitmaps)
      /\ \A j \in 1 .. Len(z) + Len(sync_bitmaps) :
            s[j] = IF j <= Len(z) THEN z[j] ELSE sync_bitmaps[j - Len(z)]
  <2>1. /\ z \o sync_bitmaps \in Seq(StepName)
        /\ Len(z \o sync_bitmaps) = Len(z) + Len(sync_bitmaps)
        /\ \A j \in 1 .. Len(z) + Len(sync_bitmaps) :
            (z \o sync_bitmaps)[j] = IF j <= Len(z) THEN z[j] ELSE sync_bitmaps[j - Len(z)]
    BY <1>m, <1>z, ConcatProperties
  <2> QED
    BY <1>8, <2>1, Zenon
<1>10. Len(x) = n + 1 /\ Len(y) = 2 * n + 1 /\ Len(z) = 2 * n + 2 /\ Len(s) = 2 * n + 5
  BY <1>1, <1>2, <1>3, <1>5, <1>6, <1>7, <1>9
<1>11. \A j \in 1 .. n + 1 : x[j] = IF j <= n THEN "alloc_block" ELSE "find_file"
  BY <1>1, <1>2, <1>5
<1>12. \A j \in 1 .. 2 * n + 1 : y[j] = IF j <= n THEN "alloc_block"
                                     ELSE IF j = n + 1 THEN "find_file" ELSE "write_data"
  <2> SUFFICES ASSUME NEW j \in 1 .. 2 * n + 1
               PROVE  y[j] = IF j <= n THEN "alloc_block"
                             ELSE IF j = n + 1 THEN "find_file" ELSE "write_data"
    OBVIOUS
  <2>1. y[j] = IF j <= n + 1 THEN x[j] ELSE d[j - (n + 1)]
    BY <1>1, <1>6, <1>10
  <2>2. CASE j <= n + 1
    BY <1>11, <2>1, <2>2
  <2>3. CASE ~(j <= n + 1)
    <3>1. j - (n + 1) \in 1 .. n
      BY <2>3
    <3> QED
      BY <1>1, <2>1, <2>3, <3>1
  <2> QED
    BY <2>2, <2>3
<1>13. ASSUME NEW j \in 1 .. 2 * n + 5 PROVE s[j] = WriteSteps(n)[2 * n + 6 - j]
  <2>1. 2 * n + 6 - j \in 1 .. 2 * n + 5
    OBVIOUS
  <2>2. s[j] = IF j <= 2 * n + 2 THEN z[j] ELSE sync_bitmaps[j - (2 * n + 2)]
    BY <1>3, <1>9, <1>10
  <2>3. CASE j <= 2 * n + 1
    <3>1. z[j] = y[j]
      BY <1>2, <1>7, <1>10, <2>3
    <3>2. s[j] = y[j]
      BY <2>2, <2>3, <3>1
    <3> QED
      BY <1>12, <2>1, <2>3, <3>2 DEF WriteSteps
  <2>4. CASE j = 2 * n + 2
    <3>1. z[j] = g[1]
      BY <1>2, <1>7, <1>10, <2>4
    <3> QED
      BY <1>2, <2>1, <2>2, <2>4, <3>1 DEF WriteSteps
  <2>5. CASE j > 2 * n + 2
    <3>1. s[j] = sync_bitmaps[j - (2 * n + 2)]
      BY <2>2, <2>5
    <3>2. j - (2 * n + 2) = 1 \/ j - (2 * n + 2) = 2 \/ j - (2 * n + 2) = 3
      BY <2>5
    <3> QED
      BY <1>3, <2>1, <2>5, <3>1, <3>2 DEF WriteSteps
  <2> QED
    BY <2>3, <2>4, <2>5
<1>14. Runs(WriteSteps(Len(buffer)), s) /\ s # <<>>
  BY <1>0, <1>10, <1>13 DEF Runs
<1>15. /\ mounted' /\ op = Idle /\ op' \in OpRecord
       /\ op'.todo = s /\ op' # Idle /\ op'.path = path /\ op'.buffer = buffer
       /\ op'.blocks = <<>> /\ op'.write = FALSE
       /\ UNCHANGED <<disk, fs, mounted, faults, acked, unsaved, torn>>
  BY <1>4, <1>8, <1>9, <1>14, Begins
<1>16. WriteCall'
  <2>1. Left' = 2 * Len(buffer) + 5 /\ Runs(WriteSteps(Len(op.buffer)), op.todo)' /\ (~op.write)'
    BY <1>0, <1>10, <1>14, <1>15 DEF Left
  <2>2. Len(op'.blocks) = 0
    BY <1>15
  <2> QED
    BY <1>0, <1>15, <2>1, <2>2 DEF WriteCall
<1> QED
  BY <1>0, <1>10, <1>14, <1>15, <1>16 DEF CallShape, Left

\* alloc_inode takes a free inode, or the call gives up.
LEMMA AllocInodeDoes ==
    ASSUME ShapeInv, alloc_inode
    PROVE  /\ UNCHANGED <<disk, mounted, faults, acked, unsaved, torn>>
           /\ CallShape' /\ fs' \in Bitmaps /\ op # Idle /\ mounted
           /\ (FileCall /\ Left = 7) \/ (DirCall /\ Left = 9)
           /\ fs'.blocks = fs.blocks /\ fs'.free_blocks = fs.free_blocks
           /\ \/ op' = Idle /\ fs' = fs
              \/ \E i \in Inode :
                    /\ i \notin fs.inodes /\ fs'.inodes = fs.inodes \cup {i}
                    /\ fs'.free_inodes = fs.free_inodes - 1
                    /\ op' # Idle /\ op'.todo # <<>> /\ op'.todo = Tail(op.todo) /\ Left' = Left - 1
                    /\ op'.inode = i /\ op'.blocks = op.blocks /\ op'.write = op.write
                    /\ op'.buffer = op.buffer
<1>1. /\ op.todo # <<>> /\ op \in OpRecord /\ mounted /\ CallShape /\ fs \in Bitmaps
      /\ op # Idle
      /\ (FileCall /\ Left = 7) \/ (DirCall /\ Left = 9)
  <2>1. CallShape /\ op.todo # <<>> /\ At("alloc_inode")
    BY DEF alloc_inode, At, ShapeInv
  <2>2. Idle.todo = <<>>
    BY DEF Idle
  <2> QED
    BY <2>1, <2>2, Places, AtStep DEF PlaceRule, ShapeInv, OtherTypes
<1>2. UNCHANGED <<disk, mounted, faults, acked, unsaved, torn>>
  BY DEF alloc_inode
<1>3. CASE Return /\ UNCHANGED fs
  BY <1>1, <1>2, <1>3 DEF Return, CallShape
<1>4. ASSUME NEW i \in Inode, FirstFree(Inode, fs.inodes, i),
             fs' = [fs EXCEPT !.inodes = @ \cup {i}, !.free_inodes = @ - 1],
             op' = Rest([op EXCEPT !.inode = i])
      PROVE  /\ CallShape' /\ fs' \in Bitmaps
             /\ fs'.blocks = fs.blocks /\ fs'.free_blocks = fs.free_blocks
             /\ i \notin fs.inodes /\ fs'.inodes = fs.inodes \cup {i}
             /\ fs'.free_inodes = fs.free_inodes - 1
             /\ op' # Idle /\ op'.todo # <<>> /\ op'.todo = Tail(op.todo) /\ Left' = Left - 1
             /\ op'.inode = i /\ op'.blocks = op.blocks /\ op'.write = op.write
             /\ op'.buffer = op.buffer
  <2>1. i \notin fs.inodes
    BY <1>4 DEF FirstFree
  <2>2. /\ fs' \in Bitmaps
        /\ fs'.blocks = fs.blocks /\ fs'.free_blocks = fs.free_blocks
        /\ fs'.inodes = fs.inodes \cup {i} /\ fs'.free_inodes = fs.free_inodes - 1
    <3>0. fs.inodes \in SUBSET Inode /\ fs.free_inodes \in Int
      BY <1>1 DEF Bitmaps
    <3>1. PICK S \in SUBSET Inode : S = fs.inodes \cup {i}
      BY <3>0
    <3>n. PICK n \in Int : n = fs.free_inodes - 1
      BY <3>0
    <3>2. fs' = [fs EXCEPT !.inodes = S, !.free_inodes = n]
      BY <1>4, <3>1, <3>n
    <3> QED
      BY <1>1, <3>1, <3>n, <3>2 DEF Bitmaps
  <2>3. PICK o \in OpRecord :
          /\ op' = Rest(o) /\ o.todo = op.todo /\ o.path = op.path /\ o.buffer = op.buffer
          /\ o.blocks = op.blocks /\ o.dir = op.dir /\ o.write = op.write /\ o.inode = i
    <3> DEFINE o == [op EXCEPT !.inode = i]
    <3>1. /\ o \in OpRecord /\ o.todo = op.todo /\ o.path = op.path /\ o.buffer = op.buffer
          /\ o.blocks = op.blocks /\ o.dir = op.dir /\ o.write = op.write /\ o.inode = i
      BY <1>1 DEF OpRecord
    <3> HIDE DEF o
    <3> QED
      BY <1>4, <3>1 DEF o
  <2>4. \/ /\ FileCall /\ ~o.write
           /\ Left <= 7 => o.inode \in Inode
           /\ Left <= 6 => o.dir \in Inode
        \/ /\ DirCall /\ ~o.write
           /\ Left <= 9 => o.inode \in Inode
           /\ Left <= 7 => o.dir \in Inode
           /\ Len(o.blocks) = IF Left <= 8 THEN 1 ELSE 0
    BY <1>1, <2>3 DEF FileCall, DirCall
  <2> QED
    BY <1>1, <1>2, <2>1, <2>2, <2>3, <2>4, Advance
<1> QED
  BY <1>1, <1>2, <1>3, <1>4 DEF alloc_inode

\* alloc_block takes a free block, or the call gives up.
LEMMA AllocBlockDoes ==
    ASSUME ShapeInv, alloc_block
    PROVE  /\ UNCHANGED <<disk, mounted, faults, acked, unsaved, torn>>
           /\ CallShape' /\ fs' \in Bitmaps /\ op # Idle /\ mounted /\ op \in OpRecord
           /\ \/ DirCall /\ Left = 8
              \/ WriteCall /\ Left \in Len(op.buffer) + 6 .. 2 * Len(op.buffer) + 5
           /\ fs'.inodes = fs.inodes /\ fs'.free_inodes = fs.free_inodes
           /\ \/ op' = Idle /\ fs' = fs
              \/ \E b \in Block :
                    /\ b \notin fs.blocks /\ fs'.blocks = fs.blocks \cup {b}
                    /\ fs'.free_blocks = fs.free_blocks - 1
                    /\ op' # Idle /\ op'.todo # <<>> /\ op'.todo = Tail(op.todo) /\ Left' = Left - 1
                    /\ op'.blocks = Append(op.blocks, b) /\ op'.inode = op.inode
                    /\ op'.write = op.write /\ op'.buffer = op.buffer
<1>1. /\ op.todo # <<>> /\ op \in OpRecord /\ mounted /\ CallShape /\ fs \in Bitmaps
      /\ op # Idle
      /\ \/ DirCall /\ Left = 8
         \/ WriteCall /\ Left \in Len(op.buffer) + 6 .. 2 * Len(op.buffer) + 5
  <2>1. CallShape /\ op.todo # <<>> /\ At("alloc_block")
    BY DEF alloc_block, At, ShapeInv
  <2>2. Idle.todo = <<>>
    BY DEF Idle
  <2> QED
    BY <2>1, <2>2, Places, AtStep DEF PlaceRule, ShapeInv, OtherTypes
<1>2. UNCHANGED <<disk, mounted, faults, acked, unsaved, torn>>
  BY DEF alloc_block
<1>3. CASE Return /\ UNCHANGED fs
  BY <1>1, <1>2, <1>3 DEF Return, CallShape
<1>4. ASSUME NEW b \in Block, FirstFree(Block, fs.blocks, b),
             fs' = [fs EXCEPT !.blocks = @ \cup {b}, !.free_blocks = @ - 1],
             op' = Rest([op EXCEPT !.blocks = Append(@, b)])
      PROVE  /\ CallShape' /\ fs' \in Bitmaps
             /\ fs'.inodes = fs.inodes /\ fs'.free_inodes = fs.free_inodes
             /\ b \notin fs.blocks /\ fs'.blocks = fs.blocks \cup {b}
             /\ fs'.free_blocks = fs.free_blocks - 1
             /\ op' # Idle /\ op'.todo # <<>> /\ op'.todo = Tail(op.todo) /\ Left' = Left - 1
             /\ op'.blocks = Append(op.blocks, b) /\ op'.inode = op.inode
             /\ op'.write = op.write /\ op'.buffer = op.buffer
  <2>1. b \notin fs.blocks
    BY <1>4 DEF FirstFree
  <2>2. /\ fs' \in Bitmaps
        /\ fs'.inodes = fs.inodes /\ fs'.free_inodes = fs.free_inodes
        /\ fs'.blocks = fs.blocks \cup {b} /\ fs'.free_blocks = fs.free_blocks - 1
    <3>0. fs.blocks \in SUBSET Block /\ fs.free_blocks \in Int
      BY <1>1 DEF Bitmaps
    <3>1. PICK S \in SUBSET Block : S = fs.blocks \cup {b}
      BY <3>0
    <3>n. PICK n \in Int : n = fs.free_blocks - 1
      BY <3>0
    <3>2. fs' = [fs EXCEPT !.blocks = S, !.free_blocks = n]
      BY <1>4, <3>1, <3>n
    <3> QED
      BY <1>1, <3>1, <3>n, <3>2 DEF Bitmaps
  <2>3. PICK s \in Seq(Block) : s = Append(op.blocks, b) /\ Len(s) = Len(op.blocks) + 1
    <3>1. op.blocks \in Seq(Block)
      BY <1>1 DEF OpRecord
    <3>2. Append(op.blocks, b) \in Seq(Block) /\ Len(Append(op.blocks, b)) = Len(op.blocks) + 1
      BY <3>1
    <3> QED
      BY <3>2
  <2>4. PICK o \in OpRecord :
          /\ op' = Rest(o) /\ o.todo = op.todo /\ o.path = op.path /\ o.buffer = op.buffer
          /\ o.blocks = s /\ o.dir = op.dir /\ o.write = op.write /\ o.inode = op.inode
    <3> DEFINE o == [op EXCEPT !.blocks = s]
    <3>1. /\ o \in OpRecord /\ o.todo = op.todo /\ o.path = op.path /\ o.buffer = op.buffer
          /\ o.blocks = s /\ o.dir = op.dir /\ o.write = op.write /\ o.inode = op.inode
      BY <1>1 DEF OpRecord
    <3>2. op' = Rest(o)
      BY <1>4, <2>3
    <3> HIDE DEF o
    <3> QED
      BY <3>1, <3>2
  <2>5. Left # 1 /\ \/ /\ DirCall /\ ~o.write
                       /\ Left <= 9 => o.inode \in Inode
                       /\ Left <= 7 => o.dir \in Inode
                       /\ Len(o.blocks) = IF Left <= 8 THEN 1 ELSE 0
                    \/ /\ WriteCall
                       /\ o.write <=> Left <= Len(op.buffer) + 5
                       /\ ~o.write => Len(o.blocks) = 2 * Len(op.buffer) + 6 - Left
                       /\ o.write => o.inode \in Inode /\ Len(o.blocks) >= Len(op.buffer)
    <3>1. CASE DirCall /\ Left = 8
      BY <2>3, <2>4, <3>1 DEF DirCall
    <3>2. CASE WriteCall /\ Left \in Len(op.buffer) + 6 .. 2 * Len(op.buffer) + 5
      <4>1. Len(op.buffer) \in Nat /\ ~op.write /\ Len(op.blocks) = 2 * Len(op.buffer) + 5 - Left
        BY <3>2, ConstFacts DEF WriteCall
      <4>2. PICK n \in Nat : n = Len(op.buffer)
        BY <4>1
      <4> HIDE DEF Left
      <4>3. Left \in n + 6 .. 2 * n + 5 /\ Len(op.blocks) = 2 * n + 5 - Left
        BY <3>2, <4>1, <4>2
      <4>4. Left # 1 /\ ~(Left <= n + 5) /\ Len(op.blocks) + 1 = 2 * n + 6 - Left
        BY <4>3
      <4>5. Len(o.blocks) = 2 * n + 6 - Left /\ ~o.write
        BY <2>3, <2>4, <4>1, <4>4
      <4> QED
        BY <3>2, <4>2, <4>4, <4>5
    <3> QED
      BY <1>1, <3>1, <3>2
  <2> QED
    BY <1>1, <1>2, <2>1, <2>2, <2>3, <2>4, <2>5, Advance
<1> QED
  BY <1>1, <1>2, <1>3, <1>4 DEF alloc_block

\* A path that is looked up leads to an inode or nowhere.
LEMMA LookupType ==
    ASSUME DiskTypes, NEW path \in Paths
    PROVE  Lookup(path) \in Inode \cup {None} /\ Parent(path) \in Inode \cup {None}
<1>1. \A p \in Seq(Names) : Lookup(p) \in Inode \cup {None}
  <2> SUFFICES ASSUME NEW p \in Seq(Names) PROVE Lookup(p) \in Inode \cup {None}
    OBVIOUS
  <2>1. PICK w \in [0 .. Len(p) -> Inode \cup {None}] : Lookup(p) = w[Len(p)]
    BY WalkIs DEF WalkRule
  <2>2. Len(p) \in 0 .. Len(p)
    OBVIOUS
  <2> QED
    BY <2>1, <2>2
<1>2. path \in Seq(Names)
  BY ConstFacts
<1>3. SubSeq(path, 1, Len(path) - 1) \in Seq(Names)
  <2>1. Len(path) \in Nat /\ \A k \in 1 .. Len(path) - 1 : path[k] \in Names
    BY <1>2
  <2> QED
    BY <2>1, SubSeqProperties
<1> QED
  BY <1>1, <1>2, <1>3 DEF Parent

\* The parent directory is found, or the call gives up.
LEMMA FindDirDoes ==
    ASSUME ShapeInv, FindDir
    PROVE  /\ UNCHANGED <<disk, fs, mounted, faults, acked, unsaved, torn>>
           /\ CallShape' /\ op # Idle /\ mounted
           /\ (FileCall /\ Left = 6) \/ (DirCall /\ Left = 7)
           /\ \/ op' = Idle
              \/ /\ op' # Idle /\ op'.todo # <<>> /\ op'.todo = Tail(op.todo) /\ Left' = Left - 1
                 /\ op'.inode = op.inode /\ op'.blocks = op.blocks /\ op'.write = op.write
                 /\ op'.path = op.path /\ op'.buffer = op.buffer
                 /\ op'.dir \in Inode /\ inodes[op'.dir].type = "dir"
                 /\ op'.dir = Parent(op.path)
<1>1. /\ op.todo # <<>> /\ op \in OpRecord /\ mounted /\ CallShape /\ op # Idle
      /\ (FileCall /\ Left = 6) \/ (DirCall /\ Left = 7)
  <2>1. CallShape /\ op.todo # <<>> /\ At("find_dir")
    BY DEF FindDir, At, ShapeInv
  <2>2. Idle.todo = <<>>
    BY DEF Idle
  <2> QED
    BY <2>1, <2>2, Places, AtStep DEF PlaceRule
<1>2. UNCHANGED <<disk, fs, mounted, faults, acked, unsaved, torn>>
  BY DEF FindDir
<1>3. CASE ~IsDir(Parent(op.path))
  BY <1>1, <1>2, <1>3 DEF FindDir, CallShape
<1>4. CASE IsDir(Parent(op.path))
  <2>1. op.path \in Paths
    BY <1>1 DEF FileCall, DirCall
  <2>2. PICK d \in Inode : d = Parent(op.path) /\ inodes[d].type = "dir"
    BY <1>4, <2>1, LookupType, ConstFacts DEF IsDir, ShapeInv
  <2>3. PICK o \in OpRecord :
          /\ op' = Rest(o) /\ o.todo = op.todo /\ o.path = op.path /\ o.buffer = op.buffer
          /\ o.blocks = op.blocks /\ o.dir = d /\ o.write = op.write /\ o.inode = op.inode
    <3> DEFINE o == [op EXCEPT !.dir = d]
    <3>1. /\ o \in OpRecord /\ o.todo = op.todo /\ o.path = op.path /\ o.buffer = op.buffer
          /\ o.blocks = op.blocks /\ o.dir = d /\ o.write = op.write /\ o.inode = op.inode
      BY <1>1 DEF OpRecord
    <3>2. op' = Rest(o)
      BY <1>4, <2>2 DEF FindDir
    <3> HIDE DEF o
    <3> QED
      BY <3>1, <3>2
  <2>4. \/ /\ FileCall /\ ~o.write
           /\ Left <= 7 => o.inode \in Inode
           /\ Left <= 6 => o.dir \in Inode
        \/ /\ DirCall /\ ~o.write
           /\ Left <= 9 => o.inode \in Inode
           /\ Left <= 7 => o.dir \in Inode
           /\ Len(o.blocks) = IF Left <= 8 THEN 1 ELSE 0
    BY <1>1, <2>3 DEF FileCall, DirCall
  <2> QED
    BY <1>1, <1>2, <2>2, <2>3, <2>4, Advance
<1> QED
  BY <1>3, <1>4

\* The pointers write_file is going to give the file.
LEMMA ExtendedIs ==
    ASSUME NEW direct \in Seq(Block), NEW blocks \in Seq(Block), NEW n \in Nat, Len(blocks) = n
    PROVE  /\ Extended(direct, blocks, n) \in Seq(Block)
           /\ Len(Extended(direct, blocks, n)) = IF n > Len(direct) THEN n ELSE Len(direct)
           /\ \A k \in DOMAIN Extended(direct, blocks, n) :
                /\ k \in Nat /\ k >= 1
                /\ k <= Len(direct) => Extended(direct, blocks, n)[k] = direct[k]
                /\ k > Len(direct) =>
                    /\ k - Len(direct) \in DOMAIN blocks
                    /\ Extended(direct, blocks, n)[k] = blocks[k - Len(direct)]
<1>1. PICK m \in Nat : m = IF n > Len(direct) THEN n ELSE Len(direct)
  OBVIOUS
<1>2. /\ Len(direct) \in Nat /\ \A k \in 1 .. Len(direct) : direct[k] \in Block
      /\ DOMAIN blocks = 1 .. n /\ \A k \in 1 .. n : blocks[k] \in Block
  OBVIOUS
<1> DEFINE e(k) == IF k <= Len(direct) THEN direct[k] ELSE blocks[k - Len(direct)]
           E == [k \in 1 .. m |-> e(k)]
<1>3. Extended(direct, blocks, n) = E
  BY <1>1 DEF Extended
<1>4. \A k \in 1 .. m : k > Len(direct) => k - Len(direct) \in 1 .. n
  BY <1>1, <1>2
<1>5. \A k \in 1 .. m : e(k) \in Block
  BY <1>2, <1>4
<1>6. DOMAIN E = 1 .. m /\ \A k \in 1 .. m : E[k] = e(k)
  OBVIOUS
<1>7. E \in [1 .. m -> Block]
  <2> HIDE DEF e
  <2> QED
    BY <1>5
<1>8. E \in Seq(Block) /\ Len(E) = m
  <2> HIDE DEF E
  <2> QED
    BY <1>7, SeqDef
<1>9. \A k \in 1 .. m : /\ k <= Len(direct) => E[k] = direct[k]
                        /\ k > Len(direct) => E[k] = blocks[k - Len(direct)]
  BY <1>2, <1>6
<1> HIDE DEF E
<1> QED
  BY <1>1, <1>2, <1>3, <1>4, <1>6, <1>8, <1>9

\* The file is found and its pointers extended, or the call gives up.
LEMMA FindFileDoes ==
    ASSUME ShapeInv, FindFile
    PROVE  /\ UNCHANGED <<disk, fs, mounted, faults, unsaved, torn>>
           /\ CallShape' /\ op # Idle /\ mounted /\ WriteCall /\ Left = Len(op.buffer) + 5
           /\ op.blocks \in Seq(Block) /\ Len(op.blocks) = Len(op.buffer) /\ Len(op.buffer) \in Nat
           /\ \/ op' = Idle /\ acked' = acked
              \/ /\ op' # Idle /\ op'.todo # <<>> /\ op'.todo = Tail(op.todo) /\ Left' = Left - 1
                 /\ op'.path = op.path /\ op'.buffer = op.buffer /\ op'.write = TRUE
                 /\ op'.inode = Lookup(op.path) /\ op'.inode \in Inode
                 /\ inodes[op'.inode].type = "file"
                 /\ op'.blocks = Extended(inodes[op'.inode].direct, op.blocks, Len(op.buffer))
                 /\ acked' = [acked EXCEPT ![op.path] = NoBuffer]
<1>1. /\ op.todo # <<>> /\ op \in OpRecord /\ mounted /\ CallShape /\ op # Idle
      /\ WriteCall /\ Left = Len(op.buffer) + 5
  <2>1. CallShape /\ op.todo # <<>> /\ At("find_file")
    BY DEF FindFile, At, ShapeInv
  <2>2. Idle.todo = <<>>
    BY DEF Idle
  <2> QED
    BY <2>1, <2>2, Places, AtStep DEF PlaceRule
<1>2. UNCHANGED <<disk, fs, mounted, faults, unsaved, torn>>
  BY DEF FindFile
<1>3. /\ Len(op.buffer) \in Nat /\ op.path \in Paths /\ op.blocks \in Seq(Block)
      /\ Len(op.blocks) = Len(op.buffer)
  <2>1. Len(op.buffer) \in Nat /\ op.path \in Paths /\ op.blocks \in Seq(Block)
    BY <1>1, ConstFacts DEF WriteCall, OpRecord
  <2> QED
    BY <1>1, <2>1 DEF WriteCall
<1>4. CASE ~IsFile(Lookup(op.path))
  <2>1. op' = Idle /\ acked' = acked
    BY <1>4 DEF FindFile, Return
  <2> QED
    BY <1>1, <1>2, <1>3, <2>1 DEF CallShape
<1>5. CASE IsFile(Lookup(op.path))
  <2>1. PICK d \in Inode : d = Lookup(op.path) /\ inodes[d].type = "file"
    BY <1>3, <1>5, LookupType, ConstFacts DEF IsFile, ShapeInv
  <2>2. PICK s \in Seq(Block) :
          s = Extended(inodes[d].direct, op.blocks, Len(op.buffer)) /\ Len(s) >= Len(op.buffer)
    <3>1. inodes[d].direct \in Seq(Block) /\ Len(inodes[d].direct) \in Nat
      BY <2>1 DEF ShapeInv, DiskTypes, InodeRecord
    <3>2. PICK n \in Nat : n = Len(op.buffer)
      BY <1>3
    <3>3. /\ Extended(inodes[d].direct, op.blocks, n) \in Seq(Block)
          /\ Len(Extended(inodes[d].direct, op.blocks, n)) =
                IF n > Len(inodes[d].direct) THEN n ELSE Len(inodes[d].direct)
      BY <1>3, <3>1, <3>2, ExtendedIs
    <3> QED
      BY <3>1, <3>2, <3>3
  <2>3. PICK o \in OpRecord :
          /\ op' = Rest(o) /\ o.todo = op.todo /\ o.path = op.path /\ o.buffer = op.buffer
          /\ o.blocks = s /\ o.dir = op.dir /\ o.write = TRUE /\ o.inode = d
    <3> DEFINE o == [op EXCEPT !.inode = d, !.write = TRUE, !.blocks = s]
    <3>1. /\ o \in OpRecord /\ o.todo = op.todo /\ o.path = op.path /\ o.buffer = op.buffer
          /\ o.blocks = s /\ o.dir = op.dir /\ o.write = TRUE /\ o.inode = d
      BY <1>1 DEF OpRecord
    <3>2. op' = Rest(o)
      BY <1>5, <2>1, <2>2 DEF FindFile
    <3> HIDE DEF o
    <3> QED
      BY <3>1, <3>2
  <2>4. acked' = [acked EXCEPT ![op.path] = NoBuffer]
    BY <1>5 DEF FindFile
  <2>5. /\ WriteCall /\ Left # 1
        /\ o.write <=> Left <= Len(op.buffer) + 5
        /\ ~o.write => Len(o.blocks) = 2 * Len(op.buffer) + 6 - Left
        /\ o.write => o.inode \in Inode /\ Len(o.blocks) >= Len(op.buffer)
    <3>1. Left # 1 /\ Left <= Len(op.buffer) + 5
      BY <1>1, <1>3
    <3>2. o.write
      BY <2>3
    <3> QED
      BY <1>1, <2>2, <2>3, <3>1, <3>2, Zenon
  <2>6. /\ CallShape'
        /\ op' # Idle /\ op'.todo # <<>> /\ op'.todo = Tail(op.todo) /\ Left' = Left - 1
        /\ op'.path = o.path /\ op'.buffer = o.buffer /\ op'.blocks = o.blocks
        /\ op'.inode = o.inode /\ op'.write = o.write
    <3>1. mounted' = mounted
      BY <1>2
    <3> QED
      BY <1>1, <2>3, <2>5, <3>1, Advance
  <2> QED
    BY <1>1, <1>2, <1>3, <2>1, <2>2, <2>3, <2>4, <2>6
<1> QED
  BY <1>4, <1>5

\* A write of the inode table.
LEMMA WriteInodeDoes ==
    ASSUME ShapeInv, NEW step \in {"write_inode", "write_dir_inode", "write_file_inode"},
           NEW rec \in InodeRecord, rec.size <= Len(rec.direct), op.inode \in Inode,
           WriteInode(step, rec)
    PROVE  /\ UNCHANGED <<contents, saved, fs, mounted, faults, acked, torn>> /\ unsaved' = TRUE
           /\ GoesOn(op) /\ op # Idle /\ mounted
           /\ inodes' = [inodes EXCEPT ![op.inode] = rec]
           /\ inodes'[op.inode] = rec /\ \A j \in Inode : j # op.inode => inodes'[j] = inodes[j]
           /\ DiskTypes'
<1>1. /\ UNCHANGED <<contents, saved, fs, mounted, faults, acked, torn>> /\ unsaved' = TRUE
      /\ inodes' = [inodes EXCEPT ![op.inode] = rec] /\ op' = Rest(op) /\ CallShape
      /\ inodes \in [Inode -> InodeRecord] /\ At(step)
  BY DEF WriteInode, ShapeInv, DiskTypes
<1>2. /\ op.todo # <<>> /\ ~At("alloc_inode") /\ ~At("alloc_block") /\ ~At("find_dir")
      /\ ~At("find_file")
  BY <1>1 DEF At
<1>3. GoesOn(op) /\ mounted /\ op # Idle
  <2>1. Idle.todo = <<>>
    BY DEF Idle
  <2> QED
    BY <1>1, <1>2, <2>1, Continue
<1>4. /\ inodes' \in [Inode -> InodeRecord]
      /\ inodes'[op.inode] = rec /\ \A j \in Inode : j # op.inode => inodes'[j] = inodes[j]
  BY <1>1
<1>5. DiskTypes'
  BY <1>1, <1>4 DEF DiskTypes, ShapeInv
<1> QED
  BY <1>1, <1>3, <1>4, <1>5

\* A write of a data block.
LEMMA WriteContentsDoes ==
    ASSUME ShapeInv, NEW step \in {"write_dir", "add_dirent", "write_data"},
           NEW block \in Block, NEW c \in Content, Len(c.entries) <= DirSlots,
           WriteContents(step, block, c)
    PROVE  /\ UNCHANGED <<inodes, saved, fs, mounted, faults, acked, torn>> /\ unsaved' = TRUE
           /\ GoesOn(op) /\ op # Idle /\ mounted
           /\ contents'[block] = c /\ \A b \in Block : b # block => contents'[b] = contents[b]
           /\ DiskTypes'
<1>1. /\ UNCHANGED <<inodes, saved, fs, mounted, faults, acked, torn>> /\ unsaved' = TRUE
      /\ contents' = [contents EXCEPT ![block] = c] /\ op' = Rest(op) /\ CallShape
      /\ contents \in [Block -> Content] /\ At(step)
  BY DEF WriteContents, ShapeInv, DiskTypes
<1>2. /\ op.todo # <<>> /\ ~At("alloc_inode") /\ ~At("alloc_block") /\ ~At("find_dir")
      /\ ~At("find_file")
  BY <1>1 DEF At
<1>3. GoesOn(op) /\ mounted /\ op # Idle
  <2>1. Idle.todo = <<>>
    BY DEF Idle
  <2> QED
    BY <1>1, <1>2, <2>1, Continue
<1>4. /\ contents' \in [Block -> Content]
      /\ contents'[block] = c /\ \A b \in Block : b # block => contents'[b] = contents[b]
  BY <1>1
<1>5. DiskTypes'
  BY <1>1, <1>4 DEF DiskTypes, ShapeInv
<1> QED
  BY <1>1, <1>3, <1>4, <1>5

\* What create_file writes to the inode table.
LEMMA NewFileArgs ==
    ASSUME ShapeInv, WriteNewFile
    PROVE  /\ FileCall /\ Left = 5 /\ op.inode \in Inode
           /\ FileInode \in InodeRecord /\ FileInode.size <= Len(FileInode.direct)
           /\ FileInode.type = "file" /\ FileInode.direct = <<>>
<1>1. FileCall /\ Left = 5
  BY AtStep DEF WriteNewFile, WriteInode, ShapeInv
<1> QED
  BY <1>1 DEF FileCall, FileInode, InodeRecord

\* What create_dir writes to the inode table.
LEMMA NewDirArgs ==
    ASSUME ShapeInv, WriteNewDir
    PROVE  \E b \in Block : \E rec \in InodeRecord :
             /\ DirCall /\ Left = 6 /\ op.inode \in Inode
             /\ op.blocks \in Seq(Block) /\ Len(op.blocks) = 1 /\ b = op.blocks[1]
             /\ rec = DirInode(op.blocks[1]) /\ rec.size <= Len(rec.direct)
             /\ rec.type = "dir" /\ rec.direct \in Seq(Block) /\ Len(rec.direct) = 1
             /\ rec.direct[1] = b
<1>1. DirCall /\ Left = 6 /\ op.blocks \in Seq(Block)
  BY AtStep, Places DEF WriteNewDir, WriteInode, ShapeInv, PlaceRule, OpRecord, At
<1>2. PICK b \in Block : b = op.blocks[1]
  BY <1>1 DEF DirCall
<1>3. DirInode(b) \in InodeRecord /\ DirInode(b).direct = <<b>> /\ DirInode(b).size = 1
      /\ DirInode(b).type = "dir"
  BY DEF DirInode, InodeRecord
<1>4. <<b>> \in Seq(Block) /\ Len(<<b>>) = 1 /\ <<b>>[1] = b
  OBVIOUS
<1>5. op.inode \in Inode /\ Len(op.blocks) = 1
  BY <1>1 DEF DirCall
<1>6. PICK rec \in InodeRecord : rec = DirInode(b)
  BY <1>3
<1> QED
  BY <1>1, <1>2, <1>3, <1>4, <1>5, <1>6

\* What write_file writes to the inode table.
LEMMA FileInodeArgs ==
    ASSUME ShapeInv, WriteFileInode
    PROVE  \E rec \in InodeRecord :
             /\ rec = [type |-> "file", direct |-> op.blocks, size |-> Len(op.buffer)]
             /\ WriteCall /\ Left = 4 /\ op.inode \in Inode /\ op.write
             /\ op.buffer \in Buffers /\ op.path \in Paths
             /\ rec.size <= Len(rec.direct) /\ rec.type = "file" /\ rec.direct = op.blocks
             /\ rec.size = Len(op.buffer)
<1>1. WriteCall /\ Left = 4 /\ op.blocks \in Seq(Block)
  BY AtStep, Places DEF WriteFileInode, WriteInode, ShapeInv, PlaceRule, OpRecord, At
<1>2. Len(op.buffer) \in Nat /\ op.buffer \in Buffers /\ op.path \in Paths
  BY <1>1, ConstFacts DEF WriteCall
<1>3. op.write /\ op.inode \in Inode /\ Len(op.buffer) <= Len(op.blocks)
  BY <1>1, <1>2 DEF WriteCall
<1>4. PICK n \in Nat, s \in Seq(Block) : n = Len(op.buffer) /\ s = op.blocks
  BY <1>1, <1>2
<1>5. PICK rec \in InodeRecord : rec = [type |-> "file", direct |-> s, size |-> n]
  BY <1>4 DEF InodeRecord
<1>6. rec.type = "file" /\ rec.direct = s /\ rec.size = n
  BY <1>5
<1> QED
  BY <1>1, <1>2, <1>3, <1>4, <1>5, <1>6

\* What create_dir writes to its new block.
LEMMA DirBlockArgs ==
    ASSUME ShapeInv, WriteDirBlock
    PROVE  /\ DirCall /\ Left = 5 /\ op.inode \in Inode
           /\ op.blocks \in Seq(Block) /\ op.blocks[1] \in Block
           /\ EmptyDir \in Content /\ Len(EmptyDir.entries) <= DirSlots
           /\ EmptyDir.entries = <<>>
<1>1. DirCall /\ Left = 5 /\ op.blocks \in Seq(Block)
  BY AtStep, Places DEF WriteDirBlock, WriteContents, ShapeInv, PlaceRule, OpRecord, At
<1>2. op.blocks[1] \in Block /\ op.inode \in Inode
  BY <1>1 DEF DirCall
<1>3. EmptyDir \in Content /\ EmptyDir.entries = <<>>
  BY DEF EmptyDir, Content, Values
<1>4. Len(EmptyDir.entries) <= DirSlots
  BY <1>3, SplaxFsAssumption
<1> QED
  BY <1>1, <1>2, <1>3, <1>4

\* What write_file writes to the blocks of the file.
LEMMA DataArgs ==
    ASSUME ShapeInv, WriteData
    PROVE  \E k \in 1 .. Len(op.buffer) :
             /\ WriteCall /\ Left \in 5 .. Len(op.buffer) + 4 /\ op.write /\ op.inode \in Inode
             /\ k = Len(op.buffer) + 5 - Left
             /\ op.buffer \in Buffers /\ op.path \in Paths /\ Len(op.buffer) \in Nat
             /\ op.blocks \in Seq(Block) /\ k \in DOMAIN op.blocks
             /\ op.blocks[k] \in Block /\ DataBlock(op.buffer[k]) \in Content
             /\ DataBlock(op.buffer[k]).entries = <<>>
             /\ DataBlock(op.buffer[k]).data = op.buffer[k]
             /\ Len(DataBlock(op.buffer[k]).entries) <= DirSlots
             /\ WriteContents("write_data", op.blocks[k], DataBlock(op.buffer[k]))
<1>1. /\ WriteCall /\ Left \in 5 .. Len(op.buffer) + 4
      /\ op.blocks \in Seq(Block) /\ op.todo \in Seq(StepName)
  BY AtStep, Places DEF WriteData, WriteContents, ShapeInv, PlaceRule, OpRecord, At
<1>2. /\ Len(op.buffer) \in Nat /\ op.buffer \in Buffers /\ op.path \in Paths
      /\ op.buffer \in Seq(Values) /\ Left \in Nat
  BY <1>1, ConstFacts DEF WriteCall
<1>3. op.write /\ op.inode \in Inode /\ Len(op.buffer) <= Len(op.blocks)
  BY <1>1, <1>2 DEF WriteCall
<1> DEFINE more == {j \in DOMAIN op.todo : op.todo[j] = "write_data"}
<1>4. more = 1 .. Left - 4
  <2>1. DOMAIN op.todo = 1 .. Left
    BY <1>1 DEF Left
  <2>2. \A j \in 1 .. Left : op.todo[j] = WriteSteps(Len(op.buffer))[Left + 1 - j]
    BY <1>1 DEF WriteCall, Runs, Left
  <2> HIDE DEF Left
  <2>3. \A j \in 1 .. Left : Left + 1 - j \in 1 .. 2 * Len(op.buffer) + 5
                              /\ Left + 1 - j <= Len(op.buffer) + 4
    BY <1>1, <1>2
  <2>4. \A j \in 1 .. Left : op.todo[j] = "write_data" <=> Left + 1 - j >= 5
    <3> SUFFICES ASSUME NEW j \in 1 .. Left
                 PROVE  op.todo[j] = "write_data" <=> Left + 1 - j >= 5
      OBVIOUS
    <3>1. PICK n \in Nat : n = Len(op.buffer)
      BY <1>2
    <3>2. PICK m \in 1 .. 2 * n + 5 : m = Left + 1 - j /\ m <= n + 4
      BY <2>3, <3>1
    <3>3. op.todo[j] = WriteSteps(n)[m]
      BY <2>2, <3>1, <3>2
    <3>4. WriteSteps(n)[m] = "write_data" <=> m >= 5
      BY <3>2 DEF WriteSteps
    <3> QED
      BY <3>2, <3>3, <3>4
  <2> QED
    BY <1>1, <1>2, <2>1, <2>4
<1>5. Cardinality(more) = Left - 4
  <2>1. 1 \in Int /\ Left - 4 \in Int /\ Left - 4 >= 1
    BY <1>1, <1>2
  <2>2. Cardinality(1 .. Left - 4) = IF 1 > Left - 4 THEN 0 ELSE Left - 4 - 1 + 1
    BY <2>1, FS_Interval
  <2> HIDE DEF more
  <2> QED
    BY <1>4, <2>1, <2>2
<1>6. PICK k \in 1 .. Len(op.buffer) :
        k = Len(op.buffer) + 5 - Left /\ k = 1 + Len(op.buffer) - Cardinality(more)
  <2> HIDE DEF Left, more
  <2>1. PICK n \in Nat : n = Len(op.buffer)
    BY <1>2
  <2>2. n + 5 - Left \in 1 .. n
    BY <1>1, <1>2, <2>1
  <2>3. n + 5 - Left = 1 + n - Cardinality(more)
    BY <1>2, <1>5
  <2> QED
    BY <2>1, <2>2, <2>3
<1>7. WriteContents("write_data", op.blocks[k], DataBlock(op.buffer[k]))
  BY <1>6 DEF WriteData
<1>8. k \in DOMAIN op.blocks /\ op.blocks[k] \in Block /\ op.buffer[k] \in Values
  BY <1>1, <1>2, <1>3, <1>6
<1>9. /\ DataBlock(op.buffer[k]) \in Content /\ DataBlock(op.buffer[k]).entries = <<>>
      /\ DataBlock(op.buffer[k]).data = op.buffer[k]
  BY <1>8 DEF DataBlock, Content
<1>10. Len(DataBlock(op.buffer[k]).entries) <= DirSlots
  BY <1>9, SplaxFsAssumption
<1> QED
  BY <1>1, <1>2, <1>3, <1>6, <1>7, <1>8, <1>9, <1>10

\* What add_dirent appends to the block of the directory.
LEMMA DirentArgs ==
    ASSUME ShapeInv, AddDirent
    PROVE  /\ FileCall \/ DirCall
           /\ Left = 4 /\ op.inode \in Inode /\ op.dir \in Inode /\ op.path \in Paths
           /\ op # Idle /\ mounted
           /\ \/ /\ op' = Idle /\ CallShape'
                 /\ UNCHANGED <<disk, fs, mounted, faults, acked, unsaved, torn>>
              \/ \E b \in Block : \E e \in Entry : \E c \in Content :
                    /\ inodes[op.dir].direct # <<>> /\ b = inodes[op.dir].direct[1]
                    /\ e.name = op.path[Len(op.path)] /\ e.inode = op.inode
                    /\ c.entries = Append(contents[b].entries, e)
                    /\ Len(c.entries) <= DirSlots
                    /\ WriteContents("add_dirent", b, c)
<1>1. /\ FileCall \/ DirCall
      /\ Left = 4 /\ op # Idle /\ mounted
  <2>1. At("add_dirent") /\ op.todo # <<>> /\ CallShape
    BY DEF AddDirent, ShapeInv, At
  <2>2. Idle.todo = <<>>
    BY DEF Idle
  <2> QED
    BY <2>1, <2>2, AtStep, Places DEF PlaceRule
<1>2. op.inode \in Inode /\ op.dir \in Inode /\ op.path \in Paths
  BY <1>1 DEF FileCall, DirCall
<1> DEFINE direct == inodes[op.dir].direct
           entries == contents[direct[1]].entries
           entry == [name |-> op.path[Len(op.path)], inode |-> op.inode]
           has_slot == direct # <<>> /\ Len(entries) < DirSlots
<1>3. CASE has_slot
  <2>1. direct \in Seq(Block)
    BY <1>2 DEF ShapeInv, DiskTypes, InodeRecord
  <2>2. PICK b \in Block : b = direct[1]
    BY <1>3, <2>1
  <2>3. contents[b].entries \in Seq(Entry) /\ Len(contents[b].entries) < DirSlots
    BY <1>3, <2>2 DEF ShapeInv, DiskTypes, Content
  <2>4. op.path[Len(op.path)] \in Names
    BY <1>2, ConstFacts
  <2>5. PICK e \in Entry : e = entry /\ e.name = op.path[Len(op.path)] /\ e.inode = op.inode
    <3>1. PICK x \in Names : x = op.path[Len(op.path)]
      BY <2>4
    <3>2. PICK i \in Inode : i = op.inode
      BY <1>2
    <3>3. [name |-> x, inode |-> i] \in Entry
      BY DEF Entry
    <3> QED
      BY <3>1, <3>2, <3>3
  <2>6. PICK s \in Seq(Entry) : s = Append(contents[b].entries, e) /\ Len(s) <= DirSlots
    <3>1. Append(contents[b].entries, e) \in Seq(Entry)
          /\ Len(Append(contents[b].entries, e)) = Len(contents[b].entries) + 1
          /\ Len(contents[b].entries) \in Nat
      BY <2>3
    <3>2. Len(contents[b].entries) + 1 <= DirSlots
      BY <2>3, <3>1, SplaxFsAssumption
    <3> QED
      BY <3>1, <3>2
  <2>7. PICK c \in Content : c = [entries |-> s, data |-> NoData] /\ c.entries = s
    <3>1. [entries |-> s, data |-> NoData] \in Content
      BY DEF Content, Values
    <3> QED
      BY <3>1
  <2>8. WriteContents("add_dirent", b, c)
    BY <1>3, <2>2, <2>5, <2>6, <2>7 DEF AddDirent
  <2> QED
    BY <1>1, <1>2, <1>3, <2>2, <2>5, <2>6, <2>7, <2>8
<1>4. CASE ~has_slot
  <2>1. op' = Idle /\ UNCHANGED <<disk, fs, mounted, faults, acked, unsaved, torn>>
    BY <1>4 DEF AddDirent, Return
  <2> QED
    BY <1>1, <1>2, <2>1 DEF CallShape
<1> QED
  BY <1>3, <1>4

\* What a step of sync writes.
LEMMA SyncStepDoes ==
    ASSUME ShapeInv, SyncBlockBitmap \/ SyncInodeBitmap \/ SyncSuperblock
    PROVE  /\ UNCHANGED <<inodes, contents, fs, mounted, faults, torn>>
           /\ GoesOn(op) /\ op # Idle /\ mounted /\ saved' \in Bitmaps /\ op \in OpRecord
           /\ SyncBlockBitmap => /\ saved'.blocks = fs.blocks /\ saved'.inodes = saved.inodes
                                 /\ saved'.free_blocks = saved.free_blocks
                                 /\ saved'.free_inodes = saved.free_inodes
                                 /\ UNCHANGED <<acked, unsaved>> /\ At("block_bitmap")
           /\ SyncInodeBitmap => /\ saved'.blocks = saved.blocks /\ saved'.inodes = fs.inodes
                                 /\ saved'.free_blocks = saved.free_blocks
                                 /\ saved'.free_inodes = saved.free_inodes
                                 /\ UNCHANGED acked /\ unsaved' = FALSE /\ At("inode_bitmap")
           /\ SyncSuperblock => /\ saved'.blocks = saved.blocks /\ saved'.inodes = saved.inodes
                                /\ saved'.free_blocks = fs.free_blocks
                                /\ saved'.free_inodes = fs.free_inodes
                                /\ unsaved' = unsaved /\ At("superblock")
                                /\ acked' = IF op.write THEN [acked EXCEPT ![op.path] = op.buffer]
                                                        ELSE acked
<1>1. saved \in Bitmaps /\ fs \in Bitmaps /\ CallShape
  BY DEF ShapeInv, OtherTypes
<1>2. fs.blocks \in SUBSET Block /\ fs.inodes \in SUBSET Inode
      /\ fs.free_blocks \in Int /\ fs.free_inodes \in Int
  BY <1>1 DEF Bitmaps
<1>3. /\ UNCHANGED <<inodes, contents, fs, mounted, faults, torn>> /\ op' = Rest(op)
      /\ op.todo # <<>> /\ ~At("alloc_inode") /\ ~At("alloc_block") /\ ~At("find_dir")
      /\ ~At("find_file")
  BY DEF SyncBlockBitmap, SyncInodeBitmap, SyncSuperblock, At
<1>4. GoesOn(op) /\ op # Idle /\ mounted /\ op \in OpRecord
  <2>1. Idle.todo = <<>>
    BY DEF Idle
  <2> QED
    BY <1>1, <1>3, <2>1, Continue
<1>5. CASE SyncBlockBitmap
  <2>1. saved' = [saved EXCEPT !.blocks = fs.blocks]
    BY <1>5 DEF SyncBlockBitmap
  <2>2. /\ saved' \in Bitmaps /\ saved'.blocks = fs.blocks /\ saved'.inodes = saved.inodes
        /\ saved'.free_blocks = saved.free_blocks /\ saved'.free_inodes = saved.free_inodes
    BY <1>1, <1>2, <2>1 DEF Bitmaps
  <2>3. At("block_bitmap") /\ UNCHANGED <<acked, unsaved>>
    BY <1>5 DEF SyncBlockBitmap
  <2>4. ~At("inode_bitmap") /\ ~At("superblock")
    BY <2>3 DEF At
  <2> QED
    BY <1>3, <1>4, <2>2, <2>3, <2>4 DEF SyncInodeBitmap, SyncSuperblock
<1>6. CASE SyncInodeBitmap
  <2>1. saved' = [saved EXCEPT !.inodes = fs.inodes]
    BY <1>6 DEF SyncInodeBitmap
  <2>2. /\ saved' \in Bitmaps /\ saved'.blocks = saved.blocks /\ saved'.inodes = fs.inodes
        /\ saved'.free_blocks = saved.free_blocks /\ saved'.free_inodes = saved.free_inodes
    BY <1>1, <1>2, <2>1 DEF Bitmaps
  <2>3. At("inode_bitmap") /\ UNCHANGED acked /\ unsaved' = FALSE
    BY <1>6 DEF SyncInodeBitmap
  <2>4. ~At("block_bitmap") /\ ~At("superblock")
    BY <2>3 DEF At
  <2> QED
    BY <1>3, <1>4, <2>2, <2>3, <2>4 DEF SyncBlockBitmap, SyncSuperblock
<1>7. CASE SyncSuperblock
  <2>1. saved' = [saved EXCEPT !.free_blocks = fs.free_blocks, !.free_inodes = fs.free_inodes]
    BY <1>7 DEF SyncSuperblock
  <2>2. /\ saved' \in Bitmaps /\ saved'.blocks = saved.blocks /\ saved'.inodes = saved.inodes
        /\ saved'.free_blocks = fs.free_blocks /\ saved'.free_inodes = fs.free_inodes
    BY <1>1, <1>2, <2>1 DEF Bitmaps
  <2>3. /\ At("superblock") /\ unsaved' = unsaved
        /\ acked' = IF op.write THEN [acked EXCEPT ![op.path] = op.buffer] ELSE acked
    BY <1>7 DEF SyncSuperblock
  <2>4. ~At("inode_bitmap") /\ ~At("block_bitmap")
    BY <2>3 DEF At
  <2> QED
    BY <1>3, <1>4, <2>2, <2>3, <2>4 DEF SyncInodeBitmap, SyncBlockBitmap
<1> QED
  BY <1>5, <1>6, <1>7

\* A failed write ends the call; unmount goes on with what it has to remove.
LEMMA IoErrorDoes ==
    ASSUME ShapeInv, IoError
    PROVE  /\ UNCHANGED <<disk, fs, mounted, acked, unsaved, torn>>
           /\ CallShape' /\ faults' \in 0 .. MaxFaults
           /\ op' = Idle \/ (op' # Idle /\ op'.todo = <<"remove">> /\ UnmountCall')
<1>1. UNCHANGED <<disk, fs, mounted, acked, unsaved, torn>>
  BY DEF IoError
<1>2. faults' \in 0 .. MaxFaults
  BY SplaxFsAssumption DEF IoError, ShapeInv, OtherTypes
<1>3. /\ op.todo # <<>> /\ op \in OpRecord /\ mounted
      /\ SyncCall \/ UnmountCall \/ FileCall \/ DirCall \/ WriteCall
  BY DEF IoError, ShapeInv, CallShape, Idle
<1>4. CASE op.todo[Len(op.todo)] # "remove"
  <2>1. op' = Idle
    BY <1>4 DEF IoError
  <2> QED
    BY <1>1, <1>2, <2>1 DEF CallShape
<1>5. CASE op.todo[Len(op.todo)] = "remove"
  <2>1. \A f : Runs(f, op.todo) => f[1] = "remove"
    BY <1>3, <1>5, RunsTail DEF OpRecord
  <2>2. ~Runs(SyncSteps, op.todo) /\ ~Runs(FileSteps, op.todo) /\ ~Runs(DirSteps, op.todo)
    BY <2>1 DEF SyncSteps, FileSteps, DirSteps
  <2>3. ~WriteCall
    <3>1. ASSUME NEW n \in Nat PROVE WriteSteps(n)[1] = "superblock"
      BY DEF WriteSteps
    <3> QED
      BY <2>1, <3>1, ConstFacts DEF WriteCall
  <2>4. UnmountCall /\ ~op.write
    BY <1>3, <2>2, <2>3 DEF SyncCall, FileCall, DirCall, UnmountCall
  <2>5. PICK s \in Seq(StepName) : s = <<"remove">> /\ Len(s) = 1 /\ s # <<>> /\ s[1] = "remove"
    <3>1. <<"remove">> \in Seq(StepName)
      BY DEF StepName
    <3> QED
      BY <3>1
  <2>6. op' = [op EXCEPT !.todo = s]
    BY <1>5, <2>5 DEF IoError
  <2>7. op' \in OpRecord /\ op'.todo = s /\ op'.write = op.write
    BY <1>3, <2>6 DEF OpRecord
  <2>8. Runs(UnmountSteps, s)
    BY <2>5 DEF Runs, UnmountSteps
  <2>9. Left' = 1 /\ Runs(UnmountSteps, op.todo)' /\ (~op.write)'
    BY <2>4, <2>5, <2>7, <2>8 DEF Left
  <2>10. UnmountCall'
    BY <2>9 DEF UnmountCall
  <2>11. Idle.todo = <<>>
    BY DEF Idle
  <2> QED
    BY <1>1, <1>2, <1>3, <2>5, <2>7, <2>10, <2>11 DEF CallShape
<1> QED
  BY <1>4, <1>5

\* Losing memory ends the call.
LEMMA DropDoes ==
    ASSUME ShapeInv, Unmounted \/ mount \/ Crash
    PROVE  /\ UNCHANGED <<disk, acked>> /\ op' = Idle /\ CallShape'
           /\ torn' = (torn \/ unsaved) /\ unsaved' = FALSE
           /\ \/ mounted' = FALSE /\ fs' = fs
              \/ mounted' = TRUE /\ fs' = saved
           /\ faults' \in 0 .. MaxFaults
<1>1. op' = Idle
  BY DEF Unmounted, mount, Crash, Return
<1>2. faults' \in 0 .. MaxFaults
  BY SplaxFsAssumption DEF Unmounted, mount, Crash, ShapeInv, OtherTypes
<1>3. torn' = (torn \/ unsaved) /\ unsaved' = FALSE
  BY DEF Unmounted, mount, Crash, Drop
<1>4. /\ UNCHANGED <<disk, acked>>
      /\ \/ mounted' = FALSE /\ fs' = fs
         \/ mounted' = TRUE /\ fs' = saved
  BY DEF Unmounted, mount, Crash, disk
<1> QED
  BY <1>1, <1>2, <1>3, <1>4 DEF CallShape

--------------------------------------------------------------------------------
(* ShapeInv is inductive *)

\* What format leaves is well formed.
LEMMA InitShape == Init => ShapeInv
<1> SUFFICES ASSUME Init PROVE ShapeInv
  OBVIOUS
<1>1. NoInode \in InodeRecord /\ NoInode.size <= Len(NoInode.direct)
  BY DEF NoInode, InodeRecord
<1>2. /\ DirInode(RootBlock) \in InodeRecord
      /\ DirInode(RootBlock).size <= Len(DirInode(RootBlock).direct)
  BY ConstFacts DEF DirInode, InodeRecord
<1>3. EmptyDir \in Content /\ Len(EmptyDir.entries) <= DirSlots
  BY SplaxFsAssumption DEF EmptyDir, Content, Values
<1>4. /\ inodes \in [Inode -> InodeRecord]
      /\ \A j \in Inode : inodes[j] = DirInode(RootBlock) \/ inodes[j] = NoInode
  <2> HIDE DEF NoInode, DirInode
  <2> QED
    BY <1>1, <1>2 DEF Init
<1>5. contents \in [Block -> Content] /\ \A b \in Block : contents[b] = EmptyDir
  <2> HIDE DEF EmptyDir
  <2> QED
    BY <1>3 DEF Init
<1>6. DiskTypes
  BY <1>1, <1>2, <1>3, <1>4, <1>5 DEF DiskTypes
<1>7. Formatted \in Bitmaps
  <2>1. {RootBlock} \in SUBSET Block /\ 1 .. 3 \in SUBSET Inode
    BY ConstFacts, SplaxFsAssumption DEF Inode
  <2>2. NumBlocks \in Int /\ NumInodes - 2 \in Int
    BY SplaxFsAssumption
  <2> QED
    BY <2>1, <2>2 DEF Formatted, Bitmaps
<1>8. OtherTypes
  <2>1. saved \in Bitmaps /\ fs \in Bitmaps
    BY <1>7 DEF Init
  <2>2. faults \in 0 .. MaxFaults /\ acked \in [Paths -> Buffers \cup {NoBuffer}]
    BY SplaxFsAssumption DEF Init
  <2>3. mounted \in BOOLEAN /\ unsaved \in BOOLEAN /\ torn \in BOOLEAN
    BY DEF Init
  <2> QED
    BY <2>1, <2>2, <2>3 DEF OtherTypes
<1> QED
  BY <1>6, <1>8 DEF ShapeInv, CallShape, Init

\* Every step keeps it.
LEMMA ShapeStep == ShapeInv /\ [Next]_vars => ShapeInv'
<1> SUFFICES ASSUME ShapeInv, [Next]_vars PROVE ShapeInv'
  OBVIOUS
<1> USE DEF ShapeInv
<1>0. ASSUME UNCHANGED <<disk, fs, mounted, faults, acked, unsaved, torn>>, CallShape'
      PROVE  ShapeInv'
  BY <1>0 DEF disk, DiskTypes, OtherTypes
<1>1. ASSUME NEW path \in Paths, create_file(path) PROVE ShapeInv'
  BY <1>0, <1>1, CreateFileDoes
<1>2. ASSUME NEW path \in Paths, create_dir(path) PROVE ShapeInv'
  BY <1>0, <1>2, CreateDirDoes
<1>3. ASSUME NEW path \in Paths, NEW buffer \in Buffers, write_file(path, buffer) PROVE ShapeInv'
  BY <1>0, <1>3, WriteFileDoes
<1>4. CASE sync \/ unmount
  BY <1>0, <1>4, SyncDoes
<1>5. CASE alloc_inode
  BY <1>5, AllocInodeDoes DEF disk, DiskTypes, OtherTypes
<1>6. CASE alloc_block
  BY <1>6, AllocBlockDoes DEF disk, DiskTypes, OtherTypes
<1>7. CASE FindDir
  BY <1>0, <1>7, FindDirDoes
<1>8. CASE FindFile
  <2>1. acked' \in [Paths -> Buffers \cup {NoBuffer}]
    BY <1>8, FindFileDoes DEF OtherTypes
  <2> QED
    BY <1>8, <2>1, FindFileDoes DEF disk, DiskTypes, OtherTypes
<1>9. ASSUME UNCHANGED <<saved, fs, mounted, faults, acked, torn>>, unsaved' = TRUE,
             GoesOn(op), DiskTypes'
      PROVE  ShapeInv'
  BY <1>9 DEF OtherTypes, GoesOn
<1>10. CASE WriteNewFile
  BY <1>9, <1>10, NewFileArgs, WriteInodeDoes DEF WriteNewFile
<1>11. CASE WriteNewDir
  <2>1. PICK rec \in InodeRecord :
          /\ rec = DirInode(op.blocks[1]) /\ op.inode \in Inode /\ rec.size <= Len(rec.direct)
    BY <1>11, NewDirArgs
  <2> QED
    BY <1>9, <1>11, <2>1, WriteInodeDoes DEF WriteNewDir
<1>12. CASE WriteFileInode
  <2>1. PICK rec \in InodeRecord :
          /\ rec = [type |-> "file", direct |-> op.blocks, size |-> Len(op.buffer)]
          /\ op.inode \in Inode /\ rec.size <= Len(rec.direct)
    BY <1>12, FileInodeArgs
  <2>2. WriteInode("write_file_inode", rec)
    BY <1>12, <2>1 DEF WriteFileInode
  <2> QED
    BY <1>9, <2>1, <2>2, WriteInodeDoes
<1>13. CASE WriteDirBlock
  BY <1>9, <1>13, DirBlockArgs, WriteContentsDoes DEF WriteDirBlock
<1>14. CASE AddDirent
  <2>1. CASE CallShape' /\ UNCHANGED <<disk, fs, mounted, faults, acked, unsaved, torn>>
    BY <1>0, <2>1
  <2>2. ASSUME NEW b \in Block, NEW c \in Content, Len(c.entries) <= DirSlots,
               WriteContents("add_dirent", b, c)
        PROVE  ShapeInv'
    BY <1>9, <2>2, WriteContentsDoes
  <2> QED
    BY <1>14, <2>1, <2>2, DirentArgs
<1>15. CASE WriteData
  BY <1>9, <1>15, DataArgs, WriteContentsDoes
<1>16. CASE SyncBlockBitmap \/ SyncInodeBitmap \/ SyncSuperblock
  <2>1. /\ UNCHANGED <<inodes, contents, fs, mounted, faults, torn>> /\ CallShape'
        /\ saved' \in Bitmaps /\ unsaved' \in BOOLEAN
        /\ acked' = acked \/ (op.write /\ acked' = [acked EXCEPT ![op.path] = op.buffer])
    BY <1>16, SyncStepDoes DEF GoesOn, OtherTypes
  <2>2. op.write => op.path \in Paths /\ op.buffer \in Buffers
    BY <1>16, SyncStepDoes
       DEF CallShape, SyncCall, UnmountCall, FileCall, DirCall, WriteCall
  <2>3. acked' \in [Paths -> Buffers \cup {NoBuffer}]
    BY <2>1, <2>2 DEF OtherTypes
  <2> QED
    BY <2>1, <2>3 DEF DiskTypes, OtherTypes
<1>17. CASE Unmounted \/ mount \/ Crash
  <2>1. /\ UNCHANGED <<disk, acked>> /\ CallShape' /\ faults' \in 0 .. MaxFaults
        /\ fs' = fs \/ fs' = saved
        /\ mounted' \in BOOLEAN /\ torn' \in BOOLEAN /\ unsaved' \in BOOLEAN
    BY <1>17, DropDoes
  <2> QED
    BY <2>1 DEF disk, DiskTypes, OtherTypes
<1>18. CASE IoError
  BY <1>18, IoErrorDoes DEF disk, DiskTypes, OtherTypes
<1>19. CASE UNCHANGED vars
  BY <1>19 DEF vars, DiskTypes, OtherTypes, CallShape, SyncCall, UnmountCall, FileCall,
               DirCall, WriteCall, Left
<1> QED
  BY <1>1, <1>2, <1>3, <1>4, <1>5, <1>6, <1>7, <1>8, <1>10, <1>11, <1>12, <1>13, <1>14,
     <1>15, <1>16, <1>17, <1>18, <1>19 DEF Next, FsStep, End

--------------------------------------------------------------------------------
(* Free counts *)

FreeInv == ShapeInv /\ SyncOrder /\ FreeCountsSuffice

\* Cardinalities of what is free.
LEMMA FreeCards ==
    ASSUME NEW S \in {Inode, Block}, NEW used \in SUBSET S
    PROVE  /\ IsFiniteSet(S \ used) /\ Cardinality(S \ used) \in Nat
           /\ \A x \in S : x \notin used =>
                Cardinality(S \ (used \cup {x})) = Cardinality(S \ used) - 1
           /\ \A more \in SUBSET S : used \subseteq more =>
                Cardinality(S \ more) <= Cardinality(S \ used) /\ Cardinality(S \ more) \in Nat
<1>1. IsFiniteSet(S)
  BY FS_Interval, SplaxFsAssumption DEF Inode, Block
<1>2. IsFiniteSet(S \ used) /\ Cardinality(S \ used) \in Nat
  BY <1>1, FS_Subset, FS_CardinalityType
<1>3. ASSUME NEW x \in S, x \notin used
      PROVE  Cardinality(S \ (used \cup {x})) = Cardinality(S \ used) - 1
  <2>1. S \ (used \cup {x}) = (S \ used) \ {x} /\ x \in S \ used
    BY <1>3
  <2> QED
    BY <1>2, <2>1, FS_RemoveElement
<1>4. ASSUME NEW more \in SUBSET S, used \subseteq more
      PROVE  Cardinality(S \ more) <= Cardinality(S \ used) /\ Cardinality(S \ more) \in Nat
  <2>1. (S \ more) \in SUBSET (S \ used)
    BY <1>4
  <2> QED
    BY <1>2, <2>1, FS_Subset, FS_CardinalityType
<1> QED
  BY <1>2, <1>3, <1>4

(* the step k may come right after the step h *)
Follows(h, k) ==
    \/ h = "alloc_inode" /\ k \in {"alloc_block", "find_dir"}
    \/ h = "alloc_block" /\ k \in {"alloc_block", "find_dir", "find_file"}
    \/ h = "find_dir" /\ k \in {"write_inode", "write_dir_inode"}
    \/ h = "write_inode" /\ k = "add_dirent"
    \/ h = "write_dir_inode" /\ k = "write_dir"
    \/ h = "write_dir" /\ k = "add_dirent"
    \/ h \in {"find_file", "write_data"} /\ k \in {"write_data", "write_file_inode"}
    \/ h \in {"add_dirent", "write_file_inode"} /\ k = "block_bitmap"
    \/ h = "block_bitmap" /\ k = "inode_bitmap"
    \/ h = "inode_bitmap" /\ k = "superblock"
    \/ h = "superblock" /\ k = "remove"

\* The order in which a call takes its steps.
LEMMA InOrder ==
    ASSUME CallShape, op.todo # <<>>, op' = Idle \/ op'.todo = Tail(op.todo), op'.todo # <<>>
    PROVE  Follows(Head(op.todo), Head(op'.todo))
<1>0. op'.todo = Tail(op.todo)
  BY DEF Idle
<1>1. op.todo \in Seq(StepName) /\ Left \in Nat
  BY Places DEF PlaceRule, OpRecord
<1>2. /\ Tail(op.todo) \in Seq(StepName) /\ Tail(op.todo) # <<>>
      /\ Len(Tail(op.todo)) = Left - 1 /\ Left - 1 \in Nat /\ Left >= 2
  BY <1>0, <1>1, HeadTailProperties DEF Left
<1>3. \A f : Runs(f, op.todo) => Head(op.todo) = f[Left] /\ Head(op'.todo) = f[Left - 1]
  <2> SUFFICES ASSUME NEW f, Runs(f, op.todo)
               PROVE  Head(op.todo) = f[Left] /\ Head(op'.todo) = f[Left - 1]
    OBVIOUS
  <2>1. Runs(f, Tail(op.todo)) /\ Head(op.todo) = f[Left]
    BY <1>1, RunsTail DEF Left
  <2>2. Head(Tail(op.todo)) = f[Len(Tail(op.todo))]
    BY <1>2, <2>1, RunsTail
  <2> QED
    BY <1>0, <1>2, <2>1, <2>2
<1>4. \/ SyncCall \/ UnmountCall \/ FileCall \/ DirCall \/ WriteCall
  BY DEF CallShape, Idle
<1>h. PICK h, k : h = Head(op.todo) /\ k = Head(op'.todo)
  OBVIOUS
<1>5. CASE SyncCall
  <2>1. h = SyncSteps[Left] /\ k = SyncSteps[Left - 1] /\ Left \in 2 .. 3
    BY <1>1, <1>2, <1>3, <1>h, <1>5 DEF SyncCall
  <2> HIDE DEF Left
  <2>2. Follows(h, k)
    BY <2>1 DEF SyncSteps, Follows
  <2> QED
    BY <2>2, <1>h
<1>6. CASE UnmountCall
  <2>1. h = UnmountSteps[Left] /\ k = UnmountSteps[Left - 1] /\ Left \in 2 .. 4
    BY <1>1, <1>2, <1>3, <1>h, <1>6 DEF UnmountCall
  <2> HIDE DEF Left
  <2>2. Follows(h, k)
    BY <2>1 DEF UnmountSteps, Follows
  <2> QED
    BY <2>2, <1>h
<1>7. CASE FileCall
  <2>1. h = FileSteps[Left] /\ k = FileSteps[Left - 1] /\ Left \in 2 .. 7
    BY <1>1, <1>2, <1>3, <1>h, <1>7 DEF FileCall
  <2> HIDE DEF Left
  <2>2. Follows(h, k)
    BY <2>1 DEF FileSteps, Follows
  <2> QED
    BY <2>2, <1>h
<1>8. CASE DirCall
  <2>1. h = DirSteps[Left] /\ k = DirSteps[Left - 1] /\ Left \in 2 .. 9
    BY <1>1, <1>2, <1>3, <1>h, <1>8 DEF DirCall
  <2> HIDE DEF Left
  <2>2. Follows(h, k)
    BY <2>1 DEF DirSteps, Follows
  <2> QED
    BY <2>2, <1>h
<1>9. CASE WriteCall
  <2>1. PICK n \in Nat : n = Len(op.buffer)
    BY <1>9, ConstFacts DEF WriteCall
  <2>2. /\ h = WriteSteps(n)[Left] /\ k = WriteSteps(n)[Left - 1]
        /\ Left \in 2 .. 2 * n + 5
    BY <1>1, <1>2, <1>3, <1>h, <1>9, <2>1 DEF WriteCall
  <2> HIDE DEF Left
  <2>3. Follows(h, k)
    BY <2>2 DEF WriteSteps, Follows
  <2> QED
    BY <2>3, <1>h
<1> QED
  BY <1>4, <1>5, <1>6, <1>7, <1>8, <1>9

\* The inode bitmap is written after the block bitmap, the superblock after both.
LEMMA SyncNext ==
    ASSUME CallShape, op.todo # <<>>, op' = Idle \/ op'.todo = Tail(op.todo)
    PROVE  /\ At("inode_bitmap")' => At("block_bitmap")
           /\ At("superblock")' => At("inode_bitmap")
<1>1. CASE op'.todo = <<>>
  BY <1>1 DEF At
<1>2. CASE op'.todo # <<>>
  <2>1. PICK h, k : h = Head(op.todo) /\ k = Head(op'.todo) /\ Follows(h, k)
    BY <1>2, InOrder
  <2>2. (k = "inode_bitmap" => h = "block_bitmap") /\ (k = "superblock" => h = "inode_bitmap")
    BY <2>1 DEF Follows
  <2> QED
    BY <2>1, <2>2 DEF At
<1> QED
  BY <1>1, <1>2

(* the steps a call begins with *)
FirstSteps == {"alloc_inode", "alloc_block", "find_file", "block_bitmap"}

\* Where a call begins.
LEMMA BeginsAt ==
    ASSUME CallShape', op' # Idle, op'.todo # <<>>,
           \/ FileCall' /\ Left' = 7
           \/ DirCall' /\ Left' = 9
           \/ SyncCall' /\ Left' = 3
           \/ UnmountCall' /\ Left' = 4
           \/ WriteCall' /\ Left' = 2 * Len(op'.buffer) + 5
    PROVE  Head(op'.todo) \in FirstSteps
<1>1. PlaceRule'
  BY PlacesNext
<1>2. PICK h : h = Head(op'.todo)
  OBVIOUS
<1>3. \A step : At(step)' <=> h = step
  BY <1>2 DEF At
<1>4. CASE FileCall' /\ Left' = 7
  <2>1. h = "alloc_inode"
    BY <1>1, <1>3, <1>4 DEF PlaceRule, FilePlace
  <2> QED
    BY <1>2, <2>1 DEF FirstSteps
<1>5. CASE DirCall' /\ Left' = 9
  <2>1. h = "alloc_inode"
    BY <1>1, <1>3, <1>5 DEF PlaceRule, DirPlace
  <2> QED
    BY <1>2, <2>1 DEF FirstSteps
<1>6. CASE (SyncCall' /\ Left' = 3) \/ (UnmountCall' /\ Left' = 4)
  <2>1. h = "block_bitmap"
    BY <1>1, <1>3, <1>6 DEF PlaceRule, SyncPlace, UnmountPlace
  <2> QED
    BY <1>2, <2>1 DEF FirstSteps
<1>7. CASE WriteCall' /\ Left' = 2 * Len(op'.buffer) + 5
  <2>1. Len(op'.buffer) \in Nat /\ WritePlace'
    BY <1>1, <1>7 DEF PlaceRule
  <2>2. h = "find_file" \/ h = "alloc_block"
    BY <1>3, <1>7, <2>1 DEF WritePlace
  <2> QED
    BY <1>2, <2>2 DEF FirstSteps
<1> QED
  BY <1>4, <1>5, <1>6, <1>7

(* the call is not between the writes of sync *)
NotInSync == ~At("inode_bitmap") /\ ~At("superblock")

\* A call that begins is not there.
LEMMA BeginsOutside ==
    ASSUME Head(op'.todo) \in FirstSteps
    PROVE  NotInSync'
BY DEF FirstSteps, NotInSync, At

\* Between any other two steps it is not there either.
LEMMA StaysOutside ==
    ASSUME CallShape, op.todo # <<>>, op' = Idle \/ op'.todo = Tail(op.todo),
           ~At("block_bitmap"), ~At("inode_bitmap")
    PROVE  NotInSync'
BY SyncNext DEF NotInSync

\* At the start the counts are too high by one.
LEMMA InitFree == Init => FreeInv
<1> SUFFICES ASSUME Init PROVE SyncOrder /\ FreeCountsSuffice
  BY InitShape DEF FreeInv
<1>1. SyncOrder
  BY DEF Init, SyncOrder, At, Idle
<1>2. /\ Formatted.blocks = {RootBlock} /\ Formatted.inodes = 1 .. 3
      /\ Formatted.free_blocks = NumBlocks /\ Formatted.free_inodes = NumInodes - 2
  BY DEF Formatted
<1>3. NumBlocks >= Cardinality(Block \ {RootBlock})
  <2>1. {RootBlock} \in SUBSET Block /\ {} \in SUBSET Block /\ {} \subseteq {RootBlock}
    BY ConstFacts
  <2>2. /\ Cardinality(Block \ {RootBlock}) <= Cardinality(Block \ {})
        /\ Cardinality(Block \ {RootBlock}) \in Nat
    BY <2>1, FreeCards
  <2>3. Cardinality(Block) = NumBlocks /\ Block \ {} = Block
    BY FS_Interval, SplaxFsAssumption DEF Block
  <2> QED
    BY <2>2, <2>3, SplaxFsAssumption
<1>4. NumInodes - 2 >= Cardinality(Inode \ (1 .. 3))
  <2>1. Inode \ (1 .. 3) = 4 .. NumInodes
    BY SplaxFsAssumption DEF Inode
  <2>2. Cardinality(4 .. NumInodes) = IF 4 > NumInodes THEN 0 ELSE NumInodes - 4 + 1
    BY FS_Interval, SplaxFsAssumption
  <2>3. \A n \in Nat : n >= 3 => n - 2 >= (IF 4 > n THEN 0 ELSE n - 4 + 1)
    OBVIOUS
  <2>4. NumInodes - 2 >= (IF 4 > NumInodes THEN 0 ELSE NumInodes - 4 + 1)
    BY <2>3, SplaxFsAssumption
  <2> HIDE DEF Inode
  <2> QED
    BY <2>1, <2>2, <2>4, Zenon
<1> QED
  BY <1>1, <1>2, <1>3, <1>4 DEF Init, FreeCountsSuffice

\* Every step keeps enough of them.
LEMMA FreeStep == FreeInv /\ [Next]_vars => FreeInv'
<1> SUFFICES ASSUME FreeInv, [Next]_vars PROVE SyncOrder' /\ FreeCountsSuffice'
  BY ShapeStep DEF FreeInv
<1>s. ShapeInv /\ SyncOrder /\ FreeCountsSuffice /\ CallShape
  BY DEF FreeInv, ShapeInv
<1>b. /\ saved.blocks \in SUBSET Block /\ saved.inodes \in SUBSET Inode
      /\ fs.blocks \in SUBSET Block /\ fs.inodes \in SUBSET Inode
      /\ saved.free_blocks \in Int /\ saved.free_inodes \in Int
      /\ fs.free_blocks \in Int /\ fs.free_inodes \in Int
  BY <1>s DEF ShapeInv, OtherTypes, Bitmaps
<1>0. ASSUME UNCHANGED <<saved, fs, mounted>>, NotInSync'
      PROVE  SyncOrder' /\ FreeCountsSuffice'
  BY <1>0, <1>s DEF SyncOrder, FreeCountsSuffice, NotInSync
<1>1. ASSUME NEW path \in Paths, create_file(path) PROVE SyncOrder' /\ FreeCountsSuffice'
  BY <1>0, <1>1, CreateFileDoes, BeginsAt, BeginsOutside DEF disk
<1>2. ASSUME NEW path \in Paths, create_dir(path) PROVE SyncOrder' /\ FreeCountsSuffice'
  BY <1>0, <1>2, CreateDirDoes, BeginsAt, BeginsOutside DEF disk
<1>3. ASSUME NEW path \in Paths, NEW buffer \in Buffers, write_file(path, buffer)
      PROVE  SyncOrder' /\ FreeCountsSuffice'
  BY <1>0, <1>3, WriteFileDoes, BeginsAt, BeginsOutside DEF disk
<1>4. CASE sync \/ unmount
  BY <1>0, <1>4, SyncDoes, BeginsAt, BeginsOutside DEF disk
<1>5. CASE alloc_inode
  <2>1. NotInSync'
    <3>1. At("alloc_inode")
      BY <1>5 DEF alloc_inode
    <3>2. op.todo # <<>> /\ ~At("block_bitmap") /\ ~At("inode_bitmap")
      BY <3>1 DEF At
    <3>3. op' = Idle \/ op'.todo = Tail(op.todo)
      BY <1>5, <1>s, AllocInodeDoes
    <3> QED
      BY <1>s, <3>2, <3>3, StaysOutside
  <2>2. UNCHANGED <<saved, mounted>> /\ fs'.blocks = fs.blocks /\ fs'.free_blocks = fs.free_blocks
    BY <1>5, <1>s, AllocInodeDoes DEF disk
  <2>3. CASE fs' = fs
    BY <1>0, <2>1, <2>2, <2>3
  <2>4. ASSUME NEW x \in Inode, x \notin fs.inodes, fs'.inodes = fs.inodes \cup {x},
               fs'.free_inodes = fs.free_inodes - 1
        PROVE  SyncOrder' /\ FreeCountsSuffice'
    <3>1. /\ Cardinality(Inode \ fs'.inodes) = Cardinality(Inode \ fs.inodes) - 1
          /\ Cardinality(Inode \ fs.inodes) \in Nat
      BY <1>b, <2>4, FreeCards
    <3>2. fs.free_inodes >= Cardinality(Inode \ fs.inodes)
      BY <1>s DEF FreeCountsSuffice
    <3>3. fs'.free_inodes >= Cardinality(Inode \ fs'.inodes)
      BY <1>b, <2>4, <3>1, <3>2
    <3> QED
      BY <1>s, <2>1, <2>2, <2>4, <3>3 DEF SyncOrder, FreeCountsSuffice, NotInSync
  <2> QED
    BY <1>5, <1>s, <2>3, <2>4, AllocInodeDoes
<1>6. CASE alloc_block
  <2>1. NotInSync'
    <3>1. At("alloc_block")
      BY <1>6 DEF alloc_block
    <3>2. op.todo # <<>> /\ ~At("block_bitmap") /\ ~At("inode_bitmap")
      BY <3>1 DEF At
    <3>3. op' = Idle \/ op'.todo = Tail(op.todo)
      BY <1>6, <1>s, AllocBlockDoes
    <3> QED
      BY <1>s, <3>2, <3>3, StaysOutside
  <2>2. UNCHANGED <<saved, mounted>> /\ fs'.inodes = fs.inodes /\ fs'.free_inodes = fs.free_inodes
    BY <1>6, <1>s, AllocBlockDoes DEF disk
  <2>3. CASE fs' = fs
    BY <1>0, <2>1, <2>2, <2>3
  <2>4. ASSUME NEW x \in Block, x \notin fs.blocks, fs'.blocks = fs.blocks \cup {x},
               fs'.free_blocks = fs.free_blocks - 1
        PROVE  SyncOrder' /\ FreeCountsSuffice'
    <3>1. /\ Cardinality(Block \ fs'.blocks) = Cardinality(Block \ fs.blocks) - 1
          /\ Cardinality(Block \ fs.blocks) \in Nat
      BY <1>b, <2>4, FreeCards
    <3>2. fs.free_blocks >= Cardinality(Block \ fs.blocks)
      BY <1>s DEF FreeCountsSuffice
    <3>3. fs'.free_blocks >= Cardinality(Block \ fs'.blocks)
      BY <1>b, <2>4, <3>1, <3>2
    <3> QED
      BY <1>s, <2>1, <2>2, <2>4, <3>3 DEF SyncOrder, FreeCountsSuffice, NotInSync
  <2> QED
    BY <1>6, <1>s, <2>3, <2>4, AllocBlockDoes
<1>7. CASE FindDir \/ FindFile
  <2>1. op.todo # <<>> /\ ~At("block_bitmap") /\ ~At("inode_bitmap")
    BY <1>7 DEF FindDir, FindFile, At
  <2>2. UNCHANGED <<saved, fs, mounted>> /\ (op' = Idle \/ op'.todo = Tail(op.todo))
    BY <1>7, <1>s, FindDirDoes, FindFileDoes DEF disk
  <2> QED
    BY <1>0, <1>s, <2>1, <2>2, StaysOutside
<1>8. CASE \/ WriteNewFile \/ WriteNewDir \/ WriteFileInode
           \/ WriteDirBlock \/ AddDirent \/ WriteData
  <2>1. /\ op.todo # <<>> /\ ~At("block_bitmap") /\ ~At("inode_bitmap")
        /\ UNCHANGED <<saved, fs, mounted>>
        /\ op' = Idle \/ op' = Rest(op)
    BY <1>8 DEF WriteNewFile, WriteNewDir, WriteFileInode, WriteDirBlock, AddDirent, WriteData,
                WriteInode, WriteContents, At, Return, disk
  <2>2. op' = Idle \/ op'.todo = Tail(op.todo)
    BY <1>s, <2>1, RestFacts, Places DEF PlaceRule
  <2> QED
    BY <1>0, <1>s, <2>1, <2>2, StaysOutside
<1>9. CASE SyncBlockBitmap \/ SyncInodeBitmap \/ SyncSuperblock
  <2>0. /\ fs' = fs /\ mounted' = mounted /\ mounted /\ op.todo # <<>>
        /\ op' = Idle \/ op'.todo = Tail(op.todo)
    BY <1>9, <1>s, SyncStepDoes DEF GoesOn, SyncBlockBitmap, SyncInodeBitmap, SyncSuperblock, At
  <2>n. /\ At("inode_bitmap")' => At("block_bitmap")
        /\ At("superblock")' => At("inode_bitmap")
    BY <1>s, <2>0, SyncNext
  <2>c. /\ saved.blocks \subseteq fs.blocks /\ saved.inodes \subseteq fs.inodes
        /\ saved.free_blocks >= Cardinality(Block \ saved.blocks)
        /\ saved.free_inodes >= Cardinality(Inode \ saved.inodes)
        /\ fs.free_blocks >= Cardinality(Block \ fs.blocks)
        /\ fs.free_inodes >= Cardinality(Inode \ fs.inodes)
    BY <1>s, <2>0 DEF SyncOrder, FreeCountsSuffice
  <2>d. /\ Cardinality(Block \ fs.blocks) <= Cardinality(Block \ saved.blocks)
        /\ Cardinality(Inode \ fs.inodes) <= Cardinality(Inode \ saved.inodes)
        /\ Cardinality(Block \ fs.blocks) \in Nat /\ Cardinality(Block \ saved.blocks) \in Nat
        /\ Cardinality(Inode \ fs.inodes) \in Nat /\ Cardinality(Inode \ saved.inodes) \in Nat
    BY <1>b, <2>c, FreeCards
  <2>e. /\ saved.free_blocks >= Cardinality(Block \ fs.blocks)
        /\ saved.free_inodes >= Cardinality(Inode \ fs.inodes)
    BY <1>b, <2>c, <2>d
  <2>1. CASE SyncBlockBitmap
    <3>1. /\ saved'.blocks = fs.blocks /\ saved'.inodes = saved.inodes
          /\ saved'.free_blocks = saved.free_blocks /\ saved'.free_inodes = saved.free_inodes
          /\ At("block_bitmap")
      BY <1>s, <2>1, SyncStepDoes
    <3>2. ~At("superblock")'
      BY <2>n, <3>1 DEF At
    <3> QED
      BY <2>0, <2>c, <2>e, <3>1, <3>2 DEF SyncOrder, FreeCountsSuffice
  <2>2. CASE SyncInodeBitmap
    <3>1. /\ saved'.blocks = saved.blocks /\ saved'.inodes = fs.inodes
          /\ saved'.free_blocks = saved.free_blocks /\ saved'.free_inodes = saved.free_inodes
          /\ At("inode_bitmap")
      BY <1>s, <2>2, SyncStepDoes
    <3>2. ~At("inode_bitmap")' /\ saved.blocks = fs.blocks
      BY <1>s, <2>n, <3>1 DEF At, SyncOrder
    <3> QED
      BY <2>0, <2>c, <2>e, <3>1, <3>2 DEF SyncOrder, FreeCountsSuffice
  <2>3. CASE SyncSuperblock
    <3>1. /\ saved'.blocks = saved.blocks /\ saved'.inodes = saved.inodes
          /\ saved'.free_blocks = fs.free_blocks /\ saved'.free_inodes = fs.free_inodes
          /\ At("superblock")
      BY <1>s, <2>3, SyncStepDoes
    <3>2. /\ ~At("inode_bitmap")' /\ ~At("superblock")'
          /\ saved.blocks = fs.blocks /\ saved.inodes = fs.inodes
      BY <1>s, <2>n, <3>1 DEF At, SyncOrder
    <3> QED
      BY <2>0, <2>c, <3>1, <3>2 DEF SyncOrder, FreeCountsSuffice
  <2> QED
    BY <1>9, <2>1, <2>2, <2>3
<1>10. CASE Unmounted \/ mount \/ Crash
  <2>1. /\ saved' = saved /\ op'.todo = <<>>
        /\ (mounted' = FALSE /\ fs' = fs) \/ fs' = saved
    <3>1. Idle.todo = <<>>
      BY DEF Idle
    <3>2. /\ saved' = saved /\ op' = Idle
          /\ (mounted' = FALSE /\ fs' = fs) \/ fs' = saved
      BY <1>10, <1>s, DropDoes DEF disk
    <3> QED
      BY <3>1, <3>2
  <2>2. NotInSync'
    BY <2>1 DEF NotInSync, At
  <2> QED
    BY <1>s, <2>1, <2>2 DEF SyncOrder, FreeCountsSuffice, NotInSync
<1>11. CASE IoError
  <2>1. /\ UNCHANGED <<saved, fs, mounted>>
        /\ op'.todo = <<>> \/ op'.todo = <<"remove">>
    BY <1>11, <1>s, IoErrorDoes DEF disk, Idle
  <2>2. NotInSync'
    BY <2>1 DEF NotInSync, At
  <2> QED
    BY <1>0, <2>1, <2>2
<1>12. CASE UNCHANGED vars
  BY <1>s, <1>12 DEF vars, SyncOrder, FreeCountsSuffice, At
<1> QED
  BY <1>1, <1>2, <1>3, <1>4, <1>5, <1>6, <1>7, <1>8, <1>9, <1>10, <1>11, <1>12
     DEF Next, FsStep, End

(***************************************************************************)
(* The free counts of the superblock and of memory never fall below the    *)
(* number of clear bits, so alloc_block and alloc_inode never decrement a  *)
(* count that is zero, whatever fails and whenever the machine stops.      *)
(***************************************************************************)
THEOREM FreeCountsNeverShort == Spec => []FreeCountsSuffice
<1>1. FreeInv => FreeCountsSuffice
  BY DEF FreeInv
<1> QED
  BY <1>1, InitFree, FreeStep, PTL DEF Spec

--------------------------------------------------------------------------------
(* What is named is written *)

(* the records of the disk *)
DiskRule ==
    /\ \A i \in Inode :
        /\ inodes[i].direct \in Seq(Block) /\ DOMAIN inodes[i].direct = 1 .. Len(inodes[i].direct)
        /\ \A k \in DOMAIN inodes[i].direct : inodes[i].direct[k] \in Block
    /\ \A b \in Block :
        /\ contents[b].entries \in Seq(Entry)
        /\ DOMAIN contents[b].entries = 1 .. Len(contents[b].entries)
        /\ \A k \in DOMAIN contents[b].entries : contents[b].entries[k].inode \in Inode

\* Pointers point to blocks, entries name inodes.
LEMMA DiskIs == DiskTypes => DiskRule
<1> SUFFICES ASSUME DiskTypes PROVE DiskRule
  OBVIOUS
<1>1. ASSUME NEW i \in Inode
      PROVE  /\ inodes[i].direct \in Seq(Block)
             /\ DOMAIN inodes[i].direct = 1 .. Len(inodes[i].direct)
             /\ \A k \in DOMAIN inodes[i].direct : inodes[i].direct[k] \in Block
  <2>1. inodes[i].direct \in Seq(Block)
    BY DEF DiskTypes, InodeRecord
  <2> QED
    BY <2>1
<1>2. ASSUME NEW b \in Block
      PROVE  /\ contents[b].entries \in Seq(Entry)
             /\ DOMAIN contents[b].entries = 1 .. Len(contents[b].entries)
             /\ \A k \in DOMAIN contents[b].entries : contents[b].entries[k].inode \in Inode
  <2>1. contents[b].entries \in Seq(Entry)
    BY DEF DiskTypes, Content
  <2>2. \A k \in DOMAIN contents[b].entries : contents[b].entries[k] \in Entry
    BY <2>1
  <2> QED
    BY <2>1, <2>2 DEF Entry
<1> QED
  BY <1>1, <1>2 DEF DiskRule

\* The same after a step.
LEMMA DiskIsNext == DiskTypes' => DiskRule'
BY DiskIs, PTL

\* The step that comes next is one that may.
LEMMA NextStep ==
    ASSUME CallShape, NEW h, At(h), op' = Idle \/ op'.todo = Tail(op.todo),
           NEW steps, AtAny(steps)'
    PROVE  \E k \in steps : Follows(h, k) /\ k = Head(op'.todo)
BY InOrder DEF At, AtAny

WrittenInv == ShapeInv /\ NewIsWritten /\ NamedIsWritten

\* The first directory is empty.
LEMMA InitWritten == Init => WrittenInv
<1> SUFFICES ASSUME Init PROVE NewIsWritten /\ NamedIsWritten
  BY InitShape DEF WrittenInv
<1>1. op.todo = <<>>
  BY DEF Init, Idle
<1>2. \A b \in Block : contents[b].entries = <<>>
  BY DEF Init, EmptyDir
<1> QED
  BY <1>1, <1>2 DEF NewIsWritten, NamedIsWritten, AtAny

\* Every step keeps it.
LEMMA WrittenStep == WrittenInv /\ [Next]_vars => WrittenInv'
<1> SUFFICES ASSUME WrittenInv, [Next]_vars PROVE NewIsWritten' /\ NamedIsWritten'
  BY ShapeStep DEF WrittenInv
<1>s. ShapeInv /\ NewIsWritten /\ NamedIsWritten /\ CallShape /\ DiskTypes /\ DiskRule
  BY DiskIs DEF WrittenInv, ShapeInv
<1> DEFINE Steps == {"write_dir", "add_dirent"}
<1>0. ASSUME UNCHANGED <<inodes, contents>>, ~AtAny(Steps)'
      PROVE  NewIsWritten' /\ NamedIsWritten'
  BY <1>0, <1>s DEF NewIsWritten, NamedIsWritten
<1>f. ASSUME Head(op'.todo) \in FirstSteps PROVE ~AtAny(Steps)'
  BY <1>f DEF FirstSteps, AtAny
<1>h. ASSUME NEW h \in StepName, At(h), op' = Idle \/ op'.todo = Tail(op.todo),
             h # "write_inode", h # "write_dir_inode", h # "write_dir"
      PROVE  ~AtAny(Steps)'
  <2> SUFFICES ASSUME AtAny(Steps)' PROVE FALSE
    OBVIOUS
  <2>1. \E k \in Steps : Follows(h, k)
    BY <1>s, <1>h, NextStep
  <2> QED
    BY <1>h, <2>1 DEF Follows
<1>i. ASSUME NEW rec, op.inode \in Inode, rec.type # "unknown", contents' = contents,
             inodes'[op.inode] = rec, \A j \in Inode : j # op.inode => inodes'[j] = inodes[j]
      PROVE  /\ NamedIsWritten'
             /\ inodes'[op.inode].type # "unknown"
  <2>1. \A j \in Inode : inodes[j].type # "unknown" => inodes'[j].type # "unknown"
    BY <1>i
  <2> QED
    BY <1>i, <1>s, <2>1 DEF NamedIsWritten, DiskRule
<1>e. ASSUME NEW b \in Block, contents'[b].entries = <<>>, inodes' = inodes,
             \A c \in Block : c # b => contents'[c] = contents[c]
      PROVE  NamedIsWritten'
  <2>1. \A c \in Block : DOMAIN contents'[c].entries = {} \/ contents'[c] = contents[c]
    BY <1>e
  <2> QED
    BY <1>e, <1>s, <2>1 DEF NamedIsWritten
<1>n. /\ "alloc_inode" \in StepName /\ "alloc_block" \in StepName
      /\ "find_dir" \in StepName /\ "find_file" \in StepName /\ "add_dirent" \in StepName
      /\ "write_data" \in StepName /\ "write_file_inode" \in StepName
      /\ "block_bitmap" \in StepName /\ "inode_bitmap" \in StepName /\ "superblock" \in StepName
  BY DEF StepName
<1> HIDE DEF Steps
<1>1. ASSUME NEW path \in Paths, create_file(path) PROVE NewIsWritten' /\ NamedIsWritten'
  BY <1>0, <1>f, <1>1, CreateFileDoes, BeginsAt DEF disk
<1>2. ASSUME NEW path \in Paths, create_dir(path) PROVE NewIsWritten' /\ NamedIsWritten'
  BY <1>0, <1>f, <1>2, CreateDirDoes, BeginsAt DEF disk
<1>3. ASSUME NEW path \in Paths, NEW buffer \in Buffers, write_file(path, buffer)
      PROVE  NewIsWritten' /\ NamedIsWritten'
  BY <1>0, <1>f, <1>3, WriteFileDoes, BeginsAt DEF disk
<1>4. CASE sync \/ unmount
  BY <1>0, <1>f, <1>4, SyncDoes, BeginsAt DEF disk
<1>5. CASE alloc_inode \/ alloc_block \/ FindDir \/ FindFile
  <2>1. UNCHANGED <<inodes, contents>> /\ (op' = Idle \/ op'.todo = Tail(op.todo))
    BY <1>s, <1>5, AllocInodeDoes, AllocBlockDoes, FindDirDoes, FindFileDoes DEF disk
  <2>2. At("alloc_inode") \/ At("alloc_block") \/ At("find_dir") \/ At("find_file")
    BY <1>5 DEF alloc_inode, alloc_block, FindDir, FindFile
  <2> QED
    BY <1>0, <1>h, <1>n, <2>1, <2>2
<1>6. CASE WriteNewFile
  <2>1. FileInode \in InodeRecord /\ FileInode.size <= Len(FileInode.direct)
        /\ FileInode.type = "file" /\ op.inode \in Inode
    BY <1>s, <1>6, NewFileArgs
  <2>2. WriteInode("write_inode", FileInode)
    BY <1>6 DEF WriteNewFile
  <2>3. /\ contents' = contents /\ GoesOn(op) /\ inodes'[op.inode] = FileInode
        /\ \A j \in Inode : j # op.inode => inodes'[j] = inodes[j]
    BY <1>s, <2>1, <2>2, WriteInodeDoes
  <2>4. NamedIsWritten' /\ inodes'[op.inode].type # "unknown"
    BY <1>i, <2>1, <2>3
  <2>5. op'.todo # <<>> => op'.inode = op.inode
    BY <2>3 DEF GoesOn, Idle
  <2> QED
    BY <2>4, <2>5 DEF NewIsWritten, AtAny
<1>7. CASE WriteNewDir
  <2>1. PICK rec \in InodeRecord :
          /\ rec = DirInode(op.blocks[1]) /\ rec.size <= Len(rec.direct) /\ rec.type = "dir"
          /\ op.inode \in Inode
    BY <1>s, <1>7, NewDirArgs
  <2>2. WriteInode("write_dir_inode", rec)
    BY <1>7, <2>1 DEF WriteNewDir
  <2>3. /\ contents' = contents /\ GoesOn(op) /\ inodes'[op.inode] = rec
        /\ \A j \in Inode : j # op.inode => inodes'[j] = inodes[j]
    BY <1>s, <2>1, <2>2, WriteInodeDoes
  <2>4. NamedIsWritten' /\ inodes'[op.inode].type # "unknown"
    BY <1>i, <2>1, <2>3
  <2>5. op'.todo # <<>> => op'.inode = op.inode
    BY <2>3 DEF GoesOn, Idle
  <2> QED
    BY <2>4, <2>5 DEF NewIsWritten, AtAny
<1>8. CASE WriteFileInode
  <2>1. PICK rec \in InodeRecord :
          /\ rec = [type |-> "file", direct |-> op.blocks, size |-> Len(op.buffer)]
          /\ rec.size <= Len(rec.direct) /\ rec.type = "file"
          /\ op.inode \in Inode
    BY <1>s, <1>8, FileInodeArgs
  <2>2. WriteInode("write_file_inode", rec) /\ At("write_file_inode")
    BY <1>8, <2>1 DEF WriteFileInode, WriteInode
  <2>3. /\ contents' = contents /\ GoesOn(op) /\ inodes'[op.inode] = rec
        /\ \A j \in Inode : j # op.inode => inodes'[j] = inodes[j]
    BY <1>s, <2>1, <2>2, WriteInodeDoes
  <2>4. NamedIsWritten'
    BY <1>i, <2>1, <2>3
  <2>5. ~AtAny(Steps)'
    BY <1>h, <1>n, <2>2, <2>3 DEF GoesOn
  <2> QED
    BY <2>4, <2>5 DEF NewIsWritten, Steps
<1>9. CASE WriteDirBlock
  <2>1. /\ op.blocks[1] \in Block /\ EmptyDir \in Content /\ Len(EmptyDir.entries) <= DirSlots
        /\ EmptyDir.entries = <<>> /\ op.inode \in Inode
    BY <1>s, <1>9, DirBlockArgs
  <2>b. PICK b \in Block : b = op.blocks[1]
    BY <2>1
  <2>2. WriteContents("write_dir", b, EmptyDir) /\ At("write_dir")
    BY <1>9, <2>b DEF WriteDirBlock, WriteContents
  <2>3. /\ inodes' = inodes /\ GoesOn(op) /\ contents'[b] = EmptyDir
        /\ \A c \in Block : c # b => contents'[c] = contents[c]
    BY <1>s, <2>1, <2>2, WriteContentsDoes
  <2>4. NamedIsWritten'
    BY <1>e, <2>1, <2>3
  <2>5. inodes[op.inode].type # "unknown"
    BY <1>s, <2>2 DEF NewIsWritten, At, AtAny
  <2>6. op'.todo # <<>> => op'.inode = op.inode
    BY <2>3 DEF GoesOn, Idle
  <2> QED
    BY <2>3, <2>4, <2>5, <2>6 DEF NewIsWritten, AtAny
<1>10. CASE AddDirent
  <2>1. op.inode \in Inode /\ At("add_dirent")
    BY <1>s, <1>10, DirentArgs DEF AddDirent
  <2>2. CASE op' = Idle /\ UNCHANGED disk
    BY <1>0, <1>h, <1>n, <2>1, <2>2 DEF disk
  <2>3. ASSUME NEW b \in Block, NEW e \in Entry, NEW c \in Content, e.inode = op.inode,
               c.entries = Append(contents[b].entries, e), Len(c.entries) <= DirSlots,
               WriteContents("add_dirent", b, c)
        PROVE  NewIsWritten' /\ NamedIsWritten'
    <3>1. /\ inodes' = inodes /\ GoesOn(op) /\ contents'[b] = c
          /\ \A x \in Block : x # b => contents'[x] = contents[x]
      BY <1>s, <2>3, WriteContentsDoes
    <3>2. ~AtAny(Steps)'
      BY <1>h, <1>n, <2>1, <3>1 DEF GoesOn
    <3>3. inodes[op.inode].type # "unknown"
      BY <1>s, <2>1 DEF NewIsWritten, At, AtAny
    <3>4. ASSUME NEW k \in DOMAIN c.entries PROVE inodes[c.entries[k].inode].type # "unknown"
      <4>1. /\ contents[b].entries \in Seq(Entry)
            /\ DOMAIN contents[b].entries = 1 .. Len(contents[b].entries)
        BY <1>s DEF DiskRule
      <4>2. \/ k \in DOMAIN contents[b].entries /\ c.entries[k] = contents[b].entries[k]
            \/ c.entries[k] = e
        BY <2>3, <3>4, <4>1, AppendProperties
      <4> QED
        BY <1>s, <2>3, <3>3, <4>2 DEF NamedIsWritten
    <3>5. NamedIsWritten'
      BY <1>s, <3>1, <3>4 DEF NamedIsWritten
    <3> QED
      BY <3>2, <3>5 DEF NewIsWritten, Steps
  <2> QED
    BY <1>s, <1>10, <2>2, <2>3, DirentArgs
<1>11. CASE WriteData
  <2>1. PICK k \in 1 .. Len(op.buffer) :
          /\ op.blocks[k] \in Block /\ DataBlock(op.buffer[k]) \in Content
          /\ DataBlock(op.buffer[k]).entries = <<>>
          /\ Len(DataBlock(op.buffer[k]).entries) <= DirSlots
          /\ WriteContents("write_data", op.blocks[k], DataBlock(op.buffer[k]))
    BY <1>s, <1>11, DataArgs
  <2>2. /\ inodes' = inodes /\ GoesOn(op) /\ contents'[op.blocks[k]] = DataBlock(op.buffer[k])
        /\ \A c \in Block : c # op.blocks[k] => contents'[c] = contents[c]
    BY <1>s, <2>1, WriteContentsDoes
  <2>3. NamedIsWritten'
    BY <1>e, <2>1, <2>2
  <2>4. At("write_data")
    BY <2>1 DEF WriteContents
  <2>5. ~AtAny(Steps)'
    BY <1>h, <1>n, <2>2, <2>4 DEF GoesOn
  <2> QED
    BY <2>3, <2>5 DEF NewIsWritten, Steps
<1>12. CASE SyncBlockBitmap \/ SyncInodeBitmap \/ SyncSuperblock
  <2>1. UNCHANGED <<inodes, contents>> /\ GoesOn(op)
    BY <1>s, <1>12, SyncStepDoes
  <2>2. At("block_bitmap") \/ At("inode_bitmap") \/ At("superblock")
    BY <1>12 DEF SyncBlockBitmap, SyncInodeBitmap, SyncSuperblock
  <2>3. ~AtAny(Steps)'
    BY <1>h, <1>n, <2>1, <2>2 DEF GoesOn
  <2> QED
    BY <1>0, <2>1, <2>3
<1>13. CASE Unmounted \/ mount \/ Crash \/ IoError
  <2>1. /\ UNCHANGED <<inodes, contents>>
        /\ op' = Idle \/ op'.todo = <<"remove">>
    BY <1>s, <1>13, DropDoes, IoErrorDoes DEF disk
  <2>2. ~AtAny(Steps)'
    BY <2>1 DEF AtAny, Idle, Steps
  <2> QED
    BY <1>0, <2>1, <2>2
<1>14. CASE UNCHANGED vars
  BY <1>s, <1>14 DEF vars, NewIsWritten, NamedIsWritten, AtAny
<1> QED
  BY <1>1, <1>2, <1>3, <1>4, <1>5, <1>6, <1>7, <1>8, <1>9, <1>10, <1>11, <1>12, <1>13,
     <1>14 DEF Next, FsStep, End

(***************************************************************************)
(* An entry of a directory names an inode that was written, wherever a     *)
(* create_file or create_dir was cut short by a crash or a failed write    *)
(* and whatever followed, until a directory's block holds a file's data.   *)
(***************************************************************************)
THEOREM EntriesAreInitialised == Spec => []NamedIsInitialised
<1>1. ASSUME WrittenInv PROVE NamedIsInitialised
  <2> SUFFICES ASSUME NEW s \in Slots PROVE inodes[EntryInode(s)].type # "unknown"
    BY DEF NamedIsInitialised
  <2>1. s[1] \in Block /\ s[2] \in DOMAIN contents[s[1]].entries
    BY DEF Slots
  <2> QED
    BY <1>1, <2>1 DEF WrittenInv, NamedIsWritten, EntryInode
<1>2. WrittenInv => NamedIsInitialised
  BY <1>1
<1> QED
  BY <1>2, InitWritten, WrittenStep, PTL DEF Spec

--------------------------------------------------------------------------------
(* No cross links *)

CrossInv == FreeInv /\ (~torn => Untorn)

\* The first directory is the only thing on the disk.
LEMMA InitCross == Init => CrossInv
<1> SUFFICES ASSUME Init PROVE Untorn
  BY InitFree DEF CrossInv
<1>1. op.todo = <<>>
  BY DEF Init, Idle
<1>2. \A b \in Block : contents[b].entries = <<>>
  BY DEF Init, EmptyDir
<1>3. /\ inodes[ROOT_INODE] = DirInode(RootBlock)
      /\ \A i \in Inode : i # ROOT_INODE => inodes[i] = NoInode
  BY ConstFacts DEF Init
<1>4. \A i \in Inode : i # ROOT_INODE => inodes[i].direct = <<>> /\ inodes[i].type = "unknown"
  BY <1>3 DEF NoInode
<1>5. inodes[ROOT_INODE].direct = <<RootBlock>>
  BY <1>3 DEF DirInode
<1>6. \A i \in Inode : \A k \in DOMAIN inodes[i].direct :
        i = ROOT_INODE /\ k = 1 /\ inodes[i].direct[k] = RootBlock
  BY <1>4, <1>5
<1>7. \A i \in Inode : ~Named(i)
  BY <1>2 DEF Named
<1>8. /\ ROOT_INODE \in Formatted.inodes /\ RootBlock \in Formatted.blocks
  BY DEF Formatted, ROOT_INODE
<1>9. Covers(fs) /\ Covers(saved)
  BY <1>4, <1>6, <1>7, <1>8 DEF Init, Covers, Points
<1>10. NamesOnce /\ BlocksOnce
  BY <1>2, <1>6 DEF NamesOnce, BlocksOnce
<1>11. Held
  BY <1>1 DEF Held, NewInode, NewBlocks, OpenFile, AtAny
<1> QED
  BY <1>9, <1>10, <1>11 DEF Untorn, Links

\* A step that leaves the inode table and the blocks alone and only adds to the bitmaps.
LEMMA LinksKept ==
    ASSUME Links, UNCHANGED <<inodes, contents, mounted, unsaved>>,
           fs.inodes \subseteq fs'.inodes, fs.blocks \subseteq fs'.blocks,
           ~unsaved => saved.inodes \subseteq saved'.inodes /\ saved.blocks \subseteq saved'.blocks
    PROVE  Links'
<1>1. \A i : (Named(i)' <=> Named(i)) /\ \A b : Points(i, b)' <=> Points(i, b)
  BY DEF Named, Points
<1>2. NamesOnce' /\ BlocksOnce'
  BY DEF Links, NamesOnce, BlocksOnce
<1>3. (mounted => Covers(fs))'
  BY <1>1 DEF Links, Covers
<1>4. (~unsaved => Covers(saved))'
  BY <1>1 DEF Links, Covers
<1> QED
  BY <1>2, <1>3, <1>4 DEF Links

\* A write of the inode of the running call.
LEMMA LinksInode ==
    ASSUME Links, DiskRule, DiskRule', UNCHANGED <<contents, fs, mounted>>, mounted,
           unsaved' = TRUE, op.inode \in Inode, op.inode \in fs.inodes,
           \A j \in Inode : j # op.inode => inodes'[j] = inodes[j],
           NEW d, inodes'[op.inode].direct = d,
           \A k, l \in DOMAIN d : d[k] = d[l] => k = l,
           \A k \in DOMAIN d :
                d[k] \in fs.blocks /\ \A i \in Inode : Points(i, d[k]) => i = op.inode
    PROVE  Links'
<1>1. \A i : Named(i)' <=> Named(i)
  BY DEF Named
<1>2. NamesOnce'
  BY DEF Links, NamesOnce
<1>3. \A i \in Inode, b \in Block : Points(i, b)' => b \in fs.blocks
  <2> SUFFICES ASSUME NEW i \in Inode, NEW b \in Block, Points(i, b)' PROVE b \in fs.blocks
    OBVIOUS
  <2>1. CASE i = op.inode
    BY <2>1 DEF Points
  <2>2. CASE i # op.inode
    BY <2>2 DEF Points, Links, Covers
  <2> QED
    BY <2>1, <2>2
<1>4. Covers(fs)'
  BY <1>1, <1>3 DEF Links, Covers
<1>5. BlocksOnce'
  <2> SUFFICES ASSUME NEW i \in Inode, NEW j \in Inode, NEW k \in DOMAIN inodes'[i].direct,
                      NEW l \in DOMAIN inodes'[j].direct,
                      inodes'[i].direct[k] = inodes'[j].direct[l]
               PROVE  i = j /\ k = l
    BY DEF BlocksOnce
  <2>1. CASE i = op.inode /\ j = op.inode
    BY <2>1
  <2>2. CASE i # op.inode /\ j # op.inode
    BY <2>2 DEF Links, BlocksOnce
  <2>3. CASE i = op.inode /\ j # op.inode
    BY <2>3 DEF Points
  <2>4. CASE i # op.inode /\ j = op.inode
    BY <2>4 DEF Points
  <2> QED
    BY <2>1, <2>2, <2>3, <2>4
<1> QED
  BY <1>2, <1>4, <1>5 DEF Links

\* A write that leaves a block without entries.
LEMMA LinksErased ==
    ASSUME Links, UNCHANGED <<inodes, fs, mounted>>, unsaved' = TRUE,
           NEW b \in Block, contents'[b].entries = <<>>,
           \A c \in Block : c # b => contents'[c] = contents[c]
    PROVE  Links' /\ \A i \in Inode : Named(i)' => Named(i)
<1>1. \A c \in Block : DOMAIN contents'[c].entries = {} \/ contents'[c] = contents[c]
  OBVIOUS
<1>2. \A i \in Inode : Named(i)' => Named(i)
  BY <1>1 DEF Named
<1>3. NamesOnce'
  BY <1>1 DEF Links, NamesOnce
<1>4. BlocksOnce'
  BY DEF Links, BlocksOnce
<1>5. (mounted => Covers(fs))'
  BY <1>2 DEF Links, Covers, Points
<1> QED
  BY <1>2, <1>3, <1>4, <1>5 DEF Links

\* A write of a new entry for an inode without a name.
LEMMA LinksNamed ==
    ASSUME Links, DiskRule, UNCHANGED <<inodes, fs, mounted>>, unsaved' = TRUE,
           NEW b \in Block, NEW e \in Entry, contents'[b].entries = Append(contents[b].entries, e),
           \A c \in Block : c # b => contents'[c] = contents[c],
           e.inode = op.inode, op.inode \in Inode, op.inode \in fs.inodes, ~Named(op.inode)
    PROVE  Links' /\ \A i \in Inode : Named(i)' => Named(i) \/ i = op.inode
<1>1. /\ contents[b].entries \in Seq(Entry)
      /\ DOMAIN contents[b].entries = 1 .. Len(contents[b].entries)
      /\ Len(contents[b].entries) \in Nat
  BY DEF DiskRule
<1> DEFINE n == Len(contents[b].entries) + 1
           Old(c, k) == k \in DOMAIN contents[c].entries
                        /\ contents'[c].entries[k] = contents[c].entries[k]
           New(c, k) == c = b /\ k = n /\ contents'[c].entries[k].inode = op.inode
<1>2. /\ DOMAIN contents'[b].entries = 1 .. n
      /\ contents'[b].entries[n] = e
      /\ \A k \in 1 .. Len(contents[b].entries) :
            contents'[b].entries[k] = contents[b].entries[k]
  BY <1>1, AppendProperties
<1>3. ASSUME NEW c \in Block, NEW k \in DOMAIN contents'[c].entries
      PROVE  Old(c, k) \/ New(c, k)
  <2>1. CASE c = b
    <3>0. k \in 1 .. n
      BY <1>2, <2>1
    <3>1. k = n \/ k \in 1 .. Len(contents[b].entries)
      <4>1. Len(contents[b].entries) \in Nat
        BY <1>1
      <4> QED
        BY <3>0, <4>1
    <3> QED
      BY <1>1, <1>2, <2>1, <3>1
  <2>2. CASE c # b
    BY <2>2
  <2> QED
    BY <2>1, <2>2
<1> HIDE DEF n
<1>4. \A c \in Block : \A k : Old(c, k) => contents'[c].entries[k].inode # op.inode
  BY DEF Named
<1>5. NamesOnce'
  <2> SUFFICES ASSUME NEW c \in Block, NEW g \in Block, NEW k \in DOMAIN contents'[c].entries,
                      NEW l \in DOMAIN contents'[g].entries,
                      contents'[c].entries[k].inode = contents'[g].entries[l].inode
               PROVE  c = g /\ k = l
    BY DEF NamesOnce
  <2>1. CASE Old(c, k) /\ Old(g, l)
    BY <2>1 DEF Links, NamesOnce
  <2>2. CASE New(c, k) /\ New(g, l)
    BY <2>2
  <2> QED
    BY <1>3, <1>4, <2>1, <2>2
<1>6. \A i \in Inode : Named(i)' => Named(i) \/ i = op.inode
  BY <1>3 DEF Named
<1>7. BlocksOnce'
  BY DEF Links, BlocksOnce
<1>8. (mounted => Covers(fs))'
  BY <1>6 DEF Links, Covers, Points
<1> QED
  BY <1>5, <1>6, <1>7, <1>8 DEF Links

\* What a call holds while it goes on to write a new inode and its entry.
LEMMA HeldNew ==
    ASSUME CallShape, Held, NEW h \in {"write_inode", "write_dir_inode", "write_dir"}, At(h),
           GoesOn(op), op.inode \in Inode, fs' = fs, \A i \in Inode : Named(i)' => Named(i)
    PROVE  Held'
<1>1. ASSUME NEW steps, AtAny(steps)'
      PROVE  op'.inode = op.inode /\ \E k \in steps : Follows(h, k)
  <2>1. op' = Idle \/ op'.todo = Tail(op.todo)
    BY DEF GoesOn
  <2>2. op' # Idle
    BY <1>1 DEF AtAny, Idle
  <2> QED
    BY <1>1, <2>1, <2>2, NextStep DEF GoesOn
<1>2. ~AtAny(BlankSteps)' /\ ~AtAny(BlockSteps)' /\ ~AtAny(DataSteps)'
  <2>1. \A k : Follows(h, k) => k \in {"write_dir", "add_dirent"}
    BY DEF Follows
  <2> QED
    BY <1>1, <2>1 DEF BlankSteps, BlockSteps, DataSteps
<1>3. AtAny(InodeSteps)
  BY DEF At, AtAny, InodeSteps, BlankSteps
<1>4. ~Named(op.inode) /\ op.inode \in fs.inodes /\ op.inode # ROOT_INODE
  BY <1>3 DEF Held, NewInode
<1> QED
  BY <1>1, <1>2, <1>4 DEF Held, NewInode, NewBlocks, OpenFile

\* A call that goes on to the bitmaps, or is over, holds nothing.
LEMMA HeldNothing ==
    ASSUME op'.todo # <<>> =>
               Head(op'.todo) \in {"block_bitmap", "inode_bitmap", "superblock", "remove"}
    PROVE  Held'
BY DEF Held, NewInode, NewBlocks, OpenFile, AtAny, InodeSteps, BlankSteps, BlockSteps, DataSteps

\* The calls that go on to the bitmaps.
LEMMA ToBitmaps ==
    ASSUME CallShape, op' = Idle \/ op'.todo = Tail(op.todo),
           NEW h \in {"add_dirent", "write_file_inode", "block_bitmap", "inode_bitmap", "superblock"},
           At(h)
    PROVE  Held'
<1>1. ASSUME op'.todo # <<>>
      PROVE  Head(op'.todo) \in {"block_bitmap", "inode_bitmap", "superblock", "remove"}
  <2>1. Follows(h, Head(op'.todo))
    BY <1>1, InOrder DEF At
  <2> QED
    BY <2>1 DEF Follows
<1> QED
  BY <1>1, HeldNothing

\* What a call holds after an allocation.
LEMMA HeldAlloc ==
    ASSUME ShapeInv, Untorn, mounted, UNCHANGED <<inodes, contents>>, DiskRule,
           alloc_inode \/ alloc_block, op' # Idle
    PROVE  Held'
<1>s. CallShape /\ Covers(fs) /\ NewInode /\ NewBlocks /\ OpenFile
  BY DEF ShapeInv, Untorn, Links, Held
<1>u. \A i : (Named(i)' <=> Named(i)) /\ \A b : Points(i, b)' <=> Points(i, b)
  BY DEF Named, Points
<1>1. CASE alloc_inode
  <2>1. PICK i \in Inode :
          /\ i \notin fs.inodes /\ fs'.inodes = fs.inodes \cup {i} /\ fs'.blocks = fs.blocks
          /\ op'.todo = Tail(op.todo)
          /\ op'.inode = i /\ op'.blocks = op.blocks /\ op'.write = op.write
    BY <1>1, AllocInodeDoes
  <2>2. At("alloc_inode") /\ AtAny(BlockSteps)
    BY <1>1 DEF alloc_inode, At, AtAny, BlockSteps
  <2>3. ~Named(i) /\ inodes[i].type = "unknown" /\ i # ROOT_INODE
    BY <1>s, <2>1 DEF Covers
  <2>4. NewInode'
    BY <1>u, <2>1, <2>3 DEF NewInode
  <2>5. ~op.write
    BY <1>1, AllocInodeDoes DEF FileCall, DirCall
  <2>6. \A k \in DOMAIN op.blocks : \A j \in Inode : ~Points(j, op.blocks[k])
    BY <1>s, <2>2, <2>5 DEF NewBlocks
  <2>7. NewBlocks'
    BY <1>s, <1>u, <2>1, <2>2, <2>6 DEF NewBlocks
  <2>8. OpenFile'
    <3> SUFFICES ASSUME AtAny(DataSteps)' PROVE FALSE
      BY DEF OpenFile
    <3>1. \E k \in DataSteps : Follows("alloc_inode", k)
      BY <1>s, <2>1, <2>2, NextStep
    <3> QED
      BY <3>1 DEF Follows, DataSteps
  <2> QED
    BY <2>4, <2>7, <2>8 DEF Held
<1>2. CASE alloc_block
  <2>1. PICK b \in Block :
          /\ b \notin fs.blocks /\ fs'.blocks = fs.blocks \cup {b} /\ fs'.inodes = fs.inodes
          /\ op'.todo = Tail(op.todo) /\ op'.blocks = Append(op.blocks, b)
          /\ op'.inode = op.inode /\ op'.write = op.write /\ op.blocks \in Seq(Block)
    BY <1>2, AllocBlockDoes DEF OpRecord
  <2>2. At("alloc_block") /\ AtAny(BlockSteps) /\ AtAny(InodeSteps) /\ AtAny(BlankSteps)
    BY <1>2 DEF alloc_block, At, AtAny, BlockSteps, InodeSteps, BlankSteps
  <2>3. \A i \in Inode : ~Points(i, b)
    BY <1>s, <2>1 DEF Covers
  <2>4. NewInode'
    BY <1>s, <1>u, <2>1, <2>2 DEF NewInode
  <2>5. /\ \A k, l \in DOMAIN op.blocks : op.blocks[k] = op.blocks[l] => k = l
        /\ \A k \in DOMAIN op.blocks :
            /\ op.blocks[k] \in fs.blocks
            /\ \A i \in Inode : Points(i, op.blocks[k]) => op.write /\ i = op.inode
    BY <1>s, <2>2 DEF NewBlocks
  <2>6. ASSUME NEW k \in DOMAIN op'.blocks
        PROVE  \/ k \in DOMAIN op.blocks /\ op'.blocks[k] = op.blocks[k]
               \/ k = Len(op.blocks) + 1 /\ op'.blocks[k] = b
    BY <2>1, AppendProperties
  <2>7. ASSUME NEW k \in DOMAIN op'.blocks, NEW l \in DOMAIN op'.blocks,
               op'.blocks[k] = op'.blocks[l]
        PROVE  k = l
    BY <2>1, <2>5, <2>6, <2>7
  <2>8. ASSUME NEW k \in DOMAIN op'.blocks
        PROVE  /\ op'.blocks[k] \in fs'.blocks
               /\ \A i \in Inode : Points(i, op.blocks[k])' => op'.write /\ i = op'.inode
    <3>1. CASE k \in DOMAIN op.blocks /\ op'.blocks[k] = op.blocks[k]
      <4>1. PICK x : x = op'.blocks[k]
        OBVIOUS
      <4>2. \A i \in Inode : Points(i, x) => op.write /\ i = op.inode
        BY <2>5, <3>1, <4>1
      <4> QED
        BY <1>u, <2>1, <2>5, <3>1, <4>1, <4>2 DEF Points
    <3>2. CASE op'.blocks[k] = b
      BY <2>1, <2>3, <3>2 DEF Points
    <3> QED
      BY <2>6, <3>1, <3>2
  <2>9. NewBlocks'
    BY <2>7, <2>8 DEF NewBlocks
  <2>10. OpenFile'
    <3> SUFFICES ASSUME AtAny(DataSteps)' PROVE FALSE
      BY DEF OpenFile
    <3>1. \E k \in DataSteps : Follows("alloc_block", k)
      BY <1>s, <2>1, <2>2, NextStep
    <3> QED
      BY <3>1 DEF Follows, DataSteps
  <2> QED
    BY <2>4, <2>9, <2>10 DEF Held
<1> QED
  BY <1>1, <1>2

\* What a call holds once the file is open.
LEMMA HeldOpen ==
    ASSUME ShapeInv, Untorn, mounted, UNCHANGED <<inodes, contents, fs>>, DiskRule, FindFile, op' # Idle
    PROVE  Held'
<1>s. CallShape /\ Covers(fs) /\ BlocksOnce /\ NewBlocks
  BY DEF ShapeInv, Untorn, Links, Held
<1>1. /\ WriteCall /\ Left = Len(op.buffer) + 5
      /\ op.blocks \in Seq(Block) /\ Len(op.blocks) = Len(op.buffer) /\ Len(op.buffer) \in Nat
      /\ op'.todo = Tail(op.todo) /\ op'.write = TRUE
      /\ op'.inode \in Inode /\ inodes[op'.inode].type = "file"
      /\ op'.blocks = Extended(inodes[op'.inode].direct, op.blocks, Len(op.buffer))
  BY FindFileDoes
<1>2. At("find_file") /\ AtAny(BlockSteps)
  BY DEF FindFile, At, AtAny, BlockSteps
<1>3. ASSUME NEW steps, AtAny(steps)' PROVE \E k \in steps : Follows("find_file", k)
  BY <1>s, <1>1, <1>2, <1>3, NextStep
<1>4. NewInode'
  <2>1. ~AtAny(InodeSteps)' /\ ~AtAny(BlankSteps)'
    BY <1>3 DEF InodeSteps, BlankSteps, Follows
  <2> QED
    BY <2>1 DEF NewInode
<1>5. ~op.write
  BY <1>1 DEF WriteCall
<1>6. /\ \A k, l \in DOMAIN op.blocks : op.blocks[k] = op.blocks[l] => k = l
      /\ \A k \in DOMAIN op.blocks :
            op.blocks[k] \in fs.blocks /\ \A j \in Inode : ~Points(j, op.blocks[k])
  BY <1>s, <1>2, <1>5 DEF NewBlocks
<1> DEFINE i == op'.inode
           d == inodes[op'.inode].direct
<1>7. d \in Seq(Block) /\ DOMAIN d = 1 .. Len(d) /\ \A k \in DOMAIN d : d[k] \in Block
  BY <1>1 DEF DiskRule
<1>8. ASSUME NEW k \in DOMAIN op'.blocks
      PROVE  \/ k \in DOMAIN d /\ op'.blocks[k] = d[k]
             \/ /\ k - Len(d) \in DOMAIN op.blocks /\ op'.blocks[k] = op.blocks[k - Len(d)]
                /\ k \in Nat /\ Len(d) \in Nat
  <2>1. op'.blocks = Extended(d, op.blocks, Len(op.buffer))
    BY <1>1
  <2> HIDE DEF d
  <2>2. /\ k \in Nat /\ k >= 1 /\ Len(d) \in Nat
        /\ k <= Len(d) => op'.blocks[k] = d[k]
        /\ k > Len(d) =>
            k - Len(d) \in DOMAIN op.blocks /\ op'.blocks[k] = op.blocks[k - Len(d)]
    BY <1>1, <1>7, <2>1, ExtendedIs
  <2>3. k <= Len(d) => k \in DOMAIN d
    BY <1>7, <2>2
  <2> QED
    BY <2>2, <2>3
<1>9. \A k \in DOMAIN d : Points(i, d[k]) /\ \A j \in Inode : Points(j, d[k]) => j = i
  BY <1>s, <1>1 DEF Points, BlocksOnce
<1>10. \A k, l \in DOMAIN d : d[k] = d[l] => k = l
  BY <1>s, <1>1 DEF BlocksOnce
<1>11. \A k \in DOMAIN d : d[k] \in fs.blocks
  BY <1>s, <1>1, <1>7, <1>9 DEF Covers
<1>u. \A j, b : Points(j, b)' <=> Points(j, b)
  BY DEF Points
<1> HIDE DEF i, d
<1>12. ASSUME NEW k \in DOMAIN op'.blocks, NEW l \in DOMAIN op'.blocks,
              op'.blocks[k] = op'.blocks[l]
       PROVE  k = l
  <2>1. i \in Inode
    BY <1>1 DEF i
  <2>2. CASE k \in DOMAIN d /\ op'.blocks[k] = d[k] /\ l \in DOMAIN d /\ op'.blocks[l] = d[l]
    BY <1>10, <1>12, <2>2
  <2>3. ASSUME NEW x \in DOMAIN d, NEW y \in DOMAIN op.blocks, d[x] = op.blocks[y] PROVE FALSE
    BY <1>6, <1>9, <2>1, <2>3
  <2>4. CASE /\ k - Len(d) \in DOMAIN op.blocks /\ op'.blocks[k] = op.blocks[k - Len(d)]
             /\ l - Len(d) \in DOMAIN op.blocks /\ op'.blocks[l] = op.blocks[l - Len(d)]
             /\ k \in Nat /\ l \in Nat /\ Len(d) \in Nat
    <3>1. k - Len(d) = l - Len(d)
      BY <1>6, <1>12, <2>4
    <3> QED
      BY <2>4, <3>1
  <2> QED
    BY <1>8, <1>12, <2>2, <2>3, <2>4
<1>13. ASSUME NEW k \in DOMAIN op'.blocks
       PROVE  /\ op'.blocks[k] \in fs'.blocks
              /\ \A j \in Inode : Points(j, op.blocks[k])' => op'.write /\ j = op'.inode
  <2>1. PICK x : x = op'.blocks[k]
    OBVIOUS
  <2>2. x \in fs.blocks /\ \A j \in Inode : Points(j, x) => j = i
    BY <1>6, <1>8, <1>9, <1>11, <2>1
  <2>3. \A j \in Inode : Points(j, x)' => j = i
    BY <2>2 DEF Points
  <2> QED
    BY <1>1, <2>1, <2>2, <2>3 DEF i, Points
<1>14. NewBlocks'
  BY <1>12, <1>13 DEF NewBlocks
<1>15. OpenFile'
  BY <1>1 DEF OpenFile
<1> QED
  BY <1>4, <1>14, <1>15 DEF Held

\* What a call holds between other steps stays the same.
LEMMA HeldSame ==
    ASSUME CallShape, Held, NEW h \in {"find_dir", "write_data"}, At(h), op'.todo = Tail(op.todo),
           op'.inode = op.inode, op'.blocks = op.blocks, op'.write = op.write,
           UNCHANGED <<inodes, fs>>, \A i \in Inode : Named(i)' => Named(i)
    PROVE  Held'
<1>1. ASSUME NEW steps, AtAny(steps)' PROVE \E k \in steps : Follows(h, k)
  BY <1>1, NextStep
<1>u. \A i, b : Points(i, b)' <=> Points(i, b)
  BY DEF Points
<1>2. CASE h = "find_dir"
  <2>1. AtAny(InodeSteps) /\ AtAny(BlankSteps) /\ AtAny(BlockSteps)
    BY <1>2 DEF At, AtAny, InodeSteps, BlankSteps, BlockSteps
  <2>2. ~AtAny(DataSteps)'
    BY <1>1, <1>2 DEF Follows, DataSteps
  <2> QED
    BY <1>u, <2>1, <2>2 DEF Held, NewInode, NewBlocks, OpenFile
<1>3. CASE h = "write_data"
  <2>1. AtAny(BlockSteps) /\ AtAny(DataSteps)
    BY <1>3 DEF At, AtAny, BlockSteps, DataSteps
  <2>2. ~AtAny(InodeSteps)' /\ ~AtAny(BlankSteps)'
    BY <1>1, <1>3 DEF Follows, InodeSteps, BlankSteps
  <2> QED
    BY <1>u, <2>1, <2>2 DEF Held, NewInode, NewBlocks, OpenFile
<1> QED
  BY <1>2, <1>3

\* A call that begins holds nothing.
LEMMA HeldBegin ==
    ASSUME NEW todo, NEW path, NEW buffer, Begin(todo, path, buffer), Head(op'.todo) \in FirstSteps
    PROVE  Held'
<1>1. op' = [todo |-> todo, path |-> path, buffer |-> buffer, blocks |-> <<>>,
             inode |-> None, dir |-> None, write |-> FALSE]
  BY DEF Begin
<1>2. op'.inode = None /\ op'.blocks = <<>>
  BY <1>1
<1>3. op'.inode \notin Inode /\ DOMAIN op'.blocks = {}
  BY <1>2, ConstFacts
<1>4. ~AtAny(DataSteps)'
  BY DEF AtAny, FirstSteps, DataSteps
<1> QED
  BY <1>3, <1>4 DEF Held, NewInode, NewBlocks, OpenFile

\* Every step keeps it unless a call is torn.
LEMMA CrossStep == CrossInv /\ [Next]_vars => CrossInv'
<1> SUFFICES ASSUME CrossInv, [Next]_vars, ~torn' PROVE Links' /\ Held'
  BY FreeStep DEF CrossInv, Untorn
<1>s. ShapeInv /\ SyncOrder /\ CallShape /\ DiskTypes /\ DiskRule /\ (~torn => Links /\ Held)
  BY DiskIs DEF CrossInv, FreeInv, ShapeInv, Untorn
<1>s1. DiskRule'
  BY <1>s, ShapeStep, DiskIsNext DEF ShapeInv
<1>0. ASSUME UNCHANGED <<inodes, contents, saved, fs, mounted, unsaved, torn>> PROVE Links'
  BY <1>s, <1>0, LinksKept
<1>v. ASSUME NEW h \in {"add_dirent", "write_file_inode", "block_bitmap", "inode_bitmap",
                       "superblock"}, At(h), GoesOn(op)
      PROVE  Held'
  BY <1>s, <1>v, ToBitmaps DEF GoesOn
<1>i. op' = Idle => Held'
  <2>1. op' = Idle => op'.todo = <<>>
    BY DEF Idle
  <2> QED
    BY <2>1, HeldNothing
<1>1. ASSUME NEW path \in Paths, create_file(path) PROVE Links' /\ Held'
  <2>1. Links'
    BY <1>0, <1>1, CreateFileDoes DEF disk
  <2>2. Head(op'.todo) \in FirstSteps
    BY <1>1, CreateFileDoes, BeginsAt
  <2> QED
    BY <1>1, <2>1, <2>2, HeldBegin DEF create_file
<1>2. ASSUME NEW path \in Paths, create_dir(path) PROVE Links' /\ Held'
  <2>1. Links'
    BY <1>0, <1>2, CreateDirDoes DEF disk
  <2>2. Head(op'.todo) \in FirstSteps
    BY <1>2, CreateDirDoes, BeginsAt
  <2> QED
    BY <1>2, <2>1, <2>2, HeldBegin DEF create_dir
<1>3. ASSUME NEW path \in Paths, NEW buffer \in Buffers, write_file(path, buffer)
      PROVE  Links' /\ Held'
  <2>1. Links'
    BY <1>0, <1>3, WriteFileDoes DEF disk
  <2>2. Head(op'.todo) \in FirstSteps
    BY <1>3, WriteFileDoes, BeginsAt
  <2> QED
    BY <1>3, <2>1, <2>2, HeldBegin DEF write_file
<1>4. CASE sync \/ unmount
  <2>1. Links'
    BY <1>0, <1>4, SyncDoes DEF disk
  <2>2. Head(op'.todo) \in FirstSteps
    BY <1>4, SyncDoes, BeginsAt
  <2> QED
    BY <1>4, <2>1, <2>2, HeldBegin DEF sync, unmount
<1>5. CASE alloc_inode \/ alloc_block
  <2>1. /\ UNCHANGED <<inodes, contents, saved, mounted, unsaved, torn>> /\ mounted
        /\ fs.inodes \subseteq fs'.inodes /\ fs.blocks \subseteq fs'.blocks
    BY <1>s, <1>5, AllocInodeDoes, AllocBlockDoes DEF disk
  <2>2. Links /\ Held
    BY <1>s, <2>1
  <2>3. Links'
    BY <2>1, <2>2, LinksKept
  <2>4. Held'
    BY <1>s, <1>5, <1>i, <2>1, <2>2, HeldAlloc DEF Untorn
  <2> QED
    BY <2>3, <2>4
<1>6. CASE FindDir
  <2>1. UNCHANGED <<inodes, contents, saved, fs, mounted, unsaved, torn>> /\ Links /\ Held
    BY <1>s, <1>6, FindDirDoes DEF disk
  <2>2. At("find_dir") /\ \A i \in Inode : Named(i)' => Named(i)
    BY <1>6, <2>1 DEF FindDir, Named
  <2>3. Held'
    <3>1. CASE op' = Idle
      BY <1>i, <3>1
    <3>2. CASE op' # Idle
      <4>1. /\ op'.todo = Tail(op.todo) /\ op'.inode = op.inode /\ op'.blocks = op.blocks
            /\ op'.write = op.write
        BY <1>s, <1>6, <3>2, FindDirDoes
      <4> QED
        BY <1>s, <2>1, <2>2, <4>1, HeldSame
    <3> QED
      BY <3>1, <3>2
  <2> QED
    BY <1>0, <2>1, <2>3
<1>7. CASE FindFile
  <2>1. /\ UNCHANGED <<inodes, contents, saved, fs, mounted, unsaved, torn>>
        /\ Links /\ Held /\ mounted
    BY <1>s, <1>7, FindFileDoes DEF disk
  <2>2. Held'
    BY <1>s, <1>7, <1>i, <2>1, HeldOpen DEF Untorn
  <2> QED
    BY <1>0, <2>1, <2>2
<1>8. CASE WriteNewFile
  <2>1. /\ FileInode \in InodeRecord /\ FileInode.size <= Len(FileInode.direct)
        /\ FileInode.direct = <<>> /\ op.inode \in Inode
    BY <1>s, <1>8, NewFileArgs
  <2>2. WriteInode("write_inode", FileInode) /\ At("write_inode")
    BY <1>8 DEF WriteNewFile, WriteInode
  <2>3. /\ UNCHANGED <<contents, fs, mounted, torn>> /\ unsaved' = TRUE /\ mounted
        /\ GoesOn(op) /\ inodes'[op.inode] = FileInode
        /\ \A j \in Inode : j # op.inode => inodes'[j] = inodes[j]
    BY <1>s, <2>1, <2>2, WriteInodeDoes
  <2>4. Links /\ Held
    BY <1>s, <2>3
  <2>5. op.inode \in fs.inodes
    BY <2>1, <2>2, <2>4 DEF Held, NewInode, At, AtAny, InodeSteps, BlankSteps
  <2>6. Links'
    <3>1. inodes'[op.inode].direct = <<>> /\ DOMAIN <<>> = {}
      BY <2>1, <2>3
    <3> QED
      BY <1>s, <1>s1, <2>1, <2>3, <2>4, <2>5, <3>1, LinksInode
  <2>7. \A i \in Inode : Named(i)' => Named(i)
    BY <2>3 DEF Named
  <2>8. Held'
    BY <1>s, <2>1, <2>2, <2>3, <2>4, <2>7, HeldNew
  <2> QED
    BY <2>6, <2>8
<1>9. CASE WriteNewDir
  <2>1. PICK rec \in InodeRecord :
          /\ DirCall /\ rec = DirInode(op.blocks[1]) /\ rec.size <= Len(rec.direct)
          /\ op.blocks \in Seq(Block) /\ Len(op.blocks) = 1
          /\ rec.direct \in Seq(Block) /\ Len(rec.direct) = 1 /\ rec.direct[1] = op.blocks[1]
          /\ op.inode \in Inode
    BY <1>s, <1>9, NewDirArgs
  <2>2. WriteInode("write_dir_inode", rec) /\ At("write_dir_inode")
    BY <1>9, <2>1 DEF WriteNewDir, WriteInode
  <2>3. /\ UNCHANGED <<contents, fs, mounted, torn>> /\ unsaved' = TRUE /\ mounted
        /\ GoesOn(op) /\ inodes'[op.inode] = rec
        /\ \A j \in Inode : j # op.inode => inodes'[j] = inodes[j]
    BY <1>s, <2>1, <2>2, WriteInodeDoes
  <2>4. Links /\ Held
    BY <1>s, <2>3
  <2>5. op.inode \in fs.inodes
    BY <2>1, <2>2, <2>4 DEF Held, NewInode, At, AtAny, InodeSteps, BlankSteps
  <2>6. Links'
    <3> DEFINE d == rec.direct
    <3>1. inodes'[op.inode].direct = d
      BY <2>3
    <3>2. DOMAIN op.blocks = {1} /\ DOMAIN d = {1} /\ d[1] = op.blocks[1]
      BY <2>1
    <3>3. /\ op.blocks[1] \in fs.blocks
          /\ \A i \in Inode : Points(i, op.blocks[1]) => i = op.inode
      BY <2>2, <2>4, <3>2 DEF Held, NewBlocks, At, AtAny, BlockSteps
    <3> HIDE DEF d
    <3>4. /\ \A k, l \in DOMAIN d : d[k] = d[l] => k = l
          /\ \A k \in DOMAIN d :
                d[k] \in fs.blocks /\ \A i \in Inode : Points(i, d[k]) => i = op.inode
      BY <3>2, <3>3
    <3> QED
      BY <1>s, <1>s1, <2>1, <2>3, <2>4, <2>5, <3>1, <3>4, LinksInode
  <2>7. \A i \in Inode : Named(i)' => Named(i)
    BY <2>3 DEF Named
  <2>8. Held'
    BY <1>s, <2>1, <2>2, <2>3, <2>4, <2>7, HeldNew
  <2> QED
    BY <2>6, <2>8
<1>10. CASE WriteFileInode
  <2>1. PICK rec \in InodeRecord :
          /\ rec = [type |-> "file", direct |-> op.blocks, size |-> Len(op.buffer)]
          /\ rec.size <= Len(rec.direct) /\ rec.direct = op.blocks /\ op.inode \in Inode
    BY <1>s, <1>10, FileInodeArgs
  <2>2. WriteInode("write_file_inode", rec) /\ At("write_file_inode")
    BY <1>10, <2>1 DEF WriteFileInode, WriteInode
  <2>3. /\ UNCHANGED <<contents, fs, mounted, torn>> /\ unsaved' = TRUE /\ mounted
        /\ GoesOn(op) /\ inodes'[op.inode] = rec
        /\ \A j \in Inode : j # op.inode => inodes'[j] = inodes[j]
    BY <1>s, <2>1, <2>2, WriteInodeDoes
  <2>4. Links /\ Held
    BY <1>s, <2>3
  <2>5. op.inode \in fs.inodes
    <3>1. inodes[op.inode].type = "file"
      BY <2>2, <2>4 DEF Held, OpenFile, At, AtAny, DataSteps
    <3> QED
      BY <2>1, <2>3, <2>4, <3>1 DEF Links, Covers
  <2>6. Links'
    <3>1. inodes'[op.inode].direct = op.blocks
      BY <2>1, <2>3
    <3>2. /\ \A k, l \in DOMAIN op.blocks : op.blocks[k] = op.blocks[l] => k = l
          /\ \A k \in DOMAIN op.blocks :
                /\ op.blocks[k] \in fs.blocks
                /\ \A i \in Inode : Points(i, op.blocks[k]) => i = op.inode
      BY <2>2, <2>4 DEF Held, NewBlocks, At, AtAny, BlockSteps
    <3> QED
      BY <1>s, <1>s1, <2>1, <2>3, <2>4, <2>5, <3>1, <3>2, LinksInode
  <2>7. Held'
    BY <1>v, <2>2, <2>3
  <2> QED
    BY <2>6, <2>7
<1>11. CASE WriteDirBlock
  <2>1. /\ op.blocks[1] \in Block /\ EmptyDir \in Content /\ Len(EmptyDir.entries) <= DirSlots
        /\ EmptyDir.entries = <<>> /\ op.inode \in Inode
    BY <1>s, <1>11, DirBlockArgs
  <2>b. PICK b \in Block : b = op.blocks[1]
    BY <2>1
  <2>2. WriteContents("write_dir", b, EmptyDir) /\ At("write_dir")
    BY <1>11, <2>b DEF WriteDirBlock, WriteContents
  <2>3. /\ UNCHANGED <<inodes, fs, mounted, torn>> /\ unsaved' = TRUE
        /\ GoesOn(op) /\ contents'[b] = EmptyDir
        /\ \A c \in Block : c # b => contents'[c] = contents[c]
    BY <1>s, <2>1, <2>2, WriteContentsDoes
  <2>4. Links /\ Held
    BY <1>s, <2>3
  <2>5. Links' /\ \A i \in Inode : Named(i)' => Named(i)
    BY <2>1, <2>3, <2>4, LinksErased
  <2>6. Held'
    BY <1>s, <2>1, <2>2, <2>3, <2>4, <2>5, HeldNew
  <2> QED
    BY <2>5, <2>6
<1>12. CASE AddDirent
  <2>1. op.inode \in Inode /\ At("add_dirent")
    BY <1>s, <1>12, DirentArgs DEF AddDirent
  <2>2. CASE op' = Idle /\ UNCHANGED <<disk, fs, mounted, faults, acked, unsaved, torn>>
    BY <1>0, <1>i, <2>2 DEF disk
  <2>3. ASSUME NEW b \in Block, NEW e \in Entry, NEW c \in Content, e.inode = op.inode,
               c.entries = Append(contents[b].entries, e), Len(c.entries) <= DirSlots,
               WriteContents("add_dirent", b, c)
        PROVE  Links' /\ Held'
    <3>1. /\ UNCHANGED <<inodes, fs, mounted, torn>> /\ unsaved' = TRUE
          /\ GoesOn(op) /\ contents'[b] = c
          /\ \A x \in Block : x # b => contents'[x] = contents[x]
      BY <1>s, <2>3, WriteContentsDoes
    <3>2. Links /\ Held
      BY <1>s, <3>1
    <3>3. ~Named(op.inode) /\ op.inode \in fs.inodes
      BY <2>1, <3>2 DEF Held, NewInode, At, AtAny, InodeSteps
    <3>4. Links'
      BY <1>s, <2>1, <2>3, <3>1, <3>2, <3>3, LinksNamed
    <3>5. Held'
      BY <1>v, <2>1, <3>1
    <3> QED
      BY <3>4, <3>5
  <2> QED
    BY <1>s, <1>12, <2>2, <2>3, DirentArgs
<1>13. CASE WriteData
  <2>1. PICK k \in 1 .. Len(op.buffer) :
          /\ op.blocks[k] \in Block /\ DataBlock(op.buffer[k]) \in Content
          /\ DataBlock(op.buffer[k]).entries = <<>>
          /\ Len(DataBlock(op.buffer[k]).entries) <= DirSlots
          /\ WriteContents("write_data", op.blocks[k], DataBlock(op.buffer[k]))
          /\ Left >= 5 /\ Left \in Nat
    <3>1. Len(op.buffer) \in Nat
      BY <1>s, <1>13, DataArgs
    <3>2. \A m \in Int : m \in 5 .. Len(op.buffer) + 4 => m >= 5 /\ m \in Nat
      BY <3>1
    <3> QED
      BY <1>s, <1>13, <3>2, DataArgs
  <2>2. /\ UNCHANGED <<inodes, fs, mounted, torn>> /\ unsaved' = TRUE
        /\ GoesOn(op) /\ contents'[op.blocks[k]] = DataBlock(op.buffer[k])
        /\ \A c \in Block : c # op.blocks[k] => contents'[c] = contents[c]
    BY <1>s, <2>1, WriteContentsDoes
  <2>3. Links /\ Held
    BY <1>s, <2>2
  <2>4. Links' /\ \A i \in Inode : Named(i)' => Named(i)
    BY <2>1, <2>2, <2>3, LinksErased
  <2>5. At("write_data")
    BY <2>1 DEF WriteContents
  <2>6. /\ op'.todo = Tail(op.todo) /\ op'.inode = op.inode /\ op'.blocks = op.blocks
        /\ op'.write = op.write
    BY <2>1, <2>2 DEF GoesOn
  <2>7. Held'
    BY <1>s, <2>2, <2>3, <2>4, <2>5, <2>6, HeldSame
  <2> QED
    BY <2>4, <2>7
<1>14. CASE SyncBlockBitmap \/ SyncInodeBitmap \/ SyncSuperblock
  <2>1. UNCHANGED <<inodes, contents, fs, mounted, torn>> /\ GoesOn(op) /\ mounted
    BY <1>s, <1>14, SyncStepDoes
  <2>2. At("block_bitmap") \/ At("inode_bitmap") \/ At("superblock")
    BY <1>14 DEF SyncBlockBitmap, SyncInodeBitmap, SyncSuperblock
  <2>3. Held'
    BY <1>v, <2>1, <2>2
  <2>4. Links
    BY <1>s, <2>1
  <2>5. CASE SyncBlockBitmap \/ SyncSuperblock
    <3>1. /\ saved'.inodes = saved.inodes /\ unsaved' = unsaved
          /\ saved'.blocks = saved.blocks \/ saved'.blocks = fs.blocks
      BY <1>s, <2>5, SyncStepDoes
    <3>2. saved.blocks \subseteq saved'.blocks
      BY <1>s, <2>1, <3>1 DEF SyncOrder
    <3> QED
      BY <2>1, <2>3, <2>4, <3>1, <3>2, LinksKept
  <2>6. CASE SyncInodeBitmap
    <3>1. saved'.blocks = saved.blocks /\ saved'.inodes = fs.inodes /\ saved.blocks = fs.blocks
      BY <1>s, <2>6, SyncStepDoes DEF SyncOrder
    <3>2. \A i : (Named(i)' <=> Named(i)) /\ \A b : Points(i, b)' <=> Points(i, b)
      BY <2>1 DEF Named, Points
    <3>3. Covers(fs)' /\ Covers(saved)'
      BY <2>1, <2>4, <3>1, <3>2 DEF Links, Covers
    <3>4. NamesOnce' /\ BlocksOnce'
      BY <2>1, <2>4 DEF Links, NamesOnce, BlocksOnce
    <3> QED
      BY <2>3, <3>3, <3>4 DEF Links
  <2> QED
    BY <1>14, <2>5, <2>6
<1>15. CASE Unmounted \/ mount \/ Crash
  <2>1. /\ UNCHANGED <<inodes, contents, saved>> /\ op' = Idle /\ torn' = (torn \/ unsaved)
        /\ mounted' => fs' = saved
    BY <1>s, <1>15, DropDoes DEF disk
  <2>2. ~torn /\ ~unsaved
    BY <2>1
  <2>3. \A i : (Named(i)' <=> Named(i)) /\ \A b : Points(i, b)' <=> Points(i, b)
    BY <2>1 DEF Named, Points
  <2>4. NamesOnce' /\ BlocksOnce'
    BY <1>s, <2>1, <2>2 DEF Links, NamesOnce, BlocksOnce
  <2>5. Covers(saved)' /\ (mounted => Covers(fs))'
    BY <1>s, <2>1, <2>2, <2>3 DEF Links, Covers
  <2> QED
    BY <1>i, <2>1, <2>4, <2>5 DEF Links
<1>16. CASE IoError
  <2>1. UNCHANGED <<inodes, contents, saved, fs, mounted, unsaved, torn>>
    BY <1>s, <1>16, IoErrorDoes DEF disk
  <2>2. op' = Idle \/ op'.todo = <<"remove">>
    BY <1>s, <1>16, IoErrorDoes
  <2>3. Held'
    BY <1>i, <2>2, HeldNothing
  <2> QED
    BY <1>0, <2>1, <2>3
<1>17. CASE UNCHANGED vars
  <2>1. UNCHANGED <<inodes, contents, saved, fs, mounted, op, unsaved, torn>>
    BY <1>17 DEF vars
  <2>2. Held'
    BY <1>s, <2>1 DEF Held, NewInode, NewBlocks, OpenFile, AtAny, Named, Points
  <2> QED
    BY <1>0, <2>1, <2>2
<1> QED
  BY <1>1, <1>2, <1>3, <1>4, <1>5, <1>6, <1>7, <1>8, <1>9, <1>10, <1>11, <1>12, <1>13, <1>14,
     <1>15, <1>16, <1>17 DEF Next, FsStep, End

\* What the invariant says of types.
LEMMA ShapeTypes == ShapeInv => TypeOK
<1> SUFFICES ASSUME ShapeInv PROVE TypeOK
  OBVIOUS
<1>1. ASSUME NEW i \in Inode
      PROVE  /\ inodes[i].type \in {"unknown", "file", "dir"}
             /\ inodes[i].direct \in Seq(Block)
             /\ inodes[i].size \in 0 .. Len(inodes[i].direct)
  <2>1. /\ inodes[i].type \in {"unknown", "file", "dir"}
        /\ inodes[i].direct \in Seq(Block) /\ inodes[i].size \in Nat
        /\ inodes[i].size <= Len(inodes[i].direct)
    BY DEF ShapeInv, DiskTypes, InodeRecord
  <2> QED
    BY <2>1
<1> QED
  BY <1>1 DEF TypeOK, ShapeInv, DiskTypes, OtherTypes

(***************************************************************************)
(* Unless memory was dropped between a block write and the bitmaps that    *)
(* belong to it, no inode has two names, no block is pointed to twice, and *)
(* the mounted bitmaps mark all that is in use: whatever calls fail, run   *)
(* out of inodes, blocks or slots, or are repeated.                        *)
(***************************************************************************)
THEOREM FsIsConsistent == Spec => []FsInv
<1>1. ASSUME CrossInv PROVE FsInv
  <2>1. TypeOK
    BY <1>1, ShapeTypes DEF CrossInv, FreeInv
  <2>2. ASSUME ~torn PROVE /\ \A s, t \in Slots : EntryInode(s) = EntryInode(t) => s = t
                           /\ \A s, t \in Pointers : PointerBlock(s) = PointerBlock(t) => s = t
                           /\ mounted => /\ \A s \in Slots : EntryInode(s) \in fs.inodes
                                         /\ \A s \in Pointers : PointerBlock(s) \in fs.blocks
    <3>0. Links /\ DiskRule
      BY <1>1, <2>2, DiskIs DEF CrossInv, Untorn, FreeInv, ShapeInv
    <3>1. ASSUME NEW s \in Slots
          PROVE  /\ s[1] \in Block /\ s[2] \in DOMAIN contents[s[1]].entries /\ s = <<s[1], s[2]>>
                 /\ EntryInode(s) \in Inode /\ Named(EntryInode(s))
      <4>1. s[1] \in Block /\ s[2] \in DOMAIN contents[s[1]].entries /\ s = <<s[1], s[2]>>
        BY DEF Slots
      <4> QED
        BY <3>0, <4>1 DEF DiskRule, Named, EntryInode
    <3>2. ASSUME NEW s \in Pointers
          PROVE  /\ s[1] \in Inode /\ s[2] \in DOMAIN inodes[s[1]].direct /\ s = <<s[1], s[2]>>
                 /\ PointerBlock(s) \in Block /\ Points(s[1], PointerBlock(s))
      <4>1. s[1] \in Inode /\ s[2] \in DOMAIN inodes[s[1]].direct /\ s = <<s[1], s[2]>>
        BY DEF Pointers
      <4> QED
        BY <3>0, <4>1 DEF DiskRule, Points, PointerBlock
    <3>3. ASSUME NEW s \in Slots, NEW t \in Slots, EntryInode(s) = EntryInode(t) PROVE s = t
      <4>1. s[1] = t[1] /\ s[2] = t[2]
        BY <3>0, <3>1, <3>3 DEF Links, NamesOnce, EntryInode
      <4> QED
        BY <3>1, <4>1
    <3>4. ASSUME NEW s \in Pointers, NEW t \in Pointers, PointerBlock(s) = PointerBlock(t)
          PROVE  s = t
      <4>1. s[1] = t[1] /\ s[2] = t[2]
        BY <3>0, <3>2, <3>4 DEF Links, BlocksOnce, PointerBlock
      <4> QED
        BY <3>2, <4>1
    <3>5. mounted => /\ \A s \in Slots : EntryInode(s) \in fs.inodes
                     /\ \A s \in Pointers : PointerBlock(s) \in fs.blocks
      BY <3>0, <3>1, <3>2 DEF Links, Covers
    <3> QED
      BY <3>3, <3>4, <3>5
  <2> QED
    BY <2>1, <2>2 DEF FsInv, NoCrossLink
<1>2. CrossInv => FsInv
  BY <1>1
<1> QED
  BY <1>2, InitCross, CrossStep, PTL DEF Spec

--------------------------------------------------------------------------------
(* A path keeps leading to the same inode *)

Reached(i) == i = ROOT_INODE \/ Named(i)

(* the directory i has an entry of that name for the inode j *)
EntryOf(i, name, j) ==
    /\ IsDir(i) /\ inodes[i].direct # <<>>
    /\ \E k \in DOMAIN contents[inodes[i].direct[1]].entries :
        LET entry == contents[inodes[i].direct[1]].entries[k]
        IN entry.name = name /\ entry.inode = j

(* the inodes on the way to one that is found *)
FoundRule ==
    \A path \in Seq(Names) : Lookup(path) \in Inode =>
        \E w \in [0 .. Len(path) -> Inode] :
            /\ w[0] = ROOT_INODE /\ w[Len(path)] = Lookup(path)
            /\ \A k \in 1 .. Len(path) :
                /\ w[k] = Child(w[k - 1], path[k])
                /\ EntryOf(w[k - 1], path[k], w[k])
            /\ \A k \in 0 .. Len(path) : Reached(w[k])

\* A child that is found has an entry.
LEMMA ChildFound ==
    ASSUME DiskTypes, NEW i \in Inode \cup {None}, NEW name \in Names, Child(i, name) \in Inode
    PROVE  i \in Inode /\ EntryOf(i, name, Child(i, name)) /\ Named(Child(i, name))
<1>1. PICK k \in DOMAIN Entries(i) :
        Hit(i, name, k) /\ Entries(i)[k].inode = Child(i, name)
  BY ChildIs, ConstFacts DEF ChildRule
<1>2. IsDir(i) /\ inodes[i].direct # <<>>
  <2> SUFFICES ASSUME ~(IsDir(i) /\ inodes[i].direct # <<>>) PROVE FALSE
    OBVIOUS
  <2>1. Entries(i) = <<>>
    BY DEF Entries
  <2> QED
    BY <1>1, <2>1
<1>3. i \in Inode
  BY <1>2 DEF IsDir
<1>4. Entries(i) = contents[inodes[i].direct[1]].entries
  BY <1>2 DEF Entries
<1>5. inodes[i].direct[1] \in Block
  <2>1. inodes[i].direct \in Seq(Block)
    BY <1>3, DiskIs DEF DiskRule
  <2> QED
    BY <1>2, <2>1
<1>6. EntryOf(i, name, Child(i, name))
  BY <1>1, <1>2, <1>4 DEF EntryOf, Hit
<1>7. Named(Child(i, name))
  BY <1>1, <1>4, <1>5 DEF Named
<1> QED
  BY <1>3, <1>6, <1>7

\* Every inode on the way is there.
LEMMA FoundIs == DiskTypes => FoundRule
<1> SUFFICES ASSUME DiskTypes, NEW path \in Seq(Names), Lookup(path) \in Inode
             PROVE  \E w \in [0 .. Len(path) -> Inode] :
                        /\ w[0] = ROOT_INODE /\ w[Len(path)] = Lookup(path)
                        /\ \A k \in 1 .. Len(path) :
                            /\ w[k] = Child(w[k - 1], path[k])
                            /\ EntryOf(w[k - 1], path[k], w[k])
                        /\ \A k \in 0 .. Len(path) : Reached(w[k])
  BY DEF FoundRule
<1>n. PICK n \in Nat : n = Len(path)
  OBVIOUS
<1>p. \A k \in 1 .. n : path[k] \in Names
  BY <1>n
<1>1. PICK w \in [0 .. n -> Inode \cup {None}] :
        /\ Lookup(path) = w[n] /\ w[0] = ROOT_INODE
        /\ \A k \in 1 .. n : w[k] = Child(w[k - 1], path[k])
  BY WalkIs, <1>n DEF WalkRule
<1>2. ASSUME NEW k \in 1 .. n, w[k] \in Inode
      PROVE  w[k - 1] \in Inode /\ EntryOf(w[k - 1], path[k], w[k]) /\ Named(w[k])
  <2>1. k - 1 \in 0 .. n
    OBVIOUS
  <2>2. w[k - 1] \in Inode \cup {None} /\ path[k] \in Names /\ Child(w[k - 1], path[k]) \in Inode
    BY <1>p, <1>1, <1>2, <2>1
  <2> QED
    BY <1>1, <2>2, ChildFound
<1> DEFINE T == {d \in Nat : d <= n => w[n - d] \in Inode}
<1>3. T \in SUBSET Nat /\ 0 \in T
  BY <1>1
<1>4. ASSUME NEW d \in 1 .. n, d - 1 \in T PROVE d \in T
  <2>1. w[n - (d - 1)] \in Inode /\ n - (d - 1) \in 1 .. n /\ n - (d - 1) - 1 = n - d
    BY <1>4
  <2> QED
    BY <1>2, <2>1
<1>5. 0 .. n \subseteq T
  <2> HIDE DEF T
  <2> QED
    BY <1>3, <1>4, UpTo
<1>6. ASSUME NEW k \in 0 .. n PROVE w[k] \in Inode
  <2>1. n - k \in 0 .. n /\ n - (n - k) = k
    OBVIOUS
  <2> QED
    BY <1>5, <2>1
<1>7. w \in [0 .. n -> Inode]
  BY <1>1, <1>6
<1>8. \A k \in 1 .. n : EntryOf(w[k - 1], path[k], w[k]) /\ Named(w[k])
  BY <1>2, <1>6
<1>9. \A k \in 0 .. n : Reached(w[k])
  <2>1. ASSUME NEW k \in 0 .. n PROVE k = 0 \/ k \in 1 .. n
    OBVIOUS
  <2> QED
    BY <1>1, <1>8, <2>1 DEF Reached
<1> QED
  BY <1>n, <1>1, <1>7, <1>8, <1>9

(* a step that at most appends to the directories in use *)
EntriesGrow ==
    \A i \in Inode : Reached(i) =>
        Entries(i)' = Entries(i) \/ \E e \in Entry : Entries(i)' = Append(Entries(i), e)

\* An entry appended to a directory hides none.
LEMMA ChildKept ==
    ASSUME DiskTypes, DiskTypes', NEW i \in Inode, NEW name \in Names, Child(i, name) \in Inode,
           Entries(i)' = Entries(i) \/ \E e \in Entry : Entries(i)' = Append(Entries(i), e)
    PROVE  Child(i, name)' = Child(i, name)
<1>1. Entries(i) \in Seq(Entry) /\ DOMAIN Entries(i) = 1 .. Len(Entries(i)) /\ Len(Entries(i)) \in Nat
  BY EntriesType DEF EntriesTyped
<1>2. /\ \A k \in 1 .. Len(Entries(i)) : k \in DOMAIN Entries(i)' /\ Entries(i)'[k] = Entries(i)[k]
      /\ \A k \in DOMAIN Entries(i)' : k \in Nat /\ k >= 1
  BY <1>1, AppendProperties
<1>3. PICK k \in DOMAIN Entries(i) : Hit(i, name, k) /\ Entries(i)[k].inode = Child(i, name)
  BY ChildIs, ConstFacts DEF ChildRule
<1>4. k \in DOMAIN Entries(i)' /\ Entries(i)'[k].name = name
  BY <1>1, <1>2, <1>3 DEF Hit
<1>5. PICK m \in DOMAIN Entries(i)' :
        Hit(i, name, m)' /\ Entries(i)'[m].inode = Child(i, name)'
  BY <1>4, WalkIsNext DEF ChildRule
<1>6. m <= k
  BY <1>4, <1>5 DEF Hit
<1>7. m \in DOMAIN Entries(i) /\ Entries(i)'[m] = Entries(i)[m]
  BY <1>1, <1>2, <1>3, <1>6
<1>8. k <= m
  BY <1>3, <1>5, <1>7 DEF Hit
<1>9. k = m
  BY <1>1, <1>2, <1>6, <1>8
<1> QED
  BY <1>3, <1>5, <1>7, <1>9

\* What was found is found.
LEMMA LookupKept ==
    ASSUME DiskTypes, DiskTypes', EntriesGrow, NEW path \in Seq(Names), Lookup(path) \in Inode
    PROVE  Lookup(path)' = Lookup(path)
<1>n. PICK n \in Nat : n = Len(path)
  OBVIOUS
<1>p. \A k \in 1 .. n : path[k] \in Names
  BY <1>n
<1>1. PICK w \in [0 .. n -> Inode] :
        /\ w[0] = ROOT_INODE /\ w[n] = Lookup(path)
        /\ \A k \in 1 .. n : w[k] = Child(w[k - 1], path[k])
        /\ \A k \in 0 .. n : Reached(w[k])
  BY <1>n, FoundIs DEF FoundRule
<1>2. PICK v \in [0 .. n -> Inode \cup {None}] :
        /\ Lookup(path)' = v[n] /\ v[0] = ROOT_INODE
        /\ \A k \in 1 .. n : v[k] = Child(v[k - 1], path[k])'
  BY <1>n, WalkIsNext DEF WalkRule
<1> DEFINE T == {k \in Nat : k <= n => v[k] = w[k]}
<1>3. T \in SUBSET Nat /\ 0 \in T
  BY <1>1, <1>2
<1>4. ASSUME NEW k \in 1 .. n, k - 1 \in T PROVE k \in T
  <2>1. PICK i \in Inode : i = w[k - 1] /\ i = v[k - 1] /\ Reached(i)
    <3>1. k - 1 \in 0 .. n /\ k - 1 <= n
      OBVIOUS
    <3> QED
      BY <1>1, <1>4, <3>1
  <2>2. PICK name \in Names : name = path[k]
    BY <1>p
  <2>3. Child(i, name) = w[k] /\ w[k] \in Inode
    <3>1. k \in 0 .. n
      OBVIOUS
    <3>2. w[k] \in Inode
      BY <3>1
    <3>3. w[k] = Child(w[k - 1], path[k])
      BY <1>1
    <3> QED
      BY <2>1, <2>2, <3>2, <3>3
  <2>4. Child(i, name)' = Child(i, name)
    BY <2>1, <2>3, ChildKept DEF EntriesGrow
  <2>5. v[k] = Child(i, name)'
    BY <1>2, <2>1, <2>2
  <2> QED
    BY <2>3, <2>4, <2>5
<1>5. 0 .. n \subseteq T
  <2> HIDE DEF T
  <2> QED
    BY <1>3, <1>4, UpTo
<1>6. v[n] = w[n]
  BY <1>5
<1> QED
  BY <1>1, <1>2, <1>6

\* An entry has one name in one directory.
LEMMA OneEntry ==
    ASSUME DiskTypes, NamesOnce, BlocksOnce, NEW i \in Inode, NEW j \in Inode, NEW x, NEW y,
           NEW f \in Inode, EntryOf(i, x, f), EntryOf(j, y, f)
    PROVE  i = j /\ x = y
<1>1. \A g \in Inode : inodes[g].direct # <<>> =>
        1 \in DOMAIN inodes[g].direct /\ inodes[g].direct[1] \in Block
  <2> SUFFICES ASSUME NEW g \in Inode, inodes[g].direct # <<>>
               PROVE  1 \in DOMAIN inodes[g].direct /\ inodes[g].direct[1] \in Block
    OBVIOUS
  <2>1. inodes[g].direct \in Seq(Block)
    BY DiskIs DEF DiskRule
  <2> QED
    BY <2>1
<1>2. PICK b \in Block : b = inodes[i].direct[1] /\ 1 \in DOMAIN inodes[i].direct
  BY <1>1 DEF EntryOf
<1>3. PICK c \in Block : c = inodes[j].direct[1] /\ 1 \in DOMAIN inodes[j].direct
  BY <1>1 DEF EntryOf
<1>4. PICK k \in DOMAIN contents[b].entries :
        contents[b].entries[k].name = x /\ contents[b].entries[k].inode = f
  BY <1>2 DEF EntryOf
<1>5. PICK l \in DOMAIN contents[c].entries :
        contents[c].entries[l].name = y /\ contents[c].entries[l].inode = f
  BY <1>3 DEF EntryOf
<1>6. b = c /\ k = l
  BY <1>4, <1>5 DEF NamesOnce
<1>7. i = j
  BY <1>2, <1>3, <1>6 DEF BlocksOnce
<1> QED
  BY <1>4, <1>5, <1>6, <1>7

\* Two paths to one inode are the same path.
LEMMA OnePath ==
    ASSUME DiskTypes, NamesOnce, BlocksOnce, RootStays,
           NEW p \in Seq(Names), NEW q \in Seq(Names), Lookup(p) \in Inode, Lookup(q) = Lookup(p)
    PROVE  p = q
<1>n. PICK n \in Nat, m \in Nat : n = Len(p) /\ m = Len(q)
  <2>1. Len(p) \in Nat /\ Len(q) \in Nat
    OBVIOUS
  <2> QED
    BY <2>1
<1>1. PICK w \in [0 .. n -> Inode] :
        /\ w[0] = ROOT_INODE /\ w[n] = Lookup(p)
        /\ \A k \in 1 .. n : EntryOf(w[k - 1], p[k], w[k])
  BY <1>n, FoundIs DEF FoundRule
<1>2. PICK v \in [0 .. m -> Inode] :
        /\ v[0] = ROOT_INODE /\ v[m] = Lookup(p)
        /\ \A k \in 1 .. m : EntryOf(v[k - 1], q[k], v[k])
  <2>1. Lookup(q) \in Inode
    OBVIOUS
  <2>2. \E v \in [0 .. Len(q) -> Inode] :
          /\ v[0] = ROOT_INODE /\ v[Len(q)] = Lookup(q)
          /\ \A k \in 1 .. Len(q) : EntryOf(v[k - 1], q[k], v[k])
    BY <2>1, FoundIs DEF FoundRule
  <2> QED
    BY <1>n, <2>2
<1>3. ASSUME NEW i \in Inode, NEW x, EntryOf(i, x, ROOT_INODE) PROVE FALSE
  <2>1. inodes[i].direct \in Seq(Block) /\ inodes[i].direct # <<>>
    BY <1>3, DiskIs DEF DiskRule, EntryOf
  <2>2. inodes[i].direct[1] \in Block
    BY <2>1
  <2> QED
    BY <1>3, <2>2 DEF EntryOf, RootStays, Named
<1>4. ASSUME NEW k \in 1 .. n, NEW l \in 1 .. m, w[k] = v[l]
      PROVE  w[k - 1] = v[l - 1] /\ p[k] = q[l]
  <2>1. k - 1 \in 0 .. n /\ k \in 0 .. n /\ l - 1 \in 0 .. m /\ l \in 0 .. m
    OBVIOUS
  <2>2. w[k - 1] \in Inode /\ w[k] \in Inode /\ v[l - 1] \in Inode
    BY <2>1
  <2>3. EntryOf(w[k - 1], p[k], w[k]) /\ EntryOf(v[l - 1], q[l], w[k])
    BY <1>1, <1>2, <1>4
  <2> QED
    BY <2>2, <2>3, OneEntry
<1> DEFINE Agree(d) == /\ w[n - d] = v[m - d]
                       /\ \A e \in 0 .. d - 1 : p[n - e] = q[m - e]
           T == {d \in Nat : d <= n /\ d <= m => Agree(d)}
<1>5. T \in SUBSET Nat /\ 0 \in T
  BY <1>1, <1>2
<1>6. ASSUME NEW d \in 1 .. n, d - 1 \in T PROVE d \in T
  <2> SUFFICES ASSUME d <= m PROVE Agree(d)
    OBVIOUS
  <2>1. Agree(d - 1)
    BY <1>6
  <2>2. PICK k \in 1 .. n, l \in 1 .. m : k = n - (d - 1) /\ l = m - (d - 1)
    <3>1. n - (d - 1) \in 1 .. n /\ m - (d - 1) \in 1 .. m
      OBVIOUS
    <3> QED
      BY <3>1
  <2>3. w[k - 1] = v[l - 1] /\ p[k] = q[l]
    BY <1>4, <2>1, <2>2
  <2>4. k - 1 = n - d /\ l - 1 = m - d
    BY <2>2
  <2>5. ASSUME NEW e \in 0 .. d - 1 PROVE p[n - e] = q[m - e]
    <3>1. e = d - 1 \/ e \in 0 .. (d - 1) - 1
      OBVIOUS
    <3> QED
      BY <2>1, <2>2, <2>3, <3>1
  <2> QED
    BY <2>3, <2>4, <2>5
<1>7. 0 .. n \subseteq T
  <2> HIDE DEF T
  <2> QED
    BY <1>5, <1>6, UpTo
<1>8. \A d \in 0 .. n : d <= m => Agree(d)
  BY <1>7
<1> HIDE DEF T
<1>9. n = m
  <2>1. CASE n < m
    <3>1. n \in 0 .. n /\ n <= m /\ n - n = 0
      BY <2>1
    <3>2. Agree(n)
      BY <1>8, <3>1
    <3>3. v[m - n] = ROOT_INODE
      BY <1>1, <3>1, <3>2
    <3>4. m - n \in 1 .. m /\ m - n - 1 \in 0 .. m
      BY <2>1
    <3> QED
      BY <1>2, <1>3, <3>3, <3>4
  <2>2. CASE m < n
    <3>1. m \in 0 .. n /\ m <= m /\ m - m = 0
      BY <2>2
    <3>2. Agree(m)
      BY <1>8, <3>1
    <3>3. w[n - m] = ROOT_INODE
      BY <1>2, <3>1, <3>2
    <3>4. n - m \in 1 .. n /\ n - m - 1 \in 0 .. n
      BY <2>2
    <3> QED
      BY <1>1, <1>3, <3>3, <3>4
  <2> QED
    BY <2>1, <2>2
<1>10. \A e \in 0 .. n - 1 : p[n - e] = q[n - e]
  <2>1. n \in 0 .. n /\ n <= m
    BY <1>9
  <2>2. Agree(n)
    BY <1>8, <2>1
  <2> QED
    BY <1>9, <2>2
<1>11. ASSUME NEW k \in 1 .. n PROVE p[k] = q[k]
  <2>1. n - k \in 0 .. n - 1 /\ n - (n - k) = k
    OBVIOUS
  <2> QED
    BY <1>10, <2>1
<1> QED
  BY <1>n, <1>9, <1>11, SeqEqual

--------------------------------------------------------------------------------
(* What was acknowledged is read *)

(* a step that leaves the inode of a file and its data alone *)
FileKept(i) ==
    /\ inodes'[i] = inodes[i]
    /\ \A k \in DOMAIN inodes[i].direct :
        contents'[inodes[i].direct[k]].data = contents[inodes[i].direct[k]].data

\* Such a file is found and read as before.
LEMMA ReadKept ==
    ASSUME DiskTypes, DiskTypes', EntriesGrow, NEW p \in Paths, IsFile(Lookup(p)),
           FileKept(Lookup(p))
    PROVE  /\ Lookup(p) \in Inode /\ Lookup(p)' = Lookup(p)
           /\ IsFile(Lookup(p))' /\ ReadFile(p)' = ReadFile(p)
<1>1. Lookup(p) \in Inode
  BY LookupType DEF IsFile
<1>2. Lookup(p)' = Lookup(p)
  BY <1>1, LookupKept, ConstFacts
<1>3. PICK i \in Inode : i = Lookup(p)
  BY <1>1
<1>4. IsFile(Lookup(p))'
  BY <1>2, <1>3 DEF IsFile, FileKept
<1>5. /\ inodes[i].direct \in Seq(Block) /\ inodes[i].size \in Nat
      /\ inodes[i].size <= Len(inodes[i].direct)
  BY DEF DiskTypes, InodeRecord
<1>6. \A k \in 1 .. inodes[i].size : k \in DOMAIN inodes[i].direct
  BY <1>5
<1>7. ReadFile(p) = [k \in 1 .. inodes[i].size |-> contents[inodes[i].direct[k]].data]
  BY <1>3 DEF ReadFile
<1>8. ReadFile(p)' = [k \in 1 .. inodes[i].size |-> contents'[inodes[i].direct[k]].data]
  <2>1. inodes'[i] = inodes[i] /\ Lookup(p)' = i
    BY <1>2, <1>3 DEF FileKept
  <2> QED
    BY <2>1 DEF ReadFile
<1> QED
  BY <1>1, <1>2, <1>3, <1>4, <1>6, <1>7, <1>8 DEF FileKept

\* If all acknowledged files are left alone, all are read as acknowledged.
LEMMA AckedKept ==
    ASSUME DiskTypes, DiskTypes', EntriesGrow, AckedRead,
           \A p \in Paths : acked'[p] # NoBuffer =>
                acked'[p] = acked[p] /\ (IsFile(Lookup(p)) => FileKept(Lookup(p)))
    PROVE  AckedRead'
<1> SUFFICES ASSUME NEW p \in Paths, acked'[p] # NoBuffer
             PROVE  IsFile(Lookup(p))' /\ ReadFile(p)' = acked'[p]
  BY DEF AckedRead
<1>1. IsFile(Lookup(p)) /\ ReadFile(p) = acked[p] /\ FileKept(Lookup(p))
  BY DEF AckedRead
<1> QED
  BY <1>1, ReadKept

\* Nothing is written.
LEMMA GrowSame ==
    ASSUME UNCHANGED <<inodes, contents>>
    PROVE  EntriesGrow /\ \A i : FileKept(i)
BY DEF EntriesGrow, Entries, IsDir, FileKept

\* An inode is written that is no directory in use.
LEMMA GrowInode ==
    ASSUME contents' = contents,
           \A i \in Inode : Reached(i) =>
                inodes'[i] = inodes[i] \/ (inodes[i].type # "dir" /\ inodes'[i].type # "dir")
    PROVE  EntriesGrow
<1> SUFFICES ASSUME NEW i \in Inode, Reached(i) PROVE Entries(i)' = Entries(i)
  BY DEF EntriesGrow
<1>1. CASE inodes'[i] = inodes[i]
  BY <1>1 DEF Entries, IsDir
<1>2. CASE inodes[i].type # "dir" /\ inodes'[i].type # "dir"
  BY <1>2 DEF Entries, IsDir
<1> QED
  BY <1>1, <1>2

\* A block is written that belongs to no directory in use.
LEMMA GrowErased ==
    ASSUME DiskTypes, inodes' = inodes, NEW b \in Block,
           \A c \in Block : c # b => contents'[c] = contents[c],
           \A i \in Inode : Reached(i) /\ inodes[i].type = "dir" => ~Points(i, b)
    PROVE  EntriesGrow
<1> SUFFICES ASSUME NEW i \in Inode, Reached(i) PROVE Entries(i)' = Entries(i)
  BY DEF EntriesGrow
<1>1. CASE IsDir(i) /\ inodes[i].direct # <<>>
  <2>1. inodes[i].direct \in Seq(Block) /\ inodes[i].type = "dir"
    BY <1>1, DiskIs DEF DiskRule, IsDir
  <2>2. 1 \in DOMAIN inodes[i].direct /\ inodes[i].direct[1] \in Block
    BY <1>1, <2>1
  <2>3. inodes[i].direct[1] # b
    BY <2>1, <2>2 DEF Points
  <2> QED
    BY <2>2, <2>3 DEF Entries, IsDir
<1>2. CASE ~(IsDir(i) /\ inodes[i].direct # <<>>)
  BY <1>2 DEF Entries, IsDir
<1> QED
  BY <1>1, <1>2

\* An entry is appended to a block.
LEMMA GrowEntry ==
    ASSUME DiskTypes, inodes' = inodes, NEW b \in Block, NEW e \in Entry,
           contents'[b].entries = Append(contents[b].entries, e),
           \A c \in Block : c # b => contents'[c] = contents[c]
    PROVE  EntriesGrow
<1> SUFFICES ASSUME NEW i \in Inode
             PROVE  Entries(i)' = Entries(i) \/ Entries(i)' = Append(Entries(i), e)
  BY DEF EntriesGrow
<1>1. CASE IsDir(i) /\ inodes[i].direct # <<>>
  <2>1. inodes[i].direct \in Seq(Block)
    BY DiskIs DEF DiskRule
  <2>2. PICK c \in Block : c = inodes[i].direct[1]
    BY <1>1, <2>1
  <2>3. Entries(i) = contents[c].entries /\ Entries(i)' = contents'[c].entries
    BY <1>1, <2>2 DEF Entries, IsDir
  <2> QED
    BY <2>3
<1>2. CASE ~(IsDir(i) /\ inodes[i].direct # <<>>)
  BY <1>2 DEF Entries, IsDir
<1> QED
  BY <1>1, <1>2

ReadInv == CrossInv /\ (~torn => RootStays /\ Running /\ AckedRead)

\* At the start nothing is acknowledged.
LEMMA InitRead == Init => ReadInv
<1> SUFFICES ASSUME Init PROVE RootStays /\ Running /\ AckedRead
  BY InitCross DEF ReadInv
<1>1. op.todo = <<>>
  BY DEF Init, Idle
<1>2. Running
  BY <1>1 DEF Running, Open, DataWritten, NotAckedYet, AtAny
<1>3. AckedRead
  BY DEF AckedRead, Init
<1>4. \A b \in Block : contents[b].entries = <<>>
  BY DEF Init, EmptyDir
<1>5. inodes[ROOT_INODE].type = "dir"
  BY ConstFacts DEF Init, DirInode
<1> QED
  BY <1>2, <1>3, <1>4, <1>5 DEF RootStays, Named

\* A path that leads somewhere leads to an inode in use.
LEMMA FoundReached ==
    ASSUME DiskTypes, NEW p \in Paths, IsFile(Lookup(p))
    PROVE  Lookup(p) \in Inode /\ Reached(Lookup(p))
<1>1. Lookup(p) \in Inode
  BY LookupType DEF IsFile
<1>2. p \in Seq(Names) /\ Len(p) \in Nat
  BY ConstFacts
<1>3. PICK w \in [0 .. Len(p) -> Inode] :
        w[Len(p)] = Lookup(p) /\ \A k \in 0 .. Len(p) : Reached(w[k])
  BY <1>1, <1>2, FoundIs DEF FoundRule
<1> QED
  BY <1>1, <1>2, <1>3

\* What is known of a call that writes.
LEMMA Writing ==
    ASSUME ShapeInv
    PROVE  /\ op.todo # <<>> /\ op.write => WriteCall /\ op.path \in Paths /\ op.buffer \in Buffers
           /\ AtAny(DataSteps) => op.write /\ op.inode \in Inode /\ op.path \in Paths
           /\ At("superblock") /\ op.write => Left = 1
<1>1. CallShape /\ PlaceRule
  BY Places DEF ShapeInv
<1>2. op.todo # <<>> /\ op.write => WriteCall /\ op.path \in Paths /\ op.buffer \in Buffers
  BY <1>1 DEF CallShape, Idle, SyncCall, UnmountCall, FileCall, DirCall, WriteCall
<1>3. ASSUME AtAny(DataSteps) PROVE op.write /\ op.inode \in Inode /\ op.path \in Paths
  <2>1. op.todo # <<>> /\ (At("write_data") \/ At("write_file_inode"))
    BY <1>3 DEF AtAny, DataSteps, At
  <2>2. WriteCall /\ (Left \in 5 .. Len(op.buffer) + 4 \/ Left = 4)
    BY <1>1, <2>1, AtStep
  <2>3. Len(op.buffer) \in Nat /\ Left \in Nat
    BY <1>1, <2>1, <2>2 DEF PlaceRule
  <2>4. Left <= Len(op.buffer) + 4
    BY <2>2, <2>3
  <2> QED
    BY <2>2, <2>4 DEF WriteCall
<1>4. ASSUME At("superblock"), op.write PROVE Left = 1
  <2>1. PICK h : h = Head(op.todo) /\ h = "superblock" /\ op.todo # <<>>
    BY <1>4 DEF At
  <2>2. \A step : At(step) => h = step
    BY <2>1 DEF At
  <2>3. WritePlace
    BY <1>1, <1>2, <1>4, <2>1 DEF PlaceRule
  <2> QED
    BY <2>1, <2>2, <2>3 DEF WritePlace
<1> QED
  BY <1>2, <1>3, <1>4

\* A call that opens nothing and writes no file.
LEMMA RunsOn ==
    ASSUME CallShape, op' = Idle \/ op'.todo = Tail(op.todo), op'.todo # <<>> => ~op'.write,
           NEW h \in {"alloc_inode", "alloc_block", "add_dirent", "block_bitmap", "inode_bitmap",
                     "superblock"}, At(h)
    PROVE  Running'
<1>1. ASSUME NEW steps, AtAny(steps)' PROVE \E k \in steps : Follows(h, k)
  BY <1>1, NextStep
<1>2. ~AtAny(EntrySteps)' /\ ~AtAny({"write_dir"})' /\ ~AtAny(DataSteps)'
  BY <1>1 DEF Follows, EntrySteps, DataSteps
<1>3. AtAny(SaveSteps)' => ~op'.write
  BY DEF AtAny
<1> QED
  BY <1>2, <1>3 DEF Running, Open, DataWritten, NotAckedYet

\* A call that begins, or is over.
LEMMA RunsNew ==
    ASSUME op'.todo # <<>> => ~op'.write /\ Head(op'.todo) \in FirstSteps \cup {"remove"}
    PROVE  Running'
<1>1. ~AtAny(EntrySteps)' /\ ~AtAny({"write_dir"})' /\ ~AtAny(DataSteps)'
  BY DEF AtAny, FirstSteps, EntrySteps, DataSteps
<1>2. AtAny(SaveSteps)' => ~op'.write
  BY DEF AtAny
<1> QED
  BY <1>1, <1>2 DEF Running, Open, DataWritten, NotAckedYet

\* The same for the four calls.
LEMMA RunsBegin ==
    ASSUME NEW todo, NEW path, NEW buffer, Begin(todo, path, buffer), Head(op'.todo) \in FirstSteps
    PROVE  Running'
<1>1. op' = [todo |-> todo, path |-> path, buffer |-> buffer, blocks |-> <<>>,
             inode |-> None, dir |-> None, write |-> FALSE]
  BY DEF Begin
<1>2. op'.write = FALSE
  BY <1>1
<1> QED
  BY <1>2, RunsNew

\* A new inode is written: no path leads to it.
LEMMA NewInodeRead ==
    ASSUME DiskTypes, DiskTypes', Links, Held, RootStays, Running, AckedRead,
           contents' = contents, acked' = acked, op.inode \in Inode, op.dir \in Inode,
           \A j \in Inode : j # op.inode => inodes'[j] = inodes[j],
           At("write_inode") \/ At("write_dir_inode")
    PROVE  RootStays' /\ AckedRead' /\ inodes'[op.dir].type = "dir"
<1>1. AtAny(InodeSteps) /\ AtAny(BlankSteps) /\ AtAny(EntrySteps)
  BY DEF At, AtAny, InodeSteps, BlankSteps, EntrySteps
<1>2. ~Named(op.inode) /\ op.inode # ROOT_INODE /\ inodes[op.inode].type = "unknown"
  BY <1>1 DEF Held, NewInode
<1>3. inodes[op.dir].type = "dir"
  BY <1>1 DEF Running, Open
<1>4. inodes'[op.dir].type = "dir"
  BY <1>2, <1>3
<1>5. RootStays'
  BY <1>2, ConstFacts DEF RootStays, Named
<1>6. EntriesGrow
  BY <1>2, GrowInode DEF Reached
<1>7. ASSUME NEW p \in Paths, IsFile(Lookup(p)) PROVE FileKept(Lookup(p))
  <2>1. Lookup(p) \in Inode /\ inodes[Lookup(p)].type = "file"
    BY <1>7, FoundReached DEF IsFile
  <2>2. Lookup(p) # op.inode
    BY <1>2, <2>1
  <2> QED
    BY <2>1, <2>2 DEF FileKept
<1>8. AckedRead'
  BY <1>6, <1>7, AckedKept
<1> QED
  BY <1>4, <1>5, <1>8

\* While a file is written no other path that is acknowledged leads to it.
LEMMA OthersRead ==
    ASSUME ShapeInv, NamesOnce, BlocksOnce, RootStays, Running, AtAny(DataSteps),
           NEW p \in Paths, acked[p] # NoBuffer, IsFile(Lookup(p))
    PROVE  Lookup(p) \in Inode /\ Lookup(p) # op.inode
<1>1. op.write /\ op.path \in Paths /\ op.todo # <<>>
  BY Writing DEF AtAny
<1>2. op.inode = Lookup(op.path) /\ acked[op.path] = NoBuffer
  BY <1>1 DEF Running, Open, NotAckedYet
<1>3. Lookup(p) \in Inode
  BY FoundReached DEF ShapeInv
<1>4. Lookup(p) # Lookup(op.path)
  BY <1>1, <1>2, <1>3, OnePath, ConstFacts DEF ShapeInv
<1> QED
  BY <1>2, <1>3, <1>4

\* Every step keeps it unless a call is torn.
LEMMA ReadStep == ReadInv /\ [Next]_vars => ReadInv'
<1> SUFFICES ASSUME ReadInv, [Next]_vars, ~torn' PROVE RootStays' /\ Running' /\ AckedRead'
  BY CrossStep DEF ReadInv
<1>s. /\ ShapeInv /\ CallShape /\ DiskTypes /\ DiskRule
      /\ ~torn => Links /\ Held /\ RootStays /\ Running /\ AckedRead
  BY DiskIs DEF ReadInv, CrossInv, FreeInv, ShapeInv, Untorn
<1>d. DiskTypes'
  BY <1>s, ShapeStep DEF ShapeInv
<1>a. ASSUME UNCHANGED <<inodes, contents>>, ~torn,
             \A p \in Paths : acked'[p] # NoBuffer => acked'[p] = acked[p]
      PROVE  /\ RootStays' /\ AckedRead'
             /\ \A p \in Paths : IsFile(Lookup(p)) =>
                    Lookup(p)' = Lookup(p) /\ IsFile(Lookup(p))' /\ ReadFile(p)' = ReadFile(p)
  <2>1. EntriesGrow /\ \A i : FileKept(i)
    BY <1>a, GrowSame
  <2>2. AckedRead'
    BY <1>a, <1>d, <1>s, <2>1, AckedKept
  <2>3. RootStays'
    BY <1>a, <1>s DEF RootStays, Named
  <2>4. \A p \in Paths : IsFile(Lookup(p)) =>
            Lookup(p)' = Lookup(p) /\ IsFile(Lookup(p))' /\ ReadFile(p)' = ReadFile(p)
    BY <1>d, <1>s, <2>1, ReadKept
  <2> QED
    BY <2>2, <2>3, <2>4
<1>o. ASSUME UNCHANGED <<disk, acked, torn>> PROVE RootStays' /\ AckedRead'
  BY <1>a, <1>o DEF disk
<1>i. op' = Idle => Running'
  <2>1. op' = Idle => op'.todo = <<>>
    BY DEF Idle
  <2> QED
    BY <2>1, RunsNew
<1>1. ASSUME NEW path \in Paths, create_file(path) PROVE RootStays' /\ Running' /\ AckedRead'
  <2>1. Head(op'.todo) \in FirstSteps /\ UNCHANGED <<disk, acked, torn>>
    BY <1>1, CreateFileDoes, BeginsAt
  <2> QED
    BY <1>1, <1>o, <2>1, RunsBegin DEF create_file
<1>2. ASSUME NEW path \in Paths, create_dir(path) PROVE RootStays' /\ Running' /\ AckedRead'
  <2>1. Head(op'.todo) \in FirstSteps /\ UNCHANGED <<disk, acked, torn>>
    BY <1>2, CreateDirDoes, BeginsAt
  <2> QED
    BY <1>2, <1>o, <2>1, RunsBegin DEF create_dir
<1>3. ASSUME NEW path \in Paths, NEW buffer \in Buffers, write_file(path, buffer)
      PROVE  RootStays' /\ Running' /\ AckedRead'
  <2>1. Head(op'.todo) \in FirstSteps /\ UNCHANGED <<disk, acked, torn>>
    BY <1>3, WriteFileDoes, BeginsAt
  <2> QED
    BY <1>3, <1>o, <2>1, RunsBegin DEF write_file
<1>4. CASE sync \/ unmount
  <2>1. Head(op'.todo) \in FirstSteps /\ UNCHANGED <<disk, acked, torn>>
    BY <1>4, SyncDoes, BeginsAt
  <2> QED
    BY <1>4, <1>o, <2>1, RunsBegin DEF sync, unmount
<1>5. CASE alloc_inode \/ alloc_block
  <2>1. UNCHANGED <<disk, acked, torn>>
    BY <1>s, <1>5, AllocInodeDoes, AllocBlockDoes
  <2>2. At("alloc_inode") \/ At("alloc_block")
    BY <1>5 DEF alloc_inode, alloc_block
  <2>3. ~op.write
    <3>1. CASE alloc_inode
      BY <1>s, <3>1, AllocInodeDoes DEF FileCall, DirCall
    <3>2. CASE alloc_block
      <4>1. \/ DirCall
            \/ WriteCall /\ Left \in Len(op.buffer) + 6 .. 2 * Len(op.buffer) + 5
        BY <1>s, <3>2, AllocBlockDoes
      <4>2. CASE DirCall
        BY <4>2 DEF DirCall
      <4>3. CASE WriteCall /\ Left \in Len(op.buffer) + 6 .. 2 * Len(op.buffer) + 5
        <5>1. Len(op.buffer) \in Nat
          BY <4>3, ConstFacts DEF WriteCall
        <5>2. ~(Left <= Len(op.buffer) + 4)
          BY <4>3, <5>1
        <5> QED
          BY <4>3, <5>2 DEF WriteCall
      <4> QED
        BY <4>1, <4>2, <4>3
    <3> QED
      BY <1>5, <3>1, <3>2
  <2>4. op' = Idle \/ (op'.todo = Tail(op.todo) /\ ~op'.write)
    BY <1>s, <1>5, <2>3, AllocInodeDoes, AllocBlockDoes
  <2>5. Running'
    <3>1. CASE op' = Idle
      BY <1>i, <3>1
    <3>2. CASE op' # Idle
      BY <1>s, <2>2, <2>4, <3>2, RunsOn
    <3> QED
      BY <3>1, <3>2
  <2> QED
    BY <1>o, <2>1, <2>5
<1>6. CASE FindDir
  <2>1. UNCHANGED <<disk, acked, torn>> /\ (FileCall \/ DirCall)
    BY <1>s, <1>6, FindDirDoes
  <2>2. At("find_dir") /\ ~op.write
    BY <1>6, <2>1 DEF FindDir, FileCall, DirCall
  <2>3. ASSUME op' # Idle PROVE Running'
    <3>1. /\ op'.todo = Tail(op.todo) /\ op'.write = op.write
          /\ op'.dir \in Inode /\ inodes[op'.dir].type = "dir"
      BY <1>s, <1>6, <2>3, FindDirDoes
    <3>2. ASSUME NEW steps, AtAny(steps)' PROVE \E k \in steps : Follows("find_dir", k)
      BY <1>s, <2>2, <3>1, <3>2, NextStep
    <3>3. ~AtAny({"write_dir"})' /\ ~AtAny(DataSteps)'
      BY <3>2 DEF Follows, DataSteps
    <3>4. inodes'[op'.dir].type = "dir"
      BY <2>1, <3>1 DEF disk
    <3> QED
      BY <2>2, <3>1, <3>3, <3>4 DEF Running, Open, DataWritten, NotAckedYet
  <2> QED
    BY <1>i, <1>o, <2>1, <2>3
<1>7. CASE FindFile
  <2>1. UNCHANGED <<inodes, contents, torn>>
    BY <1>s, <1>7, FindFileDoes DEF disk
  <2>2. CASE op' = Idle /\ acked' = acked
    BY <1>a, <1>i, <2>1, <2>2
  <2>3. CASE op' # Idle
    <3>1. /\ WriteCall /\ Left = Len(op.buffer) + 5 /\ Len(op.buffer) \in Nat
          /\ op'.todo = Tail(op.todo) /\ Left' = Left - 1
          /\ op'.path = op.path /\ op'.buffer = op.buffer /\ op'.write = TRUE
          /\ op'.inode = Lookup(op.path) /\ op'.inode \in Inode
          /\ inodes[op'.inode].type = "file"
          /\ acked' = [acked EXCEPT ![op.path] = NoBuffer]
      BY <1>s, <1>7, <2>3, FindFileDoes
    <3>2. op.path \in Paths /\ acked \in [Paths -> Buffers \cup {NoBuffer}]
      BY <1>s, <3>1 DEF WriteCall, ShapeInv, OtherTypes
    <3>3. /\ acked'[op.path] = NoBuffer
          /\ \A p \in Paths : acked'[p] # NoBuffer => acked'[p] = acked[p]
      BY <3>1, <3>2
    <3>4. IsFile(Lookup(op.path))
      BY <3>1, ConstFacts DEF IsFile
    <3>5. Lookup(op.path)' = Lookup(op.path) /\ RootStays' /\ AckedRead'
      <4>1. /\ RootStays' /\ AckedRead'
            /\ \A p \in Paths : IsFile(Lookup(p)) => Lookup(p)' = Lookup(p)
        BY <1>a, <2>1, <3>3
      <4>2. PICK q \in Paths : q = op.path
        BY <3>2
      <4>3. Lookup(q)' = Lookup(q)
        BY <3>4, <4>1, <4>2
      <4>4. Lookup(op.path)' = Lookup(q)'
        BY <3>1, <4>2
      <4> QED
        BY <4>1, <4>2, <4>3, <4>4
    <3>6. At("find_file")
      BY <1>7 DEF FindFile
    <3>7. ASSUME NEW steps, AtAny(steps)' PROVE \E k \in steps : Follows("find_file", k)
      BY <1>s, <3>1, <3>6, <3>7, NextStep
    <3>8. ~AtAny(EntrySteps)' /\ ~AtAny({"write_dir"})' /\ ~AtAny(SaveSteps)'
      BY <3>7 DEF Follows, EntrySteps, SaveSteps
    <3>9. Open'
      BY <3>1, <3>5, <3>8 DEF Open
    <3>10. DataWritten'
      <4>1. Len(op.buffer) + 4 - Left' = 0
        BY <3>1
      <4>2. 1 .. Len(op'.buffer) + 4 - Left' = {}
        BY <3>1, <4>1
      <4> QED
        BY <3>8, <4>2 DEF DataWritten
    <3>11. NotAckedYet'
      BY <3>1, <3>3 DEF NotAckedYet
    <3> QED
      BY <3>5, <3>9, <3>10, <3>11 DEF Running
  <2> QED
    BY <1>s, <1>7, <2>2, <2>3, FindFileDoes
<1>8. CASE WriteNewFile
  <2>1. /\ FileCall /\ Left = 5 /\ FileInode \in InodeRecord
        /\ FileInode.size <= Len(FileInode.direct) /\ op.inode \in Inode
    BY <1>s, <1>8, NewFileArgs
  <2>2. WriteInode("write_inode", FileInode) /\ At("write_inode")
    BY <1>8 DEF WriteNewFile, WriteInode
  <2>3. /\ UNCHANGED <<contents, acked, torn>> /\ GoesOn(op)
        /\ \A j \in Inode : j # op.inode => inodes'[j] = inodes[j]
    BY <1>s, <2>1, <2>2, WriteInodeDoes
  <2>4. op.dir \in Inode /\ ~op.write
    BY <2>1 DEF FileCall
  <2>5. RootStays' /\ AckedRead' /\ inodes'[op.dir].type = "dir"
    BY <1>d, <1>s, <2>1, <2>2, <2>3, <2>4, NewInodeRead
  <2>6. op'.todo = Tail(op.todo) /\ op'.dir = op.dir /\ op'.write = op.write
    BY <2>1, <2>3 DEF GoesOn
  <2>7. ASSUME NEW steps, AtAny(steps)' PROVE \E k \in steps : Follows("write_inode", k)
    BY <1>s, <2>2, <2>6, <2>7, NextStep
  <2>8. ~AtAny({"write_dir"})' /\ ~AtAny(DataSteps)'
    BY <2>7 DEF Follows, DataSteps
  <2>9. Running'
    BY <2>4, <2>5, <2>6, <2>8 DEF Running, Open, DataWritten, NotAckedYet
  <2> QED
    BY <2>5, <2>9
<1>9. CASE WriteNewDir
  <2>1. PICK rec \in InodeRecord :
          /\ DirCall /\ Left = 6 /\ rec = DirInode(op.blocks[1]) /\ rec.size <= Len(rec.direct)
          /\ rec.direct \in Seq(Block) /\ Len(rec.direct) = 1 /\ rec.direct[1] = op.blocks[1]
          /\ op.inode \in Inode
    BY <1>s, <1>9, NewDirArgs
  <2>2. WriteInode("write_dir_inode", rec) /\ At("write_dir_inode")
    BY <1>9, <2>1 DEF WriteNewDir, WriteInode
  <2>3. /\ UNCHANGED <<contents, acked, torn>> /\ GoesOn(op) /\ inodes'[op.inode] = rec
        /\ \A j \in Inode : j # op.inode => inodes'[j] = inodes[j]
    BY <1>s, <2>1, <2>2, WriteInodeDoes
  <2>4. op.dir \in Inode /\ ~op.write
    BY <2>1 DEF DirCall
  <2>5. RootStays' /\ AckedRead' /\ inodes'[op.dir].type = "dir"
    BY <1>d, <1>s, <2>1, <2>2, <2>3, <2>4, NewInodeRead
  <2>6. /\ op'.todo = Tail(op.todo) /\ op'.dir = op.dir /\ op'.write = op.write
        /\ op'.inode = op.inode /\ op'.blocks = op.blocks
    BY <2>1, <2>3 DEF GoesOn
  <2>7. ASSUME NEW steps, AtAny(steps)' PROVE \E k \in steps : Follows("write_dir_inode", k)
    BY <1>s, <2>2, <2>6, <2>7, NextStep
  <2>8. ~AtAny(DataSteps)'
    BY <2>7 DEF Follows, DataSteps
  <2>9. Points(op.inode, op.blocks[1])'
    <3>1. 1 \in DOMAIN rec.direct
      BY <2>1
    <3> QED
      BY <2>1, <2>3, <2>6, <3>1 DEF Points
  <2>10. Running'
    BY <2>4, <2>5, <2>6, <2>8, <2>9 DEF Running, Open, DataWritten, NotAckedYet
  <2> QED
    BY <2>5, <2>10
<1>10. CASE WriteFileInode
  <2>1. PICK rec \in InodeRecord :
          /\ rec = [type |-> "file", direct |-> op.blocks, size |-> Len(op.buffer)]
          /\ WriteCall /\ Left = 4 /\ op.write /\ op.buffer \in Buffers /\ op.path \in Paths
          /\ rec.size <= Len(rec.direct) /\ rec.type = "file" /\ rec.direct = op.blocks
          /\ rec.size = Len(op.buffer) /\ op.inode \in Inode
    BY <1>s, <1>10, FileInodeArgs
  <2>2. WriteInode("write_file_inode", rec) /\ At("write_file_inode") /\ AtAny(DataSteps)
    BY <1>10, <2>1 DEF WriteFileInode, WriteInode, At, AtAny, DataSteps
  <2>3. /\ UNCHANGED <<contents, acked, torn>> /\ GoesOn(op) /\ inodes'[op.inode] = rec
        /\ \A j \in Inode : j # op.inode => inodes'[j] = inodes[j]
    BY <1>s, <2>1, <2>2, WriteInodeDoes
  <2>4. Links /\ Held /\ RootStays /\ Running /\ AckedRead
    BY <1>s, <2>3
  <2>5. inodes[op.inode].type = "file" /\ op.inode = Lookup(op.path)
    BY <2>2, <2>4 DEF Held, OpenFile, Running, Open
  <2>6. EntriesGrow
    <3>1. \A i \in Inode :
            inodes'[i] = inodes[i] \/ (inodes[i].type # "dir" /\ inodes'[i].type # "dir")
      BY <2>1, <2>3, <2>5
    <3> QED
      BY <2>3, <3>1, GrowInode
  <2>7. ASSUME NEW p \in Paths, acked[p] # NoBuffer, IsFile(Lookup(p)) PROVE FileKept(Lookup(p))
    <3>1. Lookup(p) \in Inode /\ Lookup(p) # op.inode
      BY <1>s, <2>2, <2>4, <2>7, OthersRead DEF Links
    <3> QED
      BY <2>3, <3>1 DEF FileKept
  <2>8. AckedRead'
    BY <1>d, <1>s, <2>3, <2>4, <2>6, <2>7, AckedKept
  <2>9. RootStays'
    <3>1. ROOT_INODE # op.inode
      BY <2>4, <2>5 DEF RootStays
    <3> QED
      BY <2>3, <2>4, <3>1, ConstFacts DEF RootStays, Named
  <2>10. /\ op'.todo = Tail(op.todo) /\ op'.write = op.write /\ op'.path = op.path
         /\ op'.buffer = op.buffer
    <3>1. Left = 4
      BY <2>1
    <3>2. Left # 1
      BY <3>1
    <3> QED
      BY <2>3, <3>2 DEF GoesOn
  <2>11. ASSUME NEW steps, AtAny(steps)' PROVE \E k \in steps : Follows("write_file_inode", k)
    BY <1>s, <2>2, <2>10, <2>11, NextStep
  <2>12. ~AtAny(EntrySteps)' /\ ~AtAny({"write_dir"})' /\ ~AtAny(DataSteps)'
    BY <2>11 DEF Follows, DataSteps, EntrySteps
  <2>13. PICK q \in Paths, buf \in Seq(Values) : q = op.path /\ buf = op.buffer
    BY <2>1, ConstFacts
  <2>14. Lookup(q)' = op.inode
    BY <1>d, <1>s, <2>1, <2>5, <2>6, <2>13, LookupKept, ConstFacts
  <2>15. IsFile(Lookup(q))'
    BY <2>1, <2>3, <2>14, ConstFacts DEF IsFile
  <2>16. \A k \in 1 .. Len(buf) : contents[op.blocks[k]].data = buf[k]
    <3>1. Len(buf) \in Nat /\ Len(buf) + 4 - Left = Len(buf)
      BY <2>1
    <3>2. \A k \in 1 .. Len(op.buffer) + 4 - Left : contents[op.blocks[k]].data = op.buffer[k]
      BY <2>2, <2>4 DEF Running, DataWritten
    <3> QED
      BY <2>13, <3>1, <3>2
  <2>17. ReadFile(q)' = buf
    <3>1. ReadFile(q)' = [k \in 1 .. Len(buf) |-> contents'[op.blocks[k]].data]
      BY <2>1, <2>3, <2>13, <2>14 DEF ReadFile
    <3>2. [k \in 1 .. Len(buf) |-> contents'[op.blocks[k]].data] = [k \in 1 .. Len(buf) |-> buf[k]]
      BY <2>3, <2>16
    <3>3. [k \in 1 .. Len(buf) |-> buf[k]] = buf
      OBVIOUS
    <3> QED
      BY <3>1, <3>2, <3>3
  <2>18. IsFile(Lookup(op.path))' /\ ReadFile(op.path)' = op'.buffer
    BY <2>10, <2>13, <2>15, <2>17
  <2>19. NotAckedYet'
    BY <2>1, <2>2, <2>3, <2>4, <2>10 DEF NotAckedYet, Running, AtAny
  <2>20. Running'
    BY <2>12, <2>18, <2>19 DEF Running, Open, DataWritten
  <2> QED
    BY <2>8, <2>9, <2>20
<1>11. CASE WriteDirBlock
  <2>1. /\ DirCall /\ Left = 5 /\ op.blocks[1] \in Block /\ EmptyDir \in Content
        /\ Len(EmptyDir.entries) <= DirSlots
        /\ EmptyDir.entries = <<>> /\ op.inode \in Inode
    BY <1>s, <1>11, DirBlockArgs
  <2>b. PICK b \in Block : b = op.blocks[1]
    BY <2>1
  <2>2. WriteContents("write_dir", b, EmptyDir) /\ At("write_dir")
    BY <1>11, <2>b DEF WriteDirBlock, WriteContents
  <2>3. /\ UNCHANGED <<inodes, fs, mounted, acked, torn>> /\ unsaved' = TRUE
        /\ GoesOn(op) /\ contents'[b] = EmptyDir
        /\ \A c \in Block : c # b => contents'[c] = contents[c]
    BY <1>s, <2>1, <2>2, WriteContentsDoes
  <2>4. Links /\ Held /\ RootStays /\ Running /\ AckedRead
    BY <1>s, <2>3
  <2>5. /\ AtAny(InodeSteps) /\ AtAny({"write_dir"}) /\ AtAny(EntrySteps)
    BY <2>2 DEF At, AtAny, InodeSteps, EntrySteps
  <2>6. ~Reached(op.inode)
    BY <2>1, <2>4, <2>5 DEF Held, NewInode, Reached
  <2>7. \A i \in Inode : Points(i, b) => i = op.inode
    <3>1. Points(op.inode, b)
      BY <2>4, <2>5, <2>b DEF Running, Open
    <3> QED
      BY <2>1, <2>4, <3>1 DEF Links, BlocksOnce, Points
  <2>8. EntriesGrow
    BY <1>s, <2>3, <2>6, <2>7, GrowErased
  <2>9. ASSUME NEW p \in Paths, IsFile(Lookup(p)) PROVE FileKept(Lookup(p))
    <3>1. PICK i \in Inode : i = Lookup(p) /\ Reached(i)
      BY <1>s, <2>9, FoundReached
    <3>2. ~Points(i, b)
      BY <2>6, <2>7, <3>1
    <3>3. \A k \in DOMAIN inodes[i].direct :
            inodes[i].direct[k] \in Block /\ inodes[i].direct[k] # b
      BY <1>s, <3>2 DEF DiskRule, Points
    <3> QED
      BY <2>3, <3>1, <3>3 DEF FileKept
  <2>10. AckedRead'
    BY <1>d, <1>s, <2>3, <2>4, <2>8, <2>9, AckedKept
  <2>11. RootStays'
    <3>1. \A i \in Inode : Named(i)' => Named(i)
      BY <2>1, <2>3, <2>4, LinksErased
    <3> QED
      BY <2>3, <2>4, <3>1, ConstFacts DEF RootStays
  <2>12. op'.todo = Tail(op.todo) /\ op'.dir = op.dir /\ op'.write = op.write
    BY <2>1, <2>3 DEF GoesOn
  <2>13. ASSUME NEW steps, AtAny(steps)' PROVE \E k \in steps : Follows("write_dir", k)
    BY <1>s, <2>2, <2>12, <2>13, NextStep
  <2>14. ~AtAny({"write_dir"})' /\ ~AtAny(DataSteps)'
    BY <2>13 DEF Follows, DataSteps
  <2>15. inodes'[op'.dir].type = "dir" /\ ~op'.write
    BY <2>1, <2>3, <2>4, <2>5, <2>12 DEF Running, Open, DirCall
  <2>16. Running'
    BY <2>14, <2>15 DEF Running, Open, DataWritten, NotAckedYet
  <2> QED
    BY <2>10, <2>11, <2>16
<1>12. CASE AddDirent
  <2>1. /\ op.inode \in Inode /\ op.dir \in Inode /\ At("add_dirent") /\ ~op.write
        /\ AtAny(InodeSteps) /\ AtAny(EntrySteps)
    BY <1>s, <1>12, DirentArgs DEF AddDirent, FileCall, DirCall, At, AtAny, InodeSteps, EntrySteps
  <2>2. CASE op' = Idle /\ UNCHANGED <<disk, fs, mounted, faults, acked, unsaved, torn>>
    BY <1>i, <1>o, <2>2
  <2>3. ASSUME NEW b \in Block, NEW e \in Entry, NEW c \in Content, e.inode = op.inode,
               inodes[op.dir].direct # <<>>, b = inodes[op.dir].direct[1],
               c.entries = Append(contents[b].entries, e), Len(c.entries) <= DirSlots,
               WriteContents("add_dirent", b, c)
        PROVE  RootStays' /\ Running' /\ AckedRead'
    <3>1. /\ UNCHANGED <<inodes, fs, mounted, acked, torn>> /\ unsaved' = TRUE
          /\ GoesOn(op) /\ contents'[b] = c
          /\ \A x \in Block : x # b => contents'[x] = contents[x]
      BY <1>s, <2>3, WriteContentsDoes
    <3>2. Links /\ Held /\ RootStays /\ Running /\ AckedRead
      BY <1>s, <3>1
    <3>3. ~Named(op.inode) /\ op.inode \in fs.inodes /\ op.inode # ROOT_INODE
      BY <2>1, <3>2 DEF Held, NewInode
    <3>4. inodes[op.dir].type = "dir"
      BY <2>1, <3>2 DEF Running, Open
    <3>5. EntriesGrow
      BY <1>s, <2>3, <3>1, GrowEntry
    <3>6. ASSUME NEW p \in Paths, IsFile(Lookup(p)) PROVE FileKept(Lookup(p))
      <4>1. PICK i \in Inode : i = Lookup(p) /\ inodes[i].type = "file"
        BY <1>s, <3>6, FoundReached DEF IsFile
      <4>2. inodes[op.dir].direct \in Seq(Block) /\ 1 \in DOMAIN inodes[op.dir].direct
        <5>1. inodes[op.dir].direct \in Seq(Block)
          BY <1>s, <2>1 DEF DiskRule
        <5>2. inodes[op.dir].direct # <<>>
          BY <2>3
        <5>3. ASSUME NEW d \in Seq(Block), d # <<>> PROVE 1 \in DOMAIN d
          BY <5>3
        <5> QED
          BY <5>1, <5>2, <5>3
      <4>3. \A k \in DOMAIN inodes[i].direct :
              inodes[i].direct[k] \in Block /\ inodes[i].direct[k] # b
        BY <1>s, <2>1, <2>3, <3>2, <3>4, <4>1, <4>2 DEF DiskRule, Links, BlocksOnce
      <4> QED
        BY <3>1, <4>1, <4>3 DEF FileKept
    <3>7. AckedRead'
      BY <1>d, <1>s, <3>1, <3>2, <3>5, <3>6, AckedKept
    <3>8. RootStays'
      <4>1. \A i \in Inode : Named(i)' => Named(i) \/ i = op.inode
        BY <1>s, <2>1, <2>3, <3>1, <3>2, <3>3, LinksNamed
      <4> QED
        BY <3>1, <3>2, <3>3, <4>1, ConstFacts DEF RootStays
    <3>9. op' = Idle \/ (op'.todo = Tail(op.todo) /\ op'.write = op.write)
      BY <3>1 DEF GoesOn
    <3>10. Running'
      <4>1. CASE op' = Idle
        BY <1>i, <4>1
      <4>2. CASE op' # Idle
        BY <1>s, <2>1, <3>9, <4>2, RunsOn
      <4> QED
        BY <4>1, <4>2
    <3> QED
      BY <3>7, <3>8, <3>10
  <2> QED
    BY <1>s, <1>12, <2>2, <2>3, DirentArgs
<1>13. CASE WriteData
  <2>1. PICK k \in 1 .. Len(op.buffer) :
          /\ Left \in 5 .. Len(op.buffer) + 4 /\ op.write /\ op.inode \in Inode
          /\ k = Len(op.buffer) + 5 - Left /\ Len(op.buffer) \in Nat /\ op.path \in Paths
          /\ k \in DOMAIN op.blocks /\ op.blocks \in Seq(Block)
          /\ op.blocks[k] \in Block /\ DataBlock(op.buffer[k]) \in Content
          /\ DataBlock(op.buffer[k]).entries = <<>>
          /\ DataBlock(op.buffer[k]).data = op.buffer[k]
          /\ Len(DataBlock(op.buffer[k]).entries) <= DirSlots
          /\ WriteContents("write_data", op.blocks[k], DataBlock(op.buffer[k]))
    BY <1>s, <1>13, DataArgs
  <2>b. PICK b \in Block : b = op.blocks[k]
    BY <2>1
  <2>n. Left \in Nat /\ Left # 1
    BY <2>1
  <2>2. /\ UNCHANGED <<inodes, fs, mounted, acked, torn>> /\ unsaved' = TRUE
        /\ GoesOn(op) /\ contents'[b] = DataBlock(op.buffer[k])
        /\ \A c \in Block : c # b => contents'[c] = contents[c]
    BY <1>s, <2>1, <2>b, WriteContentsDoes
  <2>3. Links /\ Held /\ RootStays /\ Running /\ AckedRead
    BY <1>s, <2>2
  <2>4. At("write_data") /\ AtAny(DataSteps) /\ AtAny(BlockSteps)
    BY <2>1 DEF WriteContents, At, AtAny, DataSteps, BlockSteps
  <2>5. /\ \A x, y \in DOMAIN op.blocks : op.blocks[x] = op.blocks[y] => x = y
        /\ \A i \in Inode : Points(i, b) => i = op.inode
    BY <2>1, <2>3, <2>4, <2>b DEF Held, NewBlocks
  <2>6. inodes[op.inode].type = "file" /\ op.inode = Lookup(op.path)
    BY <2>3, <2>4 DEF Held, OpenFile, Running, Open
  <2>7. EntriesGrow
    BY <1>s, <2>2, <2>5, <2>6, GrowErased
  <2>8. ASSUME NEW p \in Paths, acked[p] # NoBuffer, IsFile(Lookup(p)) PROVE FileKept(Lookup(p))
    <3>1. PICK i \in Inode : i = Lookup(p) /\ i # op.inode
      BY <1>s, <2>3, <2>4, <2>8, OthersRead DEF Links
    <3>2. \A l \in DOMAIN inodes[i].direct :
            inodes[i].direct[l] \in Block /\ inodes[i].direct[l] # b
      BY <1>s, <2>5, <3>1 DEF DiskRule, Points
    <3> QED
      BY <2>2, <3>1, <3>2 DEF FileKept
  <2>9. AckedRead'
    BY <1>d, <1>s, <2>2, <2>3, <2>7, <2>8, AckedKept
  <2>10. RootStays'
    <3>1. \A i \in Inode : Named(i)' => Named(i)
      BY <2>1, <2>2, <2>3, LinksErased
    <3> QED
      BY <2>2, <2>3, <3>1, ConstFacts DEF RootStays
  <2>11. /\ op'.todo = Tail(op.todo) /\ op'.write = op.write /\ op'.path = op.path
         /\ op'.buffer = op.buffer /\ op'.blocks = op.blocks /\ op'.inode = op.inode
         /\ Left' = Left - 1
    BY <2>2, <2>n DEF GoesOn
  <2>12. ASSUME NEW steps, AtAny(steps)' PROVE \E j \in steps : Follows("write_data", j)
    BY <1>s, <2>4, <2>11, <2>12, NextStep
  <2>13. ~AtAny(EntrySteps)' /\ ~AtAny({"write_dir"})' /\ ~AtAny(SaveSteps)'
    BY <2>12 DEF Follows, SaveSteps, EntrySteps
  <2>14. Lookup(op.path)' = op'.inode
    <3>1. PICK q \in Paths : q = op.path
      BY <2>1
    <3>2. Lookup(q)' = Lookup(q)
      BY <1>d, <1>s, <2>1, <2>6, <2>7, <3>1, LookupKept, ConstFacts
    <3> QED
      BY <2>6, <2>11, <3>1, <3>2
  <2>15. \A j \in 1 .. Len(op'.buffer) + 4 - Left' : contents'[op'.blocks[j]].data = op'.buffer[j]
    <3>1. Len(op'.buffer) + 4 - Left' = k
      BY <2>1, <2>n, <2>11
    <3>2. ASSUME NEW j \in 1 .. k PROVE contents'[op.blocks[j]].data = op.buffer[j]
      <4>1. CASE j = k
        BY <2>1, <2>2, <2>b, <4>1
      <4>2. CASE j # k
        <5>1. j \in 1 .. Len(op.buffer) + 4 - Left
          BY <2>1, <2>n, <4>2
        <5>2. contents[op.blocks[j]].data = op.buffer[j]
          BY <2>3, <2>4, <5>1 DEF Running, DataWritten
        <5>3. j \in DOMAIN op.blocks
          <6>1. DOMAIN op.blocks = 1 .. Len(op.blocks) /\ Len(op.blocks) \in Nat
            BY <2>1
          <6> QED
            BY <2>1, <6>1
        <5>4. op.blocks[j] # b
          BY <2>1, <2>5, <2>b, <4>2, <5>3
        <5>5. op.blocks[j] \in Block
          BY <2>1, <5>3
        <5> QED
          BY <2>2, <5>2, <5>4, <5>5
      <4> QED
        BY <4>1, <4>2
    <3> QED
      BY <2>11, <3>1, <3>2
  <2>16. NotAckedYet'
    BY <2>1, <2>2, <2>3, <2>4, <2>11 DEF NotAckedYet, Running, AtAny
  <2>17. Running'
    BY <2>13, <2>14, <2>15, <2>16 DEF Running, Open, DataWritten
  <2> QED
    BY <2>9, <2>10, <2>17
<1>14. CASE SyncBlockBitmap \/ SyncInodeBitmap \/ SyncSuperblock
  <2>1. UNCHANGED <<inodes, contents, torn>> /\ GoesOn(op)
    BY <1>s, <1>14, SyncStepDoes
  <2>2. PICK h \in SaveSteps : At(h) /\ (SyncSuperblock => h = "superblock")
    BY <1>14 DEF SyncBlockBitmap, SyncInodeBitmap, SyncSuperblock, SaveSteps
  <2>3. AtAny(SaveSteps) /\ op.todo # <<>>
    BY <2>2 DEF At, AtAny
  <2>4. Running /\ AckedRead
    BY <1>s, <2>1
  <2>5. CASE ~op.write
    <3>1. acked' = acked
      BY <1>s, <1>14, <2>5, SyncStepDoes
    <3>2. op' = Idle \/ (op'.todo = Tail(op.todo) /\ op'.write = op.write)
      BY <2>1 DEF GoesOn
    <3>3. Running'
      <4>1. CASE op' = Idle
        BY <1>i, <4>1
      <4>2. CASE op' # Idle
        <5>1. op'.todo = Tail(op.todo) /\ ~op'.write
          BY <2>5, <3>2, <4>2
        <5>2. h \in {"block_bitmap", "inode_bitmap", "superblock"}
          BY DEF SaveSteps
        <5> QED
          BY <1>s, <2>2, <5>1, <5>2, RunsOn
      <4> QED
        BY <4>1, <4>2
    <3> QED
      BY <1>a, <1>s, <2>1, <3>1, <3>3
  <2>6. CASE op.write
    <3>1. op.path \in Paths /\ IsFile(Lookup(op.path)) /\ ReadFile(op.path) = op.buffer
      BY <1>s, <2>3, <2>4, <2>6, Writing DEF Running, DataWritten
    <3>2. acked[op.path] = NoBuffer
      BY <2>3, <2>4, <2>6 DEF Running, NotAckedYet
    <3>3. CASE h = "superblock"
      <4>1. op' = Idle
        BY <1>s, <2>1, <2>2, <2>6, <3>3, Writing DEF GoesOn
      <4>2. SyncSuperblock
        BY <1>14, <2>2, <3>3 DEF SyncBlockBitmap, SyncInodeBitmap, At
      <4>3. acked' = [acked EXCEPT ![op.path] = op.buffer]
        BY <1>s, <2>6, <4>2, SyncStepDoes
      <4>4. acked \in [Paths -> Buffers \cup {NoBuffer}]
        BY <1>s DEF ShapeInv, OtherTypes
      <4>5. acked'[op.path] = op.buffer /\ \A p \in Paths : p # op.path => acked'[p] = acked[p]
        BY <3>1, <4>3, <4>4
      <4>6. EntriesGrow /\ \A i : FileKept(i)
        BY <2>1, GrowSame
      <4>7. ASSUME NEW p \in Paths, acked'[p] # NoBuffer
            PROVE  IsFile(Lookup(p))' /\ ReadFile(p)' = acked'[p]
        <5>1. IsFile(Lookup(p)) /\ ReadFile(p) = acked'[p]
          BY <2>4, <3>1, <4>5, <4>7 DEF AckedRead
        <5> QED
          BY <1>d, <1>s, <4>6, <5>1, ReadKept
      <4>8. AckedRead'
        BY <4>7 DEF AckedRead
      <4>9. RootStays'
        BY <1>s, <2>1 DEF RootStays, Named
      <4> QED
        BY <1>i, <4>1, <4>8, <4>9
    <3>4. CASE h # "superblock"
      <4>1. acked' = acked
        BY <1>s, <1>14, <2>2, <3>4, SyncStepDoes
      <4>2. CASE op' = Idle
        BY <1>a, <1>i, <1>s, <2>1, <4>1, <4>2
      <4>3. CASE op' # Idle
        <5>1. op'.todo = Tail(op.todo) /\ op'.path = op.path /\ op'.buffer = op.buffer
          BY <2>1, <4>3 DEF GoesOn
        <5>2. ASSUME NEW steps, AtAny(steps)' PROVE \E k \in steps : Follows(h, k)
          BY <1>s, <2>2, <5>1, <5>2, NextStep
        <5>3. ~AtAny(EntrySteps)' /\ ~AtAny({"write_dir"})' /\ ~AtAny(DataSteps)'
          BY <5>2 DEF Follows, EntrySteps, DataSteps, SaveSteps
        <5>4. PICK q \in Paths : q = op.path
          BY <3>1
        <5>5. /\ RootStays' /\ AckedRead'
              /\ IsFile(Lookup(q))' /\ ReadFile(q)' = ReadFile(q)
          BY <1>a, <1>s, <2>1, <3>1, <4>1, <5>4
        <5>6. IsFile(Lookup(op.path))' /\ ReadFile(op.path)' = op'.buffer
          BY <3>1, <5>1, <5>4, <5>5
        <5>7. NotAckedYet'
          BY <3>2, <4>1, <5>1 DEF NotAckedYet
        <5> QED
          BY <5>3, <5>5, <5>6, <5>7 DEF Running, Open, DataWritten
      <4> QED
        BY <4>2, <4>3
    <3> QED
      BY <3>3, <3>4
  <2> QED
    BY <2>5, <2>6
<1>15. CASE Unmounted \/ mount \/ Crash
  <2>1. UNCHANGED <<inodes, contents, acked>> /\ op' = Idle /\ ~torn
    BY <1>s, <1>15, DropDoes DEF disk
  <2> QED
    BY <1>a, <1>i, <2>1
<1>16. CASE IoError
  <2>1. UNCHANGED <<disk, acked, torn>>
    BY <1>s, <1>16, IoErrorDoes
  <2>2. op' = Idle \/ (op'.todo = <<"remove">> /\ ~op'.write)
    BY <1>s, <1>16, IoErrorDoes DEF UnmountCall
  <2>3. Running'
    BY <1>i, <2>2, RunsNew
  <2> QED
    BY <1>o, <2>1, <2>3
<1>17. CASE UNCHANGED vars
  <2>1. UNCHANGED <<inodes, contents, acked, op, torn>>
    BY <1>17 DEF vars
  <2>2. /\ RootStays' /\ AckedRead'
        /\ \A p \in Paths : IsFile(Lookup(p)) =>
                Lookup(p)' = Lookup(p) /\ IsFile(Lookup(p))' /\ ReadFile(p)' = ReadFile(p)
    BY <1>a, <1>s, <2>1
  <2>3. \A steps : AtAny(steps)' <=> AtAny(steps)
    BY <2>1 DEF AtAny
  <2>4. Held /\ Running
    BY <1>s, <2>1
  <2>5. ASSUME op.todo # <<>>, op.write, IsFile(Lookup(op.path))
        PROVE  /\ Lookup(op.path)' = Lookup(op.path) /\ IsFile(Lookup(op.path))'
               /\ ReadFile(op.path)' = ReadFile(op.path)
    <3>1. PICK q \in Paths : q = op.path
      BY <1>s, <2>5, Writing
    <3> QED
      BY <2>1, <2>2, <2>5, <3>1
  <2>6. AtAny(DataSteps) => op.todo # <<>> /\ op.write /\ IsFile(Lookup(op.path))
    BY <1>s, <2>4, Writing, ConstFacts DEF Held, OpenFile, Running, Open, IsFile, AtAny
  <2>7. Open'
    BY <2>1, <2>3, <2>4, <2>5, <2>6 DEF Running, Open, Points
  <2>8. DataWritten'
    BY <2>1, <2>3, <2>4, <2>5 DEF Running, DataWritten, Left, AtAny
  <2>9. NotAckedYet'
    BY <2>1, <2>4 DEF Running, NotAckedYet
  <2> QED
    BY <2>2, <2>7, <2>8, <2>9 DEF Running
<1> QED
  BY <1>1, <1>2, <1>3, <1>4, <1>5, <1>6, <1>7, <1>8, <1>9, <1>10, <1>11, <1>12, <1>13, <1>14,
     <1>15, <1>16, <1>17 DEF Next, FsStep, End

(***************************************************************************)
(* What a successful write_file wrote is what read_file returns until the  *)
(* path is written again, for any tree, whatever other calls succeed, fail *)
(* or run out of space and whenever the machine is restarted, unless a     *)
(* call was torn.                                                          *)
(***************************************************************************)
THEOREM AcknowledgedIsRead == Spec => []AckedIsRead
<1>1. ReadInv => AckedIsRead
  BY DEF ReadInv, AckedRead, AckedIsRead
<1> QED
  BY <1>1, InitRead, ReadStep, PTL DEF Spec

================================================================================
