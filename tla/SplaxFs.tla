-------------------------------- MODULE SplaxFs --------------------------------
(***************************************************************************)
(* SplaxFS, kernel/src/fs/splaxfs.rs, on a device that format has prepared *)
(* and one mount point.  Every call holds MOUNTED_FS until it returns, so  *)
(* calls do not interleave; what a call is interleaved with is the end of  *)
(* the machine (Crash) and a failing device (IoError) before any of its    *)
(* block writes.  One step is one allocation or one block write.  A block  *)
(* is written whole or not at all.                                         *)
(*                                                                         *)
(* The journal is never open here: mount looks for its superblock in block *)
(* 1, where format puts the block bitmap, so begin_transaction fails and   *)
(* the _journaled calls are the plain ones.                                *)
(*                                                                         *)
(* Sizes are counted in blocks and the contents of a block of file data    *)
(* are one value.  What such a block shows when it is parsed as a          *)
(* directory, which entries and which inode numbers, nothing in the code   *)
(* limits; so the model ends (Misread) when, after a torn call, a          *)
(* directory that a path leads to has file data in its block.              *)
(***************************************************************************)
EXTENDS Integers, Sequences, FiniteSets

CONSTANTS
    Paths,       \* the paths calls are made with: nonempty sequences of names
    Buffers,     \* what write_file is given: sequences of block values
    NoData,      \* the value of a block that holds no file data
    NoBuffer,    \* no write of this path has succeeded since the last attempt
    NumInodes,   \* total_inodes
    NumBlocks,   \* data blocks
    DirSlots,    \* entries of a directory block besides . and ..
    DIRECT_BLOCKS,
    MaxFaults    \* bound: crashes and failed block writes

Inode == 1 .. NumInodes
Block == 1 .. NumBlocks
ROOT_INODE == 2
RootBlock == 1
None == 0

ASSUME SplaxFsAssumption ==
    /\ NumInodes \in Nat /\ NumInodes >= 3
    /\ NumBlocks \in Nat /\ NumBlocks >= 1
    /\ DirSlots \in Nat /\ DIRECT_BLOCKS \in Nat /\ MaxFaults \in Nat
    /\ \A p \in Paths : p # <<>> /\ p \in Seq({p[k] : k \in DOMAIN p})
    /\ \A b \in Buffers : b \in Seq({b[k] : k \in DOMAIN b})
    /\ NoBuffer \notin Buffers

VARIABLES
    inodes,      \* disk: the inode table
    contents,    \* disk: the data blocks
    saved,       \* disk: block bitmap, inode bitmap, superblock (blocks 1, 2, 0)
    fs,          \* memory: the same three, of the mounted SplaxFs
    mounted,     \* the mount point is in MOUNTED_FS
    op,          \* the call that is running
    faults,
    acked,       \* history: what the last successful write_file of a path wrote
    unsaved,     \* history: the disk was written after the bitmaps were
    torn         \* history: memory was dropped while the bitmaps were unsaved

disk == <<inodes, contents, saved>>
vars == <<inodes, contents, saved, fs, mounted, op, faults, acked, unsaved, torn>>

--------------------------------------------------------------------------------
(* What is on the disk *)

NoInode == [type |-> "unknown", direct |-> <<>>, size |-> 0]
FileInode == [type |-> "file", direct |-> <<>>, size |-> 0]
DirInode(b) == [type |-> "dir", direct |-> <<b>>, size |-> 1]

EmptyDir == [entries |-> <<>>, data |-> NoData]
DataBlock(v) == [entries |-> <<>>, data |-> v]

IsDir(i) == i # None /\ inodes[i].type = "dir"
IsFile(i) == i # None /\ inodes[i].type = "file"

(* the entries of the first block of a directory, which is all that is read *)
Entries(i) ==
    IF IsDir(i) /\ inodes[i].direct # <<>>
    THEN contents[inodes[i].direct[1]].entries
    ELSE <<>>

\* Wrong variant: the last entry of that name counts.
ChildLast(i, name) ==
    LET hits == {k \in DOMAIN Entries(i) : Entries(i)[k].name = name}
    IN IF hits = {} THEN None
       ELSE Entries(i)[CHOOSE k \in hits : \A l \in hits : k >= l].inode

(* the first entry of that name counts *)
Child(i, name) ==
    LET hits == {k \in DOMAIN Entries(i) : Entries(i)[k].name = name}
    IN IF hits = {} THEN None
       ELSE Entries(i)[CHOOSE k \in hits : \A l \in hits : k <= l].inode

(* lookup_path *)
Lookup(path) ==
    LET walk[k \in 0 .. Len(path)] ==
            IF k = 0 THEN ROOT_INODE ELSE Child(walk[k - 1], path[k])
    IN walk[Len(path)]

Parent(path) == Lookup(SubSeq(path, 1, Len(path) - 1))

(* lookup_path or readdir would take file data for entries *)
Misread ==
    \E i \in Inode :
        /\ IsDir(i) /\ inodes[i].direct # <<>>
        /\ contents[inodes[i].direct[1]].data # NoData
        /\ \E path \in Paths : \E k \in 0 .. Len(path) : Lookup(SubSeq(path, 1, k)) = i

(* read_file *)
ReadFile(path) ==
    LET inode == inodes[Lookup(path)]
    IN [k \in 1 .. inode.size |-> contents[inode.direct[k]].data]

--------------------------------------------------------------------------------

Idle == [todo |-> <<>>]

(* The state format leaves, mounted: bits 0, 1 and 2 of the inode bitmap   *)
(* are set, which stand for inodes 1 to 3, the free counts of the          *)
(* superblock count inode 3 and the block of the root directory as free.   *)
Formatted ==
    [blocks |-> {RootBlock}, inodes |-> 1 .. 3,
     free_blocks |-> NumBlocks, free_inodes |-> NumInodes - 2]

Init ==
    /\ inodes = [i \in Inode |-> IF i = ROOT_INODE THEN DirInode(RootBlock) ELSE NoInode]
    /\ contents = [b \in Block |-> EmptyDir]
    /\ saved = Formatted
    /\ fs = Formatted
    /\ mounted = TRUE
    /\ op = Idle
    /\ faults = 0
    /\ acked = [p \in Paths |-> NoBuffer]
    /\ unsaved = FALSE
    /\ torn = FALSE

--------------------------------------------------------------------------------
(* A call is the list of the steps it has still to take *)

\* Wrong variant: the superblock first.
sync_superblock_first == <<"superblock", "block_bitmap", "inode_bitmap">>

sync_bitmaps == <<"block_bitmap", "inode_bitmap", "superblock">>

Begin(todo, path, buffer) ==
    /\ mounted /\ op = Idle
    /\ op' = [todo |-> todo, path |-> path, buffer |-> buffer, blocks |-> <<>>,
              inode |-> None, dir |-> None, write |-> FALSE]
    /\ UNCHANGED <<disk, fs, mounted, faults, acked, unsaved, torn>>

\* Wrong variant: the entry before the inode it names.
create_file_entry_first(path) ==
    Begin(<<"alloc_inode", "find_dir", "add_dirent", "write_inode">> \o sync_bitmaps, path, <<>>)

create_file(path) ==
    Begin(<<"alloc_inode", "find_dir", "write_inode", "add_dirent">> \o sync_bitmaps, path, <<>>)

create_dir(path) ==
    Begin(<<"alloc_inode", "alloc_block", "find_dir", "write_dir_inode", "write_dir",
            "add_dirent">> \o sync_bitmaps, path, <<>>)

(* a file has no blocks but the direct ones *)
write_file(path, buffer) ==
    /\ Len(buffer) <= DIRECT_BLOCKS
    /\ Begin([k \in 1 .. Len(buffer) |-> "alloc_block"] \o <<"find_file">>
               \o [k \in 1 .. Len(buffer) |-> "write_data"] \o <<"write_file_inode">>
               \o sync_bitmaps, path, buffer)

sync == Begin(sync_bitmaps, <<>>, <<>>)

(* unmount ignores what sync returns *)
unmount == Begin(sync_bitmaps \o <<"remove">>, <<>>, <<>>)

At(step) == op.todo # <<>> /\ Head(op.todo) = step
Rest(o) == IF Len(o.todo) = 1 THEN Idle ELSE [o EXCEPT !.todo = Tail(@)]
Return == op' = Idle

--------------------------------------------------------------------------------
(* Steps in memory; a call that gives up keeps what it has allocated *)

FirstFree(S, used, x) == x \in S \ used /\ \A y \in S \ used : x <= y

alloc_inode ==
    /\ At("alloc_inode")
    /\ \/ \E i \in Inode :
            /\ FirstFree(Inode, fs.inodes, i)
            /\ fs' = [fs EXCEPT !.inodes = @ \cup {i}, !.free_inodes = @ - 1]
            /\ op' = Rest([op EXCEPT !.inode = i])
       \/ /\ Inode \subseteq fs.inodes
          /\ Return
          /\ UNCHANGED fs
    /\ UNCHANGED <<disk, mounted, faults, acked, unsaved, torn>>

alloc_block ==
    /\ At("alloc_block")
    /\ \/ \E b \in Block :
            /\ FirstFree(Block, fs.blocks, b)
            /\ fs' = [fs EXCEPT !.blocks = @ \cup {b}, !.free_blocks = @ - 1]
            /\ op' = Rest([op EXCEPT !.blocks = Append(@, b)])
       \/ /\ Block \subseteq fs.blocks
          /\ Return
          /\ UNCHANGED fs
    /\ UNCHANGED <<disk, mounted, faults, acked, unsaved, torn>>

FindDir ==
    /\ At("find_dir")
    /\ op' = IF IsDir(Parent(op.path)) THEN Rest([op EXCEPT !.dir = Parent(op.path)]) ELSE Idle
    /\ UNCHANGED <<disk, fs, mounted, faults, acked, unsaved, torn>>

(* The pointers of write_file's copy of the inode: new blocks only where   *)
(* the file has none yet; the others allocated for this call stay marked.  *)
Extended(direct, blocks, n) ==
    [k \in 1 .. IF n > Len(direct) THEN n ELSE Len(direct) |->
        IF k <= Len(direct) THEN direct[k] ELSE blocks[k - Len(direct)]]

FindFile ==
    /\ At("find_file")
    /\ LET i == Lookup(op.path)
       IN IF IsFile(i)
          THEN /\ op' = Rest([op EXCEPT !.inode = i, !.write = TRUE,
                         !.blocks = Extended(inodes[i].direct, op.blocks, Len(op.buffer))])
               /\ acked' = [acked EXCEPT ![op.path] = NoBuffer]
          ELSE Return /\ UNCHANGED acked
    /\ UNCHANGED <<disk, fs, mounted, faults, unsaved, torn>>

--------------------------------------------------------------------------------
(* Block writes *)

WriteInode(step, inode) ==
    /\ At(step)
    /\ inodes' = [inodes EXCEPT ![op.inode] = inode]
    /\ op' = Rest(op)
    /\ unsaved' = TRUE
    /\ UNCHANGED <<contents, saved, fs, mounted, faults, acked, torn>>

WriteContents(step, block, content) ==
    /\ At(step)
    /\ contents' = [contents EXCEPT ![block] = content]
    /\ op' = Rest(op)
    /\ unsaved' = TRUE
    /\ UNCHANGED <<inodes, saved, fs, mounted, faults, acked, torn>>

WriteNewFile == WriteInode("write_inode", FileInode)
WriteNewDir == WriteInode("write_dir_inode", DirInode(op.blocks[1]))
WriteDirBlock == WriteContents("write_dir", op.blocks[1], EmptyDir)

(* add_dirent: the first free slot of the directory's block; the inode of  *)
(* the directory is read again; Corrupted, NoSpace                         *)
AddDirent ==
    LET direct == inodes[op.dir].direct
        entries == contents[direct[1]].entries
        entry == [name |-> op.path[Len(op.path)], inode |-> op.inode]
        has_slot == direct # <<>> /\ Len(entries) < DirSlots
    IN \/ /\ At("add_dirent")
          /\ has_slot
          /\ WriteContents("add_dirent", direct[1],
                [entries |-> Append(entries, entry), data |-> NoData])
       \/ /\ At("add_dirent")
          /\ ~has_slot
          /\ Return
          /\ UNCHANGED <<disk, fs, mounted, faults, acked, unsaved, torn>>

(* the k-th value goes to the k-th block, k counted from what is left to write *)
WriteData ==
    LET k == 1 + Len(op.buffer)
               - Cardinality({j \in DOMAIN op.todo : op.todo[j] = "write_data"})
    IN WriteContents("write_data", op.blocks[k], DataBlock(op.buffer[k]))

WriteFileInode ==
    WriteInode("write_file_inode",
        [type |-> "file", direct |-> op.blocks, size |-> Len(op.buffer)])

SyncBlockBitmap ==
    /\ At("block_bitmap")
    /\ saved' = [saved EXCEPT !.blocks = fs.blocks]
    /\ op' = Rest(op)
    /\ UNCHANGED <<inodes, contents, fs, mounted, faults, acked, unsaved, torn>>

SyncInodeBitmap ==
    /\ At("inode_bitmap")
    /\ saved' = [saved EXCEPT !.inodes = fs.inodes]
    /\ op' = Rest(op)
    /\ unsaved' = FALSE
    /\ UNCHANGED <<inodes, contents, fs, mounted, faults, acked, torn>>

SyncSuperblock ==
    /\ At("superblock")
    /\ saved' = [saved EXCEPT !.free_blocks = fs.free_blocks, !.free_inodes = fs.free_inodes]
    /\ op' = Rest(op)
    /\ acked' = IF op.write THEN [acked EXCEPT ![op.path] = op.buffer] ELSE acked
    /\ UNCHANGED <<inodes, contents, fs, mounted, faults, unsaved, torn>>

--------------------------------------------------------------------------------
(* Losing memory *)

Drop ==
    /\ torn' = (torn \/ unsaved)
    /\ unsaved' = FALSE

Unmounted ==
    /\ At("remove")
    /\ mounted' = FALSE
    /\ Return
    /\ Drop
    /\ UNCHANGED <<disk, fs, faults, acked>>

(* mount reads the bitmaps and replaces what is mounted there, unsynced *)
mount ==
    /\ op = Idle
    /\ fs' = saved
    /\ mounted' = TRUE
    /\ Drop
    /\ UNCHANGED <<disk, op, faults, acked>>

Crash ==
    /\ mounted /\ faults < MaxFaults
    /\ mounted' = FALSE
    /\ Return
    /\ Drop
    /\ faults' = faults + 1
    /\ UNCHANGED <<disk, fs, acked>>

\* Wrong variant: a call that fails takes its allocations back.
IoErrorRollsBack ==
    /\ op.todo # <<>> /\ faults < MaxFaults
    /\ Head(op.todo) \notin {"alloc_inode", "alloc_block", "remove"}
    /\ op' = IF op.todo[Len(op.todo)] = "remove" THEN [op EXCEPT !.todo = <<"remove">>] ELSE Idle
    /\ fs' = saved
    /\ faults' = faults + 1
    /\ UNCHANGED <<disk, mounted, acked, unsaved, torn>>

(* write_sectors fails: the call returns, unmount goes on without sync *)
IoError ==
    /\ op.todo # <<>> /\ faults < MaxFaults
    /\ Head(op.todo) \notin {"alloc_inode", "alloc_block", "remove"}
    /\ op' = IF op.todo[Len(op.todo)] = "remove" THEN [op EXCEPT !.todo = <<"remove">>] ELSE Idle
    /\ faults' = faults + 1
    /\ UNCHANGED <<disk, fs, mounted, acked, unsaved, torn>>

FsStep ==
    \/ \E path \in Paths :
        \/ create_file(path)
        \/ create_dir(path)
        \/ \E buffer \in Buffers : write_file(path, buffer)
    \/ sync \/ unmount \/ mount
    \/ alloc_inode \/ alloc_block \/ FindDir \/ FindFile
    \/ WriteNewFile \/ WriteNewDir \/ WriteDirBlock \/ AddDirent
    \/ WriteData \/ WriteFileInode
    \/ SyncBlockBitmap \/ SyncInodeBitmap \/ SyncSuperblock
    \/ Unmounted \/ Crash \/ IoError

End == Misread /\ UNCHANGED vars

Next == (~Misread /\ FsStep) \/ End

Spec == Init /\ [][Next]_vars

--------------------------------------------------------------------------------

Bitmaps ==
    [blocks : SUBSET Block, inodes : SUBSET Inode, free_blocks : Int, free_inodes : Int]

TypeOK ==
    /\ \A i \in Inode : /\ inodes[i].type \in {"unknown", "file", "dir"}
                        /\ inodes[i].direct \in Seq(Block)
                        /\ inodes[i].size \in 0 .. Len(inodes[i].direct)
    /\ \A b \in Block : Len(contents[b].entries) <= DirSlots
    /\ saved \in Bitmaps /\ fs \in Bitmaps
    /\ mounted \in BOOLEAN /\ unsaved \in BOOLEAN /\ torn \in BOOLEAN
    /\ faults \in 0 .. MaxFaults
    /\ acked \in [Paths -> Buffers \cup {NoBuffer}]

(* Entries of all directory blocks: <<block, slot>> *)
Slots == {s \in Block \X (1 .. DirSlots) : s[2] \in DOMAIN contents[s[1]].entries}
EntryInode(s) == contents[s[1]].entries[s[2]].inode

(* Pointers of all inodes: <<inode, index>> *)
Pointers == {s \in Inode \X (1 .. NumBlocks) : s[2] \in DOMAIN inodes[s[1]].direct}
PointerBlock(s) == inodes[s[1]].direct[s[2]]

(* create_file, create_dir, write_file: unless memory was dropped between  *)
(* a block write and the bitmaps that belong to it, no inode has two       *)
(* names, no block belongs to two files or directories or twice to one,    *)
(* and the mounted bitmaps mark all that is in use.  Failed calls, calls   *)
(* repeated, remounts and crashes between calls do not matter.             *)
NoCrossLink ==
    ~torn =>
        /\ \A s, t \in Slots : EntryInode(s) = EntryInode(t) => s = t
        /\ \A s, t \in Pointers : PointerBlock(s) = PointerBlock(t) => s = t
        /\ mounted =>
            /\ \A s \in Slots : EntryInode(s) \in fs.inodes
            /\ \A s \in Pointers : PointerBlock(s) \in fs.blocks

(* write_file: what a successful write wrote is what read_file returns     *)
(* until the next attempt to write that path, whatever other calls succeed *)
(* or fail and whenever the machine is restarted, unless a call was torn.  *)
AckedIsRead ==
    ~torn => \A p \in Paths :
        acked[p] # NoBuffer => IsFile(Lookup(p)) /\ ReadFile(p) = acked[p]

(* create_file, create_dir: an entry names an inode that was written, also *)
(* after a crash or a failure at any point of a call and whatever is done  *)
(* after it, until a directory's block has been given to a file: from then *)
(* on the bytes of the file are the entries.                               *)
NamedIsInitialised ==
    ~Misread => \A s \in Slots : inodes[EntryInode(s)].type # "unknown"

(* alloc_block, alloc_inode decrement a u32 for every clear bit they find: *)
(* the counts, which are written after the bitmaps, never fall below the   *)
(* number of clear bits, in memory or, should the machine stop now, after  *)
(* the next mount; again until a directory's block holds file data.        *)
FreeCountsSuffice ==
    \A m \in {saved, fs} :
        /\ m.free_blocks >= Cardinality(Block \ m.blocks)
        /\ m.free_inodes >= Cardinality(Inode \ m.inodes)

FsInv == TypeOK /\ NoCrossLink

================================================================================
