-------------------------------- MODULE Mkfs --------------------------------
(***************************************************************************)
(* mkfs (mkfs/src/main.rs, fs.rs): builds the file system image from the   *)
(* files named on its command line. The image is a sequence of sectors; a  *)
(* sector is viewed as inodes, as block addresses or as data, as the code  *)
(* casts it. A directory entry and a byte of a file are one unit of data,  *)
(* BlkSize units to a sector.                                              *)
(***************************************************************************)
EXTENDS Integers, Sequences, FiniteSets

CONSTANTS
    BlkSize, NDirect, NIndirect, InodesPerBlock, BitsPerBlock, DirSize,
    FsSize, NInodes, NLog,
    OldBlocks,  \* length of an image already in the output file
    MaxFiles,   \* bound on the number of files
    FileLens,   \* lengths of the input files
    NameLens    \* lengths of their names, the leading "_" stripped

ASSUME MkfsAssumption ==
    /\ {BlkSize, NDirect, NIndirect, InodesPerBlock, BitsPerBlock, DirSize, FsSize, NInodes}
          \subseteq Nat \ {0}
    /\ {NLog, OldBlocks, MaxFiles} \cup FileLens \subseteq Nat
    /\ NameLens \subseteq Nat \ {0}

MaxFile == NDirect + NIndirect
NBitmap == FsSize \div BitsPerBlock + 1
NInodeBlocks == NInodes \div InodesPerBlock + 1
NMeta == 2 + NLog + NInodeBlocks + NBitmap
RootIno == 1

\* The number of data blocks, FS_SIZE - N_META, is a usize constant. The output
\* file is new or an image that mkfs made before, which has FS_SIZE sectors.
ASSUME LayoutAssumption == NMeta <= FsSize /\ OldBlocks <= FsSize

\* The super block's fields that mkfs itself uses.
inode_start == 2 + NLog
bmap_start == 2 + NLog + NInodeBlocks

Unit(inum, pos) == [inum |-> inum, pos |-> pos]
NoUnit == Unit(0, 0)
DirEnt(inum) == Unit(inum, -1)

VARIABLES
    pc,
    image,                  \* the output file, sector by sector
    free_inode, free_block, \* FsBuilder's counters
    inum, din, off, data,   \* append_inode: argument, inode, offset, what is left
    ret,                    \* where append_inode returns to
    nread, lens             \* units read of the current file; all files so far

vars == <<pc, image, free_inode, free_block, inum, din, off, data, ret, nread, lens>>
locals == <<inum, din, off, data, ret>>

Zeros == [kind |-> "zeros"]
ZeroInode == [type |-> "none", size |-> 0, addrs |-> [i \in 0..NDirect |-> 0]]

\* The casts of a sector: what is not yet written reads as zeros.
AsInodes(s) == IF s.kind = "inodes" THEN s.cells
               ELSE [i \in 0..(InodesPerBlock - 1) |-> ZeroInode]
AsAddrs(s) == IF s.kind = "addrs" THEN s.cells ELSE [i \in 0..(NIndirect - 1) |-> 0]
AsData(s) == IF s.kind = "data" THEN s.cells ELSE [i \in 0..(BlkSize - 1) |-> NoUnit]

\* (block, index) containing inode i
InodePos(i) == [blk |-> inode_start + i \div InodesPerBlock, idx |-> i % InodesPerBlock]

ReadInode(img, i) == AsInodes(img[InodePos(i).blk])[InodePos(i).idx]

WriteInode(img, i, ind) ==
    [img EXCEPT ![InodePos(i).blk] =
        [kind |-> "inodes", cells |-> [AsInodes(@) EXCEPT ![InodePos(i).idx] = ind]]]

Init ==
    /\ pc = "create"
    /\ image = [b \in 0..(OldBlocks - 1) |-> [kind |-> "old"]]
    /\ free_inode = 1 /\ free_block = NMeta
    /\ inum = 0 /\ din = ZeroInode /\ off = 0 /\ data = <<>> /\ ret = "none"
    /\ nread = 0 /\ lens = <<>>

-----------------------------------------------------------------------------
(* FsBuilder *)

\* create: the output file is opened without truncating it; the first FsSize
\* sectors are cleared and the super block is written.
Create ==
    /\ pc = "create" /\ pc' = "root"
    /\ image' = [b \in DOMAIN image \cup 0..(FsSize - 1) |->
                    CASE b = 1 -> [kind |-> "super"]
                      [] b # 1 /\ b < FsSize -> Zeros
                      [] OTHER -> image[b]]
    /\ UNCHANGED <<free_inode, free_block, locals, nread, lens>>

\* The call append_inode(i, d), which reads the inode from the image img.
CallAppend(img, i, d, after) ==
    /\ inum' = i /\ data' = d /\ ret' = after
    /\ din' = ReadInode(img, i)
    /\ off' = din'.size
    /\ pc' = "append"

\* Writes what fits of the rest of data into block fbn, found at sector sect of
\* img. A sector beyond the end of the file cannot be read: mkfs fails.
CopyTo(img, sect, fbn) ==
    LET nw == IF Len(data) < (fbn + 1) * BlkSize - off THEN Len(data)
              ELSE (fbn + 1) * BlkSize - off
        begin == off % BlkSize
        put(cells) == [i \in DOMAIN cells |->
                          IF i \in begin..(begin + nw - 1) THEN data[i - begin + 1] ELSE cells[i]]
    IN IF sect \notin DOMAIN img
       THEN pc' = "err" /\ image' = img /\ UNCHANGED <<off, data>>
       ELSE /\ image' = [img EXCEPT ![sect] = [kind |-> "data", cells |-> put(AsData(@))]]
            /\ off' = off + nw
            /\ data' = SubSeq(data, nw + 1, Len(data))
            /\ UNCHANGED pc

\* Mutant of AppendDirect: a block is taken for every chunk.
AppendDirectAlways(fbn) ==
    /\ fbn < NDirect
    /\ free_block' = free_block + 1
    /\ din' = [din EXCEPT !.addrs[fbn] = free_block]
    /\ CopyTo(image, free_block, fbn)

\* A turn of append_inode's loop for a block addressed by the inode.
AppendDirect(fbn) ==
    LET new  == din.addrs[fbn] = 0
        sect == IF new THEN free_block ELSE din.addrs[fbn]
    IN  /\ fbn < NDirect
        /\ free_block' = free_block + (IF new THEN 1 ELSE 0)
        /\ din' = [din EXCEPT !.addrs[fbn] = sect]
        /\ CopyTo(image, sect, fbn)

\* Mutant of AppendIndirect: the updated table of addresses is not written back.
AppendIndirectLost(fbn) ==
    LET newi == din.addrs[NDirect] = 0
        ind  == IF newi THEN free_block ELSE din.addrs[NDirect]
        next == free_block + (IF newi THEN 1 ELSE 0)
    IN  /\ fbn \in NDirect..(MaxFile - 1)
        /\ din' = [din EXCEPT !.addrs[NDirect] = ind]
        /\ free_block' = next + 1
        /\ CopyTo(image, next, fbn)

\* A turn of the loop for a block addressed by the indirect block, which is
\* itself allocated on first use and rewritten when an entry is added.
AppendIndirect(fbn) ==
    LET newi == din.addrs[NDirect] = 0
        ind  == IF newi THEN free_block ELSE din.addrs[NDirect]
        next == free_block + (IF newi THEN 1 ELSE 0)
        slot == fbn - NDirect
    IN  /\ fbn \in NDirect..(MaxFile - 1)
        /\ din' = [din EXCEPT !.addrs[NDirect] = ind]
        /\ IF ind \notin DOMAIN image
           THEN pc' = "err" /\ free_block' = next /\ UNCHANGED <<image, off, data>>
           ELSE LET table == AsAddrs(image[ind])
                    new   == table[slot] = 0
                    sect  == IF new THEN next ELSE table[slot]
                    img   == IF ~new THEN image
                             ELSE [image EXCEPT ![ind] =
                                     [kind |-> "addrs", cells |-> [table EXCEPT ![slot] = sect]]]
                IN free_block' = next + (IF new THEN 1 ELSE 0) /\ CopyTo(img, sect, fbn)

AppendBlock ==
    /\ pc = "append" /\ data # <<>>
    /\ LET fbn == off \div BlkSize IN
         \/ AppendDirect(fbn)
         \/ AppendIndirect(fbn)
         \/ /\ fbn >= MaxFile            \* assert!(fbn < MAX_FILE)
            /\ pc' = "panic"
            /\ UNCHANGED <<free_block, din, image, off, data>>
    /\ UNCHANGED <<free_inode, inum, ret, nread, lens>>

\* After the loop: store the size, write the inode and return.
AppendReturn ==
    /\ pc = "append" /\ data = <<>> /\ pc' = ret
    /\ din' = [din EXCEPT !.size = off]
    /\ image' = WriteInode(image, inum, din')
    /\ UNCHANGED <<free_inode, free_block, inum, off, data, ret, nread, lens>>

-----------------------------------------------------------------------------
(* main *)

\* alloc_inode: the image with a fresh inode at free_inode.
NewInode(ty) == WriteInode(image, free_inode, [ZeroInode EXCEPT !.type = ty])

\* The root directory gets the first inode and its first entry.
Root ==
    /\ pc = "root"
    /\ image' = NewInode("Directory")
    /\ free_inode' = free_inode + 1
    /\ CallAppend(image', RootIno, <<DirEnt(RootIno)>>, "dotdot")
    /\ UNCHANGED <<free_block, nread, lens>>

DotDot ==
    /\ pc = "dotdot"
    /\ CallAppend(image, RootIno, <<DirEnt(RootIno)>>, "files")
    /\ UNCHANGED <<image, free_inode, free_block, nread, lens>>

\* The next file of the command line: its inode and its directory entry. A name
\* longer than DirSize panics in set_name.
NextFile ==
    /\ pc = "files" /\ Len(lens) < MaxFiles
    /\ image' = NewInode("Regular")
    /\ free_inode' = free_inode + 1
    /\ nread' = 0
    /\ \E n \in FileLens : lens' = Append(lens, n)
    /\ \E n \in NameLens :
          \/ n <= DirSize /\ CallAppend(image', RootIno, <<DirEnt(free_inode)>>, "read")
          \/ n > DirSize /\ pc' = "panic" /\ UNCHANGED locals
    /\ UNCHANGED free_block

\* Mutant of ReadFile: the end of the file is not noticed.
ReadFileNoEof ==
    /\ pc = "read"
    /\ \E n \in 0..BlkSize :
          /\ n <= lens[Len(lens)] - nread
          /\ nread' = nread + n
          /\ CallAppend(image, free_inode - 1,
                        [k \in 1..n |-> Unit(free_inode - 1, nread + k - 1)], "read")
    /\ UNCHANGED <<image, free_inode, free_block, lens>>

\* Mutant of ReadFile: a read may return more than the buffer holds.
ReadFileOverrun ==
    /\ pc = "read"
    /\ LET left == lens[Len(lens)] - nread IN
         IF left = 0 THEN pc' = "files" /\ UNCHANGED <<locals, nread>>
         ELSE /\ nread' = nread + left
              /\ CallAppend(image, free_inode - 1,
                            [k \in 1..left |-> Unit(free_inode - 1, nread + k - 1)], "read")
    /\ UNCHANGED <<image, free_inode, free_block, lens>>

\* file.read(&mut buf) returns any number of units up to BlkSize, or 0 at the end.
ReadFile ==
    /\ pc = "read"
    /\ LET left == lens[Len(lens)] - nread IN
         \/ /\ left = 0 /\ pc' = "files" /\ UNCHANGED <<locals, nread>>
         \/ \E n \in 1..BlkSize :
               /\ n <= left
               /\ nread' = nread + n
               /\ CallAppend(image, free_inode - 1,
                             [k \in 1..n |-> Unit(free_inode - 1, nread + k - 1)], "read")
    /\ UNCHANGED <<image, free_inode, free_block, lens>>

\* Mutant of Finish: the bitmap leaves out the last block taken.
FinishOffByOne ==
    /\ pc = "files" /\ pc' = "done"
    /\ image' = [image EXCEPT ![bmap_start] = [kind |-> "bitmap", used |-> 0..(free_block - 2)]]
    /\ UNCHANGED <<free_inode, free_block, locals, nread, lens>>

\* The end of main: round the root's size up and write the bitmap (alloc_block).
Finish ==
    /\ pc = "files"
    /\ LET root == ReadInode(image, RootIno)
           img  == WriteInode(image, RootIno,
                     [root EXCEPT !.size = (root.size \div BlkSize + 1) * BlkSize])
       IN IF free_block < BitsPerBlock
          THEN /\ image' = [img EXCEPT ![bmap_start] =
                              [kind |-> "bitmap", used |-> 0..(free_block - 1)]]
               /\ pc' = "done"
          ELSE image' = img /\ pc' = "panic"
    /\ UNCHANGED <<free_inode, free_block, locals, nread, lens>>

\* read_sect, write_sect, File::open and file.read may fail; main returns the error.
IoError ==
    /\ pc \in {"create", "root", "dotdot", "files", "read", "append"}
    /\ pc' = "err"
    /\ UNCHANGED <<image, free_inode, free_block, locals, nread, lens>>

Next ==
    \/ Create \/ Root \/ DotDot \/ NextFile \/ ReadFile \/ AppendBlock \/ AppendReturn
    \/ Finish \/ IoError

Spec == Init /\ [][Next]_vars

\* The process keeps running.
FairSpec == Spec /\ WF_vars(Next)
-----------------------------------------------------------------------------
(* Properties *)

Sectors == {"zeros", "super", "old", "inodes", "addrs", "data", "bitmap"}

\* The counters, the locals of append_inode and the sectors have their types.
TypeOK ==
    /\ pc \in {"create", "root", "dotdot", "files", "read", "append", "done", "err", "panic"}
    /\ \A b \in DOMAIN image : b \in Nat /\ image[b].kind \in Sectors
    /\ free_inode \in Nat /\ free_block \in Nat /\ inum \in Nat /\ off \in Nat /\ nread \in Nat
    /\ DOMAIN din.addrs = 0..NDirect /\ \A k \in 0..NDirect : din.addrs[k] \in Nat
    /\ Len(data) <= BlkSize
    /\ ret \in {"none", "dotdot", "files", "read"}
    /\ lens \in Seq(FileLens)

Inodes == 1..(free_inode - 1)
Between == pc \in {"files", "done"}

\* The sector of block fbn of an inode, as a reader of the image finds it.
BlockOf(ind, fbn) ==
    IF fbn < NDirect THEN ind.addrs[fbn] ELSE AsAddrs(image[ind.addrs[NDirect]])[fbn - NDirect]

UnitAt(ind, pos) == AsData(image[BlockOf(ind, pos \div BlkSize)])[pos % BlkSize]

\* Whatever sizes the reads returned, the image holds every file unit by unit
\* under its inode, with its exact size, and the root directory holds ".", ".."
\* and one entry per file in order.
ReadsBack == Between =>
    /\ \A k \in 1..Len(lens) :
          LET ind == ReadInode(image, k + 1) IN
            /\ ind.type = "Regular" /\ ind.size = lens[k]
            /\ \A pos \in 0..(lens[k] - 1) : UnitAt(ind, pos) = Unit(k + 1, pos)
    /\ LET root == ReadInode(image, RootIno) IN
         /\ root.type = "Directory" /\ root.size >= Len(lens) + 2
         /\ \A pos \in 0..(Len(lens) + 1) :
              UnitAt(root, pos) = DirEnt(IF pos < 2 THEN RootIno ELSE pos)

\* Every block that an inode or an indirect block addresses: where, and who.
Uses ==
    LET ind(i) == ReadInode(image, i)
        direct(i) == {<<i, k>> : k \in {j \in 0..NDirect : ind(i).addrs[j] # 0}}
        table(i) == AsAddrs(image[ind(i).addrs[NDirect]])
        indirect(i) == IF ind(i).addrs[NDirect] = 0 THEN {}
                       ELSE {<<i, NDirect + 1 + k>> : k \in {j \in 0..(NIndirect - 1) :
                                                              table(i)[j] # 0}}
    IN UNION {direct(i) \cup indirect(i) : i \in Inodes}

SectorOf(use) ==
    LET ind == ReadInode(image, use[1]) IN
    IF use[2] <= NDirect THEN ind.addrs[use[2]]
    ELSE AsAddrs(image[ind.addrs[NDirect]])[use[2] - NDirect - 1]

\* No sector is used twice, by two files or in two places of one, and the
\* sectors in use are exactly the data blocks handed out so far.
BlocksExclusive == Between =>
    /\ \A u, v \in Uses : u # v => SectorOf(u) # SectorOf(v)
    /\ {SectorOf(u) : u \in Uses} = NMeta..(free_block - 1)

\* The finished image marks exactly the meta blocks and the blocks in use, and
\* all of them lie in the file system that the super block describes, although
\* take_next_block never compares free_block with FS_SIZE: running out shows as
\* a failed read.
BitmapExact == pc = "done" =>
    /\ image[bmap_start].used = 0..(NMeta - 1) \cup {SectorOf(u) : u \in Uses}
    /\ free_block <= FsSize /\ DOMAIN image = 0..(FsSize - 1)

\* mkfs always comes to an end: a finished image, a failed read, or a panic.
Terminates == <>(pc \in {"done", "err", "panic"})

\* "Disk layout: [ boot block | super block | log | inode blocks | free bit map
\* | data blocks ]": an inode is stored in an inode block.
InodesInInodeBlocks == \A i \in Inodes : InodePos(i).blk \in inode_start..(bmap_start - 1)
=============================================================================
