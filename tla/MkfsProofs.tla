----------------------------- MODULE MkfsProofs -----------------------------
(***************************************************************************)
(* Theorems about Mkfs, for any geometry of the file system and any files: *)
(* the image holds every file, no sector is used twice, and the bitmap     *)
(* marks exactly the sectors in use.                                       *)
(***************************************************************************)
EXTENDS Mkfs, SequenceTheorems, TLAPS

-----------------------------------------------------------------------------
(* The inductive invariant *)

\* The root directory and the files of the command line have an inode each.
EnoughInodes == MaxFiles < NInodes

Inode == [type : {"none", "Directory", "Regular"}, size : Nat, addrs : [0..NDirect -> Nat]]

\* Whatever a sector is cast to is well typed.
SectorOK(s) ==
    /\ s.kind \in Sectors
    /\ AsInodes(s) \in [0..(InodesPerBlock - 1) -> Inode]
    /\ AsAddrs(s) \in [0..(NIndirect - 1) -> Nat]
    /\ DOMAIN AsData(s) = 0..(BlkSize - 1)

\* An image of the right length whose sectors are well typed.
Image(img) == DOMAIN img = 0..(FsSize - 1) /\ \A b \in 0..(FsSize - 1) : SectorOK(img[b])

\* A byte of a file or a directory entry.
Units == [inum : Nat, pos : Int]

Types ==
    /\ pc \in {"create", "root", "dotdot", "files", "read", "append", "done", "err", "panic"}
    /\ \A b \in DOMAIN image : b \in Nat /\ SectorOK(image[b])
    /\ free_inode \in Nat /\ free_block \in Nat /\ inum \in Nat /\ off \in Nat /\ nread \in Nat
    /\ din \in Inode
    /\ data \in Seq(Units) /\ Len(data) <= BlkSize
    /\ ret \in {"none", "dotdot", "files", "read"}
    /\ lens \in Seq(FileLens)

\* The places of an inode that address a sector: 0..NDirect of the inode itself,
\* the last of them for the indirect block, and the entries of that block.
Slots == 0..MaxFile

Sect(img, ind, s) ==
    IF s <= NDirect THEN ind.addrs[s]
    ELSE IF ind.addrs[NDirect] = 0 THEN 0
    ELSE AsAddrs(img[ind.addrs[NDirect]])[s - NDirect - 1]

SlotOf(fbn) == IF fbn < NDirect THEN fbn ELSE fbn + 1

\* The sector behind every slot of the inodes in tab.
BlockMap(img, tab) == [i \in DOMAIN tab |-> [s \in Slots |-> Sect(img, tab[i], s)]]

Addressed(map, fb) ==
    \A i \in DOMAIN map, s \in Slots : map[i][s] = 0 \/ map[i][s] \in NMeta..(fb - 1)
Exclusive(map) ==
    \A i, j \in DOMAIN map, s, t \in Slots :
        map[i][s] = map[j][t] /\ map[i][s] # 0 => i = j /\ s = t
Covered(map, fb) ==
    \A b \in NMeta..(fb - 1) : \E i \in DOMAIN map, s \in Slots : map[i][s] = b

\* No sector is used twice and the sectors in use are those handed out so far.
Sound(map, fb) == Addressed(map, fb) /\ Exclusive(map) /\ Covered(map, fb)

\* What belongs at position pos of inode i.
Content(i, pos) ==
    IF i = RootIno THEN DirEnt(IF pos < 2 THEN RootIno ELSE pos) ELSE Unit(i, pos)

StoredAt(img, ind, i, pos) ==
    /\ pos \div BlkSize < MaxFile
    /\ Sect(img, ind, SlotOf(pos \div BlkSize)) # 0
    /\ AsData(img[Sect(img, ind, SlotOf(pos \div BlkSize))])[pos % BlkSize] = Content(i, pos)

\* The first n units of inode i are in place.
Stored(img, ind, i, n) == \A pos \in 0..(n - 1) : StoredAt(img, ind, i, pos)

\* The sectors not handed out yet are still clear.
Clear(img, fb) == \A b \in fb..(FsSize - 1) : img[b] = Zeros

\* The inodes of tab have their blocks in the image img.
Table(img, tab, fb) ==
    /\ Image(img) /\ fb \in NMeta..FsSize
    /\ \A i \in DOMAIN tab : tab[i] \in Inode
    /\ Sound(BlockMap(img, tab), fb)
    /\ Clear(img, fb)

\* Every inode's units are in place up to its size.
Filled(img, tab) == \A i \in DOMAIN tab : Stored(img, tab[i], i, tab[i].size)

\* The inodes, the one that append_inode is working on as it will be written.
Appending(i) == pc = "append" /\ i = inum
Tab == [i \in Inodes |-> IF Appending(i) THEN [din EXCEPT !.size = off]
                         ELSE ReadInode(image, i)]

Stage == IF pc = "append" THEN ret ELSE pc

\* The size of inode i once the append in progress is complete.
Goal(i) == IF i = RootIno THEN (IF Stage = "dotdot" THEN 1 ELSE Len(lens) + 2)
           ELSE IF i = Len(lens) + 1 THEN nread ELSE lens[i - 1]

Counters ==
    /\ Stage \in {"dotdot", "files", "read"} => free_inode = Len(lens) + 2
    /\ Stage \in {"root", "dotdot"} => lens = <<>>
    /\ Stage = "root" => free_inode = 1
    /\ Stage = "read" => lens # <<>> /\ nread <= lens[Len(lens)]
    /\ Stage = "files" => lens = <<>> \/ nread = lens[Len(lens)]
    /\ Stage # "none" /\ Len(lens) <= MaxFiles

InFlight == pc = "append" =>
    /\ inum \in Inodes
    /\ \A m \in 1..Len(data) : data[m] = Content(inum, off + m - 1)

FileTypes == \A i \in Inodes : Tab[i].type = IF i = RootIno THEN "Directory" ELSE "Regular"

Sizes == \A i \in Inodes : Tab[i].size + (IF Appending(i) THEN Len(data) ELSE 0) = Goal(i)

\* While the image is being built.
Building ==
    /\ Counters /\ InFlight /\ FileTypes /\ Sizes
    /\ Table(image, Tab, free_block) /\ Filled(image, Tab)

\* Once it is finished. The size of the root directory is rounded up.
Built ==
    /\ free_inode = Len(lens) + 2 /\ Len(lens) <= MaxFiles /\ FileTypes
    /\ Table(image, Tab, free_block)
    /\ image[bmap_start] = [kind |-> "bitmap", used |-> 0..(free_block - 1)]
    /\ \A k \in 1..Len(lens) : Tab[k + 1].size = lens[k] /\ Stored(image, Tab[k + 1], k + 1, lens[k])
    /\ Tab[RootIno].size >= Len(lens) + 2
    /\ Stored(image, Tab[RootIno], RootIno, Len(lens) + 2)

Live == pc \in {"root", "dotdot", "files", "read", "append"}

ImageInv ==
    /\ Types
    /\ pc = "create" => /\ free_inode = 1 /\ free_block = NMeta /\ lens = <<>>
                        /\ DOMAIN image = 0..(OldBlocks - 1)
    /\ Live => Building
    /\ pc = "done" => Built

-----------------------------------------------------------------------------
(* Arithmetic and the layout *)

(* Quotient and remainder. *)
LEMMA DivMod ==
    ASSUME NEW n \in Nat \ {0}, NEW x \in Nat
    PROVE  /\ x \div n \in Nat /\ x % n \in 0..(n - 1)
           /\ x = n * (x \div n) + (x % n)
<1>1. x \div n \in Int
    OBVIOUS
<1>2. x % n \in 0..(n - 1)
    OBVIOUS
<1>3. x = n * (x \div n) + (x % n)
    OBVIOUS
<1>4. x \div n \in Nat
    BY <1>1, <1>2, <1>3
<1> QED BY <1>2, <1>3, <1>4, Zenon

(* A number is determined by its quotient and its remainder. *)
LEMMA SameDivMod ==
    ASSUME NEW n \in Nat \ {0}, NEW x \in Nat, NEW y \in Nat,
           x \div n = y \div n, x % n = y % n
    PROVE  x = y
BY DivMod, Zenon

(* A smaller number has no larger quotient. *)
LEMMA DivMonotone ==
    ASSUME NEW n \in Nat \ {0}, NEW x \in Nat, NEW y \in Nat, x <= y
    PROVE  x \div n <= y \div n
<1> DEFINE p == x \div n
           q == y \div n
<1>1. p \in Nat /\ q \in Nat /\ x = n * p + (x % n) /\ y = n * q + (y % n)
      /\ x % n \in 0..(n - 1) /\ y % n \in 0..(n - 1)
    BY DivMod, Zenon
<1> HIDE DEF p, q
<1>2. CASE p > q
  <2>1. p >= q + 1 /\ p - (q + 1) \in Nat
      BY <1>1, <1>2
  <2>2. n * (p - (q + 1)) >= 0
      BY <2>1
  <2>3. n * p >= n * q + n
      BY <1>1, <2>2
  <2> QED BY <1>1, <2>3
<1>3. CASE ~(p > q)
    BY <1>1, <1>3
<1> QED BY <1>2, <1>3, Zenon DEF p, q

(* What the quotient is. *)
LEMMA DivIs ==
    ASSUME NEW n \in Nat \ {0}, NEW x \in Nat, NEW q \in Nat, n * q <= x, x < n * q + n
    PROVE  x \div n = q /\ x % n = x - n * q
<1> DEFINE p == x \div n
           r == x % n
<1>1. p \in Nat /\ x = n * p + r /\ r \in 0..(n - 1)
    BY DivMod, Zenon
<1> HIDE DEF p, r
<1>2. CASE p > q
  <2>1. p - (q + 1) \in Nat
      BY <1>1, <1>2
  <2>2. n * (p - (q + 1)) >= 0
      BY <2>1
  <2> QED BY <1>1, <2>2
<1>3. CASE p < q
  <2>1. q - (p + 1) \in Nat
      BY <1>1, <1>3
  <2>2. n * (q - (p + 1)) >= 0
      BY <2>1
  <2> QED BY <1>1, <2>2
<1>4. p = q
    BY <1>1, <1>2, <1>3
<1>5. r = x - n * q
    BY <1>1, <1>4
<1> QED BY <1>4, <1>5, Zenon DEF p, r

(* The constants' types. *)
LEMMA Constants ==
    /\ BlkSize \in Nat \ {0} /\ NDirect \in Nat \ {0} /\ NIndirect \in Nat \ {0}
    /\ InodesPerBlock \in Nat \ {0} /\ BitsPerBlock \in Nat \ {0} /\ FsSize \in Nat \ {0}
    /\ NInodes \in Nat \ {0} /\ NLog \in Nat /\ OldBlocks \in Nat /\ MaxFiles \in Nat
    /\ FileLens \subseteq Nat /\ MaxFile \in Nat /\ MaxFile = NDirect + NIndirect
BY MkfsAssumption DEF MaxFile

(* The order of the image's areas. *)
LEMMA Layout ==
    /\ inode_start \in Nat /\ bmap_start \in Nat /\ NMeta \in Nat
    /\ 1 < inode_start /\ inode_start < bmap_start /\ bmap_start < NMeta /\ NMeta <= FsSize
    /\ bmap_start = inode_start + NInodes \div InodesPerBlock + 1
<1>1. FsSize \div BitsPerBlock \in Nat /\ NInodes \div InodesPerBlock \in Nat
    BY Constants, DivMod, Zenon
<1> QED BY <1>1, Constants, LayoutAssumption
        DEF inode_start, bmap_start, NMeta, NInodeBlocks, NBitmap

-----------------------------------------------------------------------------
(* Sectors and inodes *)

(* An inode in range lies in an inode block. *)
LEMMA InodePosType ==
    ASSUME NEW i \in 0..NInodes
    PROVE  /\ InodePos(i).blk \in inode_start..(bmap_start - 1)
           /\ InodePos(i).blk \in 0..(FsSize - 1) /\ InodePos(i).blk \notin NMeta..(FsSize - 1)
           /\ InodePos(i).blk # bmap_start
           /\ InodePos(i).idx \in 0..(InodesPerBlock - 1)
<1>1. i \in Nat /\ i <= NInodes
    BY Constants
<1>2. /\ i \div InodesPerBlock \in Nat /\ i % InodesPerBlock \in 0..(InodesPerBlock - 1)
      /\ NInodes \div InodesPerBlock \in Nat
    BY <1>1, Constants, DivMod, Zenon
<1>3. i \div InodesPerBlock <= NInodes \div InodesPerBlock
    BY <1>1, Constants, DivMonotone, Zenon
<1>4. InodePos(i).blk = inode_start + i \div InodesPerBlock
      /\ InodePos(i).idx = i % InodesPerBlock
    BY Zenon DEF InodePos
<1>5. InodePos(i).blk \in inode_start..(bmap_start - 1)
    BY <1>2, <1>3, <1>4, Layout
<1> QED BY <1>2, <1>4, <1>5, Layout, Constants

(* Two inodes are not at the same place. *)
LEMMA InodePosInjective ==
    ASSUME NEW i \in 0..NInodes, NEW j \in 0..NInodes,
           InodePos(i).blk = InodePos(j).blk, InodePos(i).idx = InodePos(j).idx
    PROVE  i = j
<1>1. i \in Nat /\ j \in Nat
    BY Constants
<1>2. /\ i \div InodesPerBlock \in Nat /\ j \div InodesPerBlock \in Nat
    BY <1>1, Constants, DivMod, Zenon
<1>3. i \div InodesPerBlock = j \div InodesPerBlock
    BY <1>2, Layout DEF InodePos
<1>4. i % InodesPerBlock = j % InodesPerBlock
    BY Zenon DEF InodePos
<1> QED BY <1>1, <1>3, <1>4, Constants, SameDivMod, Zenon

(* The cleared inode is an inode. *)
LEMMA ZeroInodeType ==
    /\ ZeroInode \in Inode
    /\ \A ty \in {"Directory", "Regular"} :
          /\ [ZeroInode EXCEPT !.type = ty] \in Inode
          /\ [ZeroInode EXCEPT !.type = ty].size = 0
          /\ [ZeroInode EXCEPT !.type = ty].type = ty
          /\ \A k \in 0..NDirect : [ZeroInode EXCEPT !.type = ty].addrs[k] = 0
BY Zenon DEF ZeroInode, Inode

(* The sectors that mkfs writes are well typed. *)
LEMMA SectorTypes ==
    /\ SectorOK(Zeros) /\ SectorOK([kind |-> "super"]) /\ SectorOK([kind |-> "old"])
    /\ \A u : SectorOK([kind |-> "bitmap", used |-> u])
    /\ \A c \in [0..(InodesPerBlock - 1) -> Inode] : SectorOK([kind |-> "inodes", cells |-> c])
    /\ \A c \in [0..(NIndirect - 1) -> Nat] : SectorOK([kind |-> "addrs", cells |-> c])
    /\ \A c : DOMAIN c = 0..(BlkSize - 1) => SectorOK([kind |-> "data", cells |-> c])
<1>1. [i \in 0..(InodesPerBlock - 1) |-> ZeroInode] \in [0..(InodesPerBlock - 1) -> Inode]
    BY ZeroInodeType, Zenon
<1>2. [i \in 0..(NIndirect - 1) |-> 0] \in [0..(NIndirect - 1) -> Nat]
    BY Zenon
<1>3. SectorOK(Zeros) /\ SectorOK([kind |-> "super"]) /\ SectorOK([kind |-> "old"])
    BY <1>1, <1>2, Zenon DEF SectorOK, Zeros, AsInodes, AsAddrs, AsData, Sectors
<1>4. \A u : SectorOK([kind |-> "bitmap", used |-> u])
    BY <1>1, <1>2, Zenon DEF SectorOK, AsInodes, AsAddrs, AsData, Sectors
<1>5. \A c \in [0..(InodesPerBlock - 1) -> Inode] : SectorOK([kind |-> "inodes", cells |-> c])
    BY <1>1, <1>2, Zenon DEF SectorOK, AsInodes, AsAddrs, AsData, Sectors
<1>6. \A c \in [0..(NIndirect - 1) -> Nat] : SectorOK([kind |-> "addrs", cells |-> c])
    BY <1>1, <1>2, Zenon DEF SectorOK, AsInodes, AsAddrs, AsData, Sectors
<1>7. \A c : DOMAIN c = 0..(BlkSize - 1) => SectorOK([kind |-> "data", cells |-> c])
    BY <1>1, <1>2, Zenon DEF SectorOK, AsInodes, AsAddrs, AsData, Sectors
<1> QED BY <1>3, <1>4, <1>5, <1>6, <1>7, Zenon

\* Two images with the same data blocks.
SameData(img, img2) == \A b \in NMeta..(FsSize - 1) : img2[b] = img[b]

(* An inode is read from a typed image with its type. *)
LEMMA ReadInodeType ==
    ASSUME NEW img, Image(img), NEW i \in 0..NInodes
    PROVE  ReadInode(img, i) \in Inode
<1> DEFINE b == InodePos(i).blk
           k == InodePos(i).idx
<1>1. b \in 0..(FsSize - 1) /\ k \in 0..(InodesPerBlock - 1)
    BY InodePosType, Zenon
<1>2. ReadInode(img, i) = AsInodes(img[b])[k]
    BY Zenon DEF ReadInode
<1> HIDE DEF b, k
<1>3. AsInodes(img[b]) \in [0..(InodesPerBlock - 1) -> Inode]
    BY <1>1, Zenon DEF Image, SectorOK
<1> QED BY <1>1, <1>2, <1>3, Zenon

(* write_inode changes one inode and no other sector than its own. *)
LEMMA WriteInodeEffect ==
    ASSUME NEW img, Image(img), NEW i \in 0..NInodes, NEW ind \in Inode
    PROVE  /\ Image(WriteInode(img, i, ind))
           /\ SameData(img, WriteInode(img, i, ind))
           /\ \A j \in 0..NInodes :
                 ReadInode(WriteInode(img, i, ind), j) = IF j = i THEN ind ELSE ReadInode(img, j)
<1> DEFINE b == InodePos(i).blk
           k == InodePos(i).idx
           c == [AsInodes(img[b]) EXCEPT ![k] = ind]
           w == WriteInode(img, i, ind)
<1>1. b \in 0..(FsSize - 1) /\ b \notin NMeta..(FsSize - 1) /\ k \in 0..(InodesPerBlock - 1)
    BY InodePosType, Zenon
<1>2. w = [img EXCEPT ![b] = [kind |-> "inodes", cells |-> c]]
    BY Zenon DEF WriteInode
<1>3. AsInodes(img[b]) \in [0..(InodesPerBlock - 1) -> Inode]
    BY <1>1, Zenon DEF Image, SectorOK
<1> HIDE DEF b, k, w
<1>4. c \in [0..(InodesPerBlock - 1) -> Inode]
    BY <1>1, <1>3, Zenon
<1>5. /\ c[k] = ind
      /\ \A m \in 0..(InodesPerBlock - 1) : m # k => c[m] = AsInodes(img[b])[m]
    BY <1>1, <1>3, Zenon
<1> HIDE DEF c
<1>6. /\ DOMAIN w = 0..(FsSize - 1) /\ w[b] = [kind |-> "inodes", cells |-> c]
      /\ \A d \in 0..(FsSize - 1) : d # b => w[d] = img[d]
    BY <1>1, <1>2, Zenon DEF Image
<1>7. SectorOK([kind |-> "inodes", cells |-> c])
    BY <1>4, SectorTypes, Zenon
<1>8. AsInodes([kind |-> "inodes", cells |-> c]) = c
    BY Zenon DEF AsInodes
<1>9. Image(w)
    BY <1>6, <1>7, Zenon DEF Image
<1>10. SameData(img, w)
  <2>1. \A d \in NMeta..(FsSize - 1) : d \in 0..(FsSize - 1)
      BY Layout
  <2> QED BY <1>1, <1>6, <2>1, Zenon DEF SameData
<1>11. ASSUME NEW j \in 0..NInodes
       PROVE  ReadInode(w, j) = IF j = i THEN ind ELSE ReadInode(img, j)
  <2>1. InodePos(j).blk \in 0..(FsSize - 1) /\ InodePos(j).idx \in 0..(InodesPerBlock - 1)
      BY InodePosType, Zenon
  <2>2. CASE j = i
      BY <1>5, <1>6, <1>8, <2>2, Zenon DEF ReadInode, b, k
  <2>3. CASE j # i /\ InodePos(j).blk = b
    <3>1. InodePos(j).idx # k
        BY <2>3, InodePosInjective, Zenon DEF b, k
    <3> QED BY <1>5, <1>6, <1>8, <2>1, <2>3, <3>1, Zenon DEF ReadInode
  <2>4. CASE j # i /\ InodePos(j).blk # b
      BY <1>6, <2>1, <2>4, Zenon DEF ReadInode
  <2> QED BY <2>2, <2>3, <2>4, Zenon
<1> QED BY <1>9, <1>10, <1>11, Zenon DEF w

-----------------------------------------------------------------------------
(* The map of the blocks *)

\* map2 is map with block b in slot s of inode i, which was empty.
FillsSlot(map, map2, i, s, b) ==
    /\ DOMAIN map2 = DOMAIN map /\ i \in DOMAIN map /\ s \in Slots
    /\ map[i][s] = 0 /\ map2[i][s] = b
    /\ \A j \in DOMAIN map, t \in Slots : (j # i \/ t # s) => map2[j][t] = map[j][t]

\* map2 is map with an inode more, which has no block.
AddsInode(map, map2, n) ==
    /\ DOMAIN map2 = DOMAIN map \cup {n} /\ \A t \in Slots : map2[n][t] = 0
    /\ \A j \in DOMAIN map : j # n /\ \A t \in Slots : map2[j][t] = map[j][t]

(* Handing out the next block for an empty slot keeps the map sound. *)
LEMMA TakeBlock ==
    ASSUME NEW map, NEW map2, NEW i, NEW s, NEW fb \in Nat, NMeta <= fb, Sound(map, fb),
           FillsSlot(map, map2, i, s, fb)
    PROVE  Sound(map2, fb + 1)
<1> /\ DOMAIN map2 = DOMAIN map /\ i \in DOMAIN map /\ s \in Slots
    /\ map[i][s] = 0 /\ map2[i][s] = fb
    /\ \A j \in DOMAIN map, t \in Slots : (j # i \/ t # s) => map2[j][t] = map[j][t]
    BY Zenon DEF FillsSlot
<1>1. NMeta \in Nat /\ 0 < NMeta
    BY Layout
<1>2. \A j \in DOMAIN map, t \in Slots : map[j][t] = 0 \/ map[j][t] \in NMeta..(fb - 1)
    BY Zenon DEF Sound, Addressed
<1>3. \A j \in DOMAIN map, t \in Slots : map[j][t] # fb
    BY <1>1, <1>2
<1>f. \A j \in DOMAIN map, t \in Slots : map2[j][t] = fb => j = i /\ t = s
    BY <1>3, Zenon
<1>4. Addressed(map2, fb + 1)
  <2> SUFFICES ASSUME NEW j \in DOMAIN map, NEW t \in Slots
               PROVE  map2[j][t] = 0 \/ map2[j][t] \in NMeta..fb
      BY DEF Addressed
  <2>1. map2[j][t] = fb \/ map2[j][t] = map[j][t]
      BY Zenon
  <2> QED BY <1>1, <1>2, <2>1
<1>5. Exclusive(map2)
  <2>1. \A j, l \in DOMAIN map, t, u \in Slots :
            map[j][t] = map[l][u] /\ map[j][t] # 0 => j = l /\ t = u
      BY Zenon DEF Sound, Exclusive
  <2> SUFFICES ASSUME NEW j \in DOMAIN map, NEW l \in DOMAIN map, NEW t \in Slots,
                      NEW u \in Slots, map2[j][t] = map2[l][u], map2[j][t] # 0
               PROVE  j = l /\ t = u
      BY DEF Exclusive
  <2>2. CASE j = i /\ t = s
      BY <1>f, <2>2, Zenon
  <2>3. CASE l = i /\ u = s
      BY <1>f, <2>3, Zenon
  <2>4. CASE ~(j = i /\ t = s) /\ ~(l = i /\ u = s)
      BY <2>1, <2>4
  <2> QED BY <2>2, <2>3, <2>4, Zenon
<1>6. Covered(map2, fb + 1)
  <2> SUFFICES ASSUME NEW b \in NMeta..fb
               PROVE  \E j \in DOMAIN map, t \in Slots : map2[j][t] = b
      BY DEF Covered
  <2>1. CASE b = fb
      BY <2>1, Zenon
  <2>2. CASE b # fb
    <3>1. b \in NMeta..(fb - 1)
        BY <1>1, <2>2
    <3>2. PICK j \in DOMAIN map, t \in Slots : map[j][t] = b
        BY <3>1, Zenon DEF Sound, Covered
    <3>3. b # 0
        BY <1>1
    <3> QED BY <3>2, <3>3, Zenon
  <2> QED BY <2>1, <2>2, Zenon
<1> QED BY <1>4, <1>5, <1>6, Zenon DEF Sound

(* A fresh inode uses no block. *)
LEMMA AddInode ==
    ASSUME NEW map, NEW map2, NEW fb, Sound(map, fb), NEW n, AddsInode(map, map2, n)
    PROVE  Sound(map2, fb)
<1> /\ DOMAIN map2 = DOMAIN map \cup {n} /\ \A t \in Slots : map2[n][t] = 0
    /\ \A j \in DOMAIN map : j # n /\ \A t \in Slots : map2[j][t] = map[j][t]
    BY Zenon DEF AddsInode
<1>1. \A j \in DOMAIN map2, t \in Slots :
         map2[j][t] # 0 => j \in DOMAIN map /\ map2[j][t] = map[j][t]
    BY Zenon
<1>2. Addressed(map2, fb)
    BY <1>1, Zenon DEF Sound, Addressed
<1>3. Exclusive(map2)
  <2> SUFFICES ASSUME NEW j \in DOMAIN map2, NEW l \in DOMAIN map2, NEW t \in Slots,
                      NEW u \in Slots, map2[j][t] = map2[l][u], map2[j][t] # 0
               PROVE  j = l /\ t = u
      BY DEF Exclusive
  <2>1. j \in DOMAIN map /\ l \in DOMAIN map /\ map[j][t] = map[l][u] /\ map[j][t] # 0
      BY <1>1, Zenon
  <2> QED BY <2>1 DEF Sound, Exclusive
<1>4. Covered(map2, fb)
  <2> SUFFICES ASSUME NEW b \in NMeta..(fb - 1)
               PROVE  \E j \in DOMAIN map2, t \in Slots : map2[j][t] = b
      BY Zenon DEF Covered
  <2>1. PICK j \in DOMAIN map, t \in Slots : map[j][t] = b
      BY Zenon DEF Sound, Covered
  <2> QED BY <2>1, Zenon
<1> QED BY <1>2, <1>3, <1>4, Zenon DEF Sound

-----------------------------------------------------------------------------
(* The image and the inodes *)

\* The two tables have the same inodes with the same addresses.
SameAddrs(tab, tab2) ==
    /\ DOMAIN tab2 = DOMAIN tab
    /\ \A i \in DOMAIN tab : tab2[i] \in Inode /\ tab2[i].addrs = tab[i].addrs

\* tab2 is tab with address k of inode i set to b.
SetAddr(tab, tab2, i, k, b) ==
    /\ DOMAIN tab2 = DOMAIN tab
    /\ tab2[i] \in Inode
    /\ tab2[i].addrs[k] = b
    /\ \A m \in 0..NDirect : m # k => tab2[i].addrs[m] = tab[i].addrs[m]
    /\ \A j \in DOMAIN tab : j # i => tab2[j] = tab[j]

\* What is in place in one image is in place in the other.
KeepsData(img, tab, img2, tab2) ==
    \A i \in DOMAIN tab, pos \in Nat :
        StoredAt(img, tab[i], i, pos) => StoredAt(img2, tab2[i], i, pos)

(* The slot of a block number. *)
LEMMA SlotOfType ==
    ASSUME NEW fbn \in Nat, fbn < MaxFile
    PROVE  SlotOf(fbn) \in Slots /\ SlotOf(fbn) # NDirect
BY Constants DEF SlotOf, Slots

(* Two block numbers have two slots. *)
LEMMA SlotOfInjective ==
    ASSUME NEW m \in Nat, NEW n \in Nat, SlotOf(m) = SlotOf(n)
    PROVE  m = n
BY Constants DEF SlotOf

(* The block map, slot by slot. *)
LEMMA MapIs ==
    ASSUME NEW img, NEW tab
    PROVE  /\ DOMAIN BlockMap(img, tab) = DOMAIN tab
           /\ \A i \in DOMAIN tab, s \in Slots : BlockMap(img, tab)[i][s] = Sect(img, tab[i], s)
BY Zenon DEF BlockMap

(* The sectors of a table are data blocks, used once. *)
LEMMA TableFacts ==
    ASSUME NEW img, NEW tab, NEW fb, Table(img, tab, fb)
    PROVE  /\ fb \in Nat /\ NMeta <= fb /\ fb <= FsSize
           /\ \A i \in DOMAIN tab, s \in Slots :
                 \/ Sect(img, tab[i], s) = 0
                 \/ /\ Sect(img, tab[i], s) \in NMeta..(fb - 1)
                    /\ Sect(img, tab[i], s) \in NMeta..(FsSize - 1)
                    /\ Sect(img, tab[i], s) \in 0..(FsSize - 1)
           /\ \A i, j \in DOMAIN tab, s, t \in Slots :
                 Sect(img, tab[i], s) = Sect(img, tab[j], t) /\ Sect(img, tab[i], s) # 0
                    => i = j /\ s = t
           /\ \A i \in DOMAIN tab : Sect(img, tab[i], NDirect) = tab[i].addrs[NDirect]
           /\ NDirect \in Slots /\ \A k \in 0..NDirect : k \in Slots
<1> DEFINE map == BlockMap(img, tab)
<1>1. DOMAIN map = DOMAIN tab /\ \A i \in DOMAIN tab, s \in Slots : map[i][s] = Sect(img, tab[i], s)
    BY MapIs
<1>2. Addressed(map, fb) /\ Exclusive(map)
    BY Zenon DEF Table, Sound
<1> HIDE DEF map
<1>3. fb \in Nat /\ NMeta <= fb /\ fb <= FsSize
    BY Layout, Constants DEF Table
<1>4. \A b \in NMeta..(fb - 1) : b \in NMeta..(FsSize - 1) /\ b \in 0..(FsSize - 1)
    BY <1>3, Layout, Constants
<1>5. \A i \in DOMAIN tab, s \in Slots :
         Sect(img, tab[i], s) = 0 \/ Sect(img, tab[i], s) \in NMeta..(fb - 1)
    BY <1>1, <1>2, Zenon DEF Addressed
<1>6. \A i, j \in DOMAIN tab, s, t \in Slots :
         Sect(img, tab[i], s) = Sect(img, tab[j], t) /\ Sect(img, tab[i], s) # 0
            => i = j /\ s = t
  <2> SUFFICES ASSUME NEW i \in DOMAIN tab, NEW j \in DOMAIN tab, NEW s \in Slots,
                      NEW t \in Slots, Sect(img, tab[i], s) = Sect(img, tab[j], t),
                      Sect(img, tab[i], s) # 0
               PROVE  i = j /\ s = t
      OBVIOUS
  <2>1. map[i][s] = map[j][t] /\ map[i][s] # 0
      BY <1>1, Zenon
  <2> QED BY <1>1, <1>2, <2>1 DEF Exclusive
<1>7. NDirect \in Slots /\ \A k \in 0..NDirect : k \in Slots
    BY Constants DEF Slots
<1>8. \A i \in DOMAIN tab : Sect(img, tab[i], NDirect) = tab[i].addrs[NDirect]
    BY Constants DEF Sect
<1> QED BY <1>3, <1>4, <1>5, <1>6, <1>7, <1>8, Zenon

\* The two inodes address the same sectors, each in its image.
SameSects(img, ind, img2, ind2) ==
    \A s \in Slots : Sect(img2, ind2, s) = Sect(img, ind, s)

(* A sector is found through the inode and its indirect block alone. *)
LEMMA SectFrame ==
    ASSUME NEW img, NEW ind, NEW img2, NEW ind2, ind2.addrs = ind.addrs,
           \/ ind.addrs[NDirect] = 0
           \/ AsAddrs(img2[ind.addrs[NDirect]]) = AsAddrs(img[ind.addrs[NDirect]])
    PROVE  SameSects(img, ind, img2, ind2)
BY Zenon DEF Sect, SameSects

(* A table is sound when the map of its blocks is that of a sound one. *)
LEMMA SameMap ==
    ASSUME NEW img, NEW tab, NEW img2, NEW tab2, NEW fb, Sound(BlockMap(img, tab), fb),
           DOMAIN tab2 = DOMAIN tab,
           \A i \in DOMAIN tab : SameSects(img, tab[i], img2, tab2[i])
    PROVE  Sound(BlockMap(img2, tab2), fb)
<1>1. ASSUME NEW i \in DOMAIN tab
      PROVE  [s \in Slots |-> Sect(img2, tab2[i], s)] = [s \in Slots |-> Sect(img, tab[i], s)]
    BY Zenon DEF SameSects
<1>2. BlockMap(img2, tab2) = BlockMap(img, tab)
    BY <1>1, Zenon DEF BlockMap
<1> QED BY <1>2, Zenon

(* Nothing changes when neither the addresses nor the data blocks do. *)
LEMMA TableFrame ==
    ASSUME NEW img, NEW tab, NEW fb, Table(img, tab, fb), NEW img2, NEW tab2,
           Image(img2), SameData(img, img2), SameAddrs(tab, tab2)
    PROVE  Table(img2, tab2, fb) /\ KeepsData(img, tab, img2, tab2)
<1>1. \A i \in DOMAIN tab : tab[i].addrs[NDirect] = 0
                            \/ img2[tab[i].addrs[NDirect]] = img[tab[i].addrs[NDirect]]
    BY TableFacts DEF SameData
<1>2. ASSUME NEW i \in DOMAIN tab
      PROVE  SameSects(img, tab[i], img2, tab2[i])
  <2>1. tab2[i].addrs = tab[i].addrs
      BY Zenon DEF SameAddrs
  <2>2. \/ tab[i].addrs[NDirect] = 0
        \/ AsAddrs(img2[tab[i].addrs[NDirect]]) = AsAddrs(img[tab[i].addrs[NDirect]])
      BY <1>1, Zenon
  <2> QED BY <2>1, <2>2, SectFrame, Zenon
<1>3. Sound(BlockMap(img2, tab2), fb)
    BY <1>2, SameMap, Zenon DEF Table, SameAddrs
<1>4. Clear(img2, fb)
  <2>1. \A b \in fb..(FsSize - 1) : b \in NMeta..(FsSize - 1)
      BY TableFacts, Layout, Constants
  <2> QED BY <2>1, Zenon DEF Table, Clear, SameData
<1>5. ASSUME NEW i \in DOMAIN tab, NEW pos \in Nat, StoredAt(img, tab[i], i, pos)
      PROVE  StoredAt(img2, tab2[i], i, pos)
  <2> DEFINE s == SlotOf(pos \div BlkSize)
             b == Sect(img, tab[i], s)
  <2>1. pos \div BlkSize \in Nat /\ pos \div BlkSize < MaxFile
      BY <1>5, DivMod, Constants, Zenon DEF StoredAt
  <2>2. s \in Slots
      BY <2>1, SlotOfType, Zenon
  <2>3. b # 0 /\ AsData(img[b])[pos % BlkSize] = Content(i, pos)
      BY <1>5, Zenon DEF StoredAt
  <2>4. Sect(img2, tab2[i], s) = b
      BY <1>2, <2>2, Zenon DEF SameSects
  <2>5. img2[b] = img[b]
      BY <2>2, <2>3, TableFacts, Zenon DEF SameData
  <2> QED BY <2>1, <2>3, <2>4, <2>5, Zenon DEF StoredAt
<1> QED BY <1>3, <1>4, <1>5, Zenon DEF Table, KeepsData, SameAddrs

\* tab2 is tab with an inode more, which addresses no block.
Extends(tab, tab2, n) ==
    /\ n \notin DOMAIN tab /\ DOMAIN tab2 = DOMAIN tab \cup {n}
    /\ \A i \in DOMAIN tab : tab2[i] = tab[i]
    /\ tab2[n] \in Inode /\ \A k \in 0..NDirect : tab2[n].addrs[k] = 0

(* A fresh inode joins the table. *)
LEMMA TableExtend ==
    ASSUME NEW img, NEW tab, NEW fb, Table(img, tab, fb), NEW tab2, NEW n, Extends(tab, tab2, n)
    PROVE  Table(img, tab2, fb)
<1> /\ n \notin DOMAIN tab /\ DOMAIN tab2 = DOMAIN tab \cup {n}
    /\ \A i \in DOMAIN tab : tab2[i] = tab[i]
    /\ tab2[n] \in Inode /\ \A k \in 0..NDirect : tab2[n].addrs[k] = 0
    BY Zenon DEF Extends
<1>1. ASSUME NEW s \in Slots PROVE Sect(img, tab2[n], s) = 0
  <2>1. NDirect \in 0..NDirect
      BY Constants
  <2>2. s <= NDirect => s \in 0..NDirect
      BY Constants DEF Slots
  <2> QED BY <2>1, <2>2, Zenon DEF Sect
<1> DEFINE map == BlockMap(img, tab)
           map2 == BlockMap(img, tab2)
<1>2. /\ DOMAIN map = DOMAIN tab /\ DOMAIN map2 = DOMAIN tab \cup {n}
      /\ \A i \in DOMAIN tab, s \in Slots : map2[i][s] = map[i][s]
      /\ \A s \in Slots : map2[n][s] = 0
    BY <1>1, MapIs
<1>3. Sound(map, fb)
    BY Zenon DEF Table
<1> HIDE DEF map, map2
<1>4. \A j \in DOMAIN map : j # n /\ \A s \in Slots : map2[j][s] = map[j][s]
    BY <1>2, Zenon
<1>5. AddsInode(map, map2, n)
    BY <1>2, <1>4, Zenon DEF AddsInode
<1>6. Sound(map2, fb)
    BY <1>3, <1>5, AddInode, Zenon
<1> QED BY <1>6, Zenon DEF Table, map2

(* take_next_block for an address of the inode: a direct block or the indirect *)
(* one, whose entries are all free because the block is still clear.           *)
LEMMA TakeAddr ==
    ASSUME NEW img, NEW tab, NEW fb, Table(img, tab, fb), fb \in 0..(FsSize - 1), NEW tab2,
           NEW i \in DOMAIN tab, NEW k \in 0..NDirect, tab[i].addrs[k] = 0,
           SetAddr(tab, tab2, i, k, fb)
    PROVE  Table(img, tab2, fb + 1) /\ KeepsData(img, tab, img, tab2)
<1>0. /\ fb \in Nat /\ NMeta <= fb /\ fb # 0 /\ fb \in fb..(FsSize - 1)
      /\ NDirect \in 0..NDirect /\ k \in Slots /\ NDirect \in Slots
    BY TableFacts, Layout, Constants DEF Slots
<1>1. AsAddrs(img[fb]) = [e \in 0..(NIndirect - 1) |-> 0]
  <2>1. img[fb] = Zeros
      BY <1>0, Zenon DEF Table, Clear
  <2> QED BY <2>1 DEF AsAddrs, Zeros
<1>2. Sect(img, tab[i], k) = 0 /\ Sect(img, tab2[i], k) = fb
  <2>1. k <= NDirect
      BY Constants
  <2> QED BY <2>1, Zenon DEF Sect, SetAddr
<1>3. ASSUME NEW s \in Slots, s # k
      PROVE  Sect(img, tab2[i], s) = Sect(img, tab[i], s)
  <2>1. CASE s <= NDirect
    <3>1. s \in 0..NDirect
        BY <2>1, Constants DEF Slots
    <3> QED BY <1>3, <2>1, <3>1, Zenon DEF Sect, SetAddr
  <2>2. CASE ~(s <= NDirect) /\ k # NDirect
    <3>1. tab2[i].addrs[NDirect] = tab[i].addrs[NDirect]
        BY <1>0, <2>2, Zenon DEF SetAddr
    <3> QED BY <2>2, <3>1, Zenon DEF Sect
  <2>3. CASE ~(s <= NDirect) /\ k = NDirect
    <3>1. s - NDirect - 1 \in 0..(NIndirect - 1)
        BY <2>3, Constants DEF Slots
    <3>2. tab[i].addrs[NDirect] = 0 /\ tab2[i].addrs[NDirect] = fb
        BY <2>3, Zenon DEF SetAddr
    <3>3. AsAddrs(img[fb])[s - NDirect - 1] = 0
        BY <1>1, <3>1, Zenon
    <3> QED BY <1>0, <2>3, <3>2, <3>3, Zenon DEF Sect
  <2> QED BY <2>1, <2>2, <2>3, Zenon
<1>4. ASSUME NEW j \in DOMAIN tab, NEW s \in Slots, j # i \/ s # k
      PROVE  Sect(img, tab2[j], s) = Sect(img, tab[j], s)
  <2>1. CASE j = i
      BY <1>3, <1>4, <2>1, Zenon
  <2>2. CASE j # i
      BY <2>2, Zenon DEF SetAddr
  <2> QED BY <2>1, <2>2, Zenon
<1>5. Sound(BlockMap(img, tab2), fb + 1)
  <2> DEFINE map == BlockMap(img, tab)
             map2 == BlockMap(img, tab2)
  <2>1. DOMAIN map = DOMAIN tab /\ \A j \in DOMAIN tab, s \in Slots : map[j][s] = Sect(img, tab[j], s)
      BY MapIs
  <2>2. DOMAIN map2 = DOMAIN tab /\ \A j \in DOMAIN tab, s \in Slots : map2[j][s] = Sect(img, tab2[j], s)
      BY MapIs DEF SetAddr
  <2>3. Sound(map, fb)
      BY Zenon DEF Table
  <2> HIDE DEF map, map2
  <2>4. FillsSlot(map, map2, i, k, fb)
      BY <1>0, <1>2, <1>4, <2>1, <2>2 DEF FillsSlot
  <2>5. Sound(map2, fb + 1)
      BY <1>0, <2>3, <2>4, TakeBlock, Zenon
  <2> QED BY <2>5, Zenon DEF map2
<1>6. Clear(img, fb + 1) /\ fb + 1 \in NMeta..FsSize
  <2>1. \A b \in (fb + 1)..(FsSize - 1) : b \in fb..(FsSize - 1)
      BY <1>0, Constants
  <2>2. fb + 1 \in NMeta..FsSize
      BY <1>0, Layout, Constants
  <2> QED BY <2>1, <2>2, Zenon DEF Table, Clear
<1>7. \A j \in DOMAIN tab2 : tab2[j] \in Inode
    BY Zenon DEF Table, SetAddr
<1>8. ASSUME NEW j \in DOMAIN tab, NEW pos \in Nat, StoredAt(img, tab[j], j, pos)
      PROVE  StoredAt(img, tab2[j], j, pos)
  <2> DEFINE s == SlotOf(pos \div BlkSize)
  <2>1. pos \div BlkSize \in Nat /\ pos \div BlkSize < MaxFile
      BY <1>8, DivMod, Constants, Zenon DEF StoredAt
  <2>2. s \in Slots
      BY <2>1, SlotOfType, Zenon
  <2>3. Sect(img, tab[j], s) # 0 /\ AsData(img[Sect(img, tab[j], s)])[pos % BlkSize] = Content(j, pos)
      BY <1>8, Zenon DEF StoredAt
  <2>4. Sect(img, tab2[j], s) = Sect(img, tab[j], s)
      BY <1>2, <1>4, <2>2, <2>3, Zenon
  <2> QED BY <2>1, <2>3, <2>4, Zenon DEF StoredAt
<1> QED BY <1>5, <1>6, <1>7, <1>8, Zenon DEF Table, KeepsData

\* img with block b in entry e of the indirect block a.
WithEntry(img, a, e, b) ==
    [img EXCEPT ![a] = [kind |-> "addrs", cells |-> [AsAddrs(img[a]) EXCEPT ![e] = b]]]

\* img with the contents c in the data block a.
WithData(img, a, c) == [img EXCEPT ![a] = [kind |-> "data", cells |-> c]]

\* img2 differs from img in sector a only.
OnlySector(img, img2, a) == \A d \in 0..(FsSize - 1) : d # a => img2[d] = img[d]

EntryEffect(img, img2, a, e, b) ==
    /\ Image(img2) /\ OnlySector(img, img2, a) /\ AsAddrs(img2[a])[e] = b
    /\ \A m \in 0..(NIndirect - 1) : m # e => AsAddrs(img2[a])[m] = AsAddrs(img[a])[m]

DataEffect(img, img2, a, c) ==
    Image(img2) /\ OnlySector(img, img2, a) /\ AsData(img2[a]) = c

(* What rewriting an indirect block changes. *)
LEMMA WithEntryEffect ==
    ASSUME NEW img, Image(img), NEW a \in 0..(FsSize - 1), NEW e \in 0..(NIndirect - 1),
           NEW b \in Nat
    PROVE  EntryEffect(img, WithEntry(img, a, e, b), a, e, b)
<1> DEFINE w == WithEntry(img, a, e, b)
           c == [AsAddrs(img[a]) EXCEPT ![e] = b]
<1>1. AsAddrs(img[a]) \in [0..(NIndirect - 1) -> Nat]
    BY Zenon DEF Image, SectorOK
<1>2. /\ c \in [0..(NIndirect - 1) -> Nat] /\ c[e] = b
      /\ \A m \in 0..(NIndirect - 1) : m # e => c[m] = AsAddrs(img[a])[m]
    BY <1>1, Zenon
<1>3. w = [img EXCEPT ![a] = [kind |-> "addrs", cells |-> c]]
    BY Zenon DEF WithEntry
<1> HIDE DEF w, c
<1>4. /\ DOMAIN w = 0..(FsSize - 1) /\ w[a] = [kind |-> "addrs", cells |-> c]
      /\ \A d \in 0..(FsSize - 1) : d # a => w[d] = img[d]
    BY <1>3, Zenon DEF Image
<1>5. SectorOK([kind |-> "addrs", cells |-> c])
    BY <1>2, SectorTypes, Zenon
<1>6. AsAddrs(w[a]) = c
    BY <1>4 DEF AsAddrs
<1>7. Image(w)
    BY <1>4, <1>5, Zenon DEF Image
<1> QED BY <1>2, <1>4, <1>6, <1>7, Zenon DEF w, EntryEffect, OnlySector

(* What rewriting a data block changes. *)
LEMMA WithDataEffect ==
    ASSUME NEW img, Image(img), NEW a \in 0..(FsSize - 1), NEW c,
           DOMAIN c = 0..(BlkSize - 1)
    PROVE  DataEffect(img, WithData(img, a, c), a, c)
<1> DEFINE w == WithData(img, a, c)
<1>1. /\ DOMAIN w = 0..(FsSize - 1) /\ w[a] = [kind |-> "data", cells |-> c]
      /\ \A d \in 0..(FsSize - 1) : d # a => w[d] = img[d]
    BY Zenon DEF WithData, Image
<1> HIDE DEF w
<1>2. SectorOK([kind |-> "data", cells |-> c])
    BY SectorTypes, Zenon
<1>3. AsData(w[a]) = c
    BY <1>1 DEF AsData
<1>4. Image(w)
    BY <1>1, <1>2, Zenon DEF Image
<1> QED BY <1>1, <1>3, <1>4, Zenon DEF w, DataEffect, OnlySector

(* Positions whose slot still has its sector, and that sector its contents, *)
(* keep their data.                                                         *)
LEMMA StoredFrame ==
    ASSUME NEW img, NEW img2, NEW ind, NEW i, NEW pos \in Nat, StoredAt(img, ind, i, pos),
           NEW ind2,
           LET s == SlotOf(pos \div BlkSize) IN
             /\ Sect(img2, ind2, s) = Sect(img, ind, s)
             /\ AsData(img2[Sect(img, ind, s)])[pos % BlkSize]
                  = AsData(img[Sect(img, ind, s)])[pos % BlkSize]
    PROVE  StoredAt(img2, ind2, i, pos)
BY Zenon DEF StoredAt

(* take_next_block for an entry of the indirect block. *)
LEMMA TakeEntry ==
    ASSUME NEW img, NEW tab, NEW fb, Table(img, tab, fb), fb \in 0..(FsSize - 1),
           NEW i \in DOMAIN tab, NEW e \in 0..(NIndirect - 1), tab[i].addrs[NDirect] # 0,
           AsAddrs(img[tab[i].addrs[NDirect]])[e] = 0
    PROVE  /\ Table(WithEntry(img, tab[i].addrs[NDirect], e, fb), tab, fb + 1)
           /\ KeepsData(img, tab, WithEntry(img, tab[i].addrs[NDirect], e, fb), tab)
<1> DEFINE a == tab[i].addrs[NDirect]
           w == WithEntry(img, a, e, fb)
           k == NDirect + 1 + e
<1>0. /\ fb \in Nat /\ NMeta <= fb /\ fb # 0 /\ k \in Slots /\ NDirect \in Slots
      /\ ~(k <= NDirect) /\ k - NDirect - 1 = e
    BY TableFacts, Layout, Constants DEF Slots
<1>1. a \in 0..(FsSize - 1) /\ a \in NMeta..(fb - 1) /\ a # 0
  <2>1. Sect(img, tab[i], NDirect) = a
      BY TableFacts
  <2> QED BY <1>0, <2>1, TableFacts
<1>2. Image(img)
    BY Zenon DEF Table
<1>4. AsAddrs(img[a])[e] = 0 /\ tab[i].addrs[NDirect] = a
    BY Zenon
<1>f. fb \in Nat
    BY <1>0, Zenon
<1> HIDE DEF a, k, w
<1>3. /\ Image(w) /\ OnlySector(img, w, a) /\ AsAddrs(w[a])[e] = fb
      /\ \A m \in 0..(NIndirect - 1) : m # e => AsAddrs(w[a])[m] = AsAddrs(img[a])[m]
  <2>1. EntryEffect(img, w, a, e, fb)
      BY <1>1, <1>2, <1>f, WithEntryEffect, Zenon DEF w
  <2> QED BY <2>1, Zenon DEF EntryEffect
<1>5. Sect(img, tab[i], k) = 0 /\ Sect(w, tab[i], k) = fb
    BY <1>0, <1>1, <1>3, <1>4, Zenon DEF Sect
<1>6. ASSUME NEW j \in DOMAIN tab, NEW s \in Slots, j # i \/ s # k
      PROVE  Sect(w, tab[j], s) = Sect(img, tab[j], s)
  <2>1. CASE s <= NDirect
      BY <2>1, Zenon DEF Sect
  <2>2. CASE ~(s <= NDirect) /\ j = i
    <3>1. s - NDirect - 1 \in 0..(NIndirect - 1) /\ s - NDirect - 1 # e
        BY <1>6, <2>2, Constants DEF Slots, k
    <3> QED BY <1>1, <1>3, <1>4, <2>2, <3>1, Zenon DEF Sect
  <2>3. CASE ~(s <= NDirect) /\ j # i /\ tab[j].addrs[NDirect] # 0
    <3>1. tab[j].addrs[NDirect] # a /\ tab[j].addrs[NDirect] \in 0..(FsSize - 1)
        BY <1>0, <1>4, <2>3, TableFacts
    <3> QED BY <1>3, <2>3, <3>1, Zenon DEF Sect, OnlySector
  <2>4. CASE ~(s <= NDirect) /\ tab[j].addrs[NDirect] = 0
      BY <2>4, Zenon DEF Sect
  <2> QED BY <2>1, <2>2, <2>3, <2>4, Zenon
<1>7. Sound(BlockMap(w, tab), fb + 1)
  <2> DEFINE map == BlockMap(img, tab)
             map2 == BlockMap(w, tab)
  <2>1. DOMAIN map = DOMAIN tab /\ \A j \in DOMAIN tab, s \in Slots : map[j][s] = Sect(img, tab[j], s)
      BY MapIs
  <2>2. DOMAIN map2 = DOMAIN tab /\ \A j \in DOMAIN tab, s \in Slots : map2[j][s] = Sect(w, tab[j], s)
      BY MapIs
  <2>3. Sound(map, fb)
      BY Zenon DEF Table
  <2> HIDE DEF map, map2
  <2>4. FillsSlot(map, map2, i, k, fb)
      BY <1>0, <1>5, <1>6, <2>1, <2>2 DEF FillsSlot
  <2>5. Sound(map2, fb + 1)
      BY <1>0, <2>3, <2>4, TakeBlock, Zenon
  <2> QED BY <2>5, Zenon DEF map2
<1>8. Clear(w, fb + 1) /\ fb + 1 \in NMeta..FsSize
  <2>1. \A b \in (fb + 1)..(FsSize - 1) : b \in fb..(FsSize - 1) /\ b # a /\ b \in 0..(FsSize - 1)
      BY <1>0, <1>1, Layout, Constants
  <2>2. fb + 1 \in NMeta..FsSize
      BY <1>0, Layout, Constants
  <2> QED BY <1>3, <2>1, <2>2, Zenon DEF Table, Clear, OnlySector
<1>9. ASSUME NEW j \in DOMAIN tab, NEW pos \in Nat, StoredAt(img, tab[j], j, pos)
      PROVE  StoredAt(w, tab[j], j, pos)
  <2> DEFINE s == SlotOf(pos \div BlkSize)
  <2>1. pos \div BlkSize \in Nat /\ pos \div BlkSize < MaxFile
      BY <1>9, DivMod, Constants, Zenon DEF StoredAt
  <2>2. s \in Slots /\ s # NDirect
      BY <2>1, SlotOfType, Zenon
  <2>3. Sect(img, tab[j], s) # 0
      BY <1>9, Zenon DEF StoredAt
  <2>4. Sect(w, tab[j], s) = Sect(img, tab[j], s)
      BY <1>5, <1>6, <2>2, <2>3, Zenon
  <2>5. Sect(img, tab[j], s) # a /\ Sect(img, tab[j], s) \in 0..(FsSize - 1)
      BY <1>0, <1>4, <2>2, <2>3, TableFacts
  <2>6. w[Sect(img, tab[j], s)] = img[Sect(img, tab[j], s)]
      BY <1>3, <2>5, Zenon DEF OnlySector
  <2> QED BY <1>9, <2>4, <2>6, StoredFrame, Zenon
<1>10. Table(w, tab, fb + 1) /\ KeepsData(img, tab, w, tab)
    BY <1>3, <1>7, <1>8, <1>9, Zenon DEF Table, KeepsData
<1> QED BY <1>10, Zenon DEF w, a

SameSizes(tab, tab2) == \A i \in DOMAIN tab : tab2[i].size = tab[i].size

(* Data that stays in place fills inodes whose size stays the same. *)
LEMMA FilledFrame ==
    ASSUME NEW img, NEW tab, NEW img2, NEW tab2, Filled(img, tab), DOMAIN tab2 = DOMAIN tab,
           \A i \in DOMAIN tab : tab[i].size \in Nat,
           SameSizes(tab, tab2), KeepsData(img, tab, img2, tab2)
    PROVE  Filled(img2, tab2)
<1> SUFFICES ASSUME NEW i \in DOMAIN tab, NEW pos \in 0..(tab[i].size - 1)
             PROVE  StoredAt(img2, tab2[i], i, pos)
    BY Zenon DEF Filled, Stored, SameSizes
<1>1. StoredAt(img, tab[i], i, pos)
    BY Zenon DEF Filled, Stored
<1>2. pos \in Nat
    OBVIOUS
<1> QED BY <1>1, <1>2, Zenon DEF KeepsData

(* Writing a data block changes no address. *)
LEMMA PutData ==
    ASSUME NEW img, NEW tab, NEW fb, Table(img, tab, fb), NEW i \in DOMAIN tab,
           NEW s \in Slots, s # NDirect, NEW a, Sect(img, tab[i], s) = a, a # 0,
           NEW w, NEW c, DataEffect(img, w, a, c)
    PROVE  Table(w, tab, fb) /\ \A j \in DOMAIN tab : SameSects(img, tab[j], w, tab[j])
<1>1. a \in NMeta..(fb - 1) /\ NDirect \in Slots /\ fb \in Nat /\ fb <= FsSize
    BY TableFacts, Zenon
<1>2. Image(w) /\ OnlySector(img, w, a)
    BY Zenon DEF DataEffect
<1>3. ASSUME NEW j \in DOMAIN tab PROVE SameSects(img, tab[j], w, tab[j])
  <2>1. CASE tab[j].addrs[NDirect] = 0
      BY <2>1, SectFrame, Zenon
  <2>2. CASE tab[j].addrs[NDirect] # 0
    <3>1. tab[j].addrs[NDirect] # a /\ tab[j].addrs[NDirect] \in 0..(FsSize - 1)
        BY <1>1, <2>2, TableFacts
    <3>2. w[tab[j].addrs[NDirect]] = img[tab[j].addrs[NDirect]]
        BY <1>2, <3>1, Zenon DEF OnlySector
    <3> QED BY <3>2, SectFrame, Zenon
  <2> QED BY <2>1, <2>2, Zenon
<1>4. Sound(BlockMap(w, tab), fb)
    BY <1>3, SameMap, Zenon DEF Table
<1>5. Clear(w, fb)
  <2>1. \A b \in fb..(FsSize - 1) : b # a /\ b \in 0..(FsSize - 1)
      BY <1>1, Layout, Constants
  <2> QED BY <1>2, <2>1, Zenon DEF Table, Clear, OnlySector
<1> QED BY <1>2, <1>3, <1>4, <1>5, Zenon DEF Table

\* The contents c of block a of inode i with n units put in from position off on.
Patched(img, a, c, i, off0, n) ==
    /\ DOMAIN c = 0..(BlkSize - 1)
    /\ \A m \in 0..(BlkSize - 1) :
          c[m] = IF m \in (off0 % BlkSize)..((off0 % BlkSize) + n - 1)
                 THEN Content(i, off0 + (m - (off0 % BlkSize)))
                 ELSE AsData(img[a])[m]

\* tab2 is tab with inode i grown to size n.
Grown(tab, tab2, i, n) ==
    /\ SameAddrs(tab, tab2) /\ tab2[i].size = n
    /\ \A j \in DOMAIN tab : j # i => tab2[j].size = tab[j].size

(* A turn of append_inode's loop, once the block is there: the units are put in *)
(* after those already stored, and the size grows by their number.              *)
LEMMA PutAndGrow ==
    ASSUME NEW img, NEW tab, NEW fb, Table(img, tab, fb), Filled(img, tab),
           NEW i \in DOMAIN tab, NEW off0 \in Nat, tab[i].size = off0,
           off0 \div BlkSize < MaxFile,
           NEW a, Sect(img, tab[i], SlotOf(off0 \div BlkSize)) = a, a # 0,
           NEW n \in Nat, n <= BlkSize * (off0 \div BlkSize) + BlkSize - off0,
           NEW c, Patched(img, a, c, i, off0, n), NEW w, DataEffect(img, w, a, c),
           NEW tab2, Grown(tab, tab2, i, off0 + n)
    PROVE  Table(w, tab2, fb) /\ Filled(w, tab2)
<1> DEFINE q == off0 \div BlkSize
           r == off0 % BlkSize
           s == SlotOf(q)
<1>1. q \in Nat /\ q < MaxFile /\ r \in 0..(BlkSize - 1) /\ off0 = BlkSize * q + r
    BY DivMod, Constants, Zenon
<1>2. s \in Slots /\ s # NDirect /\ Sect(img, tab[i], s) = a
    BY <1>1, SlotOfType, Zenon
<1>3. n <= BlkSize - r
    BY <1>1, Constants
<1>4. \A m \in 0..(BlkSize - 1) : c[m] = IF m \in r..(r + n - 1) THEN Content(i, off0 + (m - r))
                                         ELSE AsData(img[a])[m]
    BY Zenon DEF Patched
<1> HIDE DEF q, r, s
<1>5. Table(w, tab, fb) /\ \A j \in DOMAIN tab : SameSects(img, tab[j], w, tab[j])
    BY <1>2, PutData, Zenon
<1>6. Image(w) /\ SameData(w, w) /\ SameAddrs(tab, tab2) /\ AsData(w[a]) = c /\ OnlySector(img, w, a)
    BY Zenon DEF DataEffect, SameData, Grown
<1>7. Table(w, tab2, fb) /\ KeepsData(w, tab, w, tab2)
    BY <1>5, <1>6, TableFrame, Zenon
<1>8. ASSUME NEW j \in DOMAIN tab, NEW pos \in Nat, pos < tab2[j].size
      PROVE  StoredAt(w, tab[j], j, pos)
  <2> DEFINE p == pos \div BlkSize
             t == SlotOf(p)
             b == Sect(img, tab[j], t)
  <2>1. p \in Nat /\ pos % BlkSize \in 0..(BlkSize - 1) /\ pos = BlkSize * p + (pos % BlkSize)
      BY DivMod, Constants, Zenon
  <2>2. CASE j = i /\ off0 <= pos
    <3>1. pos < off0 + n
        BY <1>8, <2>2, Zenon DEF Grown
    <3>2. BlkSize * q <= pos /\ pos < BlkSize * q + BlkSize
        BY <1>1, <1>3, <2>2, <3>1, Constants
    <3>3. p = q /\ pos % BlkSize = pos - BlkSize * q
        BY <1>1, <3>2, DivIs, Constants, Zenon
    <3>4. pos % BlkSize \in r..(r + n - 1) /\ off0 + ((pos % BlkSize) - r) = pos
        BY <1>1, <2>2, <3>1, <3>3, Constants
    <3>5. c[pos % BlkSize] = Content(i, pos)
        BY <1>4, <2>1, <3>4, Zenon
    <3>6. Sect(w, tab[i], s) = a
        BY <1>2, <1>5, Zenon DEF SameSects
    <3> QED BY <1>1, <1>6, <2>2, <3>3, <3>5, <3>6, Zenon DEF StoredAt, s
  <2>3. CASE ~(j = i /\ off0 <= pos)
    <3>1. tab[j] \in Inode /\ tab[j].size \in Nat /\ pos < tab[j].size
        BY <1>8, <2>3 DEF Grown, Table, Inode
    <3>2. StoredAt(img, tab[j], j, pos)
        BY <3>1 DEF Filled, Stored
    <3>3. p < MaxFile /\ b # 0
        BY <3>2, Zenon DEF StoredAt
    <3>4. t \in Slots
        BY <2>1, <3>3, SlotOfType, Zenon
    <3>5. Sect(w, tab[j], t) = b
        BY <1>5, <3>4, Zenon DEF SameSects
    <3>6. CASE b # a
      <4>1. w[b] = img[b]
          BY <1>6, <3>3, <3>4, <3>6, TableFacts, Zenon DEF OnlySector
      <4> QED BY <3>2, <3>5, <4>1, StoredFrame, Zenon
    <3>7. CASE b = a
      <4>1. j = i /\ t = s
          BY <1>2, <3>3, <3>4, <3>7, TableFacts
      <4>2. p = q
          BY <1>1, <2>1, <4>1, SlotOfInjective, Zenon DEF s
      <4>3. pos % BlkSize < r
          BY <1>1, <2>1, <2>3, <4>1, <4>2, Constants
      <4>4. c[pos % BlkSize] = AsData(img[a])[pos % BlkSize]
          BY <1>1, <1>4, <2>1, <4>3
      <4> QED BY <1>6, <3>2, <3>5, <3>7, <4>4, StoredFrame, Zenon
    <3> QED BY <3>6, <3>7, Zenon
  <2> QED BY <2>2, <2>3, Zenon
<1>9. ASSUME NEW j \in DOMAIN tab2, NEW pos \in 0..(tab2[j].size - 1)
      PROVE  StoredAt(w, tab2[j], j, pos)
  <2>1. j \in DOMAIN tab /\ tab2[j] \in Inode
      BY Zenon DEF Grown, SameAddrs
  <2>2. tab2[j].size \in Nat
      BY <2>1, Zenon DEF Inode
  <2>3. pos \in Nat /\ pos < tab2[j].size
      BY <2>2
  <2> QED BY <1>7, <1>8, <2>1, <2>3, Zenon DEF KeepsData
<1> QED BY <1>7, <1>9, Zenon DEF Filled, Stored

-----------------------------------------------------------------------------
(* The steps of mkfs *)

(* What the invariant says of the image while it is being built. *)
LEMMA LiveFacts ==
    ASSUME EnoughInodes, ImageInv, Live
    PROVE  /\ Types /\ Building /\ Image(image) /\ Len(lens) \in Nat /\ Len(lens) <= MaxFiles
           /\ free_inode \in 1..(NInodes + 1) /\ Inodes \subseteq 1..NInodes
           /\ \A i \in Inodes : i \in 0..NInodes
           /\ pc # "root" => free_inode = Len(lens) + 2 /\ RootIno \in Inodes
           /\ 1 \in 0..NInodes
<1>1. Types /\ Building
    BY Zenon DEF ImageInv
<1>2. Image(image) /\ Counters
    BY <1>1, Zenon DEF Building, Table
<1>3. Len(lens) \in Nat /\ Len(lens) <= MaxFiles
    BY <1>1, <1>2 DEF Types, Counters
<1>4. pc = "root" => free_inode = 1
    BY <1>2, Zenon DEF Counters, Stage
<1>5. pc # "root" => free_inode = Len(lens) + 2
  <2>1. CASE pc = "append"
    <3>1. Stage = ret /\ Stage # "none" /\ ret \in {"none", "dotdot", "files", "read"}
        BY <1>1, <1>2, <2>1, Zenon DEF Counters, Stage, Types
    <3> QED BY <1>2, <3>1, Zenon DEF Counters
  <2>2. CASE pc # "append"
      BY <1>2, <2>2, Zenon DEF Counters, Stage, Live
  <2> QED BY <2>1, <2>2, Zenon
<1>6. free_inode \in 1..(NInodes + 1)
    BY <1>3, <1>4, <1>5, Constants DEF EnoughInodes
<1>7. Inodes \subseteq 1..NInodes /\ \A i \in Inodes : i \in 0..NInodes
    BY <1>6, Constants DEF Inodes
<1>8. pc # "root" => RootIno \in Inodes
    BY <1>3, <1>5 DEF Inodes, RootIno
<1>9. 1 \in 0..NInodes
    BY Constants
<1> QED BY <1>1, <1>2, <1>3, <1>5, <1>6, <1>7, <1>8, <1>9, Zenon

(* Setting the size of an inode. *)
LEMMA SetSize ==
    ASSUME NEW ind \in Inode, NEW n \in Nat
    PROVE  /\ [ind EXCEPT !.size = n] \in Inode
           /\ [ind EXCEPT !.size = n].size = n
           /\ [ind EXCEPT !.size = n].addrs = ind.addrs
           /\ [ind EXCEPT !.size = n].type = ind.type
           /\ ind.size \in Nat
           /\ n = ind.size => [ind EXCEPT !.size = n] = ind
BY Zenon DEF Inode

(* Setting an address of an inode. *)
LEMMA SetAddress ==
    ASSUME NEW ind \in Inode, NEW k \in 0..NDirect, NEW b \in Nat
    PROVE  /\ [ind EXCEPT !.addrs[k] = b] \in Inode
           /\ [ind EXCEPT !.addrs[k] = b].type = ind.type
           /\ [ind EXCEPT !.addrs[k] = b].size = ind.size
           /\ [ind EXCEPT !.addrs[k] = b].addrs[k] = b
           /\ \A m \in 0..NDirect : m # k => [ind EXCEPT !.addrs[k] = b].addrs[m] = ind.addrs[m]
           /\ \A m \in 0..NDirect : ind.addrs[m] \in Nat
           /\ b = ind.addrs[k] => [ind EXCEPT !.addrs[k] = b] = ind
BY Zenon DEF Inode

(* The data that main appends: a directory entry. *)
LEMMA DataTypes ==
    \A i \in Nat : /\ <<DirEnt(i)>> \in Seq(Units) /\ Len(<<DirEnt(i)>>) = 1
                   /\ <<DirEnt(i)>>[1] = DirEnt(i)
<1>1. \A i \in Nat : DirEnt(i) \in Units
    BY DEF DirEnt, Unit, Units
<1> QED BY <1>1

\* n units of file i from position m on.
Part(i, m, n) == [k \in 1..n |-> Unit(i, m + k - 1)]

(* The data that main appends: what a read of a file returned. *)
LEMMA PartType ==
    ASSUME NEW i \in Nat, NEW m \in Nat, NEW n \in Nat
    PROVE  /\ Part(i, m, n) \in Seq(Units) /\ Len(Part(i, m, n)) = n
           /\ \A k \in 1..n : Part(i, m, n)[k] = Unit(i, m + k - 1)
<1>1. \A k \in 1..n : Unit(i, m + k - 1) \in Units
    BY DEF Unit, Units
<1>2. /\ Part(i, m, n) \in [1..n -> Units] /\ DOMAIN Part(i, m, n) = 1..n
      /\ \A k \in 1..n : Part(i, m, n)[k] = Unit(i, m + k - 1)
    BY <1>1, Zenon DEF Part
<1>3. Part(i, m, n) \in Seq(Units)
    BY <1>2, SeqDef, Zenon
<1>4. Len(Part(i, m, n)) = n
    BY <1>2, <1>3, LenProperties
<1> QED BY <1>2, <1>3, <1>4, Zenon

(* The types of append_inode's arguments and first reads. *)
LEMMA CallTypes ==
    ASSUME NEW img, Image(img), NEW i \in 0..NInodes
    PROVE  /\ ReadInode(img, i) \in Inode /\ ReadInode(img, i).size \in Nat /\ i \in Nat
           /\ [ReadInode(img, i) EXCEPT !.size = ReadInode(img, i).size] = ReadInode(img, i)
<1>1. ReadInode(img, i) \in Inode
    BY ReadInodeType, Zenon
<1>2. i \in Nat
    BY Constants
<1> QED BY <1>1, <1>2, SetSize, Zenon

(* The types of a copy into a block, whether it succeeds or not. *)
LEMMA CopyTypes ==
    ASSUME Types, NEW img, Image(img), NEW sect, NEW fbn, fbn = off \div BlkSize,
           data # <<>>, CopyTo(img, sect, fbn), pc = "append"
    PROVE  /\ Image(image') /\ off' \in Nat /\ data' \in Seq(Units) /\ Len(data') <= BlkSize
           /\ pc' \in {"append", "err"}
<1> DEFINE nw == IF Len(data) < (fbn + 1) * BlkSize - off THEN Len(data)
                 ELSE (fbn + 1) * BlkSize - off
           begin == off % BlkSize
           put(cells) == [i \in DOMAIN cells |->
                             IF i \in begin..(begin + nw - 1) THEN data[i - begin + 1] ELSE cells[i]]
<1>1. CASE sect \notin DOMAIN img
    BY <1>1, Zenon DEF CopyTo, Types
<1>2. CASE sect \in DOMAIN img
  <2>1. /\ image' = [img EXCEPT ![sect] = [kind |-> "data", cells |-> put(AsData(img[sect]))]]
        /\ off' = off + nw
        /\ data' = SubSeq(data, nw + 1, Len(data))
        /\ pc' = pc
      BY <1>2, Zenon DEF CopyTo
  <2>t. Len(data) \in Nat /\ off \in Nat /\ Len(data) <= BlkSize
      BY LenProperties, Zenon DEF Types
  <2>2. Len(data) \in Nat /\ off \in Nat /\ off \div BlkSize \in Nat /\ off % BlkSize \in 0..(BlkSize - 1)
        /\ off = BlkSize * (off \div BlkSize) + (off % BlkSize)
      BY <2>t, DivMod, Constants, Zenon
  <2>3. (fbn + 1) * BlkSize - off \in Nat
      BY <2>2, Constants
  <2>4. nw \in Nat /\ nw <= Len(data)
      BY <2>2, <2>3
  <2>5. DOMAIN put(AsData(img[sect])) = 0..(BlkSize - 1) /\ sect \in 0..(FsSize - 1)
      BY <1>2, Zenon DEF Image, SectorOK
  <2>6. image' = WithData(img, sect, put(AsData(img[sect])))
      BY <2>1, Zenon DEF WithData
  <2> HIDE DEF nw, put, begin
  <2>7. Image(image')
      BY <2>5, <2>6, WithDataEffect, Zenon DEF DataEffect
  <2>8. \A i \in (nw + 1)..Len(data) : data[i] \in Units
      BY <2>2, <2>4 DEF Types
  <2>9. nw + 1 \in Int /\ Len(data) \in Int
      BY <2>2, <2>4
  <2>10. data' \in Seq(Units) /\ Len(data') = IF nw + 1 <= Len(data) THEN Len(data) - (nw + 1) + 1 ELSE 0
      BY <2>1, <2>8, <2>9, SubSeqProperties
  <2>11. Len(data') <= BlkSize
      BY <2>t, <2>4, <2>10, Constants
  <2>12. off' \in Nat
      BY <2>1, <2>2, <2>4
  <2> QED BY <2>1, <2>7, <2>10, <2>11, <2>12, Zenon
<1> QED BY <1>1, <1>2, Zenon

(* The types of a turn of append_inode's loop. *)
LEMMA AppendTypes ==
    ASSUME EnoughInodes, ImageInv, AppendBlock
    PROVE  Types'
<1> DEFINE fbn == off \div BlkSize
<1>1. pc = "append" /\ data # <<>> /\ UNCHANGED <<free_inode, inum, ret, nread, lens>>
    BY Zenon DEF AppendBlock
<1>2. Types /\ Image(image) /\ free_block \in Nat /\ din \in Inode /\ off \in Nat
    BY <1>1, LiveFacts, Zenon DEF Live, Types
<1>3. fbn \in Nat
    BY <1>2, DivMod, Constants, Zenon
<1>4. ASSUME Image(image'), free_block' \in Nat, off' \in Nat, din' \in Inode, data' \in Seq(Units),
             Len(data') <= BlkSize, pc' \in {"append", "err", "panic"}
      PROVE  Types'
  <2>1. \A b \in DOMAIN image' : b \in Nat /\ SectorOK(image'[b])
      BY <1>4 DEF Image
  <2> QED BY <1>1, <1>2, <1>4, <2>1, Zenon DEF Types
<1>5. CASE AppendDirect(fbn)
  <2> DEFINE new == din.addrs[fbn] = 0
             sect == IF new THEN free_block ELSE din.addrs[fbn]
  <2>1. /\ fbn < NDirect /\ free_block' = free_block + (IF new THEN 1 ELSE 0)
        /\ din' = [din EXCEPT !.addrs[fbn] = sect] /\ CopyTo(image, sect, fbn)
      BY <1>5, Zenon DEF AppendDirect
  <2>2. fbn \in 0..NDirect
      BY <1>3, <2>1, Constants
  <2>3. sect \in Nat
      BY <1>2, <2>2, SetAddress, Zenon
  <2>4. din' \in Inode
      BY <1>2, <2>1, <2>2, <2>3, SetAddress, Zenon
  <2>5. /\ Image(image') /\ off' \in Nat /\ data' \in Seq(Units) /\ Len(data') <= BlkSize
        /\ pc' \in {"append", "err"}
      BY <1>1, <1>2, <2>1, CopyTypes, Zenon
  <2>6. free_block' \in Nat
      BY <1>2, <2>1
  <2> QED BY <1>4, <2>4, <2>5, <2>6, Zenon
<1>6. CASE AppendIndirect(fbn)
  <2> DEFINE newi == din.addrs[NDirect] = 0
             ind == IF newi THEN free_block ELSE din.addrs[NDirect]
             next == free_block + (IF newi THEN 1 ELSE 0)
             slot == fbn - NDirect
             table == AsAddrs(image[ind])
             new == table[slot] = 0
             sect == IF new THEN next ELSE table[slot]
             img == IF ~new THEN image ELSE WithEntry(image, ind, slot, sect)
  <2>1. /\ fbn \in NDirect..(MaxFile - 1) /\ din' = [din EXCEPT !.addrs[NDirect] = ind]
      BY <1>6, Zenon DEF AppendIndirect
  <2>2. /\ ind \notin DOMAIN image => /\ pc' = "err" /\ free_block' = next
                                      /\ UNCHANGED <<image, off, data>>
        /\ ind \in DOMAIN image => /\ free_block' = next + (IF new THEN 1 ELSE 0)
                                   /\ CopyTo(img, sect, fbn)
      BY <1>6, Zenon DEF AppendIndirect, WithEntry
  <2>3. NDirect \in 0..NDirect /\ slot \in 0..(NIndirect - 1)
      BY <2>1, Constants
  <2>a. din.addrs[NDirect] \in Nat
      BY <1>2, <2>3, Zenon DEF Inode
  <2>4. ind \in Nat /\ next \in Nat
      BY <1>2, <2>a
  <2>5. din' \in Inode
      BY <1>2, <2>1, <2>3, <2>4, SetAddress, Zenon
  <2>6. CASE ind \notin DOMAIN image
    <3>1. UNCHANGED <<image, off, data>> /\ free_block' = next /\ pc' = "err"
        BY <2>2, <2>6, Zenon
    <3> QED BY <1>2, <1>4, <2>4, <2>5, <3>1, Zenon DEF Types
  <2>7. CASE ind \in DOMAIN image
    <3> HIDE DEF ind, next, newi, slot
    <3>1. ind \in 0..(FsSize - 1) /\ table \in [0..(NIndirect - 1) -> Nat]
        BY <1>2, <2>7, Zenon DEF Image, SectorOK
    <3>2. sect \in Nat
        BY <2>3, <2>4, <3>1, Zenon
    <3>3. Image(img)
        BY <1>2, <2>3, <3>1, <3>2, WithEntryEffect, Zenon DEF EntryEffect
    <3>4. free_block' \in Nat
        BY <2>2, <2>4, <2>7
    <3> HIDE DEF sect, img
    <3>5. /\ Image(image') /\ off' \in Nat /\ data' \in Seq(Units) /\ Len(data') <= BlkSize
          /\ pc' \in {"append", "err"}
        BY <1>1, <1>2, <2>2, <2>7, <3>3, CopyTypes, Zenon
    <3> QED BY <1>4, <2>5, <3>4, <3>5, Zenon
  <2> QED BY <2>6, <2>7, Zenon
<1>7. CASE pc' = "panic" /\ UNCHANGED <<free_block, din, image, off, data>>
    BY <1>2, <1>4, <1>7, Zenon DEF Types
<1> QED BY <1>5, <1>6, <1>7, Zenon DEF AppendBlock

(* The types after a step, from those of what the step assigns. *)
LEMMA TypesAfter ==
    ASSUME Image(image'), free_inode' \in Nat, free_block' \in Nat, inum' \in Nat, off' \in Nat,
           nread' \in Nat, din' \in Inode, data' \in Seq(Units), Len(data') <= BlkSize,
           ret' \in {"none", "dotdot", "files", "read"}, lens' \in Seq(FileLens),
           pc' \in {"root", "dotdot", "files", "read", "append", "done", "err", "panic"}
    PROVE  Types'
<1>1. \A b \in DOMAIN image' : b \in Nat /\ SectorOK(image'[b])
    BY DEF Image
<1> QED BY <1>1, Zenon DEF Types

(* The table and its data stay when the inodes and the data blocks do. *)
LEMMA TableKept ==
    ASSUME Table(image, Tab, free_block), Filled(image, Tab), Image(image'),
           SameData(image, image'), Tab' = Tab, free_block' = free_block
    PROVE  Table(image', Tab', free_block') /\ Filled(image', Tab')
<1>1. SameAddrs(Tab, Tab)
    BY Zenon DEF SameAddrs, Table
<1>2. Table(image', Tab, free_block) /\ KeepsData(image, Tab, image', Tab)
    BY <1>1, TableFrame, Zenon
<1>3. \A i \in DOMAIN Tab : Tab[i].size \in Nat
    BY Zenon DEF Table, Inode
<1>4. Filled(image', Tab)
    BY <1>2, <1>3, FilledFrame, Zenon DEF SameSizes
<1> QED BY <1>2, <1>4, Zenon

(* create: all sectors but the super block are clear, and nothing is in use. *)
LEMMA CreateStep ==
    ASSUME ImageInv, Create
    PROVE  ImageInv'
<1>1. /\ Types /\ free_inode = 1 /\ free_block = NMeta /\ lens = <<>> /\ pc' = "root"
      /\ DOMAIN image = 0..(OldBlocks - 1)
      /\ UNCHANGED <<free_inode, free_block, inum, din, off, data, ret, nread, lens>>
    BY Zenon DEF ImageInv, Create, locals
<1>2. DOMAIN image \cup 0..(FsSize - 1) = 0..(FsSize - 1)
    BY <1>1, Constants, LayoutAssumption
<1>3. image' = [b \in 0..(FsSize - 1) |->
                    CASE b = 1 -> [kind |-> "super"]
                      [] b # 1 /\ b < FsSize -> Zeros
                      [] OTHER -> image[b]]
    BY <1>2, Zenon DEF Create
<1>4. /\ DOMAIN image' = 0..(FsSize - 1)
      /\ \A b \in 0..(FsSize - 1) : image'[b] = IF b = 1 THEN [kind |-> "super"] ELSE Zeros
  <2>1. \A b \in 0..(FsSize - 1) : b < FsSize
      BY Constants
  <2> QED BY <1>3, <2>1, Zenon
<1>5. Image(image')
    BY <1>4, SectorTypes, Zenon DEF Image
<1>6. Clear(image', NMeta)
  <2>1. \A b \in NMeta..(FsSize - 1) : b \in 0..(FsSize - 1) /\ b # 1
      BY Layout, Constants
  <2> QED BY <1>4, <2>1, Zenon DEF Clear
<1>7. Inodes' = {} /\ Tab' = [i \in {} |-> 0]
    BY <1>1 DEF Inodes, Tab
<1>8. Sound(BlockMap(image', Tab'), NMeta)
  <2>1. DOMAIN BlockMap(image', Tab') = {}
      BY <1>7, MapIs, Zenon
  <2>2. NMeta..(NMeta - 1) = {}
      BY Layout
  <2> QED BY <2>1, <2>2, Zenon DEF Sound, Addressed, Exclusive, Covered
<1>9. Table(image', Tab', free_block') /\ Filled(image', Tab')
  <2>1. NMeta \in NMeta..FsSize
      BY Layout, Constants
  <2>2. DOMAIN Tab' = {}
      BY <1>7, Zenon
  <2> QED BY <1>1, <1>5, <1>6, <1>8, <2>1, <2>2, Zenon DEF Table, Filled
<1>10. Counters' /\ InFlight' /\ FileTypes' /\ Sizes'
  <2>1. Stage' = "root" /\ Len(lens') = 0
      BY <1>1, Zenon DEF Stage
  <2>2. Counters'
      BY <1>1, <2>1, Constants DEF Counters
  <2>3. InFlight' /\ FileTypes' /\ Sizes'
      BY <1>1, <1>7, Zenon DEF InFlight, FileTypes, Sizes
  <2> QED BY <2>2, <2>3, Zenon
<1>11. Types'
    BY <1>1, <1>5, TypesAfter, Zenon DEF Types
<1> QED BY <1>1, <1>9, <1>10, <1>11, Zenon DEF ImageInv, Building, Live

(* The root directory's inode. *)
LEMMA RootStep ==
    ASSUME EnoughInodes, ImageInv, Root
    PROVE  ImageInv'
<1> DEFINE ind == [ZeroInode EXCEPT !.type = "Directory"]
<1>1. /\ pc = "root" /\ pc' = "append" /\ free_inode' = free_inode + 1
      /\ image' = WriteInode(image, free_inode, ind)
      /\ inum' = 1 /\ data' = <<DirEnt(1)>> /\ ret' = "dotdot"
      /\ din' = ReadInode(image', 1) /\ off' = din'.size
      /\ UNCHANGED <<free_block, nread, lens>>
    BY Zenon DEF Root, CallAppend, NewInode, RootIno
<1>2. Types /\ Building /\ Image(image) /\ 1 \in 0..NInodes
    BY <1>1, LiveFacts, Zenon DEF Live
<1>3. lens = <<>> /\ free_inode = 1
    BY <1>1, <1>2, Zenon DEF Building, Counters, Stage
<1>4. /\ ind \in Inode /\ ind.size = 0 /\ ind.type = "Directory"
      /\ \A k \in 0..NDirect : ind.addrs[k] = 0
    BY ZeroInodeType, Zenon
<1> HIDE DEF ind
<1>5. Image(image') /\ SameData(image, image') /\ ReadInode(image', 1) = ind
    BY <1>1, <1>2, <1>3, <1>4, WriteInodeEffect
<1>6. din' = ind /\ off' = 0 /\ [din' EXCEPT !.size = off'] = ind
    BY <1>1, <1>4, <1>5, SetSize, Zenon
<1>7. Inodes = {} /\ Inodes' = {1} /\ DOMAIN Tab = {} /\ DOMAIN Tab' = {1} /\ Tab'[1] = ind
    BY <1>1, <1>3, <1>6 DEF Inodes, Tab, Appending
<1>8. Table(image', Tab, free_block)
  <2>1. Table(image, Tab, free_block)
      BY <1>2, Zenon DEF Building
  <2>2. SameAddrs(Tab, Tab)
      BY <1>7, Zenon DEF SameAddrs
  <2> QED BY <1>5, <2>1, <2>2, TableFrame, Zenon
<1>9. Table(image', Tab', free_block')
  <2>1. Extends(Tab, Tab', 1)
      BY <1>4, <1>7, Zenon DEF Extends
  <2> QED BY <1>1, <1>8, <2>1, TableExtend, Zenon
<1>10. Filled(image', Tab')
  <2>1. 0..(0 - 1) = {}
      OBVIOUS
  <2> QED BY <1>4, <1>7, <2>1, Zenon DEF Filled, Stored
<1>11. Counters' /\ InFlight' /\ FileTypes' /\ Sizes'
  <2>1. Stage' = "dotdot" /\ Len(lens') = 0 /\ Len(data') = 1 /\ data'[1] = DirEnt(1)
      BY <1>1, <1>3, DataTypes, Zenon DEF Stage
  <2>2. Counters'
      BY <1>1, <1>3, <2>1, Constants DEF Counters
  <2>3. InFlight'
      BY <1>1, <1>6, <1>7, <2>1 DEF InFlight, Content, RootIno
  <2>4. FileTypes'
      BY <1>4, <1>7, Zenon DEF FileTypes, RootIno
  <2>5. Sizes'
      BY <1>1, <1>4, <1>7, <2>1 DEF Sizes, Appending, Goal, RootIno
  <2> QED BY <2>2, <2>3, <2>4, <2>5, Zenon
<1>12. Types'
  <2>1. data' \in Seq(Units) /\ Len(data') <= BlkSize
      BY <1>1, DataTypes, Constants
  <2>2. free_inode' \in Nat /\ free_block' \in Nat /\ inum' \in Nat /\ off' \in Nat /\ nread' \in Nat
        /\ lens' \in Seq(FileLens)
      BY <1>1, <1>2, <1>6 DEF Types
  <2> QED BY <1>1, <1>4, <1>5, <1>6, <2>1, <2>2, TypesAfter, Zenon
<1> QED BY <1>1, <1>9, <1>10, <1>11, <1>12, Zenon DEF ImageInv, Building, Live

(* When append_inode is called the table is as it was: the inode is read back. *)
LEMMA CallKeepsTab ==
    ASSUME EnoughInodes, ImageInv, Live, pc # "append", NEW n \in Inodes, inum' = n,
           din' = ReadInode(image, n), off' = din'.size, pc' = "append",
           UNCHANGED <<image, free_inode, free_block>>
    PROVE  /\ Tab' = Tab /\ Inodes' = Inodes /\ Table(image', Tab', free_block')
           /\ Filled(image', Tab') /\ FileTypes' /\ din' \in Inode /\ off' \in Nat
           /\ off' = Tab[n].size
<1>1. Types /\ Building /\ Image(image) /\ n \in 0..NInodes
    BY LiveFacts, Zenon
<1>2. din' \in Inode /\ off' \in Nat /\ [din' EXCEPT !.size = off'] = ReadInode(image, n)
    BY <1>1, CallTypes, Zenon
<1>3. Inodes' = Inodes
    BY Zenon DEF Inodes
<1>4. \A i \in Inodes : Tab[i] = ReadInode(image, i)
    BY Zenon DEF Tab, Appending
<1>5. Tab' = Tab
    BY <1>2, <1>3, Zenon DEF Tab, Appending
<1>6. SameData(image, image')
    BY Zenon DEF SameData
<1>7. Table(image', Tab', free_block') /\ Filled(image', Tab')
    BY <1>1, <1>5, <1>6, TableKept, Zenon DEF Building
<1>8. FileTypes'
    BY <1>1, <1>3, <1>5, Zenon DEF Building, FileTypes
<1> QED BY <1>2, <1>3, <1>4, <1>5, <1>7, <1>8, Zenon

(* The entry "..". *)
LEMMA DotDotStep ==
    ASSUME EnoughInodes, ImageInv, DotDot
    PROVE  ImageInv'
<1>1. /\ pc = "dotdot" /\ pc' = "append" /\ inum' = 1 /\ data' = <<DirEnt(1)>> /\ ret' = "files"
      /\ din' = ReadInode(image, 1) /\ off' = din'.size
      /\ UNCHANGED <<image, free_inode, free_block, nread, lens>>
    BY Zenon DEF DotDot, CallAppend, RootIno
<1>2. Types /\ Building /\ Image(image) /\ 1 \in Inodes /\ Live /\ free_inode = Len(lens) + 2
    BY <1>1, LiveFacts, Zenon DEF Live, RootIno
<1>3. lens = <<>> /\ Inodes = {1}
    BY <1>1, <1>2 DEF Building, Counters, Stage, Inodes
<1>4. /\ Tab' = Tab /\ Inodes' = Inodes /\ Table(image', Tab', free_block')
      /\ Filled(image', Tab') /\ FileTypes' /\ din' \in Inode /\ off' \in Nat
      /\ off' = Tab[1].size
    BY <1>1, <1>2, CallKeepsTab, Zenon
<1>5. Tab[1].size = 1
  <2>1. Tab[1].size + 0 = 1
      BY <1>1, <1>2, Zenon DEF Building, Sizes, Goal, Stage, Appending, RootIno
  <2> QED BY <1>4, <2>1
<1>6. Stage' = "files" /\ Len(lens') = 0 /\ Len(data') = 1 /\ data'[1] = DirEnt(1)
    BY <1>1, <1>3, DataTypes, Zenon DEF Stage
<1>7. Counters'
    BY <1>1, <1>2, <1>3, <1>6, Constants DEF Counters
<1>8. InFlight'
    BY <1>1, <1>2, <1>4, <1>5, <1>6 DEF InFlight, Content, RootIno
<1>9. Sizes'
    BY <1>1, <1>3, <1>4, <1>5, <1>6 DEF Sizes, Appending, Goal, RootIno
<1>10. Types'
  <2>1. data' \in Seq(Units) /\ Len(data') <= BlkSize
      BY <1>1, DataTypes, Constants
  <2>2. free_inode' \in Nat /\ free_block' \in Nat /\ inum' \in Nat /\ nread' \in Nat
        /\ lens' \in Seq(FileLens) /\ Image(image')
      BY <1>1, <1>2, Zenon DEF Types
  <2> QED BY <1>1, <1>4, <2>1, <2>2, TypesAfter, Zenon
<1> QED BY <1>1, <1>4, <1>7, <1>8, <1>9, <1>10, Zenon DEF ImageInv, Building, Live

(* A read of the file: some more of its units, or the end. *)
LEMMA ReadFileStep ==
    ASSUME EnoughInodes, ImageInv, ReadFile
    PROVE  ImageInv'
<1> DEFINE left == lens[Len(lens)] - nread
           n == free_inode - 1
<1>1. pc = "read" /\ UNCHANGED <<image, free_inode, free_block, lens>>
    BY Zenon DEF ReadFile
<1>2. Types /\ Building /\ Image(image) /\ Live /\ free_inode = Len(lens) + 2 /\ Len(lens) \in Nat
    BY <1>1, LiveFacts, Zenon DEF Live
<1>3. lens # <<>> /\ nread <= lens[Len(lens)] /\ Stage = "read" /\ Len(lens) <= MaxFiles
    BY <1>1, <1>2, Zenon DEF Building, Counters, Stage
<1>4. Len(lens) # 0 /\ lens[Len(lens)] \in Nat /\ nread \in Nat
  <2>1. lens \in Seq(FileLens) /\ nread \in Nat
      BY <1>2, Zenon DEF Types
  <2>2. Len(lens) # 0
      BY <1>2, <1>3, <2>1, EmptySeq, Zenon
  <2>3. Len(lens) \in 1..Len(lens)
      BY <1>2, <2>2
  <2>4. lens[Len(lens)] \in FileLens
      BY <2>1, <2>3
  <2> QED BY <2>1, <2>2, <2>4, Constants, Zenon
<1>5. n \in Inodes /\ n = Len(lens) + 1 /\ n # RootIno /\ n \in Nat
    BY <1>2, <1>4 DEF Inodes, RootIno
<1>6. CASE left = 0 /\ pc' = "files" /\ UNCHANGED <<locals, nread>>
  <2>1. UNCHANGED <<inum, din, off, data, ret, nread>>
      BY <1>6, Zenon DEF locals
  <2>2. Inodes' = Inodes /\ Tab' = Tab
      BY <1>1, <1>6, Zenon DEF Inodes, Tab, Appending
  <2>3. Stage' = "files" /\ nread = lens[Len(lens)]
      BY <1>4, <1>6 DEF Stage
  <2>4. Counters'
      BY <1>1, <1>2, <1>3, <2>1, <2>3, Zenon DEF Counters
  <2>5. InFlight' /\ FileTypes'
      BY <1>2, <1>6, <2>2, Zenon DEF InFlight, FileTypes, Building
  <2>6. \A i \in Inodes : Goal(i)' = Goal(i)
      BY <1>1, <1>3, <2>1, <2>3, Zenon DEF Goal
  <2>7. Sizes'
      BY <1>1, <1>2, <1>6, <2>2, <2>6, Zenon DEF Sizes, Appending, Building
  <2>8. SameData(image, image') /\ Image(image')
      BY <1>1, <1>2, Zenon DEF SameData
  <2>9. Table(image', Tab', free_block') /\ Filled(image', Tab')
      BY <1>1, <1>2, <2>2, <2>8, TableKept, Zenon DEF Building
  <2>10. Types'
      BY <1>1, <1>2, <1>6, <2>1, <2>8, TypesAfter, Zenon DEF Types
  <2> QED BY <1>6, <2>4, <2>5, <2>7, <2>9, <2>10, Zenon DEF ImageInv, Building, Live
<1>7. ASSUME NEW m \in 1..BlkSize, m <= left, nread' = nread + m,
             CallAppend(image, n, [k \in 1..m |-> Unit(n, nread + k - 1)], "read")
      PROVE  ImageInv'
  <2>1. /\ pc' = "append" /\ inum' = n /\ ret' = "read"
        /\ data' = [k \in 1..m |-> Unit(n, nread + k - 1)]
        /\ din' = ReadInode(image, n) /\ off' = din'.size
      BY <1>7, Zenon DEF CallAppend
  <2>2. m \in Nat /\ m <= BlkSize
      BY Constants
  <2> HIDE DEF n
  <2>3. data' \in Seq(Units) /\ Len(data') = m /\ \A k \in 1..m : data'[k] = Unit(n, nread + k - 1)
    <3>1. data' = Part(n, nread, m)
        BY <2>1, Zenon DEF Part
    <3>2. n \in Nat /\ nread \in Nat /\ m \in Nat
        BY <1>4, <1>5, <2>2, Zenon
    <3> QED BY <3>1, <3>2, PartType, Zenon
  <2>4. /\ Tab' = Tab /\ Inodes' = Inodes /\ Table(image', Tab', free_block')
        /\ Filled(image', Tab') /\ FileTypes' /\ din' \in Inode /\ off' \in Nat
        /\ off' = Tab[n].size
      BY <1>1, <1>2, <1>5, <2>1, CallKeepsTab, Zenon
  <2>5. Tab[n].size = nread
    <3>1. Tab[n].size + 0 = nread
        BY <1>1, <1>2, <1>5, Zenon DEF Building, Sizes, Goal, Appending
    <3> QED BY <2>4, <3>1
  <2>6. Stage' = "read"
      BY <2>1, Zenon DEF Stage
  <2>7. Counters'
      BY <1>1, <1>2, <1>3, <1>4, <1>7, <2>2, <2>6 DEF Counters
  <2>8. InFlight'
    <3>1. \A k \in 1..m : Content(n, nread + k - 1) = Unit(n, nread + k - 1)
        BY <1>5, Zenon DEF Content
    <3> QED BY <1>5, <2>1, <2>3, <2>4, <2>5, <3>1, Zenon DEF InFlight
  <2>9. Sizes'
    <3> SUFFICES ASSUME NEW i \in Inodes
                 PROVE  Tab[i].size + (IF i = n THEN m ELSE 0) = Goal(i)'
        BY <2>1, <2>3, <2>4, Zenon DEF Sizes, Appending
    <3>1. CASE i = n
        BY <1>1, <1>4, <1>5, <1>7, <2>2, <2>5, <3>1, Zenon DEF Goal
    <3>2. CASE i # n
      <4>1. Tab[i].size + 0 = Goal(i)
          BY <1>1, <1>2, Zenon DEF Building, Sizes, Appending
      <4>2. Goal(i)' = Goal(i)
          BY <1>1, <1>3, <1>5, <2>6, <3>2, Zenon DEF Goal
      <4> QED BY <3>2, <4>1, <4>2, Zenon
    <3> QED BY <3>1, <3>2, Zenon
  <2>10. Types'
    <3>1. free_inode' \in Nat /\ free_block' \in Nat /\ inum' \in Nat /\ nread' \in Nat
          /\ lens' \in Seq(FileLens) /\ Image(image')
        BY <1>1, <1>2, <1>4, <1>5, <1>7, <2>1, <2>2 DEF Types
    <3> QED BY <2>1, <2>2, <2>3, <2>4, <3>1, TypesAfter, Zenon
  <2> QED BY <2>1, <2>4, <2>7, <2>8, <2>9, <2>10, Zenon DEF ImageInv, Building, Live
<1> QED BY <1>6, <1>7, Zenon DEF ReadFile

(* The end of append_inode: the inode is written as the table has it. *)
LEMMA AppendReturnStep ==
    ASSUME EnoughInodes, ImageInv, AppendReturn
    PROVE  ImageInv'
<1>1. /\ pc = "append" /\ data = <<>> /\ pc' = ret /\ din' = [din EXCEPT !.size = off]
      /\ image' = WriteInode(image, inum, din')
      /\ UNCHANGED <<free_inode, free_block, inum, off, data, ret, nread, lens>>
    BY Zenon DEF AppendReturn
<1>2. /\ Types /\ Building /\ Image(image) /\ \A i \in Inodes : i \in 0..NInodes
      /\ free_inode = Len(lens) + 2
    BY <1>1, LiveFacts, Zenon DEF Live
<1>3. inum \in Inodes /\ din' \in Inode
    BY <1>1, <1>2, SetSize, Zenon DEF Building, InFlight, Types
<1>4. ret \in {"dotdot", "files", "read"} /\ Stage = ret /\ Stage' = ret
    BY <1>1, <1>2, Zenon DEF Building, Counters, Stage, Types
<1>5. Image(image') /\ SameData(image, image')
      /\ \A i \in Inodes : ReadInode(image', i) = IF i = inum THEN din' ELSE ReadInode(image, i)
    BY <1>1, <1>2, <1>3, WriteInodeEffect
<1>6. Inodes' = Inodes
    BY <1>1, Zenon DEF Inodes
<1>7. Tab' = Tab
  <2>1. \A i \in Inodes : Tab[i] = IF i = inum THEN din' ELSE ReadInode(image, i)
      BY <1>1, Zenon DEF Tab, Appending
  <2>2. \A i \in Inodes : ~Appending(i)'
      BY <1>1, <1>4, Zenon DEF Appending
  <2>3. DOMAIN Tab = Inodes /\ Tab = [i \in Inodes |-> Tab[i]]
      BY Zenon DEF Tab
  <2>4. Tab' = [i \in Inodes |-> ReadInode(image', i)]
      BY <1>6, <2>2, Zenon DEF Tab
  <2> QED BY <1>5, <2>1, <2>3, <2>4, Zenon
<1>8. Table(image', Tab', free_block') /\ Filled(image', Tab')
    BY <1>1, <1>2, <1>5, <1>7, TableKept, Zenon DEF Building
<1>9. Counters'
    BY <1>1, <1>2, <1>4, Zenon DEF Building, Counters
<1>10. InFlight' /\ FileTypes'
    BY <1>1, <1>2, <1>4, <1>6, <1>7, Zenon DEF Building, InFlight, FileTypes
<1>11. Sizes'
  <2>1. \A i \in Inodes : Goal(i)' = Goal(i)
      BY <1>1, <1>4, Zenon DEF Goal
  <2>2. Len(data) = 0
      BY <1>1, Zenon
  <2>3. \A i \in Inodes : Tab[i].size + 0 = Goal(i)
      BY <1>2, <2>2, Zenon DEF Building, Sizes
  <2>4. \A i \in Inodes : ~Appending(i)'
      BY <1>1, <1>4, Zenon DEF Appending
  <2> QED BY <1>6, <1>7, <2>1, <2>3, <2>4, Zenon DEF Sizes
<1>12. Types'
    BY <1>1, <1>2, <1>3, <1>4, <1>5, TypesAfter, Zenon DEF Types
<1> QED BY <1>1, <1>4, <1>8, <1>9, <1>10, <1>11, <1>12, Zenon DEF ImageInv, Building, Live

(* The next file: its inode, and its entry in the root directory. *)
LEMMA NextFileStep ==
    ASSUME EnoughInodes, ImageInv, NextFile
    PROVE  ImageInv'
<1> DEFINE n == free_inode
           ind == [ZeroInode EXCEPT !.type = "Regular"]
<1>1. /\ pc = "files" /\ Len(lens) < MaxFiles /\ image' = WriteInode(image, n, ind)
      /\ free_inode' = free_inode + 1 /\ nread' = 0 /\ free_block' = free_block
    BY Zenon DEF NextFile, NewInode
<1>2. PICK len \in FileLens : lens' = Append(lens, len)
    BY Zenon DEF NextFile
<1>3. \/ CallAppend(image', RootIno, <<DirEnt(n)>>, "read")
      \/ pc' = "panic" /\ UNCHANGED locals
    BY Zenon DEF NextFile
<1>4. Types /\ Building /\ Image(image) /\ n = Len(lens) + 2 /\ Len(lens) \in Nat
      /\ 1 \in Inodes /\ 1 \in 0..NInodes /\ \A i \in Inodes : i \in 0..NInodes
    BY <1>1, LiveFacts, Zenon DEF Live, RootIno
<1>5. n \in 0..NInodes /\ n \notin Inodes /\ Inodes' = Inodes \cup {n} /\ n # 1 /\ n \in Nat
  <2>0. Len(lens) \in Nat /\ n = Len(lens) + 2 /\ Len(lens) < MaxFiles /\ MaxFiles < NInodes
        /\ MaxFiles \in Nat /\ NInodes \in Nat
      BY <1>1, <1>4, Constants, Zenon DEF EnoughInodes
  <2>1. n \in Nat /\ n # 1 /\ n \in 0..NInodes
      BY <2>0
  <2>2. Inodes = 1..(n - 1) /\ Inodes' = 1..n
      BY <1>1, <2>1 DEF Inodes
  <2> HIDE DEF n
  <2>3. n \notin Inodes /\ Inodes' = Inodes \cup {n}
      BY <1>4, <2>1, <2>2
  <2> QED BY <2>1, <2>3, Zenon
<1>6. /\ ind \in Inode /\ ind.size = 0 /\ ind.type = "Regular"
      /\ \A k \in 0..NDirect : ind.addrs[k] = 0
    BY ZeroInodeType, Zenon
<1>7. /\ lens \in Seq(FileLens) /\ lens' \in Seq(FileLens) /\ Len(lens') = Len(lens) + 1
      /\ lens'[Len(lens) + 1] = len /\ \A k \in 1..Len(lens) : lens'[k] = lens[k]
      /\ len \in Nat /\ lens' # <<>>
    BY <1>2, <1>4, Constants DEF Types
<1> HIDE DEF n, ind
<1>8. /\ Image(image') /\ SameData(image, image') /\ ReadInode(image', n) = ind
      /\ \A i \in Inodes : ReadInode(image', i) = ReadInode(image, i)
    BY <1>1, <1>4, <1>5, <1>6, WriteInodeEffect
<1>9. CASE pc' = "panic" /\ UNCHANGED locals
  <2>1. UNCHANGED <<inum, din, off, data, ret>>
      BY <1>9, Zenon DEF locals
  <2>2. free_inode' \in Nat /\ free_block' \in Nat /\ nread' \in Nat
      BY <1>1, <1>4 DEF Types
  <2>3. Types'
      BY <1>4, <1>7, <1>8, <1>9, <2>1, <2>2, TypesAfter, Zenon DEF Types
  <2> QED BY <1>9, <2>3, Zenon DEF ImageInv, Live
<1>10. CASE CallAppend(image', RootIno, <<DirEnt(n)>>, "read")
  <2>1. /\ pc' = "append" /\ inum' = 1 /\ ret' = "read" /\ data' = <<DirEnt(n)>>
        /\ din' = ReadInode(image', 1) /\ off' = din'.size
      BY <1>10, Zenon DEF CallAppend, RootIno
  <2>2. din' \in Inode /\ off' \in Nat /\ [din' EXCEPT !.size = off'] = ReadInode(image, 1)
        /\ din' = ReadInode(image, 1)
      BY <1>4, <1>8, <2>1, CallTypes, Zenon
  <2>3. DOMAIN Tab = Inodes /\ \A i \in Inodes : Tab[i] = ReadInode(image, i)
      BY <1>1, Zenon DEF Tab, Appending
  <2>4. DOMAIN Tab' = Inodes \cup {n} /\ Tab'[n] = ind /\ \A i \in Inodes : Tab'[i] = Tab[i]
    <3>1. Tab' = [i \in Inodes \cup {n} |-> IF i = 1 THEN ReadInode(image, 1) ELSE ReadInode(image', i)]
        BY <1>5, <2>1, <2>2, Zenon DEF Tab, Appending
    <3> QED BY <1>5, <1>8, <2>3, <3>1, Zenon
  <2>5. Table(image, Tab, free_block) /\ Filled(image, Tab) /\ Sizes /\ FileTypes /\ Counters
      BY <1>4, Zenon DEF Building
  <2>6. SameAddrs(Tab, Tab) /\ SameSizes(Tab, Tab)
      BY <2>5, Zenon DEF SameAddrs, SameSizes, Table
  <2>7. Table(image', Tab, free_block) /\ KeepsData(image, Tab, image', Tab)
      BY <1>8, <2>5, <2>6, TableFrame, Zenon
  <2>8. Extends(Tab, Tab', n)
      BY <1>5, <1>6, <2>3, <2>4, Zenon DEF Extends
  <2>9. Table(image', Tab', free_block')
      BY <1>1, <2>7, <2>8, TableExtend, Zenon
  <2>10. Filled(image', Tab')
    <3>1. \A i \in DOMAIN Tab : Tab[i].size \in Nat
        BY <2>5, Zenon DEF Table, Inode
    <3>2. Filled(image', Tab)
        BY <2>5, <2>6, <2>7, <3>1, FilledFrame, Zenon
    <3>3. Stored(image', ind, n, ind.size)
        BY <1>6 DEF Stored
    <3> QED BY <2>3, <2>4, <3>2, <3>3, Zenon DEF Filled
  <2>11. Stage = "files" /\ Stage' = "read" /\ Len(data') = 1 /\ data'[1] = DirEnt(n)
      BY <1>1, <1>5, <2>1, DataTypes, Zenon DEF Stage
  <2>12. \A i \in Inodes : Tab[i].size + 0 = Goal(i)
      BY <1>1, <2>5, Zenon DEF Sizes, Appending
  <2>13. off' = Len(lens) + 2
    <3>1. off' = Tab[1].size /\ Goal(1) = Len(lens) + 2
        BY <1>4, <2>1, <2>2, <2>3, <2>11, Zenon DEF Goal, RootIno
    <3> QED BY <1>4, <2>2, <2>12, <3>1
  <2>14. Counters'
    <3>1. Len(lens') <= MaxFiles /\ nread' <= lens'[Len(lens')] /\ free_inode' = Len(lens') + 2
        BY <1>1, <1>4, <1>7, Constants DEF n
    <3> QED BY <1>7, <2>11, <3>1, Zenon DEF Counters
  <2>15. InFlight'
    <3>1. Content(1, off') = DirEnt(n)
        BY <1>4, <2>13 DEF Content, RootIno
    <3>2. \A k \in 1..Len(data') : data'[k] = Content(1, off' + k - 1)
        BY <2>2, <2>11, <3>1
    <3>3. 1 \in Inodes'
        BY <1>4, <1>5, Zenon
    <3> QED BY <2>1, <3>2, <3>3, Zenon DEF InFlight
  <2>16. FileTypes'
      BY <1>5, <1>6, <2>4, <2>5, Zenon DEF FileTypes, RootIno
  <2>17. Sizes'
    <3> SUFFICES ASSUME NEW i \in Inodes'
                 PROVE  Tab'[i].size + (IF i = 1 THEN 1 ELSE 0) = Goal(i)'
        BY <2>1, <2>11, Zenon DEF Sizes, Appending
    <3>1. CASE i = 1
      <4>1. Goal(1)' = Len(lens') + 2
          BY <2>11, Zenon DEF Goal, RootIno
      <4>2. Tab'[1].size = off'
          BY <1>4, <2>1, <2>2, <2>3, <2>4, Zenon
      <4> QED BY <1>4, <1>7, <2>13, <3>1, <4>1, <4>2
    <3>2. CASE i = n
      <4>1. Goal(i)' = 0
          BY <1>1, <1>4, <1>5, <1>7, <3>2 DEF Goal, RootIno
      <4> QED BY <1>5, <1>6, <2>4, <3>2, <4>1
    <3>3. CASE i # 1 /\ i # n
      <4>1. i \in Inodes /\ i \in Nat /\ i - 1 \in 1..Len(lens)
          BY <1>4, <1>5, <3>3 DEF Inodes, n
      <4>2. Goal(i)' = lens[i - 1]
          BY <1>4, <1>5, <1>7, <3>3, <4>1 DEF Goal, RootIno
      <4>3. Goal(i) = lens[i - 1]
        <5>1. CASE i = Len(lens) + 1
          <6>1. lens # <<>> /\ nread = lens[Len(lens)]
              BY <1>4, <2>5, <2>11, <4>1 DEF Counters
          <6>2. i - 1 = Len(lens)
              BY <1>4, <5>1
          <6> QED BY <3>3, <5>1, <6>1, <6>2, Zenon DEF Goal, RootIno
        <5>2. CASE i # Len(lens) + 1
            BY <3>3, <5>2, Zenon DEF Goal, RootIno
        <5> QED BY <5>1, <5>2, Zenon
      <4> QED BY <2>4, <2>12, <3>3, <4>1, <4>2, <4>3, Zenon
    <3> QED BY <3>1, <3>2, <3>3, Zenon
  <2>18. Types'
    <3>1. data' \in Seq(Units) /\ Len(data') <= BlkSize
        BY <1>5, <2>1, DataTypes, Constants
    <3>2. free_inode' \in Nat /\ free_block' \in Nat /\ inum' \in Nat /\ nread' \in Nat
        BY <1>1, <1>4, <2>1 DEF Types
    <3> QED BY <1>7, <1>8, <2>1, <2>2, <3>1, <3>2, TypesAfter, Zenon
  <2> QED BY <2>1, <2>9, <2>10, <2>14, <2>15, <2>16, <2>17, <2>18, Zenon DEF ImageInv, Building, Live
<1> QED BY <1>3, <1>9, <1>10, Zenon

\* Two images with the same boot, super, log, inode and bitmap blocks.
SameMeta(img, img2) == \A b \in 0..(NMeta - 1) : img2[b] = img[b]

(* The inodes are the same in two images with the same meta blocks. *)
LEMMA ReadInodeFrame ==
    ASSUME NEW img, NEW img2, SameMeta(img, img2), NEW i \in 0..NInodes
    PROVE  ReadInode(img2, i) = ReadInode(img, i)
<1>1. InodePos(i).blk \in 0..(NMeta - 1)
    BY InodePosType, Layout
<1> QED BY <1>1, Zenon DEF ReadInode, SameMeta

(* The length of the next chunk, as append_inode computes it. *)
LEMMA Chunk ==
    ASSUME NEW b \in Nat \ {0}, NEW l \in Nat, NEW q \in Nat, NEW o, NEW r \in 0..(b - 1),
           o = b * q + r, NEW n, n = IF l < (q + 1) * b - o THEN l ELSE (q + 1) * b - o
    PROVE  n \in Nat /\ n <= l /\ n <= b * q + b - o
<1>1. (q + 1) * b = b * q + b /\ b * q \in Nat
    OBVIOUS
<1>2. o \in Nat /\ (q + 1) * b - o = b - r
    BY <1>1
<1> QED BY <1>1, <1>2

(* Positions in a chunk. *)
LEMMA ChunkIndex ==
    ASSUME NEW l \in Nat, NEW n \in Nat, n <= l, NEW o \in Nat, NEW r \in Nat,
           NEW m \in r..(r + n - 1)
    PROVE  m - r + 1 \in 1..l /\ o + (m - r + 1) - 1 = o + (m - r)
OBVIOUS

\* The l units of d are those of inode i from o on; d2 is d without the first n.
Follows(d, l, i, o) == \A m \in 1..l : d[m] = Content(i, o + m - 1)
Rest(d, l, d2, l2, n) == l2 = l - n /\ \A m \in 1..l2 : d2[m] = d[n + m]

(* The rest of the data follows on the chunk. *)
LEMMA RestFollows ==
    ASSUME NEW d, NEW d2, NEW l \in Nat, NEW n \in Nat, n <= l, NEW o \in Nat, NEW i,
           Follows(d, l, i, o), NEW l2, Rest(d, l, d2, l2, n)
    PROVE  Follows(d2, l2, i, o + n)
<1> SUFFICES ASSUME NEW m \in 1..l2 PROVE d2[m] = Content(i, (o + n) + m - 1)
    BY Zenon DEF Follows
<1>1. n + m \in 1..l /\ (o + n) + m - 1 = o + (n + m) - 1
    BY DEF Rest
<1>2. d2[m] = d[n + m]
    BY Zenon DEF Rest
<1>3. d[n + m] = Content(i, o + (n + m) - 1)
    BY <1>1, Zenon DEF Follows
<1> QED BY <1>1, <1>2, <1>3, Zenon

\* What a successful CopyTo does: it writes n units, which were the first of data.
Copied(img, sect, c, n) ==
    /\ n \in Nat /\ n <= Len(data) /\ n <= BlkSize * (off \div BlkSize) + BlkSize - off
    /\ Patched(img, sect, c, inum, off, n)
    /\ image' = WithData(img, sect, c)
    /\ off' = off + n /\ pc' = pc
    /\ Rest(data, Len(data), data', Len(data'), n)

(* The units copied are the contents that belong there. *)
LEMMA CopyEffect ==
    ASSUME Types, InFlight, pc = "append", data # <<>>, NEW img, Image(img), NEW sect \in DOMAIN img,
           CopyTo(img, sect, off \div BlkSize)
    PROVE  \E n, c : Copied(img, sect, c, n)
<1> DEFINE fbn == off \div BlkSize
           n == IF Len(data) < (fbn + 1) * BlkSize - off THEN Len(data)
                ELSE (fbn + 1) * BlkSize - off
           begin == off % BlkSize
           c == [i \in DOMAIN AsData(img[sect]) |->
                    IF i \in begin..(begin + n - 1) THEN data[i - begin + 1]
                    ELSE AsData(img[sect])[i]]
<1>1. /\ image' = WithData(img, sect, c) /\ off' = off + n
      /\ data' = SubSeq(data, n + 1, Len(data)) /\ pc' = pc
    BY Zenon DEF CopyTo, WithData
<1>2. Len(data) \in Nat /\ off \in Nat /\ data \in Seq(Units)
    BY LenProperties, Zenon DEF Types
<1>3. fbn \in Nat /\ begin \in 0..(BlkSize - 1) /\ off = BlkSize * fbn + begin
    BY <1>2, DivMod, Constants, Zenon
<1>4. n = IF Len(data) < (fbn + 1) * BlkSize - off THEN Len(data)
          ELSE (fbn + 1) * BlkSize - off
    BY Zenon
<1>6. DOMAIN AsData(img[sect]) = 0..(BlkSize - 1)
    BY Zenon DEF Image, SectorOK
<1>7. /\ DOMAIN c = 0..(BlkSize - 1)
      /\ \A m \in 0..(BlkSize - 1) :
            c[m] = IF m \in begin..(begin + n - 1) THEN data[m - begin + 1] ELSE AsData(img[sect])[m]
    BY <1>6, Zenon
<1> HIDE DEF n, c, fbn, begin
<1>5. n \in Nat /\ n <= Len(data) /\ n <= BlkSize * fbn + BlkSize - off
    BY <1>2, <1>3, <1>4, Constants, Chunk, Zenon
<1>8. ASSUME NEW m \in begin..(begin + n - 1)
      PROVE  data[m - begin + 1] = Content(inum, off + (m - begin))
  <2>1. m - begin + 1 \in 1..Len(data) /\ off + (m - begin + 1) - 1 = off + (m - begin)
      BY <1>2, <1>3, <1>5, ChunkIndex
  <2>2. data[m - begin + 1] = Content(inum, off + (m - begin + 1) - 1)
      BY <2>1, Zenon DEF InFlight
  <2> QED BY <2>1, <2>2, Zenon
<1>9. Patched(img, sect, c, inum, off, n)
  <2>1. ASSUME NEW m \in 0..(BlkSize - 1)
        PROVE  c[m] = IF m \in begin..(begin + n - 1) THEN Content(inum, off + (m - begin))
                      ELSE AsData(img[sect])[m]
    <3>1. CASE m \in begin..(begin + n - 1)
        BY <1>7, <1>8, <3>1, Zenon
    <3>2. CASE m \notin begin..(begin + n - 1)
        BY <1>7, <3>2, Zenon
    <3> QED BY <3>1, <3>2, Zenon
  <2> QED BY <1>7, <2>1, Zenon DEF Patched, begin
<1>10. Rest(data, Len(data), data', Len(data'), n)
  <2>1. \A i \in (n + 1)..Len(data) : data[i] \in Units
      BY <1>2, <1>5
  <2>2. n + 1 \in Int /\ Len(data) \in Int
      BY <1>2, <1>5
  <2>3. /\ Len(data') = IF n + 1 <= Len(data) THEN Len(data) - (n + 1) + 1 ELSE 0
        /\ \A i \in 1..(Len(data) - (n + 1) + 1) : data'[i] = data[(n + 1) + i - 1]
      BY <1>1, <2>1, <2>2, SubSeqProperties
  <2> QED BY <1>2, <1>5, <2>3 DEF Rest
<1> QED BY <1>1, <1>5, <1>9, <1>10, Zenon DEF Copied, fbn

(* Once the block has its address, the turn of the loop keeps the invariant. *)
LEMMA CopyStep ==
    ASSUME EnoughInodes, ImageInv, pc = "append", data # <<>>,
           NEW img, NEW tab, NEW fb, Table(img, tab, fb), Filled(img, tab),
           DOMAIN tab = Inodes, tab[inum] = [din' EXCEPT !.size = off],
           \A j \in Inodes : j # inum => tab[j] = Tab[j], SameMeta(image, img),
           din' \in Inode, din'.type = din.type, off \div BlkSize < MaxFile,
           NEW sect \in DOMAIN img, sect # 0,
           Sect(img, tab[inum], SlotOf(off \div BlkSize)) = sect,
           CopyTo(img, sect, off \div BlkSize),
           free_block' = fb, UNCHANGED <<free_inode, inum, ret, nread, lens>>
    PROVE  pc' = "append" /\ Building'
<1>1. Types /\ Building /\ \A i \in Inodes : i \in 0..NInodes
    BY LiveFacts, Zenon DEF Live
<1>2. Image(img) /\ Counters /\ InFlight /\ FileTypes /\ Sizes /\ inum \in Inodes
    BY <1>1, Zenon DEF Table, Building, InFlight
<1>3. PICK n, c : Copied(img, sect, c, n)
    BY <1>1, <1>2, CopyEffect, Zenon
<1>4. n \in Nat /\ off \in Nat /\ Len(data) \in Nat /\ off + n \in Nat /\ off' = off + n
      /\ pc' = "append"
  <2>1. n \in Nat /\ off' = off + n /\ pc' = "append" /\ off \in Nat /\ data \in Seq(Units)
      BY <1>1, <1>3, Zenon DEF Copied, Types
  <2> QED BY <2>1, LenProperties
<1>5. /\ DOMAIN tab = Inodes /\ inum \in DOMAIN tab /\ tab[inum].size = off
      /\ tab[inum].addrs = din'.addrs
    BY <1>2, <1>4, SetSize
<1>6. DataEffect(img, image', sect, c)
  <2>1. image' = WithData(img, sect, c) /\ DOMAIN c = 0..(BlkSize - 1) /\ sect \in 0..(FsSize - 1)
      BY <1>2, <1>3, Zenon DEF Copied, Patched, Image
  <2> QED BY <1>2, <2>1, WithDataEffect, Zenon
<1>7. SameMeta(image, image')
  <2>1. off \div BlkSize \in Nat
      BY <1>4, DivMod, Constants, Zenon
  <2>2. SlotOf(off \div BlkSize) \in Slots
      BY <2>1, SlotOfType, Zenon
  <2>3. sect \in NMeta..(fb - 1) /\ fb \in Nat
      BY <1>5, <2>2, TableFacts, Zenon
  <2>4. \A b \in 0..(NMeta - 1) : b # sect /\ b \in 0..(FsSize - 1)
    <3>1. NMeta \in Nat /\ FsSize \in Nat /\ NMeta <= FsSize
        BY Layout, Constants, Zenon
    <3> QED BY <2>3, <3>1
  <2> QED BY <1>6, <2>4, Zenon DEF SameMeta, DataEffect, OnlySector
<1>8. Inodes' = Inodes
    BY Zenon DEF Inodes
<1>9. /\ DOMAIN Tab' = Inodes /\ Tab'[inum] = [din' EXCEPT !.size = off']
      /\ \A j \in Inodes : j # inum => Tab'[j] = Tab[j]
  <2>1. \A j \in Inodes : ReadInode(image', j) = ReadInode(image, j)
      BY <1>1, <1>7, ReadInodeFrame, Zenon
  <2>2. \A j \in Inodes : Tab'[j] = IF j = inum THEN [din' EXCEPT !.size = off'] ELSE ReadInode(image', j)
      BY <1>4, <1>8, Zenon DEF Tab, Appending
  <2>3. \A j \in Inodes : j # inum => Tab[j] = ReadInode(image, j)
      BY Zenon DEF Tab, Appending
  <2>4. DOMAIN Tab' = Inodes
      BY <1>8, Zenon DEF Tab
  <2>5. Tab'[inum] = [din' EXCEPT !.size = off']
      BY <1>2, <2>2, Zenon
  <2>6. ASSUME NEW j \in Inodes, j # inum PROVE Tab'[j] = Tab[j]
    <3>1. Tab'[j] = ReadInode(image', j)
        BY <2>2, <2>6, Zenon
    <3> QED BY <2>1, <2>3, <2>6, <3>1, Zenon
  <2> QED BY <2>4, <2>5, <2>6, Zenon
<1>10. /\ Tab'[inum] \in Inode /\ Tab'[inum].size = off + n /\ Tab'[inum].addrs = din'.addrs
       /\ Tab'[inum].type = din.type
    BY <1>4, <1>9, SetSize
<1>11. Grown(tab, Tab', inum, off + n)
  <2>1. \A j \in Inodes : tab[j] \in Inode
      BY <1>5, Zenon DEF Table
  <2> QED BY <1>5, <1>9, <1>10, <2>1, Zenon DEF Grown, SameAddrs
<1>12. Table(image', Tab', free_block') /\ Filled(image', Tab')
  <2>1. n <= BlkSize * (off \div BlkSize) + BlkSize - off /\ Patched(img, sect, c, inum, off, n)
      BY <1>3, Zenon DEF Copied
  <2> QED BY <1>4, <1>5, <1>6, <1>11, <2>1, PutAndGrow, Zenon
<1>13. Counters'
  <2>1. Stage' = Stage
      BY <1>4, Zenon DEF Stage
  <2> QED BY <1>2, <2>1, Zenon DEF Counters
<1>14. InFlight'
  <2>1. Rest(data, Len(data), data', Len(data'), n) /\ n <= Len(data)
      BY <1>3, Zenon DEF Copied
  <2>2. Follows(data, Len(data), inum, off)
      BY <1>2, Zenon DEF InFlight, Follows
  <2>3. Follows(data', Len(data'), inum, off')
      BY <1>4, <2>1, <2>2, RestFollows, Zenon
  <2>4. inum' = inum
      BY Zenon
  <2> QED BY <1>2, <1>8, <2>3, <2>4, Zenon DEF InFlight, Follows
<1>15. FileTypes'
  <2>1. Tab[inum].type = din.type
      BY <1>1, <1>2, <1>4, SetSize, Zenon DEF Tab, Appending, Types
  <2> QED BY <1>2, <1>8, <1>9, <1>10, <2>1, Zenon DEF FileTypes
<1>16. Sizes'
  <2> SUFFICES ASSUME NEW i \in Inodes
               PROVE  Tab'[i].size + (IF i = inum THEN Len(data') ELSE 0) = Goal(i)'
      BY <1>4, <1>8, Zenon DEF Sizes, Appending
  <2>1. Tab[i].size + (IF i = inum THEN Len(data) ELSE 0) = Goal(i)
      BY <1>2, Zenon DEF Sizes, Appending
  <2>2. Goal(i)' = Goal(i)
      BY <1>4, Zenon DEF Goal, Stage
  <2>3. CASE i # inum
      BY <1>9, <2>1, <2>2, <2>3, Zenon
  <2>4. CASE i = inum
    <3>1. Tab[inum].size = off
        BY <1>1, <1>2, <1>4, SetSize, Zenon DEF Tab, Appending, Types
    <3>2. Len(data') = Len(data) - n
        BY <1>3, Zenon DEF Copied, Rest
    <3> QED BY <1>4, <1>10, <2>1, <2>2, <2>4, <3>1, <3>2
  <2> QED BY <2>3, <2>4, Zenon
<1> QED BY <1>4, <1>12, <1>13, <1>14, <1>15, <1>16, Zenon DEF Building

\* The image and its inodes when the inode of the append has the addresses of din'.
Ready(img, tab, fb) ==
    /\ Table(img, tab, fb) /\ Filled(img, tab) /\ DOMAIN tab = Inodes
    /\ tab[inum] = [din' EXCEPT !.size = off]
    /\ \A j \in Inodes : j # inum => tab[j] = Tab[j]
    /\ SameMeta(image, img)
    /\ din' \in Inode /\ din'.type = din.type

\* What address k of din becomes, and the next free block after it.
TakenAddr(k) == IF din.addrs[k] = 0 THEN free_block ELSE din.addrs[k]
TakenNext(k) == free_block + (IF din.addrs[k] = 0 THEN 1 ELSE 0)

(* An address of the inode is taken on first use. *)
LEMMA AddressReady ==
    ASSUME EnoughInodes, ImageInv, pc = "append", NEW k \in 0..NDirect,
           din' = [din EXCEPT !.addrs[k] = TakenAddr(k)], TakenAddr(k) \in DOMAIN image
    PROVE  /\ \E tab : Ready(image, tab, TakenNext(k))
           /\ din'.addrs[k] = TakenAddr(k) /\ TakenAddr(k) # 0
<1>1. /\ Types /\ Building /\ Image(image) /\ DOMAIN image = 0..(FsSize - 1)
      /\ SameMeta(image, image) /\ k \in Slots
  <2>1. Types /\ Building /\ Image(image)
      BY LiveFacts, Zenon DEF Live
  <2>2. k \in Slots
      BY Constants DEF Slots
  <2> QED BY <2>1, <2>2, Zenon DEF Image, SameMeta
<1>2. /\ Table(image, Tab, free_block) /\ Filled(image, Tab) /\ inum \in Inodes
      /\ din \in Inode /\ off \in Nat
    BY <1>1, Zenon DEF Building, InFlight, Types
<1>3. DOMAIN Tab = Inodes /\ Tab[inum] = [din EXCEPT !.size = off]
    BY <1>2, Zenon DEF Tab, Appending
<1>4. Tab[inum].addrs = din.addrs /\ Tab[inum].size = off
    BY <1>2, <1>3, SetSize
<1>5. free_block \in Nat /\ NMeta <= free_block /\ free_block # 0 /\ free_block + 0 = free_block
    BY <1>2, TableFacts, Layout
<1>6. CASE din.addrs[k] = 0
  <2>1. TakenAddr(k) = free_block /\ TakenNext(k) = free_block + 1
      BY <1>6, Zenon DEF TakenAddr, TakenNext
  <2>2. /\ din' \in Inode /\ din'.type = din.type /\ din'.addrs[k] = free_block
        /\ \A m \in 0..NDirect : m # k => din'.addrs[m] = din.addrs[m]
      BY <1>2, <1>5, <2>1, SetAddress
  <2> DEFINE ind == [din' EXCEPT !.size = off]
             tab == [Tab EXCEPT ![inum] = ind]
  <2>3. ind \in Inode /\ ind.addrs = din'.addrs /\ ind.size = off
    <3>1. \A d \in Inode : /\ [d EXCEPT !.size = off] \in Inode
                            /\ [d EXCEPT !.size = off].addrs = d.addrs
                            /\ [d EXCEPT !.size = off].size = off
        BY <1>2, Zenon DEF Inode
    <3> QED BY <2>2, <3>1, Zenon
  <2> HIDE DEF ind
  <2>4. /\ DOMAIN tab = DOMAIN Tab /\ tab[inum] = ind
        /\ \A j \in Inodes : j # inum => tab[j] = Tab[j]
      BY <1>2, <1>3, Zenon
  <2> HIDE DEF tab
  <2>5. SetAddr(Tab, tab, inum, k, free_block)
    <3>1. \A m \in 0..NDirect : m # k => tab[inum].addrs[m] = Tab[inum].addrs[m]
        BY <1>4, <2>2, <2>3, <2>4, Zenon
    <3> QED BY <1>3, <2>2, <2>3, <2>4, <3>1, Zenon DEF SetAddr
  <2>6. Table(image, tab, free_block + 1) /\ KeepsData(image, Tab, image, tab)
    <3>1. free_block \in 0..(FsSize - 1) /\ inum \in DOMAIN Tab /\ Tab[inum].addrs[k] = 0
        BY <1>1, <1>2, <1>3, <1>4, <1>6, <2>1, Zenon
    <3> QED BY <1>2, <2>5, <3>1, TakeAddr, Zenon
  <2>7. Filled(image, tab)
    <3>1. \A i \in DOMAIN Tab : Tab[i].size \in Nat
        BY <1>2, Zenon DEF Table, Inode
    <3>2. SameSizes(Tab, tab)
        BY <1>3, <1>4, <2>3, <2>4, Zenon DEF SameSizes
    <3> QED BY <1>2, <2>4, <2>6, <3>1, <3>2, FilledFrame, Zenon
  <2>8. Ready(image, tab, TakenNext(k))
      BY <1>1, <1>3, <2>1, <2>2, <2>4, <2>6, <2>7, Zenon DEF Ready, ind
  <2> QED BY <1>5, <2>1, <2>2, <2>8, Zenon
<1>7. CASE din.addrs[k] # 0
  <2>1. TakenAddr(k) = din.addrs[k] /\ TakenNext(k) = free_block
      BY <1>5, <1>7, Zenon DEF TakenAddr, TakenNext
  <2>2. din.addrs[k] \in Nat
      BY <1>2, <1>5, SetAddress, Zenon
  <2>3. din' = din
    <3>1. [din EXCEPT !.addrs[k] = din.addrs[k]] = din
        BY <1>2, Zenon DEF Inode
    <3> QED BY <2>1, <3>1, Zenon
  <2>4. Ready(image, Tab, TakenNext(k))
      BY <1>1, <1>2, <1>3, <2>1, <2>3, Zenon DEF Ready
  <2> QED BY <1>7, <2>1, <2>3, <2>4, Zenon
<1> QED BY <1>6, <1>7, Zenon

(* CopyStep from what is ready. *)
LEMMA ReadyStep ==
    ASSUME EnoughInodes, ImageInv, AppendBlock, NEW img, NEW tab, NEW fb, Ready(img, tab, fb),
           off \div BlkSize < MaxFile, NEW sect, sect # 0,
           Sect(img, tab[inum], SlotOf(off \div BlkSize)) = sect,
           CopyTo(img, sect, off \div BlkSize), free_block' = fb
    PROVE  ImageInv'
<1>1. Types' /\ pc = "append" /\ data # <<>> /\ UNCHANGED <<free_inode, inum, ret, nread, lens>>
    BY AppendTypes, Zenon DEF AppendBlock
<1>2. CASE sect \notin DOMAIN img
  <2>1. pc' = "err"
      BY <1>2, Zenon DEF CopyTo
  <2> QED BY <1>1, <2>1, Zenon DEF ImageInv, Live
<1>3. CASE sect \in DOMAIN img
  <2>1. pc' = "append" /\ Building'
    <3>1. /\ Table(img, tab, fb) /\ Filled(img, tab) /\ DOMAIN tab = Inodes
          /\ tab[inum] = [din' EXCEPT !.size = off]
          /\ \A j \in Inodes : j # inum => tab[j] = Tab[j]
          /\ SameMeta(image, img)
          /\ din' \in Inode /\ din'.type = din.type
        BY Zenon DEF Ready
    <3> QED BY <1>1, <1>3, <3>1, CopyStep, Zenon
  <2> QED BY <1>1, <2>1, Zenon DEF ImageInv, Live
<1> QED BY <1>2, <1>3, Zenon

(* A turn of the loop for a block addressed by the inode. *)
LEMMA DirectStep ==
    ASSUME EnoughInodes, ImageInv, AppendBlock, AppendDirect(off \div BlkSize)
    PROVE  ImageInv'
<1> DEFINE fbn == off \div BlkSize
<1>1. Types' /\ pc = "append" /\ off \in Nat
  <2>1. Types' /\ pc = "append"
      BY AppendTypes, Zenon DEF AppendBlock
  <2> QED BY <2>1, LiveFacts, Zenon DEF Live, Types
<1>2. fbn \in Nat
    BY <1>1, DivMod, Constants, Zenon
<1>3. /\ fbn < NDirect /\ free_block' = TakenNext(fbn) /\ CopyTo(image, TakenAddr(fbn), fbn)
      /\ din' = [din EXCEPT !.addrs[fbn] = TakenAddr(fbn)]
    BY Zenon DEF AppendDirect, TakenAddr, TakenNext
<1> HIDE DEF fbn
<1>4. fbn \in 0..NDirect /\ fbn <= NDirect /\ SlotOf(fbn) = fbn /\ fbn < MaxFile
    BY <1>2, <1>3, Constants DEF SlotOf
<1>5. CASE TakenAddr(fbn) \notin DOMAIN image
  <2>1. pc' = "err"
      BY <1>3, <1>5, Zenon DEF CopyTo
  <2> QED BY <1>1, <2>1, Zenon DEF ImageInv, Live
<1>6. CASE TakenAddr(fbn) \in DOMAIN image
  <2>1. /\ \E tab : Ready(image, tab, TakenNext(fbn))
        /\ din'.addrs[fbn] = TakenAddr(fbn) /\ TakenAddr(fbn) # 0
      BY <1>1, <1>3, <1>4, <1>6, AddressReady, Zenon
  <2>2. PICK tab : Ready(image, tab, TakenNext(fbn))
      BY <2>1, Zenon
  <2>3. Sect(image, tab[inum], SlotOf(fbn)) = TakenAddr(fbn)
    <3>1. tab[inum] = [din' EXCEPT !.size = off] /\ din' \in Inode
        BY <2>2, Zenon DEF Ready
    <3>2. tab[inum].addrs = din'.addrs
        BY <1>1, <3>1, SetSize
    <3> QED BY <1>4, <2>1, <3>2, Zenon DEF Sect
  <2> QED BY <1>3, <1>4, <2>1, <2>2, <2>3, ReadyStep, Zenon DEF fbn
<1> QED BY <1>5, <1>6, Zenon

\* The parts of AppendIndirect: entry e of the indirect block, and the image with it.
Entry(e) == AsAddrs(image[TakenAddr(NDirect)])[e]
TakenEntry(e) == IF Entry(e) = 0 THEN TakenNext(NDirect) ELSE Entry(e)
EntryNext(e) == TakenNext(NDirect) + (IF Entry(e) = 0 THEN 1 ELSE 0)
EntryImage(e) == IF Entry(e) # 0 THEN image
                 ELSE WithEntry(image, TakenAddr(NDirect), e, TakenNext(NDirect))

(* An entry of the indirect block is taken on first use. *)
LEMMA EntryReady ==
    ASSUME EnoughInodes, ImageInv, pc = "append", NEW e \in 0..(NIndirect - 1),
           TakenAddr(NDirect) \in DOMAIN image, TakenAddr(NDirect) # 0,
           din'.addrs[NDirect] = TakenAddr(NDirect),
           NEW tab, Ready(image, tab, TakenNext(NDirect)), TakenEntry(e) \in DOMAIN image
    PROVE  /\ Ready(EntryImage(e), tab, EntryNext(e)) /\ TakenEntry(e) # 0
           /\ tab[inum].addrs[NDirect] = TakenAddr(NDirect)
           /\ AsAddrs(EntryImage(e)[TakenAddr(NDirect)])[e] = TakenEntry(e)
<1> DEFINE a == TakenAddr(NDirect)
           nx == TakenNext(NDirect)
<1>1. /\ Types /\ Building /\ Image(image) /\ DOMAIN image = 0..(FsSize - 1)
      /\ off \in Nat /\ inum \in Inodes
    BY LiveFacts, Zenon DEF Live, Image, Types, Building, InFlight
<1>2. /\ Table(image, tab, nx) /\ Filled(image, tab) /\ DOMAIN tab = Inodes
      /\ tab[inum] = [din' EXCEPT !.size = off] /\ din' \in Inode
    BY Zenon DEF Ready
<1>3. tab[inum].addrs[NDirect] = a
    BY <1>1, <1>2, SetSize
<1>4. nx \in Nat /\ nx # 0 /\ NMeta <= nx /\ nx + 0 = nx
    BY <1>2, TableFacts, Layout
<1> HIDE DEF a, nx
<1>5. CASE Entry(e) # 0
  <2>1. TakenEntry(e) = Entry(e) /\ EntryNext(e) = nx /\ EntryImage(e) = image
      BY <1>4, <1>5, Zenon DEF TakenEntry, EntryNext, EntryImage, nx
  <2> QED BY <1>3, <1>5, <2>1, Zenon DEF Entry, a, nx
<1>6. CASE Entry(e) = 0
  <2>1. TakenEntry(e) = nx /\ EntryNext(e) = nx + 1 /\ EntryImage(e) = WithEntry(image, a, e, nx)
      BY <1>6, Zenon DEF TakenEntry, EntryNext, EntryImage, nx, a
  <2> DEFINE w == WithEntry(image, a, e, nx)
  <2> HIDE DEF w
  <2>2. a # 0 /\ a \in 0..(FsSize - 1) /\ nx \in 0..(FsSize - 1) /\ AsAddrs(image[a])[e] = 0
      BY <1>1, <1>6, <2>1, Zenon DEF a, Entry
  <2>3. Table(w, tab, nx + 1) /\ KeepsData(image, tab, w, tab)
    <3>1. inum \in DOMAIN tab /\ tab[inum].addrs[NDirect] # 0
          /\ AsAddrs(image[tab[inum].addrs[NDirect]])[e] = 0
        BY <1>1, <1>2, <1>3, <2>2, Zenon
    <3>2. w = WithEntry(image, tab[inum].addrs[NDirect], e, nx)
        BY <1>3, Zenon DEF w
    <3> QED BY <1>2, <2>2, <3>1, <3>2, TakeEntry, Zenon
  <2>4. Filled(w, tab)
    <3>1. \A i \in DOMAIN tab : tab[i].size \in Nat
        BY <1>2, Zenon DEF Table, Inode
    <3> QED BY <1>2, <2>3, <3>1, FilledFrame, Zenon DEF SameSizes
  <2>5. EntryEffect(image, w, a, e, nx)
      BY <1>1, <1>4, <2>2, WithEntryEffect, Zenon DEF w
  <2>6. SameMeta(image, w)
    <3>1. a \in NMeta..(nx - 1) /\ NMeta \in Nat /\ FsSize \in Nat /\ NMeta <= FsSize
      <4>1. Sect(image, tab[inum], NDirect) = a /\ NDirect \in Slots
          BY <1>3, Constants DEF Sect, Slots
      <4>2. a \in NMeta..(nx - 1)
          BY <1>1, <1>2, <2>2, <4>1, TableFacts, Zenon
      <4> QED BY <4>2, Layout, Constants, Zenon
    <3>2. \A b \in 0..(NMeta - 1) : b # a /\ b \in 0..(FsSize - 1)
        BY <1>4, <3>1
    <3> QED BY <2>5, <3>2, Zenon DEF SameMeta, EntryEffect, OnlySector
  <2>7. Ready(w, tab, nx + 1)
      BY <2>3, <2>4, <2>6, Zenon DEF Ready
  <2>8. AsAddrs(w[a])[e] = nx
      BY <2>5, Zenon DEF EntryEffect
  <2> QED BY <1>3, <1>4, <2>1, <2>7, <2>8, Zenon DEF a, w
<1> QED BY <1>5, <1>6, Zenon

(* A turn of the loop for a block addressed by the indirect block. *)
LEMMA IndirectStep ==
    ASSUME EnoughInodes, ImageInv, AppendBlock, AppendIndirect(off \div BlkSize)
    PROVE  ImageInv'
<1> DEFINE fbn == off \div BlkSize
           e == fbn - NDirect
           a == TakenAddr(NDirect)
<1>1. Types' /\ pc = "append" /\ off \in Nat /\ Image(image)
  <2>1. Types' /\ pc = "append"
      BY AppendTypes, Zenon DEF AppendBlock
  <2> QED BY <2>1, LiveFacts, Zenon DEF Live, Types
<1>2. fbn \in Nat
    BY <1>1, DivMod, Constants, Zenon
<1>3. /\ fbn \in NDirect..(MaxFile - 1)
      /\ din' = [din EXCEPT !.addrs[NDirect] = a]
      /\ IF a \notin DOMAIN image
         THEN pc' = "err"
         ELSE free_block' = EntryNext(e) /\ CopyTo(EntryImage(e), TakenEntry(e), fbn)
    BY Zenon DEF AppendIndirect, TakenAddr, TakenNext, Entry, TakenEntry, EntryNext, EntryImage,
                 WithEntry
<1> HIDE DEF fbn
<1>4. e \in 0..(NIndirect - 1) /\ NDirect \in 0..NDirect /\ fbn < MaxFile
      /\ SlotOf(fbn) - NDirect - 1 = e /\ ~(SlotOf(fbn) <= NDirect)
    BY <1>2, <1>3, Constants DEF SlotOf
<1> HIDE DEF e, a
<1>5. CASE pc' = "err"
    BY <1>1, <1>5, Zenon DEF ImageInv, Live
<1>6. CASE a \in DOMAIN image /\ TakenEntry(e) \notin DOMAIN image
  <2>1. CopyTo(EntryImage(e), TakenEntry(e), fbn)
      BY <1>3, <1>6, Zenon
  <2>2. DOMAIN EntryImage(e) = DOMAIN image
      BY Zenon DEF EntryImage, WithEntry
  <2>3. pc' = "err"
      BY <1>6, <2>1, <2>2, Zenon DEF CopyTo
  <2> QED BY <1>5, <2>3, Zenon
<1>7. CASE a \in DOMAIN image /\ TakenEntry(e) \in DOMAIN image
  <2>1. /\ \E tab : Ready(image, tab, TakenNext(NDirect))
        /\ din'.addrs[NDirect] = a /\ a # 0
      BY <1>1, <1>3, <1>4, <1>7, AddressReady, Zenon DEF a
  <2>2. PICK tab : Ready(image, tab, TakenNext(NDirect))
      BY <2>1, Zenon
  <2>3. /\ Ready(EntryImage(e), tab, EntryNext(e)) /\ TakenEntry(e) # 0
        /\ tab[inum].addrs[NDirect] = a
        /\ AsAddrs(EntryImage(e)[a])[e] = TakenEntry(e)
      BY <1>1, <1>4, <1>7, <2>1, <2>2, EntryReady, Zenon DEF a
  <2>4. Sect(EntryImage(e), tab[inum], SlotOf(fbn)) = TakenEntry(e)
      BY <1>4, <2>1, <2>3, Zenon DEF Sect
  <2>5. free_block' = EntryNext(e) /\ CopyTo(EntryImage(e), TakenEntry(e), fbn)
      BY <1>3, <1>7, Zenon
  <2> QED BY <1>4, <2>3, <2>4, <2>5, ReadyStep, Zenon DEF fbn
<1> QED BY <1>3, <1>5, <1>6, <1>7, Zenon

(* A turn of append_inode's loop. *)
LEMMA AppendBlockStep ==
    ASSUME EnoughInodes, ImageInv, AppendBlock
    PROVE  ImageInv'
<1>1. \/ AppendDirect(off \div BlkSize) \/ AppendIndirect(off \div BlkSize) \/ pc' = "panic"
    BY Zenon DEF AppendBlock
<1>2. CASE pc' = "panic"
    BY <1>2, AppendTypes, Zenon DEF ImageInv, Live
<1> QED BY <1>1, <1>2, DirectStep, IndirectStep, Zenon

(* Between two files, every inode has the size of what belongs there. *)
LEMMA FilesGoal ==
    ASSUME EnoughInodes, ImageInv, pc = "files"
    PROVE  /\ \A i \in Inodes : Tab[i].size = Goal(i) /\ Goal(i) \in Nat
           /\ Goal(RootIno) = Len(lens) + 2
           /\ \A k \in 1..Len(lens) : k + 1 \in Inodes /\ k + 1 # RootIno /\ Goal(k + 1) = lens[k]
<1>1. Building /\ Len(lens) \in Nat /\ free_inode = Len(lens) + 2
    BY LiveFacts, Zenon DEF Live
<1>2. \A i \in Inodes : Tab[i].size + 0 = Goal(i) /\ Tab[i].size \in Nat
  <2>1. DOMAIN Tab = Inodes
      BY Zenon DEF Tab
  <2> QED BY <1>1, <2>1, Zenon DEF Building, Sizes, Appending, Table, Inode
<1>3. \A i \in Inodes : Tab[i].size = Goal(i) /\ Goal(i) \in Nat
    BY <1>2
<1>4. Goal(RootIno) = Len(lens) + 2
    BY Zenon DEF Goal, Stage
<1>5. ASSUME NEW k \in 1..Len(lens)
      PROVE  k + 1 \in Inodes /\ k + 1 # RootIno /\ Goal(k + 1) = lens[k]
  <2>1. k + 1 \in Inodes /\ k + 1 # RootIno /\ (k + 1) - 1 = k
      BY <1>1 DEF Inodes, RootIno
  <2>2. k + 1 = Len(lens) + 1 => nread = lens[k]
      BY <1>1 DEF Building, Counters, Stage
  <2> QED BY <2>1, <2>2, Zenon DEF Goal
<1> QED BY <1>3, <1>4, <1>5, Zenon

(* The end of main: the root's size and the bitmap. *)
LEMMA FinishStep ==
    ASSUME EnoughInodes, ImageInv, Finish
    PROVE  ImageInv'
<1> DEFINE root == ReadInode(image, RootIno)
           size == (root.size \div BlkSize + 1) * BlkSize
           ind == [root EXCEPT !.size = size]
           img == WriteInode(image, RootIno, ind)
           bm == [kind |-> "bitmap", used |-> 0..(free_block - 1)]
<1>1. /\ pc = "files" /\ UNCHANGED <<free_inode, free_block, inum, din, off, data, ret, nread, lens>>
      /\ \/ image' = img /\ pc' = "panic"
         \/ image' = [img EXCEPT ![bmap_start] = bm] /\ pc' = "done"
    BY Zenon DEF Finish, locals
<1>2. /\ Types /\ Building /\ Image(image) /\ Len(lens) \in Nat /\ Len(lens) <= MaxFiles
      /\ free_inode = Len(lens) + 2 /\ RootIno \in Inodes /\ RootIno \in 0..NInodes
      /\ \A i \in Inodes : i \in 0..NInodes
    BY <1>1, LiveFacts, Zenon DEF Live, RootIno
<1>3. root \in Inode /\ root.size \in Nat
    BY <1>2, ReadInodeType, Zenon DEF Inode
<1>4. size \in Nat /\ size >= root.size
  <2>1. root.size \div BlkSize \in Nat /\ root.size % BlkSize \in 0..(BlkSize - 1)
        /\ root.size = BlkSize * (root.size \div BlkSize) + (root.size % BlkSize)
      BY <1>3, DivMod, Constants, Zenon
  <2>2. ASSUME NEW b \in Nat \ {0}, NEW q \in Nat, NEW r \in 0..(b - 1)
        PROVE  (q + 1) * b \in Nat /\ (q + 1) * b >= b * q + r
    <3>1. (q + 1) * b = b * q + b /\ b * q \in Nat
        OBVIOUS
    <3> QED BY <3>1
  <2> QED BY <2>1, <2>2, Constants
<1> HIDE DEF size
<1>5. ind \in Inode /\ ind.size = size /\ ind.addrs = root.addrs /\ ind.type = root.type
    BY <1>3, <1>4, SetSize, Zenon
<1> HIDE DEF root, ind
<1>6. /\ Image(img) /\ SameData(image, img)
      /\ \A i \in Inodes : ReadInode(img, i) = IF i = RootIno THEN ind ELSE ReadInode(image, i)
    BY <1>2, <1>5, WriteInodeEffect
<1> HIDE DEF img
<1>7. CASE image' = img /\ pc' = "panic"
    BY <1>1, <1>2, <1>6, <1>7, TypesAfter, Zenon DEF Types, ImageInv, Live
<1>8. CASE image' = [img EXCEPT ![bmap_start] = bm] /\ pc' = "done"
  <2>1. bmap_start \in 0..(NMeta - 1) /\ bmap_start \in 0..(FsSize - 1)
        /\ bmap_start \notin NMeta..(FsSize - 1)
      BY Layout, Constants
  <2>2. SectorOK(bm)
    <3>1. bm.kind = "bitmap"
        BY Zenon
    <3> HIDE DEF bm
    <3> QED BY <3>1, ZeroInodeType, Constants, Zenon DEF SectorOK, Sectors, AsInodes, AsAddrs, AsData
  <2>3. image'[bmap_start] = bm /\ DOMAIN image' = DOMAIN img
        /\ \A b \in 0..(FsSize - 1) : b # bmap_start => image'[b] = img[b]
    <3> HIDE DEF bm
    <3> QED BY <1>6, <1>8, <2>1, Zenon DEF Image
  <2>4. Image(image')
      BY <1>6, <2>2, <2>3, Zenon DEF Image
  <2>5. SameData(image, image')
    <3>1. \A b \in NMeta..(FsSize - 1) : b \in 0..(FsSize - 1)
        BY Layout, Constants
    <3> QED BY <1>6, <2>1, <2>3, <3>1, Zenon DEF SameData
  <2>6. \A i \in Inodes : ReadInode(image', i) = IF i = RootIno THEN ind ELSE ReadInode(image, i)
    <3>1. \A i \in Inodes : InodePos(i).blk # bmap_start /\ InodePos(i).blk \in 0..(FsSize - 1)
        BY <1>2, InodePosType, Layout, Zenon
    <3>2. \A i \in Inodes : ReadInode(image', i) = ReadInode(img, i)
        BY <2>3, <3>1, Zenon DEF ReadInode
    <3> QED BY <1>6, <3>2, Zenon
  <2>7. Inodes' = Inodes
      BY <1>1, Zenon DEF Inodes
  <2>8. /\ DOMAIN Tab = Inodes /\ DOMAIN Tab' = Inodes /\ Tab[RootIno] = root /\ Tab'[RootIno] = ind
        /\ \A i \in Inodes : i # RootIno => Tab'[i] = Tab[i]
    <3>1. \A i \in Inodes : ~Appending(i) /\ ~Appending(i)'
        BY <1>1, <1>8, Zenon DEF Appending
    <3>2. Tab = [i \in Inodes |-> ReadInode(image, i)] /\ Tab' = [i \in Inodes |-> ReadInode(image', i)]
        BY <2>7, <3>1, Zenon DEF Tab
    <3> QED BY <1>2, <2>6, <3>2, Zenon DEF root
  <2>9. Table(image, Tab, free_block) /\ Filled(image, Tab) /\ Sizes /\ FileTypes
      BY <1>2, Zenon DEF Building
  <2>10. SameAddrs(Tab, Tab')
      BY <1>5, <2>8, <2>9, Zenon DEF SameAddrs, Table
  <2>11. Table(image', Tab', free_block') /\ KeepsData(image, Tab, image', Tab')
      BY <1>1, <2>4, <2>5, <2>9, <2>10, TableFrame, Zenon
  <2>12. /\ \A i \in Inodes : Tab[i].size = Goal(i) /\ Goal(i) \in Nat
         /\ Goal(RootIno) = Len(lens) + 2
         /\ \A k \in 1..Len(lens) : k + 1 \in Inodes /\ k + 1 # RootIno /\ Goal(k + 1) = lens[k]
      BY <1>1, FilesGoal, Zenon
  <2>13. \A i \in Inodes : Stored(image', Tab'[i], i, Goal(i))
    <3>1. \A i \in Inodes : \A pos \in 0..(Goal(i) - 1) : pos \in Nat
        BY <2>12
    <3> QED BY <2>8, <2>9, <2>11, <2>12, <3>1, Zenon DEF Filled, Stored, KeepsData
  <2>14. Built'
    <3>1. FileTypes'
        BY <1>5, <2>7, <2>8, <2>9, Zenon DEF FileTypes
    <3>2. \A k \in 1..Len(lens) :
              Tab'[k + 1].size = lens[k] /\ Stored(image', Tab'[k + 1], k + 1, lens[k])
        BY <2>8, <2>12, <2>13, Zenon
    <3>3. Tab'[RootIno].size >= Len(lens) + 2
        BY <1>2, <1>4, <1>5, <2>8, <2>12, Zenon
    <3>4. Stored(image', Tab'[RootIno], RootIno, Len(lens) + 2)
        BY <1>2, <2>12, <2>13, Zenon
    <3> QED BY <1>1, <1>2, <2>3, <2>11, <3>1, <3>2, <3>3, <3>4, Zenon DEF Built
  <2>15. Types'
      BY <1>1, <1>2, <1>8, <2>4, TypesAfter, Zenon DEF Types
  <2> QED BY <1>8, <2>14, <2>15, Zenon DEF ImageInv, Live
<1> QED BY <1>1, <1>7, <1>8, Zenon

-----------------------------------------------------------------------------
(* The invariant and the properties of mkfs *)

(* The counters start at the first inode and the first data block. *)
LEMMA InitInv == Init => ImageInv
<1> SUFFICES ASSUME Init PROVE ImageInv
    BY Zenon
<1>1. SectorOK([kind |-> "old"])
    BY ZeroInodeType, Constants, Zenon DEF SectorOK, Sectors, AsInodes, AsAddrs, AsData
<1>2. \A b \in DOMAIN image : b \in Nat /\ SectorOK(image[b])
    BY <1>1, Constants DEF Init
<1>3. ZeroInode \in Inode /\ NMeta \in Nat /\ BlkSize \in Nat
    BY ZeroInodeType, Layout, Constants, Zenon
<1>4. Types
    BY <1>2, <1>3 DEF Init, Types
<1> QED BY <1>4, Zenon DEF Init, ImageInv, Live

(* A failed read or write ends mkfs and changes nothing else. *)
LEMMA IoErrorStep ==
    ASSUME ImageInv, IoError
    PROVE  ImageInv'
<1>1. /\ pc' = "err"
      /\ UNCHANGED <<image, free_inode, free_block, inum, din, off, data, ret, nread, lens>>
    BY Zenon DEF IoError, locals
<1> QED BY <1>1, Zenon DEF ImageInv, Types, Live

(* The invariant depends on the state variables only. *)
LEMMA StutterStep ==
    ASSUME ImageInv, UNCHANGED vars
    PROVE  ImageInv'
<1>1. UNCHANGED <<pc, image, free_inode, free_block, inum, din, off, data, ret, nread, lens>>
    BY Zenon DEF vars
<1>2. Types' = Types /\ Live' = Live /\ Inodes' = Inodes /\ Stage' = Stage
    BY <1>1, Zenon DEF Types, Live, Inodes, Stage
<1>3. Tab' = Tab /\ \A i \in Inodes : Appending(i)' = Appending(i) /\ Goal(i)' = Goal(i)
    BY <1>1, <1>2, Zenon DEF Tab, Appending, Goal
<1>4. Counters' = Counters /\ InFlight' = InFlight /\ FileTypes' = FileTypes
    BY <1>1, <1>2, <1>3, Zenon DEF Counters, InFlight, FileTypes
<1>5. Sizes' = Sizes
    BY <1>1, <1>2, <1>3, Zenon DEF Sizes
<1>6. Building' = Building /\ Built' = Built
    BY <1>1, <1>3, <1>4, <1>5, Zenon DEF Building, Built
<1> QED BY <1>1, <1>2, <1>6, Zenon DEF ImageInv

(* Every step of mkfs keeps the invariant, whatever the reads return. *)
LEMMA NextInv == ASSUME EnoughInodes, ImageInv, [Next]_vars PROVE ImageInv'
BY CreateStep, RootStep, DotDotStep, NextFileStep, ReadFileStep, AppendBlockStep, AppendReturnStep,
   FinishStep, IoErrorStep, StutterStep, Zenon DEF Next

(* mkfs keeps ImageInv: at every turn of append_inode's loop the blocks handed   *)
(* out so far are exactly those that the inodes address, each once, and hold the *)
(* units that belong there.                                                      *)
THEOREM ImageInvariant == EnoughInodes => (Spec => []ImageInv)
<1> SUFFICES ASSUME EnoughInodes PROVE Spec => []ImageInv
    BY Zenon
<1>1. ImageInv /\ [Next]_vars => ImageInv'
    BY NextInv, Zenon
<1> QED BY <1>1, InitInv, PTL DEF Spec

(* Between two files and at the end: the inodes in the image, and what they hold. *)
LEMMA BetweenFacts ==
    ASSUME EnoughInodes, ImageInv, Between
    PROVE  /\ Types /\ Len(lens) \in Nat /\ free_inode = Len(lens) + 2 /\ FileTypes
           /\ DOMAIN Tab = Inodes /\ \A i \in Inodes : Tab[i] = ReadInode(image, i)
           /\ Table(image, Tab, free_block)
           /\ \A k \in 1..Len(lens) :
                 Tab[k + 1].size = lens[k] /\ Stored(image, Tab[k + 1], k + 1, lens[k])
           /\ Tab[RootIno].size >= Len(lens) + 2
           /\ Stored(image, Tab[RootIno], RootIno, Len(lens) + 2)
<1>1. DOMAIN Tab = Inodes /\ \A i \in Inodes : Tab[i] = ReadInode(image, i)
    BY Zenon DEF Between, Tab, Appending
<1>2. CASE pc = "done"
  <2>1. Types /\ Built
      BY <1>2, Zenon DEF ImageInv
  <2>2. Len(lens) \in Nat
      BY <2>1 DEF Types
  <2> QED BY <1>1, <2>1, <2>2, Zenon DEF Built
<1>3. CASE pc = "files"
  <2>1. Types /\ Building /\ Len(lens) \in Nat /\ free_inode = Len(lens) + 2 /\ RootIno \in Inodes
      BY <1>3, LiveFacts, Zenon DEF Live
  <2>2. /\ \A i \in Inodes : Tab[i].size = Goal(i) /\ Goal(i) \in Nat
        /\ Goal(RootIno) = Len(lens) + 2
        /\ \A k \in 1..Len(lens) : k + 1 \in Inodes /\ k + 1 # RootIno /\ Goal(k + 1) = lens[k]
      BY <1>3, FilesGoal, Zenon
  <2>3. FileTypes /\ Table(image, Tab, free_block) /\ Filled(image, Tab)
      BY <2>1, Zenon DEF Building
  <2>4. \A i \in Inodes : Stored(image, Tab[i], i, Goal(i))
      BY <1>1, <2>2, <2>3, Zenon DEF Filled
  <2>5. \A k \in 1..Len(lens) :
            Tab[k + 1].size = lens[k] /\ Stored(image, Tab[k + 1], k + 1, lens[k])
      BY <2>2, <2>4, Zenon
  <2>6. Tab[RootIno].size = Len(lens) + 2 /\ Stored(image, Tab[RootIno], RootIno, Len(lens) + 2)
      BY <2>1, <2>2, <2>4, Zenon
  <2> QED BY <1>1, <2>1, <2>3, <2>5, <2>6
<1> QED BY <1>2, <1>3, Zenon DEF Between

(* What is in place is what a reader of the image finds. *)
LEMMA StoredReads ==
    ASSUME NEW ind, NEW i, NEW pos \in Nat, StoredAt(image, ind, i, pos)
    PROVE  UnitAt(ind, pos) = Content(i, pos)
<1> DEFINE fbn == pos \div BlkSize
<1>1. fbn \in Nat
    BY DivMod, Constants, Zenon
<1>2. /\ Sect(image, ind, SlotOf(fbn)) # 0
      /\ AsData(image[Sect(image, ind, SlotOf(fbn))])[pos % BlkSize] = Content(i, pos)
    BY Zenon DEF StoredAt
<1> HIDE DEF fbn
<1>3. BlockOf(ind, fbn) = Sect(image, ind, SlotOf(fbn))
  <2>1. CASE fbn < NDirect
      BY <1>1, <2>1, Constants DEF BlockOf, Sect, SlotOf
  <2>2. CASE ~(fbn < NDirect)
    <3>1. SlotOf(fbn) = fbn + 1 /\ ~(fbn + 1 <= NDirect) /\ (fbn + 1) - NDirect - 1 = fbn - NDirect
        BY <1>1, <2>2, Constants DEF SlotOf
    <3> QED BY <1>2, <2>2, <3>1, Zenon DEF BlockOf, Sect
  <2> QED BY <2>1, <2>2, Zenon
<1> QED BY <1>2, <1>3, Zenon DEF UnitAt, fbn

(* The type invariant. *)
LEMMA InvTypeOK == ImageInv => TypeOK
<1> SUFFICES ASSUME ImageInv PROVE TypeOK
    BY Zenon
<1>1. Types
    BY Zenon DEF ImageInv
<1>2. DOMAIN din.addrs = 0..NDirect /\ \A k \in 0..NDirect : din.addrs[k] \in Nat
    BY <1>1, Zenon DEF Types, Inode
<1>3. \A b \in DOMAIN image : b \in Nat /\ image[b].kind \in Sectors
    BY <1>1, Zenon DEF Types, SectorOK
<1> QED BY <1>1, <1>2, <1>3, Zenon DEF Types, TypeOK

(* The units and sizes of the inodes are those of the files and of the root. *)
LEMMA InvReadsBack == ASSUME EnoughInodes, ImageInv PROVE ReadsBack
<1> SUFFICES ASSUME Between
             PROVE  /\ \A k \in 1..Len(lens) :
                         LET ind == ReadInode(image, k + 1) IN
                           /\ ind.type = "Regular" /\ ind.size = lens[k]
                           /\ \A pos \in 0..(lens[k] - 1) : UnitAt(ind, pos) = Unit(k + 1, pos)
                    /\ LET root == ReadInode(image, RootIno) IN
                         /\ root.type = "Directory" /\ root.size >= Len(lens) + 2
                         /\ \A pos \in 0..(Len(lens) + 1) :
                              UnitAt(root, pos) = DirEnt(IF pos < 2 THEN RootIno ELSE pos)
    BY Zenon DEF ReadsBack
<1>1. /\ Types /\ Len(lens) \in Nat /\ free_inode = Len(lens) + 2 /\ FileTypes
      /\ \A i \in Inodes : Tab[i] = ReadInode(image, i)
      /\ \A k \in 1..Len(lens) :
            Tab[k + 1].size = lens[k] /\ Stored(image, Tab[k + 1], k + 1, lens[k])
      /\ Tab[RootIno].size >= Len(lens) + 2
      /\ Stored(image, Tab[RootIno], RootIno, Len(lens) + 2)
    BY BetweenFacts, Zenon
<1>2. ASSUME NEW k \in 1..Len(lens)
      PROVE  LET ind == ReadInode(image, k + 1) IN
               /\ ind.type = "Regular" /\ ind.size = lens[k]
               /\ \A pos \in 0..(lens[k] - 1) : UnitAt(ind, pos) = Unit(k + 1, pos)
  <2>1. k + 1 \in Inodes /\ k + 1 # RootIno
      BY <1>1 DEF Inodes, RootIno
  <2>2. lens[k] \in Nat
    <3>1. lens \in Seq(FileLens) /\ FileLens \subseteq Nat
        BY <1>1, Constants, Zenon DEF Types
    <3>2. lens[k] \in FileLens
        BY <3>1, ElementOfSeq, Zenon
    <3> QED BY <3>1, <3>2, Zenon
  <2>3. Tab[k + 1] = ReadInode(image, k + 1) /\ Tab[k + 1].type = "Regular"
      BY <1>1, <2>1, Zenon DEF FileTypes
  <2>4. ASSUME NEW pos \in 0..(lens[k] - 1)
        PROVE  UnitAt(Tab[k + 1], pos) = Unit(k + 1, pos)
    <3>1. pos \in Nat
        BY <2>2
    <3>2. StoredAt(image, Tab[k + 1], k + 1, pos)
        BY <1>1, Zenon DEF Stored
    <3>3. UnitAt(Tab[k + 1], pos) = Content(k + 1, pos)
        BY <3>1, <3>2, StoredReads, Zenon
    <3> QED BY <2>1, <3>3, Zenon DEF Content
  <2> QED BY <1>1, <2>3, <2>4, Zenon
<1>3. LET root == ReadInode(image, RootIno) IN
        /\ root.type = "Directory" /\ root.size >= Len(lens) + 2
        /\ \A pos \in 0..(Len(lens) + 1) :
             UnitAt(root, pos) = DirEnt(IF pos < 2 THEN RootIno ELSE pos)
  <2>1. RootIno \in Inodes
      BY <1>1 DEF Inodes, RootIno
  <2>2. Tab[RootIno] = ReadInode(image, RootIno) /\ Tab[RootIno].type = "Directory"
      BY <1>1, <2>1, Zenon DEF FileTypes
  <2>3. ASSUME NEW pos \in 0..(Len(lens) + 1)
        PROVE  UnitAt(Tab[RootIno], pos) = DirEnt(IF pos < 2 THEN RootIno ELSE pos)
    <3>1. pos \in Nat /\ pos \in 0..((Len(lens) + 2) - 1)
        BY <1>1
    <3>2. StoredAt(image, Tab[RootIno], RootIno, pos)
        BY <1>1, <3>1, Zenon DEF Stored
    <3>3. UnitAt(Tab[RootIno], pos) = Content(RootIno, pos)
        BY <3>1, <3>2, StoredReads, Zenon
    <3> QED BY <3>3, Zenon DEF Content
  <2> QED BY <1>1, <2>2, <2>3, Zenon
<1> QED BY <1>2, <1>3, Zenon

(* The uses are the slots that address a sector. *)
LEMMA UsesAre ==
    ASSUME EnoughInodes, ImageInv, Between
    PROVE  /\ \A u \in Uses : \E i \in Inodes, s \in Slots :
                 u = <<i, s>> /\ Sect(image, Tab[i], s) # 0 /\ SectorOf(u) = Sect(image, Tab[i], s)
           /\ \A i \in Inodes, s \in Slots : Sect(image, Tab[i], s) # 0
                 => <<i, s>> \in Uses /\ SectorOf(<<i, s>>) = Sect(image, Tab[i], s)
<1> DEFINE ind(i) == ReadInode(image, i)
           table(i) == AsAddrs(image[ind(i).addrs[NDirect]])
           direct(i) == {<<i, k>> : k \in {j \in 0..NDirect : ind(i).addrs[j] # 0}}
           indirect(i) == IF ind(i).addrs[NDirect] = 0 THEN {}
                          ELSE {<<i, NDirect + 1 + k>> : k \in {j \in 0..(NIndirect - 1) :
                                                                   table(i)[j] # 0}}
<1>1. \A i \in Inodes : Tab[i] = ind(i)
    BY BetweenFacts, Zenon
<1>2. Uses = UNION {direct(i) \cup indirect(i) : i \in Inodes}
    BY Zenon DEF Uses
<1> HIDE DEF direct, indirect
<1>3. \A i \in Inodes : direct(i) \subseteq Uses /\ indirect(i) \subseteq Uses
    BY <1>2
<1>4. ASSUME NEW i \in Inodes, NEW s \in Slots, Sect(image, Tab[i], s) # 0
      PROVE  SectorOf(<<i, s>>) = Sect(image, Tab[i], s)
  <2>1. <<i, s>>[1] = i /\ <<i, s>>[2] = s
      BY Zenon
  <2> QED BY <1>1, <1>4, <2>1, Zenon DEF SectorOf, Sect
<1>5. ASSUME NEW u \in Uses
      PROVE  \E i \in Inodes, s \in Slots : u = <<i, s>> /\ Sect(image, Tab[i], s) # 0
  <2>1. PICK i \in Inodes : u \in direct(i) \cup indirect(i)
      BY <1>2, Zenon
  <2>2. CASE u \in direct(i)
    <3>1. PICK k \in 0..NDirect : u = <<i, k>> /\ ind(i).addrs[k] # 0
        BY <2>2, Zenon DEF direct
    <3>2. k \in Slots /\ k <= NDirect
        BY Constants DEF Slots
    <3> QED BY <1>1, <3>1, <3>2, Zenon DEF Sect
  <2>3. CASE u \in indirect(i)
    <3>1. ind(i).addrs[NDirect] # 0
        BY <2>3, Zenon DEF indirect
    <3>2. PICK k \in 0..(NIndirect - 1) : u = <<i, NDirect + 1 + k>> /\ table(i)[k] # 0
        BY <2>3, <3>1, Zenon DEF indirect
    <3> DEFINE s == NDirect + 1 + k
    <3>3. s \in Slots /\ ~(s <= NDirect) /\ s - NDirect - 1 = k
        BY Constants DEF Slots
    <3>4. u = <<i, s>>
        BY <3>2, Zenon
    <3> HIDE DEF s
    <3>5. Sect(image, Tab[i], s) = table(i)[k]
        BY <1>1, <3>1, <3>3, Zenon DEF Sect
    <3> QED BY <3>2, <3>3, <3>4, <3>5, Zenon
  <2> QED BY <2>1, <2>2, <2>3, Zenon
<1>6. ASSUME NEW i \in Inodes, NEW s \in Slots, Sect(image, Tab[i], s) # 0
      PROVE  <<i, s>> \in Uses
  <2>1. CASE s <= NDirect
    <3>1. s \in 0..NDirect /\ ind(i).addrs[s] # 0
        BY <1>1, <1>6, <2>1, Constants DEF Slots, Sect
    <3>2. <<i, s>> \in direct(i)
        BY <3>1, Zenon DEF direct
    <3> QED BY <1>3, <3>2, Zenon
  <2>2. CASE ~(s <= NDirect)
    <3> DEFINE k == s - NDirect - 1
    <3>1. k \in 0..(NIndirect - 1) /\ NDirect + 1 + k = s
        BY <2>2, Constants DEF Slots
    <3>2. ind(i).addrs[NDirect] # 0 /\ table(i)[k] # 0
        BY <1>1, <1>6, <2>2, Zenon DEF Sect
    <3> HIDE DEF k
    <3>3. <<i, NDirect + 1 + k>> \in indirect(i)
        BY <3>1, <3>2, Zenon DEF indirect
    <3> QED BY <1>3, <3>1, <3>3, Zenon
  <2> QED BY <2>1, <2>2, Zenon
<1> QED BY <1>4, <1>5, <1>6, Zenon

(* The sectors in use are those handed out. *)
LEMMA SectorsInUse ==
    ASSUME EnoughInodes, ImageInv, Between
    PROVE  {SectorOf(u) : u \in Uses} = NMeta..(free_block - 1)
<1>1. Table(image, Tab, free_block) /\ DOMAIN Tab = Inodes
    BY BetweenFacts, Zenon
<1>2. ASSUME NEW u \in Uses PROVE SectorOf(u) \in NMeta..(free_block - 1)
  <2>1. PICK i \in Inodes, s \in Slots :
            Sect(image, Tab[i], s) # 0 /\ SectorOf(u) = Sect(image, Tab[i], s)
      BY UsesAre, Zenon
  <2> QED BY <1>1, <2>1, TableFacts
<1>3. ASSUME NEW b \in NMeta..(free_block - 1) PROVE \E u \in Uses : SectorOf(u) = b
  <2>1. PICK i \in Inodes, s \in Slots : BlockMap(image, Tab)[i][s] = b
    <3>1. DOMAIN BlockMap(image, Tab) = Inodes
        BY <1>1, Zenon DEF BlockMap
    <3> QED BY <1>1, <3>1, Zenon DEF Table, Sound, Covered
  <2>2. Sect(image, Tab[i], s) = b
      BY <1>1, <2>1, Zenon DEF BlockMap
  <2>3. b # 0
      BY Layout
  <2> QED BY <2>2, <2>3, UsesAre, Zenon
<1> QED BY <1>2, <1>3, Zenon

(* No sector is used twice. *)
LEMMA InvBlocksExclusive == ASSUME EnoughInodes, ImageInv PROVE BlocksExclusive
<1> SUFFICES ASSUME Between, NEW u \in Uses, NEW v \in Uses, SectorOf(u) = SectorOf(v) PROVE u = v
    BY SectorsInUse, Zenon DEF BlocksExclusive
<1>1. PICK i \in Inodes, s \in Slots :
          u = <<i, s>> /\ Sect(image, Tab[i], s) # 0 /\ SectorOf(u) = Sect(image, Tab[i], s)
    BY UsesAre, Zenon
<1>2. PICK j \in Inodes, t \in Slots :
          v = <<j, t>> /\ Sect(image, Tab[j], t) # 0 /\ SectorOf(v) = Sect(image, Tab[j], t)
    BY UsesAre, Zenon
<1>3. i = j /\ s = t
  <2>1. Table(image, Tab, free_block) /\ i \in DOMAIN Tab /\ j \in DOMAIN Tab
      BY BetweenFacts, Zenon
  <2>2. Sect(image, Tab[i], s) = Sect(image, Tab[j], t)
      BY <1>1, <1>2, Zenon
  <2> QED BY <1>1, <2>1, <2>2, TableFacts
<1> QED BY <1>1, <1>2, <1>3, Zenon

(* The bitmap marks the meta blocks and the blocks in use. *)
LEMMA InvBitmapExact == ASSUME EnoughInodes, ImageInv PROVE BitmapExact
<1> SUFFICES ASSUME pc = "done"
             PROVE  /\ image[bmap_start].used = 0..(NMeta - 1) \cup {SectorOf(u) : u \in Uses}
                    /\ free_block <= FsSize /\ DOMAIN image = 0..(FsSize - 1)
    BY Zenon DEF BitmapExact
<1>1. Built /\ Between
    BY Zenon DEF ImageInv, Between
<1>2. free_block \in Nat /\ NMeta <= free_block /\ free_block <= FsSize /\ DOMAIN image = 0..(FsSize - 1)
    BY <1>1, TableFacts, Zenon DEF Built, Table, Image
<1>3. image[bmap_start].used = 0..(free_block - 1)
    BY <1>1 DEF Built
<1>4. 0..(free_block - 1) = 0..(NMeta - 1) \cup NMeta..(free_block - 1)
    BY <1>2, Layout
<1> QED BY <1>1, <1>2, <1>3, <1>4, SectorsInUse, Zenon

(* The counters, append_inode's locals and the sectors have their types. *)
THEOREM TypeCorrect == EnoughInodes => (Spec => []TypeOK)
BY ImageInvariant, InvTypeOK, PTL

(* Whatever the reads return, the image holds every file under its inode and the *)
(* root directory its entries: append_inode's arithmetic with partial blocks and *)
(* the indirect block is right for every block size and every file length.       *)
THEOREM FilesReadBack == EnoughInodes => (Spec => []ReadsBack)
<1> SUFFICES ASSUME EnoughInodes PROVE Spec => []ReadsBack
    BY Zenon
<1>1. ImageInv => ReadsBack
    BY InvReadsBack, Zenon
<1> QED BY <1>1, ImageInvariant, PTL

(* take_next_block hands out each block once and append_inode loses none. *)
THEOREM NoSharedBlocks == EnoughInodes => (Spec => []BlocksExclusive)
<1> SUFFICES ASSUME EnoughInodes PROVE Spec => []BlocksExclusive
    BY Zenon
<1>1. ImageInv => BlocksExclusive
    BY InvBlocksExclusive, Zenon
<1> QED BY <1>1, ImageInvariant, PTL

(* The bitmap that alloc_block writes at the end marks the blocks in use and no  *)
(* others, and none of them lies beyond FS_SIZE.                                 *)
THEOREM BitmapRight == EnoughInodes => (Spec => []BitmapExact)
<1> SUFFICES ASSUME EnoughInodes PROVE Spec => []BitmapExact
    BY Zenon
<1>1. ImageInv => BitmapExact
    BY InvBitmapExact, Zenon
<1> QED BY <1>1, ImageInvariant, PTL
=============================================================================
