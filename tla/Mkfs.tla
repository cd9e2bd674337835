-------------------------------- MODULE Mkfs --------------------------------
(* mkfs.c: the program that makes the first file system image.  Sizes count *)
(* units of sizeof(struct dirent); a unit of a file is <<its number, its    *)
(* place>>, a unit of the root directory a <<name, number>>.  A file on the *)
(* command line is its size; its name is its place on the command line.     *)
EXTENDS Naturals, FiniteSets, Sequences
CONSTANTS BSIZE, NDIRECT, NINDIRECT,    \* fs.h, in units and in addresses
          NINODES, IPB, BPB,            \* inodes in all, inodes in a block, bits in a block of the bitmap
          FSSIZE, LOGSIZE,              \* param.h
          CommandLines                  \* sequences of sizes
VARIABLES argn,        \* the next file on the command line
          mkpc,        \* where main() is
          append,      \* the iappend() it waits for: inode, units, how many are copied and left
          dinode,      \* number -> [type, nlink, size, addrs]
          sect,        \* the blocks behind the bitmap
          freeinode, freeblock,
          bitmap,      \* the blocks that are marked
          given        \* the command line

mkfsVars == <<argn, mkpc, append, dinode, sect, freeinode, freeblock, bitmap, given>>

MAXFILE == NDIRECT + NINDIRECT
nlog == LOGSIZE
nbitmap == FSSIZE \div BPB + 1
ninodeblocks == NINODES \div IPB + 1
nmeta == 2 + nlog + ninodeblocks + nbitmap
ROOTINO == 1

\* The image has room for what is in front of the data, the root directory
\* never fills a file, and there are inodes for the files: mkfs tests none of it.
ASSUME MkfsAssumption ==
    /\ BSIZE \in Nat \ {0} /\ NDIRECT \in Nat /\ NINDIRECT \in Nat
    /\ IPB \in Nat \ {0} /\ BPB \in Nat \ {0}
    /\ LOGSIZE \in Nat /\ FSSIZE \in Nat /\ nmeta <= FSSIZE
    /\ NINODES \in Nat /\ NINODES < MAXFILE * BSIZE
    /\ \A c \in CommandLines : c \in Seq(Nat) /\ Len(c) + ROOTINO < NINODES

Zeroes == [k \in 1 .. BSIZE |-> <<>>]
NoEntries == [k \in 0 .. NINDIRECT - 1 |-> 0]
NewInode(type) == [type |-> type, nlink |-> 1, size |-> 0, addrs |-> [k \in 0 .. NDIRECT |-> 0]]
iappend(i, units, n) == [inum |-> i, units |-> units, p |-> 0, n |-> n]

\* The loop of iappend().  A block is taken where there is none, an indirect
\* one first, and then as many units copied as go into the block.
size == dinode[append.inum].size
fbn == size \div BSIZE
addrs == dinode[append.inum].addrs
ind == addrs[NDIRECT]
Loop == append.n > 0 /\ mkpc # "aborted" /\ fbn < MAXFILE
TakesAddress(k) == /\ addrs[k] = 0 /\ freeblock < FSSIZE
                   /\ dinode' = [dinode EXCEPT ![append.inum].addrs[k] = freeblock]
takesDirect == /\ Loop /\ fbn < NDIRECT /\ TakesAddress(fbn)
               /\ freeblock' = freeblock + 1
               /\ UNCHANGED <<argn, mkpc, append, sect, freeinode, bitmap, given>>
takesIndirect == /\ Loop /\ fbn >= NDIRECT /\ TakesAddress(NDIRECT)
                 /\ sect' = [sect EXCEPT ![freeblock] = NoEntries]
                 /\ freeblock' = freeblock + 1
                 /\ UNCHANGED <<argn, mkpc, append, freeinode, bitmap, given>>
takesEntry == /\ Loop /\ fbn >= NDIRECT /\ ind # 0
              /\ sect[ind][fbn - NDIRECT] = 0 /\ freeblock < FSSIZE
              /\ sect' = [sect EXCEPT ![ind] = [@ EXCEPT ![fbn - NDIRECT] = freeblock]]
              /\ freeblock' = freeblock + 1
              /\ UNCHANGED <<argn, mkpc, append, dinode, freeinode, bitmap, given>>

\* The block of the file at index k, or the indirect block when k is MAXFILE;
\* 0 where there is none.
Addr(i, k) ==
    LET a == dinode[i].addrs IN
    IF k < NDIRECT THEN a[k]
    ELSE IF k = MAXFILE \/ a[NDIRECT] = 0 THEN a[NDIRECT]
    ELSE sect[a[NDIRECT]][k - NDIRECT]

within == size % BSIZE
n1 == IF append.n < BSIZE - within THEN append.n ELSE BSIZE - within
Copied(old) == [j \in 1 .. BSIZE |->
    IF j > within /\ j <= within + n1 THEN append.units[append.p + j - within] ELSE old[j]]
CopiedLow(old) == [j \in 1 .. BSIZE |->
    IF j <= n1 THEN append.units[append.p + j] ELSE old[j]]
copies == /\ Loop /\ Addr(append.inum, fbn) # 0
          /\ sect' = [sect EXCEPT ![Addr(append.inum, fbn)] = Copied(@)]
          /\ dinode' = [dinode EXCEPT ![append.inum].size = @ + n1]
          /\ append' = [append EXCEPT !.p = @ + n1, !.n = @ - n1]
          /\ UNCHANGED <<argn, mkpc, freeinode, freeblock, bitmap, given>>

\* The file is too long, or the block taken lies behind the image and rsect() fails.
aborts == /\ append.n > 0 /\ mkpc # "aborted"
          /\ \/ fbn >= MAXFILE
             \/ fbn < MAXFILE /\ Addr(append.inum, fbn) = 0 /\ freeblock >= FSSIZE
          /\ mkpc' = "aborted"
          /\ UNCHANGED <<argn, append, dinode, sect, freeinode, freeblock, bitmap, given>>

\* The layout, the root inode and its two entries.
ialloc(type) == /\ dinode' = [dinode EXCEPT ![freeinode] = NewInode(type)]
                /\ freeinode' = freeinode + 1
Reached(pc) == mkpc = pc /\ append.n = 0
root == /\ Reached("root")
        /\ ialloc("DIR")
        /\ append' = iappend(freeinode, << <<".", ROOTINO>> >>, 1)
        /\ mkpc' = "dots"
        /\ UNCHANGED <<argn, sect, freeblock, bitmap, given>>
dots == /\ Reached("dots")
        /\ append' = iappend(ROOTINO, << <<"..", ROOTINO>> >>, 1)
        /\ mkpc' = "file"
        /\ UNCHANGED <<argn, dinode, sect, freeinode, freeblock, bitmap, given>>

\* The next file: an inode and an entry of the root directory.
file == /\ Reached("file") /\ argn <= Len(given)
        /\ ialloc("FILE")
        /\ append' = iappend(ROOTINO, << <<argn, freeinode>> >>, 1)
        /\ mkpc' = "data"
        /\ UNCHANGED <<argn, sect, freeblock, bitmap, given>>

\* A read() of the host's file and the iappend() of what it gave.
Read(rest) == IF rest < BSIZE THEN rest ELSE BSIZE
reads == /\ Reached("data")
        /\ LET i    == freeinode - 1
               done == dinode[i].size
               n    == Read(given[argn] - done)
           IN  \/ /\ n > 0
                  /\ append' = iappend(i, [k \in 1 .. n |-> <<i, done + k>>], n)
                  /\ UNCHANGED <<argn, mkpc>>
               \/ /\ n = 0
                  /\ argn' = argn + 1 /\ mkpc' = "file"
                  /\ UNCHANGED append
        /\ UNCHANGED <<dinode, sect, freeinode, freeblock, bitmap, given>>

\* The size of the root directory goes up to whole blocks, and the bitmap is written.
RoundDown(n) == (n \div BSIZE) * BSIZE
RoundUp(n) == (n \div BSIZE + 1) * BSIZE
ballocLess(used) == 0 .. used - 2
balloc(used) == 0 .. used - 1
finish == /\ Reached("file") /\ argn > Len(given)
          /\ mkpc' = IF freeblock < BPB THEN "done" ELSE "aborted"
          /\ dinode' = [dinode EXCEPT ![ROOTINO].size = RoundUp(@)]
          /\ bitmap' = IF freeblock < BPB THEN balloc(freeblock) ELSE bitmap
          /\ UNCHANGED <<argn, append, sect, freeinode, freeblock, given>>

MkfsInit == /\ given \in CommandLines /\ argn = 1 /\ mkpc = "root"
            /\ append = iappend(ROOTINO, <<>>, 0)
            /\ dinode = [i \in 1 .. NINODES - 1 |-> [NewInode("NONE") EXCEPT !.nlink = 0]]
            /\ sect = [b \in nmeta .. FSSIZE - 1 |-> Zeroes]
            /\ freeinode = ROOTINO /\ freeblock = nmeta /\ bitmap = {}
MkfsNext == takesDirect \/ takesIndirect \/ takesEntry \/ copies \/ aborts
            \/ root \/ dots \/ file \/ reads \/ finish
MkfsSpec == MkfsInit /\ [][MkfsNext]_mkfsVars

------------------------------------------------------------------------------

Used == ROOTINO .. freeinode - 1
Unit(i, n) == sect[Addr(i, n \div BSIZE)][(n % BSIZE) + 1]

\* On the image every block behind the bitmap belongs to one file, once, or is
\* free, and the bitmap marks exactly the others and the blocks before it: the
\* kernel's balloc() will not hand out a block that holds something.
ImageMarked ==
    mkpc = "done" =>
        /\ bitmap = (0 .. nmeta - 1) \cup ({Addr(i, k) : i \in Used, k \in 0 .. MAXFILE} \ {0})
        /\ \A i, j \in Used, k, m \in 0 .. MAXFILE :
              Addr(i, k) = Addr(j, m) /\ Addr(i, k) # 0 => i = j /\ k = m
        /\ bitmap \subseteq 0 .. FSSIZE - 1

\* Every file reads back as it was given, and the root directory names every
\* file once, behind . and ..
ImageWhole ==
    mkpc = "done" =>
        /\ freeinode = Len(given) + ROOTINO + 1
        /\ \A i \in Used \ {ROOTINO} : /\ dinode[i].size = given[i - ROOTINO]
                                       /\ \A n \in 0 .. dinode[i].size - 1 : Unit(i, n) = <<i, n + 1>>
        /\ Unit(ROOTINO, 0) = <<".", ROOTINO>> /\ Unit(ROOTINO, 1) = <<"..", ROOTINO>>
        /\ \A k \in DOMAIN given : Unit(ROOTINO, k + 1) = <<k, k + 1>>

\* Behind the last entry the root directory is zero to the end of its size, or,
\* when the entries filled their blocks, has one block that was never taken:
\* the kernel takes it when it first reads that far.
RootSize ==
    mkpc = "done" =>
        LET n == Len(given) + 2 IN
        /\ dinode[ROOTINO].size >= n
        /\ \A m \in n .. dinode[ROOTINO].size - 1 :
              IF Addr(ROOTINO, m \div BSIZE) = 0 THEN n % BSIZE = 0 /\ dinode[ROOTINO].size = n + BSIZE
              ELSE Unit(ROOTINO, m) = <<>>

\* The image is a file system the kernel can use: marked, whole, and of the
\* right size at the root.
ImageInv == ImageMarked /\ ImageWhole /\ RootSize
=============================================================================
