------------------------------- MODULE Inodes -------------------------------
(***************************************************************************)
(* Blocks, inodes, directories and path names of the VisionFive 2 kernel:  *)
(* kernel/fs.c under src/platform/visionfive2, in the functional style of  *)
(* module Memory.  The fields of the kernel state used here are            *)
(*    disk    the file system as the log last installed or holds it:       *)
(*            bitmap (allocated data blocks), block (their units) and      *)
(*            dinode (the on-disk inodes)                                  *)
(*    itable  the in-memory inodes, each with its sleep-lock               *)
(*    op      the log seen from here: depth, the begin_op()s outstanding,  *)
(*            and logged, the blocks log_write() took in this operation    *)
(*    commits the images of the disk that end_op() committed since the     *)
(*            present step began, and widest, the largest number of blocks *)
(*            any operation logged                                         *)
(* A unit of a block is a pair <<number, name>>: a directory entry is      *)
(* <<inum, name>>, an entry of an indirect block <<block number, "">>, a   *)
(* byte of a file <<0, byte>>.                                             *)
(***************************************************************************)
EXTENDS Memory, SequencesExt

CONSTANTS DataBlocks,   \* data blocks, a set of naturals from 1
          BSIZE,        \* units of a block
          NDIRECT,      \* direct blocks of an inode
          ninodes,      \* sb.ninodes; inode 0 is not used
          IPB,          \* inodes of a block
          MAXOPBLOCKS,  \* blocks that an operation may log
          NINODE        \* entries of the in-memory inode table

ASSUME DiskAssumption ==
    /\ DataBlocks \subseteq Nat \ {0}
    /\ {BSIZE, NDIRECT, ninodes, IPB, MAXOPBLOCKS, NINODE} \subseteq Nat \ {0}

ROOTINO == 1
NINDIRECT == BSIZE
MAXFILE == NDIRECT + NINDIRECT
LOGBLOCKS == MAXOPBLOCKS * 3
UINT == 2 ^ 30      \* where off + n wraps: 2 ^ 32, which TLC's integers do not reach
NoUnit == <<0, "">>
NoAddrs == [i \in 0 .. NDIRECT |-> 0]
FreeDinode == [type |-> "", major |-> 0, nlink |-> 0, size |-> 0, addrs |-> NoAddrs]

Log(k, b) ==
    IF Cardinality(k.op.logged) >= LOGBLOCKS THEN Panic(k, "too big a transaction")
    ELSE IF k.op.depth < 1 THEN Panic(k, "log_write outside of trans")
    ELSE [k EXCEPT !.op.logged = @ \cup {b}]

(* A system call is one step, so it finds no operation outstanding and the *)
(* log empty: begin_op() does not wait.                                    *)
begin_op(k) == [k EXCEPT !.op.depth = @ + 1]

(* The last operation outstanding commits the transaction.                 *)
end_op(k) ==
    IF k.op.depth > 1 THEN [k EXCEPT !.op.depth = @ - 1]
    ELSE [k EXCEPT !.op = [depth |-> 0, logged |-> {}],
                   !.commits = Append(@, k.disk),
                   !.widest = IF Cardinality(k.op.logged) > @
                              THEN Cardinality(k.op.logged) ELSE @]

-----------------------------------------------------------------------------
(* Blocks *)

bzero(k, b) ==
    Log([k EXCEPT !.disk.block[b] = [i \in 0 .. BSIZE - 1 |-> NoUnit]], <<"data", b>>)

balloc(k) ==
    LET unused == DataBlocks \ k.disk.bitmap
        b == Min(unused)
    IN IF unused = {} THEN Ret(k, 0)
       ELSE Ret(bzero(Log([k EXCEPT !.disk.bitmap = @ \cup {b}], <<"bitmap", 0>>), b), b)

bfree(k, b) ==
    IF b \notin k.disk.bitmap THEN Panic(k, "freeing free block")
    ELSE Log([k EXCEPT !.disk.bitmap = @ \ {b}], <<"bitmap", 0>>)

-----------------------------------------------------------------------------
(* Inodes.  ip is a slot of itable, 0 the null pointer.                    *)

iget(k, inum) ==
    LET same == {s \in 1 .. NINODE : k.itable[s].ref > 0 /\ k.itable[s].inum = inum}
        empty == {s \in 1 .. NINODE : k.itable[s].ref = 0}
    IN IF same # {} THEN Ret([k EXCEPT !.itable[Min(same)].ref = @ + 1], Min(same))
       ELSE IF empty = {} THEN Ret(Panic(k, "iget: no inodes"), 1)
       ELSE Ret([k EXCEPT !.itable[Min(empty)] =
                    [@ EXCEPT !.inum = inum, !.ref = 1, !.valid = FALSE]], Min(empty))

idup(k, ip) == [k EXCEPT !.itable[ip].ref = @ + 1]

iupdate(k, ip) ==
    LET i == k.itable[ip]
    IN Log([k EXCEPT !.disk.dinode[i.inum] =
               [type |-> i.type, major |-> i.major, nlink |-> i.nlink,
                size |-> i.size, addrs |-> i.addrs]], <<"inode", i.inum \div IPB>>)

ialloc(k, type) ==
    LET unused == {i \in 1 .. ninodes - 1 : k.disk.dinode[i].type = ""}
        inum == Min(unused)
    IN IF unused = {} THEN Ret(k, 0)
       ELSE iget(Log([k EXCEPT !.disk.dinode[inum] = [FreeDinode EXCEPT !.type = type]],
                     <<"inode", inum \div IPB>>), inum)

(* A process that locks an inode it holds the lock of waits for itself.    *)
ilock(k, ip) ==
    LET i == k.itable[ip]
        d == k.disk.dinode[i.inum]
        loaded == [i EXCEPT !.locked = TRUE, !.valid = TRUE, !.type = d.type,
                            !.major = d.major, !.nlink = d.nlink,
                            !.size = d.size, !.addrs = d.addrs]
    IN IF i.ref < 1 THEN Panic(k, "ilock")
       ELSE IF i.locked THEN Panic(k, "ilock: waits for its own lock")
       ELSE IF i.valid THEN [k EXCEPT !.itable[ip].locked = TRUE]
       ELSE IF d.type = "" THEN Panic(k, "ilock: no type")
       ELSE [k EXCEPT !.itable[ip] = loaded]

iunlock(k, ip) ==
    IF k.itable[ip].ref < 1 \/ ~k.itable[ip].locked THEN Panic(k, "iunlock")
    ELSE [k EXCEPT !.itable[ip].locked = FALSE]

(* The blocks of an inode in the order in which itrunc() frees them: the   *)
(* direct ones, those the indirect block lists, the indirect block.        *)
Direct(i) == [n \in 1 .. NDIRECT |-> i.addrs[n - 1]]
Indirect(disk, i) ==
    LET a == i.addrs[NDIRECT]
    IN IF a = 0 THEN <<>> ELSE Append([j \in 1 .. NINDIRECT |-> disk.block[a][j - 1][1]], a)
BlocksOf(disk, i) == SelectSeq(Direct(i) \o Indirect(disk, i), LAMBDA b : b # 0)

FreeBlocks(k, ip, blocks) ==
    iupdate([FoldLeft(bfree, k, blocks) EXCEPT !.itable[ip].addrs = NoAddrs,
                                               !.itable[ip].size = 0], ip)

\* Mutant: the blocks that the indirect block lists stay allocated.
itrunc_direct(k, ip) ==
    FreeBlocks(k, ip, SelectSeq(Append(Direct(k.itable[ip]), k.itable[ip].addrs[NDIRECT]),
                                LAMBDA b : b # 0))

itrunc(k, ip) == FreeBlocks(k, ip, BlocksOf(k.disk, k.itable[ip]))

\* Mutant: the last reference to an inode without links does not free it.
iput_keeps(k, ip) == [k EXCEPT !.itable[ip].ref = @ - 1]

iput(k, ip) ==
    LET i == k.itable[ip]
        gone == [itrunc(k, ip) EXCEPT !.itable[ip].type = ""]
        last == IF i.ref = 1 /\ i.valid /\ i.nlink = 0
                THEN IF i.locked THEN Panic(k, "iput: waits for its own lock")
                     ELSE [iupdate(gone, ip) EXCEPT !.itable[ip].valid = FALSE]
                ELSE k
    IN [last EXCEPT !.itable[ip].ref = @ - 1]

iunlockput(k, ip) == iput(iunlock(k, ip), ip)

(* Frees what a crash left allocated with no name, one transaction each.   *)
RECURSIVE ReclaimFrom(_, _)
ReclaimFrom(k, inum) ==
    IF inum = ninodes THEN k
    ELSE IF k.disk.dinode[inum].type = "" \/ k.disk.dinode[inum].nlink # 0
         THEN ReclaimFrom(k, inum + 1)
         ELSE LET got == iget(k, inum)
                  in == ilock(begin_op(got.k), got.r)
              IN ReclaimFrom(end_op(iput(iunlock(in, got.r), got.r)), inum + 1)

\* Mutant: nothing is reclaimed.
ireclaim_none(k) == k

ireclaim(k) == ReclaimFrom(k, 1)

-----------------------------------------------------------------------------
(* Contents *)

bmap(k, ip, bn) ==
    LET i == k.itable[ip]
        direct == balloc(k)
        ind == IF i.addrs[NDIRECT] # 0 THEN Ret(k, i.addrs[NDIRECT]) ELSE balloc(k)
        k1 == [ind.k EXCEPT !.itable[ip].addrs[NDIRECT] = ind.r]
        addr == k1.disk.block[ind.r][bn - NDIRECT][1]
        data == balloc(k1)
    IN IF bn >= MAXFILE THEN Ret(Panic(k, "bmap: out of range"), 0)
       ELSE IF bn < NDIRECT
            THEN IF i.addrs[bn] # 0 THEN Ret(k, i.addrs[bn])
                 ELSE IF direct.r = 0 THEN direct
                 ELSE Ret([direct.k EXCEPT !.itable[ip].addrs[bn] = direct.r], direct.r)
       ELSE IF ind.r = 0 THEN ind
       ELSE IF addr # 0 THEN Ret(k1, addr)
       ELSE IF data.r = 0 THEN data
       ELSE Ret(Log([data.k EXCEPT !.disk.block[ind.r][bn - NDIRECT] = <<data.r, "">>],
                    <<"data", ind.r>>), data.r)

stati(i) == << <<i.nlink, i.type>>, <<i.size, "">> >>

(* What readi() brings into kernel memory when off is not past the end.    *)
Content(k, ip, off, n) ==
    [j \in 1 .. Lower(n, k.itable[ip].size - off) |->
        k.disk.block[bmap(k, ip, (off + j - 1) \div BSIZE).r][(off + j - 1) % BSIZE]]

(* The copy goes block by block; a bad address stops it with -1.           *)
readi(k, p, ip, user, dst, off, n) ==
    LET data == Content(k, ip, off, n)
        out == copyout(k, p, k.proc[p].pagetable, dst, data, Len(data))
    IN IF off > k.itable[ip].size \/ (off + n) % UINT < off
       THEN [k |-> k, r |-> 0, data |-> <<>>]
       ELSE IF user /\ out.r = -1 THEN [k |-> out.k, r |-> -1, data |-> <<>>]
       ELSE [k |-> IF user THEN out.k ELSE k, r |-> Len(data), data |-> data]

RECURSIVE WriteFrom(_, _, _, _, _, _, _, _)
WriteFrom(k, p, ip, user, src, off, data, tot) ==
    LET m == Lower(Len(data) - tot, BSIZE - (off % BSIZE))
        at == bmap(k, ip, off \div BSIZE)
        got == copyin(at.k, p, k.proc[p].pagetable, src, m)
        from == IF user THEN got ELSE Ret(at.k, 0)
        old == from.k.disk.block[at.r]
        new == [u \in DOMAIN old |-> IF u \in off % BSIZE .. (off % BSIZE) + m - 1
                                     THEN data[tot + 1 + u - (off % BSIZE)] ELSE old[u]]
    IN IF tot >= Len(data) THEN [k |-> k, r |-> tot, off |-> off]
       ELSE IF at.r = 0 THEN [k |-> at.k, r |-> tot, off |-> off]
       ELSE IF from.r = -1 THEN [k |-> from.k, r |-> tot, off |-> off]
       ELSE WriteFrom(Log([from.k EXCEPT !.disk.block[at.r] = new], <<"data", at.r>>),
                      p, ip, user, src + m, off + m, data, tot + m)

(* The offsets writei() refuses.                                           *)
OutOfRange(i, off, n) ==
    off > i.size \/ (off + n) % UINT < off \/ off + n > MAXFILE * BSIZE

\* Mutant: the inode is written back only if it has grown.
writei_grown(k, p, ip, user, src, off, data) ==
    LET w == WriteFrom(k, p, ip, user, src, off, data, 0)
    IN IF OutOfRange(k.itable[ip], off, Len(data)) THEN Ret(k, -1)
       ELSE IF w.off <= k.itable[ip].size THEN Ret(w.k, w.r)
       ELSE Ret(iupdate([w.k EXCEPT !.itable[ip].size = w.off], ip), w.r)

writei(k, p, ip, user, src, off, data) ==
    LET w == WriteFrom(k, p, ip, user, src, off, data, 0)
        sized == [w.k EXCEPT !.itable[ip].size = IF w.off > @ THEN w.off ELSE @]
    IN IF OutOfRange(k.itable[ip], off, Len(data)) THEN Ret(k, -1)
       ELSE Ret(iupdate(sized, ip), w.r)

-----------------------------------------------------------------------------
(* Directories.  A name no longer than DIRSIZ stands for itself; the tests *)
(* use one name that is longer, whose first DIRSIZ bytes are another one.  *)

namecmp(s, t) == s = t

(* Directories are only appended to, so they have no holes: each readi()   *)
(* of an entry brings the whole of it, and the panics "dirlookup read" and *)
(* "dirlink read" are out of reach.                                        *)
Entries(k, dp) == Content(k, dp, 0, k.itable[dp].size)

dirlookup(k, dp, name) ==
    LET e == Entries(k, dp)
        at == {n \in DOMAIN e : e[n][1] # 0 /\ namecmp(name, e[n][2])}
        got == iget(k, e[Min(at)][1])
    IN IF k.itable[dp].type # "DIR"
       THEN [k |-> Panic(k, "dirlookup not DIR"), r |-> 0, off |-> 0]
       ELSE IF at = {} THEN [k |-> k, r |-> 0, off |-> 0]
       ELSE [k |-> got.k, r |-> got.r, off |-> Min(at) - 1]

dirlink(k, p, dp, name, inum) ==
    LET found == dirlookup(k, dp, name)
        e == Entries(k, dp)
        empty == {n \in DOMAIN e : e[n][1] = 0}
        off == IF empty = {} THEN k.itable[dp].size ELSE Min(empty) - 1
        w == writei(found.k, p, dp, FALSE, 0, off, << <<inum, name>> >>)
    IN IF found.r # 0 THEN Ret(iput(found.k, found.r), -1)
       ELSE IF w.r # 1 THEN Ret(w.k, -1)
       ELSE Ret(w.k, 0)

isdirempty(k, dp) ==
    LET e == Entries(k, dp) IN \A n \in 3 .. Len(e) : e[n][1] = 0

-----------------------------------------------------------------------------
(* Path names.  A path is a sequence of elements, the first one "/" if the *)
(* string begins with a slash.                                             *)

Truncated(elem) == IF elem = "12345678901234*" THEN "12345678901234" ELSE elem

skipelem(path) == [rest |-> Tail(path), name |-> Truncated(Head(path))]

RECURSIVE NamexFrom(_, _, _, _, _)
NamexFrom(k, ip, path, parent, name) ==
    IF path = <<>>
    THEN IF parent THEN [k |-> iput(k, ip), r |-> 0, name |-> name]
         ELSE [k |-> k, r |-> ip, name |-> name]
    ELSE LET e == skipelem(path)
             in == ilock(k, ip)
             next == dirlookup(in, ip, e.name)
             out == iunlockput(next.k, ip)
         IN IF in.itable[ip].type # "DIR"
            THEN [k |-> iunlockput(in, ip), r |-> 0, name |-> e.name]
            ELSE IF parent /\ e.rest = <<>>
                 THEN [k |-> iunlock(in, ip), r |-> ip, name |-> e.name]
            ELSE IF next.r = 0 THEN [k |-> out, r |-> 0, name |-> e.name]
            ELSE NamexFrom(out, next.r, e.rest, parent, e.name)

namex(k, p, path, parent) ==
    LET root == iget(k, ROOTINO)
        cwd == k.proc[p].cwd
    IN IF path # <<>> /\ Head(path) = "/"
       THEN NamexFrom(root.k, root.r, Tail(path), parent, "")
       ELSE NamexFrom(idup(k, cwd), cwd, path, parent, "")

namei(k, p, path) == namex(k, p, path, FALSE)
nameiparent(k, p, path) == namex(k, p, path, TRUE)
=============================================================================
