------------------------------ MODULE SysFile -------------------------------
(***************************************************************************)
(* Open files, pipes and the file system calls of the VisionFive 2 kernel: *)
(* kernel/file.c, pipe.c and sysfile.c, and the console's write routine,   *)
(* under src/platform/visionfive2, in the functional style of module       *)
(* Memory.  The fields of the kernel state used here are                   *)
(*    file    the open-file table, slots 1 .. NFILE, 0 the null pointer    *)
(*    pipe    the pipes, by the page that holds them                       *)
(*    proc    per process ofile, cwd, and done: how far into its buffer a  *)
(*            pipewrite() that sleeps has got                              *)
(* Each sys_ operator is one system call of process p, from its arguments  *)
(* to its return value; the value Asleep says that the call sleeps.        *)
(***************************************************************************)
EXTENDS Inodes

CONSTANTS NFILE, NOFILE, NDEV,
          PIPESIZE,     \* units a pipe holds
          MAXARG        \* arguments exec() takes

CONSOLE == 1
BATCH == 2              \* units of the buffer of consolewrite()
Asleep == -2
NoFile == [ref |-> 0, type |-> "NONE", readable |-> FALSE, writable |-> FALSE,
           ip |-> 0, off |-> 0, pipe |-> 0, major |-> 0]
Data(k, r, data) == [k |-> k, r |-> r, data |-> data]

-----------------------------------------------------------------------------
(* kernel/pipe.c *)

\* Mutant: the other end is closed.
pipeclose_swapped(k, pi, writable) ==
    LET side == IF writable THEN [k EXCEPT !.pipe[pi].readopen = FALSE]
                ELSE [k EXCEPT !.pipe[pi].writeopen = FALSE]
    IN IF side.pipe[pi].writeopen \/ side.pipe[pi].readopen THEN side
       ELSE kfree([side EXCEPT !.pipe = Restrict(@, DOMAIN @ \ {pi})], pi)

pipeclose(k, pi, writable) ==
    LET side == IF writable THEN [k EXCEPT !.pipe[pi].writeopen = FALSE]
                ELSE [k EXCEPT !.pipe[pi].readopen = FALSE]
    IN IF side.pipe[pi].writeopen \/ side.pipe[pi].readopen THEN side
       ELSE kfree([side EXCEPT !.pipe = Restrict(@, DOMAIN @ \ {pi})], pi)

RECURSIVE pipewrite(_, _, _, _, _)
pipewrite(k, p, pi, addr, data) ==
    LET i == k.proc[p].done
        ch == copyin(k, p, k.proc[p].pagetable, addr + i, 1)
        over(kk) == [kk EXCEPT !.proc[p].done = 0]
    IN IF i >= Len(data) THEN Ret(over(k), i)
       ELSE IF ~k.pipe[pi].readopen \/ k.proc[p].killed THEN Ret(over(k), -1)
       ELSE IF Len(k.pipe[pi].data) = PIPESIZE THEN Ret(k, Asleep)
       ELSE IF ch.r = -1 THEN Ret(over(ch.k), i)
       ELSE pipewrite([ch.k EXCEPT !.pipe[pi].data = Append(@, data[i + 1]),
                                   !.proc[p].done = i + 1], p, pi, addr, data)

RECURSIVE DrainPipe(_, _, _, _, _, _)
DrainPipe(k, p, pi, addr, n, got) ==
    LET q == k.pipe[pi].data
        out == copyout(k, p, k.proc[p].pagetable, addr + Len(got), <<Head(q)>>, 1)
    IN IF Len(got) = n \/ q = <<>> THEN Data(k, Len(got), got)
       ELSE IF out.r = -1 THEN Data(out.k, IF got = <<>> THEN -1 ELSE Len(got), got)
       ELSE DrainPipe([out.k EXCEPT !.pipe[pi].data = Tail(@)],
                      p, pi, addr, n, Append(got, Head(q)))

\* Mutant: an empty pipe reads as the end of file.
piperead_eof(k, p, pi, addr, n) == DrainPipe(k, p, pi, addr, n, <<>>)

piperead(k, p, pi, addr, n) ==
    IF k.pipe[pi].data = <<>> /\ k.pipe[pi].writeopen
    THEN Data(k, IF k.proc[p].killed THEN -1 ELSE Asleep, <<>>)
    ELSE DrainPipe(k, p, pi, addr, n, <<>>)

-----------------------------------------------------------------------------
(* kernel/file.c *)

filealloc(k) ==
    LET unused == {f \in 1 .. NFILE : k.file[f].ref = 0}
    IN IF unused = {} THEN Ret(k, 0)
       ELSE Ret([k EXCEPT !.file[Min(unused)].ref = 1], Min(unused))

filedup(k, f) ==
    IF k.file[f].ref < 1 THEN Panic(k, "filedup")
    ELSE [k EXCEPT !.file[f].ref = @ + 1]

(* The last close leaves the fields of the slot as they are; open() and    *)
(* pipe() set the ones that matter before anybody reads them, so they are  *)
(* cleared here.                                                           *)
fileclose(k, f) ==
    LET ff == k.file[f]
        closed == [k EXCEPT !.file[f] = NoFile]
    IN IF ff.ref < 1 THEN Panic(k, "fileclose")
       ELSE IF ff.ref > 1 THEN [k EXCEPT !.file[f].ref = @ - 1]
       ELSE IF ff.type = "PIPE" THEN pipeclose(closed, ff.pipe, ff.writable)
       ELSE IF ff.type \in {"INODE", "DEVICE"}
            THEN end_op(iput(begin_op(closed), ff.ip))
       ELSE closed

filestat(k, p, f, addr) ==
    LET in == ilock(k, k.file[f].ip)
        st == stati(in.itable[k.file[f].ip])
        out == copyout(iunlock(in, k.file[f].ip), p, k.proc[p].pagetable, addr, st, 2)
    IN IF k.file[f].type \notin {"INODE", "DEVICE"} THEN Data(k, -1, <<>>)
       ELSE Data(out.k, out.r, st)

(* The console has both routines, at index CONSOLE of devsw.               *)
(* consolewrite() hands the units to the UART, a batch at a time, until an *)
(* address is bad, and returns how many it has taken.                      *)
RECURSIVE consolewrite(_, _, _, _, _)
consolewrite(k, p, src, n, i) ==
    LET nn == Lower(BATCH, n - i)
        buf == copyin(k, p, k.proc[p].pagetable, src + i, nn)
    IN IF i >= n THEN Ret(k, i)
       ELSE IF buf.r = -1 THEN Ret(buf.k, i)
       ELSE consolewrite(buf.k, p, src, n, i + nn)

(* No input arrives, so a read of the console waits.                       *)
consoleread(k, p, n) ==
    Data(k, IF n <= 0 THEN 0 ELSE IF k.proc[p].killed THEN -1 ELSE Asleep, <<>>)

fileread(k, p, f, addr, n) ==
    LET ff == k.file[f]
        got == readi(ilock(k, ff.ip), p, ff.ip, TRUE, addr, ff.off, n)
        moved == IF got.r > 0 THEN [got.k EXCEPT !.file[f].off = @ + got.r] ELSE got.k
    IN IF ~ff.readable THEN Data(k, -1, <<>>)
       ELSE CASE ff.type = "PIPE" -> piperead(k, p, ff.pipe, addr, n)
              [] ff.type = "DEVICE" ->
                     IF ff.major = CONSOLE THEN consoleread(k, p, n) ELSE Data(k, -1, <<>>)
              [] ff.type = "INODE" -> Data(iunlock(moved, ff.ip), got.r, got.data)
              [] OTHER -> Data(Panic(k, "fileread"), -1, <<>>)

\* Mutant: a chunk as large as the reservation but for the inode and the bitmap.
WriteChunk_large == (MAXOPBLOCKS - 1 - 1) * BSIZE

(* One transaction per chunk keeps each of them within MAXOPBLOCKS.        *)
WriteChunk == ((MAXOPBLOCKS - 1 - 1 - 2) \div 2) * BSIZE

RECURSIVE WriteChunks(_, _, _, _, _, _)
WriteChunks(k, p, f, addr, data, i) ==
    LET ip == k.file[f].ip
        n1 == Lower(Len(data) - i, WriteChunk)
        w == writei(ilock(begin_op(k), ip), p, ip, TRUE, addr + i, k.file[f].off,
                    SubSeq(data, i + 1, i + n1))
        moved == IF w.r > 0 THEN [w.k EXCEPT !.file[f].off = @ + w.r] ELSE w.k
        out == end_op(iunlock(moved, ip))
    IN IF i >= Len(data) THEN Ret(k, Len(data))
       ELSE IF w.r # n1 THEN Ret(out, -1)
       ELSE WriteChunks(out, p, f, addr, data, i + w.r)

filewrite(k, p, f, addr, data) ==
    LET ff == k.file[f]
        ready == copyincheck(k, p, k.proc[p].pagetable, addr, Len(data))
    IN IF ~ff.writable THEN Ret(k, -1)
       ELSE CASE ff.type = "PIPE" -> pipewrite(k, p, ff.pipe, addr, data)
              [] ff.type = "DEVICE" ->
                     IF ff.major = CONSOLE THEN consolewrite(k, p, addr, Len(data), 0)
                     ELSE Ret(k, -1)
              [] ff.type = "INODE" ->
                     IF ready.r < 0 THEN Ret(ready.k, -1)
                     ELSE WriteChunks(ready.k, p, f, addr, data, 0)
              [] OTHER -> Ret(Panic(k, "filewrite"), -1)

pipealloc(k) ==
    LET f0 == filealloc(k)
        f1 == filealloc(f0.k)
        pi == kalloc(f1.k)
        end(w) == [ref |-> 1, type |-> "PIPE", readable |-> ~w, writable |-> w,
                   ip |-> 0, off |-> 0, pipe |-> pi.r, major |-> 0]
        new == [data |-> <<>>, readopen |-> TRUE, writeopen |-> TRUE]
    IN IF f0.r = 0 THEN [k |-> k, r |-> -1]
       ELSE IF f1.r = 0 THEN [k |-> fileclose(f1.k, f0.r), r |-> -1]
       ELSE IF pi.r = 0 THEN [k |-> fileclose(fileclose(pi.k, f0.r), f1.r), r |-> -1]
       ELSE [k |-> [pi.k EXCEPT !.pipe = @ @@ (pi.r :> new), !.file[f0.r] = end(FALSE),
                                !.file[f1.r] = end(TRUE)],
             r |-> 0, rf |-> f0.r, wf |-> f1.r]

-----------------------------------------------------------------------------
(* kernel/sysfile.c *)

(* The open file of a descriptor argument, 0 if it names none.             *)
argfd(k, p, fd) == IF fd \in 0 .. NOFILE - 1 THEN k.proc[p].ofile[fd] ELSE 0

argstr(k, p, str) == copyinstr(k, k.proc[p].pagetable, str)

fdalloc(k, p, f) ==
    LET unused == {fd \in 0 .. NOFILE - 1 : k.proc[p].ofile[fd] = 0}
    IN IF unused = {} THEN Ret(k, -1)
       ELSE Ret([k EXCEPT !.proc[p].ofile[Min(unused)] = f], Min(unused))

sys_dup(k, p, fd) ==
    LET f == argfd(k, p, fd)
        new == fdalloc(k, p, f)
    IN IF f = 0 \/ new.r < 0 THEN Ret(k, -1) ELSE Ret(filedup(new.k, f), new.r)

sys_read(k, p, fd, addr, n) ==
    LET f == argfd(k, p, fd)
    IN IF f = 0 THEN Data(k, -1, <<>>) ELSE fileread(k, p, f, addr, n)

sys_write(k, p, fd, addr, data) ==
    LET f == argfd(k, p, fd)
    IN IF f = 0 THEN Ret(k, -1) ELSE filewrite(k, p, f, addr, data)

sys_close(k, p, fd) ==
    LET f == argfd(k, p, fd)
    IN IF f = 0 THEN Ret(k, -1)
       ELSE Ret(fileclose([k EXCEPT !.proc[p].ofile[fd] = 0], f), 0)

sys_fstat(k, p, fd, addr) ==
    LET f == argfd(k, p, fd)
    IN IF f = 0 THEN Data(k, -1, <<>>) ELSE filestat(k, p, f, addr)

sys_link(k, p, old, new) ==
    LET src == namei(begin_op(k), p, old.path)
        ip == src.r
        in == ilock(src.k, ip)
        more == iunlock(iupdate([in EXCEPT !.itable[ip].nlink = @ + 1], ip), ip)
        dir == nameiparent(more, p, new.path)
        dp == dir.r
        linked == dirlink(ilock(dir.k, dp), p, dp, dir.name, in.itable[ip].inum)
        bad(kk) == LET back == [ilock(kk, ip) EXCEPT !.itable[ip].nlink = @ - 1]
                   IN Ret(end_op(iunlockput(iupdate(back, ip), ip)), -1)
    IN IF argstr(k, p, old) < 0 \/ argstr(k, p, new) < 0 THEN Ret(k, -1)
       ELSE IF ip = 0 THEN Ret(end_op(src.k), -1)
       ELSE IF in.itable[ip].type = "DIR" THEN Ret(end_op(iunlockput(in, ip)), -1)
       ELSE IF dp = 0 THEN bad(dir.k)
       ELSE IF linked.r < 0 THEN bad(iunlockput(linked.k, dp))
       ELSE Ret(end_op(iput(iunlockput(linked.k, dp), ip)), 0)

sys_unlink(k, p, str) ==
    LET dir == nameiparent(begin_op(k), p, str.path)
        dp == dir.r
        in == ilock(dir.k, dp)
        found == dirlookup(in, dp, dir.name)
        ip == found.r
        both == ilock(found.k, ip)
        isdir == both.itable[ip].type = "DIR"
        w == writei(both, p, dp, FALSE, 0, found.off, <<NoUnit>>)
        erased == IF w.r # 1 THEN Panic(w.k, "unlink: writei")
                  ELSE IF isdir THEN iupdate([w.k EXCEPT !.itable[dp].nlink = @ - 1], dp)
                  ELSE w.k
        less == [iunlockput(erased, dp) EXCEPT !.itable[ip].nlink = @ - 1]
        bad(kk) == Ret(end_op(iunlockput(kk, dp)), -1)
    IN IF argstr(k, p, str) < 0 THEN Ret(k, -1)
       ELSE IF dp = 0 THEN Ret(end_op(dir.k), -1)
       ELSE IF dir.name \in {".", ".."} THEN bad(in)
       ELSE IF ip = 0 THEN bad(found.k)
       ELSE IF both.itable[ip].nlink < 1 THEN Ret(Panic(both, "unlink: nlink < 1"), -1)
       ELSE IF isdir /\ ~isdirempty(both, ip) THEN bad(iunlockput(both, ip))
       ELSE Ret(end_op(iunlockput(iupdate(less, ip), ip)), 0)

\* Mutant: a new directory has no "..".
DotEntries_self(k, p, ip, dp, type) ==
    IF type # "DIR" THEN Ret(k, 0) ELSE dirlink(k, p, ip, ".", k.itable[ip].inum)

(* The "." and ".." of a new directory, or nothing for another type.       *)
DotEntries(k, p, ip, dp, type) ==
    LET dot == dirlink(k, p, ip, ".", k.itable[ip].inum)
    IN IF type # "DIR" THEN Ret(k, 0)
       ELSE IF dot.r < 0 THEN dot
       ELSE dirlink(dot.k, p, ip, "..", k.itable[dp].inum)

create(k, p, path, type, major) ==
    LET dir == nameiparent(k, p, path)
        dp == dir.r
        found == dirlookup(ilock(dir.k, dp), dp, dir.name)
        there == ilock(iunlockput(found.k, dp), found.r)
        new == ialloc(found.k, type)
        ip == new.r
        named == iupdate([ilock(new.k, ip) EXCEPT !.itable[ip].major = major,
                                                  !.itable[ip].nlink = 1], ip)
        dots == DotEntries(named, p, ip, dp, type)
        entry == dirlink(dots.k, p, dp, dir.name, named.itable[ip].inum)
        linked == IF type = "DIR"
                  THEN iupdate([entry.k EXCEPT !.itable[dp].nlink = @ + 1], dp)
                  ELSE entry.k
        fail(kk) == LET none == iupdate([kk EXCEPT !.itable[ip].nlink = 0], ip)
                    IN Ret(iunlockput(iunlockput(none, ip), dp), 0)
    IN IF dp = 0 THEN Ret(dir.k, 0)
       ELSE IF found.r # 0
            THEN IF type = "FILE" /\ there.itable[found.r].type \in {"FILE", "DEVICE"}
                 THEN Ret(there, found.r) ELSE Ret(iunlockput(there, found.r), 0)
       ELSE IF ip = 0 THEN Ret(iunlockput(new.k, dp), 0)
       ELSE IF dots.r < 0 THEN fail(dots.k)
       ELSE IF entry.r < 0 THEN fail(entry.k)
       ELSE Ret(iunlockput(linked, dp), ip)

(* An omode is the set of its flags, O_RDONLY the empty one.               *)
sys_open(k, p, str, omode) ==
    LET begun == begin_op(k)
        found == namei(begun, p, str.path)
        at == IF "CREATE" \in omode THEN create(begun, p, str.path, "FILE", 0)
              ELSE IF found.r = 0 THEN found
              ELSE Ret(ilock(found.k, found.r), found.r)
        ip == at.r
        i == at.k.itable[ip]
        f == filealloc(at.k)
        fd == fdalloc(f.k, p, f.r)
        isdev == i.type = "DEVICE"
        opened == [fd.k EXCEPT !.file[f.r] =
                      [ref |-> 1, type |-> IF isdev THEN "DEVICE" ELSE "INODE",
                       readable |-> "WRONLY" \notin omode,
                       writable |-> omode \cap {"WRONLY", "RDWR"} # {},
                       ip |-> ip, off |-> 0, pipe |-> 0,
                       major |-> IF isdev THEN i.major ELSE 0]]
        done == IF "TRUNC" \in omode /\ i.type = "FILE" THEN itrunc(opened, ip) ELSE opened
        bad(kk) == Ret(end_op(iunlockput(kk, ip)), -1)
    IN IF argstr(k, p, str) < 0 THEN Ret(k, -1)
       ELSE IF ip = 0 THEN Ret(end_op(at.k), -1)
       ELSE IF "CREATE" \notin omode /\ i.type = "DIR" /\ omode # {} THEN bad(at.k)
       ELSE IF isdev /\ i.major \notin 0 .. NDEV - 1 THEN bad(at.k)
       ELSE IF f.r = 0 THEN bad(f.k)
       ELSE IF fd.r < 0 THEN bad(fileclose(fd.k, f.r))
       ELSE Ret(end_op(iunlock(done, ip)), fd.r)

(* mkdir(path), and mknod(path, major, minor), which differ in the type.   *)
MakeNode(k, p, str, type, major) ==
    LET made == create(begin_op(k), p, str.path, type, major)
    IN IF argstr(k, p, str) < 0 THEN Ret(end_op(begin_op(k)), -1)
       ELSE IF made.r = 0 THEN Ret(end_op(made.k), -1)
       ELSE Ret(end_op(iunlockput(made.k, made.r)), 0)

sys_mkdir(k, p, str) == MakeNode(k, p, str, "DIR", 0)
sys_mknod(k, p, str, major) == MakeNode(k, p, str, "DEVICE", major)

sys_chdir(k, p, str) ==
    LET to == namei(begin_op(k), p, str.path)
        in == ilock(to.k, to.r)
        left == end_op(iput(iunlock(in, to.r), k.proc[p].cwd))
    IN IF argstr(k, p, str) < 0 THEN Ret(end_op(begin_op(k)), -1)
       ELSE IF to.r = 0 THEN Ret(end_op(to.k), -1)
       ELSE IF in.itable[to.r].type # "DIR" THEN Ret(end_op(iunlockput(in, to.r)), -1)
       ELSE Ret([left EXCEPT !.proc[p].cwd = to.r], 0)

(* The two descriptors come back in data as the user's array gets them.    *)
sys_pipe(k, p, fdarray) ==
    LET pi == pipealloc(k)
        fd0 == fdalloc(pi.k, p, pi.rf)
        fd1 == fdalloc(fd0.k, p, pi.wf)
        pt == k.proc[p].pagetable
        fds == << <<fd0.r, "">>, <<fd1.r, "">> >>
        out0 == copyout(fd1.k, p, pt, fdarray, fds, 1)
        out1 == copyout(out0.k, p, pt, fdarray + 1, fds, 1)
        close(kk) == Data(fileclose(fileclose(kk, pi.rf), pi.wf), -1, <<>>)
        clear(kk, fds2) == [kk EXCEPT !.proc[p].ofile =
                               [fd \in DOMAIN @ |-> IF fd \in fds2 THEN 0 ELSE @[fd]]]
    IN IF pi.r < 0 THEN Data(pi.k, -1, <<>>)
       ELSE IF fd0.r < 0 THEN close(fd0.k)
       ELSE IF fd1.r < 0 THEN close(clear(fd1.k, {fd0.r}))
       ELSE IF out0.r < 0 THEN close(clear(out0.k, {fd0.r, fd1.r}))
       ELSE IF out1.r < 0 THEN close(clear(out1.k, {fd0.r, fd1.r}))
       ELSE Data(out1.k, 0, fds)
=============================================================================
