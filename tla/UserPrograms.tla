---------------------------- MODULE UserPrograms ----------------------------
(***************************************************************************)
(* The instructions user programs are written with, for module Kernel, and *)
(* the layout of their memory.  A program is a record of labelled          *)
(* sequences: it starts at main, and a child goes on at the label its      *)
(* fork() names.                                                           *)
(***************************************************************************)
EXTENDS Integers, Sequences, SequencesExt, TLC

CONSTANTS PGSIZE, FANOUT, BSIZE, NDIRECT, PIPESIZE, NOFILE, NPROC, NINODE, MAXARG,
          DataBlocks, ninodes,
          N      \* repetitions of a loop that a test runs many times

(* Addresses: the text page, two pages of data, the guard and the stack.   *)
TextVa == 0
BufVa == PGSIZE
GuardVa == 3 * PGSIZE
StackVa == 4 * PGSIZE
HeapVa == 5 * PGSIZE
MaxVa == FANOUT * FANOUT * FANOUT * PGSIZE
Trampoline == MaxVa - PGSIZE
Trapframe == Trampoline - PGSIZE
KernBase == MaxVa \div 2
Huge == 2 * MaxVa
WildVas == <<KernBase, Trapframe, Trampoline, MaxVa, Huge>>
MaxFile == NDIRECT + BSIZE

(* Results: the interval a program accepts.                                *)
Is(n) == [lo |-> n, hi |-> n]
Whatever == [lo |-> -1, hi |-> Huge]
Ok == [lo |-> 0, hi |-> Huge]
Positive == [lo |-> 1, hi |-> Huge]
Err == Is(-1)
NotPositive == [lo |-> -1, hi |-> 0]

(* Strings.  A path is the sequence of its elements.                       *)
At(va, path) == [va |-> va, crosses |-> FALSE, toolong |-> FALSE, size |-> 1, path |-> path]
Str(path) == At(BufVa, path)
Bytes(n, c) == [i \in 1 .. n |-> <<0, c>>]

Call(op, dst, chk) ==
    [op |-> op, dst |-> dst, chk |-> chk, until |-> Whatever,
     want |-> {}, stream |-> <<>>, tally |-> <<>>]

Open(path, mode, dst, chk) == [path |-> Str(path), mode |-> mode] @@ Call("open", dst, chk)
Mkdir(path, chk) == [path |-> Str(path)] @@ Call("mkdir", "", chk)
Mknod(path, n, chk) == [path |-> Str(path), n |-> n] @@ Call("mknod", "", chk)
Chdir(path, chk) == [path |-> Str(path)] @@ Call("chdir", "", chk)
Unlink(path, chk) == [path |-> Str(path)] @@ Call("unlink", "", chk)
Link(old, new, chk) == [path |-> Str(old), new |-> Str(new)] @@ Call("link", "", chk)
Exec(path, args, chk) ==
    [path |-> Str(path), va |-> BufVa, args |-> args] @@ Call("exec", "", chk)
Close(fd) == [fd |-> fd] @@ Call("close", "", Whatever)
Dup(fd, dst, chk) == [fd |-> fd] @@ Call("dup", dst, chk)
ReadAt(fd, va, n, chk) == [fd |-> fd, va |-> va, n |-> n] @@ Call("read", "n", chk)
Read(fd, n, chk) == ReadAt(fd, BufVa, n, chk)
ReadData(fd, n, data) == [want |-> {data}] @@ Read(fd, n, Is(Len(data)))
(* while((n = read(fd, buf, n)) > 0), each one compared with stream.       *)
ReadStream(fd, n, stream) ==
    [stream |-> stream, until |-> NotPositive] @@ Read(fd, n, Whatever)
(* The same, counting units: tally says which ones in which register.      *)
ReadTally(fd, n, tally) == [tally |-> tally, until |-> NotPositive] @@ Read(fd, n, Whatever)
WriteAt(fd, va, data, chk) == [fd |-> fd, va |-> va, data |-> data] @@ Call("write", "", chk)
Write(fd, data, chk) == WriteAt(fd, BufVa, data, chk)
FstatAt(fd, va, chk) == [fd |-> fd, va |-> va] @@ Call("fstat", "", chk)
FstatData(fd, st) == [want |-> {st}] @@ FstatAt(fd, StackVa, Is(0))
PipeAt(va, r, w, chk) == [va |-> va, ends |-> <<r, w>>] @@ Call("pipe", "", chk)
PipeInto(r, w) == PipeAt(BufVa, r, w, Ok)
Fork(child, dst, chk) == [child |-> child] @@ Call("fork", dst, chk)
Exit(n) == [n |-> n, reg |-> ""] @@ Call("exit", "", Whatever)
ExitStatus == [n |-> 0, reg |-> "x"] @@ Call("exit", "", Whatever)   \* exit(xstatus)
WaitAt(va, chk) == [va |-> va] @@ Call("wait", "", chk)
Wait(chk) == WaitAt(0, chk)                        \* wait(0)
WaitStatus(x) == [want |-> {<< <<x, "">> >>}] @@ WaitAt(StackVa, Ok)
WaitX == WaitAt(StackVa, Ok)                       \* into register x
WaitPid(va, dst) == [va |-> va] @@ Call("wait", dst, Ok)
Kill(reg, chk) == [reg |-> reg] @@ Call("kill", "", chk)
Getpid(dst) == Call("getpid", dst, Ok)
Pause == Call("pause", "", Whatever)
Sbrk(n, chk) == [n |-> n, eager |-> TRUE] @@ Call("sbrk", "", chk)
SbrkTo(va, chk) == [va |-> va] @@ Call("sbrkto", "", chk)      \* sbrk(va - sbrk(0))
Sbrklazy(n, chk) == [n |-> n, eager |-> FALSE] @@ Call("sbrk", "", chk)
Load(va, data) == [va |-> va, want |-> {data}] @@ Call("load", "", Ok)
LoadAny(va) == [va |-> va] @@ Call("load", "", Ok)
Store(va, data) == [va |-> va, data |-> data] @@ Call("store", "", Ok)
Spin == Call("spin", "", Whatever)                 \* for(;;) without a trap

WriteArg(fd, n) == [fd |-> fd, va |-> BufVa, n |-> n] @@ Call("writearg", "", Whatever)

(* Modes of open(); O_RDONLY is the empty set.                             *)
RDONLY == {}
Create == {"CREATE"}
CreateW == {"CREATE", "WRONLY"}
CreateRW == {"CREATE", "RDWR"}

(* Names a loop makes up, for files and for the labels of children.        *)
Names == <<"a", "b", "c", "d", "e", "f", "g", "h", "i", "j", "k", "l", "m", "n">>
ByName(n, body(_)) ==
    [l \in {Names[i] : i \in 1 .. n} |-> body(CHOOSE i \in 1 .. n : Names[i] = l)]

(* Loops and choices.                                                      *)
Repeat(instr, ends) == [until |-> ends] @@ instr
If(reg, interval, label) ==
    [reg |-> reg, in |-> interval, label |-> label] @@ Call("if", "", Whatever)
Goto(label) == If("bad", Whatever, label)
Same(reg, other) == [reg |-> reg, other |-> other] @@ Call("same", "", Whatever)
SetReg(reg, n) == [reg |-> reg, n |-> n] @@ Call("set", "", Whatever)
Expect(reg, n) == <<SetReg("want", n), Same(reg, "want")>>
Choose(labels) == [labels |-> labels] @@ Call("choose", "", Whatever)
Again(label) == If("left", Positive, label)
For(n, body(_)) == FlattenSeq([i \in 1 .. n |-> body(i)])
ForEach(s, body(_)) == FlattenSeq([i \in DOMAIN s |-> body(s[i])])
=============================================================================
