------------------------------- MODULE Kernel -------------------------------
(***************************************************************************)
(* Processes and the remaining system calls of the VisionFive 2 kernel:    *)
(* kernel/proc.c, exec.c, sysproc.c, syscall.c and the user side of        *)
(* trap.c under src/platform/visionfive2, in the functional style of       *)
(* module Memory.  Field proc of the kernel state is the process table,    *)
(* slots 1 .. NPROC, 0 the null pointer, slot 1 initproc.  Of a process    *)
(* user is what its trapframe page saves: the instruction it is at and its *)
(* registers, with the arguments main() was given.                         *)
(*                                                                         *)
(* A program is a sequence of instructions, records with the field op;     *)
(* Code gives it for the name a process runs under.  An instruction is a   *)
(* system call with its arguments, a load or a store, together with what   *)
(* the program does about the result: chk says which results it goes on    *)
(* with, any other makes it exit(1); dst names the register the result     *)
(* goes to; want is the set of data it accepts, empty if it does not look; *)
(* until, if it is a loop around one call, the results that end the loop.  *)
(* A read may also compare what it gets with a stream of which register    *)
(* total has been read, or count units in the registers of tally.          *)
(***************************************************************************)
EXTENDS SysFile

CONSTANTS NPROC, USERSTACK,
          Code          \* what each program does, by its name

INIT == 1
Nobody == [state |-> "UNUSED", pid |-> 0, parent |-> 0, killed |-> FALSE, xstate |-> 0,
           sz |-> 0, trapframe |-> 0, pagetable |-> 0, cwd |-> 0, done |-> 0,
           ofile |-> [fd \in 0 .. NOFILE - 1 |-> 0],
           user |-> [prog |-> "", label |-> "", pc |-> 0, reg |-> <<>>, argv |-> <<>>]]
Registers == [stdin |-> 0, stdout |-> 1, bad |-> -1, left |-> 0, total |-> 0]
Start(prog, argv) ==
    [prog |-> prog, label |-> "main", pc |-> 1, reg |-> Registers, argv |-> argv]

-----------------------------------------------------------------------------
(* kernel/proc.c: address spaces.  The trampoline is not a page of kmem.   *)

proc_pagetable(k, trapframe) ==
    LET pt == uvmcreate(k)
        tramp == mappages(pt.k, pt.r, VPage(TRAMPOLINE), 0, {"R", "X"})
        frame == mappages(tramp.k, pt.r, VPage(TRAPFRAME), trapframe, {"R", "W"})
    IN IF pt.r = 0 THEN pt
       ELSE IF tramp.r < 0 THEN Ret(uvmfree(tramp.k, pt.r, 0), 0)
       ELSE IF frame.r < 0
            THEN Ret(uvmfree(uvmunmap(frame.k, pt.r, VPage(TRAMPOLINE), 1, FALSE), pt.r, 0), 0)
       ELSE Ret(frame.k, pt.r)

proc_freepagetable(k, pt, sz) ==
    uvmfree(uvmunmap(uvmunmap(k, pt, VPage(TRAMPOLINE), 1, FALSE),
                     pt, VPage(TRAPFRAME), 1, FALSE), pt, sz)

growproc(k, p, n) ==
    LET sz == k.proc[p].sz
        pt == k.proc[p].pagetable
        new == IF n > 0 THEN uvmalloc(k, pt, sz, sz + n, {"W"})
               ELSE IF n < 0 THEN uvmdealloc(k, pt, sz, (sz + n) % WRAP) ELSE Ret(k, sz)
    IN IF n > 0 /\ (sz + n > TRAPFRAME \/ new.r = 0)
       THEN Ret(IF sz + n > TRAPFRAME THEN k ELSE new.k, -1)
       ELSE Ret([new.k EXCEPT !.proc[p].sz = new.r], 0)

-----------------------------------------------------------------------------
(* kernel/proc.c: processes *)

freeproc(k, p) ==
    LET pr == k.proc[p]
        k1 == IF pr.trapframe # 0 THEN kfree(k, pr.trapframe) ELSE k
        k2 == IF pr.pagetable # 0 THEN proc_freepagetable(k1, pr.pagetable, pr.sz) ELSE k1
    IN [k2 EXCEPT !.proc[p] = [Nobody EXCEPT !.ofile = pr.ofile, !.cwd = pr.cwd]]

allocproc(k) ==
    LET unused == {p \in 1 .. NPROC : k.proc[p].state = "UNUSED"}
        p == Min(unused)
        used == [k EXCEPT !.proc[p].pid = k.nextpid, !.proc[p].state = "USED",
                          !.nextpid = @ + 1]
        tf == kalloc(used)
        k1 == [tf.k EXCEPT !.proc[p].trapframe = tf.r]
        pt == proc_pagetable(k1, tf.r)
    IN IF unused = {} THEN Ret(k, 0)
       ELSE IF tf.r = 0 THEN Ret(freeproc(k1, p), 0)
       ELSE IF pt.r = 0 THEN Ret(freeproc(pt.k, p), 0)
       ELSE Ret([pt.k EXCEPT !.proc[p].pagetable = pt.r], p)

(* child labels what the program does where fork() returned 0.             *)
kfork(k, p, child) ==
    LET np == allocproc(k)
        pr == k.proc[p]
        copied == uvmcopy(np.k, pr.pagetable, np.k.proc[np.r].pagetable, pr.sz)
        open == {fd \in 0 .. NOFILE - 1 : pr.ofile[fd] # 0}
        shared == idup(FoldSet(LAMBDA fd, kk : filedup(kk, pr.ofile[fd]), copied.k, open), pr.cwd)
    IN IF np.r = 0 THEN Ret(np.k, -1)
       ELSE IF copied.r < 0 THEN Ret(freeproc(copied.k, np.r), -1)
       ELSE Ret([shared EXCEPT !.proc[np.r] =
                    [@ EXCEPT !.sz = pr.sz, !.ofile = pr.ofile, !.cwd = pr.cwd,
                              !.parent = p, !.state = "RUNNABLE",
                              !.user = [pr.user EXCEPT !.label = child, !.pc = 1]]],
                np.k.proc[np.r].pid)

reparent(k, p) ==
    [k EXCEPT !.proc = [q \in DOMAIN @ |->
        IF @[q].parent = p THEN [@[q] EXCEPT !.parent = INIT] ELSE @[q]]]

RECURSIVE CloseFrom(_, _, _)
\* Mutant: the descriptor still names the file that was closed.
CloseFrom_stale(k, p, fd) ==
    LET f == k.proc[p].ofile[fd]
    IN IF fd = NOFILE THEN k
       ELSE IF f = 0 THEN CloseFrom(k, p, fd + 1)
       ELSE CloseFrom(fileclose(k, f), p, fd + 1)

CloseFrom(k, p, fd) ==
    LET f == k.proc[p].ofile[fd]
    IN IF fd = NOFILE THEN k
       ELSE IF f = 0 THEN CloseFrom(k, p, fd + 1)
       ELSE CloseFrom([fileclose(k, f) EXCEPT !.proc[p].ofile[fd] = 0], p, fd + 1)

kexit(k, p, status) ==
    LET closed == CloseFrom(k, p, 0)
        left == end_op(iput(begin_op(closed), k.proc[p].cwd))
    IN IF p = INIT THEN Panic(k, "init exiting")
       ELSE [reparent(left, p) EXCEPT !.proc[p].cwd = 0, !.proc[p].xstate = status,
                                      !.proc[p].state = "ZOMBIE", !.proc[p].done = 0]

\* Mutant: who has no children sleeps.
kwait_childless(k, p, addr) ==
    LET kids == {q \in 1 .. NPROC : k.proc[q].parent = p}
        dead == {q \in kids : k.proc[q].state = "ZOMBIE"}
        q == Min(dead)
        st == << <<k.proc[q].xstate, "">> >>
        out == IF addr = 0 THEN Ret(k, 0)
               ELSE copyout(k, p, k.proc[p].pagetable, addr, st, 1)
    IN IF dead = {} THEN Data(k, IF k.proc[p].killed THEN -1 ELSE Asleep, <<>>)
       ELSE IF out.r < 0 THEN Data(out.k, -1, <<>>)
       ELSE Data(freeproc(out.k, q), k.proc[q].pid, st)

(* addr 0 asks for no status.                                              *)
kwait(k, p, addr) ==
    LET kids == {q \in 1 .. NPROC : k.proc[q].parent = p}
        dead == {q \in kids : k.proc[q].state = "ZOMBIE"}
        q == Min(dead)
        st == << <<k.proc[q].xstate, "">> >>
        out == IF addr = 0 THEN Ret(k, 0)
               ELSE copyout(k, p, k.proc[p].pagetable, addr, st, 1)
    IN IF dead = {}
       THEN Data(k, IF kids = {} \/ k.proc[p].killed THEN -1 ELSE Asleep, <<>>)
       ELSE IF out.r < 0 THEN Data(out.k, -1, <<>>)
       ELSE Data(freeproc(out.k, q), k.proc[q].pid, st)

kkill(k, pid) ==
    LET hit == {q \in 1 .. NPROC : k.proc[q].pid = pid}
    IN IF hit = {} THEN Ret(k, -1) ELSE Ret([k EXCEPT !.proc[Min(hit)].killed = TRUE], 0)

-----------------------------------------------------------------------------
(* kernel/exec.c.  The units of an executable file are its header          *)
(* <<phnum, "ELF">>, one <<pages, flag>> for each program header, flag "X" *)
(* for text, "W" for data and "" for a header of another type, then the    *)
(* text: the name of the program.  A segment begins where the one before   *)
(* ends, on a page, and has no more in the file than in memory, as the     *)
(* linker lays it out, so kexec()'s checks of memsz, vaddr and its         *)
(* alignment pass.  The file has one unit for the first page of the text   *)
(* and nothing for the data: loadseg() goes round its loop once or not.    *)

flags2perm(flag) == {flag}

loadseg(k, p, ip, pt, v, offset) ==
    LET got == readi(k, p, ip, FALSE, 0, offset, 1)
    IN IF walkaddr(k, pt, v) = 0 THEN Ret(Panic(k, "loadseg: address should exist"), -1)
       ELSE IF got.r # 1 THEN Ret(got.k, -1)
       ELSE Ret([got.k EXCEPT !.mem[walkaddr(k, pt, v)] = got.data], 0)

(* r is -1 on the way to bad; sz is what must be freed then.               *)
RECURSIVE LoadFrom(_, _, _, _, _, _, _)
LoadFrom(k, p, ip, pt, sz, i, phnum) ==
    LET ph == readi(k, p, ip, FALSE, 0, i, 1)
        more == uvmalloc(k, pt, sz, sz + ph.data[1][1] * PGSIZE, flags2perm(ph.data[1][2]))
        seg == IF ph.data[1][2] = "X"
               THEN loadseg(more.k, p, ip, pt, VPage(sz), phnum + 1) ELSE Ret(more.k, 0)
    IN IF i > phnum THEN [k |-> k, r |-> 0, sz |-> sz]
       ELSE IF ph.r # 1 THEN [k |-> k, r |-> -1, sz |-> sz]
       ELSE IF ph.data[1][2] = "" THEN LoadFrom(k, p, ip, pt, sz, i + 1, phnum)
       ELSE IF more.r = 0 THEN [k |-> more.k, r |-> -1, sz |-> sz]
       ELSE IF seg.r < 0 THEN [k |-> seg.k, r |-> -1, sz |-> more.r]
       ELSE LoadFrom(seg.k, p, ip, pt, more.r, i + 1, phnum)

(* size is the room argv and its strings need on the user stack.           *)
kexec(k, p, path, argv, size) ==
    LET at == namei(begin_op(k), p, path)
        ip == at.r
        in == ilock(at.k, ip)
        elf == readi(in, p, ip, FALSE, 0, 0, 1)
        pt == proc_pagetable(in, k.proc[p].trapframe)
        img == LoadFrom(pt.k, p, ip, pt.r, 0, 1, elf.data[1][1])
        read == end_op(iunlockput(img.k, ip))
        top == PGROUNDUP(img.sz)
        stk == uvmalloc(read, pt.r, top, top + (USERSTACK + 1) * PGSIZE, {"W"})
        guarded == uvmclear(stk.k, pt.r, VPage(stk.r) - (USERSTACK + 1))
        push == copyout(guarded, p, pt.r, stk.r - size, Zeroes, size)
        new == [push.k EXCEPT !.proc[p].pagetable = pt.r, !.proc[p].sz = stk.r]
        text == new.mem[walkaddr(new, pt.r, 0)][1][2]
        bad(kk) == Ret(end_op(iunlockput(kk, ip)), -1)
    IN IF ip = 0 THEN Ret(end_op(at.k), -1)
       ELSE IF elf.r # 1 \/ elf.data[1][2] # "ELF" THEN bad(in)
       ELSE IF pt.r = 0 THEN bad(pt.k)
       ELSE IF img.r < 0 THEN bad(proc_freepagetable(img.k, pt.r, img.sz))
       ELSE IF stk.r = 0 THEN Ret(proc_freepagetable(stk.k, pt.r, top), -1)
       ELSE IF size > USERSTACK * PGSIZE \/ push.r < 0
            THEN Ret(proc_freepagetable(guarded, pt.r, stk.r), -1)
       ELSE Ret([proc_freepagetable(new, k.proc[p].pagetable, k.proc[p].sz)
                 EXCEPT !.proc[p].user = Start(text, argv)], Len(argv))

-----------------------------------------------------------------------------
(* kernel/syscall.c and the rest of sysfile.c and sysproc.c *)

fetchaddr(k, p, addr) ==
    IF addr >= k.proc[p].sz \/ addr + 1 > k.proc[p].sz THEN Ret(k, -1)
    ELSE copyin(k, p, k.proc[p].pagetable, addr, 1)

RECURSIVE FetchArgs(_, _, _, _, _)
FetchArgs(k, p, uargv, args, pages) ==
    LET i == Len(pages)
        a == fetchaddr(k, p, uargv + i)
        m == kalloc(a.k)
    IN IF i >= MAXARG \/ a.r < 0 THEN [k |-> a.k, r |-> -1, pages |-> pages]
       ELSE IF i = Len(args) THEN [k |-> a.k, r |-> 0, pages |-> pages]
       ELSE IF m.r = 0 THEN [k |-> m.k, r |-> -1, pages |-> pages]
       ELSE IF argstr(m.k, p, args[i + 1]) < 0
            THEN [k |-> m.k, r |-> -1, pages |-> Append(pages, m.r)]
       ELSE FetchArgs(m.k, p, uargv, args, Append(pages, m.r))

(* Each string and the array of pointers take a unit of the stack at       *)
(* least; a string longer than that says so in size.                       *)
ArgvSize(args) == FoldLeft(LAMBDA n, a : n + a.size, 1, args)

\* Mutant: the copies of the arguments fetched before a bad one are not freed.
sys_exec_leaks(k, p, str, uargv, args) ==
    LET got == FetchArgs(k, p, uargv, args, <<>>)
        done == kexec(got.k, p, str.path, [a \in DOMAIN args |-> Last(args[a].path)],
                      ArgvSize(args))
        free(kk) == FoldLeft(LAMBDA k1, pa : kfree(k1, pa), kk, got.pages)
    IN IF argstr(k, p, str) < 0 THEN Ret(k, -1)
       ELSE IF got.r < 0 THEN Ret(got.k, -1)
       ELSE Ret(free(done.k), done.r)

sys_exec(k, p, str, uargv, args) ==
    LET got == FetchArgs(k, p, uargv, args, <<>>)
        done == kexec(got.k, p, str.path, [a \in DOMAIN args |-> Last(args[a].path)],
                      ArgvSize(args))
        free(kk) == FoldLeft(LAMBDA k1, pa : kfree(k1, pa), kk, got.pages)
    IN IF argstr(k, p, str) < 0 THEN Ret(k, -1)
       ELSE IF got.r < 0 THEN Ret(free(got.k), -1)
       ELSE Ret(free(done.k), done.r)

sys_sbrk(k, p, n, eager) ==
    LET addr == k.proc[p].sz
        grown == growproc(k, p, n)
    IN IF eager \/ n < 0
       THEN IF grown.r < 0 THEN Ret(grown.k, -1) ELSE Ret(grown.k, addr)
       ELSE IF addr + n > TRAPFRAME THEN Ret(k, -1)
       ELSE Ret([k EXCEPT !.proc[p].sz = @ + n], addr)

(* A user load (data << >>) or store, and the page fault it may take       *)
(* (scause 13 or 15).                                                      *)
access(k, p, va, data) ==
    LET pt == k.proc[p].pagetable
        pa == walkaddr(k, pt, VPage(va))
        perm == IF data = <<>> THEN "R" ELSE "W"
        fault == vmfault(k, p, pt, va)
        touch(kk, at) == IF data = <<>> THEN kk ELSE [kk EXCEPT !.mem[at] = data]
    IN IF pa # 0 /\ perm \in Pte(k, pt, VPage(va)).perm THEN Data(touch(k, pa), 0, k.mem[pa])
       ELSE IF fault.r # 0 THEN Data(touch(fault.k, fault.r), 0, fault.k.mem[fault.r])
       ELSE Data([fault.k EXCEPT !.proc[p].killed = TRUE], -1, <<>>)

(* pause() depends on the clock alone: it returns when the model takes its *)
(* step, any time later.  A program that calls a number the table does not *)
(* have gets -1.  No program calls uptime(), which reads the clock.        *)
syscall(k, p, i) ==
    LET reg(r) == k.proc[p].user.reg[r]
    IN CASE i.op = "fork" -> kfork(k, p, i.child)
         [] i.op = "exit" -> Ret(kexit(k, p, IF i.reg = "" THEN i.n ELSE reg(i.reg)), 0)
         [] i.op = "wait" -> kwait(k, p, i.va)
         [] i.op = "pipe" -> sys_pipe(k, p, i.va)
         [] i.op = "read" -> sys_read(k, p, reg(i.fd), i.va, i.n)
         [] i.op = "kill" -> kkill(k, reg(i.reg))
         [] i.op = "exec" -> sys_exec(k, p, i.path, i.va, i.args)
         [] i.op = "fstat" -> sys_fstat(k, p, reg(i.fd), i.va)
         [] i.op = "chdir" -> sys_chdir(k, p, i.path)
         [] i.op = "dup" -> sys_dup(k, p, reg(i.fd))
         [] i.op = "getpid" -> Ret(k, k.proc[p].pid)
         [] i.op = "sbrk" -> sys_sbrk(k, p, i.n, i.eager)
         [] i.op = "sbrkto" -> sys_sbrk(k, p, i.va - k.proc[p].sz, TRUE)
         [] i.op = "pause" -> Ret(k, 0)
         [] i.op = "open" -> sys_open(k, p, i.path, i.mode)
         [] i.op = "write" -> sys_write(k, p, reg(i.fd), i.va, i.data)
         [] i.op = "writearg" ->
                sys_write(k, p, reg(i.fd), i.va, << <<0, k.proc[p].user.argv[i.n]>> >>)
         [] i.op = "mknod" -> sys_mknod(k, p, i.path, i.n)
         [] i.op = "unlink" -> sys_unlink(k, p, i.path)
         [] i.op = "link" -> sys_link(k, p, i.path, i.new)
         [] i.op = "mkdir" -> sys_mkdir(k, p, i.path)
         [] i.op = "close" -> sys_close(k, p, reg(i.fd))
         [] i.op = "load" -> access(k, p, i.va, <<>>)
         [] i.op = "store" -> access(k, p, i.va, i.data)
         [] i.op = "spin" -> Ret(k, Asleep)
         [] OTHER -> Ret(k, -1)

-----------------------------------------------------------------------------
(* kernel/trap.c *)

Within(r, interval) == r \in interval.lo .. interval.hi

(* What the program keeps of a result: descriptors, pids, exit statuses,   *)
(* how much it has read.                                                   *)
Count(data, name) == Cardinality({n \in DOMAIN data : data[n][2] = name})

Keep(reg, i, res) ==
    LET new == IF i.dst = "" THEN reg ELSE (i.dst :> res.r) @@ reg
    IN CASE i.op = "pipe" /\ res.r = 0 ->
                (i.ends[1] :> res.data[1][1]) @@ (i.ends[2] :> res.data[2][1]) @@ reg
         [] i.op = "wait" /\ res.r > 0 /\ i.va # 0 -> ("x" :> res.data[1][1]) @@ new
         [] i.op = "read" /\ res.r > 0 ->
                [r \in DOMAIN i.tally |-> reg[r] + Count(res.data, i.tally[r])]
                    @@ ("total" :> reg.total + res.r) @@ new
         [] OTHER -> new

Accepted(reg, i, res) ==
    /\ Within(res.r, i.chk)
    /\ i.want = {} \/ res.data \in i.want
    /\ i.stream = <<>> \/ res.r <= 0
          \/ res.data = SubSeq(i.stream, reg.total + 1, reg.total + res.r)

Library == Code     \* a definition of its own is evaluated once
Program(k, p) == Library[k.proc[p].user.prog][k.proc[p].user.label]
AtEnd(k, p) == k.proc[p].user.pc > Len(Program(k, p))
Instr(k, p) == Program(k, p)[k.proc[p].user.pc]
Jump(k, p, label, pc) == [k EXCEPT !.proc[p].user = [@ EXCEPT !.label = label, !.pc = pc]]

(* What the program does by itself, up to its next trap: branches, and     *)
(* checks of its registers that lead to exit(1).                           *)
RECURSIVE Compute(_, _)
Compute(k, p) ==
    LET u == k.proc[p].user
        i == Instr(k, p)
        on == Jump(k, p, u.label, u.pc + 1)
    IN IF AtEnd(k, p) THEN k
       ELSE CASE i.op = "set" -> Compute([on EXCEPT !.proc[p].user.reg =
                                             (i.reg :> i.n) @@ @], p)
              [] i.op = "if" -> IF Within(u.reg[i.reg], i.in)
                                THEN Compute(Jump(k, p, i.label, 1), p) ELSE Compute(on, p)
              [] i.op = "same" -> IF u.reg[i.reg] = u.reg[i.other]
                                  THEN Compute(on, p) ELSE Jump(k, p, "fail", 1)
              [] OTHER -> k

(* Back in user space with a result: on, round the loop, or exit(1).       *)
Resume(k, p, i, res) ==
    LET u == k.proc[p].user
        pc == IF Within(res.r, i.until) THEN u.pc + 1 ELSE u.pc
    IN IF i.op = "exec" /\ res.r >= 0 THEN k
       ELSE IF ~Accepted(u.reg, i, res) THEN kexit(k, p, 1)
       ELSE Compute([k EXCEPT !.proc[p].user =
                        [u EXCEPT !.pc = pc, !.reg = Keep(@, i, res)]], p)

(* The text page is there to fetch the next instruction from.              *)
Fetchable(k, p) ==
    LET pt == k.proc[p].pagetable
    IN walkaddr(k, pt, 0) # 0 /\ "X" \in Pte(k, pt, 0).perm

InCall == "in call"

(* One trap of p: the next system call or faulting instruction, to where   *)
(* the program goes on.  A program that ends calls exit(0).  pick is where *)
(* it goes when it decides at random.  A process that has been killed      *)
(* exits before its next call, or, with pick = InCall, was asleep in the   *)
(* call and goes on with it first.                                         *)
usertrap(k, p, pick) ==
    LET i == Instr(k, p)
        res == syscall(k, p, i)
    IN IF (k.proc[p].killed /\ pick # InCall) \/ ~Fetchable(k, p) THEN kexit(k, p, -1)
       ELSE IF AtEnd(k, p) THEN kexit(k, p, 0)
       ELSE IF i.op = "choose"
            THEN Compute([Jump(k, p, pick, 1) EXCEPT !.proc[p].user.reg["left"] = @ - 1], p)
       ELSE IF res.r = Asleep \/ res.k.proc[p].state = "ZOMBIE" THEN res.k
       ELSE IF res.k.proc[p].killed THEN kexit(res.k, p, -1)
       ELSE Resume(res.k, p, i, res)
=============================================================================
