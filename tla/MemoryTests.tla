---------------------------- MODULE MemoryTests -----------------------------
(***************************************************************************)
(* The tests of user/usertests.c about addresses, sbrk() and exec(),       *)
(* under src/platform/visionfive2, as programs for module Kernel.  See     *)
(* UserTests for how they are scaled.                                      *)
(***************************************************************************)
EXTENDS UserPrograms

-----------------------------------------------------------------------------
(* Addresses a program does not have *)

copyin == [main |-> ForEach(WildVas, LAMBDA va :
    <<Open(<<"copyin1">>, CreateW, "fd", Ok),
      WriteAt("fd", va, Bytes(2 * PGSIZE, "x"), Err),
      Close("fd"),
      Unlink(<<"copyin1">>, Whatever),
      WriteAt("stdout", va, Bytes(2 * PGSIZE, "x"), NotPositive),
      PipeInto("r", "w"),
      WriteAt("w", va, Bytes(2 * PGSIZE, "x"), NotPositive),
      Close("r"),
      Close("w")>>)]

copyout == [main |-> ForEach(<<0>> \o WildVas, LAMBDA va :
    <<Open(<<"README">>, RDONLY, "fd", Ok),
      ReadAt("fd", va, 2 * PGSIZE, NotPositive),
      Close("fd"),
      PipeInto("r", "w"),
      Write("w", Bytes(1, "x"), Is(1)),
      ReadAt("r", va, 2 * PGSIZE, NotPositive),
      Close("r"),
      Close("w")>>)]

copyinstr1 == [main |-> ForEach(WildVas, LAMBDA va :
    <<[Open(<<"x">>, CreateW, "", Err) EXCEPT !.path = At(va, <<"x">>)]>>)]

(* The four calls that take a string, with one that must not be accepted.  *)
BadString(str) ==
    <<[Unlink(<<"x">>, Err) EXCEPT !.path = str],
      [Open(<<"x">>, CreateW, "", Err) EXCEPT !.path = str],
      [Link(<<"x">>, <<"x">>, Err) EXCEPT !.path = str, !.new = str],
      [Exec(<<"x">>, <<Str(<<"xx">>)>>, Err) EXCEPT !.path = str]>>

copyinstr2 ==
    LET b == [Str(<<"x">>) EXCEPT !.toolong = TRUE]
    IN [main |-> BadString(b) \o <<Fork("child", "", Ok), WaitStatus(747)>>,
        child |-> <<Exec(<<"echo">>, <<b, b, b>>, Err), Exit(747)>>]

copyinstr3 ==
    LET top == HeapVa + 2 * PGSIZE
        b == [At(top - 1, <<"x">>) EXCEPT !.crosses = TRUE]
    IN [main |-> <<Sbrk(2 * PGSIZE, Ok), Sbrk(0, Is(top)), Store(top - 1, Bytes(1, "x"))>> \o BadString(b)]

rwsbrk == [main |->
    <<Sbrk(2 * PGSIZE, Is(HeapVa)),
      Sbrk(-(2 * PGSIZE), Ok),
      Open(<<"rwsbrk">>, CreateW, "fd", Ok),
      WriteAt("fd", HeapVa + PGSIZE, Bytes(2, "x"), Err),
      Close("fd"),
      Unlink(<<"rwsbrk">>, Whatever),
      Open(<<"README">>, RDONLY, "fd", Ok),
      ReadAt("fd", HeapVa + PGSIZE, 2, Err),
      Close("fd")>>]

validatetest == [main |-> For(8, LAMBDA i :
    <<[Link(<<"nosuchfile">>, <<"x">>, Err) EXCEPT !.new = At((i - 1) * PGSIZE, <<"x">>)]>>)]

argptest == [main |-> <<Open(<<"init">>, RDONLY, "fd", Ok),
                        ReadAt("fd", HeapVa - 1, Huge, Whatever), Close("fd")>>]

(* Children that must be killed for what they do, one for each address.    *)
Killed(vas, touch(_)) ==
    [main |-> For(Len(vas), LAMBDA i : <<Fork(Names[i], "", Ok), WaitStatus(-1)>>)]
    @@ ByName(Len(vas), LAMBDA i : <<touch(vas[i]), Exit(1)>>)

kernmem == Killed(<<KernBase, KernBase + PGSIZE>>, LoadAny)

MAXVAplus == Killed(<<MaxVa, Huge>>, LAMBDA va : Store(va, Bytes(1, "99")))

nowrite ==
    LET vas == <<0>> \o WildVas
    IN [main |-> For(Len(vas), LAMBDA i :
            <<Fork(Names[i], "", Ok), WaitX, If("x", Is(0), "fail")>>)]
       @@ ByName(Len(vas), LAMBDA i : <<Store(vas[i], Bytes(1, "10"))>>)

stacktest ==
    [main |-> <<Fork("child", "", Ok), WaitX, If("x", Is(-1), "ok"), ExitStatus>>,
     child |-> <<LoadAny(GuardVa), Exit(1)>>,
     ok |-> <<Exit(0)>>]

pgbug == [main |-> <<[Exec(<<"x">>, <<>>, Whatever) EXCEPT !.path = At(Huge, <<"x">>)],
                     PipeAt(Huge, "r", "w", Whatever)>>]

badarg == [main |-> For(N, LAMBDA i : <<Exec(<<"echo">>, <<At(Huge, <<"x">>)>>, Whatever)>>)]

bsstest == [main |-> <<Load(BufVa, <<>>), Load(BufVa + PGSIZE, <<>>)>>]

(* Arguments that do not fit on the stack.                                 *)
bigargtest ==
    LET big == [Str(<<"big">>) EXCEPT !.size = PGSIZE \div (MAXARG - 1) + 1]
    IN [main |-> <<Unlink(<<"bigarg-ok">>, Whatever), Fork("child", "", Ok), WaitStatus(0),
                   Open(<<"bigarg-ok">>, RDONLY, "fd", Ok), Close("fd")>>,
        child |-> <<Exec(<<"echo">>, [i \in 1 .. MAXARG - 1 |-> big], Whatever),
                    Open(<<"bigarg-ok">>, Create, "fd", Whatever), Close("fd")>>]

-----------------------------------------------------------------------------
(* Growing and shrinking *)

SbrkInto(n, dst) == [Sbrk(n, Whatever) EXCEPT !.dst = dst]
TooMuch == MaxVa \div 2       \* more than there is memory

(* malloc() asks for memory until there is none, and free() keeps it.      *)
mem ==
    [main |-> <<Fork("child", "", Whatever), WaitX, If("x", Is(-1), "ok"), ExitStatus>>,
     child |-> <<Repeat(Sbrk(4 * PGSIZE, Whatever), Err), Store(HeapVa, Bytes(1, "m"))>>,
     ok |-> <<Exit(0)>>]

sbrkbasic ==
    LET Bytes5000 == PGSIZE + 1
        top == HeapVa + Bytes5000
    IN [main |->
            <<Fork("child", "", Ok), WaitX, If("x", Is(1), "fail"), Sbrk(0, Is(HeapVa))>>
            \o For(Bytes5000, LAMBDA i : <<Sbrk(1, Is(HeapVa + i - 1)),
                                           Store(HeapVa + i - 1, Bytes(1, "1"))>>)
            \o <<Fork("forked", "", Ok), Sbrk(1, Whatever), Sbrk(1, Is(top + 1)),
                 WaitX, ExitStatus>>,
        child |-> <<SbrkInto(TooMuch, "a"), If("a", Err, "ok"),
                    Store(HeapVa, Bytes(1, "99")), Exit(1)>>,
        forked |-> <<Sbrk(1, Whatever), Sbrk(1, Is(top + 1)), Exit(0)>>,
        ok |-> <<Exit(0)>>]

sbrkmuch ==
    LET BIG == HeapVa + 10 * PGSIZE
    IN [main |->
        <<Sbrk(0, Is(HeapVa)), SbrkTo(BIG, Is(HeapVa)), Store(BIG - 1, Bytes(1, "99")),
          Sbrk(-PGSIZE, Ok), Sbrk(0, Is(BIG - PGSIZE)), Sbrk(PGSIZE, Is(BIG - PGSIZE)),
          Sbrk(0, Is(BIG)), Load(BIG - 1, <<>>), SbrkTo(HeapVa, Is(BIG))>>]

(* The first child takes so much that what the second asks for fails, and  *)
(* must leave the page that its parent asks for after that.                *)
sbrkfail ==
    LET BIG == HeapVa + 28 * PGSIZE
        pids == <<"pid1", "pid2">>
    IN [main |->
            <<PipeInto("r", "w")>>
            \o ForEach(pids, LAMBDA pid : <<Fork("hog", pid, Ok), Read("r", 1, Whatever)>>)
            \o <<SbrkInto(PGSIZE, "c")>>
            \o ForEach(pids, LAMBDA pid : <<Kill(pid, Whatever), Wait(Whatever)>>)
            \o <<If("c", Err, "fail"), Fork("lot", "", Ok), WaitStatus(0)>>,
        hog |-> <<[SbrkTo(BIG, Whatever) EXCEPT !.dst = "a"], If("a", Err, "hog0"),
                  Write("w", Bytes(1, "1"), Whatever), Spin>>,
        hog0 |-> <<Write("w", Bytes(1, "0"), Whatever), Spin>>,
        lot |-> <<SbrkInto(TooMuch, "a"), If("a", Err, "ok"), Exit(1)>>,
        ok |-> <<Exit(0)>>]

sbrkarg == [main |->
    <<Sbrk(PGSIZE, Whatever), Open(<<"sbrk">>, CreateW, "fd", Ok), Unlink(<<"sbrk">>, Whatever),
      WriteAt("fd", HeapVa, Bytes(PGSIZE, "s"), Ok), Close("fd"), Sbrk(PGSIZE, Whatever),
      PipeAt(HeapVa + PGSIZE, "r", "w", Is(0))>>]

(* To nothing, into the first page, and by less than a page.               *)
sbrkbugs ==
    [main |-> <<Fork("all", "", Ok), Wait(Whatever), Fork("first", "", Ok), Wait(Whatever),
                Fork("bit", "", Ok), Wait(Whatever)>>,
     all |-> <<SbrkTo(0, Whatever), Exit(0)>>,
     first |-> <<SbrkTo(PGSIZE - 1, Whatever), Exit(0)>>,
     bit |-> <<SbrkTo(HeapVa + PGSIZE + 4, Whatever), Sbrk(-2, Whatever), Exit(0)>>]

sbrklast ==
    LET p == HeapVa + PGSIZE - 4
        At1 == [Open(<<"x">>, CreateRW, "fd", Whatever) EXCEPT !.path = At(p, <<"x">>)]
    IN [main |->
        <<Sbrk(PGSIZE, Whatever), Sbrk(2, Whatever), Sbrk(-4, Whatever), Store(p, Bytes(1, "x")),
          At1, WriteAt("fd", p, Bytes(1, "x"), Whatever), Close("fd"),
          [At1 EXCEPT !.mode = {"RDWR"}], Store(p, Bytes(1, "0")),
          ReadAt("fd", p, 1, Whatever), Load(p, Bytes(1, "x"))>>]

(* A size below zero wraps around.                                         *)
sbrk8000 == [main |-> <<Sbrk(4 - MaxVa, Whatever), Sbrk(0, Is(HeapVa)), LoadAny(HeapVa - 1),
                        Store(HeapVa - 1, Bytes(1, "1"))>>]

(* exec() with no memory, then a little more each time.                    *)
execout ==
    LET avails == <<0, 1, 2, 4, 8, 12>>
    IN [main |-> For(Len(avails), LAMBDA i : <<Fork(Names[i], "", Ok), Wait(Whatever)>>)]
       @@ ByName(Len(avails), LAMBDA i :
            <<Repeat(Sbrk(4 * PGSIZE, Whatever), Err), Repeat(Sbrk(PGSIZE, Whatever), Err),
              Store(HeapVa, Bytes(1, "1")), Sbrk(-(avails[i] * PGSIZE), Whatever),
              Close("stdout"), Exec(<<"echo">>, <<Str(<<"echo">>), Str(<<"x">>)>>, Whatever),
              Exit(0)>>)

-----------------------------------------------------------------------------
(* Lazy allocation *)

Region == 12 * PGSIZE
Touched == <<HeapVa + PGSIZE, HeapVa + 4 * PGSIZE, HeapVa + 9 * PGSIZE>>
TouchAll == For(3, LAMBDA i : <<Store(Touched[i], Bytes(1, Names[i]))>>)

lazy_alloc == [main |->
    <<Sbrklazy(Region, Is(HeapVa))>> \o TouchAll
    \o For(3, LAMBDA i : <<Load(Touched[i], Bytes(1, Names[i]))>>)]

lazy_unmap ==
    [main |-> <<Sbrklazy(Region, Is(HeapVa))>> \o TouchAll
        \o For(3, LAMBDA i : <<Fork(Names[i], "", Ok), WaitX, If("x", Is(0), "fail")>>)]
    @@ ByName(3, LAMBDA i : <<Sbrklazy(-Region, Whatever), Store(Touched[i], Bytes(1, "u"))>>)

lazy_copy ==
    LET top == HeapVa + 4 * PGSIZE
        lazy == [Open(<<"x">>, RDONLY, "", Whatever) EXCEPT !.path = At(HeapVa + 2, <<"x">>)]
        vas == <<Trapframe - 2 * PGSIZE, Trapframe - PGSIZE, Trapframe, Trampoline, MaxVa, Huge>>
    IN [main |-> <<Sbrklazy(4 * PGSIZE, Whatever), lazy, Sbrk(-(top + 1), Is(top))>>
        \o ForEach(vas, LAMBDA va :
            <<Open(<<"README">>, RDONLY, "fd", Ok), ReadAt("fd", va, BSIZE, Err), Close("fd"),
              Open(<<"junk">>, CreateRW \cup {"TRUNC"}, "fd", Ok),
              WriteAt("fd", va, Bytes(BSIZE, "j"), Err), Close("fd")>>)]

lazy_sbrk ==
    LET step == MaxVa \div 4
        p == HeapVa + 3 * step
        last == Trapframe - PGSIZE
    IN [main |->
        For(3, LAMBDA i : <<Sbrklazy(step, Ok), Sbrklazy(0, Is(HeapVa + i * step))>>)
        \o <<Sbrklazy(last - p, Is(p)), Sbrk(PGSIZE, Is(last)), Store(last, Bytes(1, "1")),
             Load(last, Bytes(1, "1")), Sbrk(1, Err), Sbrklazy(1, Err)>>]
=============================================================================
