---------------------------- MODULE ProcessTests ----------------------------
(***************************************************************************)
(* The tests of user/usertests.c about processes and pipes, under          *)
(* src/platform/visionfive2, as programs for module Kernel.  See UserTests *)
(* for how they are scaled.                                                *)
(***************************************************************************)
EXTENDS UserPrograms

leaf == [leaf |-> <<Exit(0)>>]     \* a child that exits at once

-----------------------------------------------------------------------------
(* Pipes and preemption *)

(* Two writes, each twice what the pipe holds; the reader asks for more    *)
(* each time, up to what its buffer holds.                                 *)
pipe1 ==
    LET SZ == 2 * PIPESIZE
        Seq1 == [i \in 1 .. N * SZ |-> <<i % 4, "seq">>]
        From(n) == [until |-> Whatever] @@ ReadStream("r", n, Seq1)
    IN [main |-> <<PipeInto("r", "w"), Fork("child", "", Ok), Close("w"),
                   From(1), From(2), ReadStream("r", 4, Seq1)>>
                 \o Expect("total", N * SZ) \o <<Close("r"), WaitX, ExitStatus>>,
        child |-> <<Close("r")>> \o For(N, LAMBDA n :
            <<Write("w", SubSeq(Seq1, (n - 1) * SZ + 1, n * SZ), Is(SZ))>>)]

killstatus ==
    [main |-> For(N, LAMBDA i : <<Fork("child", "pid", Ok), Pause, Kill("pid", Whatever),
                                  WaitStatus(-1)>>),
     child |-> <<Repeat(Getpid(""), Err)>>]

preempt ==
    [main |-> <<Fork("spin", "pid1", Ok), Fork("spin", "pid2", Ok),
                PipeAt(BufVa, "r", "w", Whatever), Fork("writer", "pid3", Ok),
                Close("w"), Read("r", BSIZE, Is(1)), Close("r"),
                Kill("pid1", Whatever), Kill("pid2", Whatever), Kill("pid3", Whatever),
                Wait(Whatever), Wait(Whatever), Wait(Whatever)>>,
     spin |-> <<Spin>>,
     writer |-> <<Close("r"), Write("w", Bytes(1, "x"), Whatever), Close("w"), Spin>>]

-----------------------------------------------------------------------------
(* fork(), exit() and wait() *)

exitwait ==
    [main |-> For(N, LAMBDA i :
        <<Fork(Names[i], "pid", Ok), WaitPid(StackVa, "got"), Same("got", "pid")>>
        \o Expect("x", i))]
    @@ ByName(N, LAMBDA i : <<Exit(i)>>)

reparent ==
    [main |-> <<Getpid("master")>>
              \o For(N, LAMBDA i : <<Fork("child", "pid", Ok), WaitPid(0, "got"),
                                     Same("got", "pid")>>),
     child |-> <<Fork("leaf", "pid2", Whatever), If("pid2", Ok, "leaf"),
                 Kill("master", Whatever), Exit(1)>>]
    @@ leaf

twochildren ==
    [main |-> For(N, LAMBDA i : <<Fork("leaf", "", Ok), Fork("leaf", "", Ok),
                                  Wait(Whatever), Wait(Whatever)>>)]
    @@ leaf

forkfork ==
    [main |-> <<Fork("child", "", Ok), Fork("child", "", Ok), WaitStatus(0), WaitStatus(0)>>,
     child |-> For(N, LAMBDA i : <<Fork("leaf", "", Ok), Wait(Whatever)>>)]
    @@ leaf

(* left bounds the generations.                                            *)
forkforkfork ==
    LET Stop == <<Open(<<"stopforking">>, CreateRW, "fd", Whatever), Close("fd")>>
    IN [main |-> <<Unlink(<<"stopforking">>, Whatever), SetReg("left", N),
                   Fork("child", "", Ok), Pause>>
                 \o Stop \o <<Wait(Whatever), Pause>>,
        child |-> <<Open(<<"stopforking">>, RDONLY, "fd", Whatever), If("fd", Ok, "leaf"),
                    If("left", NotPositive, "child"), Choose({"again"})>>,
        again |-> <<Fork("child", "pid", Whatever), If("pid", Ok, "child")>>
                  \o Stop \o <<Goto("child")>>]
       @@ leaf

(* One round of the loop.                                                  *)
reparent2 ==
    [main |-> <<Fork("child", "", Ok), Wait(Whatever)>>,
     child |-> <<Fork("second", "", Whatever), Fork("leaf", "", Whatever)>>,
     second |-> <<Fork("leaf", "", Whatever)>>]
    @@ leaf

(* One slot is init's, one the driver's and one the test's.                *)
forktest ==
    LET n == NPROC - 3
    IN [main |-> For(n, LAMBDA i : <<Fork("leaf", "", Ok)>>) \o <<Fork("leaf", "", Err)>>
                 \o For(n, LAMBDA i : <<Wait(Ok)>>) \o <<Wait(Err)>>]
       @@ leaf

-----------------------------------------------------------------------------
(* Several processes in the file system *)

sharedfd ==
    LET SZ == 2
        Fill(c) == For(N, LAMBDA i : <<Write("fd", Bytes(SZ, c), Is(SZ))>>)
    IN [main |-> <<Unlink(<<"sharedfd">>, Whatever),
                   Open(<<"sharedfd">>, CreateRW, "fd", Ok), Fork("child", "", Whatever)>>
                 \o Fill("p")
                 \o <<WaitX, If("x", Is(0), "check"), ExitStatus>>,
        child |-> Fill("c"),
        check |-> <<Close("fd"), Open(<<"sharedfd">>, RDONLY, "fd", Ok),
                    SetReg("nc", 0), SetReg("np", 0),
                    ReadTally("fd", SZ, [nc |-> "c", np |-> "p"]),
                    Close("fd"), Unlink(<<"sharedfd">>, Whatever)>>
                  \o Expect("nc", N * SZ) \o Expect("np", N * SZ)]

fourfiles ==
    LET SZ == BSIZE - 1
    IN [main |-> For(N, LAMBDA i : <<Unlink(<<Names[i]>>, Whatever), Fork(Names[i], "", Ok)>>)
                 \o For(N, LAMBDA i : <<WaitStatus(0)>>)
                 \o For(N, LAMBDA i :
                        <<Open(<<Names[i]>>, RDONLY, "fd", Whatever), SetReg("total", 0),
                          ReadStream("fd", BSIZE, Bytes(N * SZ, Names[i])), Close("fd")>>
                        \o Expect("total", N * SZ) \o <<Unlink(<<Names[i]>>, Whatever)>>)]
       @@ ByName(N, LAMBDA i :
            <<Open(<<Names[i]>>, CreateRW, "fd", Ok)>>
            \o For(N, LAMBDA j : <<Write("fd", Bytes(SZ, Names[i]), Is(SZ))>>))

(* Three files for each child, the second of which it deletes.             *)
createdelete ==
    LET Files == << <<"p0", "p1", "p2">>, <<"q0", "q1", "q2">> >>
        Make(name) == <<Open(<<name>>, CreateRW, "fd", Ok), Close("fd")>>
    IN [main |-> For(2, LAMBDA c : <<Fork(Names[c], "", Ok)>>)
                 \o For(2, LAMBDA c : <<WaitStatus(0)>>)
                 \o For(3, LAMBDA i : For(2, LAMBDA c :
                        <<Open(<<Files[c][i]>>, RDONLY, "fd", IF i = 2 THEN Err ELSE Ok),
                          Close("fd")>>))
                 \o For(3, LAMBDA i : For(2, LAMBDA c : <<Unlink(<<Files[c][i]>>, Whatever)>>))]
       @@ ByName(2, LAMBDA c :
            For(3, LAMBDA i : Make(Files[c][i])) \o <<Unlink(<<Files[c][2]>>, Ok)>>)

(* As many files as it takes for each of the four ways to make one: both   *)
(* link, one of the two links, none does.                                  *)
concreate ==
    LET C == <<"C0", "C1", "C2", "C3", "C4", "C5", "C6">>
        file(i) == <<C[i + 1]>>
        Make(i, links) == IF links THEN <<Link(<<"C0">>, file(i), Whatever)>>
                          ELSE <<Open(file(i), CreateRW, "fd", Ok), Close("fd")>>
        Touch(i, opens) == For(N, LAMBDA j :
            IF opens THEN <<Open(file(i), RDONLY, "fd", Whatever), Close("fd")>>
            ELSE <<Unlink(file(i), Whatever)>>)
        Each(body(_)) == For(7, LAMBDA i : body(i - 1))
        makers == <<"make0", "make1", "make2", "make3", "make4", "make5", "make6">>
        touchers == <<"touch0", "touch1", "touch2", "touch3", "touch4", "touch5", "touch6">>
        At1(label, s) == CHOOSE i \in 0 .. 6 : s[i + 1] = label
    IN [main |->
        Each(LAMBDA i : <<Unlink(file(i), Whatever), Fork(makers[i + 1], "", Whatever)>>
                        \o Make(i, i % 3 = 1) \o <<WaitStatus(0)>>)
        \o For(7, LAMBDA i : <<SetReg(C[i], 0)>>)
        \o <<Open(<<".">>, RDONLY, "fd", Whatever),
             ReadTally("fd", 1, [name \in {C[i] : i \in 1 .. 7} |-> name]), Close("fd")>>
        \o For(7, LAMBDA i : Expect(C[i], 1))
        \o Each(LAMBDA i : <<Fork(touchers[i + 1], "", Ok)>> \o Touch(i, i % 3 = 1)
                           \o <<Wait(Whatever)>>)]
    @@ [l \in {makers[i] : i \in 1 .. 7} |-> Make(At1(l, makers), At1(l, makers) % 5 = 1)]
    @@ [l \in {touchers[i] : i \in 1 .. 7} |->
            Touch(At1(l, touchers), At1(l, touchers) % 3 = 0)]

(* The test's pseudo-random numbers are any numbers here.                  *)
linkunlink ==
    LET Loop == <<Again("pick"), If("parent", Is(1), "reap"), Exit(0)>>
        Pick == Choose({"create", "link", "unlink"})
    IN [main |-> <<Unlink(<<"x">>, Whatever), SetReg("parent", 0), SetReg("left", N),
                   Fork("pick", "", Ok), SetReg("parent", 1), Pick>>,
        pick |-> <<Pick>>,
        create |-> <<Open(<<"x">>, CreateRW, "fd", Whatever), Close("fd")>> \o Loop,
        link |-> <<Link(<<"cat">>, <<"x">>, Whatever)>> \o Loop,
        unlink |-> <<Unlink(<<"x">>, Whatever)>> \o Loop,
        reap |-> <<Wait(Whatever)>>]

(* Each child writes its file as often per round as its number says.       *)
manywrites ==
    [main |-> For(N, LAMBDA c : <<Fork(Names[c], "", Ok)>>)
              \o For(N, LAMBDA c : <<WaitStatus(0)>>)]
    @@ ByName(N, LAMBDA c :
        <<Unlink(<<Names[c]>>, Whatever)>>
        \o For(N, LAMBDA iters :
            For(c, LAMBDA i : <<Open(<<Names[c]>>, CreateRW, "fd", Ok),
                                Write("fd", Bytes(BSIZE + 1, "m"), Is(BSIZE + 1)),
                                Close("fd")>>)
            \o <<Unlink(<<Names[c]>>, Whatever)>>)
        \o <<Unlink(<<Names[c]>>, Whatever)>>)
=============================================================================
