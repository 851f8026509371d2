--------------------------- MODULE StressPrograms ---------------------------
(***************************************************************************)
(* The other programs of user/ under src/platform/visionfive2 that         *)
(* exercise the kernel, as programs for module Kernel: grind, stressfs,    *)
(* logstress, forphan, dorphan, zombie, and echo, which the tests run.     *)
(* Output is left out, and loops run N times.                              *)
(***************************************************************************)
EXTENDS UserPrograms

-----------------------------------------------------------------------------
(* user/echo.c with one argument *)

echo == [main |-> <<WriteArg("stdout", 2), Write("stdout", Bytes(1, "nl"), Whatever)>>]

-----------------------------------------------------------------------------
(* user/grind.c *)

(* What go() does for each number it draws that is about files; its case 0 *)
(* does nothing.                                                           *)
go_files ==
    LET Touch(path) == <<Open(path, CreateRW, "fd1", Whatever), Close("fd1")>>
    IN [w0 |-> <<>>,
        w1 |-> Touch(<<"grindir", "..", "a">>),
        w2 |-> Touch(<<"grindir", "..", "grindir", "..", "b">>),
        w3 |-> <<Unlink(<<"grindir", "..", "a">>, Whatever)>>,
        w4 |-> <<Chdir(<<"grindir">>, Is(0)), Unlink(<<"..", "b">>, Whatever),
                 Chdir(<<"/">>, Whatever)>>,
        w5 |-> <<Close("fd"), Open(<<"/", "grindir", "..", "a">>, CreateRW, "fd", Whatever)>>,
        w6 |-> <<Close("fd"),
                 Open(<<"/", ".", "grindir", ".", "..", "b">>, CreateRW, "fd", Whatever)>>,
        w7 |-> <<Write("fd", Bytes(BSIZE - 1, "g"), Whatever)>>,
        w8 |-> <<Read("fd", BSIZE - 1, Whatever)>>,
        w9 |-> <<Mkdir(<<"grindir", "..", "a">>, Whatever)>>
               \o Touch(<<"a", "..", "a", ".", "a">>) \o <<Unlink(<<"a", "a">>, Whatever)>>,
        w10 |-> <<Mkdir(<<"/", "..", "b">>, Whatever)>>
                \o Touch(<<"grindir", "..", "b", "b">>) \o <<Unlink(<<"b", "b">>, Whatever)>>,
        w11 |-> <<Unlink(<<"b">>, Whatever),
                  Link(<<"..", "grindir", ".", "..", "a">>, <<"..", "b">>, Whatever)>>,
        w12 |-> <<Unlink(<<"..", "grindir", "..", "a">>, Whatever),
                  Link(<<"..", ".", "b">>, <<"/", "grindir", "..", "a">>, Whatever)>>,
        w21 |-> <<Unlink(<<"c">>, Whatever), Open(<<"c">>, CreateRW, "fd1", Ok),
                  Write("fd1", Bytes(1, "x"), Is(1)),
                  FstatData("fd1", << <<1, "FILE">>, <<1, "">> >>),
                  Close("fd1"), Unlink(<<"c">>, Whatever)>>]

(* What it does about processes and memory, but for the cases with pipes,  *)
(* 19 and 22.                                                              *)
go_processes ==
    [w13 |-> <<Fork("leaf", "", Ok), Wait(Whatever)>>,
     w14 |-> <<Fork("tree", "", Ok), Wait(Whatever)>>,
     w15 |-> <<Sbrk(PGSIZE + 3, Whatever)>>,
     w16 |-> <<SbrkTo(HeapVa, Whatever)>>,
     w17 |-> <<Fork("open", "pid", Ok), Chdir(<<"..", "grindir", "..">>, Is(0)),
               Kill("pid", Whatever), Wait(Whatever)>>,
     w18 |-> <<Fork("suicide", "", Ok), Wait(Whatever)>>,
     w20 |-> <<Fork("orphan", "", Ok), Wait(Whatever)>>]

(* The children of these.                                                  *)
go_children ==
    [leaf |-> <<Exit(0)>>,
     tree |-> <<Fork("branch", "", Whatever), Fork("leaf", "", Whatever)>>,
     branch |-> <<Fork("leaf", "", Whatever)>>,
     open |-> <<Open(<<"a">>, CreateRW, "fd1", Whatever), Close("fd1")>>,
     suicide |-> <<Getpid("pid"), Kill("pid", Whatever)>>,
     orphan |-> <<Unlink(<<"a">>, Whatever), Mkdir(<<"a">>, Whatever),
                  Chdir(<<"a">>, Whatever), Unlink(<<"..", "a">>, Whatever),
                  Open(<<"x">>, CreateRW, "fd", Whatever), Unlink(<<"x">>, Whatever)>>]

(* iter(): two children in go(), of which each draws one case, from cases0 *)
(* or cases1.  main() goes round its loop once.                            *)
iter(cases0, cases1) ==
    LET go(cases) ==
            <<Mkdir(<<"grindir">>, Whatever), Chdir(<<"grindir">>, Is(0)),
              Chdir(<<"/">>, Whatever), SetReg("fd", -1), Choose(cases)>>
    IN go_files @@ go_processes @@ go_children
       @@ [main |-> <<Unlink(<<"a">>, Whatever), Unlink(<<"b">>, Whatever),
                      Fork("go0", "pid1", Ok), Fork("go1", "pid2", Ok), WaitX,
                      If("x", Is(0), "second"), Kill("pid1", Whatever), Kill("pid2", Whatever),
                      Goto("second")>>,
           second |-> <<Wait(Whatever), Exit(0)>>,
           go0 |-> go(cases0),
           go1 |-> go(cases1),
           run |-> <<Fork("main", "", Whatever), Wait(Whatever), Spin>>]

(* Calls about files meet those that name and unname a file or make a      *)
(* directory; those about processes have the machine to themselves.        *)
grind == iter(DOMAIN go_files, {"w4", "w6", "w9", "w10", "w11", "w12"})
grind_processes == iter(DOMAIN go_processes, {"w0"})

-----------------------------------------------------------------------------
(* user/stressfs.c with two processes, user/logstress.c with two files *)

stressfs ==
    LET Body(name) ==
            <<Open(<<name>>, CreateRW, "fd", Whatever)>>
            \o For(N, LAMBDA i : <<Write("fd", Bytes(BSIZE, "a"), Whatever)>>)
            \o <<Close("fd"), Open(<<name>>, RDONLY, "fd", Whatever)>>
            \o For(N, LAMBDA i : <<Read("fd", BSIZE, Whatever)>>)
            \o <<Close("fd"), Wait(Whatever)>>
    IN [main |-> <<Fork("s1", "", Ok)>> \o Body("stressfs0"), s1 |-> Body("stressfs1")]

logstress ==
    LET SZ == 2 * BSIZE
    IN [main |-> For(2, LAMBDA i : <<Fork(Names[i], "", Ok)>>)
                 \o For(2, LAMBDA i : <<WaitStatus(0)>>)]
       @@ ByName(2, LAMBDA i : <<Open(<<Names[i]>>, CreateRW, "fd", Ok)>>
            \o For(N, LAMBDA j : <<Write("fd", Bytes(SZ, Names[i]), Is(SZ))>>))

zombie == [main |-> <<Fork("leaf", "", Whatever), Pause>>, leaf |-> <<Exit(0)>>]

(* user/forphan.c, user/dorphan.c: until somebody kills them.              *)
forphan == [main |->
    <<Open(<<"file0">>, CreateW, "fd", Ok), FstatAt("fd", StackVa, Ok),
      Unlink(<<"file0">>, Ok), Open(<<"file0">>, RDONLY, "", Err), Spin>>]

dorphan == [main |->
    <<Mkdir(<<"dd">>, Is(0)), Chdir(<<"dd">>, Is(0)), Unlink(<<"..", "dd">>, Ok), Spin>>]
=============================================================================
