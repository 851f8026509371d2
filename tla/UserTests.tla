----------------------------- MODULE UserTests ------------------------------
(***************************************************************************)
(* user/usertests.c under src/platform/visionfive2, as programs for module *)
(* Kernel: the same calls in the same order with the same expectations.    *)
(* Sizes are scaled to the constants of the model (a test that fills a     *)
(* page, a block, a file or a table fills the model's), loops that repeat  *)
(* a body run it N times, and output is left out.                          *)
(***************************************************************************)
EXTENDS FileTests, MemoryTests, ProcessTests, StressPrograms

-----------------------------------------------------------------------------
(* Programs that tests run or that run them *)

(* user/init.c; its child execs the tests, not a shell that would.         *)
init ==
    [main |-> <<Open(<<"console">>, {"RDWR"}, "", Err), Mknod(<<"console">>, 1, Whatever),
                Open(<<"console">>, {"RDWR"}, "", Whatever), Dup("stdin", "", Whatever),
                Dup("stdin", "", Whatever), Fork("child", "", Ok), Repeat(Wait(Ok), Err)>>,
     child |-> <<Exec(<<"usertests">>, <<Str(<<"usertests">>)>>, Ok)>>]

(* run() of user/usertests.c, for the test at label main.                  *)
run == [run |-> <<Fork("main", "", Ok), WaitStatus(0), Spin>>, fail |-> <<Exit(1)>>]

(* quicktests and slowtests.                                               *)
Tests ==
    [copyin |-> copyin, copyout |-> copyout, copyinstr1 |-> copyinstr1,
     copyinstr2 |-> copyinstr2, copyinstr3 |-> copyinstr3, rwsbrk |-> rwsbrk,
     truncate1 |-> truncate1, truncate2 |-> truncate2, truncate3 |-> truncate3,
     iputtest |-> iputtest, exitiputtest |-> exitiputtest, openiputtest |-> openiputtest,
     opentest |-> opentest, writetest |-> writetest, writebig |-> writebig,
     createtest |-> createtest, dirtest |-> dirtest, exectest |-> exectest, pipe1 |-> pipe1,
     killstatus |-> killstatus, preempt |-> preempt, exitwait |-> exitwait,
     reparent |-> reparent, twochildren |-> twochildren, forkfork |-> forkfork,
     forkforkfork |-> forkforkfork, reparent2 |-> reparent2, mem |-> mem,
     sharedfd |-> sharedfd, fourfiles |-> fourfiles, createdelete |-> createdelete,
     unlinkread |-> unlinkread, linktest |-> linktest, concreate |-> concreate,
     linkunlink |-> linkunlink, subdir |-> subdir, bigwrite |-> bigwrite, bigfile |-> bigfile,
     fourteen |-> fourteen, rmdot |-> rmdot, dirfile |-> dirfile, iref |-> iref,
     forktest |-> forktest, sbrkbasic |-> sbrkbasic, sbrkmuch |-> sbrkmuch,
     kernmem |-> kernmem, MAXVAplus |-> MAXVAplus, sbrkfail |-> sbrkfail, sbrkarg |-> sbrkarg,
     validatetest |-> validatetest, bsstest |-> bsstest, bigargtest |-> bigargtest,
     argptest |-> argptest, stacktest |-> stacktest, nowrite |-> nowrite, pgbug |-> pgbug,
     sbrkbugs |-> sbrkbugs, sbrklast |-> sbrklast, sbrk8000 |-> sbrk8000, badarg |-> badarg,
     lazy_alloc |-> lazy_alloc, lazy_unmap |-> lazy_unmap, lazy_copy |-> lazy_copy,
     lazy_sbrk |-> lazy_sbrk, bigdir |-> bigdir, manywrites |-> manywrites,
     badwrite |-> badwrite, execout |-> execout, diskfull |-> diskfull,
     outofinodes |-> outofinodes]

(* What a shell runs: programs that end, and two that it kills.            *)
Stress == [grind |-> grind, grind_processes |-> grind_processes, stressfs |-> stressfs,
           logstress |-> logstress, zombie |-> zombie]
Sitters == [forphan |-> forphan, dorphan |-> dorphan]
runkill == [run |-> <<Fork("main", "pid", Ok), Pause, Kill("pid", Is(0)), WaitStatus(-1), Spin>>]

Programs == [t \in DOMAIN Tests |-> Tests[t] @@ run]
            @@ [t \in DOMAIN Stress |-> Stress[t] @@ run]
            @@ [t \in DOMAIN Sitters |-> Sitters[t] @@ runkill]
            @@ [echo |-> echo, init |-> init]
=============================================================================
