----------------------------- MODULE FileTests ------------------------------
(***************************************************************************)
(* The tests of user/usertests.c about files, directories and links,       *)
(* under src/platform/visionfive2, as programs for module Kernel.  See     *)
(* UserTests for how they are scaled.                                      *)
(***************************************************************************)
EXTENDS UserPrograms

-----------------------------------------------------------------------------
(* Truncation *)

truncate1 == [main |->
    <<Unlink(<<"truncfile">>, Whatever),
      Open(<<"truncfile">>, CreateW \cup {"TRUNC"}, "fd1", Whatever),
      Write("fd1", Bytes(4, "a"), Whatever),
      Close("fd1"),
      Open(<<"truncfile">>, RDONLY, "fd2", Whatever),
      Read("fd2", 2 * PGSIZE, Is(4)),
      Open(<<"truncfile">>, {"WRONLY", "TRUNC"}, "fd1", Whatever),
      Open(<<"truncfile">>, RDONLY, "fd3", Whatever),
      Read("fd3", 2 * PGSIZE, Is(0)),
      Read("fd2", 2 * PGSIZE, Is(0)),
      Write("fd1", Bytes(6, "b"), Whatever),
      ReadData("fd3", 2 * PGSIZE, Bytes(6, "b")),
      ReadData("fd2", 2 * PGSIZE, Bytes(2, "b")),
      Unlink(<<"truncfile">>, Whatever),
      Close("fd1"), Close("fd2"), Close("fd3")>>]

truncate2 == [main |->
    <<Unlink(<<"truncfile">>, Whatever),
      Open(<<"truncfile">>, CreateW \cup {"TRUNC"}, "fd1", Whatever),
      Write("fd1", Bytes(4, "a"), Whatever),
      Open(<<"truncfile">>, {"WRONLY", "TRUNC"}, "fd2", Whatever),
      Write("fd1", Bytes(1, "x"), Err),
      Unlink(<<"truncfile">>, Whatever),
      Close("fd1"), Close("fd2")>>]

truncate3 ==
    [main |->
        <<Open(<<"truncfile">>, CreateW \cup {"TRUNC"}, "fd", Whatever), Close("fd"),
          Fork("child", "", Ok)>>
        \o For(N, LAMBDA i :
            <<Open(<<"truncfile">>, CreateW \cup {"TRUNC"}, "fd", Ok),
              Write("fd", Bytes(1, "x"), Is(1)),
              Close("fd")>>)
        \o <<WaitX, Unlink(<<"truncfile">>, Whatever), ExitStatus>>,
     child |-> For(N, LAMBDA i :
        <<Open(<<"truncfile">>, {"WRONLY"}, "fd", Ok),
          Write("fd", Bytes(BSIZE + 1, "1"), Is(BSIZE + 1)),
          Close("fd"),
          Open(<<"truncfile">>, RDONLY, "fd", Whatever),
          Read("fd", 2 * PGSIZE, Whatever),
          Close("fd")>>)]

-----------------------------------------------------------------------------
(* Is the last iput() in a transaction? *)

IputDir == <<Mkdir(<<"iputdir">>, Ok), Chdir(<<"iputdir">>, Ok), Unlink(<<"..", "iputdir">>, Ok)>>

iputtest == [main |-> IputDir \o <<Chdir(<<"/">>, Ok)>>]

exitiputtest == [main |-> <<Fork("child", "", Ok), WaitX, ExitStatus>>, child |-> IputDir]

openiputtest ==
    [main |-> <<Mkdir(<<"oidir">>, Ok), Fork("child", "", Ok), Pause,
                Unlink(<<"oidir">>, Is(0)), WaitX, ExitStatus>>,
     child |-> <<Open(<<"oidir">>, {"RDWR"}, "", Err)>>]

-----------------------------------------------------------------------------
(* Simple file system tests *)

opentest == [main |-> <<Open(<<"echo">>, RDONLY, "fd", Ok), Close("fd"),
                        Open(<<"doesnotexist">>, RDONLY, "", Err)>>]

writetest == [main |->
    <<Open(<<"small">>, CreateRW, "fd", Ok)>>
    \o For(N, LAMBDA i : <<Write("fd", Bytes(3, "a"), Is(3)), Write("fd", Bytes(3, "b"), Is(3))>>)
    \o <<Close("fd"), Open(<<"small">>, RDONLY, "fd", Ok),
         Read("fd", N * 6, Is(N * 6)), Close("fd"), Unlink(<<"small">>, Ok)>>]

writebig == [main |->
    <<Open(<<"big">>, CreateRW, "fd", Ok)>>
    \o For(MaxFile, LAMBDA i : <<Write("fd", Bytes(BSIZE, Names[i]), Is(BSIZE))>>)
    \o <<Close("fd"), Open(<<"big">>, RDONLY, "fd", Ok)>>
    \o For(MaxFile, LAMBDA i : <<ReadData("fd", BSIZE, Bytes(BSIZE, Names[i]))>>)
    \o <<Read("fd", BSIZE, Is(0)), Close("fd"), Unlink(<<"big">>, Ok)>>]

createtest == [main |->
    For(N + 1, LAMBDA i : <<Open(<<Names[i]>>, CreateRW, "fd", Whatever), Close("fd")>>)
    \o For(N + 1, LAMBDA i : <<Unlink(<<Names[i]>>, Whatever)>>)]

dirtest == [main |-> <<Mkdir(<<"dir0">>, Ok), Chdir(<<"dir0">>, Ok), Chdir(<<"..">>, Ok),
                       Unlink(<<"dir0">>, Ok)>>]

exectest ==
    [main |-> <<Unlink(<<"echo-ok">>, Whatever), Fork("child", "", Ok), WaitStatus(0),
                Open(<<"echo-ok">>, RDONLY, "fd", Ok), ReadData("fd", 1, Bytes(1, "OK")),
                Unlink(<<"echo-ok">>, Whatever)>>,
     child |-> <<Dup("stdout", "errfd", Ok), Close("stdout"),
                 Open(<<"echo-ok">>, CreateW, "", Is(1)),
                 Exec(<<"echo">>, <<Str(<<"echo">>), Str(<<"OK">>)>>, Ok)>>]

-----------------------------------------------------------------------------
(* Links and directories *)

unlinkread == [main |->
    <<Open(<<"unlinkread">>, CreateRW, "fd", Ok), Write("fd", Bytes(5, "hello"), Whatever),
      Close("fd"), Open(<<"unlinkread">>, {"RDWR"}, "fd", Ok), Unlink(<<"unlinkread">>, Is(0)),
      Open(<<"unlinkread">>, CreateRW, "fd1", Whatever), Write("fd1", Bytes(3, "y"), Whatever),
      Close("fd1"), ReadData("fd", 2 * PGSIZE, Bytes(5, "hello")),
      Write("fd", Bytes(10, "hello"), Is(10)), Close("fd"), Unlink(<<"unlinkread">>, Whatever)>>]

linktest == [main |->
    <<Unlink(<<"lf1">>, Whatever), Unlink(<<"lf2">>, Whatever),
      Open(<<"lf1">>, CreateRW, "fd", Ok), Write("fd", Bytes(5, "hello"), Is(5)), Close("fd"),
      Link(<<"lf1">>, <<"lf2">>, Ok), Unlink(<<"lf1">>, Whatever),
      Open(<<"lf1">>, RDONLY, "", Err),
      Open(<<"lf2">>, RDONLY, "fd", Ok), Read("fd", 2 * PGSIZE, Is(5)), Close("fd"),
      Link(<<"lf2">>, <<"lf2">>, Err), Unlink(<<"lf2">>, Whatever),
      Link(<<"lf2">>, <<"lf1">>, Err), Link(<<".">>, <<"lf1">>, Err)>>]

(* subdir: building the tree and walking through it.                       *)
subdir_build ==
    <<Unlink(<<"ff">>, Whatever), Mkdir(<<"dd">>, Is(0)),
      Open(<<"dd", "ff">>, CreateRW, "fd", Ok), Write("fd", Bytes(2, "ff"), Whatever), Close("fd"),
      Unlink(<<"dd">>, Err), Mkdir(<<"/", "dd", "dd">>, Is(0)),
      Open(<<"dd", "dd", "ff">>, CreateRW, "fd", Ok), Write("fd", Bytes(2, "FF"), Whatever),
      Close("fd"), Open(<<"dd", "dd", "..", "ff">>, RDONLY, "fd", Ok),
      ReadData("fd", 2 * PGSIZE, Bytes(2, "ff")), Close("fd"),
      Link(<<"dd", "dd", "ff">>, <<"dd", "dd", "ffff">>, Is(0)),
      Unlink(<<"dd", "dd", "ff">>, Is(0)), Open(<<"dd", "dd", "ff">>, RDONLY, "", Err),
      Chdir(<<"dd">>, Is(0)), Chdir(<<"dd", "..", "..", "dd">>, Is(0)),
      Chdir(<<"dd", "..", "..", "..", "dd">>, Is(0)), Chdir(<<".", "..">>, Is(0)),
      Open(<<"dd", "dd", "ffff">>, RDONLY, "fd", Ok), Read("fd", 2 * PGSIZE, Is(2)), Close("fd"),
      Open(<<"dd", "dd", "ff">>, RDONLY, "", Err)>>

(* subdir: what must fail, and taking the tree down.                       *)
subdir_refuse ==
    <<Open(<<"dd", "ff", "ff">>, CreateRW, "", Err), Open(<<"dd", "xx", "ff">>, CreateRW, "", Err),
      Open(<<"dd">>, Create, "", Err), Open(<<"dd">>, {"RDWR"}, "", Err),
      Open(<<"dd">>, {"WRONLY"}, "", Err),
      Link(<<"dd", "ff", "ff">>, <<"dd", "dd", "xx">>, Err),
      Link(<<"dd", "xx", "ff">>, <<"dd", "dd", "xx">>, Err),
      Link(<<"dd", "ff">>, <<"dd", "dd", "ffff">>, Err),
      Mkdir(<<"dd", "ff", "ff">>, Err), Mkdir(<<"dd", "xx", "ff">>, Err),
      Mkdir(<<"dd", "dd", "ffff">>, Err), Unlink(<<"dd", "xx", "ff">>, Err),
      Unlink(<<"dd", "ff", "ff">>, Err), Chdir(<<"dd", "ff">>, Err), Chdir(<<"dd", "xx">>, Err),
      Unlink(<<"dd", "dd", "ffff">>, Is(0)), Unlink(<<"dd", "ff">>, Is(0)),
      Unlink(<<"dd">>, Err), Unlink(<<"dd", "dd">>, Ok), Unlink(<<"dd">>, Ok)>>

subdir == [main |-> subdir_build \o subdir_refuse]

(* DIRSIZ is 14; the name with the star is one longer.                     *)
fourteen ==
    LET d == "12345678901234"
        l == "12345678901234*"
    IN [main |->
        <<Mkdir(<<d>>, Is(0)), Mkdir(<<d, l>>, Is(0)), Open(<<l, l, l>>, Create, "fd", Ok),
          Close("fd"), Open(<<d, d, d>>, RDONLY, "fd", Ok), Close("fd"),
          Mkdir(<<d, d>>, Err), Mkdir(<<l, d>>, Err),
          Unlink(<<l, d>>, Whatever), Unlink(<<d, d>>, Whatever), Unlink(<<d, d, d>>, Whatever),
          Unlink(<<l, l, l>>, Whatever), Unlink(<<d, l>>, Whatever), Unlink(<<d>>, Whatever)>>]

rmdot == [main |->
    <<Mkdir(<<"dots">>, Is(0)), Chdir(<<"dots">>, Is(0)), Unlink(<<".">>, Err),
      Unlink(<<"..">>, Err), Chdir(<<"/">>, Is(0)), Unlink(<<"dots", ".">>, Err),
      Unlink(<<"dots", "..">>, Err), Unlink(<<"dots">>, Is(0))>>]

dirfile == [main |->
    <<Open(<<"dirfile">>, Create, "fd", Ok), Close("fd"), Chdir(<<"dirfile">>, Err),
      Open(<<"dirfile", "xx">>, RDONLY, "", Err), Open(<<"dirfile", "xx">>, Create, "", Err),
      Mkdir(<<"dirfile", "xx">>, Err), Unlink(<<"dirfile", "xx">>, Err),
      Link(<<"README">>, <<"dirfile", "xx">>, Err), Unlink(<<"dirfile">>, Is(0)),
      Open(<<".">>, {"RDWR"}, "", Err), Open(<<".">>, RDONLY, "fd", Whatever),
      Write("fd", Bytes(1, "x"), NotPositive), Close("fd")>>]

iref == [main |->
    For(NINODE + 1, LAMBDA i :
        <<Mkdir(<<"irefd">>, Is(0)), Chdir(<<"irefd">>, Is(0)), Mkdir(<<>>, Whatever),
          Link(<<"README">>, <<>>, Whatever), Open(<<>>, Create, "fd", Whatever), Close("fd"),
          Open(<<"xx">>, Create, "fd", Whatever), Close("fd"), Unlink(<<"xx">>, Whatever)>>)
    \o For(NINODE + 1, LAMBDA i : <<Chdir(<<"..">>, Whatever), Unlink(<<"irefd">>, Whatever)>>)
    \o <<Chdir(<<"/">>, Whatever)>>]

(* The root directory is past its direct blocks from here on.              *)
bigdir == [main |->
    <<Unlink(<<"bd">>, Whatever), Open(<<"bd">>, Create, "fd", Ok), Close("fd")>>
    \o For(BSIZE, LAMBDA i : <<Link(<<"bd">>, <<Names[i]>>, Is(0))>>)
    \o <<Unlink(<<"bd">>, Whatever)>>
    \o For(BSIZE, LAMBDA i : <<Unlink(<<Names[i]>>, Is(0))>>)]

-----------------------------------------------------------------------------
(* Large files, and the end of the disk *)

(* Sizes up to half the largest file, which is more than one transaction   *)
(* takes.                                                                  *)
bigwrite == [main |->
    <<Unlink(<<"bigwrite">>, Whatever)>>
    \o ForEach(<<BSIZE - 1, 2 * BSIZE - 1, (MaxFile \div 2) * BSIZE - 1>>, LAMBDA sz :
        <<Open(<<"bigwrite">>, CreateRW, "fd", Ok), Write("fd", Bytes(sz, "w"), Is(sz)),
          Write("fd", Bytes(sz, "w"), Is(sz)), Close("fd"), Unlink(<<"bigwrite">>, Whatever)>>)]

bigfile ==
    LET SZ == BSIZE + 2
    IN [main |->
        <<Unlink(<<"bigfile.dat">>, Whatever), Open(<<"bigfile.dat">>, CreateRW, "fd", Ok)>>
        \o For(3, LAMBDA i : <<Write("fd", Bytes(SZ, Names[i]), Is(SZ))>>)
        \o <<Close("fd"), Open(<<"bigfile.dat">>, RDONLY, "fd", Ok)>>
        \o For(6, LAMBDA i :
            <<ReadData("fd", SZ \div 2, Bytes(SZ \div 2, Names[(i + 1) \div 2]))>>)
        \o <<Read("fd", SZ \div 2, Is(0)), Close("fd"), Unlink(<<"bigfile.dat">>, Whatever)>>]

badwrite == [main |->
    <<Unlink(<<"junk">>, Whatever)>>
    \o For(N, LAMBDA i :
        <<Open(<<"junk">>, CreateW, "fd", Ok), WriteAt("fd", Huge, Bytes(1, "x"), Whatever),
          Close("fd"), Unlink(<<"junk">>, Whatever)>>)
    \o <<Open(<<"junk">>, CreateW, "fd", Ok), Write("fd", Bytes(1, "x"), Is(1)), Close("fd"),
         Unlink(<<"junk">>, Whatever)>>]

(* Files until open() fails, then on at label full.                        *)
ZZ == <<"zz0", "zz1", "zz2", "zz3", "zz4", "zz5", "zz6", "zz7", "zz8">>
MakeZZ(full) == ForEach(ZZ, LAMBDA name :
    <<Unlink(<<name>>, Whatever), Open(<<name>>, CreateRW \cup {"TRUNC"}, "fd", Whatever),
      If("fd", Err, full), Close("fd")>>)
RemoveZZ == ForEach(ZZ, LAMBDA name : <<Unlink(<<name>>, Whatever)>>)

diskfull ==
    LET big == <<"big0", "big1", "big2">>
        WriteBlock == [Write("fd", Bytes(BSIZE, "f"), Whatever) EXCEPT !.dst = "n"]
    IN [main |-> <<Unlink(<<"diskfulldir">>, Whatever)>>
            \o ForEach(big, LAMBDA name :
                <<Unlink(<<name>>, Whatever),
                  Open(<<name>>, CreateRW \cup {"TRUNC"}, "fd", Whatever), If("fd", Err, "full")>>
                \o For(MaxFile, LAMBDA i : <<WriteBlock, If("n", Err, "closefull")>>)
                \o <<Close("fd")>>)
            \o <<Goto("full")>>,
        closefull |-> <<Close("fd"), Close("fd"), Goto("full")>>,
        full |-> MakeZZ("zfull") \o <<Goto("zfull")>>,
        zfull |-> <<Mkdir(<<"diskfulldir">>, Whatever), Unlink(<<"diskfulldir">>, Whatever)>>
                  \o RemoveZZ \o ForEach(big, LAMBDA name : <<Unlink(<<name>>, Whatever)>>)]

outofinodes == [main |-> MakeZZ("full") \o <<Goto("full")>>, full |-> RemoveZZ]
=============================================================================
