--------------------------- MODULE MCSystemCalls ----------------------------
EXTENDS SystemCalls

CONSTANT N         \* repetitions of the loops of the tests

U == INSTANCE UserTests

(* The root directory and five files of one block each, then free blocks.  *)
Files == << <<"README", << <<0, "r">>, <<0, "e">> >> >>,
            <<"cat", << <<2, "ELF">>, <<1, "X">>, <<2, "W">>, <<0, "cat">> >> >>,
            <<"echo", << <<2, "ELF">>, <<1, "X">>, <<2, "W">>, <<0, "echo">> >> >>,
            <<"init", << <<2, "ELF">>, <<1, "X">>, <<2, "W">>, <<0, "init">> >> >>,
            <<"usertests", << <<2, "ELF">>, <<1, "X">>, <<2, "W">>, <<0, "usertests">> >> >> >>

RootEntries ==
    << <<ROOTINO, ".">>, <<ROOTINO, "..">> >> \o [f \in DOMAIN Files |-> <<f + 1, Files[f][1]>>]

Padded(s) == [u \in 0 .. BSIZE - 1 |-> IF u + 1 \in DOMAIN s THEN s[u + 1] ELSE NoUnit]

MCImage ==
    [bitmap |-> 1 .. Len(Files) + 2,
     block |-> [b \in DataBlocks |->
        IF b \in DOMAIN Files THEN Padded(Files[b][2])
        ELSE IF b = Len(Files) + 1 THEN Padded(SubSeq(RootEntries, 1, BSIZE))
        ELSE IF b = Len(Files) + 2 THEN Padded(SubSeq(RootEntries, BSIZE + 1, Len(RootEntries)))
        ELSE Padded(<<>>)],
     dinode |-> [i \in 1 .. ninodes - 1 |->
        IF i = ROOTINO
        THEN [FreeDinode EXCEPT !.type = "DIR", !.nlink = 1, !.size = Len(RootEntries),
                                !.addrs[0] = Len(Files) + 1, !.addrs[1] = Len(Files) + 2]
        ELSE IF i - 1 \in DOMAIN Files
             THEN [FreeDinode EXCEPT !.type = "FILE", !.nlink = 1,
                                     !.size = Len(Files[i - 1][2]), !.addrs[0] = i - 1]
             ELSE FreeDinode]]

MCCode == U!Programs
MCRuns == DOMAIN MCCode \ {"init", "echo"}
MCPages == 1 .. 90
MCBlocks == 1 .. 19
=============================================================================
