--------------------------- MODULE MCProcessTable ---------------------------
EXTENDS ProcessTable, TLC

\* Slots other than init's are interchangeable, and so are harts.
Symmetric == Permutations(Slot \ {InitProc}) \cup Permutations(Hart)

=============================================================================
