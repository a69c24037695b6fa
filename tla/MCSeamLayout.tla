---------------------------- MODULE MCSeamLayout ----------------------------
(* Instances of SeamLayout for TLC.                                        *)
EXTENDS SeamLayout

Printing(kind, crop, cover, withCover) ==
    [kind |-> kind, crop |-> crop, cover |-> cover, withCover |-> withCover]

\* Two rows of three, every seam crossed once or twice.
MCSheets == {<<2, 3>>}
MCMarks == {<<1>>, <<1, 9>>}
MCPrintings ==
    {Printing("plain", 1, TRUE, FALSE), Printing("plain", 1, TRUE, TRUE),
     Printing("numbered", 1, TRUE, FALSE), Printing("swapped", 1, TRUE, FALSE),
     Printing("embedded", 1, FALSE, FALSE)}

\* Two rows of four, with nothing across some of the seams.
WideSheets == {<<2, 4>>}
SparseMarks == {<<>>, <<1, 9>>}
PlainPrinting == {Printing("plain", 0, FALSE, FALSE)}

=============================================================================
