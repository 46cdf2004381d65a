--------------------------- MODULE MCScreenStream ---------------------------
(* Instances of ScreenStream for TLC.                                      *)
EXTENDS ScreenStream

CONSTANTS c1, c2, r1, r2, cursor, size

MCClient == {c1, c2}
MCRow == {r1, r2}

(* A chunk writes one row and leaves the cursor, or the other and moves it.*)
MCChunk == {{r1}, {r2, cursor}}
=============================================================================
