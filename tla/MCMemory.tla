------------------------------ MODULE MCMemory ------------------------------
(* A small instance of Memory for TLC.                                     *)
EXTENDS Memory

\* A program of two segments, the second one ending inside a page; one that
\* leaves no room for the stack; one that does not begin with a page; one of
\* an empty segment.
MCImages == {<<<<0, 1>>, <<2, 3>>>>, <<<<0, 7>>>>, <<<<1, 5>>>>, <<<<0, 0>>>>}

MCLens == {-1, 2}
MCAmounts == {-3, -1, 3}
=============================================================================
