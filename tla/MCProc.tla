------------------------------- MODULE MCProc -------------------------------
(* Small instances of Proc for TLC. *)
EXTENDS Proc

\* settickets() is called with counts it must refuse and one it accepts.
MCTicketArgs == {-1, 5, 20}
=============================================================================
