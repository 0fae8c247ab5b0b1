--------------------------- MODULE MCConsoleTools ---------------------------
(* A capture of two bytes, two scans of it, and cursors on both sides of   *)
(* what it can hold.                                                       *)
EXTENDS ConsoleTools

MCLimits == {None, -1, 1, 5}
MCCursors == {-1, 0, 2, 5}
=============================================================================
