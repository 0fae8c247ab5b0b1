-------------------------- MODULE MCConsoleSession --------------------------
(* Small instances of ConsoleSession; the cfg files say which calls run.   *)
EXTENDS ConsoleSession, TLC

Interchangeable == Permutations(Sends)
=============================================================================
