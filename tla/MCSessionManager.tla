-------------------------- MODULE MCSessionManager --------------------------
(* Two opens over two adapters, so that a session may be opened while an   *)
(* earlier one still drains, and two closes; the run about the note of the *)
(* last close has a third open, that fails.                                *)
EXTENDS SessionManager, TLC

Interchangeable == Permutations(Opens) \cup Permutations(Closes) \cup Permutations(Devices)
=============================================================================
