---------------------------- MODULE SessionLease ----------------------------
(***************************************************************************)
(* What the end of a console session promises about the port it holds.  The*)
(* port is released once, by a close only, and when the close returns the  *)
(* port is free or the close has said that it is not.                      *)
(***************************************************************************)

VARIABLES
  phase,   \* "live", then "ending" while the close runs, then "over"
  port,    \* the session's fd is open
  told     \* the close has warned that the port is still held

vars == <<phase, port, told>>

Init == phase = "live" /\ port = TRUE /\ told = FALSE

Ends ==
  /\ phase = "live" /\ phase' = "ending"
  /\ UNCHANGED <<port, told>>

Warns ==
  /\ phase = "ending" /\ port
  /\ told' = TRUE
  /\ UNCHANGED <<phase, port>>

Releases ==
  /\ phase # "live" /\ port
  /\ port' = FALSE
  /\ UNCHANGED <<phase, told>>

Returns ==
  /\ phase = "ending" /\ (~port \/ told)
  /\ phase' = "over"
  /\ UNCHANGED <<port, told>>

Next == Ends \/ Warns \/ Releases \/ Returns

Spec == Init /\ [][Next]_vars
=============================================================================
