----------------------------- MODULE CaptureLog -----------------------------
(***************************************************************************)
(* What the capture buffer of a console session promises, with no ring in  *)
(* it: the session's output is one ever growing log, a cursor is an        *)
(* absolute offset into it, only the last Capacity bytes can be read back, *)
(* and a read says exactly how many bytes it had to skip.                  *)
(***************************************************************************)
EXTENDS Integers, Sequences

CONSTANTS
  Capacity,   \* how many bytes are retained
  Chunks,     \* the sequences of bytes one append may add
  Cursors,    \* the cursors a client may start reading from
  Limits,     \* the read limits a client may pass
  MaxHead     \* bound of the model: bytes captured in a behaviour

VARIABLES
  log,        \* every byte ever captured
  client      \* what one client has made of the reads it did

vars == <<log, client>>

Larger(a, b) == IF a > b THEN a ELSE b
Smaller(a, b) == IF a < b THEN a ELSE b

(***************************************************************************)
(* A client that starts at cursor c: it has heard nothing and missed       *)
(* nothing since.                                                          *)
(***************************************************************************)
ClientAt(c) ==
  [from |-> c, cursor |-> c, missed |-> 0, heard |-> <<>>, left |-> 0,
   refused |-> FALSE]

Init ==
  /\ log = <<>>
  /\ client = ClientAt(0)

Captured(data) ==
  /\ Len(log) + Len(data) <= MaxHead
  /\ log' = log \o data
  /\ UNCHANGED client

(* The bytes before this offset have been evicted. *)
Oldest == Larger(0, Len(log) - Capacity)

Refused ==
  /\ client.cursor \notin 0 .. Len(log)
  /\ client' = [client EXCEPT !.refused = TRUE]
  /\ UNCHANGED log

(* The longest retained stretch from the cursor that the limit allows. *)
Delivered(limit) ==
  LET start == Larger(client.cursor, Oldest)
      next  == start + Larger(0, Smaller(limit, Len(log) - start))
  IN  /\ client.cursor \in 0 .. Len(log)
      /\ client' = [client EXCEPT
                      !.cursor  = next,
                      !.missed  = @ + (start - client.cursor),
                      !.heard   = @ \o SubSeq(log, start + 1, next),
                      !.left    = Len(log) - next,
                      !.refused = FALSE]
      /\ UNCHANGED log

Restart(c) ==
  /\ client' = ClientAt(c)
  /\ UNCHANGED log

Next ==
  \/ \E data \in Chunks : Captured(data)
  \/ Refused
  \/ \E limit \in Limits : Delivered(limit)
  \/ \E c \in Cursors : Restart(c)

Spec == Init /\ [][Next]_vars
=============================================================================
