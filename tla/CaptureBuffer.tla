--------------------------- MODULE CaptureBuffer ---------------------------
(***************************************************************************)
(* The ring buffer a session captures into (ringbuffer.py), driven by the  *)
(* reader thread that appends and by one client that follows next_cursor.  *)
(* The bytes live only in buf and head; log is a history variable, and no  *)
(* read looks at it.                                                       *)
(***************************************************************************)
EXTENDS Integers, Sequences

CONSTANTS
  Capacity,   \* CaptureBuffer.capacity
  Byte,       \* the byte values told apart
  Zero,       \* what bytearray() is filled with
  Chunks,     \* the payloads append() is given
  Cursors,    \* the cursors a client may start from, valid or not
  Limits,     \* the limits a client passes to read()
  MaxHead     \* bound of the model: bytes captured in a behaviour

ASSUME CapacityAssumption == Capacity \in Nat \ {0}
ASSUME ByteAssumption == Zero \in Byte
ASSUME InputAssumption ==
  /\ Chunks \subseteq Seq(Byte)
  /\ Cursors \subseteq Int
  /\ Limits \subseteq Int
  /\ MaxHead \in Nat

VARIABLES
  buf,        \* _buf, the physical ring
  head,       \* head, bytes ever appended
  log,        \* history: those bytes
  client      \* the client's cursor and what it has received

vars == <<buf, head, log, client>>

Slots == 0 .. Capacity - 1

Log == INSTANCE CaptureLog

-----------------------------------------------------------------------------
Init ==
  /\ buf = [s \in Slots |-> Zero]
  /\ head = 0
  /\ log = <<>>
  /\ client = Log!ClientAt(0)

(* The ring b with data written from slot start on, wrapping at the end. *)
WriteAt(b, start, data) ==
  [s \in Slots |->
     IF s >= start /\ s < start + Len(data) THEN data[s - start + 1]
     ELSE IF s < start + Len(data) - Capacity THEN data[Capacity - start + s + 1]
     ELSE b[s]]

(* n bytes of the ring from slot start on, wrapping at the end. *)
ReadAt(start, n) ==
  [i \in 1 .. n |->
     IF start + i - 1 < Capacity THEN buf[start + i - 1]
     ELSE buf[start + i - 1 - Capacity]]

(***************************************************************************)
(* append: of a chunk as long as the ring or longer only the tail is       *)
(* written, at the slot its own offset maps to.                            *)
(***************************************************************************)
Overrun(data) == Log!Larger(0, Len(data) - Capacity)

(* Mutant of Append1: the tail goes to the head's slot, not its own.       *)
Append1AtHead(data) ==
  LET skip == Overrun(data)
  IN  /\ head + Len(data) <= MaxHead
      /\ buf' = WriteAt(buf, head % Capacity, SubSeq(data, skip + 1, Len(data)))
      /\ head' = head + Len(data)
      /\ log' = log \o data
      /\ UNCHANGED client

Append1(data) ==
  LET skip == Overrun(data)
  IN  /\ head + Len(data) <= MaxHead
      /\ buf' = WriteAt(buf, (head + skip) % Capacity,
                        SubSeq(data, skip + 1, Len(data)))
      /\ head' = head + Len(data)
      /\ log' = log \o data
      /\ UNCHANGED client

(* Mutant of OldestRetained: one evicted byte passes for retained.         *)
OldestLessOne == Log!Larger(0, head - Capacity - 1)

OldestRetained == Log!Larger(0, head - Capacity)

(* read() with a cursor that was never handed out raises CursorError. *)
ReadRefused ==
  /\ client.cursor > head \/ client.cursor < 0
  /\ client' = [client EXCEPT !.refused = TRUE]
  /\ UNCHANGED <<buf, head, log>>

ReadStart == Log!Larger(client.cursor, OldestRetained)

ToReturn(limit) == Log!Larger(0, Log!Smaller(limit, head - ReadStart))

(* Mutant of Dropped: the distance to the window, also from inside it.     *)
DroppedSigned == OldestRetained - client.cursor

(* What was evicted before the client asked for it.                        *)
Dropped == Log!Larger(0, OldestRetained - client.cursor)

(* read(), and the client that keeps the reply and continues from it. *)
Read(limit) ==
  LET n == ToReturn(limit)
  IN  /\ client.cursor <= head
      /\ client.cursor >= 0
      /\ client' = [client EXCEPT
                      !.cursor  = ReadStart + n,
                      !.missed  = @ + Dropped,
                      !.heard   = @ \o ReadAt(ReadStart % Capacity, n),
                      !.left    = head - (ReadStart + n),
                      !.refused = FALSE]
      /\ UNCHANGED <<buf, head, log>>

(* Any client may start over from any cursor it cares to send. *)
Seek(c) ==
  /\ client' = Log!ClientAt(c)
  /\ UNCHANGED <<buf, head, log>>

Next ==
  \/ \E data \in Chunks : Append1(data)
  \/ ReadRefused
  \/ \E limit \in Limits : Read(limit)
  \/ \E c \in Cursors : Seek(c)

Spec == Init /\ [][Next]_vars

-----------------------------------------------------------------------------
TypeOK ==
  /\ buf \in [Slots -> Byte]
  /\ head \in Nat
  /\ log \in Seq(Byte)
  /\ client \in [from: Int, cursor: Int, missed: Nat, heard: Seq(Byte),
                 left: Nat, refused: BOOLEAN]

(* The slot an absolute offset maps to holds the byte captured at that     *)
(* offset, for every offset read() may still return: what append writes    *)
(* with start = head % capacity and read finds with start % capacity.      *)
RingHoldsTail ==
  /\ head = Len(log)
  /\ \A off \in OldestRetained .. head - 1 : buf[off % Capacity] = log[off + 1]

(* The ring buffer implements the unbounded log: every read returns what   *)
(* the log holds at that cursor, drops only what is really evicted, and    *)
(* refuses exactly the cursors that were never handed out.                 *)
RefinesLog == Log!Spec
=============================================================================
