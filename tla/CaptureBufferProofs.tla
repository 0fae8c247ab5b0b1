------------------------ MODULE CaptureBufferProofs -------------------------
(* Proofs about CaptureBuffer, for every capacity, payload, cursor and     *)
(* limit: the ring holds the tail of the log, and reading it is reading    *)
(* the log.                                                                *)
EXTENDS CaptureBuffer, TLAPS

-----------------------------------------------------------------------------
(* Slots: what head % capacity does, for a capacity that is not fixed.     *)

(* Quotient and remainder, once they have names of their own.              *)
LEMMA DivisionNamed ==
  ASSUME NEW a \in Nat,
         NEW q \in Int, q = a \div Capacity, NEW r \in Int, r = a % Capacity
  PROVE  /\ a = Capacity * q + r
         /\ q \in Nat /\ r \in Slots
  BY CapacityAssumption DEF Slots

(* Every offset is a number of turns of the ring and a slot.               *)
LEMMA TurnsAndSlot ==
  ASSUME NEW a \in Nat
  PROVE  \E q \in Nat, r \in Slots : a = Capacity * q + r /\ r = a % Capacity
<1>1. a \div Capacity \in Int /\ a % Capacity \in Int
  BY CapacityAssumption
<1>2. PICK q \in Int : q = a \div Capacity
  BY <1>1
<1>3. PICK r \in Int : r = a % Capacity
  BY <1>1
<1> QED
  BY <1>2, <1>3, DivisionNamed

(* Going i offsets on, less than a turn, is going i slots on, around the   *)
(* end: the ring never needs more than one wrap.                           *)
LEMMA SlotAhead ==
  ASSUME NEW a \in Nat, NEW i \in Slots
  PROVE  (a + i) % Capacity = IF (a % Capacity) + i < Capacity
                                THEN (a % Capacity) + i
                                ELSE (a % Capacity) + i - Capacity
<1> USE CapacityAssumption DEF Slots
<1>1. PICK q \in Nat, r \in Slots : a = Capacity * q + r /\ r = a % Capacity
  BY TurnsAndSlot
<1>2. PICK p \in Nat, s \in Slots :
        a + i = Capacity * p + s /\ s = (a + i) % Capacity
  <2>1. PICK b \in Nat : b = a + i
    OBVIOUS
  <2>2. \E p \in Nat, s \in Slots : b = Capacity * p + s /\ s = b % Capacity
    BY TurnsAndSlot
  <2> QED
    BY <2>1, <2>2
<1>3. Capacity * p + s = Capacity * q + (r + i)
  BY <1>1, <1>2
<1>4. s = IF r + i < Capacity THEN r + i ELSE r + i - Capacity
  <2>1. p = q \/ p = q + 1
    <3>1. CASE p < q
      <4>1. Capacity * p + Capacity <= Capacity * q
        BY <3>1
      <4> QED
        BY <4>1, <1>3
    <3>2. CASE p > q + 1
      <4>1. Capacity * q + Capacity + Capacity <= Capacity * p
        BY <3>2
      <4> QED
        BY <4>1, <1>3
    <3> QED
      BY <3>1, <3>2
  <2>2. CASE p = q
    BY <2>2, <1>3
  <2>3. CASE p = q + 1
    <3>1. Capacity * p = Capacity * q + Capacity
      BY <2>3
    <3> QED
      BY <3>1, <1>3
  <2> QED
    BY <2>1, <2>2, <2>3
<1> QED
  BY <1>1, <1>2, <1>4

(* A whole turn of the ring comes back to the same slot.                   *)
LEMMA TurnOfRing ==
  ASSUME NEW a \in Nat
  PROVE  (a + Capacity) % Capacity = a % Capacity
<1> USE CapacityAssumption DEF Slots
<1>1. PICK i \in Slots : i = Capacity - 1
  OBVIOUS
<1>2. PICK b \in Nat : b = a + 1
  OBVIOUS
<1>3. a + Capacity = b + i
  BY <1>1, <1>2
<1>4. (b + i) % Capacity = IF (b % Capacity) + i < Capacity
                             THEN (b % Capacity) + i
                             ELSE (b % Capacity) + i - Capacity
  BY SlotAhead
<1>5. CASE Capacity = 1
  <2>1. a % Capacity \in Slots /\ (a + Capacity) % Capacity \in Slots
    BY TurnsAndSlot
  <2> QED
    BY <2>1, <1>5
<1>6. CASE Capacity > 1
  <2>1. 1 \in Slots
    BY <1>6
  <2>2. (a + 1) % Capacity = IF (a % Capacity) + 1 < Capacity
                               THEN (a % Capacity) + 1
                               ELSE (a % Capacity) + 1 - Capacity
    BY <2>1, SlotAhead
  <2>3. a % Capacity \in Slots
    BY TurnsAndSlot
  <2> QED
    BY <2>2, <2>3, <1>1, <1>2, <1>3, <1>4
<1> QED
  BY <1>5, <1>6

(* An offset is mapped to one of the slots.                                *)
LEMMA SlotOf ==
  ASSUME NEW a \in Nat
  PROVE  a % Capacity \in Slots
  BY TurnsAndSlot

-----------------------------------------------------------------------------
(* Writing and reading the physical ring.                                  *)

(* What WriteAt puts where, for a payload that fits: byte i of it goes i   *)
(* slots on, and the slots behind it are left alone.                       *)
LEMMA WrittenSlots ==
  ASSUME NEW b, NEW start \in Slots, NEW data \in Seq(Byte),
         Len(data) <= Capacity
  PROVE  /\ \A i \in 0 .. Len(data) - 1 :
              WriteAt(b, start, data)[IF start + i < Capacity THEN start + i
                                      ELSE start + i - Capacity] = data[i + 1]
         /\ \A i \in Len(data) .. Capacity - 1 :
              LET s == IF start + i < Capacity THEN start + i
                       ELSE start + i - Capacity
              IN  WriteAt(b, start, data)[s] = b[s]
<1> USE CapacityAssumption DEF Slots
<1>1. Len(data) \in Nat
  OBVIOUS
<1>2. ASSUME NEW i \in 0 .. Len(data) - 1
      PROVE  WriteAt(b, start, data)[IF start + i < Capacity THEN start + i
                                     ELSE start + i - Capacity] = data[i + 1]
  <2>1. CASE start + i < Capacity
    BY <1>1, <2>1 DEF WriteAt
  <2>2. CASE start + i >= Capacity
    BY <1>1, <2>2 DEF WriteAt
  <2> QED
    BY <1>1, <2>1, <2>2
<1>3. ASSUME NEW i \in Len(data) .. Capacity - 1
      PROVE  LET s == IF start + i < Capacity THEN start + i
                      ELSE start + i - Capacity
             IN  WriteAt(b, start, data)[s] = b[s]
  <2>1. CASE start + i < Capacity
    BY <1>1, <2>1 DEF WriteAt
  <2>2. CASE start + i >= Capacity
    BY <1>1, <2>2 DEF WriteAt
  <2> QED
    BY <1>1, <2>1, <2>2
<1> QED
  BY <1>2, <1>3

(* A write leaves bytes in every slot.                                     *)
LEMMA WriteType ==
  ASSUME NEW b \in [Slots -> Byte], NEW start \in Slots,
         NEW data \in Seq(Byte), Len(data) <= Capacity
  PROVE  WriteAt(b, start, data) \in [Slots -> Byte]
<1> USE CapacityAssumption DEF Slots
<1>1. Len(data) \in Nat /\ \A i \in 1 .. Len(data) : data[i] \in Byte
  OBVIOUS
<1>2. ASSUME NEW s \in Slots
      PROVE  WriteAt(b, start, data)[s] \in Byte
  BY <1>1 DEF WriteAt
<1> QED
  BY <1>2 DEF WriteAt

(* What is written of a payload: its last bytes, as many as the ring holds.*)
LEMMA KeptTail ==
  ASSUME NEW data \in Seq(Byte)
  PROVE  LET skip == Overrun(data)
             kept == SubSeq(data, skip + 1, Len(data))
         IN  /\ skip \in 0 .. Len(data)
             /\ kept \in Seq(Byte) /\ Len(kept) = Len(data) - skip
             /\ Len(kept) <= Capacity
             /\ skip > 0 => Len(kept) = Capacity
             /\ \A i \in 0 .. Len(kept) - 1 : kept[i + 1] = data[skip + i + 1]
<1> USE CapacityAssumption
<1> DEFINE skip == Overrun(data)
           kept == SubSeq(data, skip + 1, Len(data))
<1>1. /\ Len(data) \in Nat /\ skip \in 0 .. Len(data)
      /\ (skip = 0 /\ Len(data) <= Capacity) \/ skip = Len(data) - Capacity
      /\ skip > 0 => skip = Len(data) - Capacity
  BY DEF Overrun, Log!Larger
<1> HIDE DEF skip
<1>2. /\ kept \in Seq(Byte) /\ Len(kept) = Len(data) - skip
      /\ \A i \in 1 .. Len(data) - skip : kept[i] = data[skip + i]
  BY <1>1
<1> HIDE DEF kept
<1>3. \A i \in 0 .. Len(kept) - 1 : kept[i + 1] = data[skip + i + 1]
  <2> TAKE i \in 0 .. Len(kept) - 1
  <2>1. i + 1 \in 1 .. Len(data) - skip
    BY <1>1, <1>2
  <2>2. kept[i + 1] = data[skip + (i + 1)]
    BY <2>1, <1>2
  <2> QED
    BY <2>2, <1>1
<1>4. Len(kept) <= Capacity /\ (skip > 0 => Len(kept) = Capacity)
  BY <1>1, <1>2
<1> QED
  BY <1>1, <1>2, <1>3, <1>4 DEF skip, kept

(* n bytes read from the slot of an offset are the bytes at the n offsets  *)
(* from it on, as the slots of those offsets hold them.                    *)
LEMMA ReadSlots ==
  ASSUME NEW start \in Nat, NEW n \in 0 .. Capacity
  PROVE  \A i \in 1 .. n : ReadAt(start % Capacity, n)[i] =
                             buf[(start + (i - 1)) % Capacity]
<1> USE CapacityAssumption DEF Slots
<1> TAKE i \in 1 .. n
<1>1. i - 1 \in Slots /\ start % Capacity \in Slots
  BY SlotOf
<1>2. PICK j \in Slots : j = i - 1
  BY <1>1
<1>3. (start + j) % Capacity = IF (start % Capacity) + j < Capacity
                                 THEN (start % Capacity) + j
                                 ELSE (start % Capacity) + j - Capacity
  BY SlotAhead
<1>4. PICK s \in Slots : s = start % Capacity
  BY <1>1
<1>5. ReadAt(s, n)[i] = IF s + j < Capacity THEN buf[s + j]
                        ELSE buf[s + j - Capacity]
  BY <1>2, <1>4 DEF ReadAt
<1> QED
  BY <1>2, <1>3, <1>4, <1>5

-----------------------------------------------------------------------------
(* The window of what can still be read.                                   *)

(* The oldest byte retained is at most a turn of the ring behind the head. *)
LEMMA Window ==
  ASSUME TypeOK
  PROVE  /\ OldestRetained \in 0 .. head
         /\ head - OldestRetained <= Capacity
  BY CapacityAssumption DEF TypeOK, OldestRetained, Log!Larger

(* A read of a valid cursor starts in the window and ends in it.           *)
LEMMA ReadStaysInWindow ==
  ASSUME TypeOK, NEW limit \in Limits,
         client.cursor <= head, client.cursor >= 0
  PROVE  /\ ReadStart \in OldestRetained .. head
         /\ ToReturn(limit) \in 0 .. Capacity
         /\ ReadStart + ToReturn(limit) <= head
<1>1. client.cursor \in Int /\ head \in Nat /\ limit \in Int
  BY InputAssumption DEF TypeOK
<1>2. ReadStart \in OldestRetained .. head
  BY <1>1, Window DEF ReadStart, Log!Larger
<1>3. head - ReadStart \in 0 .. Capacity
  BY <1>1, <1>2, Window, CapacityAssumption
<1> HIDE DEF ReadStart
<1>4. /\ ToReturn(limit) \in 0 .. Capacity
      /\ ToReturn(limit) <= head - ReadStart
  BY <1>1, <1>3, CapacityAssumption DEF ToReturn, Log!Larger, Log!Smaller
<1> QED
  BY <1>1, <1>2, <1>3, <1>4, Window, CapacityAssumption

(* What a read of a valid cursor returns is what the log holds there.      *)
LEMMA ReadIsLog ==
  ASSUME TypeOK, RingHoldsTail, NEW limit \in Limits,
         client.cursor <= head, client.cursor >= 0
  PROVE  ReadAt(ReadStart % Capacity, ToReturn(limit)) =
           SubSeq(log, ReadStart + 1, ReadStart + ToReturn(limit))
<1>1. PICK a \in Nat, n \in 0 .. Capacity :
        a = ReadStart /\ n = ToReturn(limit)
  BY ReadStaysInWindow, Window, CapacityAssumption DEF TypeOK
<1>2. /\ a \in OldestRetained .. head /\ a + n <= head
      /\ head = Len(log) /\ OldestRetained \in Nat
      /\ log \in Seq(Byte) /\ head \in Nat /\ Capacity \in Nat
  BY <1>1, ReadStaysInWindow, Window, CapacityAssumption
     DEF RingHoldsTail, TypeOK
<1>3. ASSUME NEW i \in 1 .. n
      PROVE  ReadAt(a % Capacity, n)[i] = log[a + i]
  <2>1. PICK off \in OldestRetained .. head - 1 : off = a + (i - 1)
    BY <1>2
  <2>2. buf[off % Capacity] = log[off + 1]
    BY DEF RingHoldsTail
  <2>3. off + 1 = a + i
    BY <2>1, <1>2
  <2> QED
    BY <2>1, <2>2, <2>3, ReadSlots
<1>4. SubSeq(log, a + 1, a + n) = [i \in 1 .. n |-> log[a + i]]
  BY <1>2
<1>5. ReadAt(a % Capacity, n) = [i \in 1 .. n |-> ReadAt(a % Capacity, n)[i]]
  BY DEF ReadAt
<1> QED
  BY <1>1, <1>3, <1>4, <1>5

-----------------------------------------------------------------------------
(* The invariant.                                                          *)

(* The client the module starts with, and one that starts over, is typed.  *)
LEMMA ClientAtType ==
  ASSUME NEW c \in Int
  PROVE  Log!ClientAt(c) \in [from: Int, cursor: Int, missed: Nat,
                              heard: Seq(Byte), left: Nat, refused: BOOLEAN]
  BY DEF Log!ClientAt

(* An append keeps the types.                                              *)
LEMMA AppendTypes ==
  ASSUME TypeOK, NEW data \in Chunks, Append1(data)
  PROVE  TypeOK'
<1> DEFINE skip == Overrun(data)
           kept == SubSeq(data, skip + 1, Len(data))
<1>1. data \in Seq(Byte) /\ Len(data) \in Nat
  BY InputAssumption
<1>2. /\ skip \in Nat /\ kept \in Seq(Byte) /\ Len(kept) <= Capacity
  BY <1>1, KeptTail
<1>3. (head + skip) % Capacity \in Slots
  BY <1>2, SlotOf DEF TypeOK
<1>4. WriteAt(buf, (head + skip) % Capacity, kept) \in [Slots -> Byte]
  BY <1>2, <1>3, WriteType DEF TypeOK
<1>5. log \o data \in Seq(Byte) /\ head + Len(data) \in Nat
  BY <1>1 DEF TypeOK
<1> QED
  BY <1>4, <1>5 DEF TypeOK, Append1

(* A read keeps the types: the reply is bytes, and what it missed and left *)
(* is counted in natural numbers.                                          *)
LEMMA ReadTypes ==
  ASSUME TypeOK, RingHoldsTail, NEW limit \in Limits, Read(limit)
  PROVE  TypeOK'
<1> DEFINE n == ToReturn(limit)
           got == ReadAt(ReadStart % Capacity, n)
<1>1. /\ client.cursor <= head /\ client.cursor >= 0
  BY DEF Read
<1>2. /\ ReadStart \in Nat /\ n \in Nat /\ ReadStart + n <= head
      /\ OldestRetained \in Nat /\ head \in Nat
  BY <1>1, ReadStaysInWindow, Window, CapacityAssumption DEF TypeOK
<1>3. got \in Seq(Byte)
  <2>1. got = SubSeq(log, ReadStart + 1, ReadStart + n)
    BY <1>1, ReadIsLog
  <2> HIDE DEF got, n
  <2>2. SubSeq(log, ReadStart + 1, ReadStart + n) \in Seq(Byte)
    BY <1>2 DEF TypeOK, RingHoldsTail
  <2> QED
    BY <2>1, <2>2
<1>4. Dropped \in Nat
  BY <1>1, <1>2 DEF Dropped, Log!Larger, TypeOK
<1> HIDE DEF got, n
<1>5. /\ ReadStart + n \in Int /\ head - (ReadStart + n) \in Nat
  BY <1>2
<1>6. client.missed + Dropped \in Nat /\ client.heard \o got \in Seq(Byte)
  BY <1>3, <1>4 DEF TypeOK
<1>7. client' = [client EXCEPT !.cursor  = ReadStart + n,
                               !.missed  = client.missed + Dropped,
                               !.heard   = client.heard \o got,
                               !.left    = head - (ReadStart + n),
                               !.refused = FALSE]
  BY DEF Read, got, n
<1>8. client' \in [from: Int, cursor: Int, missed: Nat, heard: Seq(Byte),
                   left: Nat, refused: BOOLEAN]
  <2> HIDE DEF Dropped, ReadStart
  <2> QED
    BY <1>5, <1>6, <1>7 DEF TypeOK
<1> QED
  BY <1>8 DEF TypeOK, Read

(* An append keeps the tail of the log in the ring: each new byte is at    *)
(* the slot of its own offset, and what it overwrites was the oldest.      *)
LEMMA AppendKeepsTail ==
  ASSUME TypeOK, RingHoldsTail, NEW data \in Chunks, Append1(data)
  PROVE  RingHoldsTail'
<1> DEFINE skip == Overrun(data)
           kept == SubSeq(data, skip + 1, Len(data))
           start == (head + skip) % Capacity
<1>1. /\ data \in Seq(Byte) /\ Len(data) \in Nat /\ head \in Nat
      /\ log \in Seq(Byte) /\ head = Len(log) /\ Capacity \in Nat \ {0}
  BY InputAssumption, CapacityAssumption DEF TypeOK, RingHoldsTail
<1>2. /\ skip \in 0 .. Len(data)
      /\ kept \in Seq(Byte) /\ Len(kept) = Len(data) - skip
      /\ Len(kept) <= Capacity /\ (skip > 0 => Len(kept) = Capacity)
      /\ \A i \in 0 .. Len(kept) - 1 : kept[i + 1] = data[skip + i + 1]
  BY <1>1, KeptTail
<1>3. start \in Slots
  BY <1>1, <1>2, SlotOf
<1>4. /\ buf' = WriteAt(buf, start, kept)
      /\ head' = head + Len(data) /\ log' = log \o data
  BY DEF Append1
<1> HIDE DEF skip, kept
<1>5. PICK base \in Nat : base = head + skip
  BY <1>1, <1>2
<1>7. /\ skip \in Nat /\ Len(kept) \in Nat /\ Len(kept) = Len(data) - skip
      /\ Len(kept) <= Capacity /\ (skip > 0 => Len(kept) = Capacity)
  BY <1>1, <1>2
<1>8. /\ start = base % Capacity
      /\ \A i \in Slots : (base + i) % Capacity =
           IF start + i < Capacity THEN start + i ELSE start + i - Capacity
  BY <1>5, SlotAhead
<1> HIDE DEF start
<1>9. /\ \A i \in 0 .. Len(kept) - 1 :
           i \in Slots => buf'[(base + i) % Capacity] = kept[i + 1]
      /\ \A i \in Len(kept) .. Capacity - 1 :
           i \in Slots => buf'[(base + i) % Capacity] = buf[(base + i) % Capacity]
  <2>1. /\ \A i \in 0 .. Len(kept) - 1 :
             buf'[IF start + i < Capacity THEN start + i
                  ELSE start + i - Capacity] = kept[i + 1]
        /\ \A i \in Len(kept) .. Capacity - 1 :
             LET s == IF start + i < Capacity THEN start + i
                      ELSE start + i - Capacity
             IN  buf'[s] = buf[s]
    BY <1>2, <1>3, <1>4, WrittenSlots
  <2> QED
    BY <2>1, <1>8
<1>6. /\ Len(log') = head' 
      /\ \A k \in 1 .. head : log'[k] = log[k]
      /\ \A k \in 1 .. Len(data) : log'[head + k] = data[k]
  BY <1>1, <1>4
<1>10. ASSUME NEW off \in OldestRetained' .. head' - 1
      PROVE  buf'[off % Capacity] = log'[off + 1]
  <2>1. /\ off \in Nat /\ off < head + Len(data)
        /\ off >= head + Len(data) - Capacity
    BY <1>1, <1>4 DEF OldestRetained, Log!Larger
  <2>2. CASE off >= head + skip
    <3>1. PICK i \in 0 .. Len(kept) - 1 : i = off - base
      <4>1. off - base \in 0 .. Len(kept) - 1
        BY <2>1, <2>2, <1>1, <1>5, <1>7
      <4> QED
        BY <4>1
    <3>2. i \in Slots
      BY <1>1, <1>2 DEF Slots
    <3>3. buf'[off % Capacity] = kept[i + 1]
      <4>1. off = base + i
        BY <3>1, <2>1
      <4> QED
        BY <3>2, <4>1, <1>9
    <3>4. log'[head + (skip + i + 1)] = data[skip + i + 1]
      BY <1>1, <1>2, <1>6
    <3>5. off + 1 = head + (skip + i + 1)
      BY <3>1, <2>1, <1>1, <1>2, <1>5
    <3> QED
      BY <3>3, <3>4, <3>5, <1>2
  <2>3. CASE off < head + skip
    <3>1. skip = 0 /\ off < head
      BY <2>1, <2>3, <1>1, <1>2
    <3>2. off \in OldestRetained .. head - 1
      BY <2>1, <3>1, <1>1 DEF OldestRetained, Log!Larger
    <3>3. PICK i \in Len(kept) .. Capacity - 1 : i = off + Capacity - base
      <4>1. off + Capacity - base \in Len(kept) .. Capacity - 1
        BY <2>1, <3>1, <1>1, <1>5, <1>7
      <4> QED
        BY <4>1
    <3>4. i \in Slots
      BY <1>1, <1>2 DEF Slots
    <3>5. (off + Capacity) % Capacity = off % Capacity
      BY <2>1, TurnOfRing
    <3>6. buf'[off % Capacity] = buf[off % Capacity]
      <4>1. off + Capacity = base + i
        BY <3>3, <2>1, <1>1
      <4> QED
        BY <3>4, <3>5, <4>1, <1>9
    <3>7. buf[off % Capacity] = log[off + 1]
      BY <3>2 DEF RingHoldsTail
    <3>8. log'[off + 1] = log[off + 1]
      BY <3>1, <2>1, <1>1, <1>6
    <3> QED
      BY <3>6, <3>7, <3>8
  <2> QED
    BY <2>1, <2>2, <2>3, <1>1, <1>2
<1> QED
  BY <1>6, <1>10 DEF RingHoldsTail

(* Types and tail hold together: neither is kept without the other, since  *)
(* what a read adds to the reply is typed because it is part of the log.   *)
BufferInv == TypeOK /\ RingHoldsTail

(* A fresh buffer satisfies the invariant.                                 *)
LEMMA InitInv == Init => BufferInv
<1> SUFFICES ASSUME Init PROVE BufferInv
  OBVIOUS
<1>1. buf \in [Slots -> Byte]
  BY ByteAssumption DEF Init
<1>2. log \in Seq(Byte) /\ head \in Nat /\ Len(log) = 0
  BY DEF Init
<1>3. client \in [from: Int, cursor: Int, missed: Nat, heard: Seq(Byte),
                  left: Nat, refused: BOOLEAN]
  BY ClientAtType DEF Init
<1>4. OldestRetained .. head - 1 = {}
  BY CapacityAssumption DEF Init, OldestRetained, Log!Larger
<1> QED
  BY <1>1, <1>2, <1>3, <1>4 DEF BufferInv, TypeOK, RingHoldsTail, Init

(* Every step keeps the invariant.                                         *)
LEMMA NextInv == BufferInv /\ [Next]_vars => BufferInv'
<1> SUFFICES ASSUME TypeOK, RingHoldsTail, [Next]_vars
             PROVE  TypeOK' /\ RingHoldsTail'
  BY DEF BufferInv
<1>1. ASSUME UNCHANGED <<buf, head, log>> PROVE RingHoldsTail'
  BY <1>1 DEF RingHoldsTail, OldestRetained
<1>2. ASSUME NEW data \in Chunks, Append1(data)
      PROVE  TypeOK' /\ RingHoldsTail'
  BY <1>2, AppendTypes, AppendKeepsTail
<1>3. CASE ReadRefused
  BY <1>1, <1>3 DEF TypeOK, ReadRefused
<1>4. ASSUME NEW limit \in Limits, Read(limit)
      PROVE  TypeOK' /\ RingHoldsTail'
  <2>1. TypeOK'
    BY <1>4, ReadTypes
  <2>2. UNCHANGED <<buf, head, log>>
    BY <1>4 DEF Read
  <2> QED
    BY <2>1, <2>2, <1>1
<1>5. ASSUME NEW c \in Cursors, Seek(c)
      PROVE  TypeOK' /\ RingHoldsTail'
  BY <1>1, <1>5, ClientAtType, InputAssumption DEF TypeOK, Seek
<1>6. CASE UNCHANGED vars
  BY <1>1, <1>6 DEF TypeOK, vars
<1> QED
  BY <1>2, <1>3, <1>4, <1>5, <1>6 DEF Next

(* Spec keeps the invariant in every state.                                *)
LEMMA BufferInvariant == Spec => []BufferInv
  BY InitInv, NextInv, PTL DEF Spec

(* The type invariant: the ring stays a ring of bytes, and what the client *)
(* was given stays a sequence of bytes with natural counts beside it.      *)
THEOREM TypeCorrect == Spec => []TypeOK
<1>1. BufferInv => TypeOK
  BY DEF BufferInv
<1> QED
  BY <1>1, BufferInvariant, PTL

(* CaptureBuffer.append and read agree on the slot of every offset that    *)
(* may still be read, whatever the capacity and however long the payloads: *)
(* one longer than the ring, or one that wraps, loses nothing of the tail. *)
THEOREM TailRetained == Spec => []RingHoldsTail
<1>1. BufferInv => RingHoldsTail
  BY DEF BufferInv
<1> QED
  BY <1>1, BufferInvariant, PTL

-----------------------------------------------------------------------------
(* The ring implements the log.                                            *)

(* A read is the delivery of the same bytes from the log.                  *)
LEMMA ReadDelivers ==
  ASSUME BufferInv, NEW limit \in Limits, Read(limit)
  PROVE  Log!Delivered(limit)
<1> USE DEF BufferInv
<1>1. client.cursor <= head /\ client.cursor >= 0
  BY DEF Read
<1>2. /\ head = Len(log) /\ head \in Nat /\ client.cursor \in Int
  BY DEF RingHoldsTail, TypeOK
<1>3. OldestRetained = Log!Oldest
  BY <1>2 DEF OldestRetained, Log!Oldest
<1>4. Dropped = ReadStart - client.cursor
  BY <1>1, <1>2, Window DEF Dropped, ReadStart, Log!Larger
<1>5. ReadAt(ReadStart % Capacity, ToReturn(limit)) =
        SubSeq(log, ReadStart + 1, ReadStart + ToReturn(limit))
  BY <1>1, ReadIsLog
<1>6. client.cursor \in 0 .. Len(log)
  BY <1>1, <1>2
<1>7. /\ ReadStart = Log!Larger(client.cursor, Log!Oldest)
      /\ ToReturn(limit) =
           Log!Larger(0, Log!Smaller(limit, Len(log) - ReadStart))
  BY <1>2, <1>3 DEF ReadStart, ToReturn
<1> QED
  BY <1>2, <1>4, <1>5, <1>6, <1>7 DEF Read, Log!Delivered

(* Every step of the ring is a step of the log, or leaves it alone.        *)
LEMMA StepRefines == BufferInv /\ [Next]_vars => [Log!Next]_(Log!vars)
<1> SUFFICES ASSUME BufferInv, [Next]_vars
             PROVE  [Log!Next]_(Log!vars)
  OBVIOUS
<1>1. head = Len(log) /\ head \in Nat /\ client.cursor \in Int
  BY DEF BufferInv, RingHoldsTail, TypeOK
<1>2. ASSUME NEW data \in Chunks, Append1(data) PROVE Log!Captured(data)
  BY <1>1, <1>2 DEF Append1, Log!Captured
<1>3. CASE ReadRefused
  <2>1. client.cursor \notin 0 .. Len(log)
    BY <1>1, <1>3 DEF ReadRefused
  <2>2. Log!Refused
    BY <2>1, <1>3 DEF ReadRefused, Log!Refused
  <2> QED
    BY <2>2 DEF Log!Next
<1>4. ASSUME NEW limit \in Limits, Read(limit) PROVE Log!Delivered(limit)
  BY <1>4, ReadDelivers
<1>5. ASSUME NEW c \in Cursors, Seek(c) PROVE Log!Restart(c)
  BY <1>5 DEF Seek, Log!Restart
<1>6. CASE UNCHANGED vars
  BY <1>6 DEF vars, Log!vars
<1> QED
  BY <1>2, <1>3, <1>4, <1>5, <1>6 DEF Next, Log!Next

(* The refinement: a client that follows next_cursor reads exactly the     *)
(* session's output, drops only what is really evicted and is told how     *)
(* much, and is refused exactly at the cursors never handed out.           *)
THEOREM ReadsAreTheLog == Spec => RefinesLog
<1>1. Init => Log!Init
  BY DEF Init, Log!Init
<1> QED
  BY <1>1, BufferInvariant, StepRefines, PTL DEF Spec, RefinesLog, Log!Spec
=============================================================================
