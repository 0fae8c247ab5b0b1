------------------------- MODULE ConsoleToolsProofs -------------------------
(***************************************************************************)
(* Proofs about ConsoleTools, for any capacity, limits, cursors and number *)
(* of scans.                                                               *)
(***************************************************************************)
EXTENDS ConsoleTools, FiniteSetTheorems, TLAPS

(* A session in the slot has its capture, and a status call that has begun *)
(* keeps the session in the slot.                                          *)
SlotInv ==
  /\ slot => capture = "there"
  /\ call.tool = "status" /\ call.at # "replied" => slot

(* A suspension below the head is in the ledger where it happened: the head*)
(* stands still from the park to the record.                               *)
LedgerInv ==
  /\ \A i \in DOMAIN holes : holes[i] <= head
  /\ \A i \in DOMAIN holes :
       holes[i] < head => i \in DOMAIN gaps /\ gaps[i] = holes[i]
  /\ capture = "none" => holes = <<>> /\ scan = "off"
  /\ capture = "there" => \A i \in DOMAIN gaps : gaps[i] = holes[i]
  /\ Len(holes) <= MaxScans
  /\ scan = "parked" =>
       Len(holes) = Len(gaps) + 1 /\ (capture = "there" => holes[Len(holes)] = head)
  /\ scan # "parked" => Len(holes) = Len(gaps)

(* What a client has read lies below the head.                             *)
FollowerInv ==
  /\ follower.from < follower.cursor => follower.cursor <= head
  /\ follower.at = "read" =>
       follower.cursor <= follower.lo /\ follower.hi <= head
  /\ ReadsTell

(* What a call has seen of the head, and what it made of it.               *)
CallInv ==
  /\ call.at # "replied" => call.said = None
  /\ call.tool = "status" /\ call.at = "headed" => call.head \in 0 .. head
  /\ call.tool = "status" /\ call.said = "open" =>
       /\ call.head \in 0 .. head
       /\ \A i \in DOMAIN holes : holes[i] < call.head => i <= call.count
  /\ call.tool = "capture" /\ call.at = "checked" =>
       call.from \in 0 .. head /\ call.to \in 0 .. head /\ call.from < call.to
  /\ call.tool = "open" => capture # "none"
  /\ CaptureIsWhole
  /\ OpenIsToldAsItWas

Inv == TypeOK /\ SlotInv /\ LedgerInv /\ FollowerInv /\ CallInv


USE SizeAssumption, InputAssumption, BoundAssumption

-----------------------------------------------------------------------------
(* Nothing is captured, read or called at first.                           *)
LEMMA InvInit == Init => Inv
<1> SUFFICES ASSUME Init PROVE Inv
  OBVIOUS
<1> USE DEF Init, FollowerAt, NoCall
<1>1. TypeOK
  <2>1. holes \in Seq(0 .. MaxHead) /\ gaps \in Seq(0 .. MaxHead)
    OBVIOUS
  <2>2. follower \in [at: {"idle", "got", "read"}, cursor: Int, from: Int,
                      told: SUBSET (1 .. MaxScans), lo: Nat, hi: Nat]
    OBVIOUS
  <2>3. call \in {NoCall} \cup OpenCalls \cup CaptureCalls \cup StatusCalls
    OBVIOUS
  <2>4. head \in 0 .. MaxHead
    OBVIOUS
  <2> HIDE DEF NoCall, FollowerAt
  <2> QED
    BY <2>1, <2>2, <2>3, <2>4 DEF TypeOK
<1>2. SlotInv /\ LedgerInv
  BY DEF SlotInv, LedgerInv
<1>3. FollowerInv /\ CallInv
  BY DEF FollowerInv, ReadsTell, CallInv, CaptureIsWhole, OpenIsToldAsItWas
<1> QED
  BY <1>1, <1>2, <1>3 DEF Inv

(* What the places of a call say about its record.                         *)
LEMMA CallShape ==
  ASSUME TypeOK
  PROVE  /\ call.tool = "open" => call \in OpenCalls
         /\ call.tool = "capture" => call \in CaptureCalls
         /\ call.tool = "status" => call \in StatusCalls
  BY DEF TypeOK, NoCall, OpenCalls, CaptureCalls, StatusCalls

(* The reader appends while no scan holds it parked: every suspension is on*)
(* record, and none moves.                                                 *)
LEMMA AppendInv ==
  ASSUME Inv, NEW n \in Nat \ {0}, ReaderAppends(n)
  PROVE  Inv'
<1> USE DEF Inv, ReaderAppends, handlers
<1>1. TypeOK'
  BY DEF TypeOK
<1>2. SlotInv'
  BY DEF SlotInv
<1>3. LedgerInv'
  BY DEF LedgerInv, TypeOK, Suspended
<1>4. FollowerInv'
  BY DEF FollowerInv, ReadsTell, TypeOK
<1>5. CallInv'
  BY DEF CallInv, CaptureIsWhole, OpenIsToldAsItWas, TypeOK
<1> QED
  BY <1>1, <1>2, <1>3, <1>4, <1>5

(* A suspension begins at the head, above everything anybody has read.     *)
LEMMA ParkInv ==
  ASSUME Inv, ScanParksReader
  PROVE  Inv'
<1> USE DEF Inv, ScanParksReader, handlers
<1>1. TypeOK'
  BY DEF TypeOK
<1>2. SlotInv'
  BY DEF SlotInv
<1>3. /\ Len(holes') = Len(holes) + 1 /\ holes'[Len(holes) + 1] = head
      /\ \A i \in DOMAIN holes : holes'[i] = holes[i]
      /\ DOMAIN holes' = DOMAIN holes \cup {Len(holes) + 1}
  BY DEF TypeOK
<1>4. LedgerInv'
  BY <1>3 DEF LedgerInv, TypeOK
<1>5. FollowerInv'
  BY <1>3 DEF FollowerInv, ReadsTell, TypeOK
<1>6. CallInv'
  BY <1>3 DEF CallInv, CaptureIsWhole, OpenIsToldAsItWas, TypeOK
<1> QED
  BY <1>1, <1>2, <1>4, <1>5, <1>6

(* The record is made while the head stands still.                         *)
LEMMA RecordInv ==
  ASSUME Inv, ScanRecordsGap
  PROVE  Inv'
<1> USE DEF Inv, ScanRecordsGap, handlers
<1>1. GapCursor \in 0 .. MaxHead
  BY DEF GapCursor, TypeOK
<1>2. TypeOK'
  BY <1>1 DEF TypeOK
<1>3. /\ Len(gaps') = Len(gaps) + 1 /\ gaps'[Len(gaps) + 1] = GapCursor
      /\ \A i \in DOMAIN gaps : gaps'[i] = gaps[i]
      /\ DOMAIN gaps' = DOMAIN gaps \cup {Len(gaps) + 1}
  BY <1>1 DEF TypeOK
<1>4. SlotInv'
  BY DEF SlotInv
<1>5. LedgerInv'
  BY <1>3 DEF LedgerInv, TypeOK, GapCursor
<1>6. FollowerInv'
  BY DEF FollowerInv, ReadsTell
<1>7. CallInv'
  BY DEF CallInv, CaptureIsWhole, OpenIsToldAsItWas
<1> QED
  BY <1>2, <1>4, <1>5, <1>6, <1>7

(* The rest of the session's steps leave head, holes and gaps alone.       *)
LEMMA SessionInv ==
  ASSUME Inv, ScanResumesReader \/ CloseTakesSlot \/ CloseDiscardsCapture
  PROVE  Inv'
<1> USE DEF Inv, ScanResumesReader, CloseTakesSlot, CloseDiscardsCapture, handlers
<1>1. TypeOK'
  BY DEF TypeOK
<1>2. SlotInv'
  BY DEF SlotInv, ManagerFree
<1>3. LedgerInv'
  BY DEF LedgerInv
<1>4. FollowerInv' /\ CallInv'
  BY DEF FollowerInv, ReadsTell, CallInv, CaptureIsWhole, OpenIsToldAsItWas
<1> QED
  BY <1>1, <1>2, <1>3, <1>4
-----------------------------------------------------------------------------
(* The arithmetic of a read from a cursor that was handed out.             *)
LEMMA ReadBounds ==
  ASSUME head \in Nat, NEW cursor \in 0 .. head, NEW limit \in Int
  PROVE  /\ ReadFrom(cursor) \in cursor .. head
         /\ ReadTo(cursor, limit) \in ReadFrom(cursor) .. head
  BY DEF ReadFrom, ReadTo, Oldest, Larger, Smaller

LEMMA LimitIsNumber ==
  ASSUME NEW limit \in Limits
  PROVE  ReadLimit(limit) \in Nat
  BY DEF ReadLimit, Larger, Smaller

(* The steps of console_read but the last one.                             *)
LEMMA ReadingInv ==
  ASSUME Inv,
         \/ \E c \in Cursors : Seek(c)
         \/ ReadGetsSession \/ ReadRefused
         \/ \E limit \in Limits : ReadTakesBytes(limit)
  PROVE  Inv'
<1> USE DEF Inv, session
<1>1. CASE \E c \in Cursors : Seek(c)
  <2> PICK c \in Cursors : Seek(c)
    BY <1>1
  <2> c \in Int
    OBVIOUS
  <2>1. TypeOK' /\ SlotInv' /\ LedgerInv' /\ CallInv'
    BY DEF Seek, FollowerAt, TypeOK, SlotInv, LedgerInv, CallInv, CaptureIsWhole,
           OpenIsToldAsItWas
  <2>2. FollowerInv'
    BY DEF Seek, FollowerAt, FollowerInv, ReadsTell, TypeOK
  <2> QED
    BY <2>1, <2>2
<1>2. CASE ReadGetsSession \/ ReadRefused
  <2>1. UNCHANGED <<session, call>>
    BY <1>2 DEF ReadGetsSession, ReadRefused
  <2>2. /\ follower' \in [at: {"idle", "got", "read"}, cursor: Int, from: Int,
                          told: SUBSET (1 .. MaxScans), lo: Nat, hi: Nat]
        /\ follower'.at # "read" /\ follower'.cursor = follower.cursor
        /\ follower'.from = follower.from /\ follower'.told = follower.told
    BY <1>2 DEF ReadGetsSession, ReadRefused, TypeOK
  <2>3. TypeOK' /\ SlotInv' /\ LedgerInv' /\ CallInv'
    BY <2>1, <2>2 DEF TypeOK, SlotInv, LedgerInv, CallInv, CaptureIsWhole,
           OpenIsToldAsItWas
  <2>4. FollowerInv'
    BY <2>1, <2>2 DEF FollowerInv, ReadsTell
  <2> QED
    BY <2>3, <2>4
<1>3. CASE \E limit \in Limits : ReadTakesBytes(limit)
  <2> PICK limit \in Limits : ReadTakesBytes(limit)
    BY <1>3
  <2> DEFINE lo == ReadFrom(follower.cursor)
             hi == ReadTo(follower.cursor, ReadLimit(limit))
  <2>1. lo \in follower.cursor .. head /\ hi \in lo .. head /\ head \in Nat
    <3>1. head \in Nat
      BY DEF TypeOK
    <3>2. follower.cursor \in 0 .. head
      BY DEF ReadTakesBytes
    <3>3. ReadLimit(limit) \in Int
      BY LimitIsNumber
    <3> QED
      BY <3>1, <3>2, <3>3, ReadBounds
  <2> HIDE DEF lo, hi
  <2>2. follower' = [follower EXCEPT !.at = "read", !.lo = lo, !.hi = hi]
    BY DEF ReadTakesBytes, lo, hi
  <2>3. follower.cursor \in 0 .. head /\ UNCHANGED <<session, call>>
    BY DEF ReadTakesBytes
  <2>4. TypeOK'
    <3>1. lo \in Nat /\ hi \in Nat
      BY <2>1, <2>3
    <3>2. follower' \in [at: {"idle", "got", "read"}, cursor: Int, from: Int,
                        told: SUBSET (1 .. MaxScans), lo: Nat, hi: Nat]
      BY <3>1, <2>2 DEF TypeOK
    <3> QED
      BY <3>2, <2>3 DEF TypeOK
  <2>5. SlotInv' /\ LedgerInv' /\ CallInv'
    BY <2>3 DEF SlotInv, LedgerInv, CallInv, CaptureIsWhole, OpenIsToldAsItWas
  <2>6. FollowerInv'
    BY <2>1, <2>2, <2>3 DEF FollowerInv, ReadsTell, TypeOK
  <2> QED
    BY <2>4, <2>5, <2>6
<1> QED
  BY <1>1, <1>2, <1>3

(* The reply of console_read: every suspension inside the bytes, and the   *)
(* one at the seam with the bytes before them, is in the ledger by now.    *)
LEMMA ReplyInv ==
  ASSUME Inv, ReadAddsGaps
  PROVE  Inv'
<1> DEFINE from == IF follower.lo > follower.cursor THEN follower.lo
                                                  ELSE follower.from
           told == follower.told \cup Overlapping(follower.lo, follower.hi)
<1>1. follower' = [at |-> "idle", cursor |-> follower.hi, from |-> from,
                   told |-> told, lo |-> 0, hi |-> 0]
  BY DEF ReadAddsGaps, FollowerAt
<1>2. UNCHANGED <<session, call>>
  BY DEF ReadAddsGaps
<1>3. told \subseteq 1 .. MaxScans
  BY DEF Inv, TypeOK, LedgerInv, Overlapping
<1>4. TypeOK'
  BY <1>1, <1>2, <1>3 DEF Inv, TypeOK, session
<1>5. SlotInv' /\ LedgerInv' /\ CallInv'
  BY <1>2 DEF Inv, SlotInv, LedgerInv, CallInv, CaptureIsWhole, OpenIsToldAsItWas,
         session
<1>6. ASSUME NEW i \in DOMAIN holes, from < holes[i], holes[i] < follower.hi
      PROVE  i \in told
  <2>1. follower.at = "read" /\ follower.cursor <= follower.lo /\ follower.hi <= head
    BY DEF Inv, FollowerInv, ReadAddsGaps
  <2>2. /\ holes[i] \in Int /\ follower.lo \in Int /\ follower.hi \in Int
        /\ follower.cursor \in Int /\ follower.from \in Int /\ head \in Int
    BY DEF Inv, TypeOK
  <2>3. i \in DOMAIN gaps /\ gaps[i] = holes[i]
    BY <1>6, <2>1, <2>2 DEF Inv, LedgerInv
  <2>4. CASE holes[i] >= follower.lo
    BY <1>6, <2>2, <2>3, <2>4 DEF Overlapping
  <2>5. CASE holes[i] < follower.lo
    <3>1. follower.from < holes[i] /\ holes[i] < follower.cursor
      BY <1>6, <2>1, <2>2, <2>5
    <3> QED
      BY <3>1 DEF Inv, FollowerInv, ReadsTell
  <2> QED
    BY <2>2, <2>4, <2>5
<1>7. FollowerInv'
  <2>1. ReadsTell'
    BY <1>1, <1>2, <1>6 DEF ReadsTell, session
  <2>2. follower.hi <= head
    BY DEF Inv, FollowerInv, ReadAddsGaps
  <2> QED
    BY <1>1, <1>2, <2>1, <2>2 DEF FollowerInv, session
<1> QED
  BY <1>4, <1>5, <1>7 DEF Inv
-----------------------------------------------------------------------------
(* A call leaves the session and the follower alone: what is left to show  *)
(* is its own record.                                                      *)
LEMMA CallKeeps ==
  ASSUME Inv, UNCHANGED <<session, follower>>,
         call' \in OpenCalls \cup CaptureCalls \cup StatusCalls,
         call'.tool = "status" /\ call'.at # "replied" => slot,
         CallInv'
  PROVE  Inv'
<1> USE DEF Inv, session
<1>1. TypeOK'
  BY DEF TypeOK
<1>2. SlotInv' /\ LedgerInv'
  BY DEF SlotInv, LedgerInv
<1>3. FollowerInv'
  BY DEF FollowerInv, ReadsTell
<1> QED
  BY <1>1, <1>2, <1>3

(* console_open: the capture of a session that was just published.         *)
LEMMA OpenInv ==
  ASSUME Inv, OpenPublishes \/ OpenAnswers
  PROVE  Inv'
<1>1. CASE OpenPublishes
  <2> USE <1>1 DEF Inv, OpenPublishes, CallBegins
  <2>1. TypeOK'
    BY DEF TypeOK, OpenCalls, Answers
  <2>2. SlotInv'
    BY DEF SlotInv
  <2>3. LedgerInv'
    <3>1. Len(holes) = 0 /\ Len(gaps) = 0
      BY DEF LedgerInv
    <3>2. DOMAIN holes = {} /\ DOMAIN gaps = {}
      BY <3>1 DEF TypeOK
    <3> QED
      BY <3>2 DEF LedgerInv
  <2>4. FollowerInv'
    BY DEF FollowerInv, ReadsTell
  <2>5. CallInv'
    BY DEF CallInv, CaptureIsWhole, OpenIsToldAsItWas
  <2> QED
    BY <2>1, <2>2, <2>3, <2>4, <2>5
<1>2. CASE OpenAnswers
  <2>1. call \in OpenCalls
    BY <1>2, CallShape DEF Inv, OpenAnswers
  <2>2. OpeningAnswer.cursor \in Nat \cup {None} /\ OpeningAnswer.said = "ok"
    BY DEF OpeningAnswer, Inv, TypeOK
  <2>3. /\ call' \in OpenCalls /\ call'.said = "ok" /\ call'.at = "replied"
        /\ call'.cursor = OpeningAnswer.cursor
    BY <1>2, <2>1, <2>2 DEF OpenAnswers, OpenCalls, Answers
  <2>4. call'.tool = "open" /\ UNCHANGED session
    BY <1>2, <2>3 DEF OpenCalls, OpenAnswers
  <2>6. IF OpeningAnswer.cursor = None THEN capture = "discarded" /\ ~slot
                                       ELSE OpeningAnswer.cursor \in 0 .. head
    <3>1. capture \in {"there", "discarded"} /\ head \in Nat
      BY <1>2 DEF OpenAnswers, Inv, CallInv, TypeOK
    <3> QED
      BY <3>1 DEF OpeningAnswer, Inv, SlotInv
  <2>7. OpenIsToldAsItWas'
    BY <2>3, <2>4, <2>6 DEF OpenIsToldAsItWas, session
  <2>5. CallInv'
    BY <1>2, <2>3, <2>4, <2>7 DEF OpenAnswers, CallInv, CaptureIsWhole, Inv, session
  <2> QED
    BY <1>2, <2>3, <2>4, <2>5, CallKeeps DEF OpenAnswers
<1> QED
  BY <1>1, <1>2

(* console_capture: between the check and the read the head only grows, so *)
(* the window stays below it, and what the read skipped is looked at.      *)
LEMMA CaptureInv ==
  ASSUME Inv, CaptureStep
  PROVE  Inv'
<1>1. CASE \E from \in Cursors, to \in Cursors \cup {None} :
             CaptureGetsSession(from, to)
  <2> PICK from \in Cursors, to \in Cursors \cup {None} :
             CaptureGetsSession(from, to)
    BY <1>1
  <2>1. call' = [tool |-> "capture", at |-> "got", from |-> from, to |-> to,
                 lo |-> 0, hi |-> 0, said |-> None]
    BY DEF CaptureGetsSession, CallBegins
  <2>2. call' \in CaptureCalls
    BY <2>1 DEF CaptureCalls, Answers
  <2>3. CallInv'
    BY <2>1 DEF CallInv, CaptureIsWhole, OpenIsToldAsItWas
  <2> QED
    BY <2>1, <2>2, <2>3, CallKeeps DEF CaptureGetsSession
<1>2. ASSUME call.tool = "capture" PROVE call \in CaptureCalls
  BY <1>2, CallShape DEF Inv
<1>3. CASE CaptureChecks
  <2>1. call \in CaptureCalls /\ head \in Nat
    BY <1>2, <1>3 DEF CaptureChecks, CaptureAt, Inv, TypeOK
  <2>2. /\ call' = [call EXCEPT !.at = "checked", !.to = CaptureEnd]
        /\ call.from \in 0 .. head /\ CaptureEnd \in 0 .. head /\ CaptureEnd > call.from
        /\ call.tool = "capture" /\ call.at = "got"
    BY <1>3 DEF CaptureChecks, CaptureAt, WindowIsGood
  <2>3. /\ call' \in CaptureCalls /\ call'.tool = "capture" /\ call'.at = "checked"
        /\ call'.from = call.from /\ call'.to = CaptureEnd /\ call'.said = call.said
    <3>1. CaptureEnd \in Int \cup {None}
      BY <2>1, <2>2
    <3>2. call' = [call EXCEPT !.at = "checked", !.to = CaptureEnd]
      BY <2>2
    <3> HIDE DEF CaptureEnd
    <3> QED
      BY <2>1, <3>1, <3>2 DEF CaptureCalls
  <2>4. UNCHANGED <<session, follower>>
    BY <1>3 DEF CaptureChecks
  <2>5. CaptureIsWhole'
    BY <2>1, <2>2, <2>3 DEF Inv, CallInv, CaptureIsWhole
  <2>6. CallInv'
    BY <2>2, <2>3, <2>4, <2>5 DEF Inv, CallInv, OpenIsToldAsItWas, session
  <2> QED
    BY <2>3, <2>4, <2>6, CallKeeps
<1>4. ASSUME NEW said \in {"ok", "error"}, call \in CaptureCalls, CallReplies(said),
             UNCHANGED <<session, follower>>,
             said = "ok" => call.at = "writing"
      PROVE  Inv'
  <2>1. /\ call' \in CaptureCalls /\ call'.tool = "capture" /\ call'.at = "replied"
        /\ call'.said = said /\ call'.lo = call.lo /\ call'.hi = call.hi
        /\ call'.from = call.from /\ call'.to = call.to
    BY <1>4 DEF CaptureCalls, CallReplies, Answers
  <2>2. call.tool = "capture"
    BY <1>4 DEF CaptureCalls
  <2>3. CallInv'
    BY <1>4, <2>1, <2>2 DEF Inv, CallInv, CaptureIsWhole, OpenIsToldAsItWas
  <2> QED
    BY <1>4, <2>1, <2>3, CallKeeps
<1>5. CASE CaptureRefused
  BY <1>2, <1>4, <1>5 DEF CaptureRefused, CaptureAt
<1>6. CASE CaptureReads
  <2>1. call \in CaptureCalls /\ head \in Nat
    BY <1>2, <1>6 DEF CaptureReads, CaptureAt, Inv, TypeOK
  <2>2. /\ call.from \in 0 .. head /\ call.to \in 0 .. head /\ call.from < call.to
        /\ call.tool = "capture" /\ call.said = None
    BY <1>6 DEF CaptureReads, CaptureAt, Inv, CallInv
  <2>3. ReadFrom(call.from) = call.from
    BY <1>6, <2>1, <2>2 DEF CaptureReads, CaptureFell, ReadFrom, Larger, Oldest
  <2>4. ReadTo(call.from, call.to - call.from) = call.to
    BY <2>1, <2>2, <2>3 DEF ReadTo, Larger, Smaller
  <2>5. call' = [call EXCEPT !.at = "writing", !.lo = call.from, !.hi = call.to]
    BY <1>6, <2>3, <2>4 DEF CaptureReads
  <2>6. /\ call' \in CaptureCalls /\ call'.tool = "capture" /\ call'.at = "writing"
        /\ call'.lo = call'.from /\ call'.hi = call'.to /\ call'.said = call.said
    <3>1. call.from \in Nat /\ call.to \in Nat
      BY <2>1, <2>2
    <3> QED
      BY <2>1, <2>5, <3>1 DEF CaptureCalls
  <2>7. CallInv'
    BY <2>2, <2>6 DEF Inv, CallInv, CaptureIsWhole, OpenIsToldAsItWas
  <2> QED
    BY <1>6, <2>6, <2>7, CallKeeps DEF CaptureReads
<1>7. CASE CaptureReadFails
  <2>1. call.from <= head
    BY <1>7 DEF CaptureReadFails, CaptureAt, Inv, CallInv, TypeOK
  <2>2. head \in Int /\ call \in CaptureCalls /\ call.from \in Int
    BY <1>2, <1>7 DEF CaptureReadFails, CaptureAt, Inv, TypeOK, CaptureCalls
  <2>3. CallReplies("error") /\ UNCHANGED <<session, follower>>
    BY <1>7, <2>1, <2>2 DEF CaptureReadFails
  <2> QED
    BY <1>4, <2>2, <2>3
<1>8. CASE CaptureWrites
  <2>1. call \in CaptureCalls /\ call.at = "writing"
    BY <1>2, <1>8 DEF CaptureWrites, CaptureAt
  <2> QED
    BY <1>4, <1>8, <2>1 DEF CaptureWrites
<1> QED
  BY <1>1, <1>3, <1>5, <1>6, <1>7, <1>8 DEF CaptureStep

(* console_status: what it counts includes every suspension below the head *)
(* it read before, and later ones begin at a head that is no lower.        *)
LEMMA StatusInv ==
  ASSUME Inv, StatusStep
  PROVE  Inv'
<1>1. CASE StatusTakesLock
  <2>1. call' = [tool |-> "status", at |-> IF slot THEN "locked" ELSE "replied",
                 head |-> None, count |-> 0,
                 said |-> IF slot THEN None ELSE "closed"]
    BY <1>1 DEF StatusTakesLock, CallBegins
  <2>2. call' \in StatusCalls
    BY <2>1 DEF StatusCalls
  <2>3. CallInv'
    BY <2>1 DEF CallInv, CaptureIsWhole, OpenIsToldAsItWas
  <2> QED
    BY <1>1, <2>1, <2>2, <2>3, CallKeeps DEF StatusTakesLock
<1>2. ASSUME call.tool = "status" PROVE call \in StatusCalls
  BY <1>2, CallShape DEF Inv
<1>3. CASE StatusReadsHead
  <2>1. /\ call \in StatusCalls /\ head \in Nat /\ slot /\ capture = "there"
        /\ call.tool = "status"
    BY <1>2, <1>3 DEF StatusReadsHead, Inv, TypeOK, SlotInv
  <2>2. call' = [call EXCEPT !.at = "headed", !.head = head]
    BY <1>3, <2>1 DEF StatusReadsHead
  <2>3. /\ call' \in StatusCalls /\ call'.tool = "status" /\ call'.at = "headed"
        /\ call'.head = head /\ call'.said = call.said
    BY <2>1, <2>2 DEF StatusCalls
  <2>4. call.said # "open"
    BY <1>3 DEF StatusReadsHead, Inv, CallInv
  <2>5. CallInv'
    BY <1>3, <2>1, <2>3, <2>4 DEF StatusReadsHead, Inv, CallInv, CaptureIsWhole,
       OpenIsToldAsItWas, session
  <2> QED
    BY <1>3, <2>1, <2>3, <2>5, CallKeeps DEF StatusReadsHead
<1>4. CASE StatusCountsGaps
  <2>1. /\ call \in StatusCalls /\ call.tool = "status" /\ call.at = "headed"
        /\ UNCHANGED <<session, follower>>
        /\ call' = [call EXCEPT !.at = "replied", !.said = "open",
                                !.count = Len(gaps)]
    BY <1>2, <1>4 DEF StatusCountsGaps
  <2>2. /\ call' \in StatusCalls /\ call'.tool = "status" /\ call'.at = "replied"
        /\ call'.head = call.head /\ call'.said = "open" /\ call'.count = Len(gaps)
    <3>1. Len(gaps) \in Nat
      BY DEF Inv, TypeOK
    <3> QED
      BY <2>1, <3>1 DEF StatusCalls
  <2>3. call.head \in 0 .. head
    BY <2>1 DEF Inv, CallInv
  <2>4. ASSUME NEW i \in DOMAIN holes, holes[i] < call.head PROVE i <= Len(gaps)
    <3>1. holes[i] \in Int /\ head \in Int /\ DOMAIN gaps = 1 .. Len(gaps)
      BY DEF Inv, TypeOK
    <3>2. i \in DOMAIN gaps
      BY <2>3, <2>4, <3>1 DEF Inv, LedgerInv
    <3> QED
      BY <3>1, <3>2
  <2>5. CallInv'
    BY <2>1, <2>2, <2>3, <2>4 DEF CallInv, CaptureIsWhole, OpenIsToldAsItWas, session
  <2> QED
    BY <2>1, <2>2, <2>5, CallKeeps
<1> QED
  BY <1>1, <1>3, <1>4 DEF StatusStep

(* Every step keeps the invariant.                                         *)
LEMMA InvNext ==
  ASSUME Inv, [Next]_vars
  PROVE  Inv'
<1>1. CASE UNCHANGED vars
  BY <1>1 DEF vars, Inv, TypeOK, SlotInv, LedgerInv, FollowerInv, ReadsTell, CallInv,
     CaptureIsWhole, OpenIsToldAsItWas
<1>2. CASE SessionStep
  BY <1>2, AppendInv, ParkInv, RecordInv, SessionInv DEF SessionStep
<1>3. CASE ReadStep
  BY <1>3, ReadingInv, ReplyInv DEF ReadStep
<1> QED
  BY <1>1, <1>2, <1>3, OpenInv, CaptureInv, StatusInv DEF Next

THEOREM InvHolds == Spec => []Inv
  BY InvInit, InvNext, PTL DEF Spec

-----------------------------------------------------------------------------
(* Every variable keeps its type.                                          *)
THEOREM ToolTypes == Spec => []TypeOK
  BY InvHolds, PTL DEF Inv

(* Of every suspension inside what a client read as contiguous the client  *)
(* was told, and a status counts those below its head.                     *)
THEOREM SuspensionsReported == Spec => []SuspensionsTold
<1>1. Inv => SuspensionsTold
  <2> SUFFICES ASSUME Inv PROVE SuspensionsTold
    OBVIOUS
  <2>1. ReadsTell
    BY DEF Inv, FollowerInv
  <2>2. ASSUME call.tool = "status", call.said = "open" PROVE StatusTells
    <3> DEFINE Below == {i \in DOMAIN holes : holes[i] < call.head}
    <3>1. call.count \in Nat
      BY <2>2, CallShape DEF Inv, StatusCalls
    <3>2. Below \subseteq 1 .. call.count
      BY <2>2, <3>1 DEF Inv, CallInv, TypeOK
    <3> HIDE DEF Below
    <3>3. IsFiniteSet(1 .. call.count) /\ Cardinality(1 .. call.count) = call.count
      BY <3>1, FS_Interval
    <3>4. Cardinality(Below) <= call.count
      <4>1. Below \in SUBSET (1 .. call.count)
        BY <3>2
      <4>2. Cardinality(Below) <= Cardinality(1 .. call.count)
        BY <3>3, <4>1, FS_Subset
      <4> QED
        BY <3>3, <4>2
    <3>5. call.head # None
      BY <2>2 DEF Inv, CallInv
    <3> QED
      BY <3>4, <3>5 DEF StatusTells, Below
  <2> QED
    BY <2>1, <2>2 DEF SuspensionsTold, StatusTells
<1> QED
  BY <1>1, InvHolds, PTL

(* A captured file holds exactly the window that was asked for, and no call*)
(* of console_capture ends in an exception its handler does not name.      *)
THEOREM CapturesWhole == Spec => []CaptureIsWhole
  BY InvHolds, PTL DEF Inv, CallInv

(* An open is answered with the cursor it had or, when a close got in      *)
(* between, with none and for a session that resolves to nothing any more. *)
THEOREM OpensTold == Spec => []OpenIsToldAsItWas
  BY InvHolds, PTL DEF Inv, CallInv
=============================================================================
