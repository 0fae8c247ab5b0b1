---------------------------- MODULE ConsoleTools ----------------------------
(***************************************************************************)
(* The console tools of tools.py, each a coroutine that takes several steps*)
(* over one session's capture and gap ledger, while the reader appends, a  *)
(* scan suspends the reader and a close discards the capture.              *)
(*                                                                         *)
(* The capture is what CaptureLog promises of it: a byte is its offset, and*)
(* the last Capacity of them can be read.  A suspension is the hole between*)
(* two bytes that ConsoleSession's scans leave.  The session opens and     *)
(* closes once; a reader that dies just appends nothing more.  A client    *)
(* follows the capture with console_read, and meanwhile one call at a time *)
(* is made of the other tools: no call writes what another one reads.      *)
(***************************************************************************)
EXTENDS Integers, Sequences, FiniteSets

CONSTANTS
  Capacity,      \* the bytes the capture retains
  DefaultLimit,  \* DEFAULT_READ_LIMIT
  MaxReadLimit,  \* MAX_READ_LIMIT
  Limits,        \* the limits a client passes to console_read
  Cursors,       \* the positions a client asks for, good and bad
  None,          \* no limit, no cursor, no answer yet
  MaxHead,       \* bound of the model: the target falls silent at this head
  MaxScans       \* bound of the model: scans of the session

ASSUME SizeAssumption ==
  /\ Capacity \in Nat \ {0}
  /\ DefaultLimit \in 0 .. MaxReadLimit /\ MaxReadLimit \in Nat
ASSUME InputAssumption ==
  /\ Limits \subseteq Int \cup {None}
  /\ Cursors \subseteq Int
  /\ None \notin Int /\ None \notin {"ok", "error", "escaped", "open", "closed"}
ASSUME BoundAssumption == MaxHead \in Nat /\ MaxScans \in Nat

VARIABLES
  slot,      \* the manager's _current is this session
  capture,   \* _buffer: "none" before the open, then "there", "discarded"
  head,      \* buffer.head
  scan,      \* what the scan that has the session has done to the reader
  holes,     \* history: head when each suspension began
  gaps,      \* _gaps: the cursor each entry was recorded at
  follower,  \* console_read, called by a client that follows next_cursor
  call       \* the call of another tool in progress, or its reply

session  == <<slot, capture, head, scan, holes, gaps>>
handlers == <<follower, call>>
vars     == <<slot, capture, head, scan, holes, gaps, follower, call>>

Larger(a, b) == IF a > b THEN a ELSE b
Smaller(a, b) == IF a < b THEN a ELSE b

(* A client that begins at cursor c: the stretch it has read without being *)
(* told of a dropped byte, and the suspensions it was told of meanwhile.   *)
FollowerAt(c) ==
  [at |-> "idle", cursor |-> c, from |-> c, told |-> {}, lo |-> 0, hi |-> 0]

NoCall == [tool |-> "none", at |-> "replied", said |-> "ok"]

Init ==
  /\ slot = FALSE /\ capture = "none" /\ head = 0
  /\ scan = "off" /\ holes = <<>> /\ gaps = <<>>
  /\ follower = FollowerAt(0)
  /\ call = NoCall

-----------------------------------------------------------------------------
(* The session, as far as the handlers can see it.                         *)

(* status() keeps the manager's lock for the whole of describe().          *)
ManagerFree == ~(call.tool = "status" /\ call.at # "replied")

(* A scan has the reader parked.                                           *)
Suspended == scan \in {"parked", "recorded"}

ReaderAppends(n) ==
  /\ capture = "there" /\ ~Suspended
  /\ head + n <= MaxHead
  /\ head' = head + n
  /\ UNCHANGED <<handlers, slot, capture, scan, holes, gaps>>

ScanParksReader ==
  /\ capture = "there" /\ scan = "off" /\ Len(holes) < MaxScans
  /\ scan' = "parked"
  /\ holes' = Append(holes, head)
  /\ UNCHANGED <<handlers, slot, capture, head, gaps>>

(* Mutant of GapCursor: a capture that is gone has no head.                *)
GapCursorOrNone == IF capture = "there" THEN head ELSE None

(* A close past its drain timeout has taken the buffer from the scan.      *)
GapCursor == IF capture = "there" THEN head ELSE 0

(* _record_gap *)
ScanRecordsGap ==
  /\ scan = "parked"
  /\ scan' = "recorded"
  /\ gaps' = Append(gaps, GapCursor)
  /\ UNCHANGED <<handlers, slot, capture, head, holes>>

ScanResumesReader ==
  /\ scan = "recorded"
  /\ scan' = "off"
  /\ UNCHANGED <<handlers, slot, capture, head, holes, gaps>>

(* console_close: the slot is freed under the lock, and the shutdown that  *)
(* discards the capture runs outside it.  A second close is a KeyError.    *)
CloseTakesSlot ==
  /\ slot /\ ManagerFree
  /\ slot' = FALSE
  /\ UNCHANGED <<handlers, capture, head, scan, holes, gaps>>

CloseDiscardsCapture ==
  /\ ~slot /\ capture = "there"
  /\ capture' = "discarded"
  /\ UNCHANGED <<handlers, slot, head, scan, holes, gaps>>

SessionStep ==
  \/ \E n \in 1 .. Capacity + 1 : ReaderAppends(n)
  \/ ScanParksReader \/ ScanRecordsGap \/ ScanResumesReader
  \/ CloseTakesSlot \/ CloseDiscardsCapture

Oldest == Larger(0, head - Capacity)

(* buffer.read: where a read from cursor for at most limit bytes ends.     *)
ReadFrom(cursor) == Larger(cursor, Oldest)
ReadTo(cursor, limit) ==
  ReadFrom(cursor) + Larger(0, Smaller(limit, head - ReadFrom(cursor)))

-----------------------------------------------------------------------------
(* console_open.                                                           *)

(* A tool is called when the last one has replied.                         *)
CallBegins(c) == call.at = "replied" /\ call' = c

CallReplies(said) == call' = [call EXCEPT !.at = "replied", !.said = said]

(* MANAGER.open has published the session before _open_session reads its   *)
(* head.                                                                   *)
OpenPublishes ==
  /\ capture = "none"
  /\ CallBegins([tool |-> "open", at |-> "published", cursor |-> None,
                 said |-> None])
  /\ slot' = TRUE
  /\ capture' = "there"
  /\ UNCHANGED <<head, scan, holes, gaps, follower>>

(* Mutant of OpeningAnswer: the SessionError of the capture is left to the *)
(* except clause of console_open, which makes an error of it.              *)
OpeningUnguarded ==
  IF capture = "there" THEN [cursor |-> head, said |-> "ok"]
                       ELSE [cursor |-> None, said |-> "error"]

OpeningAnswer ==
  [cursor |-> IF capture = "there" THEN head ELSE None, said |-> "ok"]

OpenAnswers ==
  /\ call.tool = "open" /\ call.at = "published"
  /\ call' = [call EXCEPT !.at = "replied", !.cursor = OpeningAnswer.cursor,
                          !.said = OpeningAnswer.said]
  /\ UNCHANGED <<session, follower>>

-----------------------------------------------------------------------------
(* console_read.                                                           *)

(* _read_limit *)
ReadLimit(limit) ==
  IF limit = None THEN DefaultLimit ELSE Larger(0, Smaller(limit, MaxReadLimit))

(* A client that starts over, at a position it was given or not.           *)
Seek(c) ==
  /\ follower.at = "idle"
  /\ follower' = FollowerAt(c)
  /\ UNCHANGED <<session, call>>

(* MANAGER.get, in a thread: the coroutine goes on later, with a reference *)
(* to a session that need not be the manager's any more.                   *)
ReadGetsSession ==
  /\ follower.at = "idle"
  /\ slot /\ ManagerFree
  /\ follower' = [follower EXCEPT !.at = "got"]
  /\ UNCHANGED <<session, call>>

ReadTakesBytes(limit) ==
  /\ follower.at = "got"
  /\ capture = "there" /\ follower.cursor \in 0 .. head
  /\ follower' = [follower EXCEPT
                    !.at = "read", !.lo = ReadFrom(follower.cursor),
                    !.hi = ReadTo(follower.cursor, ReadLimit(limit))]
  /\ UNCHANGED <<session, call>>

(* The SessionError of a discarded capture, or a CursorError.              *)
ReadRefused ==
  /\ follower.at = "got"
  /\ capture # "there" \/ follower.cursor \notin 0 .. head
  /\ follower' = [follower EXCEPT !.at = "idle"]
  /\ UNCHANGED <<session, call>>

(* Mutant of Overlapping: a gap at the start of the window is left out.    *)
OverlappingHalfOpen(lo, hi) == {i \in DOMAIN gaps : lo < gaps[i] /\ gaps[i] <= hi}

(* gaps_overlapping *)
Overlapping(lo, hi) == {i \in DOMAIN gaps : lo <= gaps[i] /\ gaps[i] <= hi}

(* The reply: a client that is told of dropped bytes starts a new stretch. *)
ReadAddsGaps ==
  /\ follower.at = "read"
  /\ follower' =
       [FollowerAt(follower.hi) EXCEPT
          !.from = IF follower.lo > follower.cursor THEN follower.lo
                                                    ELSE follower.from,
          !.told = follower.told \cup Overlapping(follower.lo, follower.hi)]
  /\ UNCHANGED <<session, call>>

ReadStep ==
  \/ \E c \in Cursors : Seek(c)
  \/ ReadGetsSession \/ ReadRefused \/ ReadAddsGaps
  \/ \E limit \in Limits : ReadTakesBytes(limit)

-----------------------------------------------------------------------------
(* console_capture.                                                        *)

CaptureGetsSession(from, to) ==
  /\ slot /\ ManagerFree
  /\ CallBegins([tool |-> "capture", at |-> "got", from |-> from, to |-> to,
                 lo |-> 0, hi |-> 0, said |-> None])
  /\ UNCHANGED <<session, follower>>

CaptureAt(place) == call.tool = "capture" /\ call.at = place

CaptureEnd == IF call.to = None THEN head ELSE call.to

(* A window of positions this API handed out, retained and not empty.      *)
WindowIsGood ==
  /\ call.from \in 0 .. head /\ CaptureEnd \in 0 .. head
  /\ call.from >= Oldest /\ CaptureEnd > call.from

CaptureChecks ==
  /\ CaptureAt("got")
  /\ capture = "there" /\ WindowIsGood
  /\ call' = [call EXCEPT !.at = "checked", !.to = CaptureEnd]
  /\ UNCHANGED <<session, follower>>

(* No artifact root, no reserved arguments, a bad window, or no capture.   *)
CaptureRefused ==
  /\ CaptureAt("got")
  /\ CallReplies("error")
  /\ UNCHANGED <<session, follower>>

(* Mutant of CaptureFell: what the read skipped is not looked at.          *)
CaptureFellUnnoticed == FALSE

(* The reader evicted a part of the window since the check.                *)
CaptureFell == ReadFrom(call.from) > call.from

CaptureReads ==
  /\ CaptureAt("checked")
  /\ capture = "there" /\ call.from <= head /\ ~CaptureFell
  /\ call' = [call EXCEPT !.at = "writing", !.lo = ReadFrom(call.from),
                          !.hi = ReadTo(call.from, call.to - call.from)]
  /\ UNCHANGED <<session, follower>>

(* The except clause names no CursorError: one of this read would escape.  *)
CaptureReadFails ==
  /\ CaptureAt("checked")
  /\ IF capture = "there" /\ call.from > head THEN CallReplies("escaped")
     ELSE (capture # "there" \/ CaptureFell) /\ CallReplies("error")
  /\ UNCHANGED <<session, follower>>

(* open_artifact writes the file whole or names what it could not do.      *)
CaptureWrites ==
  /\ CaptureAt("writing")
  /\ \E said \in {"ok", "error"} : CallReplies(said)
  /\ UNCHANGED <<session, follower>>

CaptureStep ==
  \/ \E from \in Cursors, to \in Cursors \cup {None} : CaptureGetsSession(from, to)
  \/ CaptureChecks \/ CaptureRefused \/ CaptureReads \/ CaptureReadFails
  \/ CaptureWrites

-----------------------------------------------------------------------------
(* console_status.                                                         *)

StatusTakesLock ==
  /\ CallBegins([tool |-> "status", at |-> IF slot THEN "locked" ELSE "replied",
                 head |-> None, count |-> 0,
                 said |-> IF slot THEN None ELSE "closed"])
  /\ UNCHANGED <<session, follower>>

(* describe: the buffer's head first, ...                                  *)
StatusReadsHead ==
  /\ call.tool = "status" /\ call.at = "locked"
  /\ call' = [call EXCEPT !.at = "headed",
                          !.head = IF capture = "there" THEN head ELSE None]
  /\ UNCHANGED <<session, follower>>

(* ... and gap_summary after it.                                           *)
StatusCountsGaps ==
  /\ call.tool = "status" /\ call.at = "headed"
  /\ call' = [call EXCEPT !.at = "replied", !.said = "open", !.count = Len(gaps)]
  /\ UNCHANGED <<session, follower>>

StatusStep == StatusTakesLock \/ StatusReadsHead \/ StatusCountsGaps

-----------------------------------------------------------------------------
Next ==
  \/ SessionStep
  \/ OpenPublishes \/ OpenAnswers
  \/ ReadStep \/ CaptureStep \/ StatusStep

Spec == Init /\ [][Next]_vars

-----------------------------------------------------------------------------
Answers == {None, "ok", "error", "escaped"}

OpenCalls == [tool: {"open"}, at: {"published", "replied"},
              cursor: Nat \cup {None}, said: Answers]
CaptureCalls == [tool: {"capture"}, at: {"got", "checked", "writing", "replied"},
                 from: Int, to: Int \cup {None}, lo: Nat, hi: Nat, said: Answers]
StatusCalls == [tool: {"status"}, at: {"locked", "headed", "replied"},
                head: Nat \cup {None}, count: Nat, said: {None, "open", "closed"}]

TypeOK ==
  /\ slot \in BOOLEAN /\ capture \in {"none", "there", "discarded"}
  /\ head \in 0 .. MaxHead
  /\ scan \in {"off", "parked", "recorded"}
  /\ holes \in Seq(0 .. MaxHead) /\ gaps \in Seq(0 .. MaxHead)
  /\ follower \in [at: {"idle", "got", "read"}, cursor: Int, from: Int,
                   told: SUBSET (1 .. MaxScans), lo: Nat, hi: Nat]
  /\ call \in {NoCall} \cup OpenCalls \cup CaptureCalls \cup StatusCalls

(* Of every suspension between two bytes that a client read as contiguous  *)
(* the client was told, wherever the scan fell among the steps of its      *)
(* reads (gaps_overlapping and the order console_read calls it in).        *)
ReadsTell ==
  \A i \in DOMAIN holes :
    follower.from < holes[i] /\ holes[i] < follower.cursor => i \in follower.told

(* A status that says open has the head of a capture, and counts every     *)
(* suspension before that head.                                            *)
StatusTells ==
  call.tool = "status" /\ call.said = "open" =>
    /\ call.head # None
    /\ Cardinality({i \in DOMAIN holes : holes[i] < call.head}) <= call.count

(* No suspension is hidden from a client that reads or asks.               *)
SuspensionsTold == ReadsTell /\ StatusTells

(* A file console_capture answered for holds exactly the window that was   *)
(* asked for, and no window that passed the check makes the read raise what*)
(* its except clause does not name, although the reader went on and a close*)
(* came between the two.                                                   *)
CaptureIsWhole ==
  call.tool = "capture" =>
    /\ call.at = "writing" \/ call.said = "ok" => call.lo = call.from /\ call.hi = call.to
    /\ call.said # "escaped"

(* An open that put its session in the slot is never answered as one that  *)
(* failed.  It names a cursor inside the capture; or, because a close got  *)
(* in between, none, and then, as its note says, the capture is gone and   *)
(* the session's id resolves to nothing (_open_session, console_open).     *)
OpenIsToldAsItWas ==
  call.tool = "open" /\ call.at = "replied" =>
    /\ call.said = "ok"
    /\ IF call.cursor = None THEN capture = "discarded" /\ ~slot
                             ELSE call.cursor \in 0 .. head
=============================================================================
