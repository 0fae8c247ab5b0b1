--------------------------- MODULE ConsoleSession ---------------------------
(***************************************************************************)
(* One console session (ConsoleSession of session.py): the reader thread,  *)
(* the tool calls that write or scan on threads of their own, the close    *)
(* that ends the session, the drain thread a slow close leaves behind, and *)
(* the adapter under all of them, which may be unplugged at any moment.    *)
(*                                                                         *)
(* A byte is known only by the line rate it was framed at, so a set of     *)
(* rates stands for the bytes queued in the driver or held by a thread,    *)
(* and head counts the appends made to the capture.  Which candidate a     *)
(* sweep visits when, and what it concludes, is left open here: a first    *)
(* sweep visits every candidate once, later visits are at most MaxRevisits.*)
(***************************************************************************)
EXTENDS Integers, Sequences

CONSTANTS
  Sends,        \* calls of write()
  Scans,        \* calls of scan_baud()
  Cycles,       \* calls of scan_baud_cycling()
  Rates,        \* the candidate rates
  Original,     \* the rate the port was opened at
  Refusable,    \* the candidates this chip may refuse to be set to
  Fickle,       \* the rates it may refuse to go back to, having been there
  Odd,          \* a rate nobody asked for, left by a refused assignment
  None,         \* no rate, no reason, nothing recorded
  Nobody,       \* holder of a free lock
  Closer,       \* the thread in _shutdown
  Drainer,      \* the thread in _release_port_when_drained
  Payload,      \* the bytes each write() is called with
  MaxHead,      \* bound of the model: the target falls silent at this head
  MaxRevisits   \* bound of the model: visits of a scan after its first sweep

Calls == Sends \cup Scans \cup Cycles
Sweepers == Scans \cup Cycles

Reasons == {"read", "crash", "disappeared", "write", "scan"}
Errors == {"unparked", "rate", "relay", "decide"}

ASSUME CallsAssumption ==
  /\ Sends \cap Sweepers = {}
  /\ Scans \cap Cycles = {}
ASSUME ActorAssumption ==
  /\ {Nobody, Closer, Drainer} \cap Calls = {}
  /\ Nobody # Closer /\ Nobody # Drainer /\ Closer # Drainer
ASSUME RateAssumption ==
  /\ Original \notin Refusable
  /\ {Odd, None} \cap (Rates \cup {Original}) = {}
  /\ Odd # None
  /\ None \notin Reasons
ASSUME PayloadAssumption == Payload \in Nat
ASSUME BoundAssumption == MaxHead \in Nat /\ MaxRevisits \in Nat

VARIABLES
  plugged,    \* the adapter is on the bus and its fd works
  byId,       \* the by-id path still resolves
  portOpen,   \* _serial is open
  portRate,   \* the rate the UART is really at
  rxq,        \* driver input queue, as the rates its bytes were framed at
  wlock,      \* holder of _write_lock
  closing, stop, cancelled, closed,   \* _closing, _stop, cancel_write, _closed
  pause, parked,                      \* _scan_pause, _scan_parked
  alive, reason,                      \* _alive, _death_reason
  baud,       \* self.baud
  head,       \* appends made to the capture
  gaps,       \* _gaps
  reader,     \* where the reader thread is
  chunk,      \* what it has read and not yet appended
  pc,         \* where each call is
  scan,       \* the locals of the scan that holds the lock
  outcome,    \* what each call told its caller; of a write, the bytes the
              \* kernel's tty queue has taken and those pyserial counted
  late,       \* history: writes started after _closing was set
  closer,     \* where _shutdown is
  held,       \* _shutdown warned that the port is still held
  drainer     \* where the drain thread is

device == <<plugged, byId, portOpen, portRate, rxq>>
ending == <<closing, stop, cancelled, closed, closer, held, drainer>>
life   == <<alive, reason>>
record == <<baud, head, gaps>>
thread == <<reader, chunk>>
calls  == <<pc, scan, outcome, late>>

(* What a step of each kind of actor never changes.                        *)
envKeeps == <<ending, life, record, thread, calls, portOpen, portRate, wlock,
              pause, parked>>
readerKeeps == <<ending, calls, plugged, byId, portOpen, portRate, wlock,
                 pause, baud, gaps>>
writeKeeps == <<device, record, thread, closing, stop, closed, pause, parked,
                scan, closer, held, drainer>>
scanKeeps == <<ending, thread, plugged, byId, portOpen, parked, head, late>>
closeKeeps == <<record, thread, calls, plugged, byId, portRate, pause, parked,
                reason>>

vars == <<plugged, byId, portOpen, portRate, rxq, wlock, closing, stop,
          cancelled, closed, pause, parked, alive, reason, baud, head, gaps,
          reader, chunk, pc, scan, outcome, late, closer, held, drainer>>

AllRates == Rates \cup {Original}
LineRates == AllRates \cup {Odd}

(* Where a scan that owns the port can be, and where it calls the port.    *)
Restoring == {"restore", "restoreFlush", "fallback", "fallbackFlush"}
Sampling == {"next", "flush", "relay", "dwell", "dwelt", "decide"}
Suspending == Sampling \cup Restoring \cup {"settle", "resume"}
Pausing == {"wait", "gap"} \cup Suspending
Writing == {"inport", "select"}
Holding == {"check", "ready", "pause", "finish", "release"} \cup Writing \cup Pausing
PortUse == {"ready"} \cup Writing \cup Sampling \cup Restoring

ReaderPlaces == {"loop", "pausecheck", "park", "parked", "unpark", "read",
                 "append", "exists", "done"}
(* Where the reader is about to call the port or the buffer.               *)
ReaderBusy == {"read", "append", "exists"}

NoScan == [by |-> Nobody, orig |-> None, applied |-> None, tried |-> {},
           rejected |-> {}, samples |-> {}, final |-> None, winner |-> None,
           error |-> None, gap |-> 0, extra |-> 0]

Init ==
  /\ plugged = TRUE /\ byId = TRUE /\ portOpen = TRUE
  /\ portRate = Original /\ rxq = {}
  /\ wlock = Nobody
  /\ closing = FALSE /\ stop = FALSE /\ cancelled = FALSE /\ closed = FALSE
  /\ pause = FALSE /\ parked = FALSE
  /\ alive = TRUE /\ reason = None
  /\ baud = Original /\ head = 0 /\ gaps = <<>>
  /\ reader = "loop" /\ chunk = {}
  /\ pc = [c \in Calls |-> "start"]
  /\ scan = NoScan
  /\ outcome = [c \in Calls |-> [reply |-> "none", taken |-> 0, count |-> 0]]
  /\ late = 0
  /\ closer = "idle" /\ held = FALSE /\ drainer = "none"

(* Mutant of Die: the latest reason wins.                                  *)
DieOfLatest(why) ==
  /\ alive' = FALSE
  /\ reason' = why

(* _die: the first reason wins.                                            *)
Die(why) ==
  /\ alive' = FALSE
  /\ reason' = IF reason = None THEN why ELSE reason

-----------------------------------------------------------------------------
(* The adapter and the target.                                             *)

DataArrives ==
  /\ plugged /\ portOpen /\ head < MaxHead
  /\ rxq' = rxq \cup {portRate}
  /\ UNCHANGED <<envKeeps, plugged, byId>>

Unplug ==
  /\ plugged
  /\ plugged' = FALSE
  /\ rxq' = {}
  /\ UNCHANGED <<envKeeps, byId>>

(* udev deletes the by-id link some time after the unplug.                 *)
UdevRemoves ==
  /\ ~plugged /\ byId
  /\ byId' = FALSE
  /\ UNCHANGED <<envKeeps, plugged, rxq>>

-----------------------------------------------------------------------------
(* _read_forever.                                                          *)

ReaderAt(from, to) == reader = from /\ reader' = to

ReaderLoop ==
  /\ \/ stop /\ ReaderAt("loop", "done")
     \/ ~stop /\ ReaderAt("loop", "pausecheck")
  /\ UNCHANGED <<readerKeeps, life, rxq, parked, head, chunk>>

ReaderChecksPause ==
  /\ \/ pause /\ ReaderAt("pausecheck", "park")
     \/ ~pause /\ ReaderAt("pausecheck", "read")
  /\ UNCHANGED <<readerKeeps, life, rxq, parked, head, chunk>>

ReaderParks ==
  /\ ReaderAt("park", "parked")
  /\ parked' = TRUE
  /\ UNCHANGED <<readerKeeps, life, rxq, head, chunk>>

ReaderWakes ==
  /\ ~pause \/ stop
  /\ ReaderAt("parked", "unpark")
  /\ UNCHANGED <<readerKeeps, life, rxq, parked, head, chunk>>

ReaderUnparks ==
  /\ ReaderAt("unpark", "loop")
  /\ parked' = FALSE
  /\ UNCHANGED <<readerKeeps, life, rxq, head, chunk>>

ReadData ==
  /\ portOpen /\ rxq # {}
  /\ ReaderAt("read", "append")
  /\ chunk' = rxq
  /\ rxq' = {}
  /\ UNCHANGED <<readerKeeps, life, parked, head>>

(* Nothing within the timeout, or cancel_read() cut the read short.        *)
ReadQuiet ==
  /\ portOpen /\ (rxq = {} \/ stop)
  /\ ReaderAt("read", "exists")
  /\ UNCHANGED <<readerKeeps, life, rxq, parked, head, chunk>>

(* Mutant of ClosePulledPort: every failed read passes for a close.        *)
AnyFailureIsClose == TRUE

ClosePulledPort == stop

(* SerialException or OSError: a death, unless close() is what caused it.  *)
ReadFails ==
  /\ ReaderAt("read", "done")
  /\ \/ ClosePulledPort /\ UNCHANGED life
     \/ ~ClosePulledPort /\ Die("read")
  /\ UNCHANGED <<readerKeeps, rxq, parked, head, chunk>>

(* Any other exception: the fd was closed under a reader that outlived the *)
(* join.                                                                   *)
ReadCrashes ==
  /\ ~portOpen
  /\ ReaderAt("read", "done")
  /\ Die("crash")
  /\ UNCHANGED <<readerKeeps, rxq, parked, head, chunk>>

AppendChunk ==
  /\ ReaderAt("append", "loop")
  /\ head' = head + 1
  /\ chunk' = {}
  /\ UNCHANGED <<readerKeeps, life, rxq, parked>>

(* Mutant of PathResolves: a quiet line is only ever a quiet target.       *)
PathAssumed == TRUE

PathResolves == byId

ReaderChecksPath ==
  /\ \/ PathResolves /\ ReaderAt("exists", "loop") /\ UNCHANGED life
     \/ ~PathResolves /\ ReaderAt("exists", "done") /\ Die("disappeared")
  /\ UNCHANGED <<readerKeeps, rxq, parked, head, chunk>>

ReaderStep ==
  \/ ReaderLoop \/ ReaderChecksPause \/ ReaderParks \/ ReaderWakes
  \/ ReaderUnparks \/ ReadData \/ ReadQuiet \/ ReadFails \/ ReadCrashes
  \/ AppendChunk \/ ReaderChecksPath

-----------------------------------------------------------------------------
(* What every call does with _write_lock.                                  *)

CallAt(c, from, to) == pc[c] = from /\ pc' = [pc EXCEPT ![c] = to]

Answer(c, reply) == outcome' = [outcome EXCEPT ![c].reply = reply]

Acquire(c) ==
  /\ wlock = Nobody
  /\ CallAt(c, "start", "check")
  /\ wlock' = c
  /\ UNCHANGED <<writeKeeps, life, cancelled, outcome, late>>

(* Mutant of Refused: only a finished close refuses.                       *)
RefusedIfClosed == closed \/ ~alive

Refused == closed \/ closing \/ ~alive

Refuse(c) ==
  /\ Refused
  /\ CallAt(c, "check", "end")
  /\ wlock' = Nobody
  /\ Answer(c, "refused")
  /\ UNCHANGED <<writeKeeps, life, cancelled, late>>

-----------------------------------------------------------------------------
(* write().                                                                *)

SendAdmitted(c) ==
  /\ c \in Sends
  /\ ~Refused
  /\ CallAt(c, "check", "ready")
  /\ UNCHANGED <<writeKeeps, life, wlock, cancelled, outcome, late>>

WriteStarts(c) ==
  /\ CallAt(c, "ready", "inport")
  /\ late' = IF closing THEN late + 1 ELSE late
  /\ UNCHANGED <<writeKeeps, life, wlock, cancelled, outcome>>

(* os.write: the kernel queues some of what pyserial has not yet counted.  *)
KernelTakes(c) ==
  /\ plugged
  /\ CallAt(c, "inport", "select")
  /\ \E n \in 1 .. Payload - outcome[c].count :
       outcome' = [outcome EXCEPT ![c].taken = outcome[c].count + n]
  /\ UNCHANGED <<writeKeeps, life, wlock, cancelled, late>>

(* select: there is room for more, and only now is the last chunk counted. *)
KernelHasRoom(c) ==
  /\ ~cancelled
  /\ CallAt(c, "select", "inport")
  /\ outcome' = [outcome EXCEPT ![c].count = outcome[c].taken]
  /\ UNCHANGED <<writeKeeps, life, wlock, cancelled, late>>

(* Mutant of CountIsShort: the count serial.write returns is discarded.    *)
CountDiscarded(count) == FALSE

CountIsShort(count) == count # Payload

(* serial.write returns when all is counted, or on a cancel_write(), which *)
(* it looks at before it counts what the kernel took last.  Nobody flushes:*)
(* what the kernel holds need not be on the wire.                          *)
WriteReturns(c) ==
  /\ \/ /\ CallAt(c, "inport", "end")
        /\ outcome[c].count = Payload /\ UNCHANGED cancelled
     \/ CallAt(c, "select", "end") /\ cancelled /\ cancelled' = FALSE
  /\ Answer(c, IF CountIsShort(outcome[c].count) THEN "aborted" ELSE "sent")
  /\ wlock' = Nobody
  /\ UNCHANGED <<writeKeeps, life, late>>

(* SerialTimeoutException: the far end takes nothing; not a death.         *)
WriteTimesOut(c) ==
  /\ CallAt(c, "inport", "end") \/ CallAt(c, "select", "end")
  /\ Answer(c, "timeout")
  /\ wlock' = Nobody
  /\ UNCHANGED <<writeKeeps, life, cancelled, late>>

WriteFails(c) ==
  /\ \/ CallAt(c, "inport", "end") /\ outcome[c].count < Payload
     \/ CallAt(c, "select", "end")
  /\ Die("write")
  /\ Answer(c, "failed")
  /\ wlock' = Nobody
  /\ UNCHANGED <<writeKeeps, cancelled, late>>

WriteStep(c) ==
  \/ SendAdmitted(c) \/ WriteStarts(c)
  \/ KernelTakes(c) \/ KernelHasRoom(c)
  \/ WriteReturns(c) \/ WriteTimesOut(c) \/ WriteFails(c)

-----------------------------------------------------------------------------
(* scan_baud() and scan_baud_cycling(): taking the port over.              *)

LockTimesOut(c) ==
  /\ c \in Sweepers
  /\ wlock # Nobody
  /\ CallAt(c, "start", "end")
  /\ Answer(c, "busy")
  /\ UNCHANGED <<scanKeeps, life, portRate, rxq, wlock, pause, baud, gaps,
                 scan>>

ScanAdmitted(c) ==
  /\ c \in Sweepers
  /\ ~Refused
  /\ CallAt(c, "check", "pause")
  /\ scan' = [NoScan EXCEPT !.by = c, !.orig = baud, !.applied = baud,
                            !.final = baud]
  /\ UNCHANGED <<scanKeeps, life, portRate, rxq, wlock, pause, baud, gaps,
                 outcome>>

PauseReader(c) ==
  /\ CallAt(c, "pause", "wait")
  /\ pause' = TRUE
  /\ UNCHANGED <<scanKeeps, life, portRate, rxq, wlock, baud, gaps, scan,
                 outcome>>

(* Mutant of ParkObserved: the scan goes on without waiting.               *)
ParkNotAwaited == TRUE

ParkObserved == parked

ReaderHasParked(c) ==
  /\ ParkObserved
  /\ CallAt(c, "wait", "gap")
  /\ UNCHANGED <<scanKeeps, life, portRate, rxq, wlock, pause, baud, gaps,
                 scan, outcome>>

(* The wait is over and the reader has not parked.                         *)
ParkTimesOut(c) ==
  /\ ~parked
  /\ CallAt(c, "wait", "resume")
  /\ scan' = [scan EXCEPT !.error = "unparked"]
  /\ UNCHANGED <<scanKeeps, life, portRate, rxq, wlock, pause, baud, gaps,
                 outcome>>

(* Mutant of NewGap: recorded as if it were over.                          *)
NewGapOver == [at |-> IF closed THEN 0 ELSE head, state |-> "over"]

(* A close past its drain timeout has taken the buffer away.               *)
NewGap == [at |-> IF closed THEN 0 ELSE head, state |-> "open"]

(* _record_gap                                                             *)
RecordGap(c) ==
  /\ CallAt(c, "gap", "next")
  /\ gaps' = Append(gaps, NewGap)
  /\ scan' = [scan EXCEPT !.gap = Len(gaps) + 1]
  /\ UNCHANGED <<scanKeeps, life, portRate, rxq, wlock, pause, baud, outcome>>

-----------------------------------------------------------------------------
(* The candidates.  A scan on its way out stops between two of them.       *)

Stopping == stop \/ closing

Due(c, rate) ==
  /\ ~Stopping
  /\ \/ rate \in Rates \ scan.tried
     \/ /\ c \in Scans /\ scan.tried = Rates
        /\ rate \notin scan.rejected /\ scan.extra < MaxRevisits

Visited(rate) ==
  [scan EXCEPT !.tried = @ \cup {rate},
               !.extra = IF rate \in scan.tried THEN @ + 1 ELSE @]

SetRate(c, rate) ==
  /\ Due(c, rate) /\ plugged
  /\ CallAt(c, "next", "flush")
  /\ portRate' = rate
  /\ scan' = [Visited(rate) EXCEPT !.applied = rate]
  /\ UNCHANGED <<scanKeeps, life, rxq, wlock, pause, baud, gaps, outcome>>

(* ValueError or OverflowError: this chip will not do that rate.           *)
RateRefused(c, rate) ==
  /\ Due(c, rate) /\ rate \in Refusable
  /\ CallAt(c, "next", "next")
  /\ portRate' \in {portRate, Odd}
  /\ scan' = [Visited(rate) EXCEPT !.rejected = @ \cup {rate},
                                   !.samples = @ \ {rate}]
  /\ UNCHANGED <<scanKeeps, life, rxq, wlock, pause, baud, gaps, outcome>>

(* SerialException or OSError, from the assignment or from the flush; or   *)
(* either raises termios.error, which no except clause expects.            *)
RateFails(c) ==
  /\ ~plugged
  /\ \/ (\E rate \in Rates : Due(c, rate)) /\ CallAt(c, "next", "restore")
     \/ CallAt(c, "flush", "restore")
  /\ Die("scan") \/ UNCHANGED life
  /\ scan' = [scan EXCEPT !.error = "rate"]
  /\ UNCHANGED <<scanKeeps, portRate, rxq, wlock, pause, baud, gaps, outcome>>

(* Mutant of Flushed: the input queue is not discarded.                    *)
NotFlushed == rxq

Flushed == {}

(* reset_input_buffer(): what the previous rate left is no evidence.       *)
FlushInput(c) ==
  /\ plugged
  /\ rxq' = Flushed
  /\ IF c \in Scans
     THEN /\ CallAt(c, "flush", "dwell")
          /\ scan' = [scan EXCEPT !.samples = @ \cup {scan.applied}]
     ELSE CallAt(c, "flush", "relay") /\ UNCHANGED scan
  /\ UNCHANGED <<scanKeeps, life, portRate, wlock, pause, baud, gaps, outcome>>

(* on_rate(): the relay reboots the target, or the call raises.            *)
PowerCycle(c) ==
  /\ \/ CallAt(c, "relay", "dwell") /\ UNCHANGED scan
     \/ CallAt(c, "relay", "restore") /\ scan' = [scan EXCEPT !.error = "relay"]
  /\ UNCHANGED <<scanKeeps, life, portRate, rxq, wlock, pause, baud, gaps,
                 outcome>>

(* A read that was under way when stop or closing was set still returns,   *)
(* and still fails.                                                        *)
DwellReads(c) ==
  /\ pc[c] = "dwell" /\ rxq # {}
  /\ rxq' = {}
  /\ UNCHANGED <<scanKeeps, life, portRate, wlock, pause, baud, gaps, pc, scan,
                 outcome>>

DwellFails(c) ==
  /\ CallAt(c, "dwell", "dwelt")
  /\ Die("scan")
  /\ UNCHANGED <<scanKeeps, portRate, rxq, wlock, pause, baud, gaps, scan,
                 outcome>>

(* The line is quiet and the by-id path is gone.                           *)
DwellFindsGone(c) ==
  /\ rxq = {} /\ ~byId
  /\ CallAt(c, "dwell", "dwelt")
  /\ Die("disappeared")
  /\ UNCHANGED <<scanKeeps, portRate, rxq, wlock, pause, baud, gaps, scan,
                 outcome>>

(* The deadline passed, or the session is being closed.                    *)
DwellOver(c) ==
  /\ CallAt(c, "dwell", "dwelt")
  /\ UNCHANGED <<scanKeeps, life, portRate, rxq, wlock, pause, baud, gaps,
                 scan, outcome>>

DwellJudged(c) ==
  /\ \/ alive /\ CallAt(c, "dwelt", "next")
     \/ ~alive /\ CallAt(c, "dwelt", "decide")
  /\ scan' = [scan EXCEPT !.samples = @ \cup {scan.applied}]
  /\ UNCHANGED <<scanKeeps, life, portRate, rxq, wlock, pause, baud, gaps,
                 outcome>>

SweepsOver(c) ==
  /\ Stopping \/ scan.tried = Rates
  /\ CallAt(c, "next", "decide")
  /\ UNCHANGED <<scanKeeps, life, portRate, rxq, wlock, pause, baud, gaps,
                 scan, outcome>>

(* decide() may name any rate with a sample, none of them, or raise.       *)
Decide(c) ==
  /\ CallAt(c, "decide", "restore")
  /\ \/ \E w \in scan.samples : scan' = [scan EXCEPT !.winner = w, !.final = w]
     \/ UNCHANGED scan
     \/ scan.samples # {} /\ scan' = [scan EXCEPT !.error = "decide"]
  /\ UNCHANGED <<scanKeeps, life, portRate, rxq, wlock, pause, baud, gaps,
                 outcome>>

-----------------------------------------------------------------------------
(* The finally clauses: the winner, else the rate the scan found.          *)

FirstChoice(c) == pc[c] \in {"restore", "restoreFlush"}
Candidate(c) == IF FirstChoice(c) THEN scan.final ELSE scan.orig

(* Mutant of AfterFailure: the same rate again until the port takes it.    *)
SameAgain(c) == IF FirstChoice(c) THEN "restore" ELSE "fallback"

(* `continue`: to the second candidate, unless it is the first one again.  *)
AfterFailure(c) ==
  IF FirstChoice(c) /\ scan.final # scan.orig THEN "fallback" ELSE "settle"

RestoreRate(c) ==
  /\ plugged
  /\ CallAt(c, "restore", "restoreFlush") \/ CallAt(c, "fallback", "fallbackFlush")
  /\ portRate' = Candidate(c)
  /\ UNCHANGED <<scanKeeps, life, rxq, wlock, pause, baud, gaps, scan,
                 outcome>>

(* The adapter is gone, or the chip refuses a rate it took a moment ago.   *)
(* The rate the scan found the port at is refused only if it is Fickle,    *)
(* and the port has left it.                                               *)
RestoreFails(c) ==
  /\ pc[c] \in {"restore", "fallback"}
  /\ CallAt(c, pc[c], AfterFailure(c))
  /\ \/ ~plugged /\ UNCHANGED portRate
     \/ /\ \/ Candidate(c) \in Refusable \ {scan.orig}
           \/ Candidate(c) \in Fickle /\ portRate # Candidate(c)
        /\ portRate' \in {portRate, Odd}
  /\ UNCHANGED <<scanKeeps, life, rxq, wlock, pause, baud, gaps, scan,
                 outcome>>

RestoreFlush(c) ==
  /\ plugged
  /\ pc[c] \in {"restoreFlush", "fallbackFlush"}
  /\ CallAt(c, pc[c], "settle")
  /\ rxq' = Flushed
  /\ scan' = [scan EXCEPT !.applied = Candidate(c)]
  /\ UNCHANGED <<scanKeeps, life, portRate, wlock, pause, baud, gaps, outcome>>

RestoreFlushFails(c) ==
  /\ ~plugged
  /\ pc[c] \in {"restoreFlush", "fallbackFlush"}
  /\ CallAt(c, pc[c], AfterFailure(c))
  /\ UNCHANGED <<scanKeeps, life, portRate, rxq, wlock, pause, baud, gaps,
                 scan, outcome>>

(* Mutants of BaudAfter: the rate the scan wanted; the winner, if any.     *)
BaudWanted == scan.final
BaudOfWinner == scan.winner

BaudAfter == scan.applied

(* Mutant of WinnerAfter: a winner stays one, whatever the port took.      *)
WinnerKept == scan.winner

WinnerAfter == IF scan.winner = scan.applied THEN scan.winner ELSE None

(* A winner the port did not take is no winner, and baud is what it took.  *)
Settle(c) ==
  /\ CallAt(c, "settle", "resume")
  /\ scan' = [scan EXCEPT !.winner = WinnerAfter]
  /\ baud' = BaudAfter
  /\ UNCHANGED <<scanKeeps, life, portRate, rxq, wlock, pause, gaps, outcome>>

(* Mutant of PauseAfter: a scan that raised leaves the reader parked.      *)
PauseUnlessRaised == scan.error # None

PauseAfter == FALSE

ResumeReader(c) ==
  /\ CallAt(c, "resume", "finish")
  /\ pause' = PauseAfter
  /\ UNCHANGED <<scanKeeps, life, portRate, rxq, wlock, baud, gaps, scan,
                 outcome>>

(* Mutant of GapsAfter: a scan that raised leaves its gap in progress.     *)
GapsUnlessRaised ==
  IF scan.error # None THEN gaps ELSE [gaps EXCEPT ![scan.gap].state = "over"]

GapsAfter ==
  IF scan.gap = 0 THEN gaps ELSE [gaps EXCEPT ![scan.gap].state = "over"]

(* _finish_gap                                                             *)
FinishGap(c) ==
  /\ CallAt(c, "finish", "release")
  /\ gaps' = GapsAfter
  /\ UNCHANGED <<scanKeeps, life, portRate, rxq, wlock, pause, baud, scan,
                 outcome>>

(* gap_summary: a suspension is in progress.                               *)
CaptureSuspended == \E i \in DOMAIN gaps : gaps[i].state = "open"

Verdict ==
  IF scan.error # None THEN "failed"
  ELSE IF scan.winner = None THEN "restored" ELSE "winner"

ReleaseScan(c) ==
  /\ CallAt(c, "release", "end")
  /\ wlock' = Nobody
  /\ Answer(c, Verdict)
  /\ scan' = NoScan
  /\ UNCHANGED <<scanKeeps, life, portRate, rxq, pause, baud, gaps>>

ScanStep(c) ==
  \/ LockTimesOut(c) \/ ScanAdmitted(c) \/ PauseReader(c)
  \/ ReaderHasParked(c) \/ ParkTimesOut(c) \/ RecordGap(c)
  \/ \E rate \in Rates : SetRate(c, rate) \/ RateRefused(c, rate)
  \/ RateFails(c) \/ FlushInput(c) \/ PowerCycle(c)
  \/ DwellReads(c) \/ DwellFails(c) \/ DwellFindsGone(c) \/ DwellOver(c)
  \/ DwellJudged(c) \/ SweepsOver(c) \/ Decide(c)
  \/ RestoreRate(c) \/ RestoreFails(c) \/ RestoreFlush(c)
  \/ RestoreFlushFails(c) \/ Settle(c)
  \/ ResumeReader(c) \/ FinishGap(c) \/ ReleaseScan(c)

CallStep(c) == Acquire(c) \/ Refuse(c) \/ WriteStep(c) \/ ScanStep(c)

-----------------------------------------------------------------------------
(* _shutdown, run by the one close() that took the session out of its slot.*)

CloserAt(from, to) == closer = from /\ closer' = to

CloseBegins ==
  /\ CloserAt("idle", "stopping")
  /\ closing' = TRUE
  /\ UNCHANGED <<closeKeeps, portOpen, rxq, wlock, stop, cancelled, closed,
                 alive, held, drainer>>

StopsReader ==
  /\ CloserAt("stopping", "cancelling")
  /\ stop' = TRUE
  /\ UNCHANGED <<closeKeeps, portOpen, rxq, wlock, closing, cancelled, closed,
                 alive, held, drainer>>

CancelsWrite ==
  /\ CloserAt("cancelling", "joining")
  /\ cancelled' = TRUE
  /\ UNCHANGED <<closeKeeps, portOpen, rxq, wlock, closing, stop, closed,
                 alive, held, drainer>>

(* join(JOIN_TIMEOUT): the reader is over, or the port is released anyway. *)
JoinReturns ==
  /\ CloserAt("joining", "draining")
  /\ UNCHANGED <<closeKeeps, portOpen, rxq, wlock, closing, stop, cancelled,
                 closed, alive, held, drainer>>

DrainAcquired ==
  /\ wlock = Nobody
  /\ CloserAt("draining", "releasing")
  /\ wlock' = Closer
  /\ UNCHANGED <<closeKeeps, portOpen, rxq, closing, stop, cancelled, closed,
                 alive, held, drainer>>

ReleasesPort ==
  /\ CloserAt("releasing", "ending")
  /\ portOpen' = FALSE
  /\ rxq' = {}
  /\ UNCHANGED <<closeKeeps, wlock, closing, stop, cancelled, closed, alive,
                 held, drainer>>

(* Mutant of DrainExpires: the port is left to nobody.                     *)
DrainExpiresAlone ==
  /\ wlock # Nobody
  /\ CloserAt("draining", "ending")
  /\ held' = TRUE
  /\ UNCHANGED <<closeKeeps, portOpen, rxq, wlock, closing, stop, cancelled,
                 closed, alive, drainer>>

(* Mutant of DrainExpires: the drain thread is started without a warning.  *)
DrainExpiresUnsaid ==
  /\ wlock # Nobody
  /\ CloserAt("draining", "ending")
  /\ drainer' = "waiting"
  /\ UNCHANGED <<closeKeeps, portOpen, rxq, wlock, closing, stop, cancelled,
                 closed, alive, held>>

DrainExpires ==
  /\ wlock # Nobody
  /\ CloserAt("draining", "ending")
  /\ held' = TRUE
  /\ drainer' = "waiting"
  /\ UNCHANGED <<closeKeeps, portOpen, rxq, wlock, closing, stop, cancelled,
                 closed, alive>>

EndsLife ==
  /\ CloserAt("ending", "discarding")
  /\ alive' = FALSE
  /\ UNCHANGED <<closeKeeps, portOpen, rxq, wlock, closing, stop, cancelled,
                 closed, held, drainer>>

(* _closed and the capture: a reader still running keeps its own reference *)
(* to the buffer.                                                          *)
DiscardsCapture ==
  /\ CloserAt("discarding", "unlocking")
  /\ closed' = TRUE
  /\ UNCHANGED <<closeKeeps, portOpen, rxq, wlock, closing, stop, cancelled,
                 alive, held, drainer>>

CloseReturns ==
  /\ CloserAt("unlocking", "done")
  /\ wlock' = IF held THEN wlock ELSE Nobody
  /\ UNCHANGED <<closeKeeps, portOpen, rxq, closing, stop, cancelled, closed,
                 alive, held, drainer>>

DrainerAcquires ==
  /\ drainer = "waiting" /\ wlock = Nobody
  /\ drainer' = "releasing"
  /\ wlock' = Drainer
  /\ UNCHANGED <<closeKeeps, portOpen, rxq, closing, stop, cancelled, closed,
                 alive, closer, held>>

DrainerReleases ==
  /\ drainer = "releasing"
  /\ drainer' = "done"
  /\ portOpen' = FALSE
  /\ rxq' = {}
  /\ wlock' = Nobody
  /\ UNCHANGED <<closeKeeps, closing, stop, cancelled, closed, alive, closer,
                 held>>

ShutdownStep ==
  \/ StopsReader \/ CancelsWrite \/ JoinReturns \/ DrainAcquired
  \/ ReleasesPort \/ DrainExpires \/ EndsLife \/ DiscardsCapture
  \/ CloseReturns

DrainStep == DrainerAcquires \/ DrainerReleases

(* Nothing is left to run.                                                 *)
Over ==
  /\ closer = "done" /\ drainer \in {"none", "done"} /\ reader = "done"
  /\ \A c \in Calls : pc[c] = "end"
  /\ UNCHANGED vars

Next ==
  \/ DataArrives \/ Unplug \/ UdevRemoves
  \/ ReaderStep
  \/ \E c \in Calls : CallStep(c)
  \/ CloseBegins \/ ShutdownStep \/ DrainStep
  \/ Over

Spec == Init /\ [][Next]_vars

(* Every thread is scheduled, every timed wait and every dwell expires, and*)
(* udev gets to the unplugged adapter.  Nobody has to call close().        *)
Fairness ==
  /\ WF_vars(UdevRemoves)
  /\ WF_vars(ReaderStep)
  /\ \A c \in Calls : WF_vars(CallStep(c)) /\ WF_vars(DwellOver(c))
  /\ WF_vars(ShutdownStep)
  /\ WF_vars(DrainStep)

FairSpec == Spec /\ Fairness

-----------------------------------------------------------------------------
ScanLocals ==
  [by: Sweepers \cup {Nobody}, orig: AllRates \cup {None},
   applied: AllRates \cup {None}, tried: SUBSET Rates,
   rejected: SUBSET Rates, samples: SUBSET AllRates,
   final: AllRates \cup {None}, winner: AllRates \cup {None},
   error: Errors \cup {None}, gap: Nat, extra: Nat]

Gaps == [at: Nat, state: {"open", "over"}]
CallPlaces == {"start", "end"} \cup Holding
Replies == {"none", "refused", "busy", "sent", "aborted", "timeout",
            "failed", "restored", "winner"}
Answers == [reply: Replies, taken: Nat, count: Nat]
CloserPlaces == {"idle", "stopping", "cancelling", "joining", "draining",
                 "releasing", "ending", "discarding", "unlocking", "done"}
DrainerPlaces == {"none", "waiting", "releasing", "done"}

TypeDevice ==
  /\ plugged \in BOOLEAN /\ byId \in BOOLEAN /\ portOpen \in BOOLEAN
  /\ portRate \in LineRates /\ rxq \in SUBSET LineRates

TypeFlags ==
  /\ closing \in BOOLEAN /\ stop \in BOOLEAN
  /\ cancelled \in BOOLEAN /\ closed \in BOOLEAN
  /\ pause \in BOOLEAN /\ parked \in BOOLEAN
  /\ alive \in BOOLEAN /\ held \in BOOLEAN

TypeState ==
  /\ wlock \in Calls \cup {Nobody, Closer, Drainer}
  /\ reason \in Reasons \cup {None}
  /\ baud \in AllRates /\ head \in Nat /\ gaps \in Seq(Gaps)

TypeThreads ==
  /\ reader \in ReaderPlaces /\ chunk \in SUBSET LineRates
  /\ pc \in [Calls -> CallPlaces]
  /\ scan \in ScanLocals
  /\ outcome \in [Calls -> Answers]
  /\ late \in Nat
  /\ closer \in CloserPlaces
  /\ drainer \in DrainerPlaces

TypeOK == TypeDevice /\ TypeFlags /\ TypeState /\ TypeThreads

(* While a scan samples, restores or reports, the reader calls neither the *)
(* port nor the buffer: two readers never race for bytes on one fd, even   *)
(* when two scans follow each other faster than the reader wakes, or a     *)
(* close stops the reader in the middle of a scan.                         *)
SolePortReader ==
  \A c \in Sweepers : pc[c] \in Suspending /\ scan.gap # 0 => reader \notin ReaderBusy

(* The fd is never closed under a write or a scan, and two calls are never *)
(* at the port together (why _shutdown queues for _write_lock, and leaves  *)
(* the port to the drain thread when the queue is too long).               *)
PortOpenWhileUsed ==
  \A c \in Calls : pc[c] \in PortUse => portOpen /\ wlock = c

(* Outside a scan the UART of an adapter that is there runs at self.baud,  *)
(* whatever a scan met on the way: refused candidates, a decide() that     *)
(* raised, a winner the chip then refuses, a relay that does not answer.   *)
BaudIsLive ==
  plugged /\ (\A c \in Sweepers : pc[c] \notin Suspending \ {"resume"})
    => portRate = baud

(* What a scan takes for evidence about a rate was framed at that rate:    *)
(* the flush comes after the assignment and before the window.             *)
EvidenceFramedAtCandidate ==
  \A c \in Sweepers : pc[c] \in {"relay", "dwell"} => rxq \subseteq {scan.applied}

(* No byte framed at a candidate rate is appended to the capture as if the *)
(* target had said it at the session's rate.                               *)
CaptureAtReportedRate == reader = "append" => chunk \subseteq {baud}

(* A scan that reports a winner has left the port and self.baud at it.     *)
WinnerIsLive ==
  \A c \in Sweepers : pc[c] \in {"resume", "finish", "release"} /\ scan.winner # None
    => baud = scan.winner /\ (plugged => portRate = scan.winner)

(* From before the first byte is thrown away until the reader is let go,   *)
(* the gap ledger shows a suspension in progress at the current head.      *)
GapCoversSuspension ==
  \A c \in Sweepers : pc[c] \in Suspending /\ scan.gap # 0
    => gaps[scan.gap].state = "open" /\ (closed \/ gaps[scan.gap].at = head)

(* capture_suspended does not outlive the scan it is about, however the    *)
(* scan ended, and the reader is not left asked to park.                   *)
NoStaleSuspension ==
  wlock = Nobody => ~pause /\ ~CaptureSuspended

(* There is no session that looks alive and captures nothing, and no death *)
(* without a cause: but for a close, a reader that ended or a session that *)
(* is dead has a reason on record.                                         *)
EndIsExplained ==
  (reader = "done" \/ ~alive) /\ ~closing => ~alive /\ reason # None

(* A send reply is true of the kernel's queue and of the session, whatever *)
(* a cancel left over or arriving late did to the write: "sent" means that *)
(* the whole payload was taken (not that it is on the wire), "refused" that*)
(* nothing was, "aborted" that a close is under way and that at least the  *)
(* count it names was taken, "failed" that the session is dead and says of *)
(* what (the messages of write()).                                         *)
SendRepliesAreTrue ==
  \A c \in Sends :
    /\ outcome[c].reply = "sent" => outcome[c].taken = Payload
    /\ outcome[c].reply = "refused" => outcome[c].taken = 0
    /\ outcome[c].reply = "aborted" =>
         closing /\ outcome[c].count <= outcome[c].taken
    /\ outcome[c].reply = "failed" => ~alive /\ reason # None

(* Once _closing is set at most one write starts, the one already admitted:*)
(* queued writers do not stretch the close by a write_timeout each.        *)
OneLateWrite == late <= 1

(* When close() returns, the port is closed, or its answer said that it is *)
(* still held and a thread that will release it exists.                    *)
CloseReportsPort ==
  closer = "done" =>
    /\ ~held => ~portOpen
    /\ held /\ portOpen => drainer \in {"waiting", "releasing"}

Lease == INSTANCE SessionLease WITH
  phase <- IF ~closing THEN "live" ELSE IF closer = "done" THEN "over" ELSE "ending",
  port <- portOpen,
  told <- held

(* The session implements the lease its manager hands out: nothing but a   *)
(* close releases the port, never twice, and a close that returns with the *)
(* port still open has said so (_shutdown and the drain thread).           *)
ImplementsLease == Lease!Spec

(* A dead session never comes back, and the first cause stays the cause.   *)
DeathIsFinal ==
  [][/\ ~alive => ~alive'
     /\ reason # None => reason' = reason]_vars

(* close() returns although a write never does so early, and the port is   *)
(* then released too.                                                      *)
CloseCompletes == closing ~> closer = "done" /\ ~portOpen

(* A parked reader goes back to its loop: no scan, however it ended, keeps *)
(* the capture suspended.                                                  *)
CaptureResumes == reader = "parked" ~> reader # "parked"

(* An adapter that left the bus is reported dead without anyone asking.    *)
UnplugIsNoticed == ~plugged ~> ~alive

(* A call that has the lock is answered.                                   *)
CallsAreAnswered == \A c \in Calls : pc[c] \in Holding ~> pc[c] = "end"
=============================================================================
