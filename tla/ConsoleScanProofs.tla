-------------------------- MODULE ConsoleScanProofs --------------------------
(***************************************************************************)
(* Proofs about what a scan of a ConsoleSession leaves behind: the gap it  *)
(* records in the ledger, and the line rate of the port and of the bytes   *)
(* in its queue.  For any number of calls, any rates and any bounds.       *)
(***************************************************************************)
EXTENDS ConsoleSessionProofs

USE DEF device, ending, life, record, thread, calls, envKeeps, readerKeeps,
        writeKeeps, scanKeeps, closeKeeps, Calls, Sweepers, AllRates, LineRates,
        Writing

(* From the record of its gap to the restore, a scan works on the port.    *)
SweepPlaces == Suspending \ {"resume"}

(* The steps a scan takes there.                                           *)
SweepStep(c) ==
  \/ \E rate \in Rates : SetRate(c, rate) \/ RateRefused(c, rate)
  \/ RateFails(c) \/ FlushInput(c) \/ PowerCycle(c)
  \/ DwellReads(c) \/ DwellFails(c) \/ DwellFindsGone(c) \/ DwellOver(c)
  \/ DwellJudged(c) \/ SweepsOver(c) \/ Decide(c)
  \/ RestoreRate(c) \/ RestoreFails(c) \/ RestoreFlush(c)
  \/ RestoreFlushFails(c) \/ Settle(c)

(* And those before and after, which leave the line alone.                 *)
OutsideStep(c) ==
  \/ Acquire(c) \/ Refuse(c) \/ WriteStep(c)
  \/ LockTimesOut(c) \/ ScanAdmitted(c) \/ PauseReader(c)
  \/ ReaderHasParked(c) \/ ParkTimesOut(c)
  \/ ResumeReader(c) \/ FinishGap(c) \/ ReleaseScan(c)

(* There are no others but the record of the gap itself.                   *)
LEMMA StepKinds ==
  ASSUME NEW c \in Calls, CallStep(c)
  PROVE  OutsideStep(c) \/ RecordGap(c) \/ SweepStep(c)
  BY DEF CallStep, ScanStep, OutsideStep, SweepStep

(* A sweep step leaves ledger and pause alone and stays in its places,     *)
(* until it settles.                                                       *)
LEMMA SweepStays ==
  ASSUME Base, NEW c \in Calls, SweepStep(c)
  PROVE  /\ gaps' = gaps /\ pause' = pause /\ head' = head
         /\ scan'.gap = scan.gap
         /\ pc[c] \in SweepPlaces /\ pc'[c] \in Suspending
         /\ pc'[c] = "resume" => pc[c] = "settle" /\ Settle(c)
<1> USE DEF Base, TypeOK, TypeThreads, CallAt, SweepPlaces, Suspending,
            Sampling, Restoring
<1>1. CASE \E rate \in Rates : SetRate(c, rate) \/ RateRefused(c, rate)
  <2>1. PICK rate \in Rates : SetRate(c, rate) \/ RateRefused(c, rate)
    BY <1>1
  <2>2. Visited(rate) \in ScanLocals /\ Visited(rate).gap = scan.gap
    BY VisitedType DEF Visited, ScanLocals
  <2>3. scan'.gap = scan.gap
    BY <2>1, <2>2 DEF SetRate, RateRefused, ScanLocals
  <2> QED
    BY <2>1, <2>3 DEF SetRate, RateRefused
<1>2. CASE RateFails(c) \/ FlushInput(c) \/ PowerCycle(c)
  BY <1>2 DEF RateFails, FlushInput, PowerCycle, ScanLocals
<1>3. CASE DwellReads(c) \/ DwellFails(c) \/ DwellFindsGone(c) \/ DwellOver(c)
            \/ DwellJudged(c) \/ SweepsOver(c)
  BY <1>3 DEF DwellReads, DwellFails, DwellFindsGone, DwellOver, DwellJudged,
              SweepsOver, ScanLocals
<1>4. CASE Decide(c)
  <2>1. scan'.gap = scan.gap
    BY <1>4 DEF Decide, ScanLocals
  <2> QED
    BY <2>1, <1>4 DEF Decide
<1>5. CASE RestoreRate(c) \/ RestoreFails(c) \/ RestoreFlush(c)
            \/ RestoreFlushFails(c)
  BY <1>5 DEF RestoreRate, RestoreFails, RestoreFlush, RestoreFlushFails,
              AfterFailure, FirstChoice, ScanLocals
<1>6. CASE Settle(c)
  BY <1>6 DEF Settle, ScanLocals
<1> QED
  BY <1>1, <1>2, <1>3, <1>4, <1>5, <1>6 DEF SweepStep

(* The lock has one holder: nobody else is anywhere under it, before or    *)
(* after a step of the holder.                                             *)
LEMMA HolderAlone ==
  ASSUME Base, NEW c \in Calls, CallStep(c), pc[c] \in Holding
  PROVE  \A d \in Calls \ {c} : pc[d] \notin Holding /\ pc'[d] \notin Holding
  BY CallMoves DEF Moves, Base, LockHeld

-----------------------------------------------------------------------------
(* The gap ledger.  A gap in progress is the one of the scan that is       *)
(* between its record and its end, and there is a pause only for a scan.   *)
Suspended(c) == pc[c] \in Suspending \cup {"finish"}

LedgerInv ==
  /\ pause => \E c \in Calls : pc[c] \in Pausing
  /\ \A i \in DOMAIN gaps :
       gaps[i].state = "open" => \E c \in Calls : Suspended(c) /\ scan.gap = i
  /\ \A c \in Calls : Suspended(c) /\ scan.gap # 0 => gaps[scan.gap].state = "open"
  /\ \A c \in Calls :
       pc[c] \in Suspending /\ scan.gap # 0 => closed \/ gaps[scan.gap].at = head

(* LedgerInv as the holder of the lock sees it.                            *)
HolderLedger(c) ==
  /\ pause => pc[c] \in Pausing
  /\ \A i \in DOMAIN gaps : gaps[i].state = "open" => Suspended(c) /\ scan.gap = i
  /\ Suspended(c) /\ scan.gap # 0 => gaps[scan.gap].state = "open"
  /\ pc[c] \in Suspending /\ scan.gap # 0 => closed \/ gaps[scan.gap].at = head

(* Recording a gap opens it at the head, behind those that are over.       *)
LEMMA LedgerRecord ==
  ASSUME Base, NEW c \in Calls, RecordGap(c), HolderLedger(c), ParkInv
  PROVE  HolderLedger(c)'
<1> USE DEF Base, TypeOK, TypeThreads, TypeState, CallAt
<1>1. /\ Len(gaps) \in Nat /\ scan'.gap = Len(gaps) + 1
      /\ pc[c] = "gap" /\ pc'[c] = "next"
      /\ pause' = pause /\ head' = head /\ closed' = closed
  BY DEF RecordGap, ScanLocals
<1>2. /\ gaps' = Append(gaps, NewGap) /\ NewGap.state = "open"
      /\ closed \/ NewGap.at = head
  BY DEF RecordGap, NewGap
<1>3. /\ DOMAIN gaps' = 1 .. Len(gaps) + 1 /\ gaps'[Len(gaps) + 1] = NewGap
      /\ \A i \in 1 .. Len(gaps) : gaps'[i] = gaps[i]
  <2>1. NewGap \in Gaps
    BY DEF NewGap, Gaps
  <2> QED
    BY <1>2, <2>1
<1>4. \A i \in DOMAIN gaps : gaps[i].state # "open"
  BY <1>1 DEF HolderLedger, Suspended, Suspending, Sampling, Restoring
<1>5. \A i \in DOMAIN gaps' : gaps'[i].state = "open" => i = Len(gaps) + 1
  BY <1>1, <1>3, <1>4
<1>6. pc'[c] \in Suspending /\ pc'[c] \in Pausing
  BY <1>1 DEF Pausing, Suspending, Sampling
<1> QED
  BY <1>1, <1>2, <1>3, <1>5, <1>6 DEF HolderLedger, Suspended

(* Ending it leaves none in progress.                                      *)
LEMMA LedgerFinish ==
  ASSUME Base, NEW c \in Calls, FinishGap(c), HolderLedger(c)
  PROVE  HolderLedger(c)'
<1> USE DEF Base, TypeOK, TypeThreads, TypeState, CallAt
<1>1. /\ pc[c] = "finish" /\ pc'[c] = "release" /\ scan' = scan
      /\ pause' = pause /\ gaps' = GapsAfter
  BY DEF FinishGap
<1>2. ~pause
  BY <1>1 DEF HolderLedger, Pausing, Suspending, Sampling, Restoring
<1>3. scan.gap \in 0 .. Len(gaps) /\ Len(gaps) \in Nat
  BY <1>1 DEF ScanFits, ScanPlaces
<1>4. \A i \in DOMAIN gaps' : gaps'[i].state # "open"
  <2>1. CASE scan.gap = 0
    BY <1>1, <1>3, <2>1 DEF GapsAfter, HolderLedger
  <2>2. CASE scan.gap # 0
    <3>1. gaps[scan.gap] \in Gaps
      BY <1>3, <2>2
    <3>2. gaps' = [gaps EXCEPT ![scan.gap].state = "over"]
      BY <1>1, <2>2 DEF GapsAfter
    <3>3. gaps'[scan.gap].state = "over"
      BY <1>3, <2>2, <3>1, <3>2 DEF Gaps
    <3>4. DOMAIN gaps' = DOMAIN gaps
          /\ \A i \in DOMAIN gaps : i # scan.gap => gaps'[i] = gaps[i]
      BY <3>2
    <3> QED
      BY <3>3, <3>4 DEF HolderLedger
  <2> QED
    BY <2>1, <2>2
<1> QED
  BY <1>1, <1>2, <1>4 DEF HolderLedger, Suspended, Suspending, Sampling, Restoring

(* A step of the holder keeps the ledger, whatever it is.                  *)
LEMMA LedgerHolder ==
  ASSUME Base, ParkInv, NEW c \in Calls, CallStep(c), pc[c] \in Holding,
         HolderLedger(c)
  PROVE  HolderLedger(c)'
<1> USE DEF Base, TypeOK, TypeThreads, CallAt
<1>1. closed' = closed /\ head' = head
  BY CallMoves, Untouched DEF Moves
<1>2. CASE RecordGap(c)
  BY <1>2, LedgerRecord
<1>3. CASE FinishGap(c)
  BY <1>3, LedgerFinish
<1>4. CASE SweepStep(c)
  <2>1. /\ gaps' = gaps /\ pause' = pause /\ scan'.gap = scan.gap
        /\ pc[c] \in Suspending /\ pc'[c] \in Suspending
    BY <1>4, SweepStays DEF SweepPlaces
  <2> QED
    BY <2>1, <1>1 DEF HolderLedger, Suspended, Pausing
<1>5. CASE Acquire(c) \/ Refuse(c) \/ WriteStep(c) \/ LockTimesOut(c)
            \/ ScanAdmitted(c)
  <2>1. /\ gaps' = gaps /\ pause' = pause
        /\ pc[c] \notin Suspending \cup {"finish"} \cup Pausing
        /\ pc'[c] \notin Suspending \cup {"finish"}
    BY <1>5 DEF Acquire, Refuse, WriteStep, SendAdmitted, WriteStarts,
        KernelTakes, KernelHasRoom, WriteReturns, WriteTimesOut, WriteFails, LockTimesOut, ScanAdmitted,
        Pausing, Suspending, Sampling, Restoring
  <2> QED
    BY <2>1 DEF HolderLedger, Suspended
<1>6. CASE PauseReader(c) \/ ReaderHasParked(c) \/ ParkTimesOut(c)
  <2>1. /\ gaps' = gaps /\ scan'.gap = 0
        /\ pc[c] \notin Suspending \cup {"finish"} /\ pc'[c] \in Pausing
    BY <1>6 DEF PauseReader, ReaderHasParked, ParkTimesOut, ScanLocals,
        ParkInv, Pausing, Suspending, Sampling, Restoring
  <2> QED
    BY <2>1 DEF HolderLedger, Suspended
<1>7. CASE ResumeReader(c)
  <2>1. /\ gaps' = gaps /\ scan' = scan /\ ~pause'
        /\ pc[c] = "resume" /\ pc'[c] = "finish"
    BY <1>7 DEF ResumeReader, PauseAfter
  <2> QED
    BY <2>1 DEF HolderLedger, Suspended, Suspending, Sampling, Restoring
<1>8. CASE ReleaseScan(c)
  <2>1. /\ gaps' = gaps /\ pause' = pause
        /\ pc[c] = "release" /\ pc'[c] = "end"
    BY <1>8 DEF ReleaseScan
  <2> QED
    BY <2>1 DEF HolderLedger, Suspended, Pausing, Suspending, Sampling, Restoring
<1> QED
  BY StepKinds, <1>2, <1>3, <1>4, <1>5, <1>6, <1>7, <1>8 DEF OutsideStep

(* LedgerInv is inductive with the park handshake: the head stands still   *)
(* while a scan owns the reader, and only a close ends the ledger early.   *)
LEMMA LedgerStep == Base /\ ParkInv /\ LedgerInv /\ [Next]_vars => LedgerInv'
<1> SUFFICES ASSUME Base, ParkInv, LedgerInv, [Next]_vars PROVE LedgerInv'
  OBVIOUS
<1> USE DEF LedgerInv, Suspended
<1>1. CASE DataArrives \/ Unplug \/ UdevRemoves \/ UNCHANGED vars
  BY <1>1 DEF DataArrives, Unplug, UdevRemoves, vars
<1>2. CASE ReaderStep
  <2>1. UNCHANGED <<pause, gaps, pc, scan, closed>>
    BY <1>2, Bystander
  <2>2. head' = head \/ reader \in ReaderBusy
    BY <1>2 DEF ReaderStep, ReaderAt, ReaderLoop, ReaderChecksPause, ReaderParks,
        ReaderWakes, ReaderUnparks, ReadData, ReadQuiet, ReadFails, ReadCrashes,
        AppendChunk, ReaderChecksPath, ReaderBusy
  <2> QED
    BY <2>1, <2>2 DEF ParkInv, Owning
<1>3. CASE CloseBegins \/ ShutdownStep \/ DrainStep
  <2>1. UNCHANGED <<pause, gaps, pc, scan, head>>
    BY <1>3, Closing
  <2>2. closed => closed'
    <3>1. closed' = closed \/ DiscardsCapture
      BY <1>3 DEF CloseBegins, ShutdownStep, StopsReader, CancelsWrite,
          JoinReturns, DrainAcquired, ReleasesPort, DrainExpires, EndsLife,
          CloseReturns, DrainStep, DrainerAcquires, DrainerReleases
    <3>2. DiscardsCapture => closed'
      BY Zenon DEF DiscardsCapture
    <3> QED
      BY <3>1, <3>2
  <2> QED
    BY <2>1, <2>2
<1>4. ASSUME NEW c \in Calls, CallStep(c) PROVE LedgerInv'
  <2>1. CASE pc[c] \notin Holding
    <3>1. UNCHANGED <<pause, gaps, scan, closed, head>>
      BY <2>1, <1>4, Outsider
    <3>2. pc'[c] \in {"check", "end"}
      BY <2>1, <1>4, Entered
    <3>3. \A d \in Calls \ {c} : pc'[d] = pc[d]
      BY <1>4, CallMoves DEF Moves
    <3>4. pc[c] \notin Pausing \cup Suspending \cup {"finish"}
          /\ pc'[c] \notin Pausing \cup Suspending \cup {"finish"}
      BY <2>1, <3>2 DEF Holding, Pausing, Suspending, Sampling, Restoring
    <3> QED
      BY <3>1, <3>3, <3>4
  <2>2. CASE pc[c] \in Holding
    <3>1. \A d \in Calls \ {c} : pc[d] \notin Holding /\ pc'[d] \notin Holding
      BY <2>2, <1>4, HolderAlone
    <3>2. \A p \in Pausing \cup Suspending \cup {"finish"} : p \in Holding
      BY DEF Holding, Pausing
    <3>3. HolderLedger(c)
      BY <3>1, <3>2 DEF HolderLedger
    <3>4. HolderLedger(c)'
      BY <3>3, <1>4, <2>2, LedgerHolder
    <3> QED
      BY <3>1, <3>2, <3>4 DEF HolderLedger
  <2> QED
    BY <2>1, <2>2
<1> QED
  BY <1>1, <1>2, <1>3, <1>4 DEF Next, Over

(* Base, handshake and ledger, in every state.                             *)
LEMMA LedgerHolds == Spec => [](Base /\ ParkInv /\ LedgerInv)
<1>1. Init => Base /\ ParkInv /\ LedgerInv
  BY InitBase DEF Init, ParkInv, LedgerInv, Suspended, Owning, NoScan, Holding,
                  Pausing, Suspending, Sampling, Restoring
<1>2. Base /\ ParkInv /\ LedgerInv /\ [Next]_vars => (Base /\ ParkInv /\ LedgerInv)'
  BY BaseStep, ParkStep, LedgerStep
<1> QED
  BY <1>1, <1>2, PTL DEF Spec

(* _record_gap to _finish_gap: while a scan throws bytes away the ledger   *)
(* shows a suspension in progress, at the head the capture stands at.      *)
THEOREM GapCovers == Spec => []GapCoversSuspension
<1>1. Base /\ ParkInv /\ LedgerInv => GapCoversSuspension
  BY DEF LedgerInv, GapCoversSuspension, Suspended
<1> QED
  BY <1>1, LedgerHolds, PTL

(* The finally clauses of scan_baud: once the lock is free no pause is set *)
(* and no gap is in progress, however the scan ended.                      *)
THEOREM SuspensionEnds == Spec => []NoStaleSuspension
<1>1. Base /\ ParkInv /\ LedgerInv => NoStaleSuspension
  <2> SUFFICES ASSUME Base, LedgerInv, wlock = Nobody
               PROVE  ~pause /\ ~CaptureSuspended
    BY DEF NoStaleSuspension
  <2>1. \A c \in Calls : pc[c] \notin Holding
    BY ActorAssumption DEF Base, LockHeld
  <2>2. \A p \in Pausing \cup Suspending \cup {"finish"} : p \in Holding
    BY DEF Holding, Pausing
  <2> QED
    BY <2>1, <2>2 DEF LedgerInv, Suspended, CaptureSuspended
<1> QED
  BY <1>1, LedgerHolds, PTL

-----------------------------------------------------------------------------
(* The rate of the line and of the bytes in the queue.                     *)

(* Between an assignment that the port took and the end of its window, the *)
(* port is at the candidate; after the flush, so are the bytes.            *)
EvidenceInv ==
  \A c \in Calls :
    /\ pc[c] \in {"flush", "relay", "dwell"} => portRate = scan.applied
    /\ pc[c] \in {"relay", "dwell"} => rxq \subseteq {scan.applied}

(* What everybody but the calls does to the line: bytes come at the rate   *)
(* of the port, and go.                                                    *)
LEMMA LineElsewhere ==
  ASSUME \/ DataArrives \/ Unplug \/ UdevRemoves \/ ReaderStep
         \/ CloseBegins \/ ShutdownStep \/ DrainStep \/ UNCHANGED vars
  PROVE  /\ UNCHANGED <<portRate, pc, scan, baud>>
         /\ plugged' => plugged
         /\ \/ rxq' = rxq \/ rxq' = {}
            \/ plugged /\ rxq' = rxq \cup {portRate}
         /\ plugged' = plugged \/ rxq' = {}
<1>1. CASE DataArrives \/ UdevRemoves \/ UNCHANGED vars
  BY <1>1 DEF DataArrives, UdevRemoves, vars
<1>2. CASE Unplug
  <2>1. ~plugged'
    BY <1>2, Zenon DEF Unplug
  <2> QED
    BY <1>2, <2>1 DEF Unplug
<1>3. CASE ReaderStep
  BY <1>3 DEF ReaderStep, ReaderLoop, ReaderChecksPause, ReaderParks,
     ReaderWakes, ReaderUnparks, ReadData, ReadQuiet, ReadFails, ReadCrashes,
     AppendChunk, ReaderChecksPath
<1>4. CASE CloseBegins \/ ShutdownStep \/ DrainStep
  BY <1>4 DEF CloseBegins, ShutdownStep, StopsReader, CancelsWrite, JoinReturns,
     DrainAcquired, ReleasesPort, DrainExpires, EndsLife, DiscardsCapture,
     CloseReturns, DrainStep, DrainerAcquires, DrainerReleases
<1> QED
  BY <1>1, <1>2, <1>3, <1>4

(* A step outside the sweeps leaves the line as it is, and the locals too, *)
(* unless the scan begins or ends.                                         *)
LEMMA OutsideLine ==
  ASSUME Base, NEW c \in Calls, OutsideStep(c) \/ RecordGap(c)
  PROVE  /\ UNCHANGED <<plugged, portRate, rxq, baud>>
         /\ pc[c] \notin SweepPlaces
         /\ pc'[c] \in SweepPlaces => RecordGap(c) /\ pc'[c] = "next"
<1> USE DEF CallAt, SweepPlaces, Suspending, Sampling, Restoring, Base, TypeOK,
            TypeThreads
<1>1. CASE RecordGap(c)
  BY <1>1 DEF RecordGap
<1>2. CASE Acquire(c) \/ Refuse(c) \/ WriteStep(c)
  BY <1>2 DEF Acquire, Refuse, WriteStep, SendAdmitted, WriteStarts,
              KernelTakes, KernelHasRoom, WriteReturns, WriteTimesOut, WriteFails
<1>3. CASE LockTimesOut(c) \/ ScanAdmitted(c) \/ PauseReader(c)
            \/ ReaderHasParked(c) \/ ParkTimesOut(c)
  BY <1>3 DEF LockTimesOut, ScanAdmitted, PauseReader, ReaderHasParked,
              ParkTimesOut
<1>4. CASE ResumeReader(c) \/ FinishGap(c) \/ ReleaseScan(c)
  BY <1>4 DEF ResumeReader, FinishGap, ReleaseScan
<1> QED
  BY <1>1, <1>2, <1>3, <1>4 DEF OutsideStep

(* A step of a sweep leaves the window framed, if it leads into one.       *)
LEMMA SweepEvidence ==
  ASSUME Base, EvidenceInv, NEW c \in Calls, SweepStep(c)
  PROVE  /\ pc'[c] \in {"flush", "relay", "dwell"} => portRate' = scan'.applied
         /\ pc'[c] \in {"relay", "dwell"} => rxq' \subseteq {scan'.applied}
<1> USE DEF Base, TypeOK, TypeThreads, EvidenceInv, CallAt
<1>1. ASSUME NEW rate \in Rates, SetRate(c, rate)
      PROVE  portRate' = scan'.applied /\ pc'[c] = "flush"
  <2>1. Visited(rate) \in ScanLocals
    BY VisitedType
  <2> QED
    BY <1>1, <2>1 DEF SetRate, ScanLocals
<1>2. ASSUME NEW rate \in Rates, RateRefused(c, rate) PROVE pc'[c] = "next"
  BY <1>2 DEF RateRefused
<1>3. CASE RateFails(c)
  BY <1>3 DEF RateFails
<1>4. CASE FlushInput(c)
  BY <1>4 DEF FlushInput, ScanLocals, Flushed
<1>5. CASE PowerCycle(c)
  BY <1>5 DEF PowerCycle
<1>6. CASE DwellReads(c) \/ DwellFails(c) \/ DwellFindsGone(c) \/ DwellOver(c)
            \/ DwellJudged(c) \/ SweepsOver(c) \/ Decide(c)
  BY <1>6 DEF DwellReads, DwellFails, DwellFindsGone, DwellOver, DwellJudged,
              SweepsOver, Decide
<1>7. CASE RestoreRate(c) \/ RestoreFails(c) \/ RestoreFlush(c)
            \/ RestoreFlushFails(c) \/ Settle(c)
  BY <1>7 DEF RestoreRate, RestoreFails, RestoreFlush, RestoreFlushFails,
              AfterFailure, FirstChoice, Settle
<1> QED
  BY <1>1, <1>2, <1>3, <1>4, <1>5, <1>6, <1>7 DEF SweepStep

(* A step of a call keeps the windows framed, its own and (there is none)  *)
(* anybody else's.                                                         *)
LEMMA EvidenceCall ==
  ASSUME Base, EvidenceInv, NEW c \in Calls, CallStep(c)
  PROVE  EvidenceInv'
<1> DEFINE windows == {"flush", "relay", "dwell"}
<1>1. \A p \in windows : p \in SweepPlaces /\ p \in Holding /\ p # "next"
  BY DEF SweepPlaces, Holding, Pausing, Suspending, Sampling, Restoring
<1>2. CASE pc[c] \notin Holding
  <2>1. UNCHANGED <<portRate, rxq, scan>>
    BY <1>2, Outsider
  <2>2. pc'[c] \notin windows
    BY <1>2, Entered
  <2>3. \A d \in Calls \ {c} : pc'[d] = pc[d]
    BY CallMoves DEF Moves
  <2> QED
    BY <2>1, <2>2, <2>3 DEF EvidenceInv
<1>3. CASE pc[c] \in Holding
  <2>1. \A d \in Calls \ {c} : pc'[d] \notin windows
    BY <1>1, <1>3, HolderAlone
  <2>2. CASE SweepStep(c)
    BY <2>1, <2>2, SweepEvidence DEF EvidenceInv
  <2>3. CASE OutsideStep(c) \/ RecordGap(c)
    <3>1. pc'[c] \notin windows
      BY <2>3, <1>1, OutsideLine
    <3> QED
      BY <2>1, <3>1 DEF EvidenceInv
  <2> QED
    BY <2>2, <2>3, StepKinds
<1> QED
  BY <1>2, <1>3

(* EvidenceInv is inductive.                                               *)
LEMMA EvidenceStep == Base /\ EvidenceInv /\ [Next]_vars => EvidenceInv'
<1> SUFFICES ASSUME Base, EvidenceInv, [Next]_vars PROVE EvidenceInv'
  OBVIOUS
<1>1. CASE \/ DataArrives \/ Unplug \/ UdevRemoves \/ ReaderStep
           \/ CloseBegins \/ ShutdownStep \/ DrainStep \/ UNCHANGED vars
  BY <1>1, LineElsewhere DEF EvidenceInv
<1> QED
  BY <1>1, EvidenceCall DEF Next, Over

(* scan_baud's order of assignment, flush and window: nothing a window     *)
(* hears was framed at another rate than the candidate's, whatever arrives *)
(* between the three and whatever was queued before.                       *)
THEOREM EvidenceFramed == Spec => []EvidenceFramedAtCandidate
<1>1. Init => Base /\ EvidenceInv
  BY InitBase DEF Init, EvidenceInv
<1>2. Base /\ EvidenceInv /\ [Next]_vars => (Base /\ EvidenceInv)'
  BY BaseStep, EvidenceStep
<1>3. EvidenceInv => EvidenceFramedAtCandidate
  BY DEF EvidenceInv, EvidenceFramedAtCandidate
<1> QED
  BY <1>1, <1>2, <1>3, PTL DEF Spec

-----------------------------------------------------------------------------
(* self.baud and the UART.  Outside the sweeps the port is at baud and the *)
(* queue holds nothing else; a restore that the port took leaves it at the *)
(* rate that Settle is going to report.                                    *)
Calm == \A c \in Calls : pc[c] \notin SweepPlaces

RestoredRate(c) ==
  /\ pc[c] = "settle" =>
       (plugged => portRate = scan.applied) /\ rxq \subseteq {scan.applied}
  /\ pc[c] \in {"restoreFlush", "fallbackFlush"} => portRate = Candidate(c)
  /\ pc[c] \in {"pause", "wait", "gap"} => scan.winner = None
  /\ pc[c] \in {"resume", "finish", "release"} /\ scan.winner # None =>
       baud = scan.winner
  /\ pc[c] \in SweepPlaces => scan.gap # 0

BaudInv ==
  /\ ~plugged => rxq = {}
  /\ Calm => (plugged => portRate = baud) /\ rxq \subseteq {baud}
  /\ \A c \in Calls : RestoredRate(c)
  /\ reader = "append" => chunk \subseteq {baud}

(* A restore settles only with the port at the rate it names or gone: the  *)
(* rate the scan found is taken back.  This is where no rate is Fickle.    *)
LEMMA RestoreSettles ==
  ASSUME Fickle = {}, Base, BaudInv, NEW c \in Calls,
         RestoreRate(c) \/ RestoreFails(c) \/ RestoreFlush(c) \/ RestoreFlushFails(c)
  PROVE  /\ plugged' = plugged /\ baud' = baud
         /\ ~plugged' => rxq' = {}
         /\ pc'[c] = "settle" => (plugged => portRate' = scan'.applied)
                                   /\ rxq' \subseteq {scan'.applied}
         /\ pc'[c] \in {"restoreFlush", "fallbackFlush"} =>
              portRate' = Candidate(c)'
         /\ pc'[c] \in {"restoreFlush", "fallbackFlush", "fallback", "settle"}
<1> USE DEF Base, TypeOK, TypeThreads, TypeDevice, BaudInv, RestoredRate, CallAt,
            Candidate, FirstChoice
<1>1. CASE RestoreRate(c)
  BY <1>1 DEF RestoreRate
<1>2. CASE RestoreFails(c)
  <2>1. /\ plugged' = plugged /\ baud' = baud /\ rxq' = rxq
        /\ pc'[c] = AfterFailure(c) /\ pc[c] \in {"restore", "fallback"}
    BY <1>2 DEF RestoreFails
  <2>2. plugged => Candidate(c) # scan.orig
    BY <1>2 DEF RestoreFails
  <2>3. plugged => pc'[c] = "fallback"
    BY <2>1, <2>2 DEF AfterFailure
  <2>4. pc'[c] \in {"fallback", "settle"}
    BY <2>1 DEF AfterFailure
  <2> QED
    BY <2>1, <2>3, <2>4
<1>3. CASE RestoreFlush(c)
  <2>1. /\ scan'.applied = Candidate(c) /\ rxq' = {} /\ plugged' = plugged
        /\ portRate' = portRate /\ baud' = baud /\ pc'[c] = "settle"
    BY <1>3 DEF RestoreFlush, ScanLocals, Flushed
  <2>2. portRate = Candidate(c)
    BY <1>3 DEF RestoreFlush
  <2> QED
    BY <2>1, <2>2
<1>4. CASE RestoreFlushFails(c)
  BY <1>4 DEF RestoreFlushFails, AfterFailure
<1> QED
  BY <1>1, <1>2, <1>3, <1>4

(* Before the restore a sweep may leave the port anywhere, but does not    *)
(* reach the places that say otherwise.                                    *)
LEMMA SampleRates ==
  ASSUME Base, BaudInv, NEW c \in Calls, SweepStep(c), ~Settle(c),
         ~ (RestoreRate(c) \/ RestoreFails(c) \/ RestoreFlush(c) \/ RestoreFlushFails(c))
  PROVE  /\ plugged' = plugged /\ baud' = baud
         /\ ~plugged' => rxq' = {}
         /\ pc'[c] \notin {"settle", "restoreFlush", "fallbackFlush", "resume"}
<1> USE DEF Base, TypeOK, TypeThreads, BaudInv, CallAt
<1>1. CASE \E rate \in Rates : SetRate(c, rate) \/ RateRefused(c, rate)
  BY <1>1 DEF SetRate, RateRefused
<1>2. CASE RateFails(c) \/ FlushInput(c) \/ PowerCycle(c)
  BY <1>2 DEF RateFails, FlushInput, PowerCycle, Flushed
<1>3. CASE DwellReads(c) \/ DwellFails(c) \/ DwellFindsGone(c) \/ DwellOver(c)
            \/ DwellJudged(c) \/ SweepsOver(c) \/ Decide(c)
  BY <1>3 DEF DwellReads, DwellFails, DwellFindsGone, DwellOver, DwellJudged,
              SweepsOver, Decide
<1> QED
  BY <1>1, <1>2, <1>3 DEF SweepStep

(* Settling reports what the port is at, and a winner only if that is it.  *)
LEMMA SettleReports ==
  ASSUME Base, BaudInv, NEW c \in Calls, Settle(c)
  PROVE  /\ plugged' = plugged /\ portRate' = portRate /\ rxq' = rxq
         /\ plugged => portRate = baud'
         /\ rxq \subseteq {baud'}
         /\ scan'.winner # None => baud' = scan'.winner
         /\ pc'[c] = "resume"
<1>1. /\ baud' = scan.applied /\ scan'.winner = WinnerAfter
      /\ plugged' = plugged /\ portRate' = portRate /\ rxq' = rxq
      /\ pc[c] = "settle" /\ pc'[c] = "resume"
  BY DEF Settle, BaudAfter, ScanLocals, CallAt, Base, TypeOK, TypeThreads
<1> QED
  BY <1>1 DEF BaudInv, RestoredRate, WinnerAfter

(* A sweep step keeps BaudInv: the reader holds nothing meanwhile.         *)
LEMMA BaudSweep ==
  ASSUME Fickle = {}, Base, ParkInv, BaudInv, NEW c \in Calls, CallStep(c),
         SweepStep(c), pc[c] \in Holding
  PROVE  BaudInv'
<1>1. \A d \in Calls \ {c} : pc'[d] \notin Holding
  BY HolderAlone
<1>2. \A d \in Calls \ {c} : RestoredRate(d)'
  BY <1>1 DEF RestoredRate, SweepPlaces, Holding, Pausing, Suspending, Sampling, Restoring
<1>3. scan'.gap = scan.gap /\ pc[c] \in SweepPlaces /\ pc'[c] \in Suspending
      /\ (pc'[c] = "resume" => Settle(c))
  BY SweepStays
<1>4. scan.gap # 0
  BY <1>3 DEF BaudInv, RestoredRate
<1>5. reader' # "append"
  <2>1. Owning(c)
    BY <1>3, <1>4 DEF Owning, SweepPlaces
  <2>2. reader' = reader
    BY Untouched
  <2> QED
    BY <2>1, <2>2 DEF ParkInv, ReaderBusy
<1>6. pc'[c] \notin {"pause", "wait", "gap", "finish", "release"}
  BY <1>3 DEF Suspending, Sampling, Restoring
<1>7. CASE Settle(c)
  BY <1>1, <1>2, <1>3, <1>4, <1>5, <1>6, <1>7, SettleReports
     DEF BaudInv, RestoredRate, SweepPlaces
<1>8. CASE ~Settle(c)
  <2>1. ~Calm'
    BY <1>3, <1>8 DEF Calm, SweepPlaces
  <2>2. CASE RestoreRate(c) \/ RestoreFails(c) \/ RestoreFlush(c) \/ RestoreFlushFails(c)
    <3>1. RestoredRate(c)'
      BY <2>2, <1>3, <1>4, <1>6, <1>8, RestoreSettles DEF RestoredRate
    <3>2. ~plugged' => rxq' = {}
      BY <2>2, RestoreSettles
    <3> QED
      BY <2>1, <3>1, <3>2, <1>2, <1>5 DEF BaudInv
  <2>3. CASE ~ (RestoreRate(c) \/ RestoreFails(c) \/ RestoreFlush(c) \/ RestoreFlushFails(c))
    <3>1. RestoredRate(c)'
      BY <2>3, <1>3, <1>4, <1>6, <1>8, SampleRates DEF RestoredRate
    <3>2. ~plugged' => rxq' = {}
      BY <2>3, <1>8, SampleRates
    <3> QED
      BY <2>1, <3>1, <3>2, <1>2, <1>5 DEF BaudInv
  <2> QED
    BY <2>2, <2>3
<1> QED
  BY <1>7, <1>8

(* A step outside the sweeps keeps what it finds.                          *)
LEMMA BaudOutside ==
  ASSUME Base, ParkInv, BaudInv, NEW c \in Calls, CallStep(c),
         OutsideStep(c) \/ RecordGap(c), pc[c] \in Holding
  PROVE  BaudInv'
<1>1. \A d \in Calls \ {c} : pc[d] \notin Holding /\ pc'[d] \notin Holding
  BY HolderAlone
<1>2. \A d \in Calls \ {c} : RestoredRate(d)'
  BY <1>1 DEF RestoredRate, SweepPlaces, Holding, Pausing, Suspending, Sampling, Restoring
<1>3. /\ UNCHANGED <<plugged, portRate, rxq, baud, reader, chunk>>
      /\ pc[c] \notin SweepPlaces
      /\ pc'[c] \in SweepPlaces => RecordGap(c) /\ pc'[c] = "next"
  BY OutsideLine, Untouched
<1>4. Calm
  BY <1>1, <1>3 DEF Calm, SweepPlaces, Holding, Pausing
<1>5. RestoredRate(c)'
  <2> USE DEF Base, TypeOK, TypeThreads, TypeState, BaudInv, RestoredRate, CallAt,
              SweepPlaces, Suspending, Sampling, Restoring
  <2>1. CASE RecordGap(c)
    <3>1. scan'.gap = Len(gaps) + 1 /\ Len(gaps) \in Nat /\ pc'[c] = "next"
      BY <2>1 DEF RecordGap, ScanLocals
    <3> QED
      BY <3>1
  <2>2. CASE Acquire(c) \/ Refuse(c) \/ WriteStep(c) \/ LockTimesOut(c)
    BY <2>2 DEF Acquire, Refuse, WriteStep, SendAdmitted, WriteStarts,
                KernelTakes, KernelHasRoom, WriteReturns, WriteTimesOut, WriteFails, LockTimesOut
  <2>3. CASE ScanAdmitted(c)
    BY <2>3 DEF ScanAdmitted, NoScan
  <2>4. CASE PauseReader(c) \/ ReaderHasParked(c) \/ ParkTimesOut(c)
    BY <2>4 DEF PauseReader, ReaderHasParked, ParkTimesOut, ScanLocals
  <2>5. CASE ResumeReader(c) \/ FinishGap(c) \/ ReleaseScan(c)
    BY <2>5, <1>3 DEF ResumeReader, FinishGap, ReleaseScan
  <2> QED
    BY <2>1, <2>2, <2>3, <2>4, <2>5 DEF OutsideStep
<1> QED
  BY <1>2, <1>3, <1>4, <1>5 DEF BaudInv

(* What the reader appends it read from the queue when no sweep was on.    *)
LEMMA BaudReader ==
  ASSUME ParkInv, BaudInv, ReaderStep
  PROVE  reader' = "append" => chunk' \subseteq {baud}
<1>1. reader' = "append" => reader = "read" /\ chunk' = rxq
  BY DEF ReaderStep, ReaderAt, ReaderLoop, ReaderChecksPause, ReaderParks,
     ReaderWakes, ReaderUnparks, ReadData, ReadQuiet, ReadFails, ReadCrashes,
     AppendChunk, ReaderChecksPath
<1>2. reader = "read" => Calm
  BY DEF ParkInv, Owning, ReaderBusy, BaudInv, RestoredRate, Calm, SweepPlaces
<1> QED
  BY <1>1, <1>2 DEF BaudInv

(* BaudInv is inductive.                                                   *)
LEMMA BaudStep ==
  ASSUME Fickle = {}
  PROVE  Base /\ ParkInv /\ BaudInv /\ [Next]_vars => BaudInv'
<1> SUFFICES ASSUME Base, ParkInv, BaudInv, [Next]_vars PROVE BaudInv'
  OBVIOUS
<1>1. CASE \/ DataArrives \/ Unplug \/ UdevRemoves \/ ReaderStep
           \/ CloseBegins \/ ShutdownStep \/ DrainStep \/ UNCHANGED vars
  <2>1. reader' = "append" => chunk' \subseteq {baud}
    <3>1. CASE ReaderStep
      BY <3>1, BaudReader
    <3>2. CASE DataArrives \/ Unplug \/ UdevRemoves \/ UNCHANGED vars
      BY <3>2 DEF DataArrives, Unplug, UdevRemoves, vars, BaudInv
    <3>3. CASE CloseBegins \/ ShutdownStep \/ DrainStep
      BY <3>3, Closing DEF BaudInv
    <3> QED
      BY <1>1, <3>1, <3>2, <3>3
  <2>2. /\ UNCHANGED <<portRate, pc, scan, baud>>
        /\ plugged' => plugged
        /\ \/ rxq' = rxq \/ rxq' = {}
           \/ plugged /\ rxq' = rxq \cup {portRate}
        /\ plugged' = plugged \/ rxq' = {}
    BY <1>1, LineElsewhere
  <2>3. /\ ~plugged' => rxq' = {}
        /\ Calm' => (plugged' => portRate' = baud') /\ rxq' \subseteq {baud'}
    BY <2>2 DEF BaudInv, Calm
  <2>4. ASSUME NEW c \in Calls PROVE RestoredRate(c)'
    BY <2>2 DEF BaudInv, RestoredRate, Candidate, FirstChoice
  <2> QED
    BY <2>1, <2>2, <2>3, <2>4 DEF BaudInv
<1>2. ASSUME NEW c \in Calls, CallStep(c) PROVE BaudInv'
  <2>1. CASE pc[c] \notin Holding
    <3>1. UNCHANGED <<plugged, portRate, rxq, baud, reader, chunk, scan>>
      BY <2>1, <1>2, Outsider
    <3>2. pc'[c] \in {"check", "end"}
      BY <2>1, <1>2, Entered
    <3>3. \A d \in Calls \ {c} : pc'[d] = pc[d]
      BY <1>2, CallMoves DEF Moves
    <3>4. pc[c] \notin SweepPlaces /\ pc'[c] \notin SweepPlaces
      BY <2>1, <3>2 DEF SweepPlaces, Holding, Pausing, Suspending, Sampling, Restoring
    <3>5. Calm' => Calm
      BY <3>3, <3>4 DEF Calm
    <3>6. RestoredRate(c)'
      BY <3>2, <3>4 DEF RestoredRate
    <3>7. ASSUME NEW d \in Calls \ {c} PROVE RestoredRate(d)'
      BY <3>1, <3>3 DEF BaudInv, RestoredRate, Candidate, FirstChoice
    <3> QED
      BY <3>1, <3>5, <3>6, <3>7 DEF BaudInv
  <2>2. CASE pc[c] \in Holding
    BY <2>2, <1>2, StepKinds, BaudSweep, BaudOutside
  <2> QED
    BY <2>1, <2>2
<1> QED
  BY <1>1, <1>2 DEF Next, Over

(* Base, handshake and BaudInv in every state, if the chip takes back the  *)
(* rate it was at.                                                         *)
LEMMA BaudHolds ==
  ASSUME Fickle = {}
  PROVE  Spec => [](Base /\ ParkInv /\ BaudInv)
<1>1. Init => Base /\ ParkInv /\ BaudInv
  BY InitBase DEF Init, ParkInv, BaudInv, Calm, RestoredRate, SweepPlaces, Owning,
                  NoScan, Holding, Pausing, Suspending, Sampling, Restoring
<1>2. Base /\ ParkInv /\ BaudInv /\ [Next]_vars => (Base /\ ParkInv /\ BaudInv)'
  BY BaseStep, ParkStep, BaudStep
<1> QED
  BY <1>1, <1>2, PTL DEF Spec

(* The finally clauses of the scans and Settle: unless the chip refuses    *)
(* the very rate it was found at, the port of a plugged adapter is at      *)
(* self.baud whenever no scan is at work on it, whatever candidates it     *)
(* refused, however the scan ended and wherever the adapter was pulled.    *)
(* For a chip that does refuse it (Fickle # {}) the property is false.     *)
THEOREM BaudKept ==
  ASSUME Fickle = {}
  PROVE  Spec => []BaudIsLive
<1>1. Base /\ ParkInv /\ BaudInv => BaudIsLive
  <2> SUFFICES ASSUME Base, BaudInv, plugged,
                      \A c \in Sweepers : pc[c] \notin Suspending \ {"resume"}
               PROVE  portRate = baud
    BY DEF BaudIsLive
  <2>1. ASSUME NEW c \in Calls PROVE pc[c] \notin SweepPlaces
    BY DEF Base, ScanFits, ScanPlaces, Pausing, SweepPlaces
  <2> QED
    BY <2>1 DEF BaudInv, Calm
<1> QED
  BY <1>1, BaudHolds, PTL

(* A scan that reports a winner has left self.baud and the port at it,     *)
(* under the same condition on the chip.                                   *)
THEOREM WinnerKeptLive ==
  ASSUME Fickle = {}
  PROVE  Spec => []WinnerIsLive
<1>1. Base /\ ParkInv /\ BaudInv => WinnerIsLive
  <2> SUFFICES ASSUME Base, BaudInv, NEW c \in Sweepers,
                      pc[c] \in {"resume", "finish", "release"},
                      scan.winner # None
               PROVE  baud = scan.winner /\ (plugged => portRate = scan.winner)
    BY DEF WinnerIsLive
  <2>1. baud = scan.winner
    BY DEF BaudInv, RestoredRate
  <2>2. Calm
    BY DEF Calm, Base, LockHeld, SweepPlaces, Holding, Pausing, Suspending,
           Sampling, Restoring
  <2> QED
    BY <2>1, <2>2 DEF BaudInv
<1> QED
  BY <1>1, BaudHolds, PTL

(* The reader appends only what was framed at the rate the session         *)
(* reports: no byte of a candidate's window reaches the capture, under the *)
(* same condition on the chip.                                             *)
THEOREM CaptureFramed ==
  ASSUME Fickle = {}
  PROVE  Spec => []CaptureAtReportedRate
<1>1. Base /\ ParkInv /\ BaudInv => CaptureAtReportedRate
  BY DEF BaudInv, CaptureAtReportedRate
<1> QED
  BY <1>1, BaudHolds, PTL
=============================================================================
