------------------------ MODULE ConsoleSessionProofs ------------------------
(***************************************************************************)
(* Proofs about ConsoleSession, for any number of calls and any rates.     *)
(***************************************************************************)
EXTENDS ConsoleSession, TLAPS

(* Where a scan is between its admission and its last step.                *)
ScanPlaces == {"pause", "finish", "release"} \cup Pausing

(* _write_lock has exactly the holder the program counters say.            *)
LockHeld ==
  /\ \A c \in Calls : pc[c] \in Holding <=> wlock = c
  /\ wlock = Closer <=>
       \/ closer = "releasing"
       \/ closer \in {"ending", "discarding", "unlocking"} /\ ~held
  /\ wlock = Drainer <=> drainer = "releasing"
  /\ held \/ drainer # "none" =>
       closer \in {"ending", "discarding", "unlocking", "done"}
  /\ drainer # "none" => held

(* The locals of the scan that holds the lock are set.                     *)
ScanFits ==
  \A c \in Calls : pc[c] \in ScanPlaces =>
    /\ c \in Sweepers
    /\ scan.orig \in AllRates /\ scan.applied \in AllRates
    /\ scan.final \in AllRates
    /\ scan.gap \in 0 .. Len(gaps)

Base == TypeOK /\ LockHeld /\ ScanFits

USE DEF device, ending, life, record, thread, calls, envKeeps, readerKeeps,
        writeKeeps, scanKeeps, closeKeeps, Calls, Sweepers, AllRates, LineRates,
        Writing

(* The initial state has its types, a free lock and no scan.              *)
LEMMA InitBase == Init => Base
<1> SUFFICES ASSUME Init PROVE Base
  OBVIOUS
<1> USE DEF Init
<1>1. scan \in ScanLocals
  BY DEF NoScan, ScanLocals
<1>2. TypeDevice /\ TypeFlags
  BY DEF TypeDevice, TypeFlags
<1>3. gaps \in Seq(Gaps)
  OBVIOUS
<1>4. TypeState
  BY <1>3 DEF TypeState
<1>5. TypeThreads
  BY <1>1 DEF TypeThreads, ReaderPlaces, CallPlaces, Answers, Replies,
              CloserPlaces, DrainerPlaces
<1>6. TypeOK
  BY <1>2, <1>4, <1>5 DEF TypeOK
<1>7. LockHeld
  BY ActorAssumption DEF LockHeld, Holding, Pausing, Suspending, Sampling, Restoring
<1>8. ScanFits
  BY DEF ScanFits, ScanPlaces, Pausing, Suspending, Sampling, Restoring
<1> QED
  BY <1>6, <1>7, <1>8 DEF Base

(* Dying leaves the session with a reason of the right kind.               *)
LEMMA DieType ==
  ASSUME TypeState, NEW why \in Reasons, Die(why)
  PROVE  alive' \in BOOLEAN /\ reason' \in Reasons \cup {None}
<1>1. alive' \in BOOLEAN
  BY Zenon DEF Die
<1> QED
  BY <1>1 DEF Die, TypeState

(* Answering a call leaves an answer for each.                             *)
LEMMA AnswerType ==
  ASSUME TypeThreads, NEW c \in Calls, NEW reply \in Replies,
         Answer(c, reply)
  PROVE  outcome' \in [Calls -> Answers]
  BY DEF Answer, TypeThreads, Answers

(* Updates of a scan's locals keep their types.                            *)
LEMMA WinnerType ==
  ASSUME NEW s \in ScanLocals, NEW w \in AllRates
  PROVE  [s EXCEPT !.winner = w, !.final = w] \in ScanLocals
  BY DEF ScanLocals

(* A scan that is to raise.                                                *)
LEMMA ErrorType ==
  ASSUME NEW s \in ScanLocals, NEW e \in Errors
  PROVE  [s EXCEPT !.error = e] \in ScanLocals
  BY DEF ScanLocals

(* A scan that has come to a candidate, for the first time or again.       *)
LEMMA VisitedType ==
  ASSUME scan \in ScanLocals, NEW rate \in Rates
  PROVE  Visited(rate) \in ScanLocals
<1> DEFINE extra == IF rate \in scan.tried THEN scan.extra + 1 ELSE scan.extra
<1>1. extra \in Nat
  BY DEF ScanLocals
<1>2. scan.tried \cup {rate} \in SUBSET Rates
  BY DEF ScanLocals
<1>3. Visited(rate) = [scan EXCEPT !.tried = scan.tried \cup {rate}, !.extra = extra]
  BY DEF Visited
<1> HIDE DEF extra
<1> QED
  BY <1>1, <1>2, <1>3 DEF ScanLocals

(* Ending a gap keeps the ledger a sequence of gaps.                       *)
LEMMA LedgerType ==
  ASSUME NEW g \in Seq(Gaps), NEW i \in 1 .. Len(g)
  PROVE  [g EXCEPT ![i].state = "over"] \in Seq(Gaps)
<1>1. g[i] \in Gaps
  OBVIOUS
<1>2. [g[i] EXCEPT !.state = "over"] \in Gaps
  BY <1>1 DEF Gaps
<1> QED
  BY <1>2

(* Types are kept by every step: one case per action.                      *)
LEMMA TypeStep == Base /\ [Next]_vars => TypeOK'
<1> SUFFICES ASSUME Base, [Next]_vars PROVE TypeOK'
  OBVIOUS
<1> USE DEF Base, TypeOK, TypeDevice, TypeFlags, TypeState, TypeThreads
<1>1. CASE DataArrives
  BY <1>1 DEF DataArrives
<1>2. CASE Unplug
  <2>1. plugged' \in BOOLEAN
    BY <1>2, Zenon DEF Unplug
  <2> QED
    BY <1>2, <2>1 DEF Unplug
<1>3. CASE UdevRemoves
  <2>1. byId' \in BOOLEAN
    BY <1>3, Zenon DEF UdevRemoves
  <2> QED
    BY <1>3, <2>1 DEF UdevRemoves
<1>4. CASE CloseBegins
  BY <1>4 DEF CloseBegins, CloserAt, CloserPlaces, DrainerPlaces
<1>5. CASE StopsReader
  BY <1>5 DEF StopsReader, CloserAt, CloserPlaces, DrainerPlaces
<1>6. CASE CancelsWrite
  BY <1>6 DEF CancelsWrite, CloserAt, CloserPlaces, DrainerPlaces
<1>7. CASE JoinReturns
  BY <1>7 DEF JoinReturns, CloserAt, CloserPlaces, DrainerPlaces
<1>8. CASE DrainAcquired
  BY <1>8 DEF DrainAcquired, CloserAt, CloserPlaces, DrainerPlaces
<1>9. CASE ReleasesPort
  <2>1. portOpen' \in BOOLEAN
    BY <1>9, Zenon DEF ReleasesPort
  <2> QED
    BY <1>9, <2>1 DEF ReleasesPort, CloserAt, CloserPlaces, DrainerPlaces
<1>10. CASE DrainExpires
  BY <1>10 DEF DrainExpires, CloserAt, CloserPlaces, DrainerPlaces
<1>11. CASE EndsLife
  <2>1. alive' \in BOOLEAN
    BY <1>11, Zenon DEF EndsLife
  <2> QED
    BY <1>11, <2>1 DEF EndsLife, CloserAt, CloserPlaces, DrainerPlaces
<1>12. CASE DiscardsCapture
  BY <1>12 DEF DiscardsCapture, CloserAt, CloserPlaces, DrainerPlaces
<1>13. CASE CloseReturns
  BY <1>13 DEF CloseReturns, CloserAt, CloserPlaces, DrainerPlaces
<1>14. CASE DrainerAcquires
  BY <1>14 DEF DrainerAcquires, DrainerPlaces
<1>15. CASE DrainerReleases
  <2>1. portOpen' \in BOOLEAN
    BY <1>15, Zenon DEF DrainerReleases
  <2> QED
    BY <1>15, <2>1 DEF DrainerReleases, DrainerPlaces
<1>16. CASE ReaderLoop
  BY <1>16 DEF ReaderLoop, ReaderAt, ReaderPlaces
<1>17. CASE ReaderChecksPause
  BY <1>17 DEF ReaderChecksPause, ReaderAt, ReaderPlaces
<1>18. CASE ReaderParks
  BY <1>18 DEF ReaderParks, ReaderAt, ReaderPlaces
<1>19. CASE ReaderWakes
  BY <1>19 DEF ReaderWakes, ReaderAt, ReaderPlaces
<1>20. CASE ReaderUnparks
  <2>1. parked' \in BOOLEAN
    BY <1>20, Zenon DEF ReaderUnparks
  <2> QED
    BY <1>20, <2>1 DEF ReaderUnparks, ReaderAt, ReaderPlaces
<1>21. CASE ReadData
  BY <1>21 DEF ReadData, ReaderAt, ReaderPlaces
<1>22. CASE ReadQuiet
  BY <1>22 DEF ReadQuiet, ReaderAt, ReaderPlaces
<1>23. CASE ReadFails
  <2>1. alive' \in BOOLEAN /\ reason' \in Reasons \cup {None}
    BY <1>23, DieType DEF ReadFails, Reasons, ClosePulledPort
  <2> QED
    BY <1>23, <2>1 DEF ReadFails, ReaderAt, ReaderPlaces
<1>24. CASE ReadCrashes
  <2>1. alive' \in BOOLEAN /\ reason' \in Reasons \cup {None}
    BY <1>24, DieType DEF ReadCrashes, Reasons
  <2> QED
    BY <1>24, <2>1 DEF ReadCrashes, ReaderAt, ReaderPlaces
<1>25. CASE AppendChunk
  BY <1>25 DEF AppendChunk, ReaderAt, ReaderPlaces
<1>26. CASE ReaderChecksPath
  <2>1. alive' \in BOOLEAN /\ reason' \in Reasons \cup {None}
    BY <1>26, DieType DEF ReaderChecksPath, Reasons
  <2> QED
    BY <1>26, <2>1 DEF ReaderChecksPath, ReaderAt, ReaderPlaces
<1>27. ASSUME NEW c \in Calls, CallStep(c) PROVE TypeOK'
  <2> USE DEF CallAt
  <2>1. CASE Acquire(c)
    BY <2>1 DEF Acquire, CallPlaces, Holding, Pausing, Suspending, Sampling, Restoring
  <2>2. CASE Refuse(c)
    <3>1. outcome' \in [Calls -> Answers]
      BY <2>2, AnswerType DEF Refuse, Replies
    <3> QED
      BY <2>2, <3>1 DEF Refuse, CallPlaces, Holding, Pausing, Suspending, Sampling, Restoring
  <2>3. CASE SendAdmitted(c)
    BY <2>3 DEF SendAdmitted, CallPlaces, Holding, Pausing, Suspending, Sampling, Restoring
  <2>4. CASE WriteStarts(c)
    BY <2>4 DEF WriteStarts, CallPlaces, Holding, Pausing, Suspending, Sampling, Restoring
  <2>5. CASE WriteReturns(c)
    <3>1. cancelled' \in BOOLEAN
      BY <2>5, Zenon DEF WriteReturns
    <3>2. outcome' \in [Calls -> Answers]
      BY <2>5, AnswerType DEF WriteReturns, Replies
    <3> QED
      BY <2>5, <3>1, <3>2 DEF WriteReturns, CallPlaces, Holding, Pausing, Suspending, Sampling, Restoring
  <2>6. CASE WriteTimesOut(c)
    <3>1. outcome' \in [Calls -> Answers]
      BY <2>6, AnswerType DEF WriteTimesOut, Replies
    <3> QED
      BY <2>6, <3>1 DEF WriteTimesOut, CallPlaces, Holding, Pausing, Suspending, Sampling, Restoring
  <2>7. CASE WriteFails(c)
    <3>1. alive' \in BOOLEAN /\ reason' \in Reasons \cup {None}
      BY <2>7, DieType DEF WriteFails, Reasons
    <3>2. outcome' \in [Calls -> Answers]
      BY <2>7, AnswerType DEF WriteFails, Replies
    <3> QED
      BY <2>7, <3>1, <3>2 DEF WriteFails, CallPlaces, Holding, Pausing, Suspending, Sampling, Restoring
  <2>8. CASE LockTimesOut(c)
    <3>1. outcome' \in [Calls -> Answers]
      BY <2>8, AnswerType DEF LockTimesOut, Replies
    <3> QED
      BY <2>8, <3>1 DEF LockTimesOut, CallPlaces, Holding, Pausing, Suspending, Sampling, Restoring
  <2>9. CASE ScanAdmitted(c)
    <3>1. scan' \in ScanLocals
      BY <2>9 DEF ScanAdmitted, ScanLocals, NoScan
    <3> QED
      BY <2>9, <3>1 DEF ScanAdmitted, CallPlaces, Holding, Pausing, Suspending, Sampling, Restoring
  <2>10. CASE PauseReader(c)
    BY <2>10 DEF PauseReader, CallPlaces, Holding, Pausing, Suspending, Sampling, Restoring
  <2>11. CASE ReaderHasParked(c)
    BY <2>11 DEF ReaderHasParked, CallPlaces, Holding, Pausing, Suspending, Sampling, Restoring
  <2>12. CASE ParkTimesOut(c)
    <3>1. scan' \in ScanLocals
      BY <2>12 DEF ParkTimesOut, ScanLocals, Errors
    <3> QED
      BY <2>12, <3>1 DEF ParkTimesOut, CallPlaces, Holding, Pausing, Suspending, Sampling, Restoring
  <2>13. CASE RecordGap(c)
    <3>1. Len(gaps) + 1 \in Nat
      OBVIOUS
    <3>2. scan' \in ScanLocals
      BY <2>13, <3>1 DEF RecordGap, ScanLocals
    <3>3. NewGap \in Gaps
      BY DEF NewGap, Gaps
    <3>4. gaps' \in Seq(Gaps)
      BY <2>13, <3>3 DEF RecordGap
    <3> QED
      BY <2>13, <3>2, <3>4 DEF RecordGap, CallPlaces, Holding, Pausing, Suspending, Sampling, Restoring
  <2>14. CASE RateFails(c)
    <3>0. "scan" \in Reasons
      BY DEF Reasons
    <3>1. alive' \in BOOLEAN /\ reason' \in Reasons \cup {None}
      BY <2>14, <3>0, DieType DEF RateFails
    <3>2. scan' \in ScanLocals
      BY <2>14 DEF RateFails, ScanLocals, Errors
    <3> QED
      BY <2>14, <3>1, <3>2 DEF RateFails, CallPlaces, Holding, Pausing, Suspending, Sampling, Restoring
  <2>15. CASE FlushInput(c)
    <3>1. scan' \in ScanLocals
      BY <2>15 DEF FlushInput, ScanLocals, ScanFits, ScanPlaces, Pausing, Suspending, Sampling
    <3> QED
      BY <2>15, <3>1 DEF FlushInput, CallPlaces, Holding, Pausing, Suspending, Sampling, Restoring, Flushed, ScanFits, ScanPlaces
  <2>16. CASE PowerCycle(c)
    <3>1. scan' \in ScanLocals
      BY <2>16 DEF PowerCycle, ScanLocals, Errors
    <3> QED
      BY <2>16, <3>1 DEF PowerCycle, CallPlaces, Holding, Pausing, Suspending, Sampling, Restoring
  <2>17. CASE DwellReads(c)
    BY <2>17 DEF DwellReads, CallPlaces, Holding, Pausing, Suspending, Sampling, Restoring
  <2>18. CASE DwellFails(c)
    <3>1. alive' \in BOOLEAN /\ reason' \in Reasons \cup {None}
      BY <2>18, DieType DEF DwellFails, Reasons
    <3> QED
      BY <2>18, <3>1 DEF DwellFails, CallPlaces, Holding, Pausing, Suspending, Sampling, Restoring
  <2>19. CASE DwellFindsGone(c)
    <3>1. alive' \in BOOLEAN /\ reason' \in Reasons \cup {None}
      BY <2>19, DieType DEF DwellFindsGone, Reasons
    <3> QED
      BY <2>19, <3>1 DEF DwellFindsGone, CallPlaces, Holding, Pausing, Suspending, Sampling, Restoring
  <2>20. CASE DwellOver(c)
    BY <2>20 DEF DwellOver, CallPlaces, Holding, Pausing, Suspending, Sampling, Restoring
  <2>21. CASE DwellJudged(c)
    <3>1. scan' \in ScanLocals
      BY <2>21 DEF DwellJudged, ScanLocals, ScanFits, ScanPlaces, Pausing, Suspending, Sampling
    <3> QED
      BY <2>21, <3>1 DEF DwellJudged, CallPlaces, Holding, Pausing, Suspending, Sampling, Restoring, ScanFits, ScanPlaces
  <2>22. CASE SweepsOver(c)
    BY <2>22 DEF SweepsOver, CallPlaces, Holding, Pausing, Suspending, Sampling, Restoring
  <2>23. CASE Decide(c)
    <3>1. ASSUME NEW w \in scan.samples,
                scan' = [scan EXCEPT !.winner = w, !.final = w]
         PROVE  scan' \in ScanLocals
      <4>1. w \in AllRates
        BY DEF ScanLocals
      <4> QED
        BY <3>1, <4>1, WinnerType
    <3>2. ASSUME scan' = [scan EXCEPT !.error = "decide"]
         PROVE  scan' \in ScanLocals
      BY <3>2, ErrorType DEF Errors
    <3>3. scan' \in ScanLocals
      BY <2>23, <3>1, <3>2 DEF Decide
    <3>4. pc' \in [Calls -> CallPlaces]
      BY <2>23 DEF Decide, CallPlaces, Holding, Pausing, Suspending, Sampling, Restoring
    <3>5. UNCHANGED <<device, wlock, ending, pause, parked, life, record, thread,
                      outcome, late>>
      BY <2>23 DEF Decide
    <3> QED
      BY <3>3, <3>4, <3>5
  <2>24. CASE RestoreRate(c)
    BY <2>24 DEF RestoreRate, CallPlaces, Holding, Pausing, Suspending, Sampling, Restoring, Candidate, FirstChoice, AfterFailure, ScanFits, ScanPlaces
  <2>25. CASE RestoreFails(c)
    BY <2>25 DEF RestoreFails, CallPlaces, Holding, Pausing, Suspending, Sampling, Restoring, Candidate, FirstChoice, AfterFailure, ScanFits, ScanPlaces
  <2>26. CASE RestoreFlush(c)
    <3>1. scan' \in ScanLocals
      BY <2>26 DEF RestoreFlush, ScanLocals, Candidate, FirstChoice, ScanFits, ScanPlaces, Pausing, Suspending, Restoring
    <3> QED
      BY <2>26, <3>1 DEF RestoreFlush, CallPlaces, Holding, Pausing, Suspending, Sampling, Restoring, ScanFits, ScanPlaces, Flushed
  <2>27. CASE RestoreFlushFails(c)
    BY <2>27 DEF RestoreFlushFails, CallPlaces, Holding, Pausing, Suspending, Sampling, Restoring, Candidate, FirstChoice, AfterFailure, ScanFits, ScanPlaces
  <2>28. CASE Settle(c)
    <3>1. scan' \in ScanLocals
      BY <2>28 DEF Settle, ScanLocals, WinnerAfter
    <3> QED
      BY <2>28, <3>1 DEF Settle, CallPlaces, Holding, Pausing, Suspending, Sampling, Restoring, BaudAfter, ScanFits, ScanPlaces
  <2>29. CASE ResumeReader(c)
    <3>1. pause' \in BOOLEAN
      BY <2>29, Zenon DEF ResumeReader, PauseAfter
    <3> QED
      BY <2>29, <3>1 DEF ResumeReader, CallPlaces, Holding, Pausing, Suspending, Sampling, Restoring
  <2>30. CASE FinishGap(c)
    <3>1. scan.gap \in 0 .. Len(gaps)
      BY <2>30 DEF FinishGap, ScanFits, ScanPlaces
    <3>2. GapsAfter \in Seq(Gaps)
      BY <3>1, LedgerType DEF GapsAfter
    <3> QED
      BY <2>30, <3>2 DEF FinishGap, CallPlaces, Holding, Pausing, Suspending, Sampling, Restoring
  <2>31. CASE ReleaseScan(c)
    <3>1. outcome' \in [Calls -> Answers]
      BY <2>31, AnswerType DEF ReleaseScan, Replies, Verdict
    <3>2. scan' \in ScanLocals
      BY <2>31 DEF ReleaseScan, ScanLocals, NoScan
    <3> QED
      BY <2>31, <3>1, <3>2 DEF ReleaseScan, CallPlaces, Holding, Pausing, Suspending, Sampling, Restoring
  <2>34. CASE KernelTakes(c)
    <3>1. PICK n \in 1 .. Payload - outcome[c].count :
                 outcome' = [outcome EXCEPT ![c].taken = outcome[c].count + n]
      BY <2>34 DEF KernelTakes
    <3>2. outcome[c].count + n \in Nat
      BY PayloadAssumption DEF Answers
    <3>3. outcome' \in [Calls -> Answers]
      BY <3>1, <3>2 DEF Answers
    <3> QED
      BY <2>34, <3>3 DEF KernelTakes, CallPlaces, Holding, Pausing, Suspending, Sampling, Restoring
  <2>35. CASE KernelHasRoom(c)
    <3>1. outcome' \in [Calls -> Answers]
      BY <2>35 DEF KernelHasRoom, Answers
    <3> QED
      BY <2>35, <3>1 DEF KernelHasRoom, CallPlaces, Holding, Pausing, Suspending, Sampling, Restoring
  <2>32. ASSUME NEW rate \in Rates, SetRate(c, rate) PROVE TypeOK'
    <3>0. Visited(rate) \in ScanLocals
      BY VisitedType
    <3>1. scan' \in ScanLocals
      BY <2>32, <3>0 DEF SetRate, ScanLocals
    <3> QED
      BY <2>32, <3>1 DEF SetRate, CallPlaces, Holding, Pausing, Suspending, Sampling, Restoring
  <2>33. ASSUME NEW rate \in Rates, RateRefused(c, rate) PROVE TypeOK'
    <3>0. Visited(rate) \in ScanLocals
      BY VisitedType
    <3>1. scan' \in ScanLocals
      BY <2>33, <3>0 DEF RateRefused, ScanLocals
    <3> QED
      BY <2>33, <3>1 DEF RateRefused, CallPlaces, Holding, Pausing, Suspending, Sampling, Restoring
  <2> QED
    BY <1>27, <2>1, <2>2, <2>3, <2>4, <2>5, <2>6, <2>7, <2>8, <2>9, <2>10, <2>11, <2>12, <2>13, <2>14, <2>15, <2>16, <2>17, <2>18, <2>19, <2>20, <2>21, <2>22, <2>23, <2>24, <2>25, <2>26, <2>27, <2>28, <2>29, <2>30, <2>31, <2>32, <2>33, <2>34, <2>35 DEF CallStep, WriteStep, ScanStep
<1>28. CASE UNCHANGED vars
  BY <1>28 DEF vars
<1> QED
  BY <1>1, <1>2, <1>3, <1>4, <1>5, <1>6, <1>7, <1>8, <1>9, <1>10, <1>11, <1>12, <1>13, <1>14, <1>15, <1>16, <1>17, <1>18, <1>19, <1>20, <1>21, <1>22, <1>23, <1>24, <1>25, <1>26, <1>27, <1>28 DEF Next, ReaderStep, ShutdownStep, DrainStep, Over

(* A call moves only itself, and holds the lock exactly in between.        *)
Moves(c) ==
  /\ \A d \in Calls \ {c} : pc'[d] = pc[d]
  /\ UNCHANGED <<plugged, byId, portOpen, closing, stop, closed, closer, held,
                 drainer>>
  /\ \/ /\ wlock' = wlock
        /\ pc[c] \in Holding <=> pc'[c] \in Holding
     \/ wlock = Nobody /\ wlock' = c /\ pc'[c] \in Holding
     \/ pc[c] \in Holding /\ wlock' = Nobody /\ pc'[c] \notin Holding

(* A call enters and leaves the places under the lock with the lock itself.*)
LEMMA CallMoves == ASSUME Base, NEW c \in Calls, CallStep(c) PROVE Moves(c)
<1> USE DEF Base, TypeOK, TypeThreads, CallAt, Moves, Holding, Pausing,
            Suspending, Sampling, Restoring
<1>1. CASE Acquire(c) \/ Refuse(c)
  BY <1>1 DEF Acquire, Refuse
<1>2. CASE WriteStep(c)
  BY <1>2 DEF WriteStep, SendAdmitted, WriteStarts, KernelTakes, KernelHasRoom, WriteReturns, WriteTimesOut, WriteFails
<1>3. CASE LockTimesOut(c) \/ ScanAdmitted(c) \/ PauseReader(c) \/ ReaderHasParked(c) \/ ParkTimesOut(c) \/ RecordGap(c)
  BY <1>3 DEF LockTimesOut, ScanAdmitted, PauseReader, ReaderHasParked, ParkTimesOut, RecordGap
<1>4. CASE RateFails(c) \/ FlushInput(c) \/ PowerCycle(c) \/ (\E rate \in Rates : SetRate(c, rate) \/ RateRefused(c, rate))
  BY <1>4 DEF RateFails, FlushInput, PowerCycle, SetRate, RateRefused
<1>5. CASE DwellReads(c) \/ DwellFails(c) \/ DwellFindsGone(c) \/ DwellOver(c) \/ DwellJudged(c) \/ SweepsOver(c) \/ Decide(c)
  BY <1>5 DEF DwellReads, DwellFails, DwellFindsGone, DwellOver, DwellJudged, SweepsOver, Decide
<1>6. CASE RestoreRate(c) \/ RestoreFails(c) \/ RestoreFlush(c) \/ RestoreFlushFails(c)
  BY <1>6 DEF RestoreRate, RestoreFails, RestoreFlush, RestoreFlushFails, AfterFailure, FirstChoice
<1>7. CASE Settle(c) \/ ResumeReader(c) \/ FinishGap(c) \/ ReleaseScan(c)
  BY <1>7 DEF Settle, ResumeReader, FinishGap, ReleaseScan
<1> QED
  BY <1>1, <1>2, <1>3, <1>4, <1>5, <1>6, <1>7 DEF CallStep, ScanStep

(* A call that does not hold the lock can only ask for it.                 *)
LEMMA OnlyEntry ==
  ASSUME Base, NEW c \in Calls, CallStep(c), pc[c] \notin Holding
  PROVE  Acquire(c) \/ LockTimesOut(c)
<1> USE DEF CallAt, Holding, Pausing, Suspending, Sampling, Restoring
<1>2. ~ Refuse(c) /\ ~ WriteStep(c)
  BY DEF Refuse, WriteStep, SendAdmitted, WriteStarts, KernelTakes, KernelHasRoom, WriteReturns,
         WriteTimesOut, WriteFails
<1>3. ~ (ScanAdmitted(c) \/ PauseReader(c) \/ ReaderHasParked(c)
          \/ ParkTimesOut(c) \/ RecordGap(c))
  BY DEF ScanAdmitted, PauseReader, ReaderHasParked, ParkTimesOut, RecordGap
<1>4. ~ (RateFails(c) \/ FlushInput(c) \/ PowerCycle(c)
          \/ \E rate \in Rates : SetRate(c, rate) \/ RateRefused(c, rate))
  BY DEF RateFails, FlushInput, PowerCycle, SetRate, RateRefused
<1>5. ~ (DwellReads(c) \/ DwellFails(c) \/ DwellFindsGone(c) \/ DwellOver(c)
          \/ DwellJudged(c) \/ SweepsOver(c) \/ Decide(c))
  BY DEF DwellReads, DwellFails, DwellFindsGone, DwellOver, DwellJudged,
         SweepsOver, Decide
<1>6. ~ (RestoreRate(c) \/ RestoreFails(c) \/ RestoreFlush(c)
          \/ RestoreFlushFails(c) \/ Settle(c) \/ ResumeReader(c)
          \/ FinishGap(c) \/ ReleaseScan(c))
  BY DEF RestoreRate, RestoreFails, RestoreFlush, RestoreFlushFails, Settle,
         ResumeReader, FinishGap, ReleaseScan
<1> QED
  BY <1>2, <1>3, <1>4, <1>5, <1>6 DEF CallStep, ScanStep

(* It touches nothing but its own answer.                                  *)
LEMMA Outsider ==
  ASSUME Base, NEW c \in Calls, CallStep(c), pc[c] \notin Holding
  PROVE  UNCHANGED <<device, ending, pause, parked, life, record, thread, scan,
                     late>>
  BY OnlyEntry DEF Acquire, LockTimesOut

(* It either takes the lock or gives up.                                   *)
LEMMA Entered ==
  ASSUME Base, NEW c \in Calls, CallStep(c), pc[c] \notin Holding
  PROVE  pc'[c] \in {"check", "end"}
<1>1. \/ Acquire(c) \/ LockTimesOut(c)
  BY OnlyEntry
<1> QED
  BY <1>1 DEF Acquire, LockTimesOut, CallAt, Base, TypeOK, TypeThreads

(* The environment and the reader take no part in the locking.             *)
LEMMA Bystander ==
  ASSUME DataArrives \/ Unplug \/ UdevRemoves \/ ReaderStep \/ UNCHANGED vars
  PROVE  UNCHANGED <<portOpen, portRate, wlock, ending, pause, baud, gaps, calls>>
  BY DEF DataArrives, Unplug, UdevRemoves, ReaderStep, ReaderLoop,
         ReaderChecksPause, ReaderParks, ReaderWakes, ReaderUnparks, ReadData,
         ReadQuiet, ReadFails, ReadCrashes, AppendChunk, ReaderChecksPath, vars

(* Nor does the close in what the calls and the reader do.                 *)
LEMMA Closing ==
  ASSUME CloseBegins \/ ShutdownStep \/ DrainStep
  PROVE  UNCHANGED closeKeeps
  BY DEF CloseBegins, ShutdownStep, StopsReader, CancelsWrite, JoinReturns,
         DrainAcquired, ReleasesPort, DrainExpires, EndsLife, DiscardsCapture,
         CloseReturns, DrainStep, DrainerAcquires, DrainerReleases

(* The lock has the holder its places say, whoever moves.                  *)
LEMMA LockStep == Base /\ [Next]_vars => LockHeld'
<1> SUFFICES ASSUME Base, [Next]_vars PROVE LockHeld'
  OBVIOUS
<1> USE DEF Base, LockHeld
<1>1. CASE DataArrives \/ Unplug \/ UdevRemoves \/ ReaderStep \/ UNCHANGED vars
  BY <1>1, Bystander
<1>2. ASSUME NEW c \in Calls, CallStep(c) PROVE LockHeld'
  BY <1>2, CallMoves, ActorAssumption DEF Moves
<1>3. CASE CloseBegins \/ ShutdownStep \/ DrainStep
  BY <1>3, Closing, ActorAssumption
  DEF CloseBegins, ShutdownStep, StopsReader, CancelsWrite, JoinReturns,
      DrainAcquired, ReleasesPort, DrainExpires, EndsLife, DiscardsCapture,
      CloseReturns, DrainStep, DrainerAcquires, DrainerReleases, CloserAt
<1> QED
  BY <1>1, <1>2, <1>3 DEF Next, Over

(* The locals of the running scan belong to the call that holds the lock.  *)
LEMMA FitsStep == Base /\ [Next]_vars => ScanFits'
<1> SUFFICES ASSUME Base, [Next]_vars PROVE ScanFits'
  OBVIOUS
<1>1. CASE DataArrives \/ Unplug \/ UdevRemoves \/ ReaderStep \/ UNCHANGED vars
  BY <1>1, Bystander DEF Base, ScanFits
<1>2. CASE CloseBegins \/ ShutdownStep \/ DrainStep
  BY <1>2, Closing DEF Base, ScanFits
<1>3. ASSUME NEW c \in Calls, CallStep(c) PROVE ScanFits'
  <2> SUFFICES ASSUME NEW d \in Calls, pc'[d] \in ScanPlaces
               PROVE  /\ d \in Sweepers
                      /\ scan'.orig \in AllRates /\ scan'.applied \in AllRates
                      /\ scan'.final \in AllRates
                      /\ scan'.gap \in 0 .. Len(gaps')
    BY DEF ScanFits
  <2>1. CASE pc[c] \notin Holding
    <3>1. UNCHANGED <<scan, gaps>>
      BY <2>1, <1>3, Outsider DEF Base
    <3>2. pc'[c] \in {"check", "end"}
      BY <2>1, <1>3, Entered
    <3>3. d # c
      BY <3>2 DEF ScanPlaces, Pausing, Suspending, Sampling, Restoring
    <3>4. pc[d] \in ScanPlaces
      BY <3>3, <1>3, CallMoves DEF Moves
    <3> QED
      BY <3>1, <3>4 DEF Base, ScanFits
  <2>2. CASE pc[c] \in Holding /\ d # c
    BY <2>2, <1>3, CallMoves DEF Base, LockHeld, Moves, ScanPlaces, Holding
  <2>3. CASE pc[c] \in Holding /\ d = c
    <3> USE <2>3 DEF Base, TypeOK, TypeThreads, TypeState, ScanFits, CallAt,
            ScanPlaces, Pausing, Suspending, Sampling, Restoring
    <3>1. CASE Acquire(c) \/ Refuse(c) \/ WriteStep(c)
      BY <3>1 DEF Acquire, Refuse, WriteStep, SendAdmitted, WriteStarts,
                  KernelTakes, KernelHasRoom, WriteReturns, WriteTimesOut, WriteFails
    <3>2. CASE LockTimesOut(c) \/ PauseReader(c) \/ ReaderHasParked(c)
                \/ ParkTimesOut(c)
      BY <3>2 DEF LockTimesOut, PauseReader, ReaderHasParked, ParkTimesOut,
                  ScanLocals
    <3>8. CASE ScanAdmitted(c)
      BY <3>8 DEF ScanAdmitted, NoScan
    <3>9. CASE RecordGap(c)
      <4>1. Len(gaps') = Len(gaps) + 1 /\ Len(gaps) \in Nat
        BY <3>9 DEF RecordGap
      <4>2. scan'.gap = Len(gaps) + 1 /\ scan'.orig = scan.orig
            /\ scan'.applied = scan.applied /\ scan'.final = scan.final
        BY <3>9 DEF RecordGap, ScanLocals
      <4> QED
        BY <4>1, <4>2, <3>9 DEF RecordGap
    <3>3. CASE RateFails(c) \/ FlushInput(c) \/ PowerCycle(c)
      BY <3>3 DEF RateFails, FlushInput, PowerCycle, ScanLocals
    <3>4. ASSUME NEW rate \in Rates, SetRate(c, rate) \/ RateRefused(c, rate)
          PROVE  ScanFits'
      BY <3>4 DEF SetRate, RateRefused, Visited, ScanLocals
    <3>5. CASE DwellReads(c) \/ DwellFails(c) \/ DwellFindsGone(c)
                \/ DwellOver(c) \/ DwellJudged(c) \/ SweepsOver(c) \/ Decide(c)
      BY <3>5 DEF DwellReads, DwellFails, DwellFindsGone, DwellOver,
                  DwellJudged, SweepsOver, Decide, ScanLocals
    <3>6. CASE RestoreRate(c) \/ RestoreFails(c) \/ RestoreFlush(c)
                \/ RestoreFlushFails(c)
      BY <3>6 DEF RestoreRate, RestoreFails, RestoreFlush, RestoreFlushFails,
                  AfterFailure, FirstChoice, Candidate, ScanLocals
    <3>7. CASE Settle(c) \/ ResumeReader(c) \/ FinishGap(c) \/ ReleaseScan(c)
      BY <3>7 DEF Settle, ResumeReader, FinishGap, ReleaseScan, WinnerAfter,
                  GapsAfter, ScanLocals
    <3> QED
      BY <1>3, <3>1, <3>2, <3>3, <3>4, <3>5, <3>6, <3>7, <3>8, <3>9 DEF CallStep, ScanStep
  <2> QED
    BY <2>1, <2>2, <2>3
<1> QED
  BY <1>1, <1>2, <1>3 DEF Next, Over

(* The three together are inductive.                                       *)
LEMMA BaseStep == Base /\ [Next]_vars => Base'
  BY TypeStep, LockStep, FitsStep DEF Base

(* The session keeps to its types.                                         *)
THEOREM TypeCorrect == Spec => []TypeOK
<1>1. Base => TypeOK
  BY DEF Base
<1> QED
  BY InitBase, BaseStep, <1>1, PTL DEF Spec

-----------------------------------------------------------------------------
(* The port is closed by a close only, and not under a call past its check.*)
PortInv ==
  /\ closing <=> closer # "idle"
  /\ stop \/ closed \/ ~portOpen => closing
  /\ \A c \in Calls : pc[c] \in Holding \ {"check"} => portOpen

(* Whatever is admitted is admitted before the close began.                *)
LEMMA Admitted ==
  ASSUME Base, NEW c \in Calls, CallStep(c), pc[c] \notin Holding \ {"check"},
         pc'[c] \in Holding \ {"check"}
  PROVE  pc[c] = "check" /\ ~Refused
<1>1. pc[c] = "check"
  BY Entered DEF Holding, Pausing, Suspending, Sampling, Restoring
<1> USE DEF CallAt, Holding, Pausing, Suspending, Sampling, Restoring, Base,
            TypeOK, TypeThreads
<1>2. ~ (Acquire(c) \/ Refuse(c))
  BY DEF Acquire, Refuse
<1>3. WriteStep(c) => ~Refused
  BY <1>1 DEF WriteStep, SendAdmitted, WriteStarts, KernelTakes, KernelHasRoom, WriteReturns,
              WriteTimesOut, WriteFails
<1>4. LockTimesOut(c) \/ ScanAdmitted(c) \/ PauseReader(c)
        \/ ReaderHasParked(c) \/ ParkTimesOut(c) \/ RecordGap(c) => ~Refused
  BY <1>1 DEF LockTimesOut, ScanAdmitted, PauseReader, ReaderHasParked,
              ParkTimesOut, RecordGap
<1>5. ~ (RateFails(c) \/ FlushInput(c) \/ PowerCycle(c)
          \/ \E rate \in Rates : SetRate(c, rate) \/ RateRefused(c, rate))
  BY <1>1 DEF RateFails, FlushInput, PowerCycle, SetRate, RateRefused
<1>6. ~ (DwellReads(c) \/ DwellFails(c) \/ DwellFindsGone(c) \/ DwellOver(c)
          \/ DwellJudged(c) \/ SweepsOver(c) \/ Decide(c))
  BY <1>1 DEF DwellReads, DwellFails, DwellFindsGone, DwellOver, DwellJudged,
              SweepsOver, Decide
<1>7. ~ (RestoreRate(c) \/ RestoreFails(c) \/ RestoreFlush(c)
          \/ RestoreFlushFails(c) \/ Settle(c) \/ ResumeReader(c)
          \/ FinishGap(c) \/ ReleaseScan(c))
  BY <1>1 DEF RestoreRate, RestoreFails, RestoreFlush, RestoreFlushFails,
              Settle, ResumeReader, FinishGap, ReleaseScan
<1> QED
  BY <1>1, <1>2, <1>3, <1>4, <1>5, <1>6, <1>7 DEF CallStep, ScanStep

(* No step closes the port under a call, or lets one in after the close.   *)
LEMMA PortStep == Base /\ PortInv /\ [Next]_vars => PortInv'
<1> SUFFICES ASSUME Base, PortInv, [Next]_vars PROVE PortInv'
  OBVIOUS
<1>1. CASE DataArrives \/ Unplug \/ UdevRemoves \/ ReaderStep \/ UNCHANGED vars
  BY <1>1, Bystander DEF PortInv
<1>2. ASSUME NEW c \in Calls, CallStep(c) PROVE PortInv'
  <2>1. ASSUME NEW d \in Calls, pc'[d] \in Holding \ {"check"} PROVE portOpen
    <3>1. CASE pc[d] \in Holding \ {"check"}
      BY <3>1 DEF PortInv
    <3>2. CASE pc[d] \notin Holding \ {"check"}
      <4>1. d = c
        BY <1>2, <2>1, <3>2, CallMoves DEF Moves
      <4> QED
        BY <4>1, <1>2, <2>1, <3>2, Admitted DEF Refused, PortInv
    <3> QED
      BY <3>1, <3>2
  <2> QED
    BY <1>2, <2>1, CallMoves DEF Moves, PortInv
<1>3. CASE CloseBegins \/ ShutdownStep \/ DrainStep
  <2>1. pc' = pc
    BY <1>3, Closing
  <2>2. wlock \in {Closer, Drainer} => \A c \in Calls : pc[c] \notin Holding
    BY ActorAssumption DEF Base, LockHeld
  <2>3. portOpen' = portOpen \/ wlock \in {Closer, Drainer}
    BY <1>3 DEF CloseBegins, ShutdownStep, StopsReader, CancelsWrite,
      JoinReturns, DrainAcquired, ReleasesPort, DrainExpires, EndsLife,
      DiscardsCapture, CloseReturns, DrainStep, DrainerAcquires,
      DrainerReleases, CloserAt, Base, LockHeld
  <2>4. closing' /\ closer' # "idle"
    BY <1>3 DEF CloseBegins, ShutdownStep, StopsReader, CancelsWrite,
      JoinReturns, DrainAcquired, ReleasesPort, DrainExpires, EndsLife,
      DiscardsCapture, CloseReturns, DrainStep, DrainerAcquires,
      DrainerReleases, CloserAt, Base, LockHeld, PortInv
  <2> QED
    BY <2>1, <2>2, <2>3, <2>4 DEF PortInv
<1> QED
  BY <1>1, <1>2, <1>3 DEF Next, Over

(* The fd is never closed under a write or a scan that may still use it.   *)
THEOREM PortHeldOpen == Spec => []PortOpenWhileUsed
<1>1. Init => Base /\ PortInv
  BY InitBase DEF Init, PortInv, Holding, Pausing, Suspending, Sampling, Restoring
<1>2. Base /\ PortInv /\ [Next]_vars => (Base /\ PortInv)'
  BY BaseStep, PortStep
<1>3. Base /\ PortInv => PortOpenWhileUsed
  BY DEF Base, LockHeld, PortInv, PortOpenWhileUsed, PortUse,
      Holding, Pausing, Suspending, Sampling, Restoring
<1> QED
  BY <1>1, <1>2, <1>3, PTL DEF Spec

-----------------------------------------------------------------------------
(* The handshake that leaves the port to a scan: the reader parks with the *)
(* pause set, and passes the pause again before it reads.                  *)
Owning(c) == pc[c] = "gap" \/ (pc[c] \in Suspending /\ scan.gap # 0)

ParkInv ==
  /\ parked => reader \in {"parked", "unpark"}
  /\ \A c \in Calls :
       /\ pc[c] \in Pausing => pause
       /\ pc[c] \in {"pause", "wait", "gap"} => scan.gap = 0
       /\ Owning(c) => reader \notin ReaderBusy

(* A reader step never leaves the park while a scan asks for it.           *)
LEMMA ParkReader ==
  ASSUME Base, ParkInv, ReaderStep
  PROVE  ParkInv'
<1> USE DEF ReaderAt, ReaderBusy
<1>1. UNCHANGED <<pause, pc, scan>>
  BY Bystander
<1>2. parked' => reader' \in {"parked", "unpark"}
  BY DEF ParkInv, Base, TypeOK, TypeFlags, ReaderStep, ReaderLoop,
         ReaderChecksPause, ReaderParks, ReaderWakes, ReaderUnparks, ReadData,
         ReadQuiet, ReadFails, ReadCrashes, AppendChunk, ReaderChecksPath
<1>3. reader' \in ReaderBusy => reader \in ReaderBusy \/ ~pause
  BY DEF ReaderStep, ReaderLoop,
         ReaderChecksPause, ReaderParks, ReaderWakes, ReaderUnparks, ReadData,
         ReadQuiet, ReadFails, ReadCrashes, AppendChunk, ReaderChecksPath
<1>4. \A c \in Calls : Owning(c) => pause
  BY DEF ParkInv, Owning, Pausing
<1> QED
  BY <1>1, <1>2, <1>3, <1>4 DEF ParkInv, Owning

(* No call moves the reader.                                               *)
LEMMA Untouched ==
  ASSUME NEW c \in Calls, CallStep(c)
  PROVE  UNCHANGED <<reader, chunk, parked, head>>
  BY DEF CallStep, ScanStep, WriteStep, Acquire, Refuse, SendAdmitted,
         WriteStarts, KernelTakes, KernelHasRoom, WriteReturns, WriteTimesOut, WriteFails, LockTimesOut,
         ScanAdmitted, PauseReader, ReaderHasParked, ParkTimesOut, RecordGap,
         SetRate, RateRefused, RateFails, FlushInput, PowerCycle, DwellReads,
         DwellFails, DwellFindsGone, DwellOver, DwellJudged, SweepsOver, Decide,
         RestoreRate, RestoreFails, RestoreFlush, RestoreFlushFails, Settle,
         ResumeReader, FinishGap, ReleaseScan

(* A step of a call keeps the reader out of the port while a scan owns it. *)
LEMMA ParkCall ==
  ASSUME Base, ParkInv, NEW c \in Calls, CallStep(c)
  PROVE  ParkInv'
<1>1. UNCHANGED <<reader, parked>>
  BY Untouched
<1>2. CASE pc[c] \notin Holding
  <2>1. UNCHANGED <<pause, scan>>
    BY <1>2, Outsider
  <2>2. pc'[c] \in {"check", "end"}
    BY <1>2, Entered
  <2>3. \A d \in Calls \ {c} : pc'[d] = pc[d]
    BY CallMoves DEF Moves
  <2> QED
    BY <1>1, <2>1, <2>2, <2>3 DEF ParkInv, Owning, Pausing, Suspending, Sampling, Restoring
<1>3. CASE pc[c] \in Holding
  <2>1. \A d \in Calls \ {c} : pc'[d] \notin Holding
    BY <1>3, CallMoves DEF Moves, Base, LockHeld
  <2>2. /\ pc'[c] \in Pausing => pause'
        /\ pc'[c] \in {"pause", "wait", "gap"} => scan'.gap = 0
        /\ Owning(c)' => reader \notin ReaderBusy
    <3> USE <1>3 DEF Base, TypeOK, TypeThreads, TypeState, ParkInv, Owning,
            CallAt, Pausing, Suspending, Sampling, Restoring, ReaderBusy
    <3>1. CASE Acquire(c) \/ Refuse(c) \/ WriteStep(c)
      BY <3>1 DEF Acquire, Refuse, WriteStep, SendAdmitted, WriteStarts,
                  KernelTakes, KernelHasRoom, WriteReturns, WriteTimesOut, WriteFails
    <3>2. CASE LockTimesOut(c) \/ PauseReader(c) \/ ReaderHasParked(c)
                \/ ParkTimesOut(c)
      BY <3>2 DEF LockTimesOut, PauseReader, ReaderHasParked, ParkTimesOut,
                  ParkObserved, ScanLocals
    <3>3. CASE ScanAdmitted(c)
      BY <3>3 DEF ScanAdmitted, NoScan
    <3>4. CASE RecordGap(c)
      BY <3>4 DEF RecordGap
    <3>5. CASE RateFails(c) \/ FlushInput(c) \/ PowerCycle(c)
      BY <3>5 DEF RateFails, FlushInput, PowerCycle, ScanLocals
    <3>6. CASE \E rate \in Rates : SetRate(c, rate) \/ RateRefused(c, rate)
      <4>1. PICK rate \in Rates : SetRate(c, rate) \/ RateRefused(c, rate)
        BY <3>6
      <4>2. Visited(rate) \in ScanLocals /\ Visited(rate).gap = scan.gap
        BY VisitedType DEF Visited, ScanLocals
      <4>3. scan'.gap = scan.gap
        BY <4>1, <4>2 DEF SetRate, RateRefused, ScanLocals
      <4> QED
        BY <4>1, <4>3 DEF SetRate, RateRefused
    <3>7. CASE DwellReads(c) \/ DwellFails(c) \/ DwellFindsGone(c)
                \/ DwellOver(c) \/ DwellJudged(c) \/ SweepsOver(c)
      BY <3>7 DEF DwellReads, DwellFails, DwellFindsGone, DwellOver,
                  DwellJudged, SweepsOver, ScanLocals
    <3>10. CASE Decide(c)
      <4>1. scan'.gap = scan.gap
        BY <3>10 DEF Decide, ScanLocals
      <4> QED
        BY <4>1, <3>10 DEF Decide
    <3>8. CASE RestoreRate(c) \/ RestoreFails(c) \/ RestoreFlush(c)
                \/ RestoreFlushFails(c)
      BY <3>8 DEF RestoreRate, RestoreFails, RestoreFlush, RestoreFlushFails,
                  AfterFailure, FirstChoice, ScanLocals
    <3>9. CASE Settle(c) \/ ResumeReader(c) \/ FinishGap(c) \/ ReleaseScan(c)
      BY <3>9 DEF Settle, ResumeReader, FinishGap, ReleaseScan, ScanLocals
    <3> QED
      BY <3>1, <3>2, <3>3, <3>4, <3>5, <3>6, <3>7, <3>8, <3>9, <3>10
      DEF CallStep, ScanStep
  <2>3. \A d \in Calls \ {c} : ~ (pc'[d] \in {"pause", "wait", "gap"} \/ pc'[d] \in Pausing)
    BY <2>1 DEF Holding, Pausing, Suspending
  <2>4. \A d \in Calls \ {c} : ~ Owning(d)'
    BY <2>3 DEF Owning, Pausing
  <2> QED
    BY <1>1, <2>2, <2>3, <2>4 DEF ParkInv
<1> QED
  BY <1>2, <1>3

(* Nobody else touches the park handshake.                                 *)
LEMMA ParkStep == Base /\ ParkInv /\ [Next]_vars => ParkInv'
<1> SUFFICES ASSUME Base, ParkInv, [Next]_vars PROVE ParkInv'
  OBVIOUS
<1>1. CASE DataArrives \/ Unplug \/ UdevRemoves \/ UNCHANGED vars
  BY <1>1 DEF DataArrives, Unplug, UdevRemoves, vars, ParkInv, Owning
<1>2. CASE CloseBegins \/ ShutdownStep \/ DrainStep
  BY <1>2, Closing DEF ParkInv, Owning
<1> QED
  BY <1>1, <1>2, ParkReader, ParkCall DEF Next, Over

(* While a scan has the port to itself, the reader calls neither the port  *)
(* nor the buffer.                                                         *)
THEOREM ReaderExcluded == Spec => []SolePortReader
<1>1. Init => Base /\ ParkInv
  BY InitBase DEF Init, ParkInv, Owning, NoScan, Holding, Pausing, Suspending, Sampling, Restoring
<1>2. Base /\ ParkInv /\ [Next]_vars => (Base /\ ParkInv)'
  BY BaseStep, ParkStep
<1>3. ParkInv => SolePortReader
  BY DEF ParkInv, Owning, SolePortReader
<1> QED
  BY <1>1, <1>2, <1>3, PTL DEF Spec

-----------------------------------------------------------------------------
(* What a call does to the life of the session.                            *)
LEMMA CallLife ==
  ASSUME NEW c \in Calls, CallStep(c)
  PROVE  UNCHANGED life \/ \E why \in Reasons : Die(why)
<1> USE DEF Reasons
<1>1. CASE Acquire(c) \/ Refuse(c)
  BY <1>1 DEF Acquire, Refuse
<1>2. CASE WriteStep(c)
  BY <1>2 DEF WriteStep, SendAdmitted, WriteStarts, KernelTakes, KernelHasRoom, WriteReturns, WriteTimesOut, WriteFails
<1>3. CASE LockTimesOut(c) \/ ScanAdmitted(c) \/ PauseReader(c) \/ ReaderHasParked(c) \/ ParkTimesOut(c) \/ RecordGap(c)
  BY <1>3 DEF LockTimesOut, ScanAdmitted, PauseReader, ReaderHasParked, ParkTimesOut, RecordGap
<1>4. CASE RateFails(c) \/ FlushInput(c) \/ PowerCycle(c) \/ (\E rate \in Rates : SetRate(c, rate) \/ RateRefused(c, rate))
  BY <1>4 DEF RateFails, FlushInput, PowerCycle, SetRate, RateRefused
<1>5. CASE DwellReads(c) \/ DwellFails(c) \/ DwellFindsGone(c) \/ DwellOver(c) \/ DwellJudged(c) \/ SweepsOver(c) \/ Decide(c)
  BY <1>5 DEF DwellReads, DwellFails, DwellFindsGone, DwellOver, DwellJudged, SweepsOver, Decide
<1>6. CASE RestoreRate(c) \/ RestoreFails(c) \/ RestoreFlush(c) \/ RestoreFlushFails(c)
  BY <1>6 DEF RestoreRate, RestoreFails, RestoreFlush, RestoreFlushFails
<1>7. CASE Settle(c) \/ ResumeReader(c) \/ FinishGap(c) \/ ReleaseScan(c)
  BY <1>7 DEF Settle, ResumeReader, FinishGap, ReleaseScan
<1> QED
  BY <1>1, <1>2, <1>3, <1>4, <1>5, <1>6, <1>7 DEF CallStep, ScanStep

(* What the reader does to it: it ends only dead, or stopped.              *)
LEMMA ReaderLife ==
  ASSUME ReaderStep
  PROVE  \/ UNCHANGED life /\ (reader' = "done" => stop)
         \/ \E why \in Reasons : Die(why)
  BY DEF Reasons, ReaderStep, ReaderAt, ReaderLoop, ReaderChecksPause,
         ReaderParks, ReaderWakes, ReaderUnparks, ReadData, ReadQuiet, ReadFails,
         ReadCrashes, AppendChunk, ReaderChecksPath, ClosePulledPort

(* And the close: it ends it.                                              *)
LEMMA CloseLife ==
  ASSUME CloseBegins \/ ShutdownStep \/ DrainStep
  PROVE  /\ reason' = reason
         /\ alive' = alive \/ (alive' = FALSE /\ closer = "ending")
         /\ closing' = closing \/ closing' = TRUE
  BY DEF CloseBegins, ShutdownStep, StopsReader, CancelsWrite, JoinReturns,
         DrainAcquired, ReleasesPort, DrainExpires, EndsLife, DiscardsCapture,
         CloseReturns, DrainStep, DrainerAcquires, DrainerReleases, CloserAt

(* A close ends the life of a session and gives no reason for it.          *)
LEMMA EndLife ==
  ASSUME CloseBegins \/ ShutdownStep \/ DrainStep
  PROVE  reason' = reason /\ (~alive => ~alive')
<1>1. reason' = reason
  BY Closing
<1>2. alive' = alive \/ EndsLife
  BY DEF CloseBegins, ShutdownStep, StopsReader, CancelsWrite, JoinReturns,
         DrainAcquired, ReleasesPort, DrainExpires, DiscardsCapture,
         CloseReturns, DrainStep, DrainerAcquires, DrainerReleases
<1>3. EndsLife => ~alive'
  BY Zenon DEF EndsLife
<1> QED
  BY <1>1, <1>2, <1>3

(* No session is dead, or deaf, without a reason on record.                *)
THEOREM DeathExplained == Spec => []EndIsExplained
<1>1. Init => Base /\ PortInv /\ EndIsExplained
  BY InitBase DEF Init, PortInv, EndIsExplained, Holding, Pausing, Suspending, Sampling, Restoring
<1>2. ASSUME Base, PortInv, EndIsExplained, [Next]_vars PROVE EndIsExplained'
  <2> USE <1>2, RateAssumption DEF EndIsExplained
  <2>1. CASE DataArrives \/ Unplug \/ UdevRemoves \/ UNCHANGED vars
    BY <2>1 DEF DataArrives, Unplug, UdevRemoves, vars
  <2>2. CASE ReaderStep
    BY <2>2, ReaderLife, Bystander DEF Die, PortInv, Base, TypeOK, TypeState
  <2>3. ASSUME NEW c \in Calls, CallStep(c) PROVE EndIsExplained'
    <3>1. UNCHANGED <<closing, reader>>
      BY <2>3, CallMoves, Untouched DEF Moves
    <3> QED
      BY <2>3, <3>1, CallLife DEF Die, Base, TypeOK, TypeState
  <2>4. CASE CloseBegins \/ ShutdownStep \/ DrainStep
    BY <2>4, CloseLife, Closing DEF PortInv
  <2> QED
    BY <1>2, <2>1, <2>2, <2>3, <2>4 DEF Next, Over
<1>3. Base /\ PortInv /\ EndIsExplained /\ [Next]_vars => (Base /\ PortInv /\ EndIsExplained)'
  BY <1>2, BaseStep, PortStep
<1> QED
  BY <1>1, <1>3, PTL DEF Spec

(* No step brings a dead session back, or changes what it died of.         *)
LEMMA DeathStep ==
  [Next]_vars => (~alive => ~alive') /\ (reason # None => reason' = reason)
<1> SUFFICES ASSUME [Next]_vars
             PROVE  (~alive => ~alive') /\ (reason # None => reason' = reason)
  OBVIOUS
<1>1. CASE DataArrives \/ Unplug \/ UdevRemoves \/ UNCHANGED vars
  BY <1>1 DEF DataArrives, Unplug, UdevRemoves, vars
<1>2. CASE ReaderStep
  <2>1. UNCHANGED life \/ \E why \in Reasons : Die(why)
    BY <1>2, ReaderLife
  <2> QED
    BY <2>1 DEF Die
<1>3. ASSUME NEW c \in Calls, CallStep(c)
      PROVE  (~alive => ~alive') /\ (reason # None => reason' = reason)
  BY <1>3, CallLife DEF Die
<1>4. CASE CloseBegins \/ ShutdownStep \/ DrainStep
  <2>1. reason' = reason /\ (~alive => ~alive')
    BY <1>4, EndLife, Zenon
  <2> QED
    BY <2>1
<1> QED
  BY <1>1, <1>2, <1>3, <1>4 DEF Next, Over

(* A dead session stays dead, of what it first died of.                    *)
THEOREM DeathKept == Spec => DeathIsFinal
<1>1. [Next]_vars => [(~alive => ~alive') /\ (reason # None => reason' = reason)]_vars
  BY DeathStep
<1> QED
  BY <1>1, PTL DEF Spec, DeathIsFinal

-----------------------------------------------------------------------------
(* After _closing is set nothing is admitted to the port any more.         *)
LateInv ==
  /\ late \in {0, 1}
  /\ late = 1 => closing /\ \A c \in Calls : pc[c] # "ready"

(* Only a write that starts is counted, and nothing waits at the port      *)
(* behind it.                                                              *)
LEMMA LateCall ==
  ASSUME Base, NEW c \in Calls, CallStep(c)
  PROVE  \/ late' = late /\ (pc'[c] = "ready" => ~closing)
         \/ /\ pc[c] = "ready" /\ pc'[c] # "ready"
            /\ late' = IF closing THEN late + 1 ELSE late
<1>1. CASE WriteStarts(c)
  BY <1>1 DEF WriteStarts, CallAt, Base, TypeOK, TypeThreads
<1>2. CASE ~ WriteStarts(c)
  <2>1. late' = late
    BY <1>2 DEF CallStep, ScanStep, WriteStep, Acquire, Refuse, SendAdmitted,
         KernelTakes, KernelHasRoom, WriteReturns, WriteTimesOut, WriteFails, LockTimesOut,
         ScanAdmitted, PauseReader, ReaderHasParked, ParkTimesOut, RecordGap,
         SetRate, RateRefused, RateFails, FlushInput, PowerCycle, DwellReads,
         DwellFails, DwellFindsGone, DwellOver, DwellJudged, SweepsOver, Decide,
         RestoreRate, RestoreFails, RestoreFlush, RestoreFlushFails, Settle,
         ResumeReader, FinishGap, ReleaseScan
  <2>2. pc'[c] = "ready" => pc[c] = "check" /\ ~Refused
    <3>1. pc'[c] = "ready" => pc[c] \notin Holding \ {"check"}
      BY <1>2 DEF CallStep, ScanStep, WriteStep, Acquire, Refuse, SendAdmitted,
         KernelTakes, KernelHasRoom, WriteReturns, WriteTimesOut, WriteFails, LockTimesOut,
         ScanAdmitted, PauseReader, ReaderHasParked, ParkTimesOut, RecordGap,
         SetRate, RateRefused, RateFails, FlushInput, PowerCycle, DwellReads,
         DwellFails, DwellFindsGone, DwellOver, DwellJudged, SweepsOver, Decide,
         RestoreRate, RestoreFails, RestoreFlush, RestoreFlushFails, Settle,
         ResumeReader, FinishGap, ReleaseScan, AfterFailure, CallAt, Base,
         TypeOK, TypeThreads, Holding
    <3> QED
      BY <3>1, Admitted DEF Holding
  <2> QED
    BY <2>1, <2>2 DEF Refused
<1> QED
  BY <1>1, <1>2

(* LateInv is inductive.                                                   *)
LEMMA LateStep == Base /\ PortInv /\ LateInv /\ [Next]_vars => LateInv'
<1> SUFFICES ASSUME Base, PortInv, LateInv, [Next]_vars PROVE LateInv'
  OBVIOUS
<1>1. CASE DataArrives \/ Unplug \/ UdevRemoves \/ ReaderStep \/ UNCHANGED vars
  BY <1>1, Bystander DEF LateInv
<1>2. ASSUME NEW c \in Calls, CallStep(c) PROVE LateInv'
  <2>1. pc[c] = "ready" => \A d \in Calls \ {c} : pc[d] # "ready"
    BY DEF Base, LockHeld, Holding
  <2>2. closing' = closing /\ \A d \in Calls \ {c} : pc'[d] = pc[d]
    BY <1>2, CallMoves DEF Moves
  <2> QED
    BY <1>2, <2>1, <2>2, LateCall DEF LateInv
<1>3. CASE CloseBegins \/ ShutdownStep \/ DrainStep
  BY <1>3, Closing, CloseLife DEF LateInv
<1> QED
  BY <1>1, <1>2, <1>3 DEF Next, Over

(* A close waits for one write at the most.                                *)
THEOREM LateWriteBounded == Spec => []OneLateWrite
<1>1. Init => Base /\ PortInv /\ LateInv
  BY InitBase DEF Init, PortInv, LateInv, Holding, Pausing, Suspending, Sampling, Restoring
<1>2. Base /\ PortInv /\ LateInv /\ [Next]_vars => (Base /\ PortInv /\ LateInv)'
  BY BaseStep, PortStep, LateStep
<1>3. LateInv => OneLateWrite
  BY DEF LateInv, OneLateWrite
<1> QED
  BY <1>1, <1>2, <1>3, PTL DEF Spec

-----------------------------------------------------------------------------
(* From the moment the close has released the port, or left it to the      *)
(* drain thread.                                                           *)
ReleaseInv ==
  IF closer \in {"ending", "discarding", "unlocking", "done"}
  THEN /\ ~held => ~portOpen
       /\ held /\ portOpen => drainer \in {"waiting", "releasing"}
  ELSE portOpen

(* ReleaseInv is inductive.                                                *)
LEMMA ReleaseStep == Base /\ ReleaseInv /\ [Next]_vars => ReleaseInv'
<1> SUFFICES ASSUME Base, ReleaseInv, [Next]_vars PROVE ReleaseInv'
  OBVIOUS
<1> USE DEF ReleaseInv
<1>1. CASE DataArrives \/ Unplug \/ UdevRemoves \/ ReaderStep \/ UNCHANGED vars
  BY <1>1, Bystander
<1>2. ASSUME NEW c \in Calls, CallStep(c) PROVE ReleaseInv'
  BY <1>2, CallMoves DEF Moves
<1>3. CASE CloseBegins \/ ShutdownStep \/ DrainStep
  BY <1>3 DEF CloseBegins, ShutdownStep, StopsReader, CancelsWrite, JoinReturns,
         DrainAcquired, ReleasesPort, DrainExpires, EndsLife, DiscardsCapture,
         CloseReturns, DrainStep, DrainerAcquires, DrainerReleases, CloserAt,
         Base, LockHeld
<1> QED
  BY <1>1, <1>2, <1>3 DEF Next, Over

(* What close() reports of the port is true, and stays true.               *)
THEOREM CloseTruthful == Spec => []CloseReportsPort
<1>1. Init => Base /\ ReleaseInv
  BY InitBase DEF Init, ReleaseInv
<1>2. Base /\ ReleaseInv /\ [Next]_vars => (Base /\ ReleaseInv)'
  BY BaseStep, ReleaseStep
<1>3. ReleaseInv => CloseReportsPort
  BY DEF ReleaseInv, CloseReportsPort
<1> QED
  BY <1>1, <1>2, <1>3, PTL DEF Spec

(* Every step of the session is a step of the lease, or none.              *)
LEMMA LeaseStep ==
  Base /\ PortInv /\ ReleaseInv /\ [Next]_vars => [Lease!Next]_Lease!vars
<1> SUFFICES ASSUME Base, PortInv, ReleaseInv, [Next]_vars
             PROVE  [Lease!Next]_Lease!vars
  OBVIOUS
<1> USE DEF Lease!vars
<1>1. CASE DataArrives \/ Unplug \/ UdevRemoves \/ ReaderStep \/ UNCHANGED vars
  BY <1>1, Bystander
<1>2. ASSUME NEW c \in Calls, CallStep(c) PROVE UNCHANGED Lease!vars
  BY <1>2, CallMoves DEF Moves
<1>3. CASE CloseBegins
  BY <1>3 DEF CloseBegins, CloserAt, PortInv, Lease!Next, Lease!Ends
<1>4. CASE ShutdownStep
  <2> USE DEF CloserAt, PortInv, ReleaseInv
  <2>1. CASE StopsReader \/ CancelsWrite \/ JoinReturns \/ DrainAcquired
              \/ EndsLife \/ DiscardsCapture
    BY <2>1 DEF StopsReader, CancelsWrite, JoinReturns, DrainAcquired, EndsLife,
                DiscardsCapture
  <2>2. CASE ReleasesPort
    BY <2>2 DEF ReleasesPort, Lease!Next, Lease!Releases
  <2>3. CASE DrainExpires
    BY <2>3 DEF DrainExpires, Lease!Next, Lease!Warns
  <2>4. CASE CloseReturns
    BY <2>4 DEF CloseReturns, Lease!Next, Lease!Returns
  <2> QED
    BY <1>4, <2>1, <2>2, <2>3, <2>4 DEF ShutdownStep
<1>5. CASE DrainStep
  BY <1>5 DEF DrainStep, DrainerAcquires, DrainerReleases, PortInv, Base,
              LockHeld, TypeOK, TypeDevice, Lease!Next, Lease!Releases
<1> QED
  BY <1>1, <1>2, <1>3, <1>4, <1>5 DEF Next, Over

(* The session implements the lease.                                       *)
THEOREM SessionIsLease == Spec => ImplementsLease
<1>1. Init => Base /\ PortInv /\ ReleaseInv
  BY InitBase DEF Init, PortInv, ReleaseInv, Holding, Pausing, Suspending, Sampling, Restoring
<1>2. Base /\ PortInv /\ ReleaseInv /\ [Next]_vars => (Base /\ PortInv /\ ReleaseInv)'
  BY BaseStep, PortStep, ReleaseStep
<1>3. Init => Lease!Init
  BY DEF Init, Lease!Init
<1> QED
  BY <1>1, <1>2, <1>3, LeaseStep, PTL DEF Spec, ImplementsLease, Lease!Spec

-----------------------------------------------------------------------------
(* Where a write stands with the kernel's queue at each of its places, and *)
(* what it then answers.                                                   *)
Stands(c) ==
  /\ pc[c] # "end" => outcome[c].reply = "none"
  /\ pc[c] \in {"start", "check", "ready"} => outcome[c].taken = 0
  /\ pc[c] = "inport" => outcome[c].count = outcome[c].taken
  /\ outcome[c].count <= outcome[c].taken
  /\ outcome[c].taken <= Payload

Told(c) ==
  /\ outcome[c].reply = "sent" => outcome[c].taken = Payload
  /\ outcome[c].reply = "refused" => outcome[c].taken = 0
  /\ outcome[c].reply = "aborted" =>
       closing /\ outcome[c].count <= outcome[c].taken
  /\ outcome[c].reply = "failed" => ~alive /\ reason # None

SendInv ==
  /\ cancelled => closing
  /\ \A c \in Sends : Stands(c) /\ Told(c)

(* Only a call writes its answer.                                          *)
LEMMA OwnAnswer ==
  ASSUME Base, NEW c \in Calls, CallStep(c)
  PROVE  \A d \in Calls \ {c} : outcome'[d] = outcome[d]
<1> USE DEF Base, TypeOK, TypeThreads, Answer
<1>1. CASE Acquire(c) \/ Refuse(c) \/ WriteStep(c)
  BY <1>1 DEF Acquire, Refuse, WriteStep, SendAdmitted, WriteStarts,
              KernelTakes, KernelHasRoom, WriteReturns, WriteTimesOut, WriteFails
<1>2. CASE LockTimesOut(c) \/ ReleaseScan(c)
  BY <1>2 DEF LockTimesOut, ReleaseScan
<1>3. CASE ScanStep(c) /\ ~ReleaseScan(c) /\ ~LockTimesOut(c)
  BY <1>3 DEF ScanStep, ScanAdmitted, PauseReader, ReaderHasParked,
              ParkTimesOut, RecordGap, SetRate, RateRefused, RateFails,
              FlushInput, PowerCycle, DwellReads, DwellFails, DwellFindsGone,
              DwellOver, DwellJudged, SweepsOver, Decide, RestoreRate,
              RestoreFails, RestoreFlush, RestoreFlushFails, Settle,
              ResumeReader, FinishGap
<1> QED
  BY <1>1, <1>2, <1>3 DEF CallStep

(* A write does not scan.                                                  *)
LEMMA SendSteps ==
  ASSUME Base, NEW c \in Sends, CallStep(c)
  PROVE  Acquire(c) \/ Refuse(c) \/ WriteStep(c)
<1>1. c \notin Sweepers
  BY CallsAssumption
<1>2. pc[c] \notin ScanPlaces
  BY <1>1 DEF Base, ScanFits
<1> USE <1>1, <1>2 DEF CallAt, ScanPlaces, Pausing, Suspending, Sampling, Restoring
<1>3. ~ (LockTimesOut(c) \/ ScanAdmitted(c) \/ PauseReader(c)
          \/ ReaderHasParked(c) \/ ParkTimesOut(c) \/ RecordGap(c))
  BY DEF LockTimesOut, ScanAdmitted, PauseReader, ReaderHasParked,
         ParkTimesOut, RecordGap
<1>4. ~ (RateFails(c) \/ FlushInput(c) \/ PowerCycle(c)
          \/ \E rate \in Rates : SetRate(c, rate) \/ RateRefused(c, rate))
  BY DEF RateFails, FlushInput, PowerCycle, SetRate, RateRefused
<1>5. ~ (DwellReads(c) \/ DwellFails(c) \/ DwellFindsGone(c) \/ DwellOver(c)
          \/ DwellJudged(c) \/ SweepsOver(c) \/ Decide(c))
  BY DEF DwellReads, DwellFails, DwellFindsGone, DwellOver, DwellJudged,
         SweepsOver, Decide
<1>6. ~ (RestoreRate(c) \/ RestoreFails(c) \/ RestoreFlush(c)
          \/ RestoreFlushFails(c) \/ Settle(c) \/ ResumeReader(c)
          \/ FinishGap(c) \/ ReleaseScan(c))
  BY DEF RestoreRate, RestoreFails, RestoreFlush, RestoreFlushFails, Settle,
         ResumeReader, FinishGap, ReleaseScan
<1> QED
  BY <1>3, <1>4, <1>5, <1>6 DEF CallStep, ScanStep

(* A cancel only ever comes of a close, which nothing undoes.              *)
LEMMA CancelStep ==
  ASSUME Base, PortInv, cancelled => closing, [Next]_vars
  PROVE  (cancelled' => closing') /\ (closing => closing')
<1>1. CASE DataArrives \/ Unplug \/ UdevRemoves \/ ReaderStep \/ UNCHANGED vars
  BY <1>1, Bystander
<1>2. ASSUME NEW c \in Calls, CallStep(c) PROVE closing' = closing /\ (cancelled' => cancelled)
  <2>1. closing' = closing
    BY <1>2, CallMoves DEF Moves
  <2>2. CASE Acquire(c) \/ Refuse(c) \/ WriteStep(c)
    BY <2>2 DEF Acquire, Refuse, WriteStep, SendAdmitted, WriteStarts,
              KernelTakes, KernelHasRoom, WriteReturns, WriteTimesOut, WriteFails
  <2>3. CASE ScanStep(c)
    <3>1. CASE \E rate \in Rates : SetRate(c, rate) \/ RateRefused(c, rate)
      BY <3>1 DEF SetRate, RateRefused
    <3>2. CASE LockTimesOut(c) \/ ScanAdmitted(c) \/ PauseReader(c)
                \/ ReaderHasParked(c) \/ ParkTimesOut(c) \/ RecordGap(c)
      BY <3>2 DEF LockTimesOut, ScanAdmitted, PauseReader, ReaderHasParked,
                  ParkTimesOut, RecordGap
    <3>3. CASE RateFails(c) \/ FlushInput(c) \/ PowerCycle(c)
      BY <3>3 DEF RateFails, FlushInput, PowerCycle
    <3>5. CASE DwellReads(c) \/ DwellFails(c) \/ DwellFindsGone(c) \/ DwellOver(c)
      BY <3>5 DEF DwellReads, DwellFails, DwellFindsGone, DwellOver
    <3>6. CASE DwellJudged(c) \/ SweepsOver(c)
      BY <3>6 DEF DwellJudged, SweepsOver
    <3>7. CASE Decide(c)
      <4>1. UNCHANGED ending
        BY <3>7 DEF Decide
      <4> QED
        BY <4>1
    <3>4. CASE RestoreRate(c) \/ RestoreFails(c) \/ RestoreFlush(c)
                \/ RestoreFlushFails(c) \/ Settle(c) \/ ResumeReader(c)
                \/ FinishGap(c) \/ ReleaseScan(c)
      BY <3>4 DEF RestoreRate, RestoreFails, RestoreFlush, RestoreFlushFails,
                  Settle, ResumeReader, FinishGap, ReleaseScan
    <3> QED
      BY <2>3, <3>1, <3>2, <3>3, <3>4, <3>5, <3>6, <3>7 DEF ScanStep
  <2> QED
    BY <1>2, <2>1, <2>2, <2>3 DEF CallStep
<1>3. CASE CloseBegins \/ ShutdownStep \/ DrainStep
  <2>1. closing' = closing \/ closing' = TRUE
    BY <1>3, CloseLife
  <2>2. cancelled' = cancelled \/ CancelsWrite
    BY <1>3 DEF CloseBegins, ShutdownStep, StopsReader, JoinReturns,
         DrainAcquired, ReleasesPort, DrainExpires, EndsLife, DiscardsCapture,
         CloseReturns, DrainStep, DrainerAcquires, DrainerReleases
  <2>3. CancelsWrite => closing
    BY DEF CancelsWrite, CloserAt, PortInv
  <2> QED
    BY <2>1, <2>2, <2>3
<1> QED
  BY <1>1, <1>2, <1>3 DEF Next, Over

(* A write keeps its account with the kernel, and answers by it.           *)
LEMMA SendStands ==
  ASSUME Base, NEW c \in Sends, CallStep(c), cancelled => closing,
         Stands(c), Told(c)
  PROVE  Stands(c)' /\ Told(c)'
<1> USE DEF Base, TypeOK, TypeThreads, CallAt, Answer, Stands, Told
<1>0. closing' = closing /\ outcome[c] \in Answers /\ outcome[c].count \in Nat
      /\ outcome[c].taken \in Nat
  BY CallMoves DEF Moves, Answers
<1>1. CASE Acquire(c) \/ SendAdmitted(c) \/ WriteStarts(c)
  BY <1>1, <1>0 DEF Acquire, SendAdmitted, WriteStarts
<1>2. CASE Refuse(c)
  BY <1>2, <1>0 DEF Refuse, Answers
<1>3. CASE KernelTakes(c)
  BY <1>3, <1>0, PayloadAssumption DEF KernelTakes, Answers
<1>4. CASE KernelHasRoom(c)
  BY <1>4, <1>0 DEF KernelHasRoom, Answers
<1>5. CASE WriteReturns(c)
  BY <1>5, <1>0, PayloadAssumption DEF WriteReturns, CountIsShort, Answers
<1>6. CASE WriteTimesOut(c)
  BY <1>6, <1>0 DEF WriteTimesOut, Answers
<1>7. CASE WriteFails(c)
  BY <1>7, <1>0, RateAssumption DEF WriteFails, Die, Reasons, Answers
<1> QED
  BY <1>1, <1>2, <1>3, <1>4, <1>5, <1>6, <1>7, SendSteps DEF WriteStep

(* The answers of the others stay true while the session ends.             *)
LEMMA SendRests ==
  ASSUME NEW d \in Sends, Stands(d), Told(d), pc'[d] = pc[d],
         outcome'[d] = outcome[d], closing => closing', ~alive => ~alive',
         reason # None => reason' = reason
  PROVE  Stands(d)' /\ Told(d)'
  BY DEF Stands, Told

(* SendInv is inductive.                                                   *)
LEMMA SendStep == Base /\ PortInv /\ SendInv /\ [Next]_vars => SendInv'
<1> SUFFICES ASSUME Base, PortInv, SendInv, [Next]_vars PROVE SendInv'
  OBVIOUS
<1>1. (cancelled' => closing') /\ (closing => closing')
  BY CancelStep DEF SendInv
<1>2. (~alive => ~alive') /\ (reason # None => reason' = reason)
  BY DeathStep
<1> SUFFICES ASSUME NEW d \in Sends PROVE Stands(d)' /\ Told(d)'
  BY <1>1 DEF SendInv
<1>3. Stands(d) /\ Told(d)
  BY DEF SendInv
<1>4. CASE UNCHANGED <<pc, outcome>>
  BY <1>1, <1>2, <1>3, <1>4, SendRests
<1>5. ASSUME NEW c \in Calls, CallStep(c) PROVE Stands(d)' /\ Told(d)'
  <2>1. CASE d = c
    BY <1>3, <1>5, <2>1, SendStands DEF SendInv
  <2>2. CASE d # c
    <3>1. pc'[d] = pc[d] /\ outcome'[d] = outcome[d]
      BY <1>5, <2>2, CallMoves, OwnAnswer DEF Moves
    <3> QED
      BY <1>1, <1>2, <1>3, <3>1, SendRests
  <2> QED
    BY <2>1, <2>2
<1>6. CASE DataArrives \/ Unplug \/ UdevRemoves \/ ReaderStep \/ UNCHANGED vars
  BY <1>4, <1>6, Bystander
<1>7. CASE CloseBegins \/ ShutdownStep \/ DrainStep
  BY <1>4, <1>7, Closing
<1> QED
  BY <1>5, <1>6, <1>7 DEF Next, Over

(* What write() answers is true of the kernel's queue and of the session,  *)
(* however many calls race the close that cancels them, and stays true.    *)
THEOREM SendTruthful == Spec => []SendRepliesAreTrue
<1>1. Init => Base /\ PortInv /\ SendInv
  <2> SUFFICES ASSUME Init PROVE PortInv /\ SendInv
    BY InitBase
  <2>1. PortInv
    BY DEF Init, PortInv, Holding, Pausing, Suspending, Sampling, Restoring
  <2>2. ~cancelled /\ \A c \in Sends : pc[c] = "start"
          /\ outcome[c] = [reply |-> "none", taken |-> 0, count |-> 0]
    BY DEF Init
  <2> QED
    BY <2>1, <2>2, PayloadAssumption DEF SendInv, Stands, Told
<1>2. Base /\ PortInv /\ SendInv /\ [Next]_vars => (Base /\ PortInv /\ SendInv)'
  BY BaseStep, PortStep, SendStep
<1>3. SendInv => SendRepliesAreTrue
  BY DEF SendInv, Told, SendRepliesAreTrue
<1> QED
  BY <1>1, <1>2, <1>3, PTL DEF Spec

=============================================================================
