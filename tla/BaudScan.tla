------------------------------ MODULE BaudScan ------------------------------
(***************************************************************************)
(* One baud scan from the request to the reply: console_detect_baud with   *)
(* the sweeps of scan_baud, or console_detect_baud_cycling with the single *)
(* pass of scan_baud_cycling.  ConsoleSession has the locks, the reader and*)
(* the port; here is which candidate is sampled when and for how long, what*)
(* is concluded from it, and the time it takes.                            *)
(*                                                                         *)
(* clock counts from the moment the reader has parked.  A visit to a       *)
(* candidate is one step: it takes its time and adds to the sample what the*)
(* target was heard to say.                                                *)
(***************************************************************************)
EXTENDS BaudScore

CONSTANTS
  Asks,       \* the requests: [mode, rates, off, capture]
  Chunks,     \* what may be heard in one visit, as counts
  Original,   \* the session's rate when the scan starts
  Dwell,      \* DEFAULT_DWELL_SECONDS
  Overshoot,  \* READ_TIMEOUT: how late the last read of a visit comes back
  Budget,     \* CONFIG.scan_budget_s
  Deadline,   \* CONFIG.request_deadline_s
  OffFloor, OffCeiling,   \* OFF_MS_FLOOR, OFF_MS_CEILING of the relay
  Margin,     \* CYCLE_MARGIN_S
  Trips       \* how long the relay's round trips may take in one cycle

ASSUME TimeAssumption ==
  /\ Dwell \in Nat \ {0} /\ Overshoot \in Nat /\ Budget \in Nat \ {0}
  /\ Deadline \in Nat /\ Margin \in Nat /\ Trips \in Nat
  /\ OffFloor \in Nat /\ OffCeiling \in Nat /\ OffFloor <= OffCeiling
ASSUME AskAssumption ==
  Asks \subseteq [mode: {"passive", "cycling"}, rates: Seq(Int \cup {NoRate}),
                  off: Int, capture: Int]
ASSUME RateAssumption == Original \in Nat \ {0} /\ NoRate \notin Int
ASSUME ChunkAssumption == Chunks \subseteq [Counts -> Nat]

VARIABLES
  ask,        \* the request
  at,         \* where the scan is
  rates,      \* the sanitized candidates
  pending,    \* the candidates of this sweep
  next,       \* the place in pending of the next one
  sweeps,     \* complete passes over the candidates
  samples,    \* what was collected, by rate
  order,      \* the rates of samples, in the order they were first sampled
  heard,      \* listened: how long, by rate
  rejected,   \* the rates the hardware refused
  clock,      \* time since the reader parked
  stopping,   \* _stop or _closing
  died,       \* death_reason
  early,      \* early_exited
  applied,    \* the rate the port last accepted
  winner,     \* the winner, after the restore
  reply       \* the verdict and whether the wiring hint came with it

evidence == <<samples, order, heard, rejected>>
progress == <<pending, next, sweeps, early>>
vars == <<ask, at, rates, pending, next, sweeps, samples, order, heard,
          rejected, clock, stopping, died, early, applied, winner, reply>>

UsableRates == 1 .. MaxBaudRate

Passive == ask.mode = "passive"

NoReply == [verdict |-> "none", hint |-> FALSE]

Init ==
  /\ ask \in Asks
  /\ at = "asked"
  /\ rates = <<>> /\ pending = <<>> /\ next = 1 /\ sweeps = 0
  /\ samples = <<>> /\ order = <<>> /\ heard = <<>> /\ rejected = {}
  /\ clock = 0
  /\ stopping = FALSE /\ died = FALSE /\ early = FALSE
  /\ applied = Original /\ winner = NoRate
  /\ reply = NoReply

-----------------------------------------------------------------------------
(* The handler, before the scan.                                           *)

Candidates == SanitizeRates(ask.rates)

Admitted ==
  /\ Candidates # <<>>
  /\ IF Passive
       THEN BudgetFits(Len(Candidates), Dwell, Budget, Deadline)
       ELSE CyclesFit(Len(Candidates), ask.off, ask.capture, Margin, Budget,
                      Deadline)

Starts ==
  /\ at = "asked" /\ Admitted
  /\ at' = "sampling"
  /\ rates' = Candidates
  /\ pending' = Candidates
  /\ UNCHANGED <<ask, next, sweeps, evidence, clock, stopping, died, early,
                 applied, winner, reply>>

(* A bad list or budget, or a port the scan could not take over.           *)
Refuses ==
  /\ at = "asked"
  /\ at' = "replied"
  /\ reply' = [NoReply EXCEPT !.verdict = "error"]
  /\ UNCHANGED <<ask, rates, progress, evidence, clock, stopping, died, applied,
                 winner>>

CloseBegins ==
  /\ at = "sampling"
  /\ ~stopping
  /\ stopping' = TRUE
  /\ UNCHANGED <<ask, at, rates, progress, evidence, clock, died, applied,
                 winner, reply>>

-----------------------------------------------------------------------------
(* The visit to a candidate.                                               *)

(* Mutant of OutOfTime: the budget is only looked at between sweeps.       *)
NeverOutOfTime == FALSE

(* The first sweep is never cut short by the budget.                       *)
OutOfTime == Passive /\ sweeps >= 1 /\ clock >= Budget

Visited == at = "sampling" /\ next <= Len(pending) /\ ~stopping /\ ~OutOfTime
Rate == pending[next]

(* A close or the budget ends the sampling between two candidates.         *)
CutShort ==
  /\ at = "sampling" /\ next <= Len(pending)
  /\ stopping \/ OutOfTime
  /\ at' = "deciding"
  /\ UNCHANGED <<ask, rates, progress, evidence, clock, stopping, died, applied,
                 winner, reply>>

(* Mutant of WithoutSample: what a refused rate said earlier is kept.      *)
WithSample(r) == samples

WithoutSample(r) == [q \in DOMAIN samples \ {r} |-> samples[q]]

(* ValueError or OverflowError of the assignment.                          *)
RateRefused ==
  /\ Visited
  /\ rejected' = rejected \cup {Rate}
  /\ samples' = WithoutSample(Rate)
  /\ order' = KeepOnly(order, DOMAIN samples')
  /\ next' = next + 1
  /\ UNCHANGED <<ask, at, rates, pending, sweeps, heard, clock, stopping, died,
                 early, applied, winner, reply>>

Window == IF Passive THEN Dwell ELSE Most(0, ask.capture)

(* _clamp_off_ms and the relay's round trips, before a cycling window.     *)
OffTime == Most(OffFloor, Least(OffCeiling, ask.off))
Preparations == IF Passive THEN {0} ELSE {OffTime, OffTime + Trips}

(* How setting a rate fails: the adapter is gone, the relay does not answer*)
(* or the flush raises termios.error, which no handler names.              *)
Failures ==
  {[died |-> TRUE, said |-> "error"], [died |-> FALSE, said |-> "escaped"]}
  \cup IF Passive THEN {} ELSE {[died |-> FALSE, said |-> "error"]}

(* The exception leaves through the restore, and there is no result.       *)
VisitFails ==
  /\ Visited
  /\ \E failure \in Failures :
       /\ died' = failure.died
       /\ reply' = [NoReply EXCEPT !.verdict = failure.said]
  /\ \E spent \in {0} \cup Preparations : clock' = clock + spent
  /\ applied' \in {Original, applied, Rate}
  /\ at' = "replied"
  /\ UNCHANGED <<ask, rates, progress, evidence, stopping, winner>>

(* The visit: its sample, whatever was heard before, and its time.         *)
Listens(chunk, spent, took) ==
  LET r   == Rate
      old == IF r \in DOMAIN samples THEN samples[r] ELSE Empty
      had == IF r \in DOMAIN heard THEN heard[r] ELSE 0
  IN  /\ samples' = [q \in DOMAIN samples \cup {r} |->
                       IF q = r THEN Plus(old, chunk) ELSE samples[q]]
      /\ order' = IF r \in DOMAIN samples THEN order ELSE Append(order, r)
      /\ heard' = [q \in DOMAIN heard \cup {r} |->
                     IF q = r THEN had + took ELSE heard[q]]
      /\ clock' = clock + spent + took
      /\ applied' = r

(* An empty window is over before anything is read.                        *)
WindowTakes == IF Window = 0 THEN {0} ELSE {Window, Window + Overshoot}
WindowHears == IF Window = 0 THEN {Empty} ELSE Chunks

VisitCompletes ==
  /\ Visited
  /\ \E chunk \in WindowHears, spent \in Preparations, took \in WindowTakes :
       Listens(chunk, spent, took)
  /\ next' = next + 1
  /\ UNCHANGED <<ask, at, rates, pending, sweeps, rejected, stopping, died, early,
                 winner, reply>>

(* A close in the middle of the window.                                    *)
VisitIsCut ==
  /\ Visited
  /\ \E chunk \in WindowHears, spent \in Preparations : Listens(chunk, spent, 0)
  /\ stopping' = TRUE
  /\ next' = next + 1
  /\ UNCHANGED <<ask, at, rates, pending, sweeps, rejected, died, early, winner,
                 reply>>

(* The read fails, or the by-id path no longer resolves.                   *)
VisitFindsGone ==
  /\ Visited /\ Window > 0
  /\ \E chunk \in Chunks, spent \in Preparations :
       \E took \in {0, Window + Overshoot} : Listens(chunk, spent, took)
  /\ died' = TRUE
  /\ at' = "deciding"
  /\ UNCHANGED <<ask, rates, progress, rejected, stopping, winner, reply>>

-----------------------------------------------------------------------------
(* Between sweeps.                                                         *)

ClearSample == \E r \in DOMAIN samples : LooksLikeConsole(samples[r])

(* Refused candidates leave; the scan goes on unless one sample is clear,  *)
(* the budget is spent or no candidate is left.  Cycling makes one pass.   *)
SweepOver ==
  /\ at = "sampling" /\ next > Len(pending)
  /\ sweeps' = sweeps + 1
  /\ pending' = KeepOnly(pending, UsableRates \ rejected)
  /\ next' = 1
  /\ early' = (Passive /\ ClearSample)
  /\ at' = IF ~Passive \/ ClearSample \/ clock >= Budget \/ pending' = <<>>
             THEN "deciding" ELSE "sampling"
  /\ UNCHANGED <<ask, rates, evidence, clock, stopping, died, applied, winner,
                 reply>>

-----------------------------------------------------------------------------
(* The decision and the restore: the winner's rate, else the original one, *)
(* else the port stays where it is and there is no winner.                 *)

Picked == PickWinner(samples, order)
Wanted == IF Picked = NoRate THEN Original ELSE Picked

DecidesAndRestores ==
  /\ at = "deciding"
  /\ at' = "restored"
  /\ applied' \in {Wanted, Original, applied}
  /\ winner' = IF applied' = Picked THEN Picked ELSE NoRate
  /\ UNCHANGED <<ask, rates, progress, evidence, clock, stopping, died, reply>>

(* The lock is free and the reader goes on before the result is put        *)
(* together, death reason last.                                            *)
DiesBeforeReply ==
  /\ at = "restored"
  /\ ~died
  /\ died' = TRUE
  /\ UNCHANGED <<ask, at, rates, progress, evidence, clock, stopping, applied,
                 winner, reply>>

Attempted == Cardinality(DOMAIN samples) + Cardinality(rejected)

Verdict ==
  IF ~Passive THEN "ranked"
  ELSE IF Attempted < Len(rates) THEN "scan_aborted"
  ELSE IF died THEN "scan_device_died"
  ELSE IF order = <<>> /\ rejected # {} THEN "all_candidate_rates_rejected"
  ELSE IF AllSilent(samples) THEN "no_data_at_any_rate"
  ELSE IF winner = NoRate THEN "no_clear_winner"
  ELSE "winner"

WiringHint ==
  \/ Verdict = "no_data_at_any_rate"
  \/ Verdict = "no_clear_winner" /\ AllScoredPoorly(samples)

Replies ==
  /\ at = "restored"
  /\ at' = "replied"
  /\ reply' = [verdict |-> Verdict, hint |-> WiringHint]
  /\ UNCHANGED <<ask, rates, progress, evidence, clock, stopping, died, applied,
                 winner>>

-----------------------------------------------------------------------------
Next ==
  \/ Starts \/ Refuses \/ CloseBegins
  \/ CutShort \/ RateRefused \/ VisitFails
  \/ VisitCompletes \/ VisitIsCut \/ VisitFindsGone
  \/ SweepOver \/ DecidesAndRestores \/ DiesBeforeReply \/ Replies

Spec == Init /\ [][Next]_vars

-----------------------------------------------------------------------------
Verdicts == {"none", "error", "escaped", "ranked", "scan_aborted",
             "scan_device_died", "all_candidate_rates_rejected",
             "no_data_at_any_rate", "no_clear_winner", "winner"}
Places == {"asked", "sampling", "deciding", "restored", "replied"}

TypeOK ==
  /\ ask \in Asks /\ at \in Places
  /\ rates \in Seq(UsableRates) /\ pending \in Seq(UsableRates)
  /\ next \in 1 .. Len(rates) + 1 /\ sweeps \in Nat
  /\ DOMAIN samples \subseteq UsableRates
  /\ \A r \in DOMAIN samples : samples[r] \in [Counts -> Nat]
  /\ order \in Seq(DOMAIN samples)
  /\ DOMAIN heard \subseteq UsableRates
  /\ \A r \in DOMAIN heard : heard[r] \in Nat
  /\ rejected \subseteq UsableRates
  /\ clock \in Nat
  /\ stopping \in BOOLEAN /\ died \in BOOLEAN /\ early \in BOOLEAN
  /\ applied \in UsableRates \cup {Original} /\ winner \in UsableRates \cup {NoRate}
  /\ reply \in [verdict: Verdicts, hint: BOOLEAN]

(* The verdicts that speak of every candidate.                             *)
Conclusive == {"all_candidate_rates_rejected", "no_data_at_any_rate",
               "no_clear_winner", "winner"}

(* A verdict on the line rests on every usable rate the caller passed: the *)
(* hardware refused it, or it was listened to for a full dwell, but for a  *)
(* close in the middle of one.                                             *)
EvidenceIsComplete ==
  reply.verdict \in Conclusive =>
    /\ ~died
    /\ \A i \in DOMAIN ask.rates :
         LET r == ask.rates[i]
         IN  Usable(r) => \/ r \in rejected
                          \/ r \in DOMAIN samples /\ (heard[r] >= Dwell \/ stopping)

(* A scan is called aborted only if a close or a death cut it.             *)
AbortHasCause == reply.verdict = "scan_aborted" => stopping \/ died

Top == RankCandidates(samples, order)[1]

(* A winner is live at the port, was not refused, is the first of the      *)
(* ranking that goes with it and clears both bars.                         *)
WinnerIsFirst ==
  at = "replied" /\ winner # NoRate =>
    /\ applied = winner /\ winner \notin rejected
    /\ winner = Top /\ LooksLikeConsole(samples[winner])

(* There is no winner only if the first of the ranking is not clear, or    *)
(* the port would not take its rate.                                       *)
NoWinnerIsDue ==
  reply.verdict = "no_clear_winner" =>
    ~LooksLikeConsole(samples[Top]) \/ applied # Top

(* No rate is both sampled and refused, though a rate may be refused after *)
(* it was sampled: the handler adds the two sizes to tell an aborted scan. *)
CountIsTrue == DOMAIN samples \cap rejected = {} /\ Attempted <= Len(rates)

(* What the reply claims, whatever was refused, cut or restored on the way:*)
(* the verdict of console_detect_baud is what the scan has evidence for.   *)
VerdictIsEarned ==
  /\ EvidenceIsComplete /\ AbortHasCause
  /\ WinnerIsFirst /\ NoWinnerIsDue
  /\ CountIsTrue

(* A sweep overruns its budget by at most one visit, or by the overshoot of*)
(* its first pass; and a cycling scan that was admitted stays within the   *)
(* budget and the deadline, if Margin covers what its arithmetic leaves    *)
(* out: the relay's round trips, a late read and a clamped off time.       *)
ScanEndsInTime ==
  IF Passive
    THEN clock <= Most(Len(rates) * (Dwell + Overshoot),
                       Budget - 1 + Dwell + Overshoot)
    ELSE Trips + Overshoot + OffFloor <= Margin => clock <= Least(Budget, Deadline)
=============================================================================
