--------------------------- MODULE BaudScanProofs ---------------------------
(***************************************************************************)
(* Proofs about BaudScan, for any requests, noise and timing constants.    *)
(***************************************************************************)
EXTENDS BaudScan, BaudScoreProofs

(* The candidates the scan has an answer about.                            *)
Attempts == DOMAIN samples \cup rejected

(* What is in the lists: no rate twice, the pending ones are candidates,   *)
(* and the order lists the samples.                                        *)
ListInv ==
  /\ Distinct(rates) /\ Distinct(pending)
  /\ Entries(pending) \subseteq Entries(rates) /\ Len(pending) <= Len(rates)
  /\ next <= Len(pending) + 1
  /\ Entries(order) = DOMAIN samples

(* A rate is sampled or refused, not both, and a refused one not pending.  *)
CountInv ==
  /\ DOMAIN samples \cap rejected = {}
  /\ Attempts \subseteq Entries(rates)
  /\ \A i \in 1 .. Len(pending) : i >= next => pending[i] \notin rejected

(* What is still as it was at first when a request has not been admitted.  *)
BlankInv ==
  /\ rates = <<>> => pending = <<>> /\ next = 1
  /\ at = "asked" => /\ rates = <<>> /\ sweeps = 0 /\ clock = 0
                     /\ DOMAIN samples = {} /\ rejected = {} /\ DOMAIN heard = {}
  /\ at \in {"sampling", "deciding", "restored"} => rates # <<>>
  /\ rates # <<>> => rates = Candidates /\ Admitted

BaseInv == TypeOK /\ ListInv /\ CountInv /\ BlankInv

(* A list whose entries are in a set is a list over that set.              *)
LEMMA Retype ==
  ASSUME NEW T, NEW list \in Seq(T), NEW V, Entries(list) \subseteq V
  PROVE  list \in Seq(V)
<1>1. Len(list) \in Nat /\ list \in [1 .. Len(list) -> V]
  BY DEF Entries
<1> QED
  BY <1>1

(* A request has the type AskAssumption gives it.                          *)
LEMMA AskTypes ==
  ASSUME TypeOK
  PROVE  /\ ask.mode \in {"passive", "cycling"} /\ ask.off \in Int /\ ask.capture \in Int
         /\ ask.rates \in Seq(Int \cup {NoRate})
  BY AskAssumption DEF TypeOK

(* Times are natural numbers.                                              *)
LEMMA TimeTypes ==
  ASSUME TypeOK
  PROVE  /\ Window \in Nat /\ OffTime \in Nat
         /\ \A spent \in Preparations : spent \in Nat
         /\ \A took \in WindowTakes : took \in Nat
         /\ WindowHears \subseteq Sample
<1>1. Window \in Nat /\ OffTime \in Nat
  BY AskTypes, TimeAssumption DEF Window, OffTime, Most, Least
<1>2. Empty \in Sample
  BY DEF Empty, Sample
<1> QED
  BY <1>1, <1>2, TimeAssumption, ChunkAssumption
     DEF Preparations, WindowTakes, WindowHears, Sample

(* The winner is one of the rates that were sampled.                       *)
LEMMA PickedIsSampled ==
  ASSUME TypeOK, ListInv
  PROVE  /\ Sampled(samples, order) /\ NoRate \notin Int
         /\ Picked \in DOMAIN samples \cup {NoRate}
         /\ order # <<>> =>
              /\ Top \in DOMAIN samples
              /\ Picked = IF LooksLikeConsole(samples[Top]) THEN Top ELSE NoRate
<1>1. /\ order \in Seq(DOMAIN samples) /\ DOMAIN samples \subseteq Int
      /\ \A i \in 1 .. Len(order) : samples[order[i]] \in Sample /\ order[i] \in DOMAIN samples
  BY LineAssumption DEF TypeOK, UsableRates, Sample
<1>2. Entries(order) \subseteq Int
  BY <1>1 DEF Entries
<1>3. order \in Seq(Int)
  BY <1>1, <1>2, Retype
<1>4. Sampled(samples, order) /\ NoRate \notin Int
  BY <1>1, <1>3, RateAssumption DEF Sampled
<1>5. CASE order = <<>>
  <2>1. {i \in 1 .. Len(order) : samples[order[i]].n > 0} = {}
    BY <1>5
  <2>2. Best(samples, order) = NoRate
    BY <1>4, <2>1, BestIsFirst
  <2> QED
    BY <1>4, <1>5, <2>2 DEF Picked, PickWinner
<1>6. CASE order # <<>>
  <2>1. Top \in DOMAIN samples
    BY <1>1, <1>4, <1>6, TopIsFirst DEF Top
  <2>2. Picked = IF LooksLikeConsole(samples[Top]) THEN Top ELSE NoRate
    BY <1>4, <1>6, WinnerHeadsRanking DEF Picked, Top
  <2> QED
    BY <1>4, <2>1, <2>2
<1> QED
  BY <1>5, <1>6

-----------------------------------------------------------------------------
(* A visit's sample: the rate joins the samples, or adds to its own.       *)
LEMMA ListenKeeps ==
  ASSUME BaseInv, Visited, NEW chunk \in Sample, NEW spent \in Nat, NEW took \in Nat,
         Listens(chunk, spent, took)
  PROVE  /\ Rate \in UsableRates /\ Rate \in Entries(rates) /\ Rate \notin rejected
         /\ DOMAIN samples' = DOMAIN samples \cup {Rate}
         /\ DOMAIN samples' \subseteq UsableRates
         /\ \A r \in DOMAIN samples' : samples'[r] \in [Counts -> Nat]
         /\ order' \in Seq(DOMAIN samples') /\ Entries(order') = DOMAIN samples'
         /\ DOMAIN heard' \subseteq UsableRates
         /\ \A r \in DOMAIN heard' : heard'[r] \in Nat
         /\ clock' = clock + spent + took /\ clock' \in Nat /\ applied' = Rate
<1>h. TypeOK /\ ListInv /\ CountInv
  BY DEF BaseInv
<1>1. next \in 1 .. Len(pending) /\ pending \in Seq(UsableRates) /\ next \in Nat
  BY <1>h DEF TypeOK, Visited
<1>2. Rate \in UsableRates /\ Rate \in Entries(rates) /\ Rate \notin rejected
  <2>1. pending[next] \in UsableRates /\ pending[next] \in Entries(pending)
    BY <1>1 DEF Entries
  <2>2. pending[next] \notin rejected
    BY <1>1, <1>h DEF CountInv
  <2> QED
    BY <1>h, <2>1, <2>2 DEF Rate, ListInv
<1>3. DOMAIN samples' = DOMAIN samples \cup {Rate}
  BY DEF Listens
<1>4. \A r \in DOMAIN samples' : samples'[r] \in [Counts -> Nat]
  <2>1. ASSUME NEW old \in Sample PROVE Plus(old, chunk) \in Sample
    BY DEF Plus, Sample
  <2>2. Empty \in Sample
    BY DEF Empty, Sample
  <2>3. ASSUME NEW r \in DOMAIN samples' PROVE samples'[r] \in Sample
    <3>1. samples'[r] = IF r = Rate
                        THEN Plus(IF Rate \in DOMAIN samples THEN samples[Rate] ELSE Empty, chunk)
                        ELSE samples[r]
      BY <2>3 DEF Listens
    <3>2. r = Rate \/ r \in DOMAIN samples
      BY <1>3
    <3>3. \A q \in DOMAIN samples : samples[q] \in Sample
      BY <1>h DEF TypeOK, Sample
    <3> QED
      BY <2>1, <2>2, <3>1, <3>2, <3>3
  <2> QED
    BY <2>3 DEF Sample
<1>5. order' \in Seq(DOMAIN samples') /\ Entries(order') = DOMAIN samples'
  <2>1. order \in Seq(DOMAIN samples) /\ Entries(order) = DOMAIN samples
    BY <1>h DEF TypeOK, ListInv
  <2>2. order \in Seq(DOMAIN samples')
    BY <1>3, <2>1, Retype
  <2>3. CASE Rate \in DOMAIN samples
    BY <1>3, <2>1, <2>2, <2>3 DEF Listens
  <2>4. CASE Rate \notin DOMAIN samples
    <3>1. order' = Append(order, Rate)
      BY <2>4 DEF Listens
    <3> QED
      BY <1>3, <2>1, <2>2, <3>1, OneMore
  <2> QED
    BY <2>3, <2>4
<1>6. DOMAIN heard' \subseteq UsableRates /\ \A r \in DOMAIN heard' : heard'[r] \in Nat
  <2>1. DOMAIN heard \subseteq UsableRates /\ \A r \in DOMAIN heard : heard[r] \in Nat
    BY <1>h DEF TypeOK
  <2>2. heard' = [q \in DOMAIN heard \cup {Rate} |->
                    IF q = Rate THEN (IF Rate \in DOMAIN heard THEN heard[Rate] ELSE 0) + took
                    ELSE heard[q]]
    BY DEF Listens
  <2> QED
    BY <1>2, <2>1, <2>2
<1>7. clock' = clock + spent + took /\ clock' \in Nat /\ applied' = Rate
  BY <1>h DEF Listens, TypeOK
<1>8. DOMAIN samples' \subseteq UsableRates
  BY <1>2, <1>3, <1>h DEF TypeOK
<1> QED
  BY <1>2, <1>3, <1>4, <1>5, <1>6, <1>7, <1>8

(* At first nothing is listed.                                             *)
LEMMA BaseInit == Init => BaseInv
<1> SUFFICES ASSUME Init PROVE BaseInv
  OBVIOUS
<1> USE DEF Init
<1>1. Len(rates) = 0 /\ Len(pending) = 0 /\ Len(order) = 0 /\ DOMAIN samples = {}
      /\ DOMAIN heard = {}
  OBVIOUS
<1>2. TypeOK
  <2>1. rates \in Seq(UsableRates) /\ pending \in Seq(UsableRates) /\ order \in Seq(DOMAIN samples)
    OBVIOUS
  <2>2. reply \in [verdict: Verdicts, hint: BOOLEAN]
    BY DEF NoReply, Verdicts
  <2>3. /\ at \in Places /\ next \in 1 .. Len(rates) + 1 /\ sweeps \in Nat /\ clock \in Nat
        /\ applied \in UsableRates \cup {Original} /\ winner \in UsableRates \cup {NoRate}
    BY <1>1 DEF Places
  <2> QED
    BY <1>1, <2>1, <2>2, <2>3 DEF TypeOK
<1>3. ListInv
  BY <1>1 DEF ListInv, Distinct, Entries
<1>4. CountInv
  BY <1>1 DEF CountInv, Attempts
<1>5. BlankInv
  BY <1>1 DEF BlankInv
<1> QED
  BY <1>2, <1>3, <1>4, <1>5 DEF BaseInv

(* The candidates are the sanitized rates, without repetition.             *)
LEMMA BaseStarts ==
  ASSUME BaseInv, Starts
  PROVE  BaseInv'
<1> USE DEF Starts, evidence
<1>h. TypeOK /\ ListInv /\ CountInv /\ BlankInv
  BY DEF BaseInv
<1>1. /\ Candidates \in Seq(UsableRates) /\ Distinct(Candidates) /\ Candidates # <<>>
      /\ Len(Candidates) \in Nat
  BY <1>h, AskTypes, RateAssumption, SanitizedRates
     DEF Candidates, UsableRates, Admitted
<1>2. next = 1 /\ DOMAIN samples = {} /\ rejected = {} /\ Candidates' = Candidates
  BY <1>h DEF BlankInv, Candidates
<1>3. TypeOK'
  BY <1>1, <1>2, <1>h DEF TypeOK, Places
<1>4. ListInv'
  BY <1>1, <1>2, <1>h DEF ListInv
<1>5. CountInv'
  BY <1>2 DEF CountInv, Attempts
<1>6. BlankInv'
  BY <1>1, <1>2 DEF BlankInv, Admitted, Passive
<1> QED
  BY <1>3, <1>4, <1>5, <1>6 DEF BaseInv

(* The verdicts are verdicts.                                              *)
LEMMA VerdictTypes ==
  Verdict \in Verdicts \ {"none", "error", "escaped"} /\ WiringHint \in BOOLEAN
  BY DEF Verdict, Verdicts, WiringHint

(* Steps that change no list.                                              *)
LEMMA BaseMoves ==
  ASSUME BaseInv,
         \/ Refuses \/ CloseBegins \/ CutShort \/ VisitFails
         \/ DecidesAndRestores \/ DiesBeforeReply \/ Replies
  PROVE  BaseInv'
<1>h. TypeOK /\ ListInv /\ CountInv /\ BlankInv
  BY DEF BaseInv
<1>1. UNCHANGED <<ask, rates, pending, next, sweeps, samples, order, heard, rejected, early>>
  BY DEF Refuses, CloseBegins, CutShort, VisitFails, DecidesAndRestores,
         DiesBeforeReply, Replies, progress, evidence
<1>2. ListInv' /\ CountInv'
  BY <1>1, <1>h DEF ListInv, CountInv, Attempts
<1>3. BlankInv'
  <2>1. /\ at' = "replied" \/ (at \notin {"asked", "replied"} /\ at' # "asked")
        /\ Candidates' = Candidates /\ (Admitted' <=> Admitted)
    BY <1>1 DEF Refuses, CloseBegins, CutShort, VisitFails, DecidesAndRestores,
                DiesBeforeReply, Replies, Candidates, Admitted, Passive
  <2> QED
    BY <1>1, <1>h, <2>1 DEF BlankInv, TypeOK, Places
<1>4. /\ at' \in Places /\ clock' \in Nat /\ stopping' \in BOOLEAN /\ died' \in BOOLEAN
      /\ applied' \in UsableRates \cup {Original}
      /\ winner' \in UsableRates \cup {NoRate}
      /\ reply' \in [verdict: Verdicts, hint: BOOLEAN]
  <2> USE DEF Places, Verdicts, NoReply
  <2>1. CASE Refuses \/ CloseBegins \/ CutShort
    BY <1>h, <2>1 DEF TypeOK, Refuses, CloseBegins, CutShort
  <2>2. CASE VisitFails
    <3>1. Rate \in UsableRates
      BY <1>h, <2>2 DEF TypeOK, VisitFails, Visited, Rate
    <3>2. clock' \in Nat
      BY <1>h, <2>2, TimeTypes DEF TypeOK, VisitFails
    <3>3. /\ applied' \in {Original, applied, Rate} /\ at' = "replied"
          /\ UNCHANGED <<stopping, winner>>
      BY <2>2 DEF VisitFails
    <3>4. PICK failure \in Failures : /\ died' = failure.died
                                     /\ reply' = [NoReply EXCEPT !.verdict = failure.said]
      BY <2>2 DEF VisitFails
    <3>5. failure.died \in BOOLEAN /\ failure.said \in {"error", "escaped"}
      <4>1. CASE failure = [died |-> TRUE, said |-> "error"]
        BY <4>1
      <4>2. CASE failure = [died |-> FALSE, said |-> "escaped"]
        BY <4>2
      <4>3. CASE failure = [died |-> FALSE, said |-> "error"]
        BY <4>3
      <4> QED
        BY <4>1, <4>2, <4>3, Zenon DEF Failures
    <3>6. reply' = [verdict |-> failure.said, hint |-> FALSE]
      BY <3>4
    <3>7. reply' \in [verdict: Verdicts, hint: BOOLEAN] /\ died' \in BOOLEAN
      BY <3>4, <3>5, <3>6
    <3> QED
      BY <1>h, <3>1, <3>2, <3>3, <3>7 DEF TypeOK
  <2>3. CASE DecidesAndRestores
    <3>1. Picked \in UsableRates \cup {NoRate}
      BY <1>h, PickedIsSampled DEF TypeOK
    <3> QED
      BY <1>h, <2>3, <3>1 DEF TypeOK, DecidesAndRestores, Wanted
  <2>4. CASE Replies
    BY <1>h, <2>4, VerdictTypes DEF TypeOK, Replies
  <2>5. CASE DiesBeforeReply
    <3>1. died' \in BOOLEAN
      BY <2>5, Zenon DEF DiesBeforeReply
    <3> QED
      BY <1>h, <2>5, <3>1 DEF TypeOK, DiesBeforeReply
  <2> QED
    BY <2>1, <2>2, <2>3, <2>4, <2>5
<1>5. TypeOK'
  BY <1>1, <1>4, <1>h DEF TypeOK
<1> QED
  BY <1>2, <1>3, <1>5 DEF BaseInv

(* A refused rate leaves the samples, and does not come again this sweep.  *)
LEMMA BaseRefusal ==
  ASSUME BaseInv, RateRefused
  PROVE  BaseInv'
<1> USE DEF RateRefused
<1>h. TypeOK /\ ListInv /\ CountInv /\ BlankInv
  BY DEF BaseInv
<1>1. /\ next \in 1 .. Len(pending) /\ pending \in Seq(UsableRates) /\ next \in Nat
      /\ Len(pending) \in Nat /\ Len(rates) \in Nat /\ next' = next + 1
      /\ pending' = pending /\ rates' = rates
  BY <1>h DEF TypeOK, Visited
<1>2. Rate \in UsableRates /\ Rate \in Entries(rates)
  <2>1. pending[next] \in UsableRates /\ pending[next] \in Entries(pending)
    BY <1>1 DEF Entries
  <2> QED
    BY <1>h, <2>1 DEF Rate, ListInv
<1>3. /\ DOMAIN samples' = DOMAIN samples \ {Rate}
      /\ \A r \in DOMAIN samples' : samples'[r] = samples[r]
  BY DEF WithoutSample
<1>4. order' \in Seq(DOMAIN samples') /\ Entries(order') = DOMAIN samples'
  <2>1. order \in Seq(DOMAIN samples) /\ Entries(order) = DOMAIN samples
    BY <1>h DEF TypeOK, ListInv
  <2>2. /\ order' \in Seq(DOMAIN samples)
        /\ Entries(order') = Entries(order) \cap DOMAIN samples'
    BY <2>1, KeepOnlyKeeps
  <2>3. Entries(order') = DOMAIN samples'
    BY <1>3, <2>1, <2>2
  <2> QED
    BY <2>2, <2>3, Retype
<1>5. TypeOK'
  BY <1>1, <1>2, <1>3, <1>4, <1>h DEF TypeOK, ListInv
<1>6. ListInv'
  BY <1>1, <1>4, <1>h DEF ListInv
<1>7. CountInv'
  <2>1. rejected' = rejected \cup {Rate}
    OBVIOUS
  <2>2. ASSUME NEW i \in 1 .. Len(pending), i >= next + 1 PROVE pending[i] \notin rejected'
    <3>1. i # next /\ i >= next
      BY <1>1, <2>2
    <3>2. pending[i] # Rate
      BY <1>1, <1>h, <3>1 DEF Rate, ListInv, Distinct
    <3> QED
      BY <1>h, <2>1, <3>1, <3>2 DEF CountInv
  <2> QED
    BY <1>1, <1>2, <1>3, <1>h, <2>1, <2>2 DEF CountInv, Attempts
<1>8. BlankInv'
  BY <1>1, <1>h DEF BlankInv, Visited, Candidates, Admitted, Passive
<1> QED
  BY <1>5, <1>6, <1>7, <1>8 DEF BaseInv

(* A visit puts its rate among the samples.                                *)
LEMMA BaseVisit ==
  ASSUME BaseInv, VisitCompletes \/ VisitIsCut \/ VisitFindsGone
  PROVE  BaseInv'
<1>h. TypeOK /\ ListInv /\ CountInv /\ BlankInv
  BY DEF BaseInv
<1>1. /\ next \in 1 .. Len(pending) /\ next \in Nat /\ Len(pending) \in Nat
      /\ Len(rates) \in Nat /\ Visited /\ at = "sampling"
  BY <1>h DEF TypeOK, Visited, VisitCompletes, VisitIsCut, VisitFindsGone
<1>2. \E chunk \in Sample, spent \in Nat, took \in Nat : Listens(chunk, spent, took)
  <2>1. CASE VisitCompletes
    BY <1>h, <2>1, TimeTypes DEF VisitCompletes
  <2>2. CASE VisitIsCut
    <3>1. 0 \in Nat
      OBVIOUS
    <3> QED
      BY <1>h, <2>2, <3>1, TimeTypes DEF VisitIsCut
  <2>3. CASE VisitFindsGone
    <3>1. 0 \in Nat /\ Window + Overshoot \in Nat /\ Chunks \subseteq Sample
      BY <1>h, TimeTypes, TimeAssumption, ChunkAssumption DEF Sample
    <3> QED
      BY <1>h, <2>3, <3>1, TimeTypes DEF VisitFindsGone
  <2> QED
    BY <2>1, <2>2, <2>3
<1>3. PICK chunk \in Sample, spent \in Nat, took \in Nat : Listens(chunk, spent, took)
  BY <1>2
<1>4. /\ Rate \in UsableRates /\ Rate \in Entries(rates) /\ Rate \notin rejected
      /\ DOMAIN samples' = DOMAIN samples \cup {Rate}
      /\ DOMAIN samples' \subseteq UsableRates
      /\ \A r \in DOMAIN samples' : samples'[r] \in [Counts -> Nat]
      /\ order' \in Seq(DOMAIN samples') /\ Entries(order') = DOMAIN samples'
      /\ DOMAIN heard' \subseteq UsableRates
      /\ \A r \in DOMAIN heard' : heard'[r] \in Nat
      /\ clock' \in Nat /\ applied' = Rate
  BY <1>1, <1>3, ListenKeeps
<1>5. /\ next' \in {next, next + 1} /\ at' \in {"sampling", "deciding"}
      /\ stopping' \in {stopping, TRUE} /\ died' \in {died, TRUE}
      /\ UNCHANGED <<ask, rates, pending, sweeps, rejected, early, winner, reply>>
  BY <1>1 DEF VisitCompletes, VisitIsCut, VisitFindsGone, progress
<1>6. TypeOK'
  <2>1. next' \in 1 .. Len(rates) + 1
    BY <1>1, <1>5, <1>h DEF ListInv
  <2> QED
    BY <1>4, <1>5, <1>h, <2>1 DEF TypeOK, Places
<1>7. ListInv'
  BY <1>1, <1>4, <1>5, <1>h DEF ListInv
<1>8. CountInv'
  <2>1. DOMAIN samples' \cap rejected' = {} /\ Attempts' \subseteq Entries(rates')
    BY <1>4, <1>5, <1>h DEF CountInv, Attempts
  <2>2. ASSUME NEW i \in 1 .. Len(pending), i >= next' PROVE pending[i] \notin rejected
    BY <1>1, <1>5, <1>h, <2>2 DEF CountInv
  <2> QED
    BY <1>5, <2>1, <2>2 DEF CountInv
<1>9. BlankInv'
  BY <1>1, <1>5, <1>h DEF BlankInv, Candidates, Admitted, Passive
<1> QED
  BY <1>6, <1>7, <1>8, <1>9 DEF BaseInv

(* Between sweeps the refused candidates leave the list.                   *)
LEMMA BaseSweep ==
  ASSUME BaseInv, SweepOver
  PROVE  BaseInv'
<1> USE DEF SweepOver, evidence
<1>h. TypeOK /\ ListInv /\ CountInv /\ BlankInv
  BY DEF BaseInv
<1>1. /\ at = "sampling" /\ at' \in {"deciding", "sampling"} /\ next' = 1
      /\ sweeps' = sweeps + 1 /\ early' \in BOOLEAN
      /\ UNCHANGED <<ask, rates, samples, order, heard, rejected, clock, stopping, died,
                     applied, winner, reply>>
  OBVIOUS
<1>2. /\ pending' \in Seq(UsableRates) /\ Distinct(pending') /\ Len(pending') <= Len(pending)
      /\ Entries(pending') = Entries(pending) \cap (UsableRates \ rejected)
  <2>1. pending \in Seq(UsableRates) /\ Distinct(pending)
    BY <1>h DEF TypeOK, ListInv
  <2> QED
    BY <2>1, KeepOnlyKeeps
<1>3. /\ Len(pending') \in Nat /\ Len(pending) \in Nat /\ Len(rates) \in Nat
      /\ Len(pending) <= Len(rates)
  BY <1>2, <1>h DEF TypeOK, ListInv
<1>4. TypeOK'
  BY <1>1, <1>2, <1>3, <1>h DEF TypeOK, Places
<1>5. ListInv'
  <2>1. Entries(pending') \subseteq Entries(rates') /\ Distinct(rates') /\ Distinct(pending')
        /\ Entries(order') = DOMAIN samples'
    BY <1>1, <1>2, <1>h DEF ListInv
  <2>2. Len(pending') <= Len(rates') /\ next' <= Len(pending') + 1
    BY <1>1, <1>2, <1>3
  <2> QED
    BY <2>1, <2>2 DEF ListInv
<1>6. CountInv'
  <2>1. \A i \in 1 .. Len(pending') : pending'[i] \notin rejected'
    <3>1. \A i \in 1 .. Len(pending') : pending'[i] \in Entries(pending')
      BY DEF Entries
    <3> QED
      BY <1>1, <1>2, <3>1
  <2> QED
    BY <1>1, <1>h, <2>1 DEF CountInv, Attempts
<1>7. BlankInv'
  BY <1>1, <1>h DEF BlankInv, Candidates, Admitted, Passive
<1> QED
  BY <1>4, <1>5, <1>6, <1>7 DEF BaseInv

LEMMA BaseStep == BaseInv /\ [Next]_vars => BaseInv'
<1> SUFFICES ASSUME BaseInv, [Next]_vars PROVE BaseInv'
  OBVIOUS
<1>1. CASE UNCHANGED vars
  BY <1>1 DEF BaseInv, TypeOK, ListInv, CountInv, BlankInv, vars, Attempts, Candidates,
              Admitted, Passive
<1>2. CASE Next
  BY <1>2, BaseStarts, BaseMoves, BaseRefusal, BaseVisit, BaseSweep DEF Next
<1> QED
  BY <1>1, <1>2

(* Every variable has its type at every moment of every scan.              *)
THEOREM ScanTypes == Spec => []TypeOK
<1>1. BaseInv => TypeOK
  BY DEF BaseInv
<1> QED
  BY <1>1, BaseInit, BaseStep, PTL DEF Spec

-----------------------------------------------------------------------------
(* The scan has decided, and says what it found.                           *)
Decided == at = "restored" \/ (at = "replied" /\ reply.verdict \notin {"error", "escaped"})

PlaceInv ==
  /\ at # "replied" => reply = NoReply
  /\ at \in {"asked", "sampling", "deciding"} => winner = NoRate
  /\ at \in {"asked", "sampling"} => ~died

(* After a whole sweep there is an answer about every candidate; the first *)
(* one works through all of them; only a close or a death cuts it.         *)
SweepInv ==
  /\ at = "sampling" /\ sweeps = 0 =>
       /\ pending = rates
       /\ \A i \in 1 .. Len(rates) : i < next => rates[i] \in Attempts
  /\ sweeps > 0 => Entries(rates) \subseteq Attempts
  /\ (at = "deciding" \/ Decided) /\ ~stopping /\ ~died => Entries(rates) \subseteq Attempts

(* A sample was heard for a whole dwell, unless its visit was cut.         *)
HeardInv ==
  Passive /\ ~stopping /\ ~died =>
    \A r \in DOMAIN samples : r \in DOMAIN heard /\ heard[r] >= Dwell

(* There is a winner when the best candidate's rate was taken.             *)
DecisionInv ==
  /\ Decided => /\ rates # <<>>
                /\ winner = IF applied = Picked THEN Picked ELSE NoRate
  /\ at = "replied" => IF Decided THEN reply.verdict = Verdict ELSE winner = NoRate

ScanInv == BaseInv /\ PlaceInv /\ SweepInv /\ HeardInv /\ DecisionInv

(* The handler counts candidates when it adds the two sizes.               *)
LEMMA Counting ==
  ASSUME TypeOK, ListInv, CountInv
  PROVE  /\ Attempted \in Nat /\ Len(rates) \in Nat /\ Attempted <= Len(rates)
         /\ Attempted = Len(rates) <=> Entries(rates) \subseteq Attempts
<1>1. /\ IsFiniteSet(Entries(rates)) /\ Cardinality(Entries(rates)) = Len(rates)
      /\ Len(rates) \in Nat
  BY DistinctCount DEF TypeOK, ListInv
<1>2. IsFiniteSet(DOMAIN samples) /\ IsFiniteSet(rejected)
  BY <1>1, FS_Subset DEF CountInv, Attempts
<1>3. /\ Cardinality(DOMAIN samples) \in Nat /\ Cardinality(rejected) \in Nat
  BY <1>2, FS_CardinalityType
<1>4. Cardinality(Attempts) = Attempted
  <2>1. Cardinality(Attempts) = Cardinality(DOMAIN samples) + Cardinality(rejected)
                                  - Cardinality(DOMAIN samples \cap rejected)
    BY <1>2, FS_Union DEF Attempts
  <2>2. Cardinality(DOMAIN samples \cap rejected) = 0
    BY FS_EmptySet DEF CountInv
  <2> QED
    BY <1>3, <2>1, <2>2 DEF Attempted
<1>5. /\ Cardinality(Attempts) <= Cardinality(Entries(rates))
      /\ Cardinality(Entries(rates)) = Cardinality(Attempts) => Entries(rates) = Attempts
  BY <1>1, FS_Subset DEF CountInv
<1>6. Entries(rates) \subseteq Attempts => Entries(rates) = Attempts
  BY DEF CountInv
<1> QED
  BY <1>1, <1>3, <1>4, <1>5, <1>6 DEF Attempted

(* The invariant is as strong as what the reply must have earned.          *)
LEMMA InvEarns == ScanInv => VerdictIsEarned
<1> SUFFICES ASSUME ScanInv PROVE VerdictIsEarned
  OBVIOUS
<1>h. TypeOK /\ ListInv /\ CountInv /\ BlankInv /\ PlaceInv /\ SweepInv /\ HeardInv /\ DecisionInv
  BY DEF ScanInv, BaseInv
<1>1. reply.verdict # "none" => at = "replied"
  BY <1>h DEF PlaceInv, NoReply
<1>2. Attempted \in Nat /\ Len(rates) \in Nat /\ Attempted <= Len(rates)
      /\ (Attempted = Len(rates) <=> Entries(rates) \subseteq Attempts)
  BY <1>h, Counting
<1>3. /\ NoRate \notin Int /\ DOMAIN samples \subseteq Int
      /\ Picked \in DOMAIN samples \cup {NoRate}
      /\ order # <<>> =>
           Top \in DOMAIN samples /\ Picked = IF LooksLikeConsole(samples[Top]) THEN Top ELSE NoRate
  BY <1>h, PickedIsSampled DEF TypeOK, UsableRates
<1>4. order = <<>> => DOMAIN samples = {}
  BY <1>h DEF ListInv, Entries
<1>5. ASSUME reply.verdict \in Conclusive \cup {"scan_aborted"}
      PROVE  at = "replied" /\ Decided /\ reply.verdict = Verdict /\ rates # <<>>
  BY <1>1, <1>5, <1>h DEF Conclusive, DecisionInv, Decided
<1>6. EvidenceIsComplete
  <2> SUFFICES ASSUME reply.verdict \in Conclusive
               PROVE  /\ ~died
                      /\ \A i \in DOMAIN ask.rates : Usable(ask.rates[i]) =>
                           \/ ask.rates[i] \in rejected
                           \/ /\ ask.rates[i] \in DOMAIN samples
                              /\ heard[ask.rates[i]] >= Dwell \/ stopping
    BY DEF EvidenceIsComplete
  <2>1. Passive /\ ~(Attempted < Len(rates)) /\ ~died
    BY <1>5 DEF Verdict, Conclusive
  <2>2. Entries(rates) \subseteq DOMAIN samples \cup rejected
    BY <1>2, <2>1 DEF Attempts
  <2>3. \A i \in DOMAIN ask.rates : Usable(ask.rates[i]) => ask.rates[i] \in Entries(rates)
    BY <1>5, <1>h, AskTypes, <1>3, SanitizedRates DEF BlankInv, Candidates
  <2>4. \A r \in DOMAIN samples : heard[r] >= Dwell \/ stopping
    BY <1>h, <2>1 DEF HeardInv
  <2> QED
    BY <2>1, <2>2, <2>3, <2>4
<1>7. AbortHasCause
  <2> SUFFICES ASSUME reply.verdict = "scan_aborted" PROVE stopping \/ died
    BY DEF AbortHasCause
  <2>1. Attempted < Len(rates)
    BY <1>5 DEF Verdict
  <2> QED
    BY <1>2, <1>5, <1>h, <2>1 DEF SweepInv
<1>8. WinnerIsFirst
  <2> SUFFICES ASSUME at = "replied", winner # NoRate
               PROVE  /\ applied = winner /\ winner \notin rejected
                      /\ winner = Top /\ LooksLikeConsole(samples[winner])
    BY DEF WinnerIsFirst
  <2>1. winner = Picked /\ applied = Picked
    BY <1>h DEF DecisionInv
  <2> QED
    BY <1>3, <1>4, <1>h, <2>1 DEF CountInv
<1>9. NoWinnerIsDue
  <2> SUFFICES ASSUME reply.verdict = "no_clear_winner", LooksLikeConsole(samples[Top]),
                      applied = Top
               PROVE  FALSE
    BY DEF NoWinnerIsDue
  <2>1. winner = NoRate /\ ~AllSilent(samples)
    BY <1>5 DEF Verdict, Conclusive
  <2>2. order # <<>>
    BY <1>4, <2>1 DEF AllSilent
  <2>3. Picked = Top /\ Picked # NoRate
    BY <1>3, <2>2
  <2> QED
    BY <1>5, <1>h, <2>1, <2>3 DEF DecisionInv, Conclusive
<1> QED
  BY <1>2, <1>6, <1>7, <1>8, <1>9, <1>h DEF VerdictIsEarned, CountIsTrue, CountInv

-----------------------------------------------------------------------------
(* Each step keeps what the verdict rests on.                              *)
LEMMA ScanStarts == Init => ScanInv
<1> SUFFICES ASSUME Init PROVE ScanInv
  OBVIOUS
<1>1. /\ at = "asked" /\ reply = NoReply /\ winner = NoRate /\ sweeps = 0
      /\ DOMAIN samples = {} /\ died = FALSE
  BY DEF Init
<1>2. ~Decided
  BY <1>1 DEF Decided
<1>3. PlaceInv /\ SweepInv /\ HeardInv /\ DecisionInv
  BY <1>1, <1>2 DEF PlaceInv, SweepInv, HeardInv, DecisionInv
<1> QED
  BY <1>3, BaseInit DEF ScanInv

(* Before the decision there is none, nor after a scan that failed.        *)
Sampling ==
  \/ Starts \/ Refuses \/ CloseBegins \/ CutShort \/ RateRefused \/ VisitFails
  \/ VisitCompletes \/ VisitIsCut \/ VisitFindsGone \/ SweepOver

LEMMA Undecided ==
  ASSUME ScanInv, Sampling
  PROVE  PlaceInv' /\ DecisionInv' /\ ~Decided'
<1>h. PlaceInv
  BY DEF ScanInv
<1>1. /\ at \in {"asked", "sampling"} /\ winner' = winner /\ winner = NoRate
      /\ reply = NoReply
  BY <1>h DEF Sampling, Starts, Refuses, CloseBegins, CutShort, RateRefused, VisitFails,
              VisitCompletes, VisitIsCut, VisitFindsGone, SweepOver, Visited, PlaceInv
<1>2. \/ at' \in {"sampling", "deciding"} /\ reply' = NoReply
      \/ at' = "replied" /\ reply'.verdict \in {"error", "escaped"}
  <2>1. CASE Refuses
    BY <2>1 DEF Refuses, NoReply
  <2>2. CASE VisitFails
    <3>1. PICK failure \in Failures : reply' = [NoReply EXCEPT !.verdict = failure.said]
      BY <2>2 DEF VisitFails
    <3>2. failure.said \in {"error", "escaped"}
      <4>1. CASE failure = [died |-> TRUE, said |-> "error"]
        BY <4>1
      <4>2. CASE failure = [died |-> FALSE, said |-> "escaped"]
        BY <4>2
      <4>3. CASE failure = [died |-> FALSE, said |-> "error"]
        BY <4>3
      <4> QED
        BY <4>1, <4>2, <4>3, Zenon DEF Failures
    <3> QED
      BY <2>2, <3>1, <3>2 DEF VisitFails, NoReply
  <2>3. CASE \/ Starts \/ CloseBegins \/ CutShort \/ RateRefused \/ VisitCompletes
             \/ VisitIsCut \/ VisitFindsGone \/ SweepOver
    BY <1>1, <2>3 DEF Starts, CloseBegins, CutShort, RateRefused, VisitCompletes,
       VisitIsCut, VisitFindsGone, SweepOver, Visited
  <2> QED
    BY <2>1, <2>2, <2>3 DEF Sampling
<1>3. ~Decided'
  BY <1>2 DEF Decided
<1>4. at' = "sampling" => died' = died
  BY DEF Sampling, Starts, Refuses, CloseBegins, CutShort, RateRefused, VisitFails,
         VisitCompletes, VisitIsCut, VisitFindsGone, SweepOver
<1> QED
  BY <1>1, <1>2, <1>3, <1>4, <1>h DEF PlaceInv, DecisionInv

(* Steps that change no sample.                                            *)
LEMMA ScanMoves ==
  ASSUME ScanInv, Refuses \/ CloseBegins \/ CutShort \/ VisitFails
  PROVE  ScanInv'
<1>h. PlaceInv /\ SweepInv /\ HeardInv /\ BaseInv
  BY DEF ScanInv
<1>1. BaseInv' /\ PlaceInv' /\ DecisionInv' /\ ~Decided'
  BY <1>h, BaseMoves, Undecided DEF Sampling
<1>2. /\ UNCHANGED <<ask, rates, pending, next, sweeps, samples, heard, rejected>>
      /\ at' = "sampling" => at = "sampling" /\ died' = died
      /\ at' = "deciding" => CutShort
      /\ ~stopping' => ~stopping
  BY DEF Refuses, CloseBegins, CutShort, VisitFails, progress, evidence
<1>3. Attempts' = Attempts /\ (Passive' <=> Passive)
  BY <1>2 DEF Attempts, Passive
<1>4. SweepInv'
  <2>1. CASE CutShort
    <3>1. stopping' \/ sweeps > 0
      BY <1>h, <2>1 DEF CutShort, OutOfTime, BaseInv, TypeOK
    <3> QED
      BY <1>1, <1>2, <1>3, <1>h, <2>1, <3>1 DEF SweepInv, CutShort
  <2>2. CASE ~CutShort
    BY <1>1, <1>2, <1>3, <1>h, <2>2 DEF SweepInv
  <2> QED
    BY <2>1, <2>2
<1>5. HeardInv'
  <2>1. ~died' => ~died
    BY <1>h DEF Refuses, CloseBegins, CutShort, VisitFails, Visited, PlaceInv
  <2> QED
    BY <1>2, <1>3, <1>h, <2>1 DEF HeardInv
<1> QED
  BY <1>1, <1>4, <1>5 DEF ScanInv

LEMMA ScanAdmits ==
  ASSUME ScanInv, Starts
  PROVE  ScanInv'
<1> USE DEF Starts, evidence
<1>h. BaseInv /\ BlankInv /\ TypeOK
  BY DEF ScanInv, BaseInv
<1>1. BaseInv' /\ PlaceInv' /\ DecisionInv' /\ ~Decided'
  BY <1>h, BaseStarts, Undecided DEF Sampling, ScanInv
<1>2. /\ at' = "sampling" /\ sweeps' = 0 /\ next' = 1 /\ pending' = rates'
      /\ DOMAIN samples' = {}
  BY <1>h DEF BlankInv
<1>3. SweepInv'
  BY <1>1, <1>2 DEF SweepInv
<1>4. HeardInv'
  BY <1>2 DEF HeardInv
<1> QED
  BY <1>1, <1>3, <1>4 DEF ScanInv

(* The rate of a visit is answered for when the next one comes.            *)
LEMMA OneFurther ==
  ASSUME ScanInv, Visited, Attempts' = Attempts \cup {Rate}, next' \in {next, next + 1},
         UNCHANGED <<rates, pending, sweeps>>, at' \in {"sampling", "deciding"},
         ~Decided', at' = "deciding" => died'
  PROVE  SweepInv'
<1>h. SweepInv /\ TypeOK
  BY DEF ScanInv, BaseInv
<1>1. at = "sampling" /\ next \in Nat /\ Rate = pending[next]
  BY <1>h DEF Visited, Rate, TypeOK
<1>2. ASSUME sweeps = 0, NEW i \in 1 .. Len(rates), i < next'
      PROVE  rates[i] \in Attempts'
  <2>1. i < next \/ i = next
    BY <1>1, <1>2
  <2>2. pending = rates /\ \A j \in 1 .. Len(rates) : j < next => rates[j] \in Attempts
    BY <1>1, <1>2, <1>h DEF SweepInv
  <2> QED
    BY <1>1, <2>1, <2>2
<1>3. sweeps = 0 => at = "sampling" /\ pending = rates
  BY <1>1, <1>h DEF SweepInv
<1> QED
  BY <1>2, <1>3, <1>h DEF SweepInv

LEMMA ScanRefusal ==
  ASSUME ScanInv, RateRefused
  PROVE  ScanInv'
<1> USE DEF RateRefused
<1>h. BaseInv /\ HeardInv
  BY DEF ScanInv
<1>1. BaseInv' /\ PlaceInv' /\ DecisionInv' /\ ~Decided'
  BY <1>h, BaseRefusal, Undecided DEF Sampling
<1>2. /\ DOMAIN samples' = DOMAIN samples \ {Rate}
      /\ Attempts' = Attempts \cup {Rate}
  BY DEF WithoutSample, Attempts
<1>3. SweepInv'
  BY <1>1, <1>2, OneFurther DEF Visited
<1>4. HeardInv'
  BY <1>2, <1>h DEF HeardInv, Passive
<1> QED
  BY <1>1, <1>3, <1>4 DEF ScanInv

LEMMA ScanVisit ==
  ASSUME ScanInv, VisitCompletes \/ VisitIsCut \/ VisitFindsGone
  PROVE  ScanInv'
<1>h. BaseInv /\ HeardInv /\ TypeOK /\ PlaceInv
  BY DEF ScanInv, BaseInv
<1>1. BaseInv' /\ PlaceInv' /\ DecisionInv' /\ ~Decided'
  BY <1>h, BaseVisit, Undecided DEF Sampling
<1>2. PICK chunk, spent, took :
        /\ Listens(chunk, spent, took)
        /\ VisitCompletes => spent \in Preparations /\ took \in WindowTakes
  BY DEF VisitCompletes, VisitIsCut, VisitFindsGone
<1>3. /\ DOMAIN samples' = DOMAIN samples \cup {Rate}
      /\ DOMAIN heard' = DOMAIN heard \cup {Rate}
      /\ heard' = [q \in DOMAIN heard \cup {Rate} |->
                     IF q = Rate THEN (IF Rate \in DOMAIN heard THEN heard[Rate] ELSE 0) + took
                     ELSE heard[q]]
  BY <1>2 DEF Listens
<1>4. /\ Visited /\ at' \in {"sampling", "deciding"} /\ next' \in {next, next + 1}
      /\ UNCHANGED <<ask, rates, pending, sweeps, rejected>>
      /\ at' = "deciding" => died'
      /\ ~died' => ~died /\ ~VisitFindsGone
      /\ ~stopping' => ~stopping /\ ~VisitIsCut
  BY DEF VisitCompletes, VisitIsCut, VisitFindsGone, progress, Visited
<1>5. SweepInv'
  <2>1. Attempts' = Attempts \cup {Rate}
    BY <1>3, <1>4 DEF Attempts
  <2> QED
    BY <1>1, <1>4, <2>1, OneFurther
<1>6. HeardInv'
  <2> SUFFICES ASSUME Passive, ~stopping', ~died', NEW r \in DOMAIN samples'
               PROVE  r \in DOMAIN heard' /\ heard'[r] >= Dwell
    BY <1>4 DEF HeardInv, Passive
  <2>1. VisitCompletes /\ ~stopping /\ ~died
    BY <1>4
  <2>2. took \in Nat /\ took >= Dwell
    <3>1. Window = Dwell /\ took \in WindowTakes
      BY <1>2, <2>1 DEF Window
    <3> QED
      BY <3>1, TimeAssumption DEF WindowTakes
  <2>3. \A q \in DOMAIN samples : q \in DOMAIN heard /\ heard[q] >= Dwell
    BY <1>h, <2>1 DEF HeardInv
  <2>4. \A q \in DOMAIN heard : heard[q] \in Nat
    BY <1>h DEF TypeOK
  <2>5. Dwell \in Nat
    BY TimeAssumption
  <2>6. CASE r = Rate
    <3>1. heard'[r] = (IF Rate \in DOMAIN heard THEN heard[Rate] ELSE 0) + took
      BY <1>3, <2>6
    <3> QED
      BY <1>3, <2>2, <2>4, <2>5, <2>6, <3>1
  <2>7. CASE r # Rate
    BY <1>3, <2>3, <2>7
  <2> QED
    BY <2>6, <2>7
<1> QED
  BY <1>1, <1>5, <1>6 DEF ScanInv

LEMMA ScanSweep ==
  ASSUME ScanInv, SweepOver
  PROVE  ScanInv'
<1> USE DEF SweepOver, evidence
<1>h. BaseInv /\ HeardInv /\ TypeOK /\ SweepInv
  BY DEF ScanInv, BaseInv
<1>1. BaseInv' /\ PlaceInv' /\ DecisionInv' /\ ~Decided'
  BY <1>h, BaseSweep, Undecided DEF Sampling
<1>2. Entries(rates) \subseteq Attempts
  <2>1. CASE sweeps = 0
    <3>1. pending = rates /\ \A i \in 1 .. Len(rates) : i < next => rates[i] \in Attempts
      BY <1>h, <2>1 DEF SweepInv
    <3>2. next > Len(rates) /\ next \in Nat /\ Len(rates) \in Nat
      BY <1>h, <3>1 DEF TypeOK
    <3>3. \A i \in 1 .. Len(rates) : i < next
      BY <3>2
    <3> QED
      BY <3>1, <3>3 DEF Entries
  <2>2. CASE sweeps # 0
    BY <1>h, <2>2 DEF SweepInv, TypeOK
  <2> QED
    BY <2>1, <2>2
<1>3. SweepInv'
  <2>1. Attempts' = Attempts /\ rates' = rates /\ sweeps' # 0
    BY <1>h DEF Attempts, TypeOK
  <2> QED
    BY <1>1, <1>2, <2>1 DEF SweepInv
<1>4. HeardInv'
  BY <1>h DEF HeardInv, Passive
<1> QED
  BY <1>1, <1>3, <1>4 DEF ScanInv

(* The decision, and the reply that reports it.                            *)
LEMMA ScanDecides ==
  ASSUME ScanInv, DecidesAndRestores \/ Replies
  PROVE  ScanInv'
<1>h. BaseInv /\ BlankInv /\ HeardInv /\ PlaceInv /\ SweepInv /\ DecisionInv
  BY DEF ScanInv, BaseInv
<1>1. BaseInv'
  BY <1>h, BaseMoves
<1>2. UNCHANGED <<ask, rates, pending, next, sweeps, samples, order, heard, rejected,
                  stopping, died>>
  BY DEF DecidesAndRestores, Replies, progress, evidence
<1>3. /\ Attempts' = Attempts /\ Picked' = Picked /\ (Passive' <=> Passive)
      /\ HeardInv'
  BY <1>2, <1>h DEF Attempts, Picked, Passive, HeardInv
<1>4. CASE DecidesAndRestores
  <2>1. /\ at = "deciding" /\ at' = "restored" /\ reply' = reply
        /\ winner' = IF applied' = Picked THEN Picked ELSE NoRate
    BY <1>4 DEF DecidesAndRestores
  <2>2. Decided' /\ rates # <<>>
    BY <1>h, <2>1 DEF Decided, BlankInv
  <2> QED
    BY <1>1, <1>2, <1>3, <1>h, <2>1, <2>2 DEF ScanInv, PlaceInv, SweepInv, DecisionInv
<1>5. CASE Replies
  <2>1. /\ at = "restored" /\ at' = "replied" /\ reply'.verdict = Verdict
        /\ applied' = applied /\ winner' = winner
    BY <1>5 DEF Replies
  <2>2. Verdict' = Verdict
    BY <1>2, <1>3, <2>1 DEF Verdict, Attempted
  <2>3. Decided /\ Decided'
    BY <2>1, VerdictTypes DEF Decided
  <2> QED
    BY <1>1, <1>2, <1>3, <1>h, <2>1, <2>2, <2>3
       DEF ScanInv, PlaceInv, SweepInv, DecisionInv
<1> QED
  BY <1>4, <1>5

(* An adapter that dies under a decided scan changes what it will say, and *)
(* nothing it has said.                                                    *)
LEMMA ScanDies ==
  ASSUME ScanInv, DiesBeforeReply
  PROVE  ScanInv'
<1>h. BaseInv /\ HeardInv /\ PlaceInv /\ SweepInv /\ DecisionInv
  BY DEF ScanInv
<1>1. BaseInv'
  BY <1>h, BaseMoves
<1>2. /\ UNCHANGED <<ask, at, rates, pending, next, sweeps, samples, order, heard,
                     rejected, stopping, applied, winner, reply>>
      /\ at = "restored" /\ died'
  <2>1. died'
    BY Zenon DEF DiesBeforeReply
  <2> QED
    BY <2>1 DEF DiesBeforeReply, progress, evidence
<1>3. Attempts' = Attempts /\ (Decided' <=> Decided) /\ Picked' = Picked
      /\ (Passive' <=> Passive)
  BY <1>2 DEF Attempts, Decided, Picked, Passive
<1> QED
  BY <1>1, <1>2, <1>3, <1>h DEF ScanInv, PlaceInv, SweepInv, HeardInv, DecisionInv

LEMMA ScanStep == ScanInv /\ [Next]_vars => ScanInv'
<1> SUFFICES ASSUME ScanInv, [Next]_vars PROVE ScanInv'
  OBVIOUS
<1>1. CASE UNCHANGED vars
  <2>1. BaseInv'
    BY BaseStep DEF ScanInv
  <2>2. /\ UNCHANGED <<ask, at, rates, pending, next, sweeps, samples, order, heard, rejected,
                       stopping, died, applied, winner, reply>>
    BY <1>1 DEF vars
  <2>3. Attempts' = Attempts /\ (Decided' <=> Decided) /\ Picked' = Picked
        /\ (Passive' <=> Passive) /\ Verdict' = Verdict
    BY <2>2 DEF Attempts, Decided, Picked, Passive, Verdict, Attempted
  <2> QED
    BY <2>1, <2>2, <2>3 DEF ScanInv, PlaceInv, SweepInv, HeardInv, DecisionInv
<1>2. CASE Next
  BY <1>2, ScanAdmits, ScanMoves, ScanRefusal, ScanVisit, ScanSweep, ScanDecides,
     ScanDies DEF Next
<1> QED
  BY <1>1, <1>2

(* A verdict about the line rests on an answer for every usable rate, each *)
(* one refused or listened to for a dwell; an abort has a close or a death *)
(* behind it; a winner heads the ranking that goes with it, is clear and is*)
(* the rate the port was left at; and the two sizes count the candidates.  *)
THEOREM VerdictEarned == Spec => []VerdictIsEarned
  BY ScanStarts, ScanStep, InvEarns, PTL DEF Spec

-----------------------------------------------------------------------------
(* The longest a visit can take.                                           *)
Turn == IF Passive THEN Dwell + Overshoot ELSE OffTime + Trips + Window + Overshoot

(* The first pass takes a turn for each candidate at most; a later one does*)
(* not start a visit once the budget is spent, and cycling has no later one*)
TimeInv ==
  /\ rates = <<>> => clock = 0
  /\ at = "sampling" /\ ~Passive => sweeps = 0
  /\ at = "sampling" /\ sweeps = 0 => clock <= (next - 1) * Turn
  /\ clock <= Len(rates) * Turn \/ (Passive /\ clock <= Budget - 1 + Turn)

(* A visit does not take longer than a turn.                               *)
LEMMA VisitTakes ==
  ASSUME TypeOK
  PROVE  /\ Turn \in Nat
         /\ \A spent \in Preparations, took \in WindowTakes \cup {0, Window + Overshoot} :
              spent \in Nat /\ took \in Nat /\ spent + took <= Turn
         /\ \A spent \in {0} \cup Preparations : spent \in Nat /\ spent <= Turn
<1>1. Window \in Nat /\ OffTime \in Nat /\ Overshoot \in Nat /\ Trips \in Nat /\ Dwell \in Nat
  BY TimeTypes, TimeAssumption
<1>2. CASE Passive
  <2>1. Turn = Dwell + Overshoot /\ Window = Dwell /\ Preparations = {0}
    BY <1>2 DEF Turn, Window, Preparations
  <2> QED
    BY <1>1, <2>1 DEF WindowTakes
<1>3. CASE ~Passive
  <2>1. Turn = OffTime + Trips + Window + Overshoot /\ Preparations = {OffTime, OffTime + Trips}
    BY <1>3 DEF Turn, Preparations
  <2> QED
    BY <1>1, <2>1 DEF WindowTakes
<1> QED
  BY <1>2, <1>3

(* One visit more keeps the time within its turns.                         *)
LEMMA OneMoreTurn ==
  ASSUME BaseInv, TimeInv, Visited, NEW spent \in Nat, spent <= Turn,
         clock' = clock + spent, next' \in {next, next + 1},
         UNCHANGED <<ask, rates, sweeps>>,
         at' = "sampling" => next' = next + 1
  PROVE  TimeInv'
<1>h. TypeOK /\ ListInv /\ BlankInv
  BY DEF BaseInv
<1>1. /\ at = "sampling" /\ next \in Nat /\ next >= 1 /\ Len(rates) \in Nat
      /\ next <= Len(rates) /\ rates # <<>> /\ clock \in Nat /\ sweeps \in Nat
  BY <1>h DEF TypeOK, ListInv, BlankInv, Visited
<1>2. Turn \in Nat /\ Turn' = Turn /\ (Passive' <=> Passive)
  BY <1>h, VisitTakes DEF Turn, Passive, OffTime, Window
<1>3. CASE sweeps = 0
  <2>1. clock <= (next - 1) * Turn
    BY <1>1, <1>3 DEF TimeInv
  <2>2. (next - 1) * Turn + Turn = next * Turn /\ next * Turn <= Len(rates) * Turn
    <3>1. PICK m \in Nat : m = next - 1
      BY <1>1
    <3>2. PICK d \in Nat : Len(rates) = next + d
      BY <1>1
    <3>3. d * Turn \in Nat /\ (next + d) * Turn = next * Turn + d * Turn
          /\ (m + 1) * Turn = m * Turn + Turn /\ next * Turn \in Nat /\ m * Turn \in Nat
      BY <1>1, <1>2
    <3> QED
      BY <1>1, <1>2, <3>1, <3>2, <3>3
  <2>3. (next - 1) * Turn \in Int /\ next * Turn \in Int /\ Len(rates) * Turn \in Int
    BY <1>1, <1>2
  <2>4. clock' <= next * Turn /\ clock' <= Len(rates) * Turn
    BY <1>1, <1>2, <2>1, <2>2, <2>3
  <2>5. at' = "sampling" => next' - 1 = next
    BY <1>1
  <2> QED
    BY <1>1, <1>2, <1>3, <2>4, <2>5 DEF TimeInv
<1>4. CASE sweeps # 0
  <2>1. Passive /\ ~(clock >= Budget)
    BY <1>1, <1>4 DEF TimeInv, Visited, OutOfTime
  <2>2. clock' <= Budget - 1 + Turn
    BY <1>1, <1>2, <2>1, TimeAssumption
  <2> QED
    BY <1>1, <1>2, <1>4, <2>1, <2>2 DEF TimeInv
<1> QED
  BY <1>3, <1>4

LEMMA TimeStep ==
  ASSUME BaseInv, TimeInv, [Next]_vars
  PROVE  TimeInv'
<1>h. TypeOK /\ ListInv /\ BlankInv
  BY DEF BaseInv
<1>1. /\ next \in Nat /\ Len(rates) \in Nat /\ clock \in Nat /\ sweeps \in Nat /\ next >= 1
  BY <1>h DEF TypeOK
<1>2. ask' = ask
  BY DEF vars, Next, Starts, Refuses, CloseBegins, CutShort, RateRefused, VisitFails,
         VisitCompletes, VisitIsCut, VisitFindsGone, SweepOver, DecidesAndRestores,
         DiesBeforeReply, Replies
<1>3. Turn \in Nat /\ Turn' = Turn /\ (Passive' <=> Passive)
  BY <1>2, <1>h, VisitTakes DEF Turn, Passive, OffTime, Window
<1>4. CASE Starts
  <2>1. clock = 0 /\ sweeps = 0 /\ next = 1 /\ rates' # <<>> /\ Len(rates') \in Nat
    BY <1>4, <1>h, BaseStarts DEF BlankInv, Starts, Admitted, BaseInv, TypeOK
  <2>2. 0 * Turn = 0 /\ Len(rates') * Turn \in Nat
    BY <1>3, <2>1
  <2> QED
    BY <1>3, <1>4, <2>1, <2>2 DEF TimeInv, Starts, evidence
<1>5. CASE RateRefused
  <2>1. Visited /\ clock' = clock + 0 /\ next' = next + 1 /\ 0 <= Turn
        /\ UNCHANGED <<ask, rates, sweeps>>
    BY <1>1, <1>3, <1>5 DEF RateRefused
  <2> QED
    BY <2>1, OneMoreTurn
<1>6. CASE VisitFails
  <2>1. PICK spent \in {0} \cup Preparations : clock' = clock + spent
    BY <1>6 DEF VisitFails
  <2>2. /\ Visited /\ spent \in Nat /\ spent <= Turn /\ next' = next /\ at' # "sampling"
        /\ UNCHANGED <<ask, rates, sweeps>>
    BY <1>6, <1>h, VisitTakes DEF VisitFails, progress
  <2> QED
    BY <2>1, <2>2, OneMoreTurn
<1>7. CASE VisitCompletes \/ VisitIsCut \/ VisitFindsGone
  <2>1. PICK spent \in Preparations, took \in WindowTakes \cup {0, Window + Overshoot} :
          clock' = clock + spent + took
    BY <1>7 DEF VisitCompletes, VisitIsCut, VisitFindsGone, Listens
  <2>2. spent \in Nat /\ took \in Nat /\ spent + took <= Turn
    BY <1>h, VisitTakes
  <2>3. PICK s \in Nat : s = spent + took
    BY <2>2
  <2>4. clock' = clock + s /\ s <= Turn
    BY <1>1, <2>1, <2>2, <2>3
  <2>5. /\ Visited /\ next' \in {next, next + 1}
        /\ at' = "sampling" => next' = next + 1
        /\ UNCHANGED <<ask, rates, sweeps>>
    BY <1>7 DEF VisitCompletes, VisitIsCut, VisitFindsGone, progress
  <2> QED
    BY <2>4, <2>5, OneMoreTurn
<1>8. CASE SweepOver
  <2>1. /\ at = "sampling" /\ sweeps' # 0
        /\ at' = "sampling" => Passive
        /\ UNCHANGED <<rates, clock>>
    BY <1>1, <1>8 DEF SweepOver, evidence
  <2> QED
    BY <1>3, <2>1 DEF TimeInv
<1>9. CASE \/ Refuses \/ CloseBegins \/ CutShort \/ DecidesAndRestores
           \/ DiesBeforeReply \/ Replies \/ UNCHANGED vars
  <2>1. /\ UNCHANGED <<rates, clock, next, sweeps>>
        /\ at' = "sampling" => at = "sampling"
    BY <1>9 DEF vars, Refuses, CloseBegins, CutShort, DecidesAndRestores,
                DiesBeforeReply, Replies, progress, evidence
  <2> QED
    BY <1>3, <2>1 DEF TimeInv
<1> QED
  BY <1>4, <1>5, <1>6, <1>7, <1>8, <1>9 DEF Next

(* A turn of an admitted cycling scan is what its arithmetic allows for.   *)
LEMMA TimeIsEnough == BaseInv /\ TimeInv => ScanEndsInTime
<1> SUFFICES ASSUME BaseInv, TimeInv PROVE ScanEndsInTime
  OBVIOUS
<1>h. TypeOK /\ BlankInv
  BY DEF BaseInv
<1>1. /\ Turn \in Nat /\ Len(rates) \in Nat /\ clock \in Nat /\ Budget \in Nat /\ Deadline \in Nat
      /\ Dwell \in Nat /\ Overshoot \in Nat
  BY <1>h, VisitTakes, TimeAssumption DEF TypeOK
<1>2. Len(rates) * Turn \in Nat
  BY <1>1
<1>3. CASE Passive
  <2>1. Turn = Dwell + Overshoot /\ (clock <= Len(rates) * Turn \/ clock <= Budget - 1 + Turn)
    BY <1>3 DEF Turn, TimeInv
  <2> DEFINE most == Len(rates) * Turn
  <2>2. most = Len(rates) * (Dwell + Overshoot) /\ most \in Nat
    BY <1>2, <2>1
  <2>3. clock <= Most(most, Budget - 1 + Dwell + Overshoot)
    <3> HIDE DEF most
    <3>1. clock <= most \/ clock <= Budget - 1 + Turn
      BY <2>1 DEF most
    <3> QED
      BY <1>1, <2>1, <2>2, <3>1 DEF Most
  <2> QED
    BY <1>3, <2>2, <2>3 DEF ScanEndsInTime
<1>4. CASE ~Passive
  <2> SUFFICES ASSUME Trips + Overshoot + OffFloor <= Margin
               PROVE  clock <= Least(Budget, Deadline)
    BY <1>4 DEF ScanEndsInTime
  <2>1. CASE rates = <<>>
    BY <1>1, <2>1 DEF TimeInv, Least
  <2>2. CASE rates # <<>>
    <3> DEFINE most == Most(0, ask.off) + Most(0, ask.capture) + Margin
    <3>1. Len(rates) * most <= Least(Budget, Deadline)
      BY <1>4, <1>h, <2>2 DEF BlankInv, Admitted, CyclesFit
    <3>2. most \in Nat /\ Turn <= most
      <4>1. /\ Most(0, ask.off) \in Nat /\ Most(0, ask.capture) = Window /\ Window \in Nat
            /\ OffTime <= OffFloor + Most(0, ask.off) /\ OffTime \in Nat
        BY <1>4, <1>h, AskTypes, TimeAssumption DEF Most, Least, OffTime, Window
      <4>2. Turn = OffTime + Trips + Window + Overshoot
        BY <1>4 DEF Turn
      <4> QED
        BY <4>1, <4>2, TimeAssumption
    <3>3. clock <= Len(rates) * Turn
      BY <1>4 DEF TimeInv
    <3>4. Len(rates) * Turn <= Len(rates) * most /\ Len(rates) * most \in Nat
      <4> HIDE DEF most
      <4>1. PICK d \in Nat : most = Turn + d
        BY <1>1, <3>2
      <4>2. Len(rates) * (Turn + d) = Len(rates) * Turn + Len(rates) * d
            /\ Len(rates) * d \in Nat
        BY <1>1
      <4> QED
        BY <1>2, <4>1, <4>2
    <3> HIDE DEF most
    <3>5. Least(Budget, Deadline) \in Nat
      BY <1>1 DEF Least
    <3> QED
      BY <1>1, <1>2, <3>1, <3>3, <3>4, <3>5
  <2> QED
    BY <2>1, <2>2
<1> QED
  BY <1>3, <1>4

(* The sampling takes a turn for each candidate, or goes one visit past its*)
(* budget, and no more; an admitted cycling scan is over within the budget *)
(* and the deadline, if Margin covers what its arithmetic leaves out.      *)
THEOREM ScanInTime == Spec => []ScanEndsInTime
<1>1. Init => TimeInv
  <2> SUFFICES ASSUME Init PROVE TimeInv
    OBVIOUS
  <2>1. at = "asked" /\ clock = 0 /\ Len(rates) = 0 /\ Turn \in Nat
    BY BaseInit, VisitTakes DEF Init, BaseInv
  <2>2. 0 * Turn = 0
    BY <2>1
  <2> QED
    BY <2>1, <2>2 DEF TimeInv
<1>2. BaseInv /\ TimeInv /\ [Next]_vars => TimeInv'
  BY TimeStep
<1> QED
  BY <1>1, <1>2, BaseInit, BaseStep, TimeIsEnough, PTL DEF Spec
=============================================================================
