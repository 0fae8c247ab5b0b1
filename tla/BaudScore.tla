----------------------------- MODULE BaudScore ------------------------------
(***************************************************************************)
(* The pure half of baud detection (baud.py): what a sample scores, which  *)
(* candidate wins, which rate lists are accepted and which budgets.        *)
(*                                                                         *)
(* A sample is the counts its score is made of.  A ratio is a fraction     *)
(* <<p, q>>, compared without division, where baud.py computes with floats.*)
(* A dict of samples by rate is a function and the order of its keys.      *)
(***************************************************************************)
EXTENDS Integers, Sequences, FiniteSets

CONSTANTS
  MaxBaudRate,   \* MAX_BAUD_RATE
  LineLength,    \* MAX_PLAUSIBLE_LINE_LENGTH
  NoRate         \* the answer of pick_winner when nothing is good enough

ASSUME LineAssumption == MaxBaudRate \in Nat /\ LineLength \in Nat \ {0}

Most(a, b) == IF a > b THEN a ELSE b
Least(a, b) == IF a < b THEN a ELSE b

-----------------------------------------------------------------------------
(* Fractions: q > 0.                                                       *)

Below(r, s) == r[1] * s[2] < s[1] * r[2]
Capped(r) == IF Below(<<1, 1>>, r) THEN <<1, 1>> ELSE r
Times(r, s) == <<r[1] * s[1], r[2] * s[2]>>
Zero == <<0, 1>>

-----------------------------------------------------------------------------
(* Samples: bytes, printable ones, alphanumerics and spaces, spaces, "\r\n"*)
(* pairs, "\n" and NUL bytes.                                              *)
Counts == {"n", "printable", "text", "spaces", "crlf", "lf", "nulls"}

Empty == [k \in Counts |-> 0]
Plus(a, b) == [k \in Counts |-> a[k] + b[k]]

PrintableRatio(s) == IF s.n = 0 THEN Zero ELSE <<s.printable, s.n>>
SpaceFactor(s) == Capped(<<10 * s.spaces, s.n>>)
Terminators(s) == IF s.crlf > 0 THEN s.crlf ELSE s.lf
LineStructure(s) ==
  Capped(<<Terminators(s) * LineLength, Most(LineLength, s.n)>>)

(* console_score of score_sample *)
ConsoleScore(s) ==
  IF s.n = 0 THEN Zero
  ELSE Times(<<s.text, s.n>>, Times(SpaceFactor(s), LineStructure(s)))

(* sort_key(a) > sort_key(b): the first field that differs decides.        *)
Outranks(a, b) ==
  LET SameScore == ~Below(ConsoleScore(a), ConsoleScore(b))
      SamePrint == ~Below(PrintableRatio(a), PrintableRatio(b))
      CrLf(s)   == IF s.crlf > 0 THEN 1 ELSE 0
  IN  \/ Below(ConsoleScore(b), ConsoleScore(a))
      \/ SameScore /\ Below(PrintableRatio(b), PrintableRatio(a))
      \/ SameScore /\ SamePrint /\ CrLf(a) > CrLf(b)
      \/ SameScore /\ SamePrint /\ CrLf(a) = CrLf(b) /\ a.nulls < b.nulls

(* Both WINNER thresholds, 0.5 and 0.85.                                   *)
LooksLikeConsole(s) ==
  /\ ~Below(ConsoleScore(s), <<1, 2>>)
  /\ ~Below(PrintableRatio(s), <<17, 20>>)

(* WIRING_SUSPECT_CONSOLE_MAX is 0.25.                                     *)
AllScoredPoorly(samples) ==
  /\ DOMAIN samples # {}
  /\ \A r \in DOMAIN samples : Below(ConsoleScore(samples[r]), <<1, 4>>)

AllSilent(samples) == \A r \in DOMAIN samples : samples[r].n = 0

(* The best of the non-empty samples, the first of them in order.          *)
Best(samples, order) ==
  LET best[i \in 0 .. Len(order)] ==
        IF i = 0 THEN NoRate
        ELSE IF /\ samples[order[i]].n > 0
                /\ \/ best[i - 1] = NoRate
                   \/ Outranks(samples[order[i]], samples[best[i - 1]])
             THEN order[i] ELSE best[i - 1]
  IN  best[Len(order)]

PickWinner(samples, order) ==
  LET best == Best(samples, order)
  IN  IF best # NoRate /\ LooksLikeConsole(samples[best]) THEN best ELSE NoRate

(* rank_candidates: a stable sort, best first, of all of them.             *)
RankCandidates(samples, order) ==
  LET place(i) == 1 + Cardinality(
        {j \in DOMAIN order : \/ Outranks(samples[order[j]], samples[order[i]])
                              \/ /\ ~Outranks(samples[order[i]], samples[order[j]])
                                 /\ j < i})
  IN  [p \in DOMAIN order |-> order[CHOOSE i \in DOMAIN order : place(i) = p]]
-----------------------------------------------------------------------------
(* What is accepted.                                                       *)

Usable(r) == r # NoRate /\ 0 < r /\ r <= MaxBaudRate

(* Mutant of SanitizeRates: what cannot be used is not filtered out.       *)
SanitizeNothing(given) == given

(* The elements of a list that are in S, [r for r in list if r in S].      *)
KeepOnly(list, S) ==
  LET kept[i \in 0 .. Len(list)] ==
        IF i = 0 THEN <<>>
        ELSE IF list[i] \in S THEN Append(kept[i - 1], list[i]) ELSE kept[i - 1]
  IN  kept[Len(list)]

(* Every usable rate once, where it first occurs.                          *)
SanitizeRates(given) ==
  LET fresh == {i \in DOMAIN given : /\ Usable(given[i])
                                     /\ \A j \in 1 .. i - 1 : given[j] # given[i]}
      kept  == KeepOnly([i \in DOMAIN given |-> i], fresh)
  IN  [k \in DOMAIN kept |-> given[kept[k]]]

(* check_budget: the budget is within the deadline, and one sweep in the   *)
(* budget.                                                                 *)
BudgetFits(n, dwell, budget, deadline) ==
  budget <= deadline /\ n * dwell <= budget

(* The worst case of console_detect_baud_cycling, by its own arithmetic.   *)
CyclesFit(n, off, capture, margin, budget, deadline) ==
  n * (Most(0, off) + Most(0, capture) + margin) <= Least(budget, deadline)
=============================================================================
