-------------------------- MODULE BaudScoreProofs --------------------------
(***************************************************************************)
(* Facts about the operators of BaudScore, for lists and samples of any    *)
(* length: what a filtered or sanitized list of rates contains, and which  *)
(* candidate the loop of pick_winner and the sort of rank_candidates put   *)
(* first.  The loops are recursive functions on 0 .. n; induction over n is*)
(* done on the set of the n that satisfy the claim.                        *)
(***************************************************************************)
EXTENDS BaudScore, FiniteSetTheorems, TLAPS

(* Induction on a set: the set of the counterexamples below one would be   *)
(* mapped into itself, but for 0, by the successor.                        *)
LEMMA SetInduction ==
  ASSUME NEW U, 0 \in U, \A n \in Nat : n \in U => n + 1 \in U
  PROVE  Nat \subseteq U
<1> SUFFICES ASSUME NEW m \in Nat, m \notin U PROVE FALSE
  OBVIOUS
<1> DEFINE T == {n \in 0 .. m : \A k \in 0 .. n : k \in U}
           succ == [n \in T |-> n + 1]
<1>1. IsFiniteSet(T) /\ 0 \in T /\ T \subseteq Nat
  <2>1. IsFiniteSet(0 .. m)
    BY FS_Interval
  <2> QED
    BY <2>1, FS_Subset
<1>2. \A n \in T : n + 1 \in T /\ n + 1 # 0
  OBVIOUS
<1>3. IsFiniteSet(T \ {0}) /\ Cardinality(T \ {0}) < Cardinality(T)
  <2>1. /\ IsFiniteSet(T \ {0}) /\ Cardinality(T \ {0}) = Cardinality(T) - 1
        /\ Cardinality(T) \in Nat
    BY <1>1, FS_RemoveElement, FS_CardinalityType
  <2> QED
    BY <2>1
<1>4. succ \in [T -> T \ {0}]
  BY <1>2
<1>5. \E x, y \in T : x # y /\ succ[x] = succ[y]
  <2> HIDE DEF succ, T
  <2> QED
    BY <1>1, <1>3, <1>4, FS_PigeonHole
<1> QED
  BY <1>1, <1>5

(* The results of a loop of n steps that starts from v0.                   *)
Runs(V, n, v0, Step) ==
  {g \in [0 .. n -> V] : /\ g[0] = v0
                        /\ \A i \in 1 .. n : g[i] = Step[i][g[i - 1]]}

(* Every loop has some.                                                    *)
LEMMA LoopExists ==
  ASSUME NEW V, NEW n \in Nat, NEW v0 \in V, NEW Step \in [1 .. n -> [V -> V]]
  PROVE  Runs(V, n, v0, Step) # {}
<1> DEFINE RunsTo(m) == Runs(V, m, v0, Step)
           U == {m \in Nat : m <= n => RunsTo(m) # {}}
<1> USE DEF Runs
<1>1. 0 \in U
  <2>1. [i \in 0 .. 0 |-> v0] \in RunsTo(0)
    OBVIOUS
  <2> QED
    BY <2>1
<1>2. ASSUME NEW m \in Nat, m \in U PROVE m + 1 \in U
  <2> SUFFICES ASSUME m + 1 <= n PROVE RunsTo(m + 1) # {}
    OBVIOUS
  <2>1. PICK g : g \in RunsTo(m)
    BY <1>2
  <2> DEFINE v == Step[m + 1][g[m]]
             h == [i \in 0 .. m + 1 |-> IF i <= m THEN g[i] ELSE v]
  <2>2. v \in V
    <3>1. g[m] \in V /\ m + 1 \in 1 .. n
      BY <2>1
    <3> QED
      BY <3>1
  <2>3. /\ h \in [0 .. m + 1 -> V] /\ h[m + 1] = v
        /\ \A i \in 0 .. m : h[i] = g[i]
    BY <2>1, <2>2
  <2>4. ASSUME NEW i \in 1 .. m + 1 PROVE h[i] = Step[i][h[i - 1]]
    <3> HIDE DEF h
    <3>1. CASE i = m + 1
      BY <2>3, <3>1
    <3>2. CASE i # m + 1
      <4>1. i \in 1 .. m /\ i \in 0 .. m /\ i - 1 \in 0 .. m
        BY <3>2
      <4> QED
        BY <2>1, <2>3, <4>1
    <3> QED
      BY <3>1, <3>2
  <2>5. h \in RunsTo(m + 1)
    <3> HIDE DEF h
    <3> QED
      BY <2>1, <2>3, <2>4
  <2> QED
    BY <2>5
<1>3. n \in U
  <2> HIDE DEF U
  <2> QED
    BY <1>1, <1>2, SetInduction
<1> QED
  BY <1>3

-----------------------------------------------------------------------------
(* Lists.                                                                  *)

Entries(list) == {list[i] : i \in 1 .. Len(list)}
Distinct(list) == \A i, j \in 1 .. Len(list) : list[i] = list[j] => i = j

(* One more entry.                                                         *)
LEMMA OneMore ==
  ASSUME NEW T, NEW list \in Seq(T), NEW e
  PROVE  /\ Len(Append(list, e)) = Len(list) + 1
         /\ Entries(Append(list, e)) = Entries(list) \cup {e}
         /\ Distinct(list) /\ e \notin Entries(list) => Distinct(Append(list, e))
<1> DEFINE n == Len(list)
           more == Append(list, e)
<1>1. /\ n \in Nat /\ Len(more) = n + 1 /\ more[n + 1] = e
      /\ \A i \in 1 .. n : more[i] = list[i]
  OBVIOUS
<1> HIDE DEF n, more
<1>2. Entries(more) = Entries(list) \cup {e}
  <2>1. \A i \in 1 .. n + 1 : i \in 1 .. n \/ i = n + 1
    BY <1>1
  <2>2. n + 1 \in 1 .. n + 1 /\ \A i \in 1 .. n : i \in 1 .. n + 1
    BY <1>1
  <2> QED
    BY <1>1, <2>1, <2>2 DEF Entries, n
<1>3. Distinct(list) /\ e \notin Entries(list) => Distinct(more)
  BY <1>1 DEF Distinct, Entries, n
<1> QED
  BY <1>1, <1>2, <1>3 DEF n, more

(* A list without repetitions has as many entries as its length says.      *)
LEMMA DistinctCount ==
  ASSUME NEW T, NEW list \in Seq(T)
  PROVE  /\ IsFiniteSet(Entries(list)) /\ Entries(list) \subseteq T
         /\ Distinct(list) => Cardinality(Entries(list)) = Len(list)
<1> DEFINE n == Len(list)
           at == [i \in 1 .. n |-> list[i]]
<1>0. n \in Nat
  OBVIOUS
<1>1. IsFiniteSet(1 .. n) /\ Cardinality(1 .. n) = n
  BY <1>0, FS_Interval
<1>2. at \in Surjection(1 .. n, Entries(list))
  BY DEF Surjection, Entries
<1>3. Distinct(list) => at \in Injection(1 .. n, Entries(list))
  BY DEF Distinct, Injection, Entries, IsInjective
<1>4. /\ IsFiniteSet(Entries(list))
      /\ Cardinality(Entries(list)) = n <=> at \in Injection(1 .. n, Entries(list))
  BY <1>1, <1>2, FS_Surjection
<1> QED
  BY <1>3, <1>4 DEF Entries

-----------------------------------------------------------------------------
(* KeepOnly and SanitizeRates.                                             *)

(* The recursive function of KeepOnly is there, and is the loop it reads   *)
(* like.                                                                   *)
LEMMA KeepOnlyLoop ==
  ASSUME NEW T, NEW list \in Seq(T), NEW S
  PROVE  \E g \in [0 .. Len(list) -> Seq(T)] :
           /\ KeepOnly(list, S) = g[Len(list)]
           /\ g[0] = <<>>
           /\ \A i \in 1 .. Len(list) :
                g[i] = IF list[i] \in S THEN Append(g[i - 1], list[i]) ELSE g[i - 1]
<1> DEFINE n == Len(list)
           V == Seq(T)
           Step == [i \in 1 .. n |-> [v \in V |->
                      IF list[i] \in S THEN Append(v, list[i]) ELSE v]]
           Body(g) == [i \in 0 .. n |->
                         IF i = 0 THEN <<>>
                         ELSE IF list[i] \in S THEN Append(g[i - 1], list[i])
                              ELSE g[i - 1]]
           kept == CHOOSE g : g = Body(g)
<1>1. KeepOnly(list, S) = kept[n]
  BY DEF KeepOnly
<1> DEFINE start == <<>>
<1>2. n \in Nat /\ start \in V /\ Step \in [1 .. n -> [V -> V]]
  OBVIOUS
<1>3. PICK g \in [0 .. n -> V] :
        g[0] = start /\ \A i \in 1 .. n : g[i] = Step[i][g[i - 1]]
  <2> HIDE DEF Step, V, n, start
  <2>1. Runs(V, n, start, Step) # {}
    BY <1>2, LoopExists
  <2> QED
    BY <2>1 DEF Runs
<1>4. ASSUME NEW i \in 1 .. n
      PROVE  g[i] = IF list[i] \in S THEN Append(g[i - 1], list[i]) ELSE g[i - 1]
  <2>0. g[i - 1] \in V /\ i - 1 \in 0 .. n
    <3> HIDE DEF V
    <3> QED
      BY <1>2, <1>3
  <2>1. g[i] = Step[i][g[i - 1]]
    <3> HIDE DEF V, Step
    <3> QED
      BY <1>2, <1>3
  <2> QED
    BY <2>0, <2>1
<1>5. g = Body(g)
  <2>1. ASSUME NEW i \in 0 .. n PROVE g[i] = Body(g)[i]
    <3>1. i = 0 \/ i \in 1 .. n
      BY <1>2
    <3> QED
      BY <1>3, <1>4, <3>1
  <2>2. DOMAIN g = 0 .. n /\ DOMAIN Body(g) = 0 .. n /\ g = [i \in 0 .. n |-> g[i]]
    BY <1>3
  <2>3. Body(g) = [i \in 0 .. n |-> Body(g)[i]]
    OBVIOUS
  <2> HIDE DEF Body
  <2> QED
    BY <2>1, <2>2, <2>3
<1>6. kept = Body(kept)
  <2> HIDE DEF Body
  <2> QED
    BY <1>5
<1> DEFINE U == {m \in Nat : m <= n => kept[m] = g[m]}
<1>7. 0 \in U
  <2>1. 0 \in 0 .. n
    BY <1>2
  <2>2. Body(kept)[0] = <<>>
    BY <2>1
  <2> HIDE DEF kept, Body
  <2> QED
    BY <1>3, <1>6, <2>2
<1>8. ASSUME NEW m \in Nat, m \in U PROVE m + 1 \in U
  <2> SUFFICES ASSUME m + 1 <= n PROVE kept[m + 1] = g[m + 1]
    OBVIOUS
  <2>1. m + 1 \in 0 .. n /\ m + 1 \in 1 .. n /\ m + 1 # 0 /\ (m + 1) - 1 = m
    BY <1>2
  <2>2. Body(kept)[m + 1] =
          IF list[m + 1] \in S THEN Append(kept[m], list[m + 1]) ELSE kept[m]
    <3> HIDE DEF kept
    <3> QED
      BY <2>1
  <2>3. kept[m] = g[m]
    BY <1>8, <2>1
  <2> HIDE DEF kept, Body
  <2> QED
    BY <1>4, <1>6, <2>1, <2>2, <2>3
<1>9. kept[n] = g[n]
  <2> HIDE DEF U
  <2>1. n \in U
    BY <1>2, <1>7, <1>8, SetInduction
  <2> QED
    BY <2>1 DEF U
<1> QED
  BY <1>1, <1>3, <1>4, <1>9

(* kept has its entries from the first m places of list, in their order.   *)
InOrder(kept, list, m) ==
  \A k, l \in 1 .. Len(kept) : k < l =>
    \E i, j \in 1 .. m : i < j /\ kept[k] = list[i] /\ kept[l] = list[j]

(* What is kept, in any list: the entries in S, in the order they were in, *)
(* none of them twice if none was there twice.                             *)
LEMMA KeepOnlyKeeps ==
  ASSUME NEW T, NEW list \in Seq(T), NEW S
  PROVE  /\ KeepOnly(list, S) \in Seq(T)
         /\ Len(KeepOnly(list, S)) <= Len(list)
         /\ Entries(KeepOnly(list, S)) = Entries(list) \cap S
         /\ Distinct(list) => Distinct(KeepOnly(list, S))
         /\ InOrder(KeepOnly(list, S), list, Len(list))
<1> DEFINE n == Len(list)
           Upto(m) == {list[j] : j \in 1 .. m}
<1>1. n \in Nat
  OBVIOUS
<1>2. PICK g \in [0 .. n -> Seq(T)] :
        /\ KeepOnly(list, S) = g[n]
        /\ g[0] = <<>>
        /\ \A i \in 1 .. n :
             g[i] = IF list[i] \in S THEN Append(g[i - 1], list[i]) ELSE g[i - 1]
  BY KeepOnlyLoop
<1> DEFINE Good(m) == /\ Len(g[m]) <= m
                      /\ Entries(g[m]) = Upto(m) \cap S
                      /\ Distinct(list) => Distinct(g[m])
                      /\ InOrder(g[m], list, m)
           U == {m \in Nat : m <= n => Good(m)}
<1>3. 0 \in U
  BY <1>2 DEF Entries, Distinct, InOrder
<1>4. ASSUME NEW m \in Nat, m \in U PROVE m + 1 \in U
  <2> SUFFICES ASSUME m + 1 <= n PROVE Good(m + 1)
    OBVIOUS
  <2> DEFINE e == list[m + 1]
  <2>1. /\ Good(m) /\ g[m] \in Seq(T) /\ e \in T
        /\ g[m + 1] = IF e \in S THEN Append(g[m], e) ELSE g[m]
    <3>1. m + 1 \in 1 .. n /\ m \in 0 .. n /\ (m + 1) - 1 = m
      BY <1>1
    <3> QED
      BY <1>2, <1>4, <3>1
  <2>2. Upto(m + 1) = Upto(m) \cup {e}
    <3>1. \A j : j \in 1 .. m + 1 <=> j \in 1 .. m \/ j = m + 1
      OBVIOUS
    <3> QED
      BY <3>1
  <2>3. Distinct(list) => e \notin Upto(m)
    <3>1. m + 1 \in 1 .. n /\ \A j \in 1 .. m : j \in 1 .. n /\ j # m + 1
      BY <1>1
    <3> QED
      BY <3>1 DEF Distinct
  <2>4. Len(g[m]) \in Nat
    BY <2>1
  <2>5. e \in S => InOrder(g[m + 1], list, m + 1)
    <3> SUFFICES ASSUME e \in S, NEW k \in 1 .. Len(g[m + 1]), NEW l \in 1 .. Len(g[m + 1]),
                        k < l
                 PROVE  \E i, j \in 1 .. m + 1 :
                          i < j /\ g[m + 1][k] = list[i] /\ g[m + 1][l] = list[j]
      BY DEF InOrder
    <3>1. /\ Len(g[m + 1]) = Len(g[m]) + 1 /\ g[m + 1][Len(g[m]) + 1] = e
          /\ \A h \in 1 .. Len(g[m]) : g[m + 1][h] = g[m][h]
      <4> HIDE DEF e
      <4> QED
        BY <2>1
    <3>2. k \in 1 .. Len(g[m]) /\ (l \in 1 .. Len(g[m]) \/ l = Len(g[m]) + 1)
      BY <2>4, <3>1
    <3>3. CASE l \in 1 .. Len(g[m])
      <4>1. \E i, j \in 1 .. m : i < j /\ g[m][k] = list[i] /\ g[m][l] = list[j]
        BY <2>1, <3>2, <3>3 DEF InOrder
      <4>2. PICK i \in 1 .. m, j \in 1 .. m : i < j /\ g[m][k] = list[i] /\ g[m][l] = list[j]
        BY <4>1
      <4>3. i \in 1 .. m + 1 /\ j \in 1 .. m + 1
        OBVIOUS
      <4> QED
        BY <3>1, <3>2, <3>3, <4>2, <4>3
    <3>4. CASE l = Len(g[m]) + 1
      <4>1. g[m][k] \in Upto(m)
        BY <2>1, <3>2 DEF Entries
      <4>2. PICK i \in 1 .. m : g[m][k] = list[i]
        BY <4>1
      <4>3. i \in 1 .. m + 1 /\ m + 1 \in 1 .. m + 1 /\ i < m + 1
        OBVIOUS
      <4> QED
        BY <3>1, <3>2, <3>4, <4>2, <4>3
    <3> QED
      BY <3>2, <3>3, <3>4
  <2>6. e \notin S => InOrder(g[m + 1], list, m + 1)
    <3>1. \A i \in 1 .. m : i \in 1 .. m + 1
      OBVIOUS
    <3> HIDE DEF e
    <3> QED
      BY <2>1, <3>1 DEF InOrder
  <2> HIDE DEF e, Upto
  <2>7. CASE e \in S
    <3>1. /\ Len(g[m + 1]) = Len(g[m]) + 1
          /\ Entries(g[m + 1]) = Entries(g[m]) \cup {e}
          /\ Distinct(g[m]) /\ e \notin Entries(g[m]) => Distinct(g[m + 1])
      BY <2>1, <2>7, OneMore
    <3>2. Len(g[m + 1]) <= m + 1
      BY <2>1, <2>4, <3>1
    <3>3. Entries(g[m + 1]) = Upto(m + 1) \cap S
      BY <2>1, <2>2, <2>7, <3>1
    <3>4. Distinct(list) => Distinct(g[m + 1])
      BY <2>1, <2>3, <3>1
    <3> QED
      BY <2>5, <2>7, <3>2, <3>3, <3>4
  <2>8. CASE e \notin S
    <3>1. Len(g[m + 1]) <= m + 1
      BY <2>1, <2>4, <2>8
    <3>2. Entries(g[m + 1]) = Upto(m + 1) \cap S /\ (Distinct(list) => Distinct(g[m + 1]))
      BY <2>1, <2>2, <2>8
    <3> QED
      BY <2>6, <2>8, <3>1, <3>2
  <2> QED
    BY <2>7, <2>8
<1>5. Good(n)
  <2> HIDE DEF U
  <2>1. n \in U
    BY <1>1, <1>3, <1>4, SetInduction
  <2> QED
    BY <1>1, <2>1 DEF U
<1>6. Upto(n) = Entries(list) /\ g[n] \in Seq(T)
  BY <1>1, <1>2 DEF Entries
<1> QED
  BY <1>2, <1>5, <1>6

(* The candidates of a scan: the usable rates of the request and no other, *)
(* each once and in the order they first occur in.                         *)
Fresh(given, i) ==
  /\ i \in DOMAIN given /\ Usable(given[i])
  /\ \A h \in 1 .. i - 1 : given[h] # given[i]

THEOREM SanitizedRates ==
  ASSUME NoRate \notin Int, NEW given \in Seq(Int \cup {NoRate})
  PROVE  LET rates == SanitizeRates(given)
         IN  /\ rates \in Seq(1 .. MaxBaudRate) /\ Distinct(rates)
             /\ Entries(rates) = {given[i] : i \in {i \in DOMAIN given : Usable(given[i])}}
             /\ \A k, l \in 1 .. Len(rates) : k < l =>
                  \E i, j \in Nat : /\ i < j /\ Fresh(given, i) /\ Fresh(given, j)
                                    /\ rates[k] = given[i] /\ rates[l] = given[j]
<1> DEFINE n == Len(given)
           places == [i \in DOMAIN given |-> i]
           fresh == {i \in DOMAIN given : /\ Usable(given[i])
                                          /\ \A j \in 1 .. i - 1 : given[j] # given[i]}
           kept == KeepOnly(places, fresh)
           rates == [k \in DOMAIN kept |-> given[kept[k]]]
<1>1. n \in Nat /\ DOMAIN given = 1 .. n
  OBVIOUS
<1>2. places \in Seq(1 .. n) /\ Len(places) = n /\ \A i \in 1 .. n : places[i] = i
  BY <1>1
<1>3. Entries(places) = 1 .. n /\ Distinct(places)
  BY <1>2 DEF Entries, Distinct
<1>4. /\ kept \in Seq(1 .. n) /\ Entries(kept) = fresh /\ Distinct(kept)
      /\ InOrder(kept, places, n)
  <2> HIDE DEF places, fresh
  <2>1. /\ kept \in Seq(1 .. n) /\ Entries(kept) = Entries(places) \cap fresh
        /\ Distinct(kept) /\ InOrder(kept, places, n)
    BY <1>2, <1>3, KeepOnlyKeeps
  <2> QED
    BY <1>1, <1>3, <2>1 DEF fresh
<1>5. SanitizeRates(given) = rates
  BY DEF SanitizeRates
<1> HIDE DEF kept
<1>6. /\ Len(kept) \in Nat /\ DOMAIN kept = 1 .. Len(kept)
      /\ \A k \in 1 .. Len(kept) : kept[k] \in fresh
  BY <1>4 DEF Entries
<1>7. ASSUME NEW r \in Int \cup {NoRate}, Usable(r) PROVE r \in 1 .. MaxBaudRate
  BY <1>7, LineAssumption DEF Usable
<1>8. rates \in Seq(1 .. MaxBaudRate) /\ Len(rates) = Len(kept)
  <2>1. ASSUME NEW k \in 1 .. Len(kept) PROVE given[kept[k]] \in 1 .. MaxBaudRate
    <3>1. kept[k] \in DOMAIN given /\ Usable(given[kept[k]])
      BY <1>6
    <3>2. given[kept[k]] \in Int \cup {NoRate}
      BY <3>1
    <3> QED
      BY <1>7, <3>1, <3>2
  <2> QED
    BY <1>6, <2>1
<1>9. Distinct(rates)
  <2> SUFFICES ASSUME NEW k \in 1 .. Len(kept), NEW l \in 1 .. Len(kept),
                      given[kept[k]] = given[kept[l]]
               PROVE  k = l
    BY <1>6, <1>8 DEF Distinct
  <2>1. kept[k] \in 1 .. n /\ kept[l] \in 1 .. n
    BY <1>1, <1>6
  <2>2. kept[k] = kept[l]
    BY <1>6, <2>1
  <2> QED
    BY <1>4, <2>2 DEF Distinct
<1>10. ASSUME NEW i \in DOMAIN given, Usable(given[i]) PROVE given[i] \in Entries(rates)
  <2> DEFINE same == {j \in 1 .. n : given[j] = given[i]}
             U == {m \in Nat : \A j \in 1 .. m : j \notin same}
  <2>1. PICK f \in same : \A j \in 1 .. f - 1 : j \notin same
    <3> SUFFICES ASSUME \A f \in same : \E j \in 1 .. f - 1 : j \in same PROVE FALSE
      OBVIOUS
    <3>1. 0 \in U
      OBVIOUS
    <3>2. ASSUME NEW m \in Nat, m \in U PROVE m + 1 \in U
      BY <3>2
    <3> HIDE DEF U
    <3>3. i \in Nat
      BY <1>1
    <3>4. i \in U
      BY <3>1, <3>2, <3>3, SetInduction
    <3> QED
      BY <1>1, <3>3, <3>4 DEF U
  <2>2. f \in fresh /\ given[f] = given[i]
    BY <1>1, <1>10, <2>1
  <2>3. PICK k \in 1 .. Len(kept) : kept[k] = f
    BY <1>4, <2>2 DEF Entries
  <2> QED
    BY <1>6, <1>8, <2>2, <2>3 DEF Entries
<1>11. Entries(rates) = {given[i] : i \in {i \in DOMAIN given : Usable(given[i])}}
  <2>1. ASSUME NEW r \in Entries(rates)
        PROVE  r \in {given[i] : i \in {i \in DOMAIN given : Usable(given[i])}}
    <3>1. PICK k \in 1 .. Len(kept) : r = given[kept[k]]
      BY <1>6, <1>8 DEF Entries
    <3> QED
      BY <1>6, <3>1
  <2> HIDE DEF rates
  <2> QED
    BY <1>10, <2>1
<1>12. ASSUME NEW k \in 1 .. Len(rates), NEW l \in 1 .. Len(rates), k < l
       PROVE  \E i, j \in Nat : /\ i < j /\ Fresh(given, i) /\ Fresh(given, j)
                                /\ rates[k] = given[i] /\ rates[l] = given[j]
  <2>1. k \in 1 .. Len(kept) /\ l \in 1 .. Len(kept)
    BY <1>8
  <2>2. PICK i \in 1 .. n, j \in 1 .. n : i < j /\ kept[k] = places[i] /\ kept[l] = places[j]
    <3> HIDE DEF places
    <3> QED
      BY <1>4, <1>12, <2>1 DEF InOrder
  <2>3. kept[k] = i /\ kept[l] = j /\ i \in Nat /\ j \in Nat
    BY <1>2, <2>2
  <2>4. Fresh(given, i) /\ Fresh(given, j)
    BY <1>6, <2>1, <2>3 DEF Fresh
  <2>5. rates[k] = given[i] /\ rates[l] = given[j]
    BY <1>6, <2>1, <2>3
  <2> QED
    BY <2>2, <2>3, <2>4, <2>5
<1> HIDE DEF rates
<1> QED
  BY <1>5, <1>8, <1>9, <1>11, <1>12

-----------------------------------------------------------------------------
(* The ranking.  sort_key compares by the console score, then the printable*)
(* ratio, then the line ends, then the NULs: a strict weak order.          *)

Fractions == Nat \X (Nat \ {0})
Sample == [Counts -> Nat]

(* Products keep an order and are positive.                                *)
LEMMA Products ==
  ASSUME NEW x \in Nat, NEW y \in Nat, NEW z \in Nat \ {0}
  PROVE  /\ x * z \in Nat /\ (x < y <=> x * z < y * z) /\ (x <= y <=> x * z <= y * z)
         /\ x # 0 => x * z # 0
<1>1. x * z \in Nat /\ y * z \in Nat /\ (x # 0 => x * z # 0)
  OBVIOUS
<1>2. x < y => x * z < y * z
  OBVIOUS
<1>3. y < x => y * z < x * z
  OBVIOUS
<1>4. x = y => x * z = y * z
  OBVIOUS
<1> QED
  BY <1>1, <1>2, <1>3, <1>4

(* Fractions are compared as their values are.                             *)
LEMMA BelowOrder ==
  ASSUME NEW r \in Fractions, NEW s \in Fractions, NEW t \in Fractions, Below(r, s)
  PROVE  ~Below(s, r) /\ (Below(r, t) \/ Below(t, s))
<1> PICK a \in Nat, b \in Nat \ {0} : r = <<a, b>>
  BY DEF Fractions
<1> PICK c \in Nat, d \in Nat \ {0} : s = <<c, d>>
  BY DEF Fractions
<1> PICK e \in Nat, f \in Nat \ {0} : t = <<e, f>>
  BY DEF Fractions
<1>1. /\ Below(r, s) <=> a * d < c * b
      /\ Below(s, r) <=> c * b < a * d
      /\ Below(r, t) <=> a * f < e * b
      /\ Below(t, s) <=> e * d < c * f
  BY DEF Below
<1>2. a * d \in Nat /\ c * b \in Nat /\ a * f \in Nat /\ e * b \in Nat
      /\ e * d \in Nat /\ c * f \in Nat
  BY Products
<1>3. ASSUME e * b <= a * f, c * f <= e * d PROVE FALSE
  <2>1. (a * d) * f < (c * b) * f
    BY <1>1, <1>2, Products
  <2>2. (c * f) * b <= (e * d) * b
    BY <1>2, <1>3, Products
  <2>3. (e * b) * d <= (a * f) * d
    BY <1>2, <1>3, Products
  <2>4. /\ (a * d) * f = (a * f) * d /\ (c * b) * f = (c * f) * b
        /\ (e * d) * b = (e * b) * d
    OBVIOUS
  <2>5. /\ (a * f) * d \in Nat /\ (c * f) * b \in Nat /\ (e * b) * d \in Nat
    BY <1>2, Products
  <2> QED
    BY <2>1, <2>2, <2>3, <2>4, <2>5
<1> QED
  BY <1>1, <1>2, <1>3

(* The ratios of a sample are fractions.                                   *)
LEMMA Ratios ==
  ASSUME NEW s \in Sample
  PROVE  ConsoleScore(s) \in Fractions /\ PrintableRatio(s) \in Fractions
<1>1. /\ s.n \in Nat /\ s.printable \in Nat /\ s.text \in Nat /\ s.spaces \in Nat
      /\ s.crlf \in Nat /\ s.lf \in Nat
  BY DEF Sample, Counts
<1>2. PrintableRatio(s) \in Fractions
  BY <1>1 DEF PrintableRatio, Zero, Fractions
<1>3. ASSUME NEW r \in Fractions, NEW q \in Fractions PROVE Times(r, q) \in Fractions
  <2> PICK a \in Nat, b \in Nat \ {0} : r = <<a, b>>
    BY DEF Fractions
  <2> PICK c \in Nat, d \in Nat \ {0} : q = <<c, d>>
    BY DEF Fractions
  <2>1. a * c \in Nat /\ b * d \in Nat \ {0}
    BY Products
  <2> QED
    BY <2>1 DEF Times, Fractions
<1>4. ASSUME NEW r \in Fractions PROVE Capped(r) \in Fractions
  BY <1>4 DEF Capped, Fractions
<1>5. CASE s.n # 0
  <2>1. <<s.text, s.n>> \in Fractions /\ <<10 * s.spaces, s.n>> \in Fractions
    BY <1>1, <1>5 DEF Fractions
  <2>2. <<Terminators(s) * LineLength, Most(LineLength, s.n)>> \in Fractions
    BY <1>1, LineAssumption DEF Terminators, Most, Fractions
  <2> QED
    BY <1>2, <1>3, <1>4, <1>5, <2>1, <2>2 DEF ConsoleScore, SpaceFactor, LineStructure
<1>6. CASE s.n = 0
  BY <1>2, <1>6 DEF ConsoleScore, Zero, Fractions
<1> QED
  BY <1>5, <1>6

(* What ranks before b ranks before c, or c before b; never b before it.   *)
LEMMA RankOrder ==
  ASSUME NEW a \in Sample, NEW b \in Sample, NEW c \in Sample, Outranks(a, b)
  PROVE  ~Outranks(b, a) /\ (Outranks(a, c) \/ Outranks(c, b))
<1> DEFINE CrLf(s) == IF s.crlf > 0 THEN 1 ELSE 0
           S(x, y) == Below(ConsoleScore(x), ConsoleScore(y))
           P(x, y) == Below(PrintableRatio(x), PrintableRatio(y))
<1>1. \A x, y \in Sample :
        Outranks(x, y) <=>
          \/ S(y, x)
          \/ ~S(x, y) /\ P(y, x)
          \/ ~S(x, y) /\ ~P(x, y) /\ CrLf(x) > CrLf(y)
          \/ ~S(x, y) /\ ~P(x, y) /\ CrLf(x) = CrLf(y) /\ x.nulls < y.nulls
  BY DEF Outranks
<1>2. \A x, y, z \in Sample :
        /\ S(x, y) => ~S(y, x) /\ (S(x, z) \/ S(z, y))
        /\ P(x, y) => ~P(y, x) /\ (P(x, z) \/ P(z, y))
  BY Ratios, BelowOrder
<1>3. \A x \in Sample : CrLf(x) \in {0, 1} /\ x.nulls \in Nat
  BY DEF Sample, Counts
<1> HIDE DEF S, P, CrLf
<1>4. ~Outranks(b, a)
  BY <1>1, <1>2, <1>3
<1>5. Outranks(a, c) \/ Outranks(c, b)
  BY <1>1, <1>2, <1>3
<1> QED
  BY <1>4, <1>5

(* A clear sample is not silent, and ranks before every silent one.        *)
LEMMA ClearIsHeard ==
  ASSUME NEW a \in Sample, LooksLikeConsole(a)
  PROVE  a.n # 0 /\ \A b \in Sample : b.n = 0 => Outranks(a, b)
<1> PICK p \in Nat, q \in Nat \ {0} : ConsoleScore(a) = <<p, q>>
  BY Ratios DEF Fractions
<1>1. ~(p * 2 < 1 * q)
  BY DEF LooksLikeConsole, Below
<1>2. p # 0
  BY <1>1
<1>3. a.n # 0
  BY <1>2 DEF ConsoleScore, Zero
<1>4. ASSUME NEW b \in Sample, b.n = 0 PROVE Outranks(a, b)
  <2>1. ConsoleScore(b) = <<0, 1>>
    BY <1>4 DEF ConsoleScore, Zero
  <2>2. Below(ConsoleScore(b), ConsoleScore(a))
    BY <1>2, <2>1 DEF Below
  <2> QED
    BY <2>2 DEF Outranks
<1> QED
  BY <1>3, <1>4

-----------------------------------------------------------------------------
(* Which of the candidates at some places of the order comes first: nothing*)
(* ranks before it, and it ranks before all that are earlier in the order. *)

Ahead(samples, order, j, k) == Outranks(samples[order[j]], samples[order[k]])

IsFirst(samples, order, P, k) ==
  /\ k \in P
  /\ \A j \in P : /\ ~Ahead(samples, order, j, k)
                  /\ j < k => Ahead(samples, order, k, j)

(* Samples of the rates of an order.                                       *)
Sampled(samples, order) ==
  /\ order \in Seq(Int)
  /\ \A i \in 1 .. Len(order) : samples[order[i]] \in Sample

(* There is at most one.                                                   *)
LEMMA FirstIsUnique ==
  ASSUME NEW samples, NEW order, NEW P \in SUBSET Nat, NEW k, NEW l,
         IsFirst(samples, order, P, k), IsFirst(samples, order, P, l)
  PROVE  k = l
  BY DEF IsFirst

(* How the first changes when one more place, after the others, is looked  *)
(* at.                                                                     *)
LEMMA OneMorePlace ==
  ASSUME NEW samples, NEW order, Sampled(samples, order),
         NEW m \in Nat, m + 1 <= Len(order), NEW P \in SUBSET (1 .. m),
         NEW k, IsFirst(samples, order, P, k)
  PROVE  IsFirst(samples, order, P \cup {m + 1},
                 IF Ahead(samples, order, m + 1, k) THEN m + 1 ELSE k)
<1>1. /\ Len(order) \in Nat /\ m + 1 \in 1 .. Len(order)
      /\ \A j \in P : j \in 1 .. Len(order) /\ j < m + 1
      /\ \A j \in P \cup {m + 1} : samples[order[j]] \in Sample
  BY DEF Sampled
<1> DEFINE A(j, l) == Ahead(samples, order, j, l)
<1>2. \A j, l, i \in P \cup {m + 1} : A(j, l) => ~A(l, j) /\ (A(j, i) \/ A(i, l))
  BY <1>1, RankOrder DEF Ahead
<1>3. k \in P /\ \A j \in P : ~A(j, k) /\ (j < k => A(k, j))
  BY DEF IsFirst
<1> HIDE DEF A
<1>4. CASE A(m + 1, k)
  <2>1. \A j \in P : A(m + 1, j) /\ ~A(j, m + 1)
    BY <1>2, <1>3, <1>4
  <2>2. ~A(m + 1, m + 1)
    BY <1>2
  <2> QED
    BY <1>1, <1>4, <2>1, <2>2 DEF IsFirst, A
<1>5. CASE ~A(m + 1, k)
  BY <1>1, <1>3, <1>5 DEF IsFirst, A
<1> QED
  BY <1>4, <1>5

(* There is one among any places.                                          *)
LEMMA FirstExists ==
  ASSUME NEW samples, NEW order, Sampled(samples, order),
         NEW P \in SUBSET (1 .. Len(order)), P # {}
  PROVE  \E k \in P : IsFirst(samples, order, P, k)
<1> DEFINE n == Len(order)
           Q(m) == P \cap 1 .. m
           Has(m) == Q(m) # {} => \E k : IsFirst(samples, order, Q(m), k)
           U == {m \in Nat : m <= n => Has(m)}
<1>1. n \in Nat
  BY DEF Sampled
<1>2. 0 \in U
  OBVIOUS
<1>3. ASSUME NEW m \in Nat, m \in U PROVE m + 1 \in U
  <2>h. m + 1 <= n => Has(m)
    <3> HIDE DEF Has
    <3> QED
      BY <1>1, <1>3
  <2> SUFFICES ASSUME m + 1 <= n, Q(m + 1) # {}
               PROVE  \E k : IsFirst(samples, order, Q(m + 1), k)
    <3>1. Has(m + 1) <=> (Q(m + 1) # {} => \E k : IsFirst(samples, order, Q(m + 1), k))
      OBVIOUS
    <3> HIDE DEF Has, Q
    <3> QED
      BY <3>1
  <2>1. Q(m + 1) = IF m + 1 \in P THEN Q(m) \cup {m + 1} ELSE Q(m)
    <3>1. \A j : j \in 1 .. m + 1 <=> j \in 1 .. m \/ j = m + 1
      OBVIOUS
    <3> QED
      BY <3>1
  <2>2. CASE Q(m) = {}
    <3>1. Q(m + 1) = {m + 1}
      BY <2>1, <2>2
    <3>2. samples[order[m + 1]] \in Sample
      BY <1>1 DEF Sampled
    <3>3. IsFirst(samples, order, {m + 1}, m + 1)
      BY <3>2, RankOrder DEF IsFirst, Ahead
    <3> QED
      BY <3>1, <3>3
  <2>3. CASE Q(m) # {}
    <3>1. PICK k : IsFirst(samples, order, Q(m), k)
      BY <2>h, <2>3
    <3>2. Q(m) \in SUBSET (1 .. m)
      OBVIOUS
    <3> HIDE DEF Q
    <3>3. \E l : IsFirst(samples, order, Q(m) \cup {m + 1}, l)
      BY <1>1, <3>1, <3>2, OneMorePlace
    <3> QED
      BY <2>1, <3>1, <3>3
  <2> QED
    BY <2>2, <2>3
<1>4. n \in U
  <2> HIDE DEF U
  <2> QED
    BY <1>1, <1>2, <1>3, SetInduction
<1>5. Q(n) = P
  OBVIOUS
<1>6. Has(n)
  <2> HIDE DEF Has
  <2> QED
    BY <1>1, <1>4
<1>7. \E k : IsFirst(samples, order, P, k)
  <2>1. Q(n) # {} => \E k : IsFirst(samples, order, Q(n), k)
    BY <1>6
  <2> HIDE DEF Q
  <2> QED
    BY <1>5, <2>1
<1> QED
  BY <1>7 DEF IsFirst

(* The head of rank_candidates is the first of all of them.                *)
LEMMA TopIsFirst ==
  ASSUME NEW samples, NEW order, Sampled(samples, order), order # <<>>
  PROVE  \E k \in 1 .. Len(order) :
           /\ IsFirst(samples, order, 1 .. Len(order), k)
           /\ RankCandidates(samples, order)[1] = order[k]
<1> DEFINE n == Len(order)
           Before(i) == {j \in 1 .. n :
                           \/ Outranks(samples[order[j]], samples[order[i]])
                           \/ /\ ~Outranks(samples[order[i]], samples[order[j]])
                              /\ j < i}
<1>1. n \in Nat /\ n # 0 /\ DOMAIN order = 1 .. n
  BY DEF Sampled
<1>2. IsFiniteSet(1 .. n)
  BY <1>1, FS_Interval
<1>3. ASSUME NEW i \in 1 .. n
      PROVE  1 + Cardinality(Before(i)) = 1 <=> IsFirst(samples, order, 1 .. n, i)
  <2>1. IsFiniteSet(Before(i))
    BY <1>2, FS_Subset
  <2>2. Cardinality(Before(i)) \in Nat
    BY <2>1, FS_CardinalityType
  <2>3. Cardinality(Before(i)) = 0 <=> Before(i) = {}
    BY <2>1, FS_EmptySet
  <2>4. Before(i) = {} <=> IsFirst(samples, order, 1 .. n, i)
    BY DEF IsFirst, Ahead
  <2> HIDE DEF Before
  <2> QED
    BY <2>2, <2>3, <2>4
<1> DEFINE top == CHOOSE i \in 1 .. n : 1 + Cardinality(Before(i)) = 1
<1>4. RankCandidates(samples, order)[1] = order[top]
  BY <1>1 DEF RankCandidates
<1> HIDE DEF Before
<1>5. \E i \in 1 .. n : IsFirst(samples, order, 1 .. n, i)
  <2>1. 1 .. n \in SUBSET (1 .. n) /\ 1 .. n # {}
    BY <1>1
  <2> QED
    BY <2>1, FirstExists
<1>6. top \in 1 .. n /\ IsFirst(samples, order, 1 .. n, top)
  <2>1. \E i \in 1 .. n : 1 + Cardinality(Before(i)) = 1
    BY <1>3, <1>5
  <2>2. top \in 1 .. n /\ 1 + Cardinality(Before(top)) = 1
    BY <2>1
  <2> HIDE DEF top
  <2> QED
    BY <1>3, <2>2
<1> HIDE DEF top
<1> QED
  BY <1>4, <1>6

(* The loop of pick_winner.                                                *)
LEMMA BestLoop ==
  ASSUME NEW samples, NEW order \in Seq(Int)
  PROVE  \E g \in [0 .. Len(order) -> Int \cup {NoRate}] :
           /\ Best(samples, order) = g[Len(order)]
           /\ g[0] = NoRate
           /\ \A i \in 1 .. Len(order) :
                g[i] = IF /\ samples[order[i]].n > 0
                          /\ \/ g[i - 1] = NoRate
                             \/ Outranks(samples[order[i]], samples[g[i - 1]])
                       THEN order[i] ELSE g[i - 1]
<1> DEFINE n == Len(order)
           V == Int \cup {NoRate}
           Better(i, v) == /\ samples[order[i]].n > 0
                           /\ v = NoRate \/ Outranks(samples[order[i]], samples[v])
           Step == [i \in 1 .. n |-> [v \in V |-> IF Better(i, v) THEN order[i] ELSE v]]
           Body(g) == [i \in 0 .. n |->
                         IF i = 0 THEN NoRate
                         ELSE IF /\ samples[order[i]].n > 0
                                 /\ \/ g[i - 1] = NoRate
                                    \/ Outranks(samples[order[i]], samples[g[i - 1]])
                              THEN order[i] ELSE g[i - 1]]
           best == CHOOSE g : g = Body(g)
<1>1. Best(samples, order) = best[n]
  BY DEF Best
<1>2. /\ n \in Nat /\ NoRate \in V /\ \A i \in 1 .. n : order[i] \in V
      /\ Step \in [1 .. n -> [V -> V]]
  <2>1. n \in Nat /\ NoRate \in V /\ \A i \in 1 .. n : order[i] \in V
    OBVIOUS
  <2> HIDE DEF Better, n, V
  <2> QED
    BY <2>1
<1>3. PICK g \in [0 .. n -> V] :
        g[0] = NoRate /\ \A i \in 1 .. n : g[i] = Step[i][g[i - 1]]
  <2> HIDE DEF Step, V, n
  <2>1. Runs(V, n, NoRate, Step) # {}
    BY <1>2, LoopExists
  <2> QED
    BY <2>1 DEF Runs
<1>4. ASSUME NEW i \in 1 .. n
      PROVE  g[i] = IF Better(i, g[i - 1]) THEN order[i] ELSE g[i - 1]
  <2>0. g[i - 1] \in V
    <3> HIDE DEF V
    <3> QED
      BY <1>2, <1>3
  <2>1. g[i] = Step[i][g[i - 1]]
    <3> HIDE DEF V, Step
    <3> QED
      BY <1>2, <1>3
  <2> HIDE DEF Better, V
  <2> QED
    BY <2>0, <2>1
<1>5. \A h : Body(h) = [i \in 0 .. n |-> IF i = 0 THEN NoRate
                 ELSE IF Better(i, h[i - 1]) THEN order[i] ELSE h[i - 1]]
  OBVIOUS
<1> HIDE DEF Body, Better
<1>6. g = Body(g)
  <2>1. ASSUME NEW i \in 0 .. n PROVE g[i] = Body(g)[i]
    <3>1. i = 0 \/ i \in 1 .. n
      BY <1>2
    <3> QED
      BY <1>3, <1>4, <1>5, <3>1
  <2>2. g = [i \in 0 .. n |-> g[i]] /\ Body(g) = [i \in 0 .. n |-> Body(g)[i]]
    BY <1>3, <1>5
  <2> QED
    BY <2>1, <2>2
<1>7. best = Body(best)
  BY <1>6
<1> HIDE DEF best
<1> DEFINE U == {m \in Nat : m <= n => best[m] = g[m]}
<1>8. 0 \in U
  <2>1. Body(best)[0] = NoRate
    BY <1>2, <1>5
  <2> QED
    BY <1>3, <1>7, <2>1
<1>9. ASSUME NEW m \in Nat, m \in U PROVE m + 1 \in U
  <2> SUFFICES ASSUME m + 1 <= n PROVE best[m + 1] = g[m + 1]
    OBVIOUS
  <2>1. m + 1 \in 0 .. n /\ m + 1 \in 1 .. n /\ m + 1 # 0 /\ (m + 1) - 1 = m
    BY <1>2
  <2>2. Body(best)[m + 1] = IF Better(m + 1, best[m]) THEN order[m + 1] ELSE best[m]
    BY <1>5, <2>1
  <2>3. best[m] = g[m]
    BY <1>9, <2>1
  <2> QED
    BY <1>4, <1>7, <2>1, <2>2, <2>3
<1>10. best[n] = g[n]
  <2> HIDE DEF U
  <2>1. n \in U
    BY <1>2, <1>8, <1>9, SetInduction
  <2> QED
    BY <2>1 DEF U
<1> QED
  BY <1>1, <1>3, <1>4, <1>10 DEF Better

(* It ends with the first of the candidates that were heard.               *)
LEMMA BestIsFirst ==
  ASSUME NoRate \notin Int, NEW samples, NEW order, Sampled(samples, order),
         NEW Heard, Heard = {i \in 1 .. Len(order) : samples[order[i]].n > 0}
  PROVE  IF Heard = {} THEN Best(samples, order) = NoRate
         ELSE \E k \in Heard : /\ IsFirst(samples, order, Heard, k)
                               /\ Best(samples, order) = order[k]
<1> DEFINE n == Len(order)
           Q(m) == Heard \cap 1 .. m
<1>1. n \in Nat /\ order \in Seq(Int)
  BY DEF Sampled
<1>2. PICK g \in [0 .. n -> Int \cup {NoRate}] :
        /\ Best(samples, order) = g[n]
        /\ g[0] = NoRate
        /\ \A i \in 1 .. n :
             g[i] = IF /\ samples[order[i]].n > 0
                       /\ \/ g[i - 1] = NoRate
                          \/ Outranks(samples[order[i]], samples[g[i - 1]])
                    THEN order[i] ELSE g[i - 1]
  BY <1>1, BestLoop
<1> DEFINE Found(m) == \E k \in Q(m) : IsFirst(samples, order, Q(m), k) /\ g[m] = order[k]
           Holds(m) == IF Q(m) = {} THEN g[m] = NoRate ELSE Found(m)
           U == {m \in Nat : m <= n => Holds(m)}
<1>3. 0 \in U
  BY <1>2
<1>4. ASSUME NEW m \in Nat, m \in U PROVE m + 1 \in U
  <2>1. m + 1 <= n => Holds(m)
    <3> HIDE DEF Holds
    <3> QED
      BY <1>1, <1>4
  <2>2. ASSUME m + 1 <= n PROVE Holds(m + 1)
    <3>1. m + 1 \in 1 .. n /\ (m + 1) - 1 = m /\ order[m + 1] \in Int
      BY <1>1, <2>2
    <3>2. g[m + 1] = IF /\ m + 1 \in Heard
                        /\ \/ g[m] = NoRate
                           \/ Outranks(samples[order[m + 1]], samples[g[m]])
                     THEN order[m + 1] ELSE g[m]
      BY <1>2, <3>1
    <3>3. Q(m + 1) = IF m + 1 \in Heard THEN Q(m) \cup {m + 1} ELSE Q(m)
      <4>1. \A j : j \in 1 .. m + 1 <=> j \in 1 .. m \/ j = m + 1
        OBVIOUS
      <4> QED
        BY <4>1
    <3>4. CASE m + 1 \notin Heard
      BY <2>1, <2>2, <3>2, <3>3, <3>4
    <3>5. CASE m + 1 \in Heard /\ Q(m) = {}
      <4>1. g[m + 1] = order[m + 1] /\ Q(m + 1) = {m + 1}
        BY <2>1, <2>2, <3>2, <3>3, <3>5
      <4>2. samples[order[m + 1]] \in Sample
        BY <3>1 DEF Sampled
      <4>3. IsFirst(samples, order, {m + 1}, m + 1)
        BY <4>2, RankOrder DEF IsFirst, Ahead
      <4> HIDE DEF Q
      <4> QED
        BY <4>1, <4>3
    <3>6. CASE m + 1 \in Heard /\ Q(m) # {}
      <4>1. PICK k \in Q(m) : IsFirst(samples, order, Q(m), k) /\ g[m] = order[k]
        BY <2>1, <2>2, <3>6
      <4>2. Q(m) \in SUBSET (1 .. m) /\ k \in 1 .. n
        BY <1>1
      <4>3. g[m] # NoRate
        BY <1>1, <4>1, <4>2
      <4> DEFINE l == IF Ahead(samples, order, m + 1, k) THEN m + 1 ELSE k
      <4> HIDE DEF Q
      <4>4. g[m + 1] = order[l]
        BY <3>2, <3>6, <4>1, <4>3 DEF Ahead
      <4>5. IsFirst(samples, order, Q(m) \cup {m + 1}, l)
        BY <1>1, <2>2, <4>1, <4>2, OneMorePlace
      <4> HIDE DEF l
      <4>6. IsFirst(samples, order, Q(m + 1), l) /\ l \in Q(m + 1)
        BY <3>3, <3>6, <4>5 DEF IsFirst
      <4> QED
        BY <4>4, <4>6
    <3> QED
      BY <3>4, <3>5, <3>6
  <2> HIDE DEF Holds
  <2> QED
    BY <2>2
<1>5. Holds(n)
  <2> HIDE DEF U
  <2>1. n \in U
    BY <1>1, <1>3, <1>4, SetInduction
  <2> HIDE DEF Holds
  <2> QED
    BY <1>1, <2>1 DEF U
<1>6. Q(n) = Heard
  OBVIOUS
<1> HIDE DEF Q
<1> QED
  BY <1>2, <1>5, <1>6

(* pick_winner and rank_candidates agree, by loop and by sort: a winner is *)
(* the head of the ranking and clear, and a clear head is the winner.      *)
THEOREM WinnerHeadsRanking ==
  ASSUME NoRate \notin Int, NEW samples, NEW order, Sampled(samples, order),
         order # <<>>
  PROVE  LET top == RankCandidates(samples, order)[1]
         IN  PickWinner(samples, order) =
               IF LooksLikeConsole(samples[top]) THEN top ELSE NoRate
<1> DEFINE n == Len(order)
           top == RankCandidates(samples, order)[1]
           Heard == {i \in 1 .. n : samples[order[i]].n > 0}
<1>1. /\ n \in Nat /\ \A i \in 1 .. n : order[i] \in Int /\ order[i] # NoRate
      /\ \A i \in 1 .. n : samples[order[i]] \in Sample
  BY DEF Sampled
<1>2. PICK l \in 1 .. n : IsFirst(samples, order, 1 .. n, l) /\ top = order[l]
  BY TopIsFirst
<1>3. \A i \in 1 .. n : samples[order[i]].n \in Nat
  BY <1>1 DEF Sample, Counts
<1>4. CASE Heard = {}
  <2>1. Best(samples, order) = NoRate
    BY <1>4, BestIsFirst
  <2>2. samples[top].n = 0
    BY <1>2, <1>3, <1>4
  <2>3. ~LooksLikeConsole(samples[top])
    BY <1>1, <1>2, <2>2, ClearIsHeard
  <2> QED
    BY <2>1, <2>3 DEF PickWinner
<1>5. CASE Heard # {}
  <2>1. PICK k \in Heard : /\ IsFirst(samples, order, Heard, k)
                           /\ Best(samples, order) = order[k]
    BY <1>5, BestIsFirst
  <2>2. ASSUME LooksLikeConsole(samples[order[k]]) PROVE k = l
    <3>1. ASSUME NEW j \in 1 .. n, j \notin Heard
          PROVE  ~Ahead(samples, order, j, k) /\ Ahead(samples, order, k, j)
      <4>1. samples[order[j]].n = 0
        BY <1>3, <3>1
      <4> QED
        BY <1>1, <2>2, <4>1, ClearIsHeard, RankOrder DEF Ahead
    <3>2. IsFirst(samples, order, 1 .. n, k)
      BY <2>1, <3>1 DEF IsFirst
    <3> QED
      BY <1>2, <3>2, FirstIsUnique
  <2>3. ASSUME LooksLikeConsole(samples[top]) PROVE k = l
    <3>1. l \in Heard
      BY <1>1, <1>2, <1>3, <2>3, ClearIsHeard
    <3>2. IsFirst(samples, order, Heard, l)
      BY <1>2, <3>1 DEF IsFirst
    <3> QED
      BY <2>1, <3>2, FirstIsUnique
  <2>4. PickWinner(samples, order) =
          IF LooksLikeConsole(samples[order[k]]) THEN order[k] ELSE NoRate
    BY <1>1, <2>1 DEF PickWinner
  <2>5. PickWinner(samples, order) = IF LooksLikeConsole(samples[top]) THEN top ELSE NoRate
    <3> HIDE DEF top
    <3> QED
      BY <1>2, <2>2, <2>3, <2>4
  <2> QED
    BY <2>5
<1> QED
  BY <1>4, <1>5

-----------------------------------------------------------------------------
(* The whole ranking.  Precedes is the order of a stable sort: the better  *)
(* sample first, and of two as good the one that came first.               *)
Precedes(samples, order, i, j) ==
  Ahead(samples, order, i, j) \/ (~Ahead(samples, order, j, i) /\ i < j)

Preceding(samples, order, i) ==
  {j \in 1 .. Len(order) : Precedes(samples, order, j, i)}

(* It is a strict total order of the places.                               *)
LEMMA PlaceOrder ==
  ASSUME NEW samples, NEW order, Sampled(samples, order),
         NEW i \in 1 .. Len(order), NEW j \in 1 .. Len(order), NEW k \in 1 .. Len(order)
  PROVE  /\ ~Precedes(samples, order, i, i)
         /\ i # j => Precedes(samples, order, i, j) \/ Precedes(samples, order, j, i)
         /\ Precedes(samples, order, i, j) /\ Precedes(samples, order, j, k) =>
              Precedes(samples, order, i, k)
<1>1. \A x, y, z \in 1 .. Len(order) : Ahead(samples, order, x, y) =>
        /\ ~Ahead(samples, order, y, x)
        /\ Ahead(samples, order, x, z) \/ Ahead(samples, order, z, y)
  BY RankOrder DEF Ahead, Sampled
<1>2. i \in Int /\ j \in Int /\ k \in Int
  OBVIOUS
<1> QED
  BY <1>1, <1>2 DEF Precedes

(* Each place of the order has a place of its own in the ranking, and the  *)
(* one that precedes has the smaller.                                      *)
LEMMA PlacesRise ==
  ASSUME NEW samples, NEW order, Sampled(samples, order), NEW i \in 1 .. Len(order)
  PROVE  /\ 1 + Cardinality(Preceding(samples, order, i)) \in 1 .. Len(order)
         /\ \A j \in 1 .. Len(order) : Precedes(samples, order, i, j) =>
              Cardinality(Preceding(samples, order, i))
                < Cardinality(Preceding(samples, order, j))
<1> DEFINE n == Len(order)
           B(k) == Preceding(samples, order, k)
<1>1. n \in Nat /\ IsFiniteSet(1 .. n) /\ Cardinality(1 .. n) = n
  <2>1. n \in Nat
    BY DEF Sampled
  <2> HIDE DEF n
  <2> QED
    BY <2>1, FS_Interval
<1>2. \A k \in 1 .. n : B(k) \in SUBSET (1 .. n)
  BY DEF Preceding
<1>3. \A k \in 1 .. n : IsFiniteSet(B(k)) /\ Cardinality(B(k)) \in Nat
  <2> SUFFICES ASSUME NEW k \in 1 .. n PROVE IsFiniteSet(B(k)) /\ Cardinality(B(k)) \in Nat
    OBVIOUS
  <2>1. IsFiniteSet(B(k))
    BY <1>1, <1>2, FS_Subset
  <2> QED
    BY <2>1, FS_CardinalityType
<1>4. i \notin B(i)
  BY PlaceOrder DEF Preceding
<1>5. IsFiniteSet(B(i) \cup {i}) /\ Cardinality(B(i) \cup {i}) = Cardinality(B(i)) + 1
  BY <1>3, <1>4, FS_AddElement
<1>6. Cardinality(B(i)) + 1 <= n
  <2>1. B(i) \cup {i} \in SUBSET (1 .. n)
    BY <1>2
  <2> HIDE DEF B
  <2> QED
    BY <1>1, <1>5, <2>1, FS_Subset
<1>7. ASSUME NEW j \in 1 .. n, Precedes(samples, order, i, j)
      PROVE  Cardinality(B(i)) < Cardinality(B(j))
  <2>1. B(i) \cup {i} \in SUBSET B(j)
    BY <1>7, PlaceOrder DEF Preceding
  <2> HIDE DEF B
  <2>2. Cardinality(B(i) \cup {i}) <= Cardinality(B(j))
    BY <1>3, <2>1, FS_Subset
  <2> QED
    BY <1>3, <1>5, <2>2
<1> QED
  BY <1>1, <1>3, <1>6, <1>7

(* rank_candidates is a stable sort, best first: it loses no candidate and *)
(* repeats none, nothing in it is ahead of what it comes after, and equals *)
(* stay in the order they were sampled in.                                 *)
THEOREM RankingIsStableSort ==
  ASSUME NEW samples, NEW order, Sampled(samples, order)
  PROVE  \E at \in Bijection(1 .. Len(order), 1 .. Len(order)) :
           /\ RankCandidates(samples, order) = [p \in 1 .. Len(order) |-> order[at[p]]]
           /\ \A p, q \in 1 .. Len(order) :
                p < q => Precedes(samples, order, at[p], at[q])
<1> DEFINE n == Len(order)
           C(i) == Cardinality(Preceding(samples, order, i))
           place == [i \in 1 .. n |-> 1 + C(i)]
           at == [p \in 1 .. n |-> CHOOSE i \in 1 .. n : 1 + C(i) = p]
<1>1. n \in Nat /\ DOMAIN order = 1 .. n /\ IsFiniteSet(1 .. n)
  <2>1. n \in Nat /\ DOMAIN order = 1 .. n
    BY DEF Sampled
  <2> HIDE DEF n
  <2> QED
    BY <2>1, FS_Interval
<1>2. RankCandidates(samples, order) = [p \in 1 .. n |-> order[at[p]]]
  BY <1>1 DEF RankCandidates, Preceding, Precedes, Ahead
<1>3. /\ \A i \in 1 .. n : 1 + C(i) \in 1 .. n
      /\ \A i, j \in 1 .. n : Precedes(samples, order, i, j) => C(i) < C(j)
  BY PlacesRise
<1> HIDE DEF C
<1>4. \A i \in 1 .. n : C(i) \in Int
  <2>1. ASSUME NEW i \in 1 .. n PROVE C(i) \in Int
    <3>1. IsFiniteSet(Preceding(samples, order, i))
      BY <1>1, FS_Subset DEF Preceding
    <3> QED
      BY <3>1, FS_CardinalityType DEF C
  <2> QED
    BY <2>1
<1>5. \A i, j \in 1 .. n : C(i) = C(j) => i = j
  <2> SUFFICES ASSUME NEW i \in 1 .. n, NEW j \in 1 .. n, C(i) = C(j), i # j PROVE FALSE
    OBVIOUS
  <2>1. Precedes(samples, order, i, j) \/ Precedes(samples, order, j, i)
    BY PlaceOrder
  <2> QED
    BY <1>3, <1>4, <2>1
<1>6. place \in Surjection(1 .. n, 1 .. n)
  <2>1. place \in Injection(1 .. n, 1 .. n)
    <3>1. place \in [1 .. n -> 1 .. n]
      BY <1>3
    <3>2. \A i, j \in 1 .. n : place[i] = place[j] => i = j
      BY <1>4, <1>5
    <3> HIDE DEF place
    <3> QED
      BY <3>1, <3>2 DEF Injection, IsInjective
  <2> HIDE DEF place
  <2> QED
    BY <1>1, <2>1, FS_Injection
<1>7. \A p \in 1 .. n : at[p] \in 1 .. n /\ 1 + C(at[p]) = p
  <2>1. \A p \in 1 .. n : \E i \in 1 .. n : place[i] = p
    <3> HIDE DEF place
    <3> QED
      BY <1>6 DEF Surjection
  <2> QED
    BY <2>1
<1>8. at \in [1 .. n -> 1 .. n]
  <2> HIDE DEF n
  <2>1. DOMAIN at = 1 .. n /\ at = [p \in 1 .. n |-> at[p]]
    OBVIOUS
  <2> HIDE DEF at
  <2> QED
    BY <1>7, <2>1
<1> HIDE DEF at
<1>9. at \in Bijection(1 .. n, 1 .. n)
  <2>1. \A p, q \in 1 .. n : at[p] = at[q] => p = q
    BY <1>7
  <2>2. \A i \in 1 .. n : \E p \in 1 .. n : at[p] = i
    <3> TAKE i \in 1 .. n
    <3>1. 1 + C(i) \in 1 .. n
      BY <1>3
    <3>2. C(at[1 + C(i)]) = C(i) /\ at[1 + C(i)] \in 1 .. n
      <4>1. 1 + C(at[1 + C(i)]) = 1 + C(i) /\ at[1 + C(i)] \in 1 .. n
        BY <1>7, <3>1
      <4> QED
        BY <1>4, <4>1
    <3> QED
      BY <1>5, <3>1, <3>2
  <2> QED
    BY <1>8, <2>1, <2>2 DEF Bijection, Injection, Surjection, IsInjective
<1>10. ASSUME NEW p \in 1 .. n, NEW q \in 1 .. n, p < q
       PROVE  Precedes(samples, order, at[p], at[q])
  <2>1. /\ at[p] \in 1 .. n /\ at[q] \in 1 .. n /\ C(at[p]) < C(at[q])
        /\ C(at[p]) \in Int /\ C(at[q]) \in Int
    BY <1>4, <1>7, <1>10
  <2>2. at[p] # at[q]
    BY <2>1
  <2>3. ~Precedes(samples, order, at[q], at[p])
    <3> SUFFICES ASSUME Precedes(samples, order, at[q], at[p]) PROVE FALSE
      OBVIOUS
    <3>1. C(at[q]) < C(at[p])
      BY <1>3, <2>1
    <3> QED
      BY <2>1, <3>1
  <2> QED
    BY <2>1, <2>2, <2>3, PlaceOrder
<1> QED
  BY <1>2, <1>9, <1>10
=============================================================================
