---------------------------- MODULE RoutingProofs ----------------------------
(***************************************************************************)
(* Theorems about module Routing: the order of match_compare, and what     *)
(* threads that sort and search the same list of rules can rely on; and     *)
(* that Rule.build undoes Rule.match.                                      *)
(*                                                                         *)
(* A list is an arrangement of the rules registered.  It is kept when those *)
(* match_compare cannot tell apart are still in the order of registration, *)
(* and ordered when every rule precedes those behind it.  The list of the  *)
(* map is kept all along, or the one saved by the thread that sorts is, so *)
(* a stable sort makes it ordered; and it is ordered whenever nobody sorts *)
(* and the mark is gone that it has to be sorted.  A thread none has sorted *)
(* under scans that list from its beginning.                               *)
(*                                                                         *)
(* The message built from the values of a match differs from the matched   *)
(* one only in how its numbers are written, so it has the same cuts; the   *)
(* search finds the same one, whose parts give the same values.            *)
(***************************************************************************)
EXTENDS Routing, FiniteSetTheorems, SequenceTheorems, TLAPS

-----------------------------------------------------------------------------
(* The inductive invariant.                                                *)

\* pos: where each rule of the list is among those registered.
Arranged(list, reg, pos) ==
  /\ pos \in Bijection(DOMAIN reg, DOMAIN reg)
  /\ DOMAIN list = DOMAIN reg
  /\ \A n \in DOMAIN reg : list[n] = reg[pos[n]]

Tied(a, b) == ~Before(a, b) /\ ~Before(b, a)

Kept(list, reg) ==
  \E pos : /\ Arranged(list, reg, pos)
          /\ \A n, k \in DOMAIN reg :
               n < k /\ Tied(reg[pos[n]], reg[pos[k]]) => pos[n] < pos[k]

Ordered(list, reg) ==
  \E pos : /\ Arranged(list, reg, pos)
          /\ \A n, k \in DOMAIN reg : n < k => PrecedesIn(reg, pos[n], pos[k])

\* One thread sorts at a time: the others find a list too short to be sorted.
SortInv ==
  /\ \A t \in Threads :
       pc[t] = "sorting" => Sorting = {t} /\ rules = <<>> /\ Kept(saved[t], registered)
  /\ Sorting = {} => Kept(rules, registered)
  /\ Sorting = {} /\ (~remap \/ \E t \in Threads : pc[t] = "sorted") =>
       Ordered(rules, registered)
  /\ \A t \in Threads : pc[t] \in {"scan", "done"} => ~remap

\* A thread that is not disturbed has the list for itself, and has passed the
\* rules that do not match.  (The loop begins at the first one.)
ScanOf(t) ==
  /\ t \notin disturbed /\ pc[t] # "idle" => Sorting \subseteq {t}
  /\ pc[t] \in {"sort", "sorting", "sorted"} => at[t] = 1
  /\ pc[t] = "scan" => at[t] # 0
  /\ t \notin disturbed /\ pc[t] = "scan" =>
       \A n \in DOMAIN rules : n < at[t] => MatchOf[rules[n]][req[t]] = NoMatch
  /\ pc[t] # "done" => result[t] = Nothing
  /\ pc[t] # "idle" => req[t] \in Requests

ScanInv == \A t \in Threads : ScanOf(t)

RoutingInv == TypeOK /\ SortInv /\ ScanInv /\ BestRuleWins

-----------------------------------------------------------------------------
(* Orders on finite sets.                                                  *)

\* The elements of a finite set can be numbered in the order of a relation that
\* orders them: each gets the number of those that do not come after it.
LEMMA OrderNumbers ==
  ASSUME NEW I, IsFiniteSet(I), NEW R,
         \A i \in I : <<i, i>> \notin R,
         \A i, j, k \in I : <<i, j>> \in R /\ <<j, k>> \in R => <<i, k>> \in R,
         \A i, k \in I : i = k \/ <<i, k>> \in R \/ <<k, i>> \in R
  PROVE  \E f \in Bijection(1 .. Cardinality(I), I) :
           \A n, k \in 1 .. Cardinality(I) : n < k => <<f[n], f[k]>> \in R
<1> DEFINE upto(i) == {k \in I : k = i \/ <<k, i>> \in R}
<1>1. PICK m \in Nat : m = Cardinality(I)
  BY FS_CardinalityType
<1>2. PICK rank : rank = [i \in I |-> Cardinality(upto(i))]
  OBVIOUS
<1>3. \A i \in I : rank[i] \in 1 .. m /\ IsFiniteSet(upto(i))
  <2> SUFFICES ASSUME NEW i \in I PROVE rank[i] \in 1 .. m /\ IsFiniteSet(upto(i))
    OBVIOUS
  <2>1. PICK b : b = upto(i)
    OBVIOUS
  <2>2. b \in SUBSET I /\ i \in b
    BY <2>1
  <2>3. IsFiniteSet(b) /\ Cardinality(b) <= m
    BY <1>1, <2>2, FS_Subset
  <2>4. Cardinality(b) \in Nat /\ Cardinality(b) # 0
    BY <2>2, <2>3, FS_CardinalityType, FS_EmptySet
  <2>5. rank[i] = Cardinality(b)
    BY <1>2, <2>1
  <2> QED
    BY <2>1, <2>3, <2>4, <2>5
<1>4. ASSUME NEW i \in I, NEW k \in I, <<i, k>> \in R PROVE rank[i] < rank[k]
  <2>1. PICK b, c : b = upto(i) /\ c = upto(k)
    OBVIOUS
  <2>2. b \in SUBSET c /\ b # c /\ IsFiniteSet(c)
    <3>1. k \in c /\ k \notin b
      BY <1>4, <2>1
    <3>2. \A l \in b : l \in c
      BY <1>4, <2>1
    <3>3. IsFiniteSet(c)
      BY <1>3, <2>1
    <3> QED
      BY <3>1, <3>2, <3>3
  <2>3. Cardinality(b) <= Cardinality(c) /\ Cardinality(b) # Cardinality(c)
    BY <2>2, FS_Subset
  <2>4. rank[i] = Cardinality(b) /\ rank[k] = Cardinality(c)
    BY <1>2, <2>1
  <2> HIDE DEF upto
  <2>5. rank[i] \in Nat /\ rank[k] \in Nat
    BY <1>3
  <2> QED
    BY <2>3, <2>4, <2>5
<1> HIDE DEF upto
<1>5. rank \in Bijection(I, 1 .. m)
  <2>1. rank \in [I -> 1 .. m]
    BY <1>2, <1>3
  <2>2. ASSUME NEW i \in I, NEW k \in I, rank[i] = rank[k] PROVE i = k
    <3>1. rank[i] \in Nat
      BY <1>3
    <3>2. ~(rank[i] < rank[k]) /\ ~(rank[k] < rank[i])
      BY ONLY <2>2, <3>1
    <3> QED
      BY <1>4, <3>2
  <2>3. rank \in Injection(I, 1 .. m)
    BY <2>1, <2>2 DEF Injection, IsInjective
  <2>4. IsFiniteSet(1 .. m) /\ Cardinality(1 .. m) = m
    BY <1>1, FS_Interval
  <2>5. rank \in Surjection(I, 1 .. m)
    BY <1>1, <2>3, <2>4, FS_Injection
  <2> QED
    BY <2>3, <2>5 DEF Bijection
<1>6. /\ \A n \in 1 .. m : \E i \in I : rank[i] = n
      /\ \A i, k \in I : rank[i] = rank[k] => i = k
  BY <1>5 DEF Bijection, Surjection, Injection, IsInjective
<1>7. PICK f : f = [n \in 1 .. m |-> CHOOSE i \in I : rank[i] = n]
  OBVIOUS
<1>8. \A n \in 1 .. m : f[n] \in I /\ rank[f[n]] = n
  BY <1>6, <1>7
<1>9. f \in Bijection(1 .. m, I)
  <2>1. f \in Injection(1 .. m, I)
    BY <1>7, <1>8 DEF Injection, IsInjective
  <2>2. \A i \in I : rank[i] \in 1 .. m /\ f[rank[i]] = i
    BY <1>3, <1>6, <1>8
  <2>3. f \in Surjection(1 .. m, I)
    BY <1>7, <1>8, <2>2 DEF Surjection
  <2> QED
    BY <2>1, <2>3 DEF Bijection
<1>10. ASSUME NEW n \in 1 .. m, NEW k \in 1 .. m, n < k PROVE <<f[n], f[k]>> \in R
  <2>1. f[n] # f[k] /\ ~(rank[f[k]] < rank[f[n]])
    BY <1>8, <1>10
  <2>2. f[n] \in I /\ f[k] \in I
    BY <1>8
  <2> QED
    BY <1>4, <2>1, <2>2
<1> QED
  BY <1>1, <1>9, <1>10

\* A set of naturals that has an element below some bound has a least one.
LEMMA Least ==
  ASSUME NEW m \in Nat, NEW I, I \subseteq 1 .. m, I # {}
  PROVE  \E i \in I : \A k \in I : i <= k
<1>1. IsFiniteSet(I) /\ \A i \in I : i \in Nat
  <2>1. IsFiniteSet(1 .. m)
    BY FS_Interval
  <2>2. IsFiniteSet(I)
    BY <2>1, FS_Subset
  <2> QED
    BY <2>2
<1>2. PICK n \in Nat : n = Cardinality(I) /\ n # 0
  BY <1>1, FS_CardinalityType, FS_EmptySet
<1>3. PICK R : R = {p \in I \X I : p[1] < p[2]}
  OBVIOUS
<1>4. \A i, k \in I : <<i, k>> \in R <=> i < k
  BY <1>3
<1>5. PICK f \in Bijection(1 .. n, I) : \A d, e \in 1 .. n : d < e => <<f[d], f[e]>> \in R
  <2>1. \A i \in I : <<i, i>> \notin R
    BY <1>1, <1>4
  <2>2. \A i, j, k \in I : <<i, j>> \in R /\ <<j, k>> \in R => <<i, k>> \in R
    BY <1>1, <1>4
  <2>3. ASSUME NEW i \in I, NEW k \in I PROVE i = k \/ <<i, k>> \in R \/ <<k, i>> \in R
    <3>1. i \in Nat /\ k \in Nat
      BY <1>1
    <3>2. i = k \/ i < k \/ k < i
      BY ONLY <3>1
    <3> QED
      BY <1>4, <3>2
  <2> QED
    BY ONLY <1>1, <1>2, <2>1, <2>2, <2>3, OrderNumbers
<1>6. /\ \A d \in 1 .. n : f[d] \in I
      /\ \A i \in I : \E d \in 1 .. n : f[d] = i
  BY <1>5 DEF Bijection, Injection, Surjection
<1>7. 1 \in 1 .. n /\ f[1] \in I
  BY <1>2, <1>6
<1>8. ASSUME NEW k \in I PROVE f[1] <= k
  <2>1. PICK d \in 1 .. n : f[d] = k
    BY <1>6
  <2>2. CASE d = 1
    BY <1>1, <1>7, <2>1, <2>2
  <2>3. CASE d # 1
    <3>1. 1 < d
      BY <2>3
    <3>2. <<f[1], f[d]>> \in R
      BY <1>5, <1>7, <3>1
    <3>3. f[1] < k
      BY <1>4, <1>7, <2>1, <3>2
    <3>4. f[1] \in Nat /\ k \in Nat
      BY <1>1, <1>7
    <3> QED
      BY ONLY <3>3, <3>4
  <2> QED
    BY <2>2, <2>3
<1> QED
  BY <1>7, <1>8

-----------------------------------------------------------------------------
(* The order of match_compare.                                             *)

\* Lists of weights in the order of match_compare: nothing comes before itself,
\* and what comes before something that comes before a third comes before that.
LEMMA HeavierFirstOrders ==
  ASSUME NEW u \in Seq(Nat), NEW v \in Seq(Nat), NEW w \in Seq(Nat),
         HeavierFirst(u, v)
  PROVE  /\ ~HeavierFirst(v, u) /\ u # v
         /\ HeavierFirst(v, w) => HeavierFirst(u, w)
<1> DEFINE Same(x, y, n) == \A k \in 1 .. n : x[k] = y[k]
           Heavier(x, y, i) ==
             i \in 1 .. Len(x) /\ i \in 1 .. Len(y) /\ x[i] > y[i] /\ Same(x, y, i - 1)
           Longer(x, y) == Len(x) > Len(y) /\ Same(x, y, Len(y))
<1>1. \A x, y \in Seq(Nat) :
        HeavierFirst(x, y) <=> (\E i \in Nat : Heavier(x, y, i)) \/ Longer(x, y)
  <2> SUFFICES ASSUME NEW x \in Seq(Nat), NEW y \in Seq(Nat)
               PROVE  HeavierFirst(x, y) <=>
                        (\E i \in Nat : Heavier(x, y, i)) \/ Longer(x, y)
    OBVIOUS
  <2>1. /\ DOMAIN x = 1 .. Len(x) /\ DOMAIN y = 1 .. Len(y)
        /\ Len(x) \in Nat /\ Len(y) \in Nat
    OBVIOUS
  <2>2. (\E i \in Nat : Heavier(x, y, i)) <=>
          \E i \in DOMAIN x \cap DOMAIN y : x[i] > y[i] /\ Same(x, y, i - 1)
    <3>1. \A i \in DOMAIN x \cap DOMAIN y :
            i \in Nat /\ i \in 1 .. Len(x) /\ i \in 1 .. Len(y)
      BY ONLY <2>1
    <3> QED
      BY ONLY <2>1, <3>1
  <2> QED
    BY <2>1, <2>2 DEF HeavierFirst
<1>2. /\ Len(u) \in Nat /\ Len(v) \in Nat /\ Len(w) \in Nat
      /\ \A k \in 1 .. Len(u) : u[k] \in Nat
      /\ \A k \in 1 .. Len(v) : v[k] \in Nat
      /\ \A k \in 1 .. Len(w) : w[k] \in Nat
  OBVIOUS
<1>3. ASSUME NEW i \in Nat, Heavier(u, v, i), NEW k \in Nat, Heavier(v, w, k)
      PROVE  \E n \in Nat : Heavier(u, w, n)
  <2>1. CASE i <= k
    <3>1. Heavier(u, w, i)
      <4>1. i \in 1 .. Len(w) /\ i \in 1 .. Len(v) /\ v[i] >= w[i]
        <5>1. CASE i = k
          BY <1>2, <1>3, <5>1
        <5>2. CASE i < k
          <6>1. i \in 1 .. k - 1
            BY <1>3, <5>2
          <6>2. v[i] = w[i]
            BY <1>3, <6>1
          <6>3. k \in 1 .. Len(v) /\ k \in 1 .. Len(w) /\ i \in 1 .. Len(u) /\ w[i] \in Nat
            BY <1>2, <1>3, <6>1
          <6> QED
            BY ONLY <1>2, <5>2, <6>2, <6>3
        <5> QED
          BY <2>1, <5>1, <5>2
      <4>2. Same(u, w, i - 1)
        BY <1>2, <1>3, <2>1
      <4>3. i \in 1 .. Len(u) /\ u[i] > v[i]
        BY <1>3
      <4>4. u[i] \in Nat /\ v[i] \in Nat /\ w[i] \in Nat
        BY <1>2, <4>1, <4>3
      <4>5. u[i] > w[i]
        BY ONLY <4>1, <4>3, <4>4
      <4> QED
        BY ONLY <4>1, <4>2, <4>3, <4>5
    <3> QED
      BY <3>1
  <2>2. CASE i > k
    <3>1. k \in 1 .. i - 1
      BY <1>3, <2>2
    <3>2. k \in 1 .. Len(u) /\ k \in 1 .. Len(w) /\ v[k] > w[k]
      BY <1>2, <1>3, <2>2
    <3>3. u[k] = v[k]
      BY <1>3, <3>1
    <3>4. Same(u, w, k - 1)
      BY <1>2, <1>3, <2>2
    <3>5. Heavier(u, w, k)
      BY ONLY <3>2, <3>3, <3>4
    <3> QED
      BY <3>5
  <2> QED
    BY <2>1, <2>2
<1>4. ASSUME NEW i \in Nat, Heavier(u, v, i), Longer(v, w)
      PROVE  (\E n \in Nat : Heavier(u, w, n)) \/ Longer(u, w)
  <2>1. CASE i <= Len(w)
    <3>1. Heavier(u, w, i)
      BY <1>2, <1>4, <2>1
    <3> QED
      BY <3>1
  <2>2. CASE i > Len(w)
    <3>1. Longer(u, w)
      BY <1>2, <1>4, <2>2
    <3> QED
      BY <3>1
  <2> QED
    BY <2>1, <2>2, <1>2
<1>5. ASSUME Longer(u, v), NEW k \in Nat, Heavier(v, w, k)
      PROVE  Heavier(u, w, k)
  BY <1>2, <1>5
<1>6. ASSUME Longer(u, v), Longer(v, w)
      PROVE  Longer(u, w)
  BY <1>2, <1>6
<1>7. HeavierFirst(v, w) => HeavierFirst(u, w)
  BY <1>1, <1>3, <1>4, <1>5, <1>6
<1>8. u # v
  <2>1. ASSUME NEW i \in Nat, Heavier(u, v, i) PROVE u # v
    BY <1>2, <2>1
  <2>2. ASSUME Longer(u, v) PROVE u # v
    BY <1>2, <2>2
  <2> QED
    BY <1>1, <2>1, <2>2
<1>9. ~HeavierFirst(v, u)
  <2>1. ASSUME NEW i \in Nat, Heavier(u, v, i), NEW k \in Nat, Heavier(v, u, k)
        PROVE  FALSE
    <3>1. CASE i < k
      BY <1>2, <2>1, <3>1
    <3>2. CASE i = k
      BY <1>2, <2>1, <3>2
    <3>3. CASE i > k
      BY <1>2, <2>1, <3>3
    <3> QED
      BY <3>1, <3>2, <3>3
  <2>2. ASSUME NEW i \in Nat, Heavier(u, v, i), Longer(v, u)
        PROVE  FALSE
    BY <1>2, <2>2
  <2>3. ASSUME Longer(u, v), NEW k \in Nat, Heavier(v, u, k)
        PROVE  FALSE
    BY <1>2, <2>3
  <2>4. ASSUME Longer(u, v), Longer(v, u)
        PROVE  FALSE
    BY <1>2, <2>4
  <2> QED
    BY <1>1, <2>1, <2>2, <2>3, <2>4
<1> QED
  BY <1>7, <1>8, <1>9

\* The same of ranks, which have the same length.
LEMMA LowerFirstOrders ==
  ASSUME NEW u \in Seq(Int), NEW v \in Seq(Int), NEW w \in Seq(Int),
         Len(u) = Len(v), Len(v) = Len(w), LowerFirst(u, v)
  PROVE  /\ ~LowerFirst(v, u)
         /\ LowerFirst(v, w) => LowerFirst(u, w)
<1> DEFINE Lower(x, y, i) ==
             i \in 1 .. Len(u) /\ x[i] < y[i] /\ \A k \in 1 .. i - 1 : x[k] = y[k]
<1>1. \A x, y \in {u, v, w} : LowerFirst(x, y) <=> \E i \in Nat : Lower(x, y, i)
  <2> SUFFICES ASSUME NEW x \in {u, v, w}, NEW y \in {u, v, w}
               PROVE  LowerFirst(x, y) <=> \E i \in Nat : Lower(x, y, i)
    OBVIOUS
  <2>0. /\ DOMAIN u = 1 .. Len(u) /\ DOMAIN v = 1 .. Len(v) /\ DOMAIN w = 1 .. Len(w)
        /\ Len(u) \in Nat
    OBVIOUS
  <2>1. DOMAIN x = 1 .. Len(u) /\ Len(u) \in Nat
    BY <2>0
  <2>2. \A i \in 1 .. Len(u) : i \in Nat
    BY ONLY <2>1
  <2> QED
    BY ONLY <2>1, <2>2 DEF LowerFirst
<1>2. /\ Len(u) \in Nat
      /\ \A k \in 1 .. Len(u) : u[k] \in Int /\ v[k] \in Int /\ w[k] \in Int
  OBVIOUS
<1>3. PICK i \in Nat : Lower(u, v, i)
  BY <1>1
<1>4. ASSUME NEW k \in Nat, Lower(v, w, k)
      PROVE  \E n \in Nat : Lower(u, w, n)
  <2>1. CASE i <= k
    <3>1. /\ i \in 1 .. Len(u) /\ u[i] < v[i]
          /\ u[i] \in Int /\ v[i] \in Int /\ w[i] \in Int
      BY <1>2, <1>3
    <3>2. v[i] <= w[i]
      <4>1. CASE i = k
        BY <1>4, <3>1, <4>1
      <4>2. CASE i < k
        BY <1>4, <3>1, <4>2
      <4> QED
        BY <2>1, <4>1, <4>2
    <3>3. \A n \in 1 .. i - 1 : u[n] = w[n]
      BY <1>2, <1>3, <1>4, <2>1
    <3>4. Lower(u, w, i)
      BY ONLY <3>1, <3>2, <3>3
    <3> QED
      BY <3>4
  <2>2. CASE i > k
    <3>1. k \in 1 .. i - 1 /\ k \in 1 .. Len(u)
      BY <1>3, <1>4, <2>2
    <3>2. u[k] = v[k] /\ v[k] < w[k]
      BY <1>3, <1>4, <3>1
    <3>3. \A n \in 1 .. k - 1 : u[n] = w[n]
      BY <1>2, <1>3, <1>4, <2>2
    <3>4. Lower(u, w, k)
      BY ONLY <3>1, <3>2, <3>3
    <3> QED
      BY <3>4
  <2> QED
    BY <2>1, <2>2
<1>5. ASSUME NEW k \in Nat, Lower(v, u, k)
      PROVE  FALSE
  <2>1. CASE i < k
    BY <1>2, <1>3, <1>5, <2>1
  <2>2. CASE i = k
    BY <1>2, <1>3, <1>5, <2>2
  <2>3. CASE i > k
    BY <1>2, <1>3, <1>5, <2>3
  <2> QED
    BY <2>1, <2>2, <2>3
<1> QED
  BY <1>1, <1>4, <1>5

\* match_compare is an order, although it answers 1 both ways for rules it cannot
\* tell apart: no two rules are each before the other, and what is before a rule
\* is before all that comes after it, so no set of rules can make list.sort go
\* round in circles.
THEOREM MatchOrder ==
  \A a, b, c \in Rules :
    /\ Before(a, b) => ~Before(b, a)
    /\ Before(a, b) /\ Before(b, c) => Before(a, c)
<1> SUFFICES ASSUME NEW a \in Rules, NEW b \in Rules, NEW c \in Rules, Before(a, b)
             PROVE  ~Before(b, a) /\ (Before(b, c) => Before(a, c))
  OBVIOUS
<1>1. \A r \in {a, b, c} :
        Weights(r) \in Seq(Nat) /\ Rank(r) \in Seq(Int) /\ Len(Rank(r)) = 4
  BY RanksAreNumbers DEF Rank
<1>2. CASE HeavierFirst(Weights(a), Weights(b))
  BY <1>1, <1>2, HeavierFirstOrders DEF Before
<1>3. CASE Weights(a) = Weights(b) /\ LowerFirst(Rank(a), Rank(b))
  <2>1. ~HeavierFirst(Weights(a), Weights(a))
    BY <1>1, HeavierFirstOrders
  <2>2. ~LowerFirst(Rank(b), Rank(a))
    BY <1>1, <1>3, LowerFirstOrders
  <2>3. LowerFirst(Rank(b), Rank(c)) => LowerFirst(Rank(a), Rank(c))
    BY <1>1, <1>3, LowerFirstOrders
  <2> QED
    BY <1>3, <2>1, <2>2, <2>3 DEF Before
<1> QED
  BY <1>2, <1>3 DEF Before

\* Lists that do not come before each other are the same.
LEMMA HeavierTies ==
  ASSUME NEW u \in Seq(Nat), NEW v \in Seq(Nat),
         ~HeavierFirst(u, v), ~HeavierFirst(v, u)
  PROVE  u = v
<1>1. /\ DOMAIN u = 1 .. Len(u) /\ DOMAIN v = 1 .. Len(v)
      /\ Len(u) \in Nat /\ Len(v) \in Nat
      /\ \A i \in 1 .. Len(u) : u[i] \in Nat
      /\ \A i \in 1 .. Len(v) : v[i] \in Nat
  OBVIOUS
<1>2. ASSUME NEW n \in DOMAIN u \cap DOMAIN v, u[n] # v[n] PROVE FALSE
  <2>1. PICK I : I = {i \in DOMAIN u \cap DOMAIN v : u[i] # v[i]}
    OBVIOUS
  <2>2. I \subseteq 1 .. Len(u) /\ I # {}
    BY <1>1, <1>2, <2>1
  <2>3. PICK i \in I : \A k \in I : i <= k
    BY ONLY <1>1, <2>2, Least
  <2>4. i \in DOMAIN u \cap DOMAIN v /\ u[i] # v[i] /\ i \in Nat
    BY <1>1, <2>1
  <2>5. ASSUME NEW k \in 1 .. i - 1 PROVE u[k] = v[k]
    <3>1. k \in 1 .. Len(u) /\ k \in 1 .. Len(v) /\ ~(i <= k)
      BY <1>1, <2>4
    <3> QED
      BY <1>1, <2>1, <2>3, <3>1
  <2>6. u[i] > v[i] \/ v[i] > u[i]
    BY <1>1, <2>4
  <2> QED
    BY <2>4, <2>5, <2>6 DEF HeavierFirst
<1>3. ~(Len(u) > Len(v))
  <2> SUFFICES ASSUME Len(u) > Len(v) PROVE FALSE
    OBVIOUS
  <2>1. DOMAIN v \subseteq DOMAIN u
    BY <1>1
  <2> QED
    BY <1>2, <2>1 DEF HeavierFirst
<1>4. ~(Len(v) > Len(u))
  <2> SUFFICES ASSUME Len(v) > Len(u) PROVE FALSE
    OBVIOUS
  <2>1. DOMAIN u \subseteq DOMAIN v
    BY <1>1
  <2> QED
    BY <1>2, <2>1 DEF HeavierFirst
<1>5. Len(u) = Len(v) /\ DOMAIN u = DOMAIN v
  BY <1>3, <1>4
<1>6. \A n \in DOMAIN u : u[n] = v[n]
  BY <1>2, <1>5
<1> QED
  BY ONLY <1>5, <1>6, u \in Seq(Nat), v \in Seq(Nat)

LEMMA LowerTies ==
  ASSUME NEW u \in Seq(Int), NEW v \in Seq(Int), Len(u) = Len(v),
         ~LowerFirst(u, v), ~LowerFirst(v, u)
  PROVE  u = v
<1>1. /\ DOMAIN u = 1 .. Len(u) /\ DOMAIN v = 1 .. Len(u) /\ Len(u) \in Nat
      /\ \A i \in 1 .. Len(u) : u[i] \in Int /\ v[i] \in Int
  OBVIOUS
<1>2. ASSUME NEW n \in DOMAIN u, u[n] # v[n] PROVE FALSE
  <2>1. PICK I : I = {i \in DOMAIN u : u[i] # v[i]}
    OBVIOUS
  <2>2. I \subseteq 1 .. Len(u) /\ I # {}
    BY <1>1, <1>2, <2>1
  <2>3. PICK i \in I : \A k \in I : i <= k
    BY ONLY <1>1, <2>2, Least
  <2>4. i \in DOMAIN u /\ i \in DOMAIN v /\ u[i] # v[i] /\ i \in Nat
    BY <1>1, <2>1
  <2>5. ASSUME NEW k \in 1 .. i - 1 PROVE u[k] = v[k]
    <3>1. k \in 1 .. Len(u) /\ ~(i <= k)
      BY <1>1, <2>4
    <3> QED
      BY <1>1, <2>1, <2>3, <3>1
  <2>6. u[i] < v[i] \/ v[i] < u[i]
    BY <1>1, <2>4
  <2> QED
    BY <2>4, <2>5, <2>6 DEF LowerFirst
<1> QED
  BY <1>1, <1>2

\* Rules that match_compare cannot tell apart are compared alike with all others.
LEMMA TiedAreEqual ==
  ASSUME NEW a \in Rules, NEW b \in Rules, Tied(a, b)
  PROVE  Weights(a) = Weights(b) /\ Rank(a) = Rank(b)
<1>1. \A r \in {a, b} :
        Weights(r) \in Seq(Nat) /\ Rank(r) \in Seq(Int) /\ Len(Rank(r)) = 4
  BY RanksAreNumbers DEF Rank
<1>2. Weights(a) = Weights(b)
  BY <1>1, HeavierTies DEF Tied, Before
<1> QED
  BY <1>1, <1>2, LowerTies DEF Tied, Before

LEMMA NeverBeforeItself ==
  ASSUME NEW a \in Rules
  PROVE  ~Before(a, a)
BY MatchOrder

\* The places of a list are ordered by the comparisons a stable sort makes.
LEMMA PlacesAreOrdered ==
  ASSUME NEW list \in Seq(Rules),
         NEW i \in DOMAIN list, NEW j \in DOMAIN list, NEW k \in DOMAIN list
  PROVE  /\ ~PrecedesIn(list, i, i)
         /\ PrecedesIn(list, i, j) /\ PrecedesIn(list, j, k) => PrecedesIn(list, i, k)
         /\ i = k \/ PrecedesIn(list, i, k) \/ PrecedesIn(list, k, i)
<1>1. PICK a \in Rules, b \in Rules, c \in Rules : a = list[i] /\ b = list[j] /\ c = list[k]
  OBVIOUS
<1>2. i \in Nat /\ j \in Nat /\ k \in Nat
  OBVIOUS
<1>3. ~PrecedesIn(list, i, i)
  BY <1>1, <1>2, NeverBeforeItself DEF PrecedesIn
<1>4. ASSUME PrecedesIn(list, i, j), PrecedesIn(list, j, k) PROVE PrecedesIn(list, i, k)
  <2>1. /\ Before(a, b) \/ (Tied(a, b) /\ i < j)
        /\ Before(b, c) \/ (Tied(b, c) /\ j < k)
    BY <1>1, <1>4 DEF PrecedesIn, Tied
  <2>2. CASE Before(a, b) /\ Before(b, c)
    BY <1>1, <2>2, MatchOrder DEF PrecedesIn
  <2>3. CASE Tied(a, b)
    <3>1. (Before(a, c) <=> Before(b, c)) /\ (Before(c, a) <=> Before(c, b))
      BY <2>3, TiedAreEqual DEF Before
    <3>2. Tied(b, c) => i < k
      BY <1>2, <2>1, <2>3 DEF Tied
    <3>3. Before(a, c) \/ (~Before(c, a) /\ i < k)
      BY <2>1, <3>1, <3>2 DEF Tied
    <3> QED
      BY <1>1, <3>3 DEF PrecedesIn
  <2>4. CASE Before(a, b) /\ Tied(b, c)
    <3>1. Before(a, c) <=> Before(a, b)
      BY <2>4, TiedAreEqual DEF Before
    <3> QED
      BY <1>1, <2>4, <3>1 DEF PrecedesIn
  <2> QED
    BY <2>1, <2>2, <2>3, <2>4
<1>5. i = k \/ PrecedesIn(list, i, k) \/ PrecedesIn(list, k, i)
  <2>1. i = k \/ i < k \/ k < i
    BY <1>2
  <2> QED
    BY <2>1 DEF PrecedesIn
<1> QED
  BY <1>3, <1>4, <1>5

\* What list.sort returns, of a list of any length.
LEMMA SortedIs ==
  ASSUME NEW list \in Seq(Rules)
  PROVE  /\ Sorted(list) \in Seq(Rules)
         /\ \E from \in Bijection(DOMAIN list, DOMAIN list) :
              /\ Sorted(list) = [n \in DOMAIN list |-> list[from[n]]]
              /\ \A n, k \in DOMAIN list : n < k => PrecedesIn(list, from[n], from[k])
<1>1. PICK m \in Nat : DOMAIN list = 1 .. m
  OBVIOUS
<1> DEFINE I == 1 .. m
<1>2. IsFiniteSet(I) /\ Cardinality(I) = m
  BY <1>1, FS_Interval
<1>3. PICK R : R = {p \in I \X I : PrecedesIn(list, p[1], p[2])}
  OBVIOUS
<1>4. \A i, k \in I : <<i, k>> \in R <=> PrecedesIn(list, i, k)
  BY <1>3
<1>5. PICK f \in Bijection(1 .. m, I) : \A n, k \in 1 .. m : n < k => <<f[n], f[k]>> \in R
  <2>1. \A i \in I : <<i, i>> \notin R
    BY <1>1, <1>4, PlacesAreOrdered
  <2>2. \A i, j, k \in I : <<i, j>> \in R /\ <<j, k>> \in R => <<i, k>> \in R
    BY <1>1, <1>4, PlacesAreOrdered
  <2>3. \A i, k \in I : i = k \/ <<i, k>> \in R \/ <<k, i>> \in R
    BY <1>1, <1>4, PlacesAreOrdered
  <2> QED
    BY ONLY <1>2, <2>1, <2>2, <2>3, OrderNumbers
<1>6. \A n \in I : f[n] \in I
  BY <1>1, <1>5 DEF Bijection, Injection
<1>7. \E from \in Bijection(DOMAIN list, DOMAIN list) :
        \A n, k \in DOMAIN list : n < k => PrecedesIn(list, from[n], from[k])
  BY <1>1, <1>4, <1>5, <1>6
<1>8. PICK from \in Bijection(DOMAIN list, DOMAIN list) :
        /\ Sorted(list) = [n \in DOMAIN list |-> list[from[n]]]
        /\ \A n, k \in DOMAIN list : n < k => PrecedesIn(list, from[n], from[k])
  BY <1>7 DEF Sorted
<1>9. \A n \in 1 .. m : list[from[n]] \in Rules
  <2>1. \A n \in 1 .. m : from[n] \in 1 .. m
    BY <1>1, <1>8 DEF Bijection, Injection
  <2>2. \A n \in 1 .. m : list[n] \in Rules
    BY ONLY <1>1, list \in Seq(Rules)
  <2> QED
    BY ONLY <2>1, <2>2
<1>10. Sorted(list) \in Seq(Rules)
  <2>1. PICK s : s = Sorted(list)
    OBVIOUS
  <2>2. s = [n \in 1 .. m |-> list[from[n]]]
    BY ONLY <1>1, <1>8, <2>1
  <2>3. s \in Seq(Rules)
    BY ONLY <1>9, <2>2, m \in Nat
  <2> QED
    BY <2>1, <2>3
<1> QED
  BY <1>8, <1>10

-----------------------------------------------------------------------------
(* Lists of rules.                                                         *)

LEMMA ArrangedIs ==
  ASSUME NEW list, NEW reg, NEW pos, Arranged(list, reg, pos)
  PROVE  /\ \A n \in DOMAIN reg : pos[n] \in DOMAIN reg
         /\ \A n, k \in DOMAIN reg : pos[n] = pos[k] => n = k
         /\ \A i \in DOMAIN reg : \E n \in DOMAIN reg : pos[n] = i
         /\ \A n \in DOMAIN reg : list[n] = reg[pos[n]]
BY DEF Arranged, Bijection, Injection, Surjection, IsInjective

LEMMA EmptyIsKept == Kept(<<>>, <<>>)
<1>1. Arranged(<<>>, <<>>, <<>>)
  BY DEF Arranged, Bijection, Injection, Surjection, IsInjective
<1> QED
  BY <1>1 DEF Kept

\* Map.add puts a rule behind those it is tied with.
LEMMA AppendKeeps ==
  ASSUME NEW list \in Seq(Rules), NEW reg \in Seq(Rules), NEW r \in Rules, Kept(list, reg)
  PROVE  Kept(Append(list, r), Append(reg, r))
<1>1. PICK old : /\ Arranged(list, reg, old)
                 /\ \A n, k \in DOMAIN reg :
                      n < k /\ Tied(reg[old[n]], reg[old[k]]) => old[n] < old[k]
  BY DEF Kept
<1>2. PICK m \in Nat : DOMAIN reg = 1 .. m /\ Len(reg) = m
  OBVIOUS
<1>3. DOMAIN list = 1 .. m /\ Len(list) = m
  BY <1>1, <1>2 DEF Arranged
<1>4. PICK l, g : l = Append(list, r) /\ g = Append(reg, r)
  OBVIOUS
<1>5. /\ DOMAIN l = 1 .. m + 1 /\ DOMAIN g = 1 .. m + 1
      /\ \A n \in 1 .. m : l[n] = list[n] /\ g[n] = reg[n]
      /\ l[m + 1] = r /\ g[m + 1] = r
  BY <1>2, <1>3, <1>4
<1>6. PICK pos : pos = [n \in 1 .. m + 1 |-> IF n = m + 1 THEN m + 1 ELSE old[n]]
  OBVIOUS
<1>7. /\ \A n \in 1 .. m + 1 : n \in 1 .. m \/ n = m + 1
      /\ \A n \in 1 .. m : n \in 1 .. m + 1 /\ n # m + 1 /\ n < m + 1 /\ ~(m + 1 < n)
      /\ m + 1 \in 1 .. m + 1 /\ ~(m + 1 < m + 1)
  BY <1>2
<1>8. /\ \A n \in 1 .. m : old[n] \in 1 .. m
      /\ \A n, k \in 1 .. m : old[n] = old[k] => n = k
      /\ \A i \in 1 .. m : \E n \in 1 .. m : old[n] = i
      /\ \A n \in 1 .. m : list[n] = reg[old[n]]
  <2>1. /\ \A n \in DOMAIN reg : old[n] \in DOMAIN reg
        /\ \A n, k \in DOMAIN reg : old[n] = old[k] => n = k
        /\ \A i \in DOMAIN reg : \E n \in DOMAIN reg : old[n] = i
        /\ \A n \in DOMAIN reg : list[n] = reg[old[n]]
    BY ONLY <1>1, ArrangedIs
  <2> QED
    BY ONLY <1>2, <2>1
<1>9. pos[m + 1] = m + 1 /\ \A n \in 1 .. m : pos[n] = old[n]
  BY <1>6, <1>7
<1>10. pos \in Bijection(1 .. m + 1, 1 .. m + 1)
  <2>1. pos \in [1 .. m + 1 -> 1 .. m + 1]
    BY <1>6, <1>7, <1>8
  <2>2. \A n, k \in 1 .. m + 1 : pos[n] = pos[k] => n = k
    BY ONLY <1>7, <1>8, <1>9
  <2>3. \A i \in 1 .. m + 1 : \E n \in 1 .. m + 1 : pos[n] = i
    BY ONLY <1>7, <1>8, <1>9
  <2> QED
    BY <2>1, <2>2, <2>3 DEF Bijection, Injection, Surjection, IsInjective
<1>11. Arranged(l, g, pos)
  <2>1. \A n \in 1 .. m : l[n] = g[pos[n]]
    <3> SUFFICES ASSUME NEW n \in 1 .. m PROVE l[n] = g[pos[n]]
      OBVIOUS
    <3>1. l[n] = reg[old[n]] /\ pos[n] = old[n] /\ old[n] \in 1 .. m
      BY <1>5, <1>8, <1>9
    <3> QED
      BY <1>5, <3>1
  <2>2. \A n \in 1 .. m + 1 : l[n] = g[pos[n]]
    BY ONLY <1>5, <1>7, <1>9, <2>1
  <2> QED
    BY <1>5, <1>10, <2>2 DEF Arranged
<1>12. ASSUME NEW n \in 1 .. m + 1, NEW k \in 1 .. m + 1, n < k, Tied(g[pos[n]], g[pos[k]])
       PROVE  pos[n] < pos[k]
  <2>1. n \in 1 .. m
    BY <1>2, <1>12
  <2>2. pos[n] = old[n] /\ old[n] \in 1 .. m /\ g[pos[n]] = reg[old[n]]
    BY <1>5, <1>8, <1>9, <2>1
  <2>3. CASE k = m + 1
    BY <1>7, <1>9, <2>2, <2>3
  <2>4. CASE k \in 1 .. m
    <3>1. pos[k] = old[k] /\ g[pos[k]] = reg[old[k]]
      BY <1>5, <1>8, <1>9, <2>4
    <3> QED
      BY <1>1, <1>2, <1>12, <2>1, <2>2, <2>4, <3>1
  <2> QED
    BY <1>7, <2>3, <2>4
<1> QED
  BY <1>4, <1>5, <1>11, <1>12 DEF Kept

\* Map.update makes a list ordered that was kept: a stable sort needs no more.
LEMMA SortOrders ==
  ASSUME NEW list \in Seq(Rules), NEW reg \in Seq(Rules), Kept(list, reg)
  PROVE  Sorted(list) \in Seq(Rules) /\ Ordered(Sorted(list), reg)
<1>1. PICK old : /\ Arranged(list, reg, old)
                 /\ \A n, k \in DOMAIN reg :
                      n < k /\ Tied(reg[old[n]], reg[old[k]]) => old[n] < old[k]
  BY DEF Kept
<1>2. PICK D : D = DOMAIN reg /\ D = DOMAIN list
  BY <1>1 DEF Arranged
<1>3. PICK from \in Bijection(D, D) :
        /\ Sorted(list) = [n \in D |-> list[from[n]]]
        /\ \A n, k \in D : n < k => PrecedesIn(list, from[n], from[k])
  BY <1>2, SortedIs
<1>4. /\ \A n \in D : from[n] \in D
      /\ \A n, k \in D : from[n] = from[k] => n = k
      /\ \A i \in D : \E n \in D : from[n] = i
  BY <1>3 DEF Bijection, Injection, Surjection, IsInjective
<1>5. /\ \A n \in D : old[n] \in D
      /\ \A n, k \in D : old[n] = old[k] => n = k
      /\ \A i \in D : \E n \in D : old[n] = i
      /\ \A n \in D : list[n] = reg[old[n]]
  <2>1. /\ \A n \in DOMAIN reg : old[n] \in DOMAIN reg
        /\ \A n, k \in DOMAIN reg : old[n] = old[k] => n = k
        /\ \A i \in DOMAIN reg : \E n \in DOMAIN reg : old[n] = i
        /\ \A n \in DOMAIN reg : list[n] = reg[old[n]]
    BY ONLY <1>1, ArrangedIs
  <2> QED
    BY ONLY <1>2, <2>1
<1>6. PICK pos, s : pos = [n \in D |-> old[from[n]]] /\ s = Sorted(list)
  OBVIOUS
<1>7. Arranged(s, reg, pos)
  <2>1. pos \in [D -> D] /\ \A n \in D : pos[n] = old[from[n]]
    BY ONLY <1>4, <1>5, <1>6
  <2>2. ASSUME NEW n \in D, NEW k \in D, pos[n] = pos[k] PROVE n = k
    <3>1. from[n] \in D /\ from[k] \in D /\ old[from[n]] = old[from[k]]
      BY <1>4, <2>1, <2>2
    <3>2. from[n] = from[k]
      BY <1>5, <3>1
    <3> QED
      BY <1>4, <3>2
  <2>3. ASSUME NEW i \in D PROVE \E n \in D : pos[n] = i
    <3>1. PICK k \in D : old[k] = i
      BY <1>5
    <3>2. PICK n \in D : from[n] = k
      BY <1>4
    <3> QED
      BY <2>1, <3>1, <3>2
  <2>4. pos \in Bijection(D, D)
    <3>1. pos \in Injection(D, D)
      BY ONLY <2>1, <2>2 DEF Injection, IsInjective
    <3>2. pos \in Surjection(D, D)
      BY ONLY <2>1, <2>3 DEF Surjection
    <3> QED
      BY ONLY <3>1, <3>2 DEF Bijection
  <2>5. DOMAIN s = D /\ \A n \in D : s[n] = reg[pos[n]]
    <3>1. s = [n \in D |-> list[from[n]]]
      BY ONLY <1>3, <1>6
    <3>2. DOMAIN s = D /\ \A n \in D : s[n] = list[from[n]]
      BY ONLY <3>1
    <3>3. \A n \in D : list[from[n]] = reg[old[from[n]]]
      BY ONLY <1>4, <1>5
    <3> QED
      BY ONLY <2>1, <3>2, <3>3
  <2> QED
    BY <1>2, <2>4, <2>5 DEF Arranged
<1>8. ASSUME NEW n \in D, NEW k \in D, n < k PROVE PrecedesIn(reg, pos[n], pos[k])
  <2>1. PICK i \in D, j \in D : i = from[n] /\ j = from[k] /\ PrecedesIn(list, i, j)
    BY <1>3, <1>4, <1>8
  <2>2. pos[n] = old[i] /\ pos[k] = old[j] /\ list[i] = reg[old[i]] /\ list[j] = reg[old[j]]
    BY <1>5, <1>6, <2>1
  <2>3. CASE Before(list[i], list[j])
    BY <2>2, <2>3 DEF PrecedesIn
  <2>4. CASE ~Before(list[i], list[j])
    <3>1. ~Before(list[j], list[i]) /\ i < j
      BY <2>1, <2>4 DEF PrecedesIn
    <3>2. old[i] < old[j]
      BY <1>1, <1>2, <2>2, <2>4, <3>1 DEF Tied
    <3> QED
      BY <2>2, <3>1, <3>2 DEF PrecedesIn
  <2> QED
    BY <2>3, <2>4
<1> QED
  BY <1>2, <1>6, <1>7, <1>8, SortedIs DEF Ordered

LEMMA OrderedIsKept ==
  ASSUME NEW list, NEW reg \in Seq(Rules), Ordered(list, reg)
  PROVE  Kept(list, reg)
<1>1. PICK pos : /\ Arranged(list, reg, pos)
                 /\ \A n, k \in DOMAIN reg : n < k => PrecedesIn(reg, pos[n], pos[k])
  BY DEF Ordered
<1> QED
  BY <1>1 DEF Kept, Tied, PrecedesIn

LEMMA ShortIsOrdered ==
  ASSUME NEW list \in Seq(Rules), NEW reg \in Seq(Rules), Kept(list, reg), Len(list) <= 1
  PROVE  Ordered(list, reg)
<1>1. PICK pos : Arranged(list, reg, pos)
  BY DEF Kept
<1>2. DOMAIN reg = DOMAIN list
  BY <1>1 DEF Arranged
<1>3. \A n, k \in DOMAIN list : ~(n < k)
  OBVIOUS
<1> QED
  BY <1>1, <1>2, <1>3 DEF Ordered

\* The first rule of an ordered list that matches is the one a stanza should get.
LEMMA FirstIsBest ==
  ASSUME NEW list, NEW q, Ordered(list, registered), registered \in Seq(Rules),
         NEW n \in DOMAIN list, MatchOf[list[n]][q] # NoMatch,
         \A k \in DOMAIN list : k < n => MatchOf[list[k]][q] = NoMatch
  PROVE  list[n] \in Best(q) /\ Matching(q) # {}
<1>1. PICK pos : /\ Arranged(list, registered, pos)
                 /\ \A d, e \in DOMAIN registered :
                      d < e => PrecedesIn(registered, pos[d], pos[e])
  BY DEF Ordered
<1>2. PICK D : D = DOMAIN registered /\ D = DOMAIN list
  BY <1>1 DEF Arranged
<1>3. /\ \A d \in D : pos[d] \in D /\ d \in Nat /\ list[d] = registered[pos[d]]
      /\ \A i \in D : \E d \in D : pos[d] = i
  <2>1. /\ \A d \in DOMAIN registered : pos[d] \in DOMAIN registered
        /\ \A i \in DOMAIN registered : \E d \in DOMAIN registered : pos[d] = i
        /\ \A d \in DOMAIN registered : list[d] = registered[pos[d]]
    BY ONLY <1>1, ArrangedIs
  <2>2. \A d \in DOMAIN registered : d \in Nat
    OBVIOUS
  <2> QED
    BY ONLY <1>2, <2>1, <2>2
<1>4. pos[n] \in Matching(q)
  BY <1>2, <1>3 DEF Matching
<1>5. ASSUME NEW i \in Matching(q) \ {pos[n]} PROVE PrecedesIn(registered, pos[n], i)
  <2>1. i \in D /\ MatchOf[registered[i]][q] # NoMatch
    BY <1>2 DEF Matching
  <2>2. PICK d \in D : pos[d] = i
    BY <1>3, <2>1
  <2>3. ~(d < n) /\ d # n
    BY <1>2, <1>3, <1>5, <2>1, <2>2
  <2>4. n < d
    BY <1>2, <1>3, <2>3
  <2> QED
    BY <1>1, <1>2, <2>2, <2>4
<1> QED
  BY <1>2, <1>3, <1>4, <1>5 DEF Best

\* None of the rules matches when none of an arrangement of them does.
LEMMA NoneMatches ==
  ASSUME NEW list, NEW q, Ordered(list, registered),
         \A k \in DOMAIN list : MatchOf[list[k]][q] = NoMatch
  PROVE  Matching(q) = {}
<1>1. PICK pos : Arranged(list, registered, pos)
  BY DEF Ordered
<1>2. /\ \A i \in DOMAIN registered : \E n \in DOMAIN registered : pos[n] = i
      /\ \A n \in DOMAIN registered : list[n] = registered[pos[n]]
      /\ DOMAIN list = DOMAIN registered
  BY <1>1, ArrangedIs DEF Arranged
<1> QED
  BY ONLY <1>2, \A k \in DOMAIN list : MatchOf[list[k]][q] = NoMatch DEF Matching

-----------------------------------------------------------------------------
(* Type correctness.                                                       *)

LEMMA MatchGivesArguments ==
  ASSUME NEW r \in Rules, NEW q \in Requests, MatchOf[r][q] # NoMatch
  PROVE  DOMAIN MatchOf[r][q] = Arguments(r)
<1>1. MatchOf[r][q] = RuleMatch(r, Request[q])
  BY DEF MatchOf
<1> QED
  BY <1>1 DEF RuleMatch

LEMMA TypeStep == TypeOK /\ ScanInv /\ [Next]_vars => TypeOK'
<1> SUFFICES ASSUME TypeOK, ScanInv, [Next]_vars PROVE TypeOK'
  OBVIOUS
<1>1. ASSUME NEW r \in Rules, AddRule(r) PROVE TypeOK'
  BY <1>1 DEF TypeOK, AddRule
<1>2. ASSUME NEW t \in Threads, NEW q \in Requests, Begin(t, q) PROVE TypeOK'
  BY <1>2 DEF TypeOK, Begin, Goto, Locations, map
<1>3. ASSUME NEW t \in Threads, Match(t) PROVE TypeOK'
  <2>1. CASE Update(t)
    BY <2>1 DEF TypeOK, Update, Goto, Locations, map
  <2>2. CASE BeginSort(t)
    BY <2>2 DEF TypeOK, BeginSort, Goto, Locations, map
  <2>3. CASE SortShort(t)
    BY <2>3 DEF TypeOK, SortShort, Goto, Locations, map
  <2>4. CASE EndSort(t)
    <3>1. PICK list \in Seq(Rules) : list = Sorted(saved[t])
      BY SortedIs DEF TypeOK
    <3>2. rules' = list
      BY <2>4, <3>1 DEF EndSort
    <3> QED
      BY <2>4, <3>2 DEF TypeOK, EndSort, Goto, Locations
  <2>5. CASE EndUpdate(t)
    BY <2>5 DEF TypeOK, EndUpdate, Goto, Locations, map
  <2>6. CASE SkipRule(t)
    BY <2>6 DEF TypeOK, SkipRule, map
  <2>7. CASE TakeRule(t)
    <3>1. at[t] \in DOMAIN rules /\ req[t] \in Requests
      BY <2>7 DEF TypeOK, ScanInv, ScanOf, TakeRule, Goto
    <3>2. PICK rule \in Rules : rule = rules[at[t]]
      BY <3>1 DEF TypeOK
    <3>3. PICK found : found = [rule |-> rule, values |-> MatchOf[rule][req[t]]]
      OBVIOUS
    <3>4. found.rule \in Rules /\ DOMAIN found.values = Arguments(found.rule)
      BY <2>7, <3>1, <3>2, <3>3, MatchGivesArguments DEF TakeRule
    <3>5. result' = [result EXCEPT ![t] = found]
      BY <2>7, <3>2, <3>3 DEF TakeRule
    <3> QED
      BY <2>7, <3>4, <3>5 DEF TypeOK, TakeRule, Goto, Locations, map
  <2>8. CASE FindNothing(t)
    BY <2>8 DEF TypeOK, FindNothing, Goto, Locations, map
  <2>9. CASE Finish(t)
    BY <2>9 DEF TypeOK, Finish, Goto, Locations, map
  <2> QED
    BY <1>3, <2>1, <2>2, <2>3, <2>4, <2>5, <2>6, <2>7, <2>8, <2>9 DEF Match
<1>4. CASE UNCHANGED vars
  BY <1>4 DEF TypeOK, vars
<1> QED
  BY <1>1, <1>2, <1>3, <1>4 DEF Next

-----------------------------------------------------------------------------
(* The list of the map.                                                    *)

LEMMA SortStep == TypeOK /\ SortInv /\ [Next]_vars => SortInv'
<1> SUFFICES ASSUME TypeOK, SortInv, [Next]_vars PROVE SortInv'
  OBVIOUS
<1>1. ASSUME NEW r \in Rules, AddRule(r) PROVE SortInv'
  <2>1. /\ Sorting = {} /\ pc' = pc /\ remap'
        /\ rules' = Append(rules, r) /\ registered' = Append(registered, r)
    BY <1>1 DEF AddRule, Sorting
  <2>2. \A t \in Threads : pc[t] = "idle"
    BY <1>1 DEF AddRule
  <2>3. Kept(rules', registered')
    BY <2>1, AppendKeeps DEF TypeOK, SortInv
  <2> QED
    BY <2>1, <2>2, <2>3 DEF SortInv, Sorting
<1>2. ASSUME NEW t \in Threads, NEW q \in Requests, Begin(t, q) PROVE SortInv'
  <2>1. /\ \A u \in Threads : pc'[u] = IF u = t THEN "update" ELSE pc[u]
        /\ pc[t] = "idle" /\ UNCHANGED <<rules, remap, registered, saved>>
    BY <1>2 DEF TypeOK, Begin, Goto, map
  <2>2. Sorting' = Sorting
    BY <2>1 DEF Sorting
  <2> QED
    BY <2>1, <2>2 DEF SortInv
<1>3. ASSUME NEW t \in Threads, Match(t) PROVE SortInv'
  <2>1. CASE Update(t)
    <3>1. /\ \A u \in Threads : u # t => pc'[u] = pc[u]
          /\ pc[t] = "update" /\ (pc'[t] = "sort" \/ (pc'[t] = "scan" /\ ~remap))
          /\ UNCHANGED <<rules, remap, registered, saved>>
      BY <2>1 DEF TypeOK, Update, Goto, map
    <3>2. Sorting' = Sorting
      BY <3>1 DEF Sorting
    <3> QED
      BY <3>1, <3>2 DEF SortInv
  <2>2. CASE BeginSort(t)
    <3>1. /\ \A u \in Threads : u # t => pc'[u] = pc[u] /\ saved'[u] = saved[u]
          /\ pc[t] = "sort" /\ pc'[t] = "sorting" /\ saved'[t] = rules /\ rules' = <<>>
          /\ UNCHANGED <<remap, registered>> /\ Len(rules) > 1
      BY <2>2 DEF TypeOK, BeginSort, Goto
    <3>2. Sorting = {}
      <4> SUFFICES ASSUME NEW u \in Threads, pc[u] = "sorting" PROVE FALSE
        BY DEF Sorting
      <4>1. Len(rules) = 0
        BY DEF SortInv
      <4> QED
        BY <3>1, <4>1
    <3>3. Sorting' = {t}
      BY <3>1, <3>2 DEF Sorting
    <3>4. Kept(saved'[t], registered')
      BY <3>1, <3>2 DEF SortInv
    <3>5. \A u \in Threads : pc'[u] = "sorting" => u = t
      BY <3>3 DEF Sorting
    <3> QED
      BY <3>1, <3>3, <3>4, <3>5 DEF SortInv
  <2>3. CASE SortShort(t)
    <3>1. /\ \A u \in Threads : u # t => pc'[u] = pc[u]
          /\ pc[t] = "sort" /\ pc'[t] = "sorted" /\ Len(rules) <= 1
          /\ UNCHANGED <<rules, remap, registered, saved>>
      BY <2>3 DEF TypeOK, SortShort, Goto, map
    <3>2. Sorting' = Sorting
      BY <3>1 DEF Sorting
    <3>3. Sorting = {} => Ordered(rules, registered)
      BY <3>1, ShortIsOrdered DEF TypeOK, SortInv
    <3> QED
      BY <3>1, <3>2, <3>3 DEF SortInv
  <2>4. CASE EndSort(t)
    <3>1. /\ \A u \in Threads : u # t => pc'[u] = pc[u]
          /\ pc[t] = "sorting" /\ pc'[t] = "sorted" /\ rules' = Sorted(saved[t])
          /\ UNCHANGED <<remap, registered>>
      BY <2>4 DEF TypeOK, EndSort, Goto
    <3>2. Sorting = {t} /\ Kept(saved[t], registered)
      BY <3>1 DEF SortInv
    <3>3. Sorting' = {} /\ \A u \in Threads : pc'[u] # "sorting"
      BY <3>1, <3>2 DEF Sorting
    <3>4. Ordered(rules', registered')
      BY <3>1, <3>2, SortOrders DEF TypeOK
    <3>5. Kept(rules', registered')
      BY <3>1, <3>4, OrderedIsKept DEF TypeOK
    <3> QED
      BY <3>1, <3>3, <3>4, <3>5 DEF SortInv
  <2>5. CASE EndUpdate(t)
    <3>1. /\ \A u \in Threads : u # t => pc'[u] = pc[u]
          /\ pc[t] = "sorted" /\ pc'[t] = "scan" /\ ~remap'
          /\ UNCHANGED <<rules, registered, saved>>
      BY <2>5 DEF TypeOK, EndUpdate, Goto
    <3>2. Sorting' = Sorting
      BY <3>1 DEF Sorting
    <3>3. Sorting = {} => Ordered(rules, registered)
      BY <3>1 DEF SortInv
    <3> QED
      BY <3>1, <3>2, <3>3 DEF SortInv
  <2>6. ASSUME /\ \A u \in Threads : u # t => pc'[u] = pc[u]
               /\ pc[t] \in {"scan", "done"} /\ pc'[t] \in {"scan", "done", "idle"}
               /\ UNCHANGED <<rules, remap, registered, saved>>
        PROVE  SortInv'
    <3>1. Sorting' = Sorting
      BY <2>6 DEF Sorting
    <3> QED
      BY <2>6, <3>1 DEF SortInv
  <2>7. CASE SkipRule(t)
    BY <2>6, <2>7 DEF SkipRule, map
  <2>8. CASE TakeRule(t)
    BY <2>6, <2>8 DEF TypeOK, TakeRule, Goto, map
  <2>9. CASE FindNothing(t)
    BY <2>6, <2>9 DEF TypeOK, FindNothing, Goto, map
  <2>10. CASE Finish(t)
    BY <2>6, <2>10 DEF TypeOK, Finish, Goto, map
  <2> QED
    BY <1>3, <2>1, <2>2, <2>3, <2>4, <2>5, <2>7, <2>8, <2>9, <2>10 DEF Match
<1>4. CASE UNCHANGED vars
  <2>1. UNCHANGED <<rules, remap, registered, pc, saved>> /\ Sorting' = Sorting
    BY <1>4 DEF vars, Sorting
  <2> QED
    BY <2>1 DEF SortInv
<1> QED
  BY <1>1, <1>2, <1>3, <1>4 DEF Next

-----------------------------------------------------------------------------
(* The loop over the list.                                                 *)

LEMMA ScanStep == TypeOK /\ SortInv /\ ScanInv /\ [Next]_vars => ScanInv'
<1> SUFFICES ASSUME TypeOK, SortInv, ScanInv, [Next]_vars, NEW u \in Threads
             PROVE  ScanOf(u)'
  BY DEF ScanInv
<1>1. ScanOf(u)
  BY DEF ScanInv
<1>2. ASSUME NEW r \in Rules, AddRule(r) PROVE ScanOf(u)'
  BY <1>1, <1>2 DEF AddRule, ScanOf
<1> DEFINE Aside ==
      /\ pc'[u] = pc[u] /\ req'[u] = req[u] /\ at'[u] = at[u] /\ result'[u] = result[u]
      /\ u \in disturbed => u \in disturbed'
<1>3. ASSUME Aside, u \notin disturbed' => rules' = rules,
             Sorting' \subseteq Sorting
      PROVE  ScanOf(u)'
  BY <1>1, <1>3 DEF ScanOf
<1>4. ASSUME NEW t \in Threads, NEW q \in Requests, Begin(t, q) PROVE ScanOf(u)'
  <2>1. \A w \in Threads : pc'[w] = IF w = t THEN "update" ELSE pc[w]
    BY <1>4 DEF TypeOK, Begin, Goto
  <2>2. pc[t] = "idle" /\ rules' = rules
    BY <1>4 DEF Begin, Goto, map
  <2>3. Sorting' = Sorting
    BY <2>1, <2>2 DEF Sorting
  <2>4. CASE u = t
    <3>1. /\ pc'[u] = "update" /\ req'[u] = q /\ result'[u] = Nothing
          /\ u \notin disturbed' => Sorting = {}
      BY <1>1, <1>4, <2>1, <2>2, <2>4 DEF TypeOK, Begin, ScanOf
    <3> QED
      BY <2>3, <3>1 DEF ScanOf
  <2>5. CASE u # t
    <3>1. Aside
      BY <1>4, <2>1, <2>5 DEF TypeOK, Begin
    <3> QED
      BY <1>3, <2>2, <2>3, <3>1
  <2> QED
    BY <2>4, <2>5
<1>5. ASSUME NEW t \in Threads, Match(t) PROVE ScanOf(u)'
  <2>1. CASE Update(t)
    <3>1. /\ \A w \in Threads : w # t => pc'[w] = pc[w]
          /\ pc[t] = "update" /\ pc'[t] \in {"sort", "scan"} /\ rules' = rules
      BY <2>1 DEF TypeOK, Update, Goto, map
    <3>2. Sorting' = Sorting
      BY <3>1 DEF Sorting
    <3>3. CASE u = t
      <4>1. at'[u] = 1 /\ UNCHANGED <<req, result, disturbed>>
        BY <2>1, <3>3 DEF TypeOK, Update
      <4>2. \A n \in DOMAIN rules : ~(n < 1)
        BY DEF TypeOK
      <4> QED
        BY <1>1, <3>1, <3>2, <3>3, <4>1, <4>2 DEF ScanOf
    <3>4. CASE u # t
      <4>1. Aside
        BY <2>1, <3>1, <3>4 DEF TypeOK, Update
      <4> QED
        BY <1>3, <3>1, <3>2, <4>1
    <3> QED
      BY <3>3, <3>4
  <2>2. CASE BeginSort(t)
    <3>1. /\ \A w \in Threads : w # t => pc'[w] = pc[w]
          /\ pc[t] = "sort" /\ pc'[t] = "sorting" /\ UNCHANGED <<req, at, result>>
          /\ disturbed' = disturbed \cup {w \in Threads \ {t} : pc[w] # "idle"}
      BY <2>2 DEF TypeOK, BeginSort, Goto
    <3>2. CASE u = t
      <4>1. Sorting' \subseteq Sorting \cup {u}
        BY <3>1, <3>2 DEF Sorting
      <4> QED
        BY <1>1, <3>1, <3>2, <4>1 DEF ScanOf
    <3>3. CASE u # t
      BY <1>1, <3>1, <3>3 DEF ScanOf
    <3> QED
      BY <3>2, <3>3
  <2>3. CASE SortShort(t)
    <3>1. /\ \A w \in Threads : w # t => pc'[w] = pc[w]
          /\ pc[t] = "sort" /\ pc'[t] = "sorted" /\ UNCHANGED <<rules, req, at, result>>
          /\ u \in disturbed => u \in disturbed'
      BY <2>3 DEF TypeOK, SortShort, Goto, map
    <3>2. Sorting' = Sorting
      BY <3>1 DEF Sorting
    <3>3. CASE u = t
      BY <1>1, <3>1, <3>2, <3>3 DEF ScanOf
    <3>4. CASE u # t
      BY <1>3, <3>1, <3>2, <3>4
    <3> QED
      BY <3>3, <3>4
  <2>4. CASE EndSort(t)
    <3>1. /\ \A w \in Threads : w # t => pc'[w] = pc[w]
          /\ pc[t] = "sorting" /\ pc'[t] = "sorted"
          /\ UNCHANGED <<req, at, result, disturbed>>
      BY <2>4 DEF TypeOK, EndSort, Goto
    <3>2. Sorting = {t}
      BY <3>1 DEF SortInv
    <3>3. Sorting' = {}
      BY <3>1, <3>2 DEF Sorting
    <3>4. CASE u = t
      BY <1>1, <3>1, <3>3, <3>4 DEF ScanOf
    <3>5. CASE u # t
      BY <1>1, <3>1, <3>2, <3>3, <3>5 DEF ScanOf
    <3> QED
      BY <3>4, <3>5
  <2>5. CASE EndUpdate(t)
    <3>1. /\ \A w \in Threads : w # t => pc'[w] = pc[w]
          /\ pc[t] = "sorted" /\ pc'[t] = "scan"
          /\ UNCHANGED <<rules, req, at, result, disturbed>>
      BY <2>5 DEF TypeOK, EndUpdate, Goto
    <3>2. Sorting' = Sorting
      BY <3>1 DEF Sorting
    <3>3. CASE u = t
      <4>1. at[u] = 1 /\ \A n \in DOMAIN rules : ~(n < 1)
        BY <1>1, <3>1, <3>3 DEF ScanOf, TypeOK
      <4> QED
        BY <1>1, <3>1, <3>2, <3>3, <4>1 DEF ScanOf
    <3>4. CASE u # t
      BY <1>3, <3>1, <3>2, <3>4
    <3> QED
      BY <3>3, <3>4
  <2>6. CASE SkipRule(t)
    <3>1. /\ pc[t] = "scan" /\ UNCHANGED <<rules, pc, req, result, disturbed>>
          /\ MatchOf[rules[at[t]]][req[t]] = NoMatch /\ at' = [at EXCEPT ![t] = at[t] + 1]
      BY <2>6 DEF SkipRule, map
    <3>2. Sorting' = Sorting
      BY <3>1 DEF Sorting
    <3>3. CASE u = t
      <4>1. at[u] \in Nat /\ at'[u] = at[u] + 1
        BY <3>1, <3>3 DEF TypeOK
      <4>2. \A n \in DOMAIN rules : n < at'[u] => n < at[u] \/ n = at[u]
        BY <4>1 DEF TypeOK
      <4>3. at'[u] # 0
        BY <4>1
      <4> QED
        BY <1>1, <3>1, <3>2, <3>3, <4>2, <4>3 DEF ScanOf
    <3>4. CASE u # t
      <4>1. Aside
        BY <3>1, <3>4 DEF TypeOK
      <4> QED
        BY <1>3, <3>1, <3>2, <4>1
    <3> QED
      BY <3>3, <3>4
  <2>7. ASSUME \A w \in Threads : w # t => pc'[w] = pc[w],
               pc[t] \in {"scan", "done"}, pc'[t] \in {"done", "idle"},
               rules' = rules, u # t => Aside,
               u = t => /\ u \in disturbed => u \in disturbed' \/ pc'[u] = "idle"
                        /\ pc'[u] # "idle" => req'[u] = req[u]
                        /\ pc'[u] # "done" => result'[u] = Nothing
        PROVE  ScanOf(u)'
    <3>1. Sorting' = Sorting
      BY <2>7 DEF Sorting
    <3>2. CASE u = t
      BY <1>1, <2>7, <3>1, <3>2 DEF ScanOf
    <3>3. CASE u # t
      <4>1. Aside
        BY <2>7, <3>3
      <4> QED
        BY <1>3, <2>7, <3>1, <4>1
    <3> QED
      BY <3>2, <3>3
  <2>8. CASE TakeRule(t)
    BY <2>7, <2>8 DEF TypeOK, TakeRule, Goto, map
  <2>9. CASE FindNothing(t)
    BY <2>7, <2>9 DEF TypeOK, FindNothing, Goto, map
  <2>10. CASE Finish(t)
    BY <2>7, <2>10 DEF TypeOK, Finish, Goto, map
  <2> QED
    BY <1>5, <2>1, <2>2, <2>3, <2>4, <2>5, <2>6, <2>8, <2>9, <2>10 DEF Match
<1>6. CASE UNCHANGED vars
  <2>1. Sorting' = Sorting
    BY <1>6 DEF vars, Sorting
  <2> QED
    BY <1>1, <1>6, <2>1 DEF vars, ScanOf
<1> QED
  BY <1>2, <1>4, <1>5, <1>6 DEF Next

-----------------------------------------------------------------------------
(* What a stanza is answered.                                              *)

LEMMA BestStep ==
  TypeOK /\ SortInv /\ ScanInv /\ BestRuleWins /\ [Next]_vars => BestRuleWins'
<1> SUFFICES ASSUME TypeOK, SortInv, ScanInv, BestRuleWins, [Next]_vars,
                    NEW u \in Threads, pc'[u] = "done", u \notin disturbed'
             PROVE  IF Matching(req[u])' = {} THEN result'[u] = Nothing
                    ELSE result'[u].rule \in Best(req[u])'
  BY DEF BestRuleWins
<1>1. ScanOf(u)
  BY DEF ScanInv
<1>2. ASSUME registered' = registered, pc[u] = "done", u \notin disturbed,
             req'[u] = req[u], result'[u] = result[u]
      PROVE  IF Matching(req[u])' = {} THEN result'[u] = Nothing
             ELSE result'[u].rule \in Best(req[u])'
  <2>1. Matching(req[u])' = Matching(req[u]) /\ Best(req[u])' = Best(req[u])
    BY <1>2 DEF Matching, Best
  <2> QED
    BY <1>2, <2>1 DEF BestRuleWins
<1>3. ASSUME NEW r \in Rules, AddRule(r) PROVE FALSE
  BY <1>3 DEF AddRule
<1>4. ASSUME NEW t \in Threads, NEW q \in Requests, Begin(t, q)
      PROVE  IF Matching(req[u])' = {} THEN result'[u] = Nothing
             ELSE result'[u].rule \in Best(req[u])'
  <2>1. u # t
    BY <1>4 DEF TypeOK, Begin, Goto
  <2> QED
    BY <1>2, <1>4, <2>1 DEF TypeOK, Begin, Goto, map
<1>5. ASSUME NEW t \in Threads, Match(t)
      PROVE  IF Matching(req[u])' = {} THEN result'[u] = Nothing
             ELSE result'[u].rule \in Best(req[u])'
  <2>1. CASE Update(t)
    BY <1>2, <2>1 DEF TypeOK, Update, Goto, map
  <2>2. CASE BeginSort(t)
    BY <1>2, <2>2 DEF TypeOK, BeginSort, Goto
  <2>3. CASE SortShort(t)
    BY <1>2, <2>3 DEF TypeOK, SortShort, Goto, map
  <2>4. CASE EndSort(t)
    BY <1>2, <2>4 DEF TypeOK, EndSort, Goto
  <2>5. CASE EndUpdate(t)
    BY <1>2, <2>5 DEF TypeOK, EndUpdate, Goto
  <2>6. CASE SkipRule(t)
    BY <1>2, <2>6 DEF TypeOK, SkipRule, map
  <2>7. ASSUME pc[u] = "scan", u \notin disturbed
        PROVE  Ordered(rules, registered)
    <3>1. Sorting = {}
      BY <1>1, <2>7 DEF ScanOf, Sorting
    <3>2. ~remap
      BY <2>7 DEF SortInv
    <3> QED
      BY <3>1, <3>2 DEF SortInv
  <2>8. CASE TakeRule(t)
    <3>1. CASE u = t
      <4>1. PICK n, q : n = at[u] /\ q = req[u]
        OBVIOUS
      <4>2. /\ pc[u] = "scan" /\ u \notin disturbed /\ registered' = registered
            /\ req'[u] = q /\ result'[u].rule = rules[n]
            /\ MatchOf[rules[n]][q] # NoMatch
        BY <2>8, <3>1, <4>1 DEF TypeOK, TakeRule, Goto, map
      <4>3. /\ n \in DOMAIN rules
            /\ \A k \in DOMAIN rules : k < n => MatchOf[rules[k]][q] = NoMatch
        BY <1>1, <2>8, <3>1, <4>1, <4>2 DEF TypeOK, TakeRule, ScanOf
      <4>4. rules[n] \in Best(q) /\ Matching(q) # {}
        BY <2>7, <4>2, <4>3, FirstIsBest DEF TypeOK
      <4>5. Matching(req[u])' = Matching(q) /\ Best(req[u])' = Best(q)
        BY <4>2 DEF Matching, Best
      <4> QED
        BY ONLY <4>2, <4>4, <4>5
    <3>2. CASE u # t
      BY <1>2, <2>8, <3>2 DEF TypeOK, TakeRule, Goto, map
    <3> QED
      BY <3>1, <3>2
  <2>9. CASE FindNothing(t)
    <3>1. CASE u = t
      <4>1. PICK q : q = req[u]
        OBVIOUS
      <4>2. /\ pc[u] = "scan" /\ u \notin disturbed /\ registered' = registered
            /\ req'[u] = q /\ result'[u] = result[u]
        BY <2>9, <3>1, <4>1 DEF TypeOK, FindNothing, Goto, map
      <4>3. result[u] = Nothing
        BY <1>1, <4>2 DEF ScanOf
      <4>4. \A k \in DOMAIN rules : k < at[u]
        BY <2>9, <3>1 DEF TypeOK, FindNothing
      <4>5. \A k \in DOMAIN rules : MatchOf[rules[k]][q] = NoMatch
        BY <1>1, <4>1, <4>2, <4>4 DEF ScanOf
      <4>6. Matching(q) = {}
        BY <2>7, <4>2, <4>5, NoneMatches
      <4>7. Matching(req[u])' = Matching(q)
        BY <4>2 DEF Matching
      <4> QED
        BY ONLY <4>2, <4>3, <4>6, <4>7
    <3>2. CASE u # t
      BY <1>2, <2>9, <3>2 DEF TypeOK, FindNothing, Goto, map
    <3> QED
      BY <3>1, <3>2
  <2>10. CASE Finish(t)
    <3>1. u # t
      BY <2>10 DEF TypeOK, Finish, Goto
    <3> QED
      BY <1>2, <2>10, <3>1 DEF TypeOK, Finish, Goto, map
  <2> QED
    BY <1>5, <2>1, <2>2, <2>3, <2>4, <2>5, <2>6, <2>8, <2>9, <2>10 DEF Match
<1>6. CASE UNCHANGED vars
  BY <1>2, <1>6 DEF vars
<1> QED
  BY <1>3, <1>4, <1>5, <1>6 DEF Next

LEMMA RoutingInvInit == Init => RoutingInv
<1> SUFFICES ASSUME Init PROVE RoutingInv
  OBVIOUS
<1>1. TypeOK
  BY DEF Init, TypeOK, Locations
<1>2. \A t \in Threads : pc[t] = "idle" /\ result[t] = Nothing
  BY DEF Init
<1>3. SortInv
  BY <1>2, EmptyIsKept DEF Init, SortInv
<1>4. ScanInv /\ BestRuleWins
  BY <1>2 DEF ScanInv, ScanOf, BestRuleWins
<1> QED
  BY <1>1, <1>3, <1>4 DEF RoutingInv

LEMMA RoutingInvStep == RoutingInv /\ [Next]_vars => RoutingInv'
BY TypeStep, SortStep, ScanStep, BestStep DEF RoutingInv

LEMMA RoutingInvHolds == Spec => []RoutingInv
BY RoutingInvInit, RoutingInvStep, PTL DEF Spec

\* Map and MapAdapter: the list the threads share always holds rules only, and
\* what a match gives the view is a value for every argument of the rule.
THEOREM RoutingTypeCorrect == Spec => []TypeOK
<1>1. RoutingInv => TypeOK
  BY DEF RoutingInv
<1> QED
  BY <1>1, RoutingInvHolds, PTL

\* Map.update and MapAdapter.match, without a lock: whatever the rules, the
\* threads and the order of additions, first matches and sorts, a stanza no other
\* thread has sorted under gets the first rule in the order of match_compare that
\* matches it, the first registered of equal ones, and none only if none matches.
THEOREM BestRuleAlwaysWins == Spec => []BestRuleWins
<1>1. RoutingInv => BestRuleWins
  BY DEF RoutingInv
<1> QED
  BY <1>1, RoutingInvHolds, PTL

LEMMA LongerIsBefore ==
  ASSUME NEW s \in Rules, NEW r \in Rules, OnlyText(s), OnlyText(r),
         IsStrictPrefix(Parts(s)[1].words, Parts(r)[1].words)
  PROVE  Before(r, s) /\ ~Before(s, r) /\ r # s
<1>1. \A x \in {r, s} :
        /\ Weights(x) \in Seq(Nat) /\ DOMAIN Weights(x) = DOMAIN Parts(x)
        /\ 1 \in DOMAIN Parts(x)
  <2>1. \A x \in {r, s} : Weights(x) \in Seq(Nat) /\ DOMAIN Weights(x) = DOMAIN Parts(x)
    BY RanksAreNumbers DEF Weights
  <2>2. \A x \in {r, s} : Len(Weights(x)) = 1
    BY <2>1 DEF OnlyText, Weights
  <2>3. \A w \in Seq(Nat) : Len(w) = 1 => 1 \in DOMAIN w
    OBVIOUS
  <2> QED
    BY <2>1, <2>2, <2>3
<1>2. Weights(s)[1] < Weights(r)[1]
  BY TextsWeighTheirLength
<1>3. HeavierFirst(Weights(r), Weights(s))
  <2>1. \A k \in 1 .. 1 - 1 : FALSE
    OBVIOUS
  <2> QED
    BY <1>1, <1>2, <2>1 DEF HeavierFirst
<1>4. Before(r, s)
  BY <1>3 DEF Before
<1> QED
  BY <1>4, MatchOrder

\* "Needed to match "hello world" rule before "hello" rule": of two rules that are
\* only a text the longer one gets the stanza, whichever was registered first.
THEOREM LongerTextAlwaysWins == Spec => []LongerTextWins
<1>1. TypeOK /\ BestRuleWins => LongerTextWins
  <2> SUFFICES ASSUME TypeOK, BestRuleWins, NEW t \in Threads, NEW r \in Rules,
                      pc[t] = "done", t \notin disturbed, result[t] # Nothing,
                      OnlyText(r), OnlyText(result[t].rule),
                      IsStrictPrefix(Parts(result[t].rule)[1].words, Parts(r)[1].words),
                      Contains(registered, r), MatchOf[r][req[t]] # NoMatch
               PROVE  FALSE
    BY DEF LongerTextWins
  <2>1. PICK q, s : q = req[t] /\ s = result[t].rule
    OBVIOUS
  <2>2. s \in Rules
    BY <2>1 DEF TypeOK
  <2>3. s \in Best(q)
    BY <2>1 DEF BestRuleWins
  <2>4. PICK j \in Matching(q) :
          s = registered[j] /\ \A k \in Matching(q) \ {j} : PrecedesIn(registered, j, k)
    BY <2>3 DEF Best
  <2>5. PICK k \in DOMAIN registered : registered[k] = r
    BY DEF TypeOK, Contains
  <2>6. k \in Matching(q)
    BY <2>1, <2>5 DEF Matching
  <2>7. Before(r, s) /\ ~Before(s, r) /\ r # s
    BY <2>1, <2>2, LongerIsBefore
  <2>8. PrecedesIn(registered, j, k)
    BY <2>4, <2>5, <2>6, <2>7
  <2> QED
    BY <2>4, <2>5, <2>7, <2>8 DEF PrecedesIn
<1> QED
  BY <1>1, RoutingTypeCorrect, BestRuleAlwaysWins, PTL

-----------------------------------------------------------------------------
(* Messages that differ only in how their numbers are written, and their    *)
(* cuts.                                                                    *)

Alike(v, w) ==
  \/ v = w
  \/ v.digits > 0 /\ w.digits > 0 /\ v.value = w.value
AlikeTexts(m, b) == Len(m) = Len(b) /\ \A j \in 1 .. Len(m) : Alike(m[j], b[j])

LEMMA AlikeBothWays ==
  ASSUME NEW m, NEW b, AlikeTexts(m, b)
  PROVE  AlikeTexts(b, m)
BY DEF AlikeTexts, Alike

\* The words of a segment.
LEMMA SegmentWords ==
  ASSUME NEW S, NEW text \in Seq(S), NEW m \in Nat, NEW k \in Nat, m <= k, k <= Len(text)
  PROVE  /\ SubSeq(text, m + 1, k) \in Seq(S)
         /\ Len(SubSeq(text, m + 1, k)) = k - m
         /\ \A i \in 1 .. k - m : SubSeq(text, m + 1, k)[i] = text[m + i]
<1>1. PICK a : a = SubSeq(text, m + 1, k)
  OBVIOUS
<1>2. PICK p \in Int : p = m + 1
  OBVIOUS
<1>3. k \in Int
  OBVIOUS
<1>4. \A i \in p .. k : text[i] \in S
  <2>1. \A i \in p .. k : i \in 1 .. Len(text)
    BY <1>2
  <2> QED
    BY <2>1
<1>5. /\ a \in Seq(S) /\ Len(a) = IF p <= k THEN k - p + 1 ELSE 0
      /\ \A i \in 1 .. k - p + 1 : a[i] = text[p + i - 1]
  BY ONLY <1>1, <1>2, <1>3, <1>4, SubSeqProperties, p \in Int
<1>6. Len(a) = k - m /\ k - p + 1 = k - m
  BY <1>2, <1>5
<1>7. ASSUME NEW i \in 1 .. k - m PROVE a[i] = text[m + i]
  <2>1. p + i - 1 = m + i
    BY <1>2
  <2> QED
    BY <1>5, <1>6, <2>1
<1> QED
  BY <1>1, <1>5, <1>6, <1>7

\* A text without numbers is like no other one.
LEMMA OnlyLikeItself ==
  ASSUME NEW m \in Words, NEW b \in Words, AlikeTexts(m, b),
         \A k \in DOMAIN m : m[k].digits = 0
  PROVE  b = m
<1>1. Len(m) = Len(b) /\ Len(m) \in Nat /\ DOMAIN m = 1 .. Len(m)
  BY DEF AlikeTexts, Words
<1>2. ASSUME NEW j \in 1 .. Len(m) PROVE m[j] = b[j]
  BY <1>1 DEF AlikeTexts, Alike
<1>3. \A S : \A x, y \in Seq(S) :
        Len(x) = Len(y) /\ (\A j \in 1 .. Len(x) : x[j] = y[j]) => x = y
  BY SeqEqual
<1> QED
  BY ONLY <1>1, <1>2, <1>3, m \in Words, b \in Words DEF Words

LEMMA AcceptsAlike ==
  ASSUME NEW part \in RuleParts, NEW m \in Words, NEW b \in Words, AlikeTexts(m, b),
         \A words \in Literals(part) : \A k \in DOMAIN words : words[k].digits = 0,
         Accepts(part, m)
  PROVE  Accepts(part, b)
<1>1. CASE m \in Literals(part)
  <2>1. b = m
    BY <1>1, OnlyLikeItself
  <2> QED
    BY <2>1
<1>2. CASE m \notin Literals(part)
  <2>1. part.kind # "text" /\ part.kind # "any"
    BY <1>2 DEF Accepts, Literals
  <2>2. Len(b) = Len(m)
    BY DEF AlikeTexts
  <2>3. CASE part.kind = "int"
    <3>1. Len(m) = 1 /\ m[1].digits > 0
      BY <2>3 DEF Accepts
    <3>2. 1 \in 1 .. Len(m) /\ m[1] = m[1]
      BY <3>1
    <3>3. Alike(m[1], b[1])
      BY <3>2 DEF AlikeTexts
    <3>4. b[1].digits > 0
      BY <3>1, <3>3 DEF Alike
    <3> QED
      BY <2>2, <2>3, <3>1, <3>4 DEF Accepts
  <2>4. CASE part.kind # "int"
    BY <2>1, <2>2, <2>4 DEF Accepts
  <2> QED
    BY <2>3, <2>4
<1> QED
  BY <1>1, <1>2

\* The segments of messages that are alike are alike.
LEMMA SegmentsAlike ==
  ASSUME NEW m \in Words, NEW b \in Words, AlikeTexts(m, b),
         NEW l \in Nat, NEW k \in Nat, l <= k, k <= Len(m)
  PROVE  /\ SubSeq(m, l + 1, k) \in Words /\ SubSeq(b, l + 1, k) \in Words
         /\ AlikeTexts(SubSeq(m, l + 1, k), SubSeq(b, l + 1, k))
<1>1. PICK s, t : s = SubSeq(m, l + 1, k) /\ t = SubSeq(b, l + 1, k)
  OBVIOUS
<1>2. m \in Seq(Word) /\ b \in Seq(Word) /\ k <= Len(b) /\ Len(m) \in Nat
  BY DEF Words, AlikeTexts
<1>3. s \in Seq(Word) /\ Len(s) = k - l /\ \A i \in 1 .. k - l : s[i] = m[l + i]
  BY ONLY <1>1, <1>2, SegmentWords, l \in Nat, k \in Nat, l <= k, k <= Len(m)
<1>4. t \in Seq(Word) /\ Len(t) = k - l /\ \A i \in 1 .. k - l : t[i] = b[l + i]
  BY ONLY <1>1, <1>2, SegmentWords, l \in Nat, k \in Nat, l <= k
<1>5. ASSUME NEW i \in 1 .. k - l PROVE Alike(s[i], t[i])
  <2>1. l + i \in 1 .. Len(m)
    BY <1>2
  <2>2. Alike(m[l + i], b[l + i])
    BY <2>1 DEF AlikeTexts
  <2> QED
    BY <1>3, <1>4, <2>2
<1> QED
  BY <1>1, <1>3, <1>4, <1>5 DEF Words, AlikeTexts

\* A rule without numbers in its texts cuts a message the same way however its
\* numbers are written.
LEMMA CutsKept ==
  ASSUME NEW r \in Rules, NumbersAreVariables(r),
         NEW m \in Words, NEW b \in Words, AlikeTexts(m, b), NEW c \in Cuts(r, m)
  PROVE  c \in Cuts(r, b)
<1>1. PICK n : n = Len(Parts(r))
  OBVIOUS
<1>2. n \in Nat /\ DOMAIN Parts(r) = 1 .. n /\ \A i \in 1 .. n : Parts(r)[i] \in RuleParts
  BY <1>1, RulesAreDeclared DEF Parts
<1>3. Len(m) = Len(b) /\ Len(m) \in Nat
  BY DEF AlikeTexts, Words
<1>4. c \in [0 .. n -> 0 .. Len(b)] /\ (Declared[r].strict => c[0] = 0 /\ c[n] = Len(b))
  BY <1>1, <1>3 DEF Cuts
<1>5. ASSUME NEW i \in 1 .. n
      PROVE  c[i - 1] <= c[i] /\ Accepts(Parts(r)[i], Segment(b, c, i))
  <2>1. c[i - 1] <= c[i] /\ Accepts(Parts(r)[i], Segment(m, c, i))
    BY <1>1, <1>5 DEF Cuts
  <2>2. PICK l \in Nat : l = c[i - 1]
    BY <1>2, <1>3, <1>4
  <2>3. PICK k \in Nat : k = c[i] /\ k <= Len(m)
    BY <1>2, <1>3, <1>4
  <2>4. PICK s, t : s = SubSeq(m, l + 1, k) /\ t = SubSeq(b, l + 1, k)
    OBVIOUS
  <2>5. s \in Words /\ t \in Words /\ AlikeTexts(s, t)
    BY <2>1, <2>2, <2>3, <2>4, SegmentsAlike
  <2>6. \A words \in Literals(Parts(r)[i]) : \A k1 \in DOMAIN words : words[k1].digits = 0
    BY <1>2, <1>5 DEF NumbersAreVariables
  <2>7. Accepts(Parts(r)[i], s)
    BY <2>1, <2>2, <2>3, <2>4 DEF Segment
  <2>8. Accepts(Parts(r)[i], t)
    BY <1>2, <2>5, <2>6, <2>7, AcceptsAlike
  <2> QED
    BY <2>1, <2>2, <2>3, <2>4, <2>8 DEF Segment
<1> QED
  BY <1>1, <1>4, <1>5 DEF Cuts

LEMMA CutsAlike ==
  ASSUME NEW r \in Rules, NumbersAreVariables(r),
         NEW m \in Words, NEW b \in Words, AlikeTexts(m, b)
  PROVE  Cuts(r, b) = Cuts(r, m)
<1>1. AlikeTexts(b, m)
  BY AlikeBothWays
<1>2. \A c \in Cuts(r, m) : c \in Cuts(r, b)
  BY CutsKept
<1>3. \A c \in Cuts(r, b) : c \in Cuts(r, m)
  BY <1>1, CutsKept
<1> QED
  BY <1>2, <1>3

\* The one of some cuts that a search finds.
First(C) == CHOOSE c \in C : \A d \in C : c = d \/ FoundBefore(c, d)

LEMMA SearchIsFirst ==
  ASSUME NEW r, NEW m
  PROVE  Search(r, m) = First(Cuts(r, m))
BY DEF Search, First

\* A search finds one whenever there is one: leftmost and then greedy, part by part.
LEMMA FirstIsFound ==
  ASSUME NEW n \in Nat, NEW l \in Nat, NEW C, C \subseteq [0 .. n -> 0 .. l], C # {}
  PROVE  First(C) \in C
<1> DEFINE Same(c, d, k) == \A j \in 0 .. k - 1 : c[j] = d[j]
           Better(c, d, i) == Same(c, d, i) /\ IF i = 0 THEN c[i] < d[i] ELSE c[i] > d[i]
           Leads(c, k) ==
             \A d \in C : Same(c, d, k) \/ \E i \in 0 .. k - 1 : Better(c, d, i)
           Led(k) == \E c \in C : Leads(c, k)
<1>1. Led(0)
  OBVIOUS
<1>2. ASSUME NEW k \in 0 .. n, Led(k) PROVE Led(k + 1)
  <2>1. PICK c \in C : Leads(c, k)
    BY <1>2
  <2>2. PICK score : score = [v \in 0 .. l |-> IF k = 0 THEN v + 1 ELSE l + 1 - v]
    OBVIOUS
  <2>3. PICK I : I = {score[d[k]] : d \in {x \in C : Same(c, x, k)}}
    OBVIOUS
  <2>4. \A d \in C : d[k] \in 0 .. l /\ score[d[k]] \in 1 .. l + 1
    <3>1. \A d \in C : d[k] \in 0 .. l
      BY <1>2
    <3>2. \A v \in 0 .. l : score[v] \in 1 .. l + 1
      BY <2>2
    <3> QED
      BY <3>1, <3>2
  <2>5. I \subseteq 1 .. l + 1 /\ I # {} /\ l + 1 \in Nat
    <3>1. c \in {x \in C : Same(c, x, k)}
      BY <2>1
    <3>2. score[c[k]] \in I
      BY <2>3, <3>1
    <3> QED
      BY <2>3, <2>4, <3>2
  <2>6. PICK low \in I : \A i \in I : low <= i
    BY ONLY <2>5, Least
  <2>7. PICK b \in C : Same(c, b, k) /\ score[b[k]] = low
    BY <2>3, <2>6
  <2>8. ASSUME NEW d \in C
        PROVE  Same(b, d, k + 1) \/ \E i \in 0 .. k : Better(b, d, i)
    <3>1. CASE Same(c, d, k)
      <4>1. Same(b, d, k)
        BY <2>7, <3>1
      <4>2. low <= score[d[k]]
        BY <2>3, <2>6, <3>1
      <4>3. CASE b[k] = d[k]
        <5>1. \A j \in 0 .. (k + 1) - 1 : j \in 0 .. k - 1 \/ j = k
          BY <1>2
        <5> QED
          BY <4>1, <4>3, <5>1
      <4>4. CASE b[k] # d[k]
        <5>1. IF k = 0 THEN b[k] < d[k] ELSE b[k] > d[k]
          <6>1. PICK v, w \in 0 .. l : v = b[k] /\ w = d[k]
            BY <2>4
          <6>2. score[v] <= score[w] /\ v # w
            BY <2>7, <4>2, <4>4, <6>1
          <6>3. score[v] = IF k = 0 THEN v + 1 ELSE l + 1 - v
            BY <2>2
          <6>4. score[w] = IF k = 0 THEN w + 1 ELSE l + 1 - w
            BY <2>2
          <6>5. IF k = 0 THEN v < w ELSE v > w
            BY <6>2, <6>3, <6>4
          <6> QED
            BY <6>1, <6>5
        <5>2. k \in 0 .. k
          BY <1>2
        <5> QED
          BY <4>1, <5>1, <5>2
      <4> QED
        BY <4>3, <4>4
    <3>2. ASSUME NEW i \in 0 .. k - 1, Better(c, d, i)
          PROVE  \E x \in 0 .. k : Better(b, d, x)
      <4>1. i \in 0 .. k /\ c[i] = b[i]
        BY <1>2, <2>7
      <4>2. Same(b, d, i)
        BY <1>2, <2>7, <3>2
      <4>3. Better(b, d, i)
        BY <3>2, <4>1, <4>2
      <4> QED
        BY <4>1, <4>3
    <3> QED
      BY <2>1, <3>1, <3>2
  <2>9. (k + 1) - 1 = k
    BY <1>2
  <2>10. Leads(b, k + 1)
    BY <2>8, <2>9
  <2> QED
    BY <2>10
<1> HIDE DEF Led
<1>3. Led(n + 1)
  <2> SUFFICES ASSUME ~Led(n + 1) PROVE FALSE
    OBVIOUS
  <2>1. PICK I : I = {k \in 1 .. n + 1 : ~Led(k)}
    OBVIOUS
  <2>2. n + 1 \in I /\ I \subseteq 1 .. n + 1 /\ n + 1 \in Nat
    BY <2>1
  <2>3. PICK k \in I : \A i \in I : k <= i
    BY ONLY <2>2, Least
  <2>4. k \in 1 .. n + 1 /\ ~Led(k)
    BY <2>1
  <2>5. k - 1 \in 0 .. n /\ (k - 1) + 1 = k
    BY <2>4
  <2>6. Led(k - 1)
    <3>1. CASE k = 1
      BY <1>1, <3>1
    <3>2. CASE k # 1
      <4>1. k - 1 \in 1 .. n + 1 /\ ~(k <= k - 1)
        BY <2>4, <3>2
      <4> QED
        BY <2>1, <2>3, <4>1
    <3> QED
      BY <3>1, <3>2
  <2> QED
    BY <1>2, <2>4, <2>5, <2>6
<1>4. PICK c \in C : Leads(c, n + 1)
  BY <1>3 DEF Led
<1>5. (n + 1) - 1 = n
  OBVIOUS
<1>6. ASSUME NEW d \in C PROVE c = d \/ FoundBefore(c, d)
  <2>1. c \in [0 .. n -> 0 .. l] /\ d \in [0 .. n -> 0 .. l]
    OBVIOUS
  <2>2. Same(c, d, n + 1) => c = d
    BY <1>5, <2>1
  <2>3. ASSUME NEW i \in 0 .. n, Better(c, d, i) PROVE FoundBefore(c, d)
    BY <2>1, <2>3 DEF FoundBefore
  <2> QED
    BY <1>4, <1>5, <2>2, <2>3
<1> QED
  BY <1>6 DEF First

\* Cuts that climb from each to the next climb throughout.
LEMMA CutsClimb ==
  ASSUME NEW n \in Nat, NEW l \in Nat, NEW c \in [0 .. n -> 0 .. l],
         \A i \in 1 .. n : c[i - 1] <= c[i],
         NEW i \in 0 .. n, NEW k \in 0 .. n, i <= k
  PROVE  c[i] <= c[k]
<1> SUFFICES ASSUME ~(c[i] <= c[k]) PROVE FALSE
  OBVIOUS
<1>1. PICK I : I = {j \in 1 .. n : i <= j /\ ~(c[i] <= c[j])}
  OBVIOUS
<1>2. \A j \in 0 .. n : c[j] \in Nat
  OBVIOUS
<1>3. k # i
  BY <1>2
<1>4. k \in I /\ I \subseteq 1 .. n
  BY <1>1, <1>3
<1>5. PICK j \in I : \A x \in I : j <= x
  BY ONLY <1>4, Least, n \in Nat
<1>6. j \in 1 .. n /\ i <= j /\ ~(c[i] <= c[j])
  BY <1>1
<1>7. j # i
  BY <1>2, <1>6
<1>8. j - 1 \in 0 .. n /\ i <= j - 1 /\ ~(j <= j - 1) /\ j \in 0 .. n
  BY <1>6, <1>7
<1>9. c[i] <= c[j - 1]
  <2>1. CASE j - 1 \in 1 .. n
    BY <1>1, <1>5, <1>8, <2>1
  <2>2. CASE j - 1 \notin 1 .. n
    <3>1. j - 1 = i
      BY <1>8, <2>2
    <3> QED
      BY <1>2, <3>1
  <2> QED
    BY <2>1, <2>2
<1>10. c[j - 1] <= c[j]
  BY <1>6
<1>11. c[i] \in Nat /\ c[j] \in Nat /\ c[j - 1] \in Nat
  BY <1>2, <1>8
<1> QED
  BY ONLY <1>6, <1>9, <1>10, <1>11

\* Two segments next to each other are one.
LEMMA SegmentsJoin ==
  ASSUME NEW S, NEW text \in Seq(S), NEW m \in Nat, NEW k \in Nat, m <= k, k <= Len(text)
  PROVE  SubSeq(text, 1, m) \o SubSeq(text, m + 1, k) = SubSeq(text, 1, k)
<1>1. PICK a, b, w : /\ a = SubSeq(text, 0 + 1, m)
                    /\ b = SubSeq(text, m + 1, k)
                    /\ w = SubSeq(text, 0 + 1, k)
  OBVIOUS
<1>2. 0 \in Nat /\ 0 <= m /\ 0 <= k /\ m <= Len(text) /\ Len(text) \in Nat
  OBVIOUS
<1>3. a \in Seq(S) /\ Len(a) = m - 0 /\ \A i \in 1 .. m - 0 : a[i] = text[0 + i]
  BY ONLY <1>1, <1>2, SegmentWords, text \in Seq(S), m \in Nat
<1>4. b \in Seq(S) /\ Len(b) = k - m /\ \A i \in 1 .. k - m : b[i] = text[m + i]
  BY ONLY <1>1, <1>2, SegmentWords,
          text \in Seq(S), m \in Nat, k \in Nat, m <= k, k <= Len(text)
<1>5. w \in Seq(S) /\ Len(w) = k - 0 /\ \A i \in 1 .. k - 0 : w[i] = text[0 + i]
  BY ONLY <1>1, <1>2, SegmentWords, text \in Seq(S), k \in Nat, k <= Len(text)
<1>6. PICK t : t = a \o b
  OBVIOUS
<1>7. /\ t \in Seq(S) /\ Len(t) = Len(a) + Len(b)
      /\ \A i \in 1 .. Len(a) + Len(b) : t[i] = IF i <= Len(a) THEN a[i] ELSE b[i - Len(a)]
  BY ONLY <1>3, <1>4, <1>6, ConcatProperties
<1>8. Len(a) = m /\ Len(t) = k /\ Len(w) = k
  BY <1>3, <1>4, <1>5, <1>7
<1>9. ASSUME NEW i \in 1 .. k PROVE t[i] = w[i]
  <2>1. w[i] = text[i]
    BY <1>5
  <2>2. CASE i <= m
    BY <1>3, <1>7, <1>8, <2>1, <2>2
  <2>3. CASE ~(i <= m)
    <3>1. i - m \in 1 .. k - m /\ m + (i - m) = i
      BY <2>3
    <3>2. t[i] = b[i - m]
      BY <1>7, <1>8, <2>3
    <3> QED
      BY <1>4, <2>1, <3>1, <3>2
  <2> QED
    BY <2>2, <2>3
<1>10. t = w
  <2>1. \A x, y \in Seq(S) :
          Len(x) = Len(y) /\ (\A i \in 1 .. Len(x) : x[i] = y[i]) => x = y
    BY SeqEqual
  <2> QED
    BY ONLY <1>5, <1>7, <1>8, <1>9, <2>1
<1>11. 0 + 1 = 1
  OBVIOUS
<1> QED
  BY ONLY <1>1, <1>6, <1>10, <1>11

\* The segments of a text, put together, are the text.
LEMMA FlattenSegments ==
  ASSUME NEW S, NEW text \in Seq(S), NEW n \in Nat,
         NEW c \in [0 .. n -> 0 .. Len(text)], c[0] = 0, c[n] = Len(text),
         \A i \in 1 .. n : c[i - 1] <= c[i],
         NEW seqs, seqs = [i \in 1 .. n |-> SubSeq(text, c[i - 1] + 1, c[i])]
  PROVE  FlattenSeq(seqs) = text
<1> DEFINE Piles(g) ==
             g = [i \in 1 .. Len(seqs) |-> IF i = 1 THEN seqs[i] ELSE g[i - 1] \o seqs[i]]
<1>1. Len(text) \in Nat
  OBVIOUS
<1>2. ASSUME NEW i \in 1 .. n
      PROVE  /\ c[i - 1] \in Nat /\ c[i] \in Nat /\ c[i - 1] <= c[i] /\ c[i] <= Len(text)
             /\ seqs[i] \in Seq(S)
  <2>1. c[i - 1] \in Nat /\ c[i] \in Nat /\ c[i - 1] <= c[i] /\ c[i] <= Len(text)
    BY <1>1
  <2>2. PICK l, k \in Nat : l = c[i - 1] /\ k = c[i]
    BY <2>1
  <2>3. SubSeq(text, l + 1, k) \in Seq(S)
    <3>1. l <= k /\ k <= Len(text)
      BY ONLY <2>1, <2>2
    <3> QED
      BY ONLY <3>1, SegmentWords, text \in Seq(S), l \in Nat, k \in Nat
  <2> QED
    BY <2>1, <2>2, <2>3
<1>3. seqs \in Seq(Seq(S)) /\ Len(seqs) = n /\ DOMAIN seqs = 1 .. n
  BY <1>2
<1>4. CASE n = 0
  <2>1. Len(text) = 0 /\ Len(seqs) = 0
    BY <1>3, <1>4
  <2>2. text = <<>> /\ seqs = <<>>
    BY <1>3, <2>1, EmptySeq
  <2> QED
    BY <2>1, <2>2 DEF FlattenSeq
<1>5. CASE n # 0
  <2>1. PICK f : f = [i \in 1 .. n |-> SubSeq(text, 1, c[i])]
    OBVIOUS
  <2>2. Piles(f)
    <3>1. ASSUME NEW i \in 1 .. n
          PROVE  f[i] = IF i = 1 THEN seqs[i] ELSE f[i - 1] \o seqs[i]
      <4>1. CASE i = 1
        BY <2>1, <4>1
      <4>2. CASE i # 1
        <5>1. i - 1 \in 1 .. n
          BY <4>2
        <5>2. PICK l, k \in Nat : l = c[i - 1] /\ k = c[i]
          BY <1>2
        <5>3. l <= k /\ k <= Len(text)
          BY <1>2, <5>2
        <5>4. SubSeq(text, 1, l) \o SubSeq(text, l + 1, k) = SubSeq(text, 1, k)
          BY ONLY <5>2, <5>3, SegmentsJoin, text \in Seq(S)
        <5> QED
          BY <2>1, <4>2, <5>1, <5>2, <5>4
      <4> QED
        BY <4>1, <4>2
    <3>2. PICK h : h = [i \in 1 .. n |-> IF i = 1 THEN seqs[i] ELSE f[i - 1] \o seqs[i]]
      OBVIOUS
    <3>3. f = h
      BY <2>1, <3>1, <3>2
    <3> QED
      BY <1>3, <3>2, <3>3
  <2>3. ASSUME NEW g, Piles(g) PROVE g = f
    <3>1. /\ g = [i \in 1 .. n |-> IF i = 1 THEN seqs[i] ELSE g[i - 1] \o seqs[i]]
          /\ f = [i \in 1 .. n |-> IF i = 1 THEN seqs[i] ELSE f[i - 1] \o seqs[i]]
      BY <1>3, <2>2, <2>3
    <3>2. ASSUME NEW i \in 1 .. n
          PROVE  /\ i = 1 => g[i] = f[i]
                 /\ i # 1 => g[i] = g[i - 1] \o seqs[i] /\ f[i] = f[i - 1] \o seqs[i]
      <4>1. g[i] = IF i = 1 THEN seqs[i] ELSE g[i - 1] \o seqs[i]
        BY ONLY <3>1, i \in 1 .. n
      <4>2. f[i] = IF i = 1 THEN seqs[i] ELSE f[i - 1] \o seqs[i]
        BY ONLY <3>1, i \in 1 .. n
      <4> QED
        BY ONLY <4>1, <4>2
    <3>3. PICK I : I = {i \in 1 .. n : g[i] # f[i]}
      OBVIOUS
    <3>4. ASSUME I # {} PROVE FALSE
      <4>1. I \subseteq 1 .. n
        BY <3>3
      <4>2. PICK i \in I : \A k \in I : i <= k
        BY ONLY <3>4, <4>1, Least, n \in Nat
      <4>3. i \in 1 .. n /\ g[i] # f[i]
        BY <3>3
      <4>4. CASE i = 1
        BY ONLY <3>2, <4>3, <4>4
      <4>5. CASE i # 1
        <5>1. i - 1 \in 1 .. n /\ ~(i <= i - 1)
          BY <4>3, <4>5
        <5>2. g[i - 1] = f[i - 1]
          BY <3>3, <4>2, <5>1
        <5>3. g[i] = g[i - 1] \o seqs[i] /\ f[i] = f[i - 1] \o seqs[i]
          BY ONLY <3>2, <4>3, <4>5
        <5> QED
          BY ONLY <4>3, <5>2, <5>3
      <4> QED
        BY <4>4, <4>5
    <3>5. \A i \in 1 .. n : g[i] = f[i]
      BY <3>3, <3>4
    <3> QED
      BY <3>1, <3>5
  <2>4. PICK g : g = CHOOSE x : Piles(x)
    OBVIOUS
  <2>5. g = f
    BY <2>2, <2>3, <2>4
  <2>6. FlattenSeq(seqs) = g[Len(seqs)]
    BY <1>3, <1>5, <2>4 DEF FlattenSeq
  <2>7. f[n] = SubSeq(text, 1, Len(text))
    BY <1>5, <2>1
  <2>8. SubSeq(text, 1, Len(text)) = text
    <3>1. PICK t : t = SubSeq(text, 0 + 1, Len(text))
      OBVIOUS
    <3>2. /\ t \in Seq(S) /\ Len(t) = Len(text) - 0
          /\ \A i \in 1 .. Len(text) - 0 : t[i] = text[0 + i]
      <4>1. 0 \in Nat /\ 0 <= Len(text) /\ Len(text) <= Len(text)
        BY <1>1
      <4> QED
        BY ONLY <1>1, <3>1, <4>1, SegmentWords, text \in Seq(S)
    <3>3. Len(t) = Len(text) /\ \A i \in 1 .. Len(t) : t[i] = text[i]
      BY <1>1, <3>2
    <3>4. \A x, y \in Seq(S) :
            Len(x) = Len(y) /\ (\A i \in 1 .. Len(x) : x[i] = y[i]) => x = y
      BY SeqEqual
    <3>5. t = text
      BY ONLY <3>2, <3>3, <3>4, text \in Seq(S)
    <3> QED
      BY <3>1, <3>5
  <2> QED
    BY <1>3, <2>5, <2>6, <2>7, <2>8
<1> QED
  BY <1>4, <1>5

-----------------------------------------------------------------------------
(* What is built from the values a stanza has given.                       *)

\* A converter gives back the words it was given, but for how a number is written.
LEMMA ConvertsBack ==
  ASSUME NEW part \in RuleParts, ~Bounded(part), part.kind # "text", NEW words \in Words
  PROVE  ToPython(part, ToMessage(part, words)) =
           IF part.kind = "int" THEN <<Written(words[1].value)>> ELSE words
<1>1. CASE part.kind = "int"
  <2>1. part.fixed = 0 /\ part.min = None /\ part.max = None
    BY <1>1 DEF Bounded
  <2>2. PICK value : value = Number(words[1].value)
    OBVIOUS
  <2>3. value.text = <<>> /\ value.number = words[1].value
    BY <2>2 DEF Number
  <2>4. ToMessage(part, words) = value
    BY <1>1, <2>1, <2>2 DEF ToMessage
  <2>5. ToPython(part, value) = <<Written(words[1].value)>>
    BY <1>1, <2>1, <2>3 DEF ToPython
  <2> QED
    BY <1>1, <2>4, <2>5
<1>2. CASE part.kind # "int"
  BY <1>2 DEF ToMessage, ToPython, Text
<1> QED
  BY <1>1, <1>2

\* A number written anew is the same number.
LEMMA WrittenIsWord ==
  ASSUME NEW w \in Word
  PROVE  Written(w.value) \in Word /\ Written(w.value).digits > 0
         /\ Written(w.value).value = w.value
<1>1. w.value \in Nat
  <2>1. CASE w \in [word : STRING, digits : {0}, value : {0}]
    BY <2>1
  <2>2. CASE w \in [word : {""}, digits : Nat \ {0}, value : Nat]
    BY <2>2
  <2> QED
    BY <2>1, <2>2 DEF Word
<1>2. PICK v \in Nat : v = w.value
  BY <1>1
<1>3. PICK d \in Nat \ {0} : d = IF v < 10 THEN 1 ELSE 2
  OBVIOUS
<1>4. PICK x : x = [word |-> "", digits |-> d, value |-> v]
  OBVIOUS
<1>5. Written(v) = x
  BY <1>3, <1>4 DEF Written
<1>6. x \in [word : {""}, digits : Nat \ {0}, value : Nat]
  BY <1>4
<1>7. d > 0 /\ x.digits = d /\ x.value = v
  <2>1. d > 0
    OBVIOUS
  <2>2. x.digits = d /\ x.value = v
    BY ONLY <1>4
  <2> QED
    BY <2>1, <2>2
<1> QED
  BY <1>2, <1>5, <1>6, <1>7 DEF Word

\* b is m, cut into n parts, with the numbers that the parts N stand for replaced.
Renumbered(m, b, n, c, N) ==
  /\ m \in Words /\ b \in Words /\ Len(b) = Len(m)
  /\ n \in Nat /\ c \in [0 .. n -> 0 .. Len(m)] /\ N \subseteq 1 .. n
  /\ \A i \in 1 .. n : c[i - 1] <= c[i]
  /\ \A i \in N : c[i] = c[i - 1] + 1
  /\ \A j \in 1 .. Len(m) : b[j] = m[j] \/ \E i \in N : c[i] = j

\* Those parts find the new numbers, and the others the words they found before.
LEMMA RewrittenSegments ==
  ASSUME NEW m, NEW b, NEW n, NEW c, NEW N, Renumbered(m, b, n, c, N), NEW i \in 1 .. n
  PROVE  Segment(b, c, i) = IF i \in N THEN <<b[c[i]]>> ELSE Segment(m, c, i)
<1> USE DEF Renumbered, Segment
<1>1. m \in Seq(Word) /\ b \in Seq(Word) /\ Len(m) \in Nat
  BY DEF Words
<1>2. ASSUME NEW x \in 0 .. n PROVE c[x] \in Nat /\ c[x] <= Len(m)
  BY <1>1
<1>3. c[i - 1] \in Nat /\ c[i] \in Nat /\ c[i - 1] <= c[i] /\ c[i] <= Len(m)
  BY <1>2
<1>4. PICK l \in Nat : l = c[i - 1]
  BY <1>3
<1>5. PICK k \in Nat : k = c[i]
  BY <1>3
<1>6. PICK s, t : s = SubSeq(m, l + 1, k) /\ t = SubSeq(b, l + 1, k)
  OBVIOUS
<1>7. l <= k /\ k <= Len(m) /\ k <= Len(b)
  BY <1>1, <1>3, <1>4, <1>5
<1>8. s \in Seq(Word) /\ Len(s) = k - l /\ \A j \in 1 .. k - l : s[j] = m[l + j]
  BY ONLY <1>1, <1>6, <1>7, SegmentWords, l \in Nat, k \in Nat
<1>9. t \in Seq(Word) /\ Len(t) = k - l /\ \A j \in 1 .. k - l : t[j] = b[l + j]
  BY ONLY <1>1, <1>6, <1>7, SegmentWords, l \in Nat, k \in Nat
<1>10. CASE i \in N
  <2>1. k = l + 1 /\ k \in 1 .. Len(m)
    BY <1>1, <1>4, <1>5, <1>7, <1>10
  <2>2. Len(t) = 1 /\ t[1] = b[k]
    <3>1. k - l = 1 /\ 1 \in 1 .. 1
      BY <2>1
    <3> QED
      BY <1>9, <2>1, <3>1
  <2>3. t = <<b[k]>>
    BY <1>9, <2>2
  <2> QED
    BY <1>4, <1>5, <1>6, <1>10, <2>3
<1>11. CASE i \notin N
  <2>1. ASSUME NEW j \in 1 .. k - l PROVE s[j] = t[j]
    <3>1. l + j \in 1 .. Len(m) /\ l < l + j /\ l + j <= k
      BY <1>7, <1>1
    <3>2. ASSUME NEW x \in N, c[x] = l + j PROVE FALSE
      <4>1. x \in 1 .. n /\ x # i
        BY <1>11
      <4>2. CASE x < i
        <5>1. x \in 0 .. n /\ i - 1 \in 0 .. n /\ x <= i - 1
          BY <4>1, <4>2
        <5>2. c[x] <= c[i - 1]
          BY <1>1, <5>1, CutsClimb
        <5> QED
          BY <1>4, <3>1, <3>2, <5>2
      <4>3. CASE x > i
        <5>1. i \in 0 .. n /\ x - 1 \in 0 .. n /\ i <= x - 1
          BY <4>1, <4>3
        <5>2. c[i] <= c[x - 1]
          BY <1>1, <5>1, CutsClimb
        <5>3. c[x] = c[x - 1] + 1 /\ c[x - 1] \in Nat
          BY <1>2, <5>1
        <5> QED
          BY <1>5, <3>1, <3>2, <5>2, <5>3
      <4> QED
        BY <4>1, <4>2, <4>3
    <3>3. b[l + j] = m[l + j]
      BY <3>1, <3>2
    <3> QED
      BY <1>8, <1>9, <3>3
  <2>2. \A x, y \in Seq(Word) :
          Len(x) = Len(y) /\ (\A j \in 1 .. Len(x) : x[j] = y[j]) => x = y
    BY SeqEqual
  <2>3. s = t
    BY ONLY <1>8, <1>9, <2>1, <2>2
  <2> QED
    BY <1>4, <1>5, <1>6, <1>11, <2>3
<1> QED
  BY <1>10, <1>11
\* A rule Rule.build can undo Rule.match for.
Invertible(r) ==
  /\ Declared[r].strict
  /\ \A i \in Variables(r) : ~Bounded(Parts(r)[i])
  /\ Captured(r) \cap DOMAIN Defaults(r) = {}
  /\ NumbersAreVariables(r)

\* The values of the arguments when a message is cut this way.
ValuesOf(r, m, c) ==
  [name \in Arguments(r) |->
     IF name \in DOMAIN Defaults(r) THEN Defaults(r)[name]
     ELSE LET i == PartOf(r, name)
          IN  ToMessage(Parts(r)[i], Segment(m, c, i))]

\* A part is the only one that has its name.
LEMMA PartHasName ==
  ASSUME NEW r \in Rules, NEW i \in Variables(r)
  PROVE  PartOf(r, Parts(r)[i].name) = i
BY NamesAreUsedOnce DEF PartOf

LEMMA ArgumentIsPart ==
  ASSUME NEW r \in Rules, NEW name \in Arguments(r), name \notin DOMAIN Defaults(r)
  PROVE  PartOf(r, name) \in Variables(r)
<1>1. PICK i \in Variables(r) : Parts(r)[i].name = name
  BY DEF Arguments, Captured
<1>2. PartOf(r, name) = i
  BY <1>1, PartHasName
<1> QED
  BY <1>1, <1>2

\* The message built from the values of a cut: like the one that was cut, and cut
\* the same way it gives the same values.
LEMMA BuiltFromCut ==
  ASSUME NEW r \in Rules, Invertible(r), NEW m \in Words, NEW c \in Cuts(r, m)
  PROVE  \E b \in Words : /\ RuleBuild(r, ValuesOf(r, m, c)) = b
                         /\ AlikeTexts(m, b)
                         /\ ValuesOf(r, b, c) = ValuesOf(r, m, c)
<1>1. PICK n : n = Len(Parts(r))
  OBVIOUS
<1>2. n \in Nat /\ DOMAIN Parts(r) = 1 .. n /\ \A i \in 1 .. n : Parts(r)[i] \in RuleParts
  BY <1>1, RulesAreDeclared DEF Parts
<1>3. /\ c \in [0 .. n -> 0 .. Len(m)] /\ c[0] = 0 /\ c[n] = Len(m)
      /\ \A i \in 1 .. n : c[i - 1] <= c[i] /\ Accepts(Parts(r)[i], Segment(m, c, i))
  BY <1>1 DEF Cuts, Invertible
<1>4. m \in Seq(Word) /\ Len(m) \in Nat
  BY DEF Words
<1>5. PICK N : N = {i \in 1 .. n : Parts(r)[i].kind = "int"}
  OBVIOUS
<1>6. PICK F : F = {c[i] : i \in N}
  OBVIOUS
<1>7. PICK b : b = [j \in 1 .. Len(m) |-> IF j \in F THEN Written(m[j].value) ELSE m[j]]
  OBVIOUS
<1>8. ASSUME NEW i \in 1 .. n
      PROVE  /\ c[i - 1] \in Nat /\ c[i] \in Nat /\ c[i - 1] <= c[i] /\ c[i] <= Len(m)
             /\ Segment(m, c, i) \in Seq(Word)
             /\ Len(Segment(m, c, i)) = c[i] - c[i - 1]
             /\ \A j \in 1 .. c[i] - c[i - 1] : Segment(m, c, i)[j] = m[c[i - 1] + j]
  <2>1. c[i - 1] \in Nat /\ c[i] \in Nat /\ c[i - 1] <= c[i] /\ c[i] <= Len(m)
    <3>1. c \in [0 .. n -> 0 .. Len(m)] /\ c[i - 1] <= c[i]
      BY <1>3
    <3>2. i \in 0 .. n /\ i - 1 \in 0 .. n
      BY <1>2
    <3> QED
      BY ONLY <1>4, <3>1, <3>2
  <2>2. PICK l \in Nat : l = c[i - 1]
    BY <2>1
  <2>3. PICK k \in Nat : k = c[i]
    BY <2>1
  <2>4. PICK s : s = SubSeq(m, l + 1, k)
    OBVIOUS
  <2>5. s \in Seq(Word) /\ Len(s) = k - l /\ \A j \in 1 .. k - l : s[j] = m[l + j]
    <3>1. l <= k /\ k <= Len(m)
      BY <2>1, <2>2, <2>3
    <3> QED
      BY ONLY <1>4, <2>4, <3>1, SegmentWords, l \in Nat, k \in Nat
  <2>6. Segment(m, c, i) = s
    BY <2>2, <2>3, <2>4 DEF Segment
  <2> QED
    BY <2>1, <2>2, <2>3, <2>5, <2>6
<1>9. ASSUME NEW i \in N
      PROVE  /\ c[i] = c[i - 1] + 1 /\ m[c[i]].digits > 0
             /\ Segment(m, c, i)[1] = m[c[i]]
  <2>1. i \in 1 .. n /\ Parts(r)[i].kind = "int"
    BY <1>5
  <2>2. Len(Segment(m, c, i)) = 1 /\ Segment(m, c, i)[1].digits > 0
    BY <1>3, <2>1 DEF Accepts
  <2>3. c[i] - c[i - 1] = 1 /\ c[i] = c[i - 1] + 1 /\ 1 \in 1 .. 1
    <3>1. PICK l \in Nat : l = c[i - 1]
      BY <1>8, <2>1
    <3>2. PICK k \in Nat : k = c[i]
      BY <1>8, <2>1
    <3>3. k - l = 1
      BY <1>8, <2>1, <2>2, <3>1, <3>2
    <3> QED
      BY ONLY <3>1, <3>2, <3>3, l \in Nat, k \in Nat
  <2>4. Segment(m, c, i)[1] = m[c[i - 1] + 1]
    BY <1>8, <2>1, <2>3
  <2> QED
    BY <2>2, <2>3, <2>4
<1>10. /\ b \in Words /\ Len(b) = Len(m) /\ AlikeTexts(m, b)
       /\ \A i \in 1 .. n :
            Segment(b, c, i) =
              IF i \in N THEN <<Written(m[c[i]].value)>> ELSE Segment(m, c, i)
  <2>1. ASSUME NEW j \in 1 .. Len(m) PROVE b[j] \in Word /\ Alike(m[j], b[j])
    <3>1. m[j] \in Word
      BY <1>4
    <3>2. CASE j \in F
      <4>1. PICK i \in N : c[i] = j
        BY <1>6, <3>2
      <4>2. m[j].digits > 0
        BY <1>9, <4>1
      <4>3. b[j] = Written(m[j].value)
        BY <1>7, <3>2
      <4> QED
        BY <3>1, <4>2, <4>3, WrittenIsWord DEF Alike
    <3>3. CASE j \notin F
      BY <1>7, <3>1, <3>3 DEF Alike
    <3> QED
      BY <3>2, <3>3
  <2>2. b \in Words /\ Len(b) = Len(m)
    <3>1. b \in [1 .. Len(m) -> Word]
      BY <1>7, <2>1
    <3> QED
      BY <1>4, <3>1 DEF Words
  <2>3. AlikeTexts(m, b)
    BY <2>1, <2>2 DEF AlikeTexts
  <2>4. ASSUME NEW i \in N PROVE b[c[i]] = Written(m[c[i]].value)
    <3>1. i \in 1 .. n /\ c[i] \in F
      BY <1>5, <1>6
    <3>2. c[i] \in 1 .. Len(m)
      BY <1>4, <1>8, <1>9, <3>1
    <3> QED
      BY <1>7, <3>1, <3>2
  <2>5. ASSUME NEW j \in 1 .. Len(m) PROVE b[j] = m[j] \/ \E i \in N : c[i] = j
    BY <1>6, <1>7
  <2>6. ASSUME NEW i \in 1 .. n
        PROVE  Segment(b, c, i) = IF i \in N THEN <<b[c[i]]>> ELSE Segment(m, c, i)
    <3>1. /\ c \in [0 .. n -> 0 .. Len(m)] /\ N \in SUBSET (1 .. n)
          /\ \A x \in 1 .. n : c[x - 1] <= c[x]
          /\ \A x \in N : c[x] = c[x - 1] + 1
      BY <1>3, <1>5, <1>9
    <3>2. Renumbered(m, b, n, c, N)
      BY <1>2, <2>2, <2>5, <3>1 DEF Renumbered
    <3> QED
      BY ONLY <3>2, RewrittenSegments, i \in 1 .. n
  <2> QED
    BY <2>2, <2>3, <2>4, <2>6
<1>11. PICK values : values = ValuesOf(r, m, c)
  OBVIOUS
<1>12. ASSUME NEW i \in Variables(r)
       PROVE  /\ i \in 1 .. n
              /\ values[Parts(r)[i].name] = ToMessage(Parts(r)[i], Segment(m, c, i))
  <2>1. i \in 1 .. n /\ PartOf(r, Parts(r)[i].name) = i
    BY <1>2, PartHasName DEF Variables
  <2>2. Parts(r)[i].name \in Captured(r)
    BY DEF Captured
  <2>3. Parts(r)[i].name \in Arguments(r) /\ Parts(r)[i].name \notin DOMAIN Defaults(r)
    BY <2>2 DEF Arguments, Invertible
  <2> QED
    BY <1>11, <2>1, <2>3 DEF ValuesOf
<1>13. ASSUME NEW i \in 1 .. n
       PROVE  (IF Parts(r)[i].kind = "text" THEN Parts(r)[i].words
               ELSE ToPython(Parts(r)[i], values[Parts(r)[i].name])) =
                Segment(b, c, i)
  <2>1. CASE Parts(r)[i].kind = "text"
    <3>1. Segment(m, c, i) = Parts(r)[i].words /\ i \notin N
      BY <1>3, <1>5, <2>1 DEF Accepts
    <3> QED
      BY <1>10, <2>1, <3>1
  <2>2. CASE Parts(r)[i].kind # "text"
    <3>1. i \in Variables(r) /\ ~Bounded(Parts(r)[i]) /\ Segment(m, c, i) \in Words
      BY <1>2, <1>8, <2>2 DEF Variables, Invertible, Words
    <3>2. ToPython(Parts(r)[i], values[Parts(r)[i].name]) =
            IF Parts(r)[i].kind = "int" THEN <<Written(Segment(m, c, i)[1].value)>>
            ELSE Segment(m, c, i)
      BY <1>2, <1>12, <2>2, <3>1, ConvertsBack
    <3>3. CASE i \in N
      BY <1>5, <1>9, <1>10, <2>2, <3>2, <3>3
    <3>4. CASE i \notin N
      <4>1. Parts(r)[i].kind # "int"
        BY <1>5, <3>4
      <4> QED
        BY <1>10, <2>2, <3>2, <3>4, <4>1
    <3> QED
      BY <3>3, <3>4
  <2> QED
    BY <2>1, <2>2
<1>14. RuleBuild(r, values) = b
  <2>1. PICK seqs : seqs = [i \in 1 .. n |-> SubSeq(b, c[i - 1] + 1, c[i])]
    OBVIOUS
  <2>2. seqs = [i \in 1 .. n |-> Segment(b, c, i)]
    BY <2>1 DEF Segment
  <2>3. FlattenSeq(seqs) = b
    <3>1. /\ c \in [0 .. n -> 0 .. Len(b)] /\ c[0] = 0 /\ c[n] = Len(b)
          /\ b \in Seq(Word) /\ \A i \in 1 .. n : c[i - 1] <= c[i]
      BY <1>3, <1>10 DEF Words
    <3> QED
      BY ONLY <1>2, <2>1, <3>1, FlattenSegments
  <2>4. ASSUME NEW i \in 1 .. n PROVE Segment(b, c, i) # NoMatch
    <3>1. Segment(b, c, i) \in Words
      <4>1. PICK l \in Nat : l = c[i - 1]
        BY <1>8
      <4>2. PICK k \in Nat : k = c[i] /\ l <= k /\ k <= Len(m)
        BY <1>8, <4>1
      <4>3. SubSeq(b, l + 1, k) \in Words
        BY <1>10, <4>2, SegmentsAlike
      <4> QED
        BY <4>1, <4>2, <4>3 DEF Segment
    <3> QED
      BY <3>1, NoMatchIsNoMessage
  <2> QED
    BY <1>2, <1>13, <2>2, <2>3, <2>4 DEF RuleBuild
<1>15. ValuesOf(r, b, c) = values
  <2>1. ASSUME NEW name \in Arguments(r), name \notin DOMAIN Defaults(r),
               NEW i \in Variables(r), i = PartOf(r, name)
        PROVE  ToMessage(Parts(r)[i], Segment(b, c, i)) =
                 ToMessage(Parts(r)[i], Segment(m, c, i))
    <3>1. i \in 1 .. n
      BY <1>12
    <3>2. CASE i \in N
      <4>1. Parts(r)[i].kind = "int" /\ Parts(r)[i].fixed = 0
        BY <1>5, <3>2 DEF Invertible, Bounded
      <4>2. Segment(b, c, i) = <<Written(m[c[i]].value)>>
        BY <1>10, <3>1, <3>2
      <4>3. Segment(b, c, i)[1].value = Segment(m, c, i)[1].value
        <5>1. \A v : Written(v).value = v
          BY DEF Written
        <5>2. Segment(b, c, i)[1] = Written(m[c[i]].value)
          BY <4>2
        <5> QED
          BY <1>9, <3>2, <5>1, <5>2
      <4> QED
        BY <4>1, <4>3 DEF ToMessage
    <3>3. CASE i \notin N
      BY <1>10, <3>1, <3>3
    <3> QED
      BY <3>2, <3>3
  <2> QED
    BY <1>11, <2>1, ArgumentIsPart DEF ValuesOf
<1> QED
  BY <1>10, <1>11, <1>14, <1>15

\* Rule.match and Rule.build, of any rule: the message built from the values a
\* stanza gives is one the rule gives the same values to.
LEMMA BuildUndoesMatch ==
  ASSUME NEW r \in Rules, Invertible(r), NEW q \in Requests, MatchOf[r][q] # NoMatch
  PROVE  AnswerToBuilt[r][q] = MatchOf[r][q]
<1>1. PICK m \in Words : m = Request[q].message
  BY RequestsAreDeclared
<1>2. PICK values : values = MatchOf[r][q]
  OBVIOUS
<1>3. values = RuleMatch(r, Request[q]) /\ values # NoMatch
  BY <1>2 DEF MatchOf
<1>4. PICK c : c = Search(r, m)
  OBVIOUS
<1>5. Admits(r, Request[q]) /\ Cuts(r, m) # {} /\ values = ValuesOf(r, m, c)
  BY <1>1, <1>3, <1>4 DEF RuleMatch, ValuesOf
<1>6. c \in Cuts(r, m)
  <2>1. PICK n \in Nat : n = Len(Parts(r))
    BY RulesAreDeclared DEF Parts
  <2>2. PICK l \in Nat : l = Len(m)
    BY DEF Words
  <2>3. Cuts(r, m) \subseteq [0 .. n -> 0 .. l]
    BY <2>1, <2>2 DEF Cuts
  <2>4. First(Cuts(r, m)) \in Cuts(r, m)
    BY <1>5, <2>3, FirstIsFound
  <2> QED
    BY <1>4, <2>4, SearchIsFirst
<1>7. PICK b \in Words : /\ RuleBuild(r, values) = b
                        /\ AlikeTexts(m, b)
                        /\ ValuesOf(r, b, c) = values
  BY <1>5, <1>6, BuiltFromCut
<1>8. b # NoMatch
  BY NoMatchIsNoMessage
<1>9. PICK p : p = [Request[q] EXCEPT !.message = b]
  OBVIOUS
<1>10. /\ p.message = b /\ p.event = Request[q].event
       /\ p.type = Request[q].type /\ p.sender = Request[q].sender
  BY <1>9, RequestsAreDeclared
<1>11. Admits(r, p)
  BY <1>5, <1>10 DEF Admits
<1>12. Cuts(r, b) = Cuts(r, m)
  BY <1>7, CutsAlike DEF Invertible
<1>13. Search(r, b) = c
  <2>1. Search(r, b) = First(Cuts(r, b)) /\ Search(r, m) = First(Cuts(r, m))
    BY SearchIsFirst
  <2> QED
    BY <1>4, <1>12, <2>1
<1>14. RuleMatch(r, p) = ValuesOf(r, b, c)
  BY <1>5, <1>10, <1>11, <1>12, <1>13 DEF RuleMatch, ValuesOf
<1> QED
  BY <1>2, <1>3, <1>7, <1>8, <1>9, <1>14 DEF AnswerToBuilt

\* What a thread has found is what the rule answers to its stanza.
FoundOf(t) ==
  result[t] # Nothing =>
    /\ pc[t] = "done" /\ req[t] \in Requests /\ result[t].rule \in Rules
    /\ MatchOf[result[t].rule][req[t]] # NoMatch
    /\ result[t].values = MatchOf[result[t].rule][req[t]]

LEMMA FoundStep ==
  TypeOK /\ ScanInv /\ (\A t \in Threads : FoundOf(t)) /\ [Next]_vars
    => \A t \in Threads : FoundOf(t)'
<1> SUFFICES ASSUME TypeOK, ScanInv, \A t \in Threads : FoundOf(t), [Next]_vars,
                    NEW u \in Threads
             PROVE  FoundOf(u)'
  OBVIOUS
<1>1. FoundOf(u) /\ ScanOf(u)
  BY DEF ScanInv
<1>2. ASSUME result'[u] = result[u], pc[u] = "done" => pc'[u] = "done" /\ req'[u] = req[u]
      PROVE  FoundOf(u)'
  BY <1>1, <1>2 DEF FoundOf
<1>3. ASSUME NEW r \in Rules, AddRule(r) PROVE FoundOf(u)'
  BY <1>2, <1>3 DEF AddRule
<1>4. ASSUME NEW t \in Threads, NEW q \in Requests, Begin(t, q) PROVE FoundOf(u)'
  BY <1>2, <1>4 DEF TypeOK, Begin, Goto
<1>5. ASSUME NEW t \in Threads, Match(t) PROVE FoundOf(u)'
  <2>1. CASE Update(t)
    BY <1>2, <2>1 DEF TypeOK, Update, Goto
  <2>2. CASE BeginSort(t)
    BY <1>2, <2>2 DEF TypeOK, BeginSort, Goto
  <2>3. CASE SortShort(t)
    BY <1>2, <2>3 DEF TypeOK, SortShort, Goto
  <2>4. CASE EndSort(t)
    BY <1>2, <2>4 DEF TypeOK, EndSort, Goto
  <2>5. CASE EndUpdate(t)
    BY <1>2, <2>5 DEF TypeOK, EndUpdate, Goto
  <2>6. CASE SkipRule(t)
    BY <1>2, <2>6 DEF TypeOK, SkipRule
  <2>7. CASE TakeRule(t)
    <3>1. CASE u = t
      <4>1. PICK r \in Rules : r = rules[at[u]]
        BY <1>1, <2>7, <3>1 DEF TypeOK, TakeRule, Goto, ScanOf
      <4>2. PICK q \in Requests : q = req[u]
        BY <1>1, <2>7, <3>1 DEF TakeRule, Goto, ScanOf
      <4>3. PICK found : found = [rule |-> r, values |-> MatchOf[r][q]]
        OBVIOUS
      <4>4. pc'[u] = "done" /\ req'[u] = q /\ result'[u] = found /\ MatchOf[r][q] # NoMatch
        BY <2>7, <3>1, <4>1, <4>2, <4>3 DEF TypeOK, TakeRule, Goto
      <4>5. found.rule = r /\ found.values = MatchOf[r][q]
        BY <4>3
      <4> QED
        BY <4>4, <4>5 DEF FoundOf
    <3>2. CASE u # t
      BY <1>2, <2>7, <3>2 DEF TypeOK, TakeRule, Goto
    <3> QED
      BY <3>1, <3>2
  <2>8. CASE FindNothing(t)
    BY <1>2, <2>8 DEF TypeOK, FindNothing, Goto
  <2>9. CASE Finish(t)
    <3>1. CASE u = t
      BY <2>9, <3>1 DEF TypeOK, Finish, FoundOf
    <3>2. CASE u # t
      BY <1>2, <2>9, <3>2 DEF TypeOK, Finish, Goto
    <3> QED
      BY <3>1, <3>2
  <2> QED
    BY <1>5, <2>1, <2>2, <2>3, <2>4, <2>5, <2>6, <2>7, <2>8, <2>9 DEF Match
<1>6. CASE UNCHANGED vars
  BY <1>2, <1>6 DEF vars
<1> QED
  BY <1>3, <1>4, <1>5, <1>6 DEF Next

\* Rule.match and Rule.build, though they use the converters the other way round:
\* whatever the rules, a message built from the values a stanza has given gives
\* the rule the same values again, however the numbers in the stanza were written.
THEOREM BuildAlwaysInvertsMatch == Spec => []BuildInvertsMatch
<1> DEFINE Found == \A t \in Threads : FoundOf(t)
<1>1. Init => Found
  BY DEF Init, FoundOf
<1>2. RoutingInv /\ Found /\ [Next]_vars => Found'
  BY FoundStep DEF RoutingInv
<1>3. Found => BuildInvertsMatch
  <2> SUFFICES ASSUME Found, NEW t \in Threads, pc[t] = "done", result[t] # Nothing,
                      Invertible(result[t].rule)
               PROVE  AnswerToBuilt[result[t].rule][req[t]] = result[t].values
    BY DEF BuildInvertsMatch, Invertible
  <2>1. FoundOf(t)
    OBVIOUS
  <2> QED
    BY <2>1, BuildUndoesMatch DEF FoundOf
<1> HIDE DEF Found
<1> QED
  BY <1>1, <1>2, <1>3, RoutingInvHolds, PTL DEF Spec
=============================================================================
