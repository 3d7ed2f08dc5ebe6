----------------------------- MODULE HooksProofs -----------------------------
(***************************************************************************)
(* Theorems about the functions an application runs around its views: what *)
(* a setup asks for is what the requests and the teardown run, once each   *)
(* and in the order promised, for any setup that gives each function once, *)
(* any number of blueprints, processes and stanzas and whatever raises.    *)
(*                                                                         *)
(* ListsInv relates the lists of the application to the steps of the setup *)
(* done so far.  RunInv says of each request that what it has run and what *)
(* is to do make up the list it works off.                                 *)
(*                                                                         *)
(* The last part shows, for all setups, that a request cannot go on for    *)
(* ever: its steps lower a measure.                                        *)
(***************************************************************************)
EXTENDS ApplicationProofs, FiniteSetTheorems

-----------------------------------------------------------------------------
(* The inductive invariant.                                                *)

\* The hook a step of the setup gives.
HookOf(step) ==
  Hook(step.kind, IF step.op = "hook" THEN AppWide ELSE step.scope, step.func)

\* Step i has put its function into a list before step n is reached.
Effective(steps, i, n) ==
  \/ steps[i].op = "hook"
  \/ steps[i].op = "record" /\ \E k \in i + 1 .. n - 1 : FirstOf(steps, k, steps[i].bp)

\* A blueprint has recorded what the steps before step n have given it, in any order.
Recorded(steps, lists, n) ==
  /\ DOMAIN lists = Blueprints
  /\ \A bp \in Blueprints :
       /\ IsSeq(lists[bp])
       /\ \A d \in DOMAIN lists[bp] :
            \E i \in 1 .. n - 1 :
              steps[i].op = "record" /\ steps[i].bp = bp /\ lists[bp][d] = steps[i]
       /\ \A d, e \in DOMAIN lists[bp] : lists[bp][d].func = lists[bp][e].func => d = e
       /\ \A i \in 1 .. n - 1 : steps[i].op = "record" /\ steps[i].bp = bp =>
            \E d \in DOMAIN lists[bp] : lists[bp][d] = steps[i]

\* A list holds the functions of the steps before step n that took effect, each once.
Listed(steps, list, n) ==
  /\ IsSeq(list)
  /\ \A h \in DOMAIN list :
       \E i \in 1 .. n - 1 : Effective(steps, i, n) /\ list[h] = HookOf(steps[i])
  /\ \A i \in 1 .. n - 1 : Effective(steps, i, n) =>
       \E h \in DOMAIN list : list[h] = HookOf(steps[i])
  /\ \A h, k \in DOMAIN list : list[h].func = list[k].func => h = k

ListsInv ==
  /\ GivenOnce(setup) /\ Recorded(setup, deferred, next)
  /\ ~broken => Listed(setup, hooks, next)
  /\ ~SetUp => \A p \in Processes : req[p] = Idle

\* done and rest make up the list.
Splits(list, done, rest) ==
  /\ IsSeq(done) /\ IsSeq(rest) /\ Len(done) + Len(rest) = Len(list)
  /\ \A i \in 1 .. Len(done) : done[i] = list[i]
  /\ \A i \in 1 .. Len(rest) : rest[i] = list[Len(done) + i]

\* Each pass of the teardown has run the first of its functions; the rest is what is to
\* do, or none is left, unless one of them has stopped the pass.
TornDown(r) ==
  \A n \in DOMAIN r.torn : \E rest :
    /\ Splits(TeardownList(n), r.torn[n], rest)
    /\ IF n = Len(r.torn) /\ r.at = "teardown"
       THEN rest = r.todo \/ (r.cut[n] /\ r.todo = <<>>)
       ELSE rest = <<>> \/ r.cut[n]

\* So have the after_request hooks, all of them if the response is to be sent.
HasRun(r) ==
  /\ r.at \in {"before", "save"} => r.ran = <<>>
  /\ \E rest :
       /\ Splits(AfterHooks(r.endpoint), r.ran, rest)
       /\ r.at = "after" => rest = r.todo
       /\ (r.at = "send" \/ (r.at = "teardown" /\ Len(r.torn) = 1 /\ ~r.exc)) => rest = <<>>

RunInv == SetUp => \A p \in Processes : TornDown(req[p]) /\ HasRun(req[p])

HooksInv == ListsInv /\ RunInv

-----------------------------------------------------------------------------
(* Parts of a list.                                                        *)

\* The elements of a set of naturals are numbered by how many are not above them.
LEMMA Ranks ==
  ASSUME NEW m \in Nat, NEW I, I \subseteq 1 .. m
  PROVE  LET n == Cardinality(I)
             rank == [i \in I |-> Cardinality({k \in I : k <= i})]
         IN  /\ n \in Nat
             /\ \A i \in I : rank[i] \in 1 .. n
             /\ \A i, k \in I : i < k <=> rank[i] < rank[k]
             /\ \A c \in 1 .. n : \E i \in I : rank[i] = c
<1> DEFINE n == Cardinality(I)
           below(i) == {k \in I : k <= i}
           rank == [i \in I |-> Cardinality(below(i))]
<1>1. IsFiniteSet(I) /\ n \in Nat
  <2>1. IsFiniteSet(1 .. m)
    BY FS_Interval
  <2> QED
    BY <2>1, FS_Subset, FS_CardinalityType
<1>2. \A i \in I : i \in Nat /\ below(i) \in SUBSET I /\ i \in below(i)
  OBVIOUS
<1>3. \A i \in I : rank[i] \in 1 .. n /\ IsFiniteSet(below(i))
  <2> SUFFICES ASSUME NEW i \in I PROVE rank[i] \in 1 .. n /\ IsFiniteSet(below(i))
    OBVIOUS
  <2>1. PICK b \in SUBSET I : b = below(i) /\ i \in b
    BY <1>2
  <2>2. IsFiniteSet(b) /\ Cardinality(b) <= n
    BY <1>1, <2>1, FS_Subset
  <2>3. Cardinality(b) \in Nat
    BY <2>2, FS_CardinalityType
  <2>4. Cardinality(b) # 0
    BY <2>1, <2>2, FS_EmptySet
  <2> QED
    BY <1>1, <2>1, <2>2, <2>3, <2>4
<1>4. ASSUME NEW i \in I, NEW k \in I, i < k PROVE rank[i] < rank[k]
  <2>1. PICK b, c : b = below(i) /\ c = below(k)
    OBVIOUS
  <2>2. b \in SUBSET c /\ b # c /\ IsFiniteSet(c)
    <3>1. IsFiniteSet(c)
      BY <1>3, <2>1
    <3>2. i \in Nat /\ k \in Nat /\ b = {l \in I : l <= i} /\ c = {l \in I : l <= k}
      BY <1>2, <2>1
    <3>3. k \in c /\ k \notin b
      BY <1>4, <3>2
    <3>4. \A l \in b : l \in c
      BY <1>2, <1>4, <3>2
    <3> QED
      BY <3>1, <3>3, <3>4
  <2>3. Cardinality(b) <= Cardinality(c) /\ Cardinality(b) # Cardinality(c)
    BY <2>2, FS_Subset
  <2>4. rank[i] = Cardinality(b) /\ rank[k] = Cardinality(c) /\ rank[i] \in Nat /\ rank[k] \in Nat
    BY <1>1, <1>3, <2>1
  <2> QED
    BY <2>3, <2>4
<1>5. \A i \in I : i \in Nat /\ rank[i] \in Nat /\ rank[i] \in 1 .. n
  BY <1>1, <1>2, <1>3
<1> HIDE DEF rank, n
<1>6. \A i, k \in I : i < k <=> rank[i] < rank[k]
  <2> SUFFICES ASSUME NEW i \in I, NEW k \in I, rank[i] < rank[k] PROVE i < k
    BY <1>4
  <2>1. i # k /\ rank[i] \in Nat /\ rank[k] \in Nat /\ i \in Nat /\ k \in Nat
    BY ONLY <1>5, i \in I, k \in I, rank[i] < rank[k]
  <2>2. ~(k < i)
    BY <1>4, <2>1
  <2> QED
    BY <2>1, <2>2
<1>7. \A c \in 1 .. n : \E i \in I : rank[i] = c
  <2>1. rank \in [I -> 1 .. n]
    BY <1>5 DEF rank
  <2>2. \A i, k \in I : rank[i] = rank[k] => i = k
    <3> SUFFICES ASSUME NEW i \in I, NEW k \in I, rank[i] = rank[k], i # k PROVE FALSE
      OBVIOUS
    <3>1. (i < k \/ k < i) /\ rank[i] \in Nat
      BY ONLY <1>5, i \in I, k \in I, i # k
    <3>2. ~(rank[i] < rank[k]) /\ ~(rank[k] < rank[i])
      BY ONLY <3>1, rank[i] = rank[k]
    <3> QED
      BY <1>4, <3>1, <3>2
  <2>3. rank \in Injection(I, 1 .. n)
    BY <2>1, <2>2 DEF Injection, IsInjective
  <2>4. IsFiniteSet(1 .. n) /\ Cardinality(1 .. n) = n
    BY <1>1, FS_Interval
  <2>5. rank \in Surjection(I, 1 .. n)
    BY <1>1, <2>3, <2>4, FS_Injection DEF n
  <2> QED
    BY <2>5 DEF Surjection
<1> QED
  BY <1>1, <1>3, <1>6, <1>7 DEF rank, n

\* A sublist has the elements at the indices, in their order.
IsSublist(part, list, pos, I) ==
  /\ IsSeq(part)
  /\ \A n \in DOMAIN part : pos[n] \in I /\ part[n] = list[pos[n]]
  /\ \A n, k \in DOMAIN part : n < k <=> pos[n] < pos[k]
  /\ \A i \in I : \E n \in DOMAIN part : pos[n] = i

LEMMA SublistIs ==
  ASSUME NEW list, IsSeq(list), NEW I, I \subseteq DOMAIN list
  PROVE  \E pos : IsSublist(Sublist(list, I), list, pos, I)
<1> DEFINE n == Cardinality(I)
           rank == [i \in I |-> Cardinality({k \in I : k <= i})]
           pos == [c \in 1 .. n |-> CHOOSE i \in I : Cardinality({k \in I : k <= i}) = c]
           part == Sublist(list, I)
<1>1. PICK m \in Nat : I \subseteq 1 .. m
  BY LenIsNatural
<1>2. /\ n \in Nat
      /\ \A i \in I : rank[i] \in 1 .. n
      /\ \A i, k \in I : i < k <=> rank[i] < rank[k]
      /\ \A c \in 1 .. n : \E i \in I : rank[i] = c
  BY ONLY <1>1, Ranks
<1>3. part = [c \in 1 .. n |-> list[CHOOSE i \in I : Cardinality({k \in I : k <= i}) = c]]
  BY DEF Sublist
<1>4. \A c \in 1 .. n : pos[c] \in I /\ rank[pos[c]] = c
  <2> SUFFICES ASSUME NEW c \in 1 .. n PROVE pos[c] \in I /\ rank[pos[c]] = c
    OBVIOUS
  <2>1. \E i \in I : Cardinality({k \in I : k <= i}) = c
    BY <1>2
  <2>2. pos[c] \in I /\ Cardinality({k \in I : k <= pos[c]}) = c
    BY <2>1
  <2> QED
    BY <2>2
<1>5. part = [c \in 1 .. n |-> list[pos[c]]]
  BY <1>3
<1> HIDE DEF rank, n, part
<1> HIDE DEF pos
<1>6. IsSeq(part) /\ DOMAIN part = 1 .. n /\ \A c \in 1 .. n : part[c] = list[pos[c]]
  <2>1. part = [c \in 1 .. n |-> part[c]]
    BY <1>5
  <2>2. IsSeq(part)
    BY <1>2, <2>1, FunctionIsSeq
  <2> QED
    BY <1>5, <2>2
<1>7. \A c, d \in 1 .. n : c < d <=> pos[c] < pos[d]
  BY <1>2, <1>4
<1>8. \A i \in I : \E c \in 1 .. n : pos[c] = i
  <2> SUFFICES ASSUME NEW i \in I PROVE pos[rank[i]] = i
    BY <1>2
  <2>1. /\ rank[i] \in 1 .. n /\ pos[rank[i]] \in I
        /\ rank[pos[rank[i]]] = rank[i]
    BY <1>2, <1>4
  <2>2. i \in Nat /\ pos[rank[i]] \in Nat /\ rank[i] \in Nat
    BY <1>1, <1>2, <2>1
  <2> QED
    BY <1>2, <2>1, <2>2
<1>9. IsSublist(part, list, pos, I)
  BY <1>4, <1>6, <1>7, <1>8 DEF IsSublist
<1> QED
  BY <1>9 DEF part

\* What the helpers of the lists return.
LEMMA FunctionsIs ==
  ASSUME NEW list, IsSeq(list)
  PROVE  /\ IsSeq(Functions(list)) /\ Len(Functions(list)) = Len(list)
         /\ \A i \in 1 .. Len(list) : Functions(list)[i] = list[i].func
<1> DEFINE f == Functions(list)
<1>1. Len(list) \in Nat /\ DOMAIN list = 1 .. Len(list)
  BY LenIsNatural
<1>2. f = [i \in 1 .. Len(list) |-> list[i].func]
  BY <1>1 DEF Functions
<1> HIDE DEF f
<1>3. f = [i \in 1 .. Len(list) |-> f[i]] /\ \A i \in 1 .. Len(list) : f[i] = list[i].func
  BY <1>2
<1>4. IsSeq(f) /\ Len(f) = Len(list)
  BY ONLY <1>1, <1>3, FunctionIsSeq
<1> QED
  BY <1>3, <1>4 DEF f

LEMMA ReverseIs ==
  ASSUME NEW list, IsSeq(list)
  PROVE  /\ IsSeq(Reverse(list)) /\ Len(Reverse(list)) = Len(list)
         /\ \A i \in 1 .. Len(list) : Reverse(list)[i] = list[Len(list) - i + 1]
<1> DEFINE f == Reverse(list)
<1>1. Len(list) \in Nat
  BY LenIsNatural
<1>2. f = [i \in 1 .. Len(list) |-> list[(Len(list) - i) + 1]]
  BY DEF Reverse
<1> HIDE DEF f
<1>3. f = [i \in 1 .. Len(list) |-> f[i]]
      /\ \A i \in 1 .. Len(list) : f[i] = list[(Len(list) - i) + 1]
  BY <1>2
<1>4. IsSeq(f) /\ Len(f) = Len(list)
  BY ONLY <1>1, <1>3, FunctionIsSeq
<1> QED
  BY <1>3, <1>4 DEF f

LEMMA ConcatIs ==
  ASSUME NEW s, NEW t, IsSeq(s), IsSeq(t)
  PROVE  /\ IsSeq(s \o t) /\ Len(s \o t) = Len(s) + Len(t)
         /\ \A i \in 1 .. Len(s) : (s \o t)[i] = s[i]
         /\ \A i \in 1 .. Len(t) : (s \o t)[Len(s) + i] = t[i]
<1> DEFINE S == {s[i] : i \in DOMAIN s} \cup {t[i] : i \in DOMAIN t}
<1>1. s \in Seq(S) /\ t \in Seq(S)
  <2>1. {s[i] : i \in DOMAIN s} \subseteq S /\ {t[i] : i \in DOMAIN t} \subseteq S
    OBVIOUS
  <2> QED
    BY <2>1, SeqMonotonic DEF IsSeq
<1> HIDE DEF S
<1>2. s \o t \in Seq(S) /\ Len(s \o t) = Len(s) + Len(t)
  BY <1>1, ConcatProperties
<1>3. \A i \in 1 .. Len(s) + Len(t) :
        (s \o t)[i] = IF i <= Len(s) THEN s[i] ELSE t[i - Len(s)]
  BY <1>1, ConcatProperties
<1>4. Len(s) \in Nat /\ Len(t) \in Nat
  BY LenIsNatural
<1>5. ASSUME NEW i \in 1 .. Len(s) PROVE (s \o t)[i] = s[i]
  BY <1>3, <1>4
<1>6. ASSUME NEW i \in 1 .. Len(t) PROVE (s \o t)[Len(s) + i] = t[i]
  <2>1. /\ Len(s) + i \in 1 .. Len(s) + Len(t) /\ ~(Len(s) + i <= Len(s))
        /\ Len(s) + i - Len(s) = i
    BY <1>4
  <2> QED
    BY <1>3, <2>1
<1> QED
  BY <1>2, <1>5, <1>6, SeqIsFunction

\* The functions of one kind and scope, the ones registered later before the others.
Backwards(list, kind, scope) ==
  /\ IsSeq(list)
  /\ \E pos :
       /\ \A n \in DOMAIN list :
            /\ pos[n] \in DOMAIN hooks /\ list[n] = hooks[pos[n]].func
            /\ hooks[pos[n]].kind = kind /\ hooks[pos[n]].scope = scope
       /\ \A n, k \in DOMAIN list : n < k <=> pos[k] < pos[n]
       /\ \A h \in DOMAIN hooks : hooks[h].kind = kind /\ hooks[h].scope = scope =>
            \E n \in DOMAIN list : pos[n] = h

LEMMA ReversedHooks ==
  ASSUME IsSeq(hooks), NEW kind, NEW scope
  PROVE  Backwards(Reverse(Functions(HooksFor(kind, scope))), kind, scope)
<1> DEFINE I == {i \in DOMAIN hooks : hooks[i].kind = kind /\ hooks[i].scope = scope}
<1>1. PICK part, list, back :
        /\ part = Sublist(hooks, I) /\ list = Functions(part) /\ back = Reverse(list)
        /\ back = Reverse(Functions(HooksFor(kind, scope)))
  BY DEF HooksFor
<1>2. PICK pos : IsSublist(part, hooks, pos, I)
  BY <1>1, SublistIs
<1>3. IsSeq(part)
  BY <1>2 DEF IsSublist
<1>4. /\ IsSeq(list) /\ Len(list) = Len(part)
      /\ \A i \in 1 .. Len(part) : list[i] = part[i].func
  BY ONLY <1>1, <1>3, FunctionsIs
<1>5. /\ IsSeq(back) /\ Len(back) = Len(list)
      /\ \A i \in 1 .. Len(list) : back[i] = list[Len(list) - i + 1]
  <2>1. IsSeq(list) /\ back = Reverse(list)
    BY <1>1, <1>4
  <2> QED
    BY ONLY <2>1, ReverseIs
<1>6. PICK m \in Nat : Len(part) = m
  BY <1>3, LenIsNatural
<1>7. DOMAIN part = 1 .. m /\ DOMAIN back = 1 .. m
  BY <1>3, <1>4, <1>5, <1>6, LenIsNatural
<1> DEFINE rpos == [n \in 1 .. m |-> pos[m - n + 1]]
<1>8. ASSUME NEW n \in 1 .. m
      PROVE  /\ rpos[n] \in I /\ back[n] = hooks[rpos[n]].func
  <2>1. m - n + 1 \in 1 .. m
    OBVIOUS
  <2>2. back[n] = part[m - n + 1].func
    BY <1>4, <1>5, <1>6, <2>1
  <2> QED
    BY <1>2, <1>7, <2>1, <2>2 DEF IsSublist
<1>9. ASSUME NEW n \in 1 .. m, NEW k \in 1 .. m
      PROVE  n < k <=> rpos[k] < rpos[n]
  <2>1. m - n + 1 \in 1 .. m /\ m - k + 1 \in 1 .. m /\ (n < k <=> m - k + 1 < m - n + 1)
    OBVIOUS
  <2> QED
    BY <1>2, <1>7, <2>1 DEF IsSublist
<1>10. ASSUME NEW h \in I PROVE \E n \in 1 .. m : rpos[n] = h
  <2>1. PICK k \in 1 .. m : pos[k] = h
    BY <1>2, <1>7 DEF IsSublist
  <2>2. m - k + 1 \in 1 .. m /\ m - (m - k + 1) + 1 = k
    OBVIOUS
  <2> QED
    BY <2>1, <2>2
<1> HIDE DEF rpos
<1>11. /\ \A n \in DOMAIN back :
            /\ rpos[n] \in DOMAIN hooks /\ back[n] = hooks[rpos[n]].func
            /\ hooks[rpos[n]].kind = kind /\ hooks[rpos[n]].scope = scope
       /\ \A n, k \in DOMAIN back : n < k <=> rpos[k] < rpos[n]
       /\ \A h \in DOMAIN hooks : hooks[h].kind = kind /\ hooks[h].scope = scope =>
            \E n \in DOMAIN back : rpos[n] = h
  BY <1>7, <1>8, <1>9, <1>10
<1>12. IsSeq(back)
  BY <1>5
<1>13. Backwards(back, kind, scope)
  BY ONLY <1>11, <1>12 DEF Backwards
<1> QED
  BY <1>1, <1>13

LEMMA TeardownBackwards ==
  ASSUME IsSeq(hooks), NEW n
  PROVE  Backwards(TeardownList(n), IF n = 3 THEN "teardown_appcontext" ELSE "teardown", AppWide)
BY ReversedHooks DEF TeardownList

\* The blueprint an endpoint belongs to.
Owner(endpoint) == IF endpoint = NoRule THEN AppWide ELSE BlueprintOf[endpoint]

LEMMA AfterBackwards ==
  ASSUME IsSeq(hooks), NEW endpoint
  PROVE  \E own, all :
           /\ AfterHooks(endpoint) = own \o all
           /\ IF Owner(endpoint) = AppWide THEN own = <<>>
              ELSE Backwards(own, "after", Owner(endpoint))
           /\ Backwards(all, "after", AppWide) /\ IsSeq(own)
<1> DEFINE mine == Reverse(Functions(HooksFor("after", BlueprintOf[endpoint])))
           all == Reverse(Functions(HooksFor("after", AppWide)))
<1>1. Backwards(all, "after", AppWide)
  BY ReversedHooks
<1>2. CASE Owner(endpoint) = AppWide
  <2>1. AfterHooks(endpoint) = Reverse(Functions(<<>>)) \o all
    BY <1>2 DEF AfterHooks, Owner
  <2>2. Functions(<<>>) = <<>> /\ Reverse(<<>>) = <<>>
    <3>1. IsSeq(Functions(<<>>)) /\ Len(Functions(<<>>)) = 0
      BY EmptyIsSeq, FunctionsIs
    <3>2. IsSeq(Reverse(<<>>)) /\ Len(Reverse(<<>>)) = 0
      BY EmptyIsSeq, ReverseIs
    <3> QED
      BY <3>1, <3>2, LenIsNatural
  <2> HIDE DEF all
  <2>3. AfterHooks(endpoint) = <<>> \o all
    BY <2>1, <2>2
  <2> QED
    BY <1>1, <1>2, <2>3, EmptyIsSeq
<1>3. CASE Owner(endpoint) # AppWide
  <2>1. AfterHooks(endpoint) = mine \o all /\ Owner(endpoint) = BlueprintOf[endpoint]
    BY <1>3 DEF AfterHooks, Owner
  <2>2. Backwards(mine, "after", BlueprintOf[endpoint])
    BY ReversedHooks
  <2>3. IsSeq(mine)
    BY <2>2 DEF Backwards
  <2> HIDE DEF mine, all
  <2> QED
    BY <1>1, <1>3, <2>1, <2>2, <2>3
<1> QED
  BY <1>2, <1>3

LEMMA ListsAreSeq ==
  ASSUME IsSeq(hooks)
  PROVE  (\A n : IsSeq(TeardownList(n))) /\ (\A endpoint : IsSeq(AfterHooks(endpoint)))
<1>1. \A n : IsSeq(TeardownList(n))
  BY TeardownBackwards DEF Backwards
<1>2. ASSUME NEW endpoint PROVE IsSeq(AfterHooks(endpoint))
  <2>1. PICK own, all : AfterHooks(endpoint) = own \o all /\ IsSeq(own) /\ IsSeq(all)
    BY AfterBackwards DEF Backwards
  <2> QED
    BY <2>1, ConcatIs
<1> QED
  BY <1>1, <1>2

\* The lists stay as they are when no function is added.
LEMMA ListsKept ==
  ASSUME hooks' = hooks
  PROVE  /\ \A n : TeardownList(n)' = TeardownList(n)
         /\ \A endpoint : AfterHooks(endpoint)' = AfterHooks(endpoint)
<1> DEFINE For(list, kind, scope) ==
             Sublist(list, {i \in DOMAIN list : list[i].kind = kind /\ list[i].scope = scope})
<1>1. ASSUME NEW kind, NEW scope PROVE HooksFor(kind, scope)' = HooksFor(kind, scope)
  <2>1. HooksFor(kind, scope) = For(hooks, kind, scope)
    BY DEF HooksFor
  <2>2. HooksFor(kind, scope)' = For(hooks', kind, scope)
    BY DEF HooksFor
  <2> HIDE DEF For
  <2> QED
    BY <2>1, <2>2
<1>2. ASSUME NEW n PROVE TeardownList(n)' = TeardownList(n)
  BY <1>1 DEF TeardownList
<1>3. ASSUME NEW endpoint PROVE AfterHooks(endpoint)' = AfterHooks(endpoint)
  BY <1>1 DEF AfterHooks
<1> QED
  BY <1>2, <1>3

LEMMA RunsKept ==
  ASSUME hooks' = hooks, NEW r
  PROVE  (TornDown(r) => TornDown(r)') /\ (HasRun(r) => HasRun(r)')
BY ListsKept DEF TornDown, HasRun

LEMMA SplitsAtStart ==
  ASSUME NEW list, IsSeq(list) PROVE Splits(list, <<>>, list)
BY EmptyIsSeq, LenIsNatural DEF Splits

LEMMA SplitsOn ==
  ASSUME NEW list, NEW done, NEW rest, Splits(list, done, rest), rest # <<>>
  PROVE  Splits(list, Append(done, Head(rest)), Tail(rest))
<1>1. /\ IsSeq(done) /\ IsSeq(rest) /\ Len(done) + Len(rest) = Len(list)
      /\ \A i \in 1 .. Len(done) : done[i] = list[i]
      /\ \A i \in 1 .. Len(rest) : rest[i] = list[Len(done) + i]
  BY DEF Splits
<1>2. PICK m \in Nat, n \in Nat : Len(done) = m /\ Len(rest) = n /\ n # 0
  BY <1>1, LenIsNatural
<1>3. PICK first, more, tail :
        first = Head(rest) /\ more = Append(done, first) /\ tail = Tail(rest)
  OBVIOUS
<1>4. /\ IsSeq(more) /\ Len(more) = m + 1 /\ more[m + 1] = first
      /\ \A i \in 1 .. m : more[i] = done[i]
  BY ONLY <1>1, <1>2, <1>3, AppendIsSeq
<1>5. /\ IsSeq(tail) /\ Len(tail) = n - 1 /\ first = rest[1]
      /\ \A i \in 1 .. n - 1 : tail[i] = rest[i + 1]
  BY ONLY <1>1, <1>2, <1>3, rest # <<>>, TailIsSeq
<1>6. ASSUME NEW i \in 1 .. m + 1 PROVE more[i] = list[i]
  <2>1. CASE i = m + 1
    BY <1>1, <1>2, <1>4, <1>5, <2>1
  <2>2. CASE i \in 1 .. m
    BY <1>1, <1>2, <1>4, <2>2
  <2> QED
    BY <2>1, <2>2
<1>7. ASSUME NEW i \in 1 .. n - 1 PROVE tail[i] = list[m + 1 + i]
  <2>1. i + 1 \in 1 .. n /\ m + (i + 1) = m + 1 + i
    OBVIOUS
  <2>2. rest[i + 1] = list[m + (i + 1)]
    BY <1>1, <1>2, <2>1
  <2> QED
    BY <1>5, <2>1, <2>2
<1>8. Len(more) + Len(tail) = Len(list)
  <2>1. m + n = Len(list) /\ Len(more) = m + 1 /\ Len(tail) = n - 1
    BY <1>1, <1>2, <1>4, <1>5
  <2> QED
    BY ONLY <2>1, m \in Nat, n \in Nat
<1>9. Splits(list, more, tail)
  <2>1. \A i \in 1 .. Len(more) : more[i] = list[i]
    BY ONLY <1>4, <1>6
  <2>2. \A i \in 1 .. Len(tail) : tail[i] = list[Len(more) + i]
    BY ONLY <1>4, <1>5, <1>7
  <2> QED
    BY ONLY <1>4, <1>5, <1>8, <2>1, <2>2 DEF Splits
<1> QED
  BY <1>3, <1>9

-----------------------------------------------------------------------------
(* Requests.                                                               *)

\* The request of one process moves on to r.
Runs(p, r) == req' = [req EXCEPT ![p] = r] /\ TornDown(r) /\ HasRun(r)

LEMMA RunsStep ==
  ASSUME RunInv, SetUp, NEW p \in Processes, DOMAIN req = Processes, hooks' = hooks,
         \E r : Runs(p, r)
  PROVE  RunInv'
<1>1. PICK r : Runs(p, r)
  OBVIOUS
<1> SUFFICES ASSUME NEW q \in Processes PROVE (TornDown(req[q]) /\ HasRun(req[q]))'
  BY DEF RunInv
<1>2. PICK s : s = req'[q] /\ TornDown(s) /\ HasRun(s)
  BY <1>1 DEF Runs, RunInv
<1>3. TornDown(s)' /\ HasRun(s)'
  BY <1>2, RunsKept
<1> QED
  BY <1>2, <1>3

\* A request that has left no context and run no hook yet has nothing to show.
LEMMA FreshRuns ==
  ASSUME IsSeq(hooks), NEW r, r.torn = <<>>, r.ran = <<>>,
         r.at \in {"idle", "before", "save"}
         \/ (r.at = "after" /\ r.todo = AfterHooks(r.endpoint))
  PROVE  TornDown(r) /\ HasRun(r)
<1>1. TornDown(r)
  BY EmptyIsSeq DEF TornDown
<1>2. Splits(AfterHooks(r.endpoint), r.ran, AfterHooks(r.endpoint))
  BY ListsAreSeq, SplitsAtStart
<1> QED
  BY <1>1, <1>2 DEF HasRun

\* What a step does not touch goes on to hold.
LEMMA SameRuns ==
  ASSUME NEW o, NEW r, TornDown(o), HasRun(o),
         r.torn = o.torn /\ r.cut = o.cut /\ r.ran = o.ran /\ r.endpoint = o.endpoint,
         r.at = o.at /\ r.at \notin {"after", "teardown"}
  PROVE  TornDown(r) /\ HasRun(r)
BY DEF TornDown, HasRun

\* A context is left when the pass before it is through; it is left without an
\* exception when the after_request hooks are.
LEMMA LeaveRuns ==
  ASSUME IsSeq(hooks), NEW p \in Processes, NEW exc, Leave(p, exc), WellFormed(req[p]),
         TornDown(req[p]), HasRun(req[p]), req[p].at = "teardown" => req[p].todo = <<>>,
         ~exc /\ req[p].torn = <<>> => req[p].at = "after" /\ req[p].todo = <<>>
  PROVE  \E r : Runs(p, r)
<1> USE FieldsOfIdle
<1> DEFINE o == req[p]
           q == IF o.torn = <<>> THEN o
                ELSE [o EXCEPT !.response = Idle.response, !.result = Idle.result,
                               !.sent = <<>>, !.ran = <<>>]
           todo == TeardownList(Len(q.torn) + 1)
           r == [q EXCEPT !.at = "teardown", !.exc = exc, !.todo = todo,
                          !.torn = Append(@, <<>>), !.cut = Append(@, FALSE)]
<1>1. DOMAIN o = Fields /\ IsSeq(o.torn) /\ IsSeq(o.cut) /\ Len(o.cut) = Len(o.torn)
  BY DEF WellFormed
<1>2. /\ DOMAIN q = Fields /\ q.torn = o.torn /\ q.cut = o.cut /\ q.endpoint = o.endpoint
      /\ q.ran = IF o.torn = <<>> THEN o.ran ELSE <<>>
  BY <1>1
<1>3. req' = [req EXCEPT ![p] = r]
  BY DEF Leave, Set
<1> HIDE DEF q, todo
<1>4. /\ r.at = "teardown" /\ r.exc = exc /\ r.todo = todo /\ r.endpoint = o.endpoint
      /\ r.ran = (IF o.torn = <<>> THEN o.ran ELSE <<>>)
      /\ r.torn = Append(o.torn, <<>>) /\ r.cut = Append(o.cut, FALSE)
  BY <1>2
<1> HIDE DEF r
<1>5. PICK k \in Nat : Len(o.torn) = k /\ Len(o.cut) = k /\ DOMAIN o.torn = 1 .. k
                       /\ (o.torn = <<>> <=> k = 0)
  BY <1>1, LenIsNatural
<1>6. /\ IsSeq(r.torn) /\ Len(r.torn) = k + 1 /\ r.torn[k + 1] = <<>>
      /\ \A n \in 1 .. k : r.torn[n] = o.torn[n]
      /\ \A n \in 1 .. k : r.cut[n] = o.cut[n]
  <2>1. /\ IsSeq(Append(o.torn, <<>>)) /\ Len(Append(o.torn, <<>>)) = k + 1
        /\ Append(o.torn, <<>>)[k + 1] = <<>>
        /\ \A n \in 1 .. k : Append(o.torn, <<>>)[n] = o.torn[n]
    BY <1>1, <1>5, AppendIsSeq
  <2>2. \A n \in 1 .. k : Append(o.cut, FALSE)[n] = o.cut[n]
    <3>1. PICK cut, flag : cut = o.cut /\ flag = FALSE
      OBVIOUS
    <3>2. \A n \in 1 .. k : Append(cut, flag)[n] = cut[n]
      BY <1>1, <1>5, <3>1, AppendIsSeq
    <3> QED
      BY <3>1, <3>2
  <2> QED
    BY <1>4, <2>1, <2>2
<1>7. DOMAIN r.torn = 1 .. k + 1
  BY <1>6, LenIsNatural
<1>8. TornDown(r)
  <2> SUFFICES ASSUME NEW n \in 1 .. k + 1
               PROVE  \E rest :
                        /\ Splits(TeardownList(n), r.torn[n], rest)
                        /\ IF n = k + 1 THEN rest = r.todo ELSE rest = <<>> \/ r.cut[n]
    BY <1>4, <1>6, <1>7 DEF TornDown
  <2>1. CASE n = k + 1
    <3>1. r.torn[n] = <<>> /\ r.todo = TeardownList(n)
      BY <1>2, <1>4, <1>5, <1>6, <2>1 DEF todo
    <3> QED
      BY <2>1, <3>1, ListsAreSeq, SplitsAtStart
  <2>2. CASE n # k + 1
    <3>1. n \in DOMAIN o.torn /\ r.torn[n] = o.torn[n] /\ r.cut[n] = o.cut[n]
      BY <1>5, <1>6, <2>2
    <3>2. PICK rest :
            /\ Splits(TeardownList(n), o.torn[n], rest)
            /\ IF n = Len(o.torn) /\ o.at = "teardown"
               THEN rest = o.todo \/ (o.cut[n] /\ o.todo = <<>>)
               ELSE rest = <<>> \/ o.cut[n]
      BY <3>1 DEF TornDown
    <3>3. rest = <<>> \/ o.cut[n]
      BY <3>2
    <3> QED
      BY <2>2, <3>1, <3>2, <3>3
  <2> QED
    BY <2>1, <2>2
<1>9. HasRun(r)
  <2>1. CASE o.torn = <<>>
    <3>1. PICK rest : /\ Splits(AfterHooks(o.endpoint), o.ran, rest)
                      /\ o.at = "after" => rest = o.todo
      BY DEF HasRun
    <3>2. ~exc => rest = <<>>
      BY <2>1, <3>1
    <3> QED
      BY <1>4, <2>1, <3>1, <3>2 DEF HasRun
  <2>2. CASE o.torn # <<>>
    <3>1. Splits(AfterHooks(r.endpoint), r.ran, AfterHooks(r.endpoint))
      BY <1>4, <2>2, ListsAreSeq, SplitsAtStart
    <3>2. Len(r.torn) # 1
      BY <1>5, <1>6, <2>2
    <3> QED
      BY <1>4, <3>1, <3>2 DEF HasRun
  <2> QED
    BY <2>1, <2>2
<1> QED
  BY <1>3, <1>8, <1>9 DEF Runs

LEMMA AnswerRuns ==
  ASSUME IsSeq(hooks), NEW p \in Processes, NEW v, Answer(p, v), WellFormed(req[p]),
         HasRun(req[p]), req[p].at = "before"
  PROVE  \E r : Runs(p, r)
<1> USE FieldsOfIdle
<1> DEFINE o == req[p]
           new == ResponseOf(IF v = Nothing THEN [lazy |-> FALSE, items |-> <<>>] ELSE v)
           r == [o EXCEPT !.at = "save", !.todo = <<>>, !.response = new]
<1>1. req' = [req EXCEPT ![p] = r]
  BY DEF Answer, Set
<1> HIDE DEF new
<1>2. r.at = "save" /\ r.torn = o.torn /\ r.ran = o.ran
  BY DEF WellFormed
<1>3. o.torn = <<>> /\ o.ran = <<>>
  BY LenIsNatural DEF WellFormed, Passes, HasRun
<1> HIDE DEF r
<1> QED
  BY <1>1, <1>2, <1>3, FreshRuns DEF Runs

LEMMA HandleErrorRuns ==
  ASSUME IsSeq(hooks), NEW p \in Processes, NEW error, HandleError(p, error),
         WellFormed(req[p]), TornDown(req[p]), HasRun(req[p]), req[p].at = "before"
  PROVE  \E r : Runs(p, r)
<1>1. Leave(p, TRUE) \/ \E v : Answer(p, v)
  BY DEF HandleError
<1>2. CASE Leave(p, TRUE)
  BY <1>2, LeaveRuns
<1>3. CASE \E v : Answer(p, v)
  BY <1>3, AnswerRuns
<1> QED
  BY <1>1, <1>2, <1>3

-----------------------------------------------------------------------------
(* The steps of the requests.                                              *)

LEMMA BeginRuns ==
  ASSUME IsSeq(hooks), NEW p \in Processes, Begin(p)
  PROVE  \E r : Runs(p, r)
<1>1. PICK j \in Jids, e \in app.endpoints \cup {NoRule} :
        Set(p, [Idle EXCEPT !.at = "before", !.jid = j, !.endpoint = e,
                            !.mark = requests', !.todo = Functions(HooksFor("before", AppWide))])
  BY DEF Begin
<1> DEFINE todo == Functions(HooksFor("before", AppWide))
           r == [Idle EXCEPT !.at = "before", !.jid = j, !.endpoint = e,
                             !.mark = requests', !.todo = todo]
<1>2. req' = [req EXCEPT ![p] = r]
  BY <1>1 DEF Set
<1> HIDE DEF todo
<1>3. r.at = "before" /\ r.torn = <<>> /\ r.ran = <<>>
  BY DEF Idle
<1> HIDE DEF r
<1> QED
  BY <1>2, <1>3, FreshRuns DEF Runs

\* Nothing has run in the contexts that were not entered; the first one that was is left.
LEMMA BeginFailsRuns ==
  ASSUME IsSeq(hooks), NEW p \in Processes, BeginFails(p)
  PROVE  \E r : Runs(p, r)
<1>1. PICK j \in Jids, pass \in {2, 3} :
        Set(p, [Idle EXCEPT !.at = "teardown", !.jid = j, !.mark = requests', !.exc = TRUE,
                            !.todo = TeardownList(pass),
                            !.torn = [n \in 1..pass |-> <<>>],
                            !.cut = [n \in 1..pass |-> n < pass]])
  BY DEF BeginFails
<1> DEFINE todo == TeardownList(pass)
           torn == [n \in 1..pass |-> <<>>]
           cut == [n \in 1..pass |-> n < pass]
           r == [Idle EXCEPT !.at = "teardown", !.jid = j, !.mark = requests', !.exc = TRUE,
                             !.todo = todo, !.torn = torn, !.cut = cut]
<1>2. req' = [req EXCEPT ![p] = r]
  BY <1>1 DEF Set
<1>3. Len(torn) = pass /\ DOMAIN torn = 1 .. pass /\ \A n \in 1 .. pass : torn[n] = <<>>
  BY <1>1, FunctionIsSeq
<1>4. ASSUME NEW n \in 1 .. pass, n # pass PROVE cut[n]
  <2>1. pass \in Nat /\ n < pass
    BY <1>4
  <2>2. cut[n] = (n < pass)
    BY <1>4
  <2> QED
    BY <2>1, <2>2
<1> HIDE DEF todo, torn, cut
<1>5. /\ r.at = "teardown" /\ r.todo = todo /\ r.torn = torn /\ r.cut = cut
      /\ r.ran = <<>>
  BY DEF Idle
<1> HIDE DEF r
<1>6. TornDown(r)
  <2> SUFFICES ASSUME NEW n \in 1 .. pass
               PROVE  \E rest :
                        /\ Splits(TeardownList(n), <<>>, rest)
                        /\ IF n = pass THEN rest = todo ELSE cut[n]
    BY <1>3, <1>5 DEF TornDown
  <2>1. Splits(TeardownList(n), <<>>, TeardownList(n))
    BY ListsAreSeq, SplitsAtStart
  <2> QED
    BY <1>4, <2>1 DEF todo
<1>7. HasRun(r)
  <2>1. Splits(AfterHooks(r.endpoint), <<>>, AfterHooks(r.endpoint))
    BY ListsAreSeq, SplitsAtStart
  <2> QED
    BY <1>1, <1>3, <1>5, <2>1 DEF HasRun
<1> QED
  BY <1>2, <1>6, <1>7 DEF Runs

LEMMA BeforeHookRuns ==
  ASSUME IsSeq(hooks), NEW p \in Processes, BeforeHook(p), WellFormed(req[p]),
         TornDown(req[p]), HasRun(req[p])
  PROVE  \E r : Runs(p, r)
<1>1. req[p].at = "before"
  BY DEF BeforeHook, At
<1>2. CASE Set(p, [req[p] EXCEPT !.todo = Tail(@)])
  <2> DEFINE todo == Tail(req[p].todo)
             r == [req[p] EXCEPT !.todo = todo]
  <2>1. req' = [req EXCEPT ![p] = r]
    BY <1>2 DEF Set
  <2> HIDE DEF todo
  <2>2. /\ r.at = req[p].at /\ r.torn = req[p].torn /\ r.cut = req[p].cut
        /\ r.ran = req[p].ran /\ r.endpoint = req[p].endpoint
    BY FieldsOfIdle DEF WellFormed
  <2> HIDE DEF r
  <2> QED
    BY <1>1, <2>1, <2>2, SameRuns DEF Runs
<1>3. CASE \E v : Answer(p, v)
  BY <1>1, <1>3, AnswerRuns
<1>4. CASE HandleError(p, "Error")
  BY <1>1, <1>4, HandleErrorRuns
<1> QED
  BY <1>2, <1>3, <1>4 DEF BeforeHook

LEMMA DispatchRuns ==
  ASSUME IsSeq(hooks), NEW p \in Processes, View(p), WellFormed(req[p]),
         TornDown(req[p]), HasRun(req[p])
  PROVE  \E r : Runs(p, r)
<1>1. req[p].at = "before"
  BY DEF View, InView, At
<1>2. CASE \E error : HandleError(p, error)
  BY <1>1, <1>2, HandleErrorRuns
<1>3. CASE \E v : Answer(p, v)
  BY <1>1, <1>3, AnswerRuns
<1> QED
  BY <1>2, <1>3 DEF View

LEMMA SaveSessionRuns ==
  ASSUME IsSeq(hooks), NEW p \in Processes, SaveSession(p), WellFormed(req[p]),
         TornDown(req[p]), HasRun(req[p])
  PROVE  \E r : Runs(p, r)
<1>1. req[p].at = "save"
  BY DEF SaveSession, At
<1>2. CASE Set(p, [req[p] EXCEPT !.at = "after", !.todo = AfterHooks(req[p].endpoint)])
  <2> DEFINE o == req[p]
             todo == AfterHooks(o.endpoint)
             r == [o EXCEPT !.at = "after", !.todo = todo]
  <2>1. req' = [req EXCEPT ![p] = r]
    BY <1>2 DEF Set
  <2> HIDE DEF todo
  <2>2. /\ r.at = "after" /\ r.torn = o.torn /\ r.ran = o.ran /\ r.endpoint = o.endpoint
        /\ r.todo = todo
    BY FieldsOfIdle DEF WellFormed
  <2> HIDE DEF r
  <2>3. o.torn = <<>> /\ o.ran = <<>>
    BY <1>1, LenIsNatural DEF WellFormed, Passes, HasRun
  <2> QED
    BY <2>1, <2>2, <2>3, FreshRuns DEF Runs, todo
<1>3. CASE Leave(p, TRUE)
  BY <1>1, <1>3, LeaveRuns
<1> QED
  BY <1>2, <1>3 DEF SaveSession

LEMMA AfterHookRuns ==
  ASSUME IsSeq(hooks), NEW p \in Processes, AfterHook(p), WellFormed(req[p]),
         TornDown(req[p]), HasRun(req[p])
  PROVE  \E r : Runs(p, r)
<1>1. req[p].at = "after" /\ req[p].todo # <<>>
  BY DEF AfterHook, At
<1> DEFINE o == req[p]
           todo == Tail(o.todo)
           ran == Append(o.ran, Head(o.todo))
           r == [o EXCEPT !.todo = todo, !.ran = ran]
<1>2. ASSUME NEW s, Set(p, s), s.at = "after", s.torn = o.torn, s.endpoint = o.endpoint,
             s.todo = todo, s.ran = ran
      PROVE  \E q : Runs(p, q)
  <2>1. o.torn = <<>>
    BY <1>1, LenIsNatural DEF WellFormed, Passes
  <2>2. TornDown(s)
    BY <1>2, <2>1, EmptyIsSeq DEF TornDown
  <2>3. Splits(AfterHooks(o.endpoint), o.ran, o.todo)
    BY <1>1 DEF HasRun
  <2>4. Splits(AfterHooks(s.endpoint), s.ran, s.todo)
    BY <1>1, <1>2, <2>3, SplitsOn
  <2>5. HasRun(s)
    BY <1>2, <2>4 DEF HasRun
  <2> QED
    BY <1>2, <2>2, <2>5 DEF Runs, Set
<1>3. CASE Leave(p, TRUE)
  BY <1>1, <1>3, LeaveRuns
<1> HIDE DEF todo, ran
<1>4. /\ r.at = "after" /\ r.torn = o.torn /\ r.endpoint = o.endpoint
      /\ r.todo = todo /\ r.ran = ran /\ DOMAIN r = Fields
  BY <1>1, FieldsOfIdle DEF WellFormed
<1>5. CASE Set(p, r)
  BY <1>2, <1>4, <1>5
<1>6. ASSUME NEW v, Set(p, [r EXCEPT !.response = Called(@, v)])
      PROVE  \E q : Runs(p, q)
  <2> HIDE DEF r
  <2> DEFINE new == Called(r.response, v)
             s == [r EXCEPT !.response = new]
  <2>1. Set(p, s)
    BY <1>6
  <2> HIDE DEF new
  <2>2. /\ s.at = r.at /\ s.torn = r.torn /\ s.endpoint = r.endpoint
        /\ s.todo = r.todo /\ s.ran = r.ran
    BY <1>4, FieldsOfIdle
  <2> HIDE DEF s
  <2> QED
    BY <1>2, <1>4, <2>1, <2>2
<1> QED
  BY <1>3, <1>5, <1>6 DEF AfterHook, todo, ran

LEMMA SendRuns ==
  ASSUME IsSeq(hooks), NEW p \in Processes,
         AfterHooksDone(p) \/ SendItem(p) \/ SendNext(p) \/ ResponseSent(p),
         WellFormed(req[p]), TornDown(req[p]), HasRun(req[p])
  PROVE  \E r : Runs(p, r)
<1>1. CASE AfterHooksDone(p)
  BY <1>1, LeaveRuns DEF AfterHooksDone, At
<1>2. CASE SendItem(p) \/ SendNext(p) \/ ResponseSent(p)
  <2>1. req[p].at = "send"
    BY <1>2 DEF SendItem, SendNext, ResponseSent, At
  <2>2. req[p].torn # <<>>
    <3>1. Len(req[p].torn) \in Passes("send") /\ IsSeq(req[p].torn)
      BY <2>1 DEF WellFormed
    <3>2. PICK torn : torn = req[p].torn /\ Len(torn) = 1 /\ IsSeq(torn)
      BY <3>1 DEF Passes
    <3>3. torn # <<>>
      BY ONLY <3>2, EmptyIsSeq
    <3> QED
      BY <3>2, <3>3
  <2>3. ASSUME NEW exc, Leave(p, exc) PROVE \E r : Runs(p, r)
    BY <2>1, <2>2, <2>3, LeaveRuns
  <2>4. ASSUME NEW a, NEW b, NEW c,
               \/ Set(p, [req[p] EXCEPT !.response = a, !.result = b, !.sent = c])
               \/ Set(p, [req[p] EXCEPT !.response = a, !.result = b])
        PROVE  \E r : Runs(p, r)
    <3> DEFINE o == req[p]
               s == [o EXCEPT !.response = a, !.result = b, !.sent = c]
               t == [o EXCEPT !.response = a, !.result = b]
    <3>1. /\ s.at = o.at /\ s.torn = o.torn /\ s.cut = o.cut /\ s.ran = o.ran
          /\ s.endpoint = o.endpoint
          /\ t.at = o.at /\ t.torn = o.torn /\ t.cut = o.cut /\ t.ran = o.ran
          /\ t.endpoint = o.endpoint
      BY FieldsOfIdle DEF WellFormed
    <3>2. Set(p, s) \/ Set(p, t)
      BY <2>4
    <3> HIDE DEF s, t
    <3>3. TornDown(s) /\ HasRun(s) /\ TornDown(t) /\ HasRun(t)
      BY <2>1, <3>1, SameRuns
    <3> QED
      BY <3>2, <3>3 DEF Runs, Set
  <2> QED
    BY <1>2, <2>3, <2>4 DEF SendItem, SendNext, ResponseSent
<1> QED
  BY <1>1, <1>2

\* A teardown function runs; another one comes after it unless it stops the pass.
LEMMA TeardownRuns ==
  ASSUME IsSeq(hooks), NEW p \in Processes, Teardown(p), WellFormed(req[p]),
         TornDown(req[p]), HasRun(req[p])
  PROVE  \E r : Runs(p, r)
<1> DEFINE o == req[p]
           pass == Len(o.torn)
           todo == Tail(o.todo)
           list == Append(o.torn[pass], Head(o.todo))
           ran == [o EXCEPT !.todo = todo, !.torn[pass] = list]
           stopped == [ran EXCEPT !.todo = <<>>, !.cut[pass] = TRUE]
           raised == [stopped EXCEPT !.exc = TRUE]
<1>1. /\ o.at = "teardown" /\ o.todo # <<>> /\ DOMAIN o = Fields
      /\ IsSeq(o.torn) /\ IsSeq(o.cut) /\ Len(o.cut) = Len(o.torn)
  BY DEF Teardown, At, WellFormed
<1>2. Set(p, ran) \/ Set(p, stopped) \/ Set(p, raised)
  <2>1. ran = [o EXCEPT !.todo = Tail(@), !.torn[pass] = Append(@, Head(o.todo))]
    BY <1>1, FieldsOfIdle
  <2> QED
    BY <2>1 DEF Teardown
<1>3. PICK k \in Nat : /\ pass = k /\ k # 0 /\ DOMAIN o.torn = 1 .. k
                       /\ DOMAIN o.cut = 1 .. k
  <2>1. o.torn # <<>>
    <3>1. Len(o.torn) \in 1 .. 3
      BY <1>1 DEF WellFormed, Passes
    <3> QED
      BY <3>1, EmptyIsSeq
  <2> QED
    BY <1>1, <2>1, LenIsNatural
<1>4. PICK torn : torn = [o.torn EXCEPT ![k] = list]
  OBVIOUS
<1>5. /\ IsSeq(torn) /\ Len(torn) = k /\ DOMAIN torn = 1 .. k /\ torn[k] = list
      /\ \A n \in 1 .. k : n # k => torn[n] = o.torn[n]
  <2>1. PICK old, x : old = o.torn /\ x = list
    OBVIOUS
  <2>2. IsSeq(torn) /\ Len(torn) = Len(old)
        /\ \A i \in DOMAIN old : torn[i] = IF i = k THEN x ELSE old[i]
    <3>1. IsSeq(old) /\ torn = [old EXCEPT ![k] = x]
      BY <1>1, <1>4, <2>1
    <3> QED
      BY ONLY <3>1, ExceptIsSeq
  <2>3. DOMAIN old = 1 .. k /\ Len(old) = k
    BY <1>3, <2>1
  <2>4. DOMAIN torn = 1 .. k
    BY ONLY <2>2, <2>3, LenIsNatural
  <2>5. torn[k] = x /\ \A n \in 1 .. k : n # k => torn[n] = old[n]
    BY <1>3, <2>2, <2>3
  <2> HIDE DEF list
  <2> QED
    BY ONLY <2>1, <2>2, <2>3, <2>4, <2>5
<1>6. Splits(TeardownList(k), o.torn[k], o.todo)
  BY <1>1, <1>3 DEF TornDown
<1>7. Splits(TeardownList(k), list, todo)
  BY <1>1, <1>3, <1>6, SplitsOn
<1> HIDE DEF list, todo
<1>8. ASSUME NEW r, Set(p, r), r.torn = torn, r.at = "teardown",
             \A n \in 1 .. k : n # k => r.cut[n] = o.cut[n],
             r.todo = todo \/ (r.cut[k] /\ r.todo = <<>>),
             r.ran = o.ran, r.endpoint = o.endpoint, r.exc \/ r.exc = o.exc
      PROVE  \E q : Runs(p, q)
  <2>1. TornDown(r)
    <3> SUFFICES ASSUME NEW n \in 1 .. k
                 PROVE  \E rest :
                          /\ Splits(TeardownList(n), torn[n], rest)
                          /\ IF n = k THEN rest = r.todo \/ (r.cut[n] /\ r.todo = <<>>)
                             ELSE rest = <<>> \/ r.cut[n]
      BY <1>5, <1>8 DEF TornDown
    <3>1. CASE n = k
      BY <1>5, <1>7, <1>8, <3>1
    <3>2. CASE n # k
      <4>1. torn[n] = o.torn[n] /\ n \in DOMAIN o.torn /\ r.cut[n] = o.cut[n]
        BY <1>3, <1>5, <1>8, <3>2
      <4>2. PICK rest : Splits(TeardownList(n), o.torn[n], rest) /\ (rest = <<>> \/ o.cut[n])
        BY <1>3, <3>2, <4>1 DEF TornDown
      <4> QED
        BY <3>2, <4>1, <4>2
    <3> QED
      BY <3>1, <3>2
  <2>2. HasRun(r)
    <3>1. PICK rest : /\ Splits(AfterHooks(o.endpoint), o.ran, rest)
                      /\ Len(o.torn) = 1 /\ ~o.exc => rest = <<>>
      BY <1>1 DEF HasRun
    <3>2. Len(r.torn) = 1 /\ ~r.exc => rest = <<>>
      BY <1>3, <1>5, <1>8, <3>1
    <3> QED
      BY <1>8, <3>1, <3>2 DEF HasRun
  <2> QED
    BY <1>8, <2>1, <2>2 DEF Runs, Set
<1> HIDE DEF o
<1>9. /\ ran.torn = torn /\ ran.todo = todo /\ DOMAIN ran = Fields
      /\ \A f \in Fields \ {"todo", "torn"} : ran[f] = o[f]
  BY <1>1, <1>3, <1>4, FieldsOfIdle
<1> HIDE DEF ran
<1>10. /\ stopped.todo = <<>> /\ DOMAIN stopped = Fields
       /\ stopped.cut = [o.cut EXCEPT ![k] = TRUE]
       /\ \A f \in Fields \ {"todo", "cut"} : stopped[f] = ran[f]
  BY <1>3, <1>9, FieldsOfIdle
<1> HIDE DEF stopped
<1>11. raised.exc = TRUE /\ \A f \in Fields \ {"exc"} : raised[f] = stopped[f]
  BY <1>10, FieldsOfIdle
<1> HIDE DEF raised
<1>12. CASE Set(p, ran)
  BY <1>1, <1>8, <1>9, <1>12, FieldsOfIdle
<1>13. /\ stopped.cut[k] = TRUE /\ \A n \in 1 .. k : n # k => stopped.cut[n] = o.cut[n]
  BY <1>3, <1>10
<1>14. CASE Set(p, stopped)
  BY <1>1, <1>8, <1>9, <1>10, <1>13, <1>14, FieldsOfIdle
<1>15. CASE Set(p, raised)
  <2>1. /\ raised.torn = torn /\ raised.at = "teardown" /\ raised.todo = <<>>
        /\ raised.cut = stopped.cut /\ raised.ran = o.ran /\ raised.endpoint = o.endpoint
        /\ raised.exc
    BY <1>1, <1>9, <1>10, <1>11, FieldsOfIdle
  <2>2. raised.cut[k] /\ \A n \in 1 .. k : n # k => raised.cut[n] = o.cut[n]
    BY <1>13, <2>1
  <2> QED
    BY <1>8, <1>15, <2>1, <2>2
<1> QED
  BY <1>2, <1>12, <1>14, <1>15

LEMMA TeardownDoneRuns ==
  ASSUME IsSeq(hooks), NEW p \in Processes, TeardownDone(p), WellFormed(req[p]),
         TornDown(req[p]), HasRun(req[p])
  PROVE  \E r : Runs(p, r)
<1> DEFINE o == req[p]
<1>1. o.at = "teardown" /\ o.todo = <<>> /\ DOMAIN o = Fields
  BY DEF TeardownDone, At, WellFormed
<1>2. o.torn # <<>>
  <2>1. Len(o.torn) \in 1 .. 3
    BY <1>1 DEF WellFormed, Passes
  <2> QED
    BY <2>1, EmptyIsSeq
<1>3. ASSUME NEW exc, Leave(p, exc) PROVE \E r : Runs(p, r)
  BY <1>1, <1>2, <1>3, LeaveRuns
\* No function of any pass is left to do, unless one has stopped it.
<1>4. ASSUME NEW r, r.torn = o.torn, r.cut = o.cut, r.at # "teardown" PROVE TornDown(r)
  <2> SUFFICES ASSUME NEW n \in DOMAIN o.torn
               PROVE  \E rest : /\ Splits(TeardownList(n), o.torn[n], rest)
                                /\ rest = <<>> \/ o.cut[n]
    BY <1>4 DEF TornDown
  <2> QED
    BY <1>1 DEF TornDown
<1>5. CASE Len(o.torn) = 1 /\ ~o.exc /\ Set(p, [o EXCEPT !.at = "send"])
  <2> DEFINE r == [o EXCEPT !.at = "send"]
  <2>1. r.at = "send" /\ r.torn = o.torn /\ r.cut = o.cut /\ r.ran = o.ran
        /\ r.endpoint = o.endpoint /\ Set(p, r)
    BY <1>1, <1>5, FieldsOfIdle
  <2> HIDE DEF r
  <2>2. HasRun(r)
    BY <1>1, <1>5, <2>1 DEF HasRun
  <2> QED
    BY <1>4, <2>1, <2>2 DEF Runs, Set
<1>6. CASE Set(p, [Idle EXCEPT !.torn = o.torn, !.cut = o.cut])
  <2> DEFINE r == [Idle EXCEPT !.torn = o.torn, !.cut = o.cut]
  <2>1. r.at = "idle" /\ r.torn = o.torn /\ r.cut = o.cut /\ r.ran = <<>> /\ Set(p, r)
    BY <1>6 DEF Idle
  <2> HIDE DEF r
  <2>2. Splits(AfterHooks(r.endpoint), r.ran, AfterHooks(r.endpoint))
    BY <2>1, ListsAreSeq, SplitsAtStart
  <2>3. HasRun(r)
    BY <2>1, <2>2 DEF HasRun
  <2> QED
    BY <1>4, <2>1, <2>3 DEF Runs, Set
<1> QED
  BY <1>3, <1>5, <1>6 DEF TeardownDone

-----------------------------------------------------------------------------
(* The steps of the setup.                                                 *)

LEMMA RecordOne ==
  ASSUME NEW steps, IsSeq(steps), NEW n \in DOMAIN steps, GivenOnce(steps),
         NEW lists, Recorded(steps, lists, n), steps[n].op = "record",
         NEW new, new = [lists EXCEPT ![steps[n].bp] = Append(lists[steps[n].bp], steps[n])]
  PROVE  Recorded(steps, new, n + 1)
<1>1. n \in Nat /\ n # 0 /\ DOMAIN steps = 1 .. Len(steps) /\ Len(steps) \in Nat
  BY LenIsNatural
<1>2. PICK b \in Blueprints : b = steps[n].bp
  BY DEF GivenOnce
<1>3. PICK step, old, more : step = steps[n] /\ old = lists[b] /\ more = Append(old, step)
  OBVIOUS
<1>4. /\ DOMAIN new = Blueprints /\ new[b] = more
      /\ \A bp \in Blueprints : bp # b => new[bp] = lists[bp]
  BY <1>2, <1>3 DEF Recorded
<1>5. IsSeq(old)
  BY <1>2, <1>3 DEF Recorded
<1>6. PICK m \in Nat : Len(old) = m /\ DOMAIN old = 1 .. m
  BY <1>5, LenIsNatural
<1>7. /\ IsSeq(more) /\ Len(more) = m + 1 /\ more[m + 1] = step
      /\ \A i \in 1 .. m : more[i] = old[i]
  BY ONLY <1>3, <1>5, <1>6, AppendIsSeq
<1>8. DOMAIN more = 1 .. m + 1
  BY ONLY <1>7, LenIsNatural
<1>9. /\ \A d \in DOMAIN old :
            \E i \in 1 .. n - 1 : steps[i].op = "record" /\ steps[i].bp = b /\ old[d] = steps[i]
      /\ \A d, e \in DOMAIN old : old[d].func = old[e].func => d = e
      /\ \A i \in 1 .. n - 1 : steps[i].op = "record" /\ steps[i].bp = b =>
           \E d \in DOMAIN old : old[d] = steps[i]
  BY <1>3 DEF Recorded
<1>10. ASSUME NEW d \in 1 .. m
      PROVE  /\ \E i \in 1 .. n - 1 :
                  steps[i].op = "record" /\ steps[i].bp = b /\ old[d] = steps[i]
             /\ old[d].func # step.func
  <2>1. PICK i \in 1 .. n - 1 : steps[i].op = "record" /\ steps[i].bp = b /\ old[d] = steps[i]
    BY <1>6, <1>9
  <2>2. i \in DOMAIN steps /\ i # n
    BY <1>1
  <2>3. steps[i].func # step.func
    BY <1>2, <1>3, <2>1, <2>2 DEF GivenOnce
  <2> QED
    BY <2>1, <2>3
<1>11. ASSUME NEW bp \in Blueprints
       PROVE  /\ IsSeq(new[bp])
              /\ \A d \in DOMAIN new[bp] :
                   \E i \in 1 .. n :
                     steps[i].op = "record" /\ steps[i].bp = bp /\ new[bp][d] = steps[i]
              /\ \A d, e \in DOMAIN new[bp] : new[bp][d].func = new[bp][e].func => d = e
              /\ \A i \in 1 .. n : steps[i].op = "record" /\ steps[i].bp = bp =>
                   \E d \in DOMAIN new[bp] : new[bp][d] = steps[i]
  <2>1. CASE bp # b
    <3>1. new[bp] = lists[bp] /\ \A i \in 1 .. n : steps[i].bp = bp => i \in 1 .. n - 1
      BY <1>1, <1>2, <1>4, <2>1
    <3>2. 1 .. n - 1 \subseteq 1 .. n
      BY <1>1
    <3> QED
      BY <3>1, <3>2 DEF Recorded
  <2>2. CASE bp = b
    <3>1. \A d \in 1 .. m + 1 :
            \E i \in 1 .. n : steps[i].op = "record" /\ steps[i].bp = b /\ more[d] = steps[i]
      <4> SUFFICES ASSUME NEW d \in 1 .. m + 1
                   PROVE  \E i \in 1 .. n :
                            steps[i].op = "record" /\ steps[i].bp = b /\ more[d] = steps[i]
        OBVIOUS
      <4>1. CASE d = m + 1
        BY <1>1, <1>2, <1>3, <1>7, <4>1
      <4>2. CASE d # m + 1
        <5>1. d \in 1 .. m /\ 1 .. n - 1 \subseteq 1 .. n
          BY <1>1, <4>2
        <5> QED
          BY <1>7, <1>10, <5>1
      <4> QED
        BY <4>1, <4>2
    <3>2. \A d, e \in 1 .. m + 1 : more[d].func = more[e].func => d = e
      <4>1. \A d, e \in 1 .. m : more[d].func = more[e].func => d = e
        BY ONLY <1>6, <1>7, <1>9
      <4>2. \A d \in 1 .. m : more[d].func # more[m + 1].func
        BY <1>7, <1>10
      <4>3. \A d \in 1 .. m + 1 : d \in 1 .. m \/ d = m + 1
        OBVIOUS
      <4> QED
        BY <4>1, <4>2, <4>3
    <3>3. \A i \in 1 .. n : steps[i].op = "record" /\ steps[i].bp = b =>
            \E d \in 1 .. m + 1 : more[d] = steps[i]
      <4> SUFFICES ASSUME NEW i \in 1 .. n, steps[i].op = "record", steps[i].bp = b
                   PROVE  \E d \in 1 .. m + 1 : more[d] = steps[i]
        OBVIOUS
      <4>1. CASE i = n
        BY <1>2, <1>3, <1>7, <4>1
      <4>2. CASE i # n
        <5>1. i \in 1 .. n - 1
          BY <1>1, <4>2
        <5>2. steps[i].op = "record" /\ steps[i].bp = b
          OBVIOUS
        <5>3. PICK d \in DOMAIN old : old[d] = steps[i]
          BY ONLY <1>9, <5>1, <5>2
        <5>4. d \in 1 .. m /\ m \in Nat
          BY <1>6
        <5>5. d \in 1 .. m + 1
          BY ONLY <5>4
        <5> QED
          BY <1>7, <5>3, <5>4, <5>5
      <4> QED
        BY <4>1, <4>2
    <3>4. new[bp] = more /\ DOMAIN new[bp] = 1 .. m + 1 /\ IsSeq(new[bp])
      BY <1>4, <1>7, <1>8, <2>2
    <3> QED
      BY ONLY <2>2, <3>1, <3>2, <3>3, <3>4
  <2> QED
    BY <2>1, <2>2
<1>12. (n + 1) - 1 = n
  BY <1>1
<1> QED
  BY ONLY <1>4, <1>11, <1>12 DEF Recorded

\* A step that records nothing.
LEMMA RecordNone ==
  ASSUME NEW steps, NEW n \in Nat \ {0}, NEW lists, Recorded(steps, lists, n),
         steps[n].op # "record"
  PROVE  Recorded(steps, lists, n + 1)
<1>1. /\ (n + 1) - 1 = n /\ 1 .. n - 1 \subseteq 1 .. n
      /\ \A i \in 1 .. n : steps[i].op = "record" => i \in 1 .. n - 1
  OBVIOUS
<1> QED
  BY <1>1 DEF Recorded

\* Steps take effect when their blueprint is registered as the first.
LEMMA EffectiveLater ==
  ASSUME NEW steps, NEW n \in Nat \ {0}
  PROVE  \A i \in 1 .. n - 1 :
           Effective(steps, i, n + 1) <=>
             \/ Effective(steps, i, n)
             \/ steps[i].op = "record" /\ FirstOf(steps, n, steps[i].bp)
<1> SUFFICES ASSUME NEW i \in 1 .. n - 1
             PROVE  Effective(steps, i, n + 1) <=>
                      \/ Effective(steps, i, n)
                      \/ steps[i].op = "record" /\ FirstOf(steps, n, steps[i].bp)
  OBVIOUS
<1>1. \A k : k \in i + 1 .. (n + 1) - 1 <=> k \in i + 1 .. n - 1 \/ k = n
  OBVIOUS
<1> QED
  BY <1>1 DEF Effective

\* A step that adds nothing to the lists, and leaves every blueprint where it was.
LEMMA ListNone ==
  ASSUME NEW steps, NEW n \in Nat \ {0}, NEW list, Listed(steps, list, n),
         steps[n].op # "hook", \A bp : ~FirstOf(steps, n, bp)
  PROVE  Listed(steps, list, n + 1)
<1>1. \A i \in 1 .. n - 1 : Effective(steps, i, n + 1) <=> Effective(steps, i, n)
  BY EffectiveLater
<1>2. ~Effective(steps, n, n + 1)
  <2>1. n + 1 .. (n + 1) - 1 = {}
    OBVIOUS
  <2> QED
    BY <2>1 DEF Effective
<1>3. \A i : i \in 1 .. (n + 1) - 1 <=> i \in 1 .. n - 1 \/ i = n
  OBVIOUS
<1> QED
  BY <1>1, <1>2, <1>3 DEF Listed

\* A step adds the functions of the steps that take effect with it.
LEMMA ListMore ==
  ASSUME NEW steps, IsSeq(steps), NEW n \in DOMAIN steps, GivenOnce(steps),
         NEW list, Listed(steps, list, n), NEW more, IsSeq(more),
         \A d \in DOMAIN more : \E i \in 1 .. n :
           /\ Effective(steps, i, n + 1) /\ (i = n \/ ~Effective(steps, i, n))
           /\ more[d] = HookOf(steps[i]),
         \A i \in 1 .. n : Effective(steps, i, n + 1) =>
           \/ i # n /\ Effective(steps, i, n)
           \/ \E d \in DOMAIN more : more[d] = HookOf(steps[i]),
         \A d, e \in DOMAIN more : more[d].func = more[e].func => d = e,
         NEW new, new = list \o more
  PROVE  Listed(steps, new, n + 1)
<1>1. n \in Nat \ {0} /\ DOMAIN steps = 1 .. Len(steps) /\ Len(steps) \in Nat
  BY LenIsNatural
<1>2. IsSeq(list)
  BY DEF Listed
<1>3. PICK a \in Nat, b \in Nat :
        /\ Len(list) = a /\ DOMAIN list = 1 .. a /\ Len(more) = b /\ DOMAIN more = 1 .. b
  BY <1>2, LenIsNatural
<1>4. /\ IsSeq(new) /\ Len(new) = a + b
      /\ \A i \in 1 .. a : new[i] = list[i]
      /\ \A i \in 1 .. b : new[a + i] = more[i]
  <2>1. /\ IsSeq(new) /\ Len(new) = Len(list) + Len(more)
        /\ \A i \in 1 .. Len(list) : new[i] = list[i]
        /\ \A i \in 1 .. Len(more) : new[Len(list) + i] = more[i]
    BY ONLY <1>2, IsSeq(more), new = list \o more, ConcatIs
  <2> QED
    BY ONLY <1>3, <2>1
<1>5. DOMAIN new = 1 .. a + b
  BY ONLY <1>4, LenIsNatural
<1>6. /\ \A h \in 1 .. a : \E i \in 1 .. n - 1 :
           Effective(steps, i, n) /\ list[h] = HookOf(steps[i])
      /\ \A i \in 1 .. n - 1 : Effective(steps, i, n) =>
           \E h \in 1 .. a : list[h] = HookOf(steps[i])
      /\ \A h, k \in 1 .. a : list[h].func = list[k].func => h = k
  BY <1>3 DEF Listed
<1>7. \A i \in 1 .. n - 1 : i \in 1 .. n /\ (Effective(steps, i, n) => Effective(steps, i, n + 1))
  BY <1>1, EffectiveLater
<1>8. \A h : h \in 1 .. a + b <=> h \in 1 .. a \/ \E d \in 1 .. b : h = a + d
  <2> SUFFICES ASSUME NEW h PROVE h \in 1 .. a + b <=> h \in 1 .. a \/ \E d \in 1 .. b : h = a + d
    OBVIOUS
  <2>1. ASSUME h \in 1 .. a + b, h \notin 1 .. a PROVE \E d \in 1 .. b : h = a + d
    <3>1. h - a \in 1 .. b /\ h = a + (h - a)
      BY <2>1
    <3> QED
      BY <3>1
  <2>2. \A d \in 1 .. b : a + d \in 1 .. a + b
    OBVIOUS
  <2>3. h \in 1 .. a => h \in 1 .. a + b
    OBVIOUS
  <2> QED
    BY <2>1, <2>2, <2>3
<1>9. \A i : HookOf(steps[i]).func = steps[i].func
  BY DEF HookOf, Hook
<1>10. ASSUME NEW h \in 1 .. a, NEW d \in 1 .. b PROVE new[h].func # new[a + d].func
  <2>1. PICK i \in 1 .. n - 1 : Effective(steps, i, n) /\ list[h] = HookOf(steps[i])
    BY <1>6
  <2>2. PICK k \in 1 .. n :
          /\ Effective(steps, k, n + 1) /\ (k = n \/ ~Effective(steps, k, n))
          /\ more[d] = HookOf(steps[k])
    BY <1>3
  <2>3. i # k /\ i \in DOMAIN steps /\ k \in DOMAIN steps
    BY <1>1, <2>1, <2>2
  <2>4. {steps[i].op, steps[k].op} \subseteq {"hook", "record"}
    BY <2>1, <2>2 DEF Effective
  <2>5. steps[i].func # steps[k].func
    BY <2>3, <2>4 DEF GivenOnce
  <2> QED
    BY <1>4, <1>9, <2>1, <2>2, <2>5
<1>11. \A h, k \in 1 .. a + b : new[h].func = new[k].func => h = k
  <2> SUFFICES ASSUME NEW h \in 1 .. a + b, NEW k \in 1 .. a + b, new[h].func = new[k].func
               PROVE  h = k
    OBVIOUS
  <2>1. CASE h \in 1 .. a /\ k \in 1 .. a
    BY <1>4, <1>6, <2>1
  <2>2. CASE \E d, e \in 1 .. b : h = a + d /\ k = a + e
    <3>1. PICK d \in 1 .. b, e \in 1 .. b : h = a + d /\ k = a + e
      BY <2>2
    <3>2. more[d].func = more[e].func /\ d \in DOMAIN more /\ e \in DOMAIN more
      BY ONLY <1>3, <1>4, <3>1, d \in 1 .. b, e \in 1 .. b, new[h].func = new[k].func
    <3> QED
      BY <3>1, <3>2
  <2>3. CASE h \in 1 .. a /\ \E d \in 1 .. b : k = a + d
    BY <1>10, <2>3
  <2>4. CASE k \in 1 .. a /\ \E d \in 1 .. b : h = a + d
    BY <1>10, <2>4
  <2> QED
    BY <1>8, <2>1, <2>2, <2>3, <2>4
<1>12. ASSUME NEW h \in 1 .. a + b
       PROVE  \E i \in 1 .. n : Effective(steps, i, n + 1) /\ new[h] = HookOf(steps[i])
  <2>1. CASE h \in 1 .. a
    <3>1. PICK i \in 1 .. n - 1 : Effective(steps, i, n) /\ list[h] = HookOf(steps[i])
      BY <1>6, <2>1
    <3>2. i \in 1 .. n /\ Effective(steps, i, n + 1) /\ new[h] = HookOf(steps[i])
      BY <1>4, <1>7, <2>1, <3>1
    <3> QED
      BY <3>2
  <2>2. CASE \E d \in 1 .. b : h = a + d
    <3>1. PICK d \in 1 .. b : h = a + d
      BY <2>2
    <3>2. new[h] = more[d] /\ d \in DOMAIN more
      BY <1>3, <1>4, <3>1
    <3> QED
      BY <3>2
  <2> QED
    BY <1>8, <2>1, <2>2
<1>13. ASSUME NEW i \in 1 .. n, Effective(steps, i, n + 1)
       PROVE  \E h \in 1 .. a + b : new[h] = HookOf(steps[i])
  <2>1. CASE i # n /\ Effective(steps, i, n)
    <3>1. i \in 1 .. n - 1
      BY <1>1, <2>1
    <3>2. PICK h \in 1 .. a : list[h] = HookOf(steps[i])
      BY <1>6, <2>1, <3>1
    <3> QED
      BY <1>4, <1>8, <3>2
  <2>2. CASE \E d \in 1 .. b : more[d] = HookOf(steps[i])
    <3>1. PICK d \in 1 .. b : more[d] = HookOf(steps[i])
      BY <2>2
    <3>2. a + d \in 1 .. a + b /\ new[a + d] = HookOf(steps[i])
      BY <1>4, <1>8, <3>1
    <3> QED
      BY <3>2
  <2> QED
    BY <1>3, <1>13, <2>1, <2>2
<1>14. PICK m : m = n + 1 /\ m - 1 = n
  BY <1>1
<1>15. /\ \A h \in DOMAIN new :
            \E i \in 1 .. m - 1 : Effective(steps, i, m) /\ new[h] = HookOf(steps[i])
       /\ \A i \in 1 .. m - 1 : Effective(steps, i, m) =>
            \E h \in DOMAIN new : new[h] = HookOf(steps[i])
       /\ \A h, k \in DOMAIN new : new[h].func = new[k].func => h = k
  BY ONLY <1>5, <1>11, <1>12, <1>13, <1>14
<1>16. Listed(steps, new, m)
  BY ONLY <1>4, <1>15 DEF Listed
<1> QED
  BY <1>14, <1>16

\* A decorator of the application adds its function.
LEMMA ListOne ==
  ASSUME NEW steps, IsSeq(steps), NEW n \in DOMAIN steps, GivenOnce(steps),
         NEW list, Listed(steps, list, n), steps[n].op = "hook"
  PROVE  Listed(steps, Append(list, HookOf(steps[n])), n + 1)
<1>1. n \in Nat \ {0}
  BY LenIsNatural
<1>2. PICK x, more : x = HookOf(steps[n]) /\ more = <<x>>
  OBVIOUS
<1>3. IsSeq(more) /\ DOMAIN more = {1} /\ more[1] = x
  BY <1>2 DEF IsSeq
<1>4. Append(list, x) = list \o more
  <2>1. list \in Seq({list[i] : i \in DOMAIN list} \cup {x})
    <3>1. {list[i] : i \in DOMAIN list} \subseteq {list[i] : i \in DOMAIN list} \cup {x}
      OBVIOUS
    <3> QED
      BY <3>1, SeqMonotonic DEF IsSeq, Listed
  <2>2. PICK S : list \in Seq(S) /\ x \in S
    BY <2>1
  <2> QED
    BY <1>2, <2>2, AppendIsConcat
<1>5. Effective(steps, n, n + 1) /\ \A bp : ~FirstOf(steps, n, bp)
  BY DEF Effective, FirstOf
<1>6. \A i \in 1 .. n - 1 : Effective(steps, i, n + 1) <=> Effective(steps, i, n)
  BY <1>1, <1>5, EffectiveLater
<1>7. \A d \in DOMAIN more : \E i \in 1 .. n :
        /\ Effective(steps, i, n + 1) /\ (i = n \/ ~Effective(steps, i, n))
        /\ more[d] = HookOf(steps[i])
  <2>1. n \in 1 .. n
    BY <1>1
  <2> QED
    BY <1>2, <1>3, <1>5, <2>1
<1>8. \A i \in 1 .. n : Effective(steps, i, n + 1) =>
        \/ i # n /\ Effective(steps, i, n)
        \/ \E d \in DOMAIN more : more[d] = HookOf(steps[i])
  <2>1. \A i \in 1 .. n : i = n \/ i \in 1 .. n - 1
    BY <1>1
  <2>2. more[1] = HookOf(steps[n]) /\ 1 \in DOMAIN more
    BY <1>2, <1>3
  <2>3. \A i \in 1 .. n - 1 : i # n
    BY <1>1
  <2> QED
    BY <1>6, <2>1, <2>2, <2>3
<1>9. \A d, e \in DOMAIN more : more[d].func = more[e].func => d = e
  BY <1>3
<1>10. Listed(steps, list \o more, n + 1)
  BY ONLY <1>3, <1>7, <1>8, <1>9, ListMore, IsSeq(steps), n \in DOMAIN steps, GivenOnce(steps),
     Listed(steps, list, n)
<1> QED
  BY <1>2, <1>4, <1>10

\* A registration adds the functions it calls: as the first, all that the blueprint has
\* recorded; later none, for what goes into a list is recorded once.
LEMMA ListCalled ==
  ASSUME NEW steps, IsSeq(steps), NEW n \in DOMAIN steps, GivenOnce(steps),
         NEW list, Listed(steps, list, n), NEW lists, Recorded(steps, lists, n),
         steps[n].op = "register", NEW old, old = lists[steps[n].bp],
         NEW called, NEW pos,
         IsSublist(called, old, pos, {d \in DOMAIN old : steps[n].first \/ ~old[d].once}),
         \A c \in DOMAIN called : called[c].kind \in HookKinds,
         NEW more, IsSeq(more), DOMAIN more = DOMAIN called,
         \A c \in DOMAIN called :
           more[c] = Hook(called[c].kind, called[c].scope, called[c].func)
  PROVE  Listed(steps, list \o more, n + 1)
<1>1. n \in Nat \ {0} /\ DOMAIN steps = 1 .. Len(steps) /\ Len(steps) \in Nat
  BY LenIsNatural
<1>2. PICK b \in Blueprints : b = steps[n].bp
  BY DEF GivenOnce
<1>3. /\ \A d \in DOMAIN old :
           \E i \in 1 .. n - 1 : steps[i].op = "record" /\ steps[i].bp = b /\ old[d] = steps[i]
      /\ \A d, e \in DOMAIN old : old[d].func = old[e].func => d = e
      /\ \A i \in 1 .. n - 1 : steps[i].op = "record" /\ steps[i].bp = b =>
           \E d \in DOMAIN old : old[d] = steps[i]
  BY <1>2 DEF Recorded
<1>4. /\ IsSeq(called)
      /\ \A c \in DOMAIN called :
           /\ pos[c] \in DOMAIN old /\ called[c] = old[pos[c]]
           /\ steps[n].first \/ ~old[pos[c]].once
      /\ \A c, e \in DOMAIN called : c < e <=> pos[c] < pos[e]
      /\ steps[n].first => \A d \in DOMAIN old : \E c \in DOMAIN called : pos[c] = d
  BY DEF IsSublist
<1>5. ASSUME NEW c \in DOMAIN called
      PROVE  /\ steps[n].first
             /\ \E i \in 1 .. n - 1 :
                  /\ steps[i].op = "record" /\ steps[i].bp = b
                  /\ called[c] = steps[i] /\ more[c] = HookOf(steps[i])
  <2>1. PICK i \in 1 .. n - 1 :
          steps[i].op = "record" /\ steps[i].bp = b /\ called[c] = steps[i]
    BY <1>3, <1>4
  <2>2. more[c] = HookOf(steps[i])
    BY <2>1 DEF HookOf
  <2>3. steps[i].kind \in HookKinds /\ i \in DOMAIN steps
    BY <1>1, <2>1
  <2>4. steps[i].once
    BY <2>1, <2>3 DEF GivenOnce
  <2>5. steps[n].first
    BY <1>4, <2>1, <2>4
  <2> QED
    BY <2>1, <2>2, <2>5
<1>6. ASSUME NEW i \in 1 .. n - 1, steps[i].op = "record", steps[i].bp = b, steps[n].first
      PROVE  Effective(steps, i, n + 1) /\ ~Effective(steps, i, n)
  <2>1. FirstOf(steps, n, b) /\ n \in i + 1 .. (n + 1) - 1
    BY <1>1, <1>2, <1>6 DEF FirstOf
  <2>2. ASSUME NEW k \in i + 1 .. n - 1 PROVE ~FirstOf(steps, k, b)
    <3>1. k \in DOMAIN steps /\ k # n
      BY <1>1
    <3> QED
      BY <2>1, <3>1 DEF GivenOnce
  <2> QED
    BY <1>6, <2>1, <2>2 DEF Effective
<1>7. \A c \in DOMAIN more : \E i \in 1 .. n :
        /\ Effective(steps, i, n + 1) /\ (i = n \/ ~Effective(steps, i, n))
        /\ more[c] = HookOf(steps[i])
  <2>1. 1 .. n - 1 \subseteq 1 .. n
    BY <1>1
  <2> QED
    BY <1>5, <1>6, <2>1
<1>8. \A i \in 1 .. n : Effective(steps, i, n + 1) =>
        \/ i # n /\ Effective(steps, i, n)
        \/ \E c \in DOMAIN more : more[c] = HookOf(steps[i])
  <2> SUFFICES ASSUME NEW i \in 1 .. n, Effective(steps, i, n + 1),
                      ~(i # n /\ Effective(steps, i, n))
               PROVE  \E c \in DOMAIN more : more[c] = HookOf(steps[i])
    OBVIOUS
  <2>1. i # n
    BY DEF Effective
  <2>2. i \in 1 .. n - 1
    BY <1>1, <2>1
  <2>3. steps[i].op = "record" /\ FirstOf(steps, n, steps[i].bp)
    BY <1>1, <2>1, <2>2, EffectiveLater
  <2>4. steps[i].bp = b /\ steps[n].first
    BY <1>2, <2>3 DEF FirstOf
  <2>5. PICK d \in DOMAIN old : old[d] = steps[i]
    BY <1>3, <2>2, <2>3, <2>4
  <2>6. PICK c \in DOMAIN called : pos[c] = d
    BY <1>4, <2>4
  <2>7. more[c] = HookOf(steps[i])
    BY <1>4, <2>3, <2>5, <2>6 DEF HookOf
  <2> QED
    BY <2>7
<1>9. \A c, e \in DOMAIN more : more[c].func = more[e].func => c = e
  <2> SUFFICES ASSUME NEW c \in DOMAIN called, NEW e \in DOMAIN called,
                      more[c].func = more[e].func, c # e
               PROVE  FALSE
    OBVIOUS
  <2>1. called[c].func = called[e].func
    BY DEF Hook
  <2>2. pos[c] = pos[e]
    BY <1>3, <1>4, <2>1
  <2>3. PICK m \in Nat : DOMAIN called = 1 .. m
    BY <1>4, LenIsNatural
  <2>4. c < e \/ e < c
    BY ONLY <2>3, c \in DOMAIN called, e \in DOMAIN called, c # e
  <2>5. pos[c] < pos[e] \/ pos[e] < pos[c]
    BY <1>4, <2>4
  <2>6. PICK l \in Nat : DOMAIN old = 1 .. l
    BY <1>2, LenIsNatural DEF Recorded
  <2>7. pos[c] \in 1 .. l
    BY <1>4, <2>6
  <2> QED
    BY <2>2, <2>5, <2>7
<1> QED
  BY <1>7, <1>8, <1>9, ListMore

-----------------------------------------------------------------------------
(* The steps of the application.                                           *)

LEMMA RegisterLists ==
  ASSUME IsSeq(setup), next \in DOMAIN setup, GivenOnce(setup), Listed(setup, hooks, next),
         Recorded(setup, deferred, next), Register, ~broken'
  PROVE  Listed(setup, hooks', next + 1)
<1> DEFINE old == deferred[setup[next].bp]
           first == setup[next].first
           called == CalledBy(Step.bp, Step.first)
<1>1. called = Sublist(old, {i \in DOMAIN old : first \/ ~old[i].once})
  BY DEF CalledBy, Step
<1> HIDE DEF called
<1>2. PICK more : more = [i \in DOMAIN called |->
                            Hook(called[i].kind, called[i].scope, called[i].func)]
  OBVIOUS
<1>3. /\ {i \in DOMAIN called : called[i].kind \notin HookKinds} = {}
      /\ hooks' = hooks \o more
  <2> DEFINE raising == {i \in DOMAIN called : called[i].kind \notin HookKinds}
             done == IF raising = {} THEN called ELSE SubSeq(called, 1, Min(raising) - 1)
  <2>1. /\ broken' = (raising # {})
        /\ hooks' = hooks \o [i \in DOMAIN done |->
                                Hook(done[i].kind, done[i].scope, done[i].func)]
    BY DEF Register, called
  <2>2. raising = {}
    BY <2>1
  <2>3. done = called
    BY <2>2
  <2> HIDE DEF done
  <2> QED
    BY <1>2, <2>1, <2>2, <2>3
<1>4. IsSeq(old)
  BY DEF Recorded, Register, StepIs, Step, GivenOnce
<1>5. PICK pos : IsSublist(called, old, pos, {i \in DOMAIN old : first \/ ~old[i].once})
  BY <1>1, <1>4, SublistIs
<1>6. IsSeq(more) /\ DOMAIN more = DOMAIN called
  <2>1. PICK m \in Nat : DOMAIN called = 1 .. m
    BY <1>5, LenIsNatural DEF IsSublist
  <2>2. more = [i \in 1 .. m |-> more[i]]
    BY <1>2, <2>1
  <2> QED
    BY <1>2, <2>2, FunctionIsSeq
<1>7. setup[next].op = "register"
  BY DEF Register, StepIs, Step
<1>8. \A c \in DOMAIN called : called[c].kind \in HookKinds
  BY <1>3
<1>9. \A c \in DOMAIN called :
        more[c] = Hook(called[c].kind, called[c].scope, called[c].func)
  BY <1>2
<1> QED
  BY <1>3, <1>5, <1>6, <1>7, <1>8, <1>9, ListCalled

LEMMA SettingUpLists ==
  ASSUME ShapeInv, ListsInv, SettingUp
  PROVE  ListsInv'
<1>1. /\ Configure /\ setup' = setup /\ next' = next + 1 /\ req' = req
      /\ next <= Len(setup) /\ ~broken /\ GivenOnce(setup)
      /\ Recorded(setup, deferred, next) /\ Listed(setup, hooks, next)
  BY DEF SettingUp, Configure, Decorate, OnError, Record, Register, StepIs, ListsInv
<1>2. IsSeq(setup) /\ next \in DOMAIN setup /\ next \in Nat \ {0}
  BY <1>1, LenIsNatural DEF ShapeInv
<1>3. \A p \in Processes : req'[p] = Idle
  BY <1>1, <1>2, LenIsNatural DEF ListsInv, SetUp
<1>4. Recorded(setup, deferred', next + 1) /\ (~broken' => Listed(setup, hooks', next + 1))
  <2>1. CASE Decorate
    <3>1. setup[next].op = "hook" /\ deferred' = deferred
      BY <2>1 DEF Decorate, StepIs, Step
    <3>2. hooks' = Append(hooks, HookOf(setup[next]))
      BY <2>1, <3>1 DEF Decorate, Step, HookOf
    <3> QED
      BY <1>1, <1>2, <3>1, <3>2, RecordNone, ListOne
  <2>2. CASE OnError
    <3>1. setup[next].op = "error" /\ deferred' = deferred /\ hooks' = hooks
      BY <2>2 DEF OnError, StepIs, Step
    <3> QED
      BY <1>1, <1>2, <3>1, RecordNone, ListNone DEF FirstOf
  <2>3. CASE Record
    <3>1. setup[next].op = "record" /\ hooks' = hooks
      BY <2>3 DEF Record, StepIs, Step
    <3>2. deferred' = [deferred EXCEPT ![setup[next].bp] =
                         Append(deferred[setup[next].bp], setup[next])]
      BY <2>3 DEF Record, Step
    <3> QED
      BY <1>1, <1>2, <3>1, <3>2, RecordOne, ListNone DEF FirstOf
  <2>4. CASE Register
    <3>1. setup[next].op = "register" /\ deferred' = deferred
      BY <2>4 DEF Register, StepIs, Step
    <3>2. Recorded(setup, deferred', next + 1)
      BY <1>1, <1>2, <3>1, RecordNone
    <3> QED
      BY <1>1, <1>2, <2>4, <3>2, RegisterLists
  <2> QED
    BY <1>1, <2>1, <2>2, <2>3, <2>4 DEF Configure
<1> QED
  BY <1>1, <1>3, <1>4 DEF ListsInv

\* A request is taken up only when the setup is done, and then the lists stay.
LEMMA RequestLists ==
  ASSUME ListsInv, NEW p \in Processes, Begin(p) \/ BeginFails(p) \/ Handle(p)
  PROVE  ListsInv' /\ hooks' = hooks /\ SetUp /\ IsSeq(hooks)
<1>1. UNCHANGED env
  BY DEF Begin, BeginFails, Handle, BeforeHook, ViewUsesSession, View, SaveSession, AfterHook,
     AfterHooksDone, SendItem, SendNext, ResponseSent, Teardown, TeardownDone
<1>2. UNCHANGED <<setup, next, deferred, hooks, broken>>
  BY <1>1 DEF env, setupVars
<1>3. SetUp
  <2>1. CASE Begin(p) \/ BeginFails(p)
    BY <2>1 DEF Begin, BeginFails
  <2>2. CASE Handle(p)
    <3>1. req[p].at # "idle"
      BY <2>2 DEF Handle, BeforeHook, ViewUsesSession, View, InView, SaveSession, AfterHook,
         AfterHooksDone, SendItem, SendNext, ResponseSent, Teardown, TeardownDone, At
    <3> QED
      BY <3>1, IdleWellFormed DEF ListsInv
  <2> QED
    BY <2>1, <2>2
<1>4. SetUp' /\ IsSeq(hooks)
  BY <1>2, <1>3 DEF SetUp, ListsInv, Listed
<1> QED
  BY <1>2, <1>3, <1>4 DEF ListsInv

\* At the end of the setup all processes are idle.
LEMMA IdleRuns == IsSeq(hooks) => TornDown(Idle) /\ HasRun(Idle)
<1>1. Idle.torn = <<>> /\ Idle.ran = <<>> /\ Idle.at = "idle"
  BY DEF Idle
<1> QED
  BY <1>1, FreshRuns

LEMMA IdleRunsThen == IsSeq(hooks)' => TornDown(Idle)' /\ HasRun(Idle)'
BY IdleRuns, PTL

LEMMA HooksInit ==
  ASSUME Init, ShapeInv, \A s \in Setups : GivenOnce(s)
  PROVE  HooksInv
<1>1. setup \in Setups /\ next = 1 /\ hooks = <<>> /\ deferred = [b \in Blueprints |-> <<>>]
      /\ \A p \in Processes : req[p] = Idle
  BY DEF Init, SetupInit
<1>2. 1 .. 1 - 1 = {}
  OBVIOUS
<1>3. Recorded(setup, deferred, next) /\ Listed(setup, hooks, next)
  BY <1>1, <1>2, EmptyIsSeq DEF Recorded, Listed
<1>4. RunInv
  <2>1. IsSeq(hooks)
    BY <1>1, EmptyIsSeq
  <2> QED
    BY <1>1, <2>1, IdleRuns DEF RunInv
<1> QED
  BY <1>1, <1>3, <1>4 DEF HooksInv, ListsInv

LEMMA HooksNext ==
  ASSUME Inv, ShapeInv, HooksInv, [Next]_vars
  PROVE  HooksInv'
<1>1. DOMAIN req = Processes
  BY DEF Inv, RequestInv
<1>2. CASE SettingUp
  <2>1. ListsInv'
    BY <1>2, SettingUpLists DEF HooksInv
  <2>2. \A p \in Processes : req'[p] = Idle
    <3>1. next <= Len(setup) /\ req' = req
      BY <1>2 DEF SettingUp, Configure, Decorate, OnError, Record, Register, StepIs
    <3>2. ~SetUp
      BY <3>1, LenIsNatural DEF SetUp, ShapeInv
    <3> QED
      BY <3>1, <3>2 DEF HooksInv, ListsInv
  <2>3. RunInv'
    <3>1. SetUp' => IsSeq(hooks)'
      BY <2>1 DEF ListsInv, SetUp, Listed
    <3>2. \A p \in Processes : SetUp' => (TornDown(req[p]) /\ HasRun(req[p]))'
      BY <2>2, <3>1, IdleRunsThen
    <3> QED
      BY <3>2 DEF RunInv
  <2> QED
    BY <2>1, <2>3 DEF HooksInv
<1>3. CASE Outside \/ UNCHANGED vars
  <2>1. UNCHANGED <<setup, next, deferred, hooks, broken, req>>
    BY <1>3 DEF Outside, vars, env, setupVars
  <2> QED
    BY <2>1, RunsKept DEF HooksInv, ListsInv, RunInv, SetUp
<1>4. ASSUME NEW p \in Processes, Begin(p) \/ BeginFails(p) \/ Handle(p) PROVE HooksInv'
  <2>1. ListsInv' /\ hooks' = hooks /\ SetUp /\ IsSeq(hooks)
    BY <1>4, RequestLists DEF HooksInv
  <2>2. WellFormed(req[p]) /\ TornDown(req[p]) /\ HasRun(req[p])
    BY <2>1 DEF ShapeInv, HooksInv, RunInv
  <2>3. CASE ViewUsesSession(p)
    <3>1. req' = req
      BY <2>3 DEF ViewUsesSession
    <3> QED
      BY <2>1, <3>1, RunsKept DEF HooksInv, RunInv
  <2>4. CASE ~ViewUsesSession(p)
    <3>1. \E r : Runs(p, r)
      BY <1>4, <2>1, <2>2, <2>4, BeginRuns, BeginFailsRuns, BeforeHookRuns, DispatchRuns,
         SaveSessionRuns, AfterHookRuns, SendRuns, TeardownRuns, TeardownDoneRuns DEF Handle
    <3> QED
      BY <1>1, <2>1, <3>1, RunsStep DEF HooksInv
  <2> QED
    BY <2>3, <2>4
<1> QED
  BY <1>2, <1>3, <1>4 DEF Next

LEMMA HooksAlways ==
  ASSUME \A s \in Setups : GivenOnce(s)
  PROVE  Spec => [](ShapeInv /\ HooksInv)
<1>1. Init /\ ShapeInv => HooksInv
  BY HooksInit
<1>2. Inv /\ ShapeInv /\ HooksInv /\ [Next]_vars => HooksInv'
  BY HooksNext
<1> QED
  BY <1>1, <1>2, ShapeAlways, PTL DEF Spec

-----------------------------------------------------------------------------
(* What the lists mean for the setup.                                      *)

Distinct(list) == \A h, k \in DOMAIN list : list[h].func = list[k].func => h = k

\* When the setup is done the lists hold what it has asked for.
LEMMA AskedIs ==
  ASSUME ShapeInv, ListsInv, SetUp
  PROVE  /\ IsSeq(hooks) /\ Distinct(hooks)
         /\ \A kind, scope, f : f \in Asked(kind, scope) <=>
              \E h \in DOMAIN hooks :
                hooks[h].kind = kind /\ hooks[h].scope = scope /\ hooks[h].func = f
<1>1. PICK m \in Nat : Len(setup) = m /\ DOMAIN setup = 1 .. m
  BY LenIsNatural DEF ShapeInv
<1>2. next = m + 1 /\ next - 1 = m
  BY <1>1 DEF SetUp, ShapeInv
<1>3. Listed(setup, hooks, next)
  BY DEF SetUp, ListsInv
<1>4. IsSeq(hooks) /\ Distinct(hooks)
  BY <1>3 DEF Listed, Distinct
<1>5. /\ \A h \in DOMAIN hooks :
           \E i \in 1 .. m : Effective(setup, i, next) /\ hooks[h] = HookOf(setup[i])
      /\ \A i \in 1 .. m : Effective(setup, i, next) =>
           \E h \in DOMAIN hooks : hooks[h] = HookOf(setup[i])
  BY <1>2, <1>3 DEF Listed
<1>6. ASSUME NEW kind, NEW scope, NEW f
      PROVE  f \in Asked(kind, scope) <=>
               \E h \in DOMAIN hooks :
                 hooks[h].kind = kind /\ hooks[h].scope = scope /\ hooks[h].func = f
  <2> DEFINE Takes(i) == /\ Effective(setup, i, next) /\ setup[i].kind = kind
                         /\ scope = IF setup[i].op = "hook" THEN AppWide ELSE setup[i].scope
  <2>1. f \in Asked(kind, scope) <=> \E i \in 1 .. m : Takes(i) /\ setup[i].func = f
    BY <1>1, <1>2 DEF Asked, Effective
  <2>2. \A i : /\ HookOf(setup[i]).kind = setup[i].kind /\ HookOf(setup[i]).func = setup[i].func
               /\ HookOf(setup[i]).scope =
                    IF setup[i].op = "hook" THEN AppWide ELSE setup[i].scope
    BY DEF HookOf, Hook
  <2>3. ASSUME NEW i \in 1 .. m, Takes(i), setup[i].func = f
        PROVE  \E h \in DOMAIN hooks :
                 hooks[h].kind = kind /\ hooks[h].scope = scope /\ hooks[h].func = f
    <3>1. PICK h \in DOMAIN hooks : hooks[h] = HookOf(setup[i])
      BY <1>5, <2>3
    <3> QED
      BY <2>2, <2>3, <3>1
  <2>4. ASSUME NEW h \in DOMAIN hooks,
               hooks[h].kind = kind, hooks[h].scope = scope, hooks[h].func = f
        PROVE  \E i \in 1 .. m : Takes(i) /\ setup[i].func = f
    <3>1. PICK i \in 1 .. m : Effective(setup, i, next) /\ hooks[h] = HookOf(setup[i])
      BY <1>5
    <3> QED
      BY <2>2, <2>4, <3>1
  <2> HIDE DEF Takes
  <2> QED
    BY <2>1, <2>3, <2>4
<1> QED
  BY <1>4, <1>6

\* A pass that has run to its end has run what the setup has asked for; each function
\* of it has run after the ones registered later.
LEMMA PassRuns ==
  ASSUME ShapeInv, ListsInv, SetUp, NEW kind, NEW scope,
         NEW list, Backwards(list, kind, scope),
         NEW done, NEW rest, Splits(list, done, rest)
  PROVE  /\ rest = <<>> => Asked(kind, scope) \subseteq {done[i] : i \in DOMAIN done}
         /\ {done[i] : i \in DOMAIN done} \subseteq Asked(kind, scope)
         /\ \A i \in DOMAIN done, f \in Asked(kind, scope) :
              (\E k \in DOMAIN hooks : \E l \in k + 1 .. Len(hooks) :
                 hooks[k].func = done[i] /\ hooks[l].func = f)
              => \E h \in 1 .. i - 1 : done[h] = f
<1>1. PICK pos :
        /\ \A n \in DOMAIN list :
             /\ pos[n] \in DOMAIN hooks /\ list[n] = hooks[pos[n]].func
             /\ hooks[pos[n]].kind = kind /\ hooks[pos[n]].scope = scope
        /\ \A n, k \in DOMAIN list : n < k <=> pos[k] < pos[n]
        /\ \A h \in DOMAIN hooks : hooks[h].kind = kind /\ hooks[h].scope = scope =>
             \E n \in DOMAIN list : pos[n] = h
  BY DEF Backwards
<1>2. /\ IsSeq(done) /\ IsSeq(rest) /\ Len(done) + Len(rest) = Len(list)
      /\ \A i \in 1 .. Len(done) : done[i] = list[i]
  BY DEF Splits
<1>3. PICK a \in Nat, b \in Nat, m \in Nat :
        /\ Len(done) = a /\ DOMAIN done = 1 .. a
        /\ Len(rest) = b /\ (rest = <<>> => b = 0)
        /\ a + b = m /\ DOMAIN list = 1 .. m
  <2>1. IsSeq(list)
    BY DEF Backwards
  <2> QED
    BY <1>2, <2>1, LenIsNatural
<1>4. IsSeq(hooks) /\ Distinct(hooks)
  BY AskedIs
<1>5. PICK l \in Nat : Len(hooks) = l /\ DOMAIN hooks = 1 .. l
  BY <1>4, LenIsNatural
<1>6. \A i \in 1 .. a : i \in 1 .. m /\ done[i] = list[i]
  BY <1>2, <1>3
<1>7. \A f : f \in Asked(kind, scope) <=> \E n \in 1 .. m : list[n] = f
  <2> SUFFICES ASSUME NEW f
               PROVE  f \in Asked(kind, scope) <=> \E n \in 1 .. m : list[n] = f
    OBVIOUS
  <2>1. f \in Asked(kind, scope) <=>
          \E h \in DOMAIN hooks :
            hooks[h].kind = kind /\ hooks[h].scope = scope /\ hooks[h].func = f
    BY AskedIs
  <2> QED
    BY <1>1, <1>3, <2>1
<1>8. rest = <<>> => Asked(kind, scope) \subseteq {done[i] : i \in DOMAIN done}
  <2> SUFFICES ASSUME rest = <<>>
               PROVE  Asked(kind, scope) \subseteq {done[i] : i \in DOMAIN done}
    OBVIOUS
  <2>1. a = m
    BY <1>3
  <2>2. DOMAIN done = 1 .. m /\ \A i \in 1 .. m : done[i] = list[i]
    BY <1>3, <1>6, <2>1
  <2> QED
    BY <1>7, <2>2
<1>9. {done[i] : i \in DOMAIN done} \subseteq Asked(kind, scope)
  BY <1>3, <1>6, <1>7
<1>10. ASSUME NEW i \in 1 .. a, NEW f \in Asked(kind, scope),
             NEW k \in 1 .. l, NEW g \in k + 1 .. l,
             hooks[k].func = done[i], hooks[g].func = f
      PROVE  \E h \in 1 .. i - 1 : done[h] = f
  <2>1. i \in 1 .. m /\ done[i] = hooks[pos[i]].func /\ pos[i] \in DOMAIN hooks
    BY <1>1, <1>3, <1>6
  <2>2. pos[i] = k
    BY <1>4, <1>5, <1>10, <2>1 DEF Distinct
  <2>3. PICK n \in 1 .. m : list[n] = f
    BY <1>7
  <2>4. pos[n] \in DOMAIN hooks /\ hooks[pos[n]].func = f /\ g \in DOMAIN hooks
    BY <1>1, <1>3, <1>5, <2>3
  <2>5. pos[n] = g
    BY <1>4, <1>10, <2>4 DEF Distinct
  <2>6. n < i
    BY <1>1, <1>3, <2>1, <2>2, <2>5
  <2>7. n \in 1 .. i - 1 /\ n \in 1 .. a
    BY <2>6
  <2> QED
    BY <1>6, <2>3, <2>7
<1> QED
  BY <1>3, <1>5, <1>8, <1>9, <1>10

\* The functions of a blueprint in a list of after_request functions come first, those
\* of the application after them, each once.
OwnFirst(list, owner, pos, a) ==
  /\ \A n \in DOMAIN list :
       /\ n \in Nat /\ pos[n] \in DOMAIN hooks /\ list[n] = hooks[pos[n]].func
       /\ hooks[pos[n]].kind = "after"
       /\ hooks[pos[n]].scope = IF n <= a THEN owner ELSE AppWide
  /\ owner = AppWide => a = 0
  /\ \A n, k \in DOMAIN list : pos[n] = pos[k] => n = k
  /\ \A h \in DOMAIN hooks : hooks[h].kind = "after" /\ hooks[h].scope \in {owner, AppWide} =>
       \E n \in DOMAIN list : pos[n] = h

LEMMA AfterIs ==
  ASSUME IsSeq(hooks), NEW endpoint
  PROVE  \E pos : \E a \in Nat : OwnFirst(AfterHooks(endpoint), Owner(endpoint), pos, a)
<1>1. PICK own, all, list :
        /\ list = AfterHooks(endpoint) /\ list = own \o all /\ IsSeq(own)
        /\ IF Owner(endpoint) = AppWide THEN own = <<>>
           ELSE Backwards(own, "after", Owner(endpoint))
        /\ Backwards(all, "after", AppWide)
  BY AfterBackwards
<1>2. PICK bp : bp = Owner(endpoint)
  OBVIOUS
<1>3. PICK a \in Nat, b \in Nat :
        /\ Len(own) = a /\ DOMAIN own = 1 .. a /\ Len(all) = b /\ DOMAIN all = 1 .. b
        /\ bp = AppWide => a = 0
  BY <1>1, <1>2, LenIsNatural, EmptyIsSeq DEF Backwards
<1>4. /\ DOMAIN list = 1 .. a + b
      /\ \A i \in 1 .. a : list[i] = own[i]
      /\ \A i \in 1 .. b : list[a + i] = all[i]
  <2>1. /\ IsSeq(list) /\ Len(list) = Len(own) + Len(all)
        /\ \A i \in 1 .. Len(own) : list[i] = own[i]
        /\ \A i \in 1 .. Len(all) : list[Len(own) + i] = all[i]
    <3>1. IsSeq(all) /\ list = own \o all
      BY <1>1 DEF Backwards
    <3> QED
      BY ONLY <1>1, <3>1, ConcatIs
  <2> QED
    BY ONLY <1>3, <2>1, LenIsNatural
<1>5. PICK po :
        /\ \A n \in 1 .. a :
             /\ po[n] \in DOMAIN hooks /\ own[n] = hooks[po[n]].func
             /\ hooks[po[n]].kind = "after" /\ hooks[po[n]].scope = bp
        /\ \A n, k \in 1 .. a : n < k <=> po[k] < po[n]
        /\ bp # AppWide => \A h \in DOMAIN hooks : hooks[h].kind = "after" /\ hooks[h].scope = bp =>
             \E n \in 1 .. a : po[n] = h
  <2>1. CASE bp = AppWide
    <3>1. 1 .. a = {}
      BY <1>3, <2>1
    <3> QED
      BY <2>1, <3>1
  <2>2. CASE bp # AppWide
    <3>1. Backwards(own, "after", bp)
      BY <1>1, <1>2, <2>2
    <3>2. PICK po :
            /\ \A n \in DOMAIN own :
                 /\ po[n] \in DOMAIN hooks /\ own[n] = hooks[po[n]].func
                 /\ hooks[po[n]].kind = "after" /\ hooks[po[n]].scope = bp
            /\ \A n, k \in DOMAIN own : n < k <=> po[k] < po[n]
            /\ \A h \in DOMAIN hooks : hooks[h].kind = "after" /\ hooks[h].scope = bp =>
                 \E n \in DOMAIN own : po[n] = h
      BY ONLY <3>1 DEF Backwards
    <3>3. DOMAIN own = 1 .. a
      BY <1>3
    <3> QED
      BY ONLY <3>2, <3>3
  <2> QED
    BY <2>1, <2>2
<1>6. Backwards(all, "after", AppWide)
  BY <1>1
<1>7. PICK pa :
        /\ \A n \in DOMAIN all :
             /\ pa[n] \in DOMAIN hooks /\ all[n] = hooks[pa[n]].func
             /\ hooks[pa[n]].kind = "after" /\ hooks[pa[n]].scope = AppWide
        /\ \A n, k \in DOMAIN all : n < k <=> pa[k] < pa[n]
        /\ \A h \in DOMAIN hooks : hooks[h].kind = "after" /\ hooks[h].scope = AppWide =>
             \E n \in DOMAIN all : pa[n] = h
  BY ONLY <1>6 DEF Backwards
<1>8. /\ \A n \in 1 .. b :
           /\ pa[n] \in DOMAIN hooks /\ all[n] = hooks[pa[n]].func
           /\ hooks[pa[n]].kind = "after" /\ hooks[pa[n]].scope = AppWide
      /\ \A n, k \in 1 .. b : n < k <=> pa[k] < pa[n]
      /\ \A h \in DOMAIN hooks : hooks[h].kind = "after" /\ hooks[h].scope = AppWide =>
           \E n \in 1 .. b : pa[n] = h
  <2>1. DOMAIN all = 1 .. b
    BY <1>3
  <2> QED
    BY ONLY <1>7, <2>1
<1>9. PICK pos : pos = [n \in 1 .. a + b |-> IF n <= a THEN po[n] ELSE pa[n - a]]
  OBVIOUS
<1>10. /\ \A n \in 1 .. a : n \in 1 .. a + b /\ pos[n] = po[n]
       /\ \A n \in 1 .. b : a + n \in 1 .. a + b /\ ~(a + n <= a) /\ pos[a + n] = pa[n]
  <2>1. \A n \in 1 .. a : n \in 1 .. a + b /\ n <= a
    OBVIOUS
  <2>2. \A n \in 1 .. b : a + n \in 1 .. a + b /\ ~(a + n <= a) /\ (a + n) - a = n
    OBVIOUS
  <2> QED
    BY ONLY <1>9, <2>1, <2>2
<1>11. \A n \in 1 .. a + b : n \in 1 .. a \/ \E i \in 1 .. b : n = a + i
  <2> SUFFICES ASSUME NEW n \in 1 .. a + b, n \notin 1 .. a PROVE \E i \in 1 .. b : n = a + i
    OBVIOUS
  <2>1. n - a \in 1 .. b /\ n = a + (n - a)
    OBVIOUS
  <2> QED
    BY <2>1
<1>12. ASSUME NEW n \in 1 .. a + b
       PROVE  /\ pos[n] \in DOMAIN hooks /\ list[n] = hooks[pos[n]].func
              /\ hooks[pos[n]].kind = "after"
              /\ hooks[pos[n]].scope = IF n <= a THEN bp ELSE AppWide
  <2>1. CASE n \in 1 .. a
    <3>1. n <= a /\ pos[n] = po[n] /\ list[n] = own[n]
      BY <1>4, <1>10, <2>1
    <3> QED
      BY <1>5, <2>1, <3>1
  <2>2. CASE \E i \in 1 .. b : n = a + i
    <3>1. PICK i \in 1 .. b : n = a + i
      BY <2>2
    <3>2. ~(n <= a) /\ pos[n] = pa[i] /\ list[n] = all[i]
      BY <1>4, <1>10, <3>1
    <3> QED
      BY <1>8, <3>2
  <2> QED
    BY <1>11, <2>1, <2>2
<1>13. \A h \in DOMAIN hooks : h \in Nat
  BY LenIsNatural
<1>14. ASSUME NEW n \in 1 .. a + b, NEW k \in 1 .. a + b, pos[n] = pos[k] PROVE n = k
  <2>1. \A i \in 1 .. a, j \in 1 .. a : po[i] = po[j] => i = j
    BY <1>5, <1>13
  <2>2. \A i \in 1 .. b, j \in 1 .. b : pa[i] = pa[j] => i = j
    BY <1>8, <1>13
  <2>3. \A i \in 1 .. a, j \in 1 .. b : po[i] # pa[j]
    <3>1. ASSUME NEW i \in 1 .. a PROVE bp # AppWide
      BY <1>3
    <3> QED
      BY <1>5, <1>8, <3>1
  <2>4. CASE n \in 1 .. a /\ k \in 1 .. a
    BY <1>10, <1>14, <2>1, <2>4
  <2>5. CASE \E i, j \in 1 .. b : n = a + i /\ k = a + j
    <3>1. PICK i \in 1 .. b, j \in 1 .. b : n = a + i /\ k = a + j
      BY <2>5
    <3>2. pa[i] = pa[j]
      BY <1>10, <1>14, <3>1
    <3> QED
      BY <2>2, <3>1, <3>2
  <2>6. ~(n \in 1 .. a /\ \E j \in 1 .. b : k = a + j)
    BY <1>10, <1>14, <2>3
  <2>7. ~(k \in 1 .. a /\ \E i \in 1 .. b : n = a + i)
    BY <1>10, <1>14, <2>3
  <2> QED
    BY <1>11, <2>4, <2>5, <2>6, <2>7
<1>15. ASSUME NEW h \in DOMAIN hooks, hooks[h].kind = "after", hooks[h].scope \in {bp, AppWide}
       PROVE  \E n \in 1 .. a + b : pos[n] = h
  <2>1. CASE hooks[h].scope = AppWide
    <3>1. PICK n \in 1 .. b : pa[n] = h
      BY <1>8, <1>15, <2>1
    <3> QED
      BY <1>10, <3>1
  <2>2. CASE hooks[h].scope = bp /\ bp # AppWide
    <3>1. PICK n \in 1 .. a : po[n] = h
      BY <1>5, <1>15, <2>2
    <3> QED
      BY <1>10, <3>1
  <2> QED
    BY <1>15, <2>1, <2>2
<1>16. \A n \in 1 .. a + b : n \in Nat
  OBVIOUS
<1>17. OwnFirst(list, bp, pos, a)
  <2>1. DOMAIN list = 1 .. a + b /\ (bp = AppWide => a = 0)
    BY <1>3, <1>4
  <2> QED
    BY ONLY <1>12, <1>14, <1>15, <1>16, <2>1 DEF OwnFirst
<1> QED
  BY <1>1, <1>2, <1>17

LEMMA AfterRuns ==
  ASSUME ShapeInv, ListsInv, SetUp, NEW endpoint,
         NEW ran, NEW rest, Splits(AfterHooks(endpoint), ran, rest)
  PROVE  LET bp == Owner(endpoint)
             asked == Asked("after", bp) \cup Asked("after", AppWide)
         IN  /\ {ran[i] : i \in DOMAIN ran} \subseteq asked
             /\ \A i, k \in DOMAIN ran : i < k =>
                  /\ ran[i] # ran[k]
                  /\ ran[k] \in Asked("after", AppWide) \/ ran[i] \notin Asked("after", AppWide)
             /\ rest = <<>> => {ran[i] : i \in DOMAIN ran} = asked
<1>1. IsSeq(hooks) /\ Distinct(hooks)
  BY AskedIs
<1>2. PICK list, bp : list = AfterHooks(endpoint) /\ bp = Owner(endpoint)
  OBVIOUS
<1>3. PICK pos, a : a \in Nat /\ OwnFirst(list, bp, pos, a)
  BY <1>1, <1>2, AfterIs
<1>4. IsSeq(list) /\ Splits(list, ran, rest)
  BY <1>1, <1>2, ListsAreSeq
<1>5. PICK d \in Nat, m \in Nat :
        /\ DOMAIN ran = 1 .. d /\ d <= m /\ DOMAIN list = 1 .. m
        /\ rest = <<>> => d = m
        /\ \A i \in 1 .. d : i \in 1 .. m /\ ran[i] = list[i]
  <2>1. /\ IsSeq(ran) /\ IsSeq(rest) /\ Len(ran) + Len(rest) = Len(list)
        /\ \A i \in 1 .. Len(ran) : ran[i] = list[i]
    BY <1>4 DEF Splits
  <2>2. PICK d \in Nat, b \in Nat, m \in Nat :
          /\ d = Len(ran) /\ b = Len(rest) /\ m = Len(list)
          /\ DOMAIN ran = 1 .. d /\ DOMAIN list = 1 .. m /\ (rest = <<>> => b = 0)
    BY <1>4, <2>1, LenIsNatural
  <2>3. d + b = m
    BY <2>1, <2>2
  <2>4. d <= m /\ (rest = <<>> => d = m) /\ \A i \in 1 .. d : i \in 1 .. m
    BY <2>2, <2>3
  <2>5. \A i \in 1 .. d : ran[i] = list[i]
    BY <2>1, <2>2
  <2> QED
    BY <2>2, <2>4, <2>5
<1> DEFINE own == Asked("after", bp)
           all == Asked("after", AppWide)
<1>6. /\ \A f : f \in own <=>
           \E h \in DOMAIN hooks :
             hooks[h].kind = "after" /\ hooks[h].scope = bp /\ hooks[h].func = f
      /\ \A f : f \in all <=>
           \E h \in DOMAIN hooks :
             hooks[h].kind = "after" /\ hooks[h].scope = AppWide /\ hooks[h].func = f
  BY AskedIs
<1> HIDE DEF own, all
\* Each element is that of one hook.
<1>7. ASSUME NEW n \in 1 .. m
      PROVE  /\ n \in Nat /\ pos[n] \in DOMAIN hooks /\ list[n] = hooks[pos[n]].func
             /\ hooks[pos[n]].kind = "after"
             /\ hooks[pos[n]].scope = IF n <= a THEN bp ELSE AppWide
             /\ bp = AppWide => ~(n <= a)
             /\ \A h \in DOMAIN hooks : hooks[h].func = list[n] => h = pos[n]
  <2>1. /\ n \in Nat /\ pos[n] \in DOMAIN hooks /\ list[n] = hooks[pos[n]].func
        /\ hooks[pos[n]].kind = "after"
        /\ hooks[pos[n]].scope = IF n <= a THEN bp ELSE AppWide
        /\ bp = AppWide => a = 0
    BY <1>3, <1>5 DEF OwnFirst
  <2> QED
    BY <1>1, <2>1 DEF Distinct
<1>8. \A n \in 1 .. m : list[n] \in all <=> ~(n <= a)
  <2> SUFFICES ASSUME NEW n \in 1 .. m PROVE list[n] \in all <=> ~(n <= a)
    OBVIOUS
  <2>1. ASSUME list[n] \in all PROVE ~(n <= a)
    <3>1. hooks[pos[n]].scope = AppWide
      BY <1>6, <1>7, <2>1
    <3> QED
      BY <1>7, <3>1
  <2>2. ASSUME ~(n <= a) PROVE list[n] \in all
    BY <1>6, <1>7, <2>2
  <2> QED
    BY <2>1, <2>2
<1>9. \A n \in 1 .. m : list[n] \in own \cup all
  BY <1>6, <1>7
<1>10. \A n, k \in 1 .. m : list[n] = list[k] => n = k
  <2>1. \A n, k \in 1 .. m : pos[n] = pos[k] => n = k
    BY <1>3, <1>5 DEF OwnFirst
  <2> QED
    BY <1>7, <2>1
<1>11. \A f \in own \cup all : \E n \in 1 .. m : list[n] = f
  <2> SUFFICES ASSUME NEW f \in own \cup all PROVE \E n \in 1 .. m : list[n] = f
    OBVIOUS
  <2>1. PICK h \in DOMAIN hooks :
          hooks[h].kind = "after" /\ hooks[h].scope \in {bp, AppWide} /\ hooks[h].func = f
    BY <1>6
  <2>2. PICK n \in 1 .. m : pos[n] = h
    BY <1>3, <1>5, <2>1 DEF OwnFirst
  <2> QED
    BY <1>7, <2>1, <2>2
<1>12. {ran[i] : i \in DOMAIN ran} \subseteq own \cup all
  BY <1>5, <1>9
<1>13. ASSUME NEW i \in 1 .. d, NEW k \in 1 .. d, i < k
       PROVE  ran[i] # ran[k] /\ (ran[k] \in all \/ ran[i] \notin all)
  <2>1. i \in 1 .. m /\ k \in 1 .. m /\ ran[i] = list[i] /\ ran[k] = list[k]
    BY <1>5
  <2>2. i <= a \/ ~(k <= a)
    BY <1>3, <1>13
  <2> QED
    BY <1>8, <1>10, <1>13, <2>1, <2>2
<1>14. rest = <<>> => {ran[i] : i \in DOMAIN ran} = own \cup all
  <2> SUFFICES ASSUME rest = <<>> PROVE own \cup all \subseteq {ran[i] : i \in DOMAIN ran}
    BY <1>12
  <2>1. DOMAIN ran = 1 .. m /\ \A i \in 1 .. m : ran[i] = list[i]
    BY <1>5
  <2> QED
    BY <1>11, <2>1
<1> QED
  BY <1>2, <1>5, <1>12, <1>13, <1>14 DEF own, all

\* For each of the three contexts of a stanza the functions that the application has for
\* teardown_request and teardown_appcontext run, the ones registered later first,
\* whatever raises before, and all of them unless one of them returns a value or raises;
\* nothing runs that was not registered.  What is registered is what the setup has asked
\* for, by the application or through blueprints, for every setup that gives each
\* function once.
THEOREM EveryTeardownRuns ==
  ASSUME \A s \in Setups : GivenOnce(s)
  PROVE  Spec => []TeardownComplete
<1>1. ShapeInv /\ HooksInv => TeardownComplete
  <2> SUFFICES ASSUME ShapeInv, HooksInv, NEW p \in Processes
               PROVE  LET r == req[p]
                          Finished(n) == n < Len(r.torn) \/ r.todo = <<>>
                      IN
                      /\ \A n \in DOMAIN r.torn :
                           LET kind == IF n = 3 THEN "teardown_appcontext" ELSE "teardown"
                               asked == Asked(kind, AppWide)
                               ran == {r.torn[n][i] : i \in DOMAIN r.torn[n]}
                           IN
                           /\ Finished(n) /\ ~r.cut[n] => asked \subseteq ran
                           /\ ran \subseteq
                                UNION {Asked(kind, scope) : scope \in Blueprints \cup {AppWide}}
                           /\ \A i \in DOMAIN r.torn[n], f \in asked :
                                (\E k \in DOMAIN hooks : \E l \in k + 1 .. Len(hooks) :
                                   hooks[k].func = r.torn[n][i] /\ hooks[l].func = f)
                                => \E h \in 1 .. i - 1 : r.torn[n][h] = f
                      /\ At(p, "idle") /\ r.torn # <<>> => Len(r.torn) = 3
    BY DEF TeardownComplete
  <2> DEFINE r == req[p]
  <2>1. WellFormed(r)
    BY DEF ShapeInv
  <2>2. At(p, "idle") /\ r.torn # <<>> => Len(r.torn) = 3
    BY <2>1, LenIsNatural DEF WellFormed, Passes, At
  <2>3. CASE ~SetUp
    <3>1. r.torn = <<>>
      BY <2>3 DEF HooksInv, ListsInv, Idle
    <3> QED
      BY <2>2, <3>1, EmptyIsSeq
  <2>4. CASE SetUp
    <3>1. ASSUME NEW n \in DOMAIN r.torn
          PROVE  LET kind == IF n = 3 THEN "teardown_appcontext" ELSE "teardown"
                     asked == Asked(kind, AppWide)
                     ran == {r.torn[n][i] : i \in DOMAIN r.torn[n]}
                 IN
                 /\ (n < Len(r.torn) \/ r.todo = <<>>) /\ ~r.cut[n] => asked \subseteq ran
                 /\ ran \subseteq
                      UNION {Asked(kind, scope) : scope \in Blueprints \cup {AppWide}}
                 /\ \A i \in DOMAIN r.torn[n], f \in asked :
                      (\E k \in DOMAIN hooks : \E l \in k + 1 .. Len(hooks) :
                         hooks[k].func = r.torn[n][i] /\ hooks[l].func = f)
                      => \E h \in 1 .. i - 1 : r.torn[n][h] = f
      <4>1. PICK kind : kind = IF n = 3 THEN "teardown_appcontext" ELSE "teardown"
        OBVIOUS
      <4>2. TornDown(r) /\ ListsInv
        BY <2>4 DEF HooksInv, RunInv
      <4>3. PICK rest :
              /\ Splits(TeardownList(n), r.torn[n], rest)
              /\ IF n = Len(r.torn) /\ r.at = "teardown"
                 THEN rest = r.todo \/ (r.cut[n] /\ r.todo = <<>>)
                 ELSE rest = <<>> \/ r.cut[n]
        BY <4>2 DEF TornDown
      <4>4. (n < Len(r.torn) \/ r.todo = <<>>) /\ ~r.cut[n] => rest = <<>>
        <5>1. Len(r.torn) \in Nat
          BY <2>1, LenIsNatural DEF WellFormed
        <5> QED
          BY <4>3, <5>1
      <4>5. Backwards(TeardownList(n), kind, AppWide)
        BY <2>4, <4>1, <4>2, AskedIs, TeardownBackwards
      <4>6. /\ rest = <<>> =>
                 Asked(kind, AppWide) \subseteq {r.torn[n][i] : i \in DOMAIN r.torn[n]}
            /\ {r.torn[n][i] : i \in DOMAIN r.torn[n]} \subseteq Asked(kind, AppWide)
            /\ \A i \in DOMAIN r.torn[n], f \in Asked(kind, AppWide) :
                 (\E k \in DOMAIN hooks : \E l \in k + 1 .. Len(hooks) :
                    hooks[k].func = r.torn[n][i] /\ hooks[l].func = f)
                 => \E h \in 1 .. i - 1 : r.torn[n][h] = f
        <5>1. PICK list, done : list = TeardownList(n) /\ done = r.torn[n]
          OBVIOUS
        <5>2. /\ rest = <<>> => Asked(kind, AppWide) \subseteq {done[i] : i \in DOMAIN done}
              /\ {done[i] : i \in DOMAIN done} \subseteq Asked(kind, AppWide)
              /\ \A i \in DOMAIN done, f \in Asked(kind, AppWide) :
                   (\E k \in DOMAIN hooks : \E l \in k + 1 .. Len(hooks) :
                      hooks[k].func = done[i] /\ hooks[l].func = f)
                   => \E h \in 1 .. i - 1 : done[h] = f
          BY <2>4, <4>2, <4>3, <4>5, <5>1, PassRuns
        <5> QED
          BY <5>1, <5>2
      <4>7. Asked(kind, AppWide) \subseteq
              UNION {Asked(kind, scope) : scope \in Blueprints \cup {AppWide}}
        OBVIOUS
      <4> QED
        BY <4>1, <4>4, <4>6, <4>7
    <3> QED
      BY <2>2, <3>1
  <2> QED
    BY <2>3, <2>4
<1> QED
  BY <1>1, HooksAlways, PTL

\* The after_request functions of a blueprint run for the requests of its own rules only,
\* those of the application and of after_app_request for all, once each, the blueprint's
\* first, and all of them before a response is sent, for every setup that gives each
\* function once.
THEOREM HooksRunInScope ==
  ASSUME \A s \in Setups : GivenOnce(s)
  PROVE  Spec => []HooksInScope
<1>1. ShapeInv /\ HooksInv => HooksInScope
  <2> SUFFICES ASSUME ShapeInv, HooksInv, NEW p \in Processes
               PROVE  LET r == req[p]
                          bp == Owner(r.endpoint)
                          ran == {r.ran[i] : i \in DOMAIN r.ran}
                      IN
                      /\ ran \subseteq Asked("after", bp) \cup Asked("after", AppWide)
                      /\ \A i, k \in DOMAIN r.ran : i < k =>
                           /\ r.ran[i] # r.ran[k]
                           /\ \/ r.ran[k] \in Asked("after", AppWide)
                              \/ r.ran[i] \notin Asked("after", AppWide)
                      /\ At(p, "send") =>
                           ran = Asked("after", bp) \cup Asked("after", AppWide)
    BY DEF HooksInScope, Owner
  <2>1. CASE ~SetUp
    <3>1. req[p].ran = <<>> /\ req[p].at = "idle"
      BY <2>1 DEF HooksInv, ListsInv, Idle
    <3> QED
      BY <3>1, EmptyIsSeq DEF At
  <2>2. CASE SetUp
    <3>1. PICK rest : /\ Splits(AfterHooks(req[p].endpoint), req[p].ran, rest)
                      /\ req[p].at = "send" => rest = <<>>
      BY <2>2 DEF HooksInv, RunInv, HasRun
    <3> QED
      BY <2>2, <3>1, AfterRuns DEF HooksInv, At
  <2> QED
    BY <2>1, <2>2
<1> QED
  BY <1>1, HooksAlways, PTL

-----------------------------------------------------------------------------
(* Requests end.  RequestEnds itself is left to the runs; what makes it    *)
(* true is proved: every step on a stanza lowers a measure, which no step  *)
(* of others changes.                                                      *)

\* What application code must not do if requests are to end: a generator that yields
\* items for ever.  And who records functions or is registered is a blueprint.
ValuesAreFinite == \A v \in Values : IsSeq(v.items)

NamesBlueprints(steps) ==
  \A i \in DOMAIN steps : steps[i].op \in {"record", "register"} => steps[i].bp \in Blueprints

\* The points a request has still to pass; an exception skips some.
Stage(r) ==
  CASE r.at = "before" -> 7
    [] r.at = "save" -> 6
    [] r.at = "after" -> 5
    [] r.at = "send" -> 3
    [] r.at = "teardown" ->
         IF Len(r.torn) = 1 THEN 4 ELSE IF Len(r.torn) = 2 THEN 2 ELSE 1
    [] r.at = "idle" -> 0

\* The functions it has still to call, and the responses it has still to begin with.
Listing(r) == IF r.at = "send" THEN Len(r.response.queue) ELSE Len(r.todo)

\* What a view may still do to its session: what it has cleared it writes again, but
\* there is no second clearing.
Unused(r, s) ==
  (IF s.jid = NoJid THEN 0 ELSE 3) + (IF r.mark \in s.marks THEN 0 ELSE 1)
  + (IF s.permanent THEN 0 ELSE 1)

Rest(r, s) ==
  CASE r.at = "before" -> Unused(r, s)
    [] r.at = "send" -> Len(r.response.current.items)
    [] OTHER -> 0

Ahead(r, s) == <<Stage(r), Listing(r), Rest(r, s)>>
AheadOf(p) == Ahead(req[p], session[p])

\* The first number that differs is lower.
Before(u, v) == \E k \in 1 .. 3 : u[k] < v[k] /\ \A i \in 1 .. k - 1 : u[i] = v[i]

AheadIsNatural == \A p \in Processes : \A k \in 1 .. 3 : AheadOf(p)[k] \in Nat
EveryStepCounts ==
  [][\A p \in Processes :
       IF Handle(p) THEN Before(AheadOf(p)', AheadOf(p))
       ELSE ~At(p, "idle") => AheadOf(p)' = AheadOf(p)]_vars

-----------------------------------------------------------------------------
(* The lists are finite, those of a request included.                      *)

FiniteLists ==
  /\ NamesBlueprints(setup)
  /\ ~broken => IsSeq(hooks)
  /\ DOMAIN deferred = Blueprints /\ \A b \in Blueprints : IsSeq(deferred[b])
  /\ ~SetUp => \A p \in Processes : req[p].at = "idle"

FiniteResponse(response) ==
  /\ IsSeq(response.current.items)
  /\ \A i \in DOMAIN response.queue : IsSeq(response.queue[i].items)

Finite(r) == IsSeq(r.todo) /\ FiniteResponse(r.response)

FiniteInv == FiniteLists /\ \A p \in Processes : Finite(req[p])

LEMMA HooksForIsSeq ==
  ASSUME IsSeq(hooks), NEW kind, NEW scope
  PROVE  IsSeq(Functions(HooksFor(kind, scope)))
<1> DEFINE I == {i \in DOMAIN hooks : hooks[i].kind = kind /\ hooks[i].scope = scope}
<1>1. HooksFor(kind, scope) = Sublist(hooks, I)
  BY DEF HooksFor
<1>2. \E pos : IsSublist(Sublist(hooks, I), hooks, pos, I)
  BY SublistIs
<1>3. IsSeq(HooksFor(kind, scope))
  BY <1>1, <1>2 DEF IsSublist
<1> QED
  BY <1>3, FunctionsIs

\* What is returned, and the apology, has finitely many items, wrapped or not.
LEMMA WrapIsSeq ==
  ASSUME NEW v, IsSeq(v.items)
  PROVE  IsSeq(Wrap(v)) /\ FiniteResponse(ResponseOf(v))
<1>1. IsSeq(<<v.items[1] \o v.items[2]>>)
  <2> DEFINE x == v.items[1] \o v.items[2]
  <2> HIDE DEF x
  <2>1. <<x>> = [i \in 1 .. 1 |-> <<x>>[i]]
    OBVIOUS
  <2>2. IsSeq(<<x>>)
    BY ONLY <2>1, 1 \in Nat, FunctionIsSeq
  <2> QED
    BY <2>2 DEF x
<1>2. IsSeq(Wrap(v))
  BY <1>1 DEF Wrap
<1>3. /\ ResponseOf(v).current.items = Wrap(v)
      /\ ResponseOf(v).queue = <<>>
  BY DEF ResponseOf
<1> QED
  BY <1>2, <1>3, EmptyIsSeq DEF FiniteResponse

LEMMA IdleIsFinite == Finite(Idle)
<1>1. Idle.todo = <<>> /\ Idle.response = ResponseOf([lazy |-> TRUE, items |-> <<>>])
  BY DEF Idle
<1>2. IsSeq([lazy |-> TRUE, items |-> <<>>].items)
  BY EmptyIsSeq
<1> QED
  BY <1>1, <1>2, EmptyIsSeq, WrapIsSeq DEF Finite

\* One step of a setup: a blueprint that is registered adds what it has recorded, in
\* full or the setup is broken.
LEMMA SettingUpIsFinite ==
  ASSUME ShapeInv, FiniteInv, SettingUp
  PROVE  FiniteInv'
<1>1. /\ Configure /\ setup' = setup /\ req' = req
      /\ next <= Len(setup) /\ ~broken
  BY DEF SettingUp, Configure, Decorate, OnError, Record, Register, StepIs
<1>2. IsSeq(setup) /\ next \in DOMAIN setup
  BY <1>1, LenIsNatural DEF ShapeInv
<1>3. IsSeq(hooks) /\ DOMAIN deferred = Blueprints /\ \A b \in Blueprints : IsSeq(deferred[b])
  BY <1>1 DEF FiniteInv, FiniteLists
<1>4. Step = setup[next] /\ (Step.op \in {"record", "register"} => Step.bp \in Blueprints)
  BY <1>2 DEF Step, FiniteInv, FiniteLists, NamesBlueprints
<1>5. /\ ~broken' => IsSeq(hooks')
      /\ DOMAIN deferred' = Blueprints /\ \A b \in Blueprints : IsSeq(deferred'[b])
  <2>1. CASE Decorate
    BY <1>3, <2>1, AppendIsSeq DEF Decorate
  <2>2. CASE OnError
    BY <1>3, <2>2 DEF OnError
  <2>3. CASE Record
    <3>1. /\ Step.bp \in Blueprints /\ hooks' = hooks
          /\ deferred' = [deferred EXCEPT ![Step.bp] = Append(deferred[Step.bp], Step)]
      BY <1>4, <2>3 DEF Record, StepIs
    <3>2. IsSeq(Append(deferred[Step.bp], Step))
      BY <1>3, <3>1, AppendIsSeq
    <3> QED
      BY ONLY <1>3, <3>1, <3>2
  <2>4. CASE Register
    <3>1. PICK called, more :
            /\ called = CalledBy(Step.bp, Step.first)
            /\ more = [i \in DOMAIN called |->
                         Hook(called[i].kind, called[i].scope, called[i].func)]
      OBVIOUS
    <3>2. deferred' = deferred /\ Step.bp \in Blueprints
      BY <1>4, <2>4 DEF Register, StepIs
    <3>3. IsSeq(called)
      <4> DEFINE old == deferred[Step.bp]
                 I == {i \in DOMAIN old : Step.first \/ ~old[i].once}
      <4>1. called = Sublist(old, I) /\ IsSeq(old)
        BY <1>3, <3>1, <3>2 DEF CalledBy
      <4>2. \E pos : IsSublist(Sublist(old, I), old, pos, I)
        BY <4>1, SublistIs
      <4> QED
        BY <4>1, <4>2 DEF IsSublist
    <3>4. IsSeq(more)
      <4>1. PICK m \in Nat : DOMAIN called = 1 .. m
        BY <3>3, LenIsNatural
      <4>2. more = [i \in 1 .. m |-> more[i]]
        BY <3>1, <4>1
      <4> QED
        BY <4>2, FunctionIsSeq
    <3>5. ASSUME ~broken' PROVE hooks' = hooks \o more
      <4> DEFINE raising == {i \in DOMAIN called : called[i].kind \notin HookKinds}
                 done == IF raising = {} THEN called
                         ELSE SubSeq(called, 1, Min(raising) - 1)
      <4>1. /\ broken' = (raising # {})
            /\ hooks' = hooks \o [i \in DOMAIN done |->
                                    Hook(done[i].kind, done[i].scope, done[i].func)]
        BY <2>4, <3>1 DEF Register
      <4>2. done = called
        BY <3>5, <4>1
      <4> HIDE DEF done
      <4> QED
        BY <3>1, <4>1, <4>2
    <3>6. IsSeq(hooks \o more)
      BY <1>3, <3>4, ConcatIs
    <3> QED
      BY ONLY <1>3, <3>2, <3>5, <3>6
  <2> QED
    BY <1>1, <2>1, <2>2, <2>3, <2>4 DEF Configure
<1>6. \A p \in Processes : req[p].at = "idle"
  <2>1. ~SetUp
    BY <1>1, <1>2, LenIsNatural DEF SetUp
  <2> QED
    BY <2>1 DEF FiniteInv, FiniteLists
<1>7. FiniteLists'
  BY <1>1, <1>5, <1>6 DEF FiniteInv, FiniteLists
<1> QED
  BY <1>1, <1>7 DEF FiniteInv, Finite, FiniteResponse

-----------------------------------------------------------------------------
(* Comparing.                                                              *)

LEMMA LowerStage ==
  ASSUME NEW a, NEW b, NEW s, NEW t, Stage(a) < Stage(b)
  PROVE  Before(Ahead(a, s), Ahead(b, t))
<1>1. Ahead(a, s)[1] = Stage(a) /\ Ahead(b, t)[1] = Stage(b)
  BY DEF Ahead
<1>2. 1 \in 1 .. 3 /\ 1 .. 1 - 1 = {}
  OBVIOUS
<1> QED
  BY <1>1, <1>2 DEF Before

LEMMA LowerListing ==
  ASSUME NEW a, NEW b, NEW s, NEW t, Stage(a) = Stage(b), Listing(a) < Listing(b)
  PROVE  Before(Ahead(a, s), Ahead(b, t))
<1>1. /\ Ahead(a, s)[1] = Stage(a) /\ Ahead(b, t)[1] = Stage(b)
      /\ Ahead(a, s)[2] = Listing(a) /\ Ahead(b, t)[2] = Listing(b)
  BY DEF Ahead
<1>2. 2 \in 1 .. 3 /\ 1 .. 2 - 1 = {1}
  OBVIOUS
<1> QED
  BY <1>1, <1>2 DEF Before

LEMMA LowerRest ==
  ASSUME NEW a, NEW b, NEW s, NEW t, Stage(a) = Stage(b), Listing(a) = Listing(b),
         Rest(a, s) < Rest(b, t)
  PROVE  Before(Ahead(a, s), Ahead(b, t))
<1>1. /\ Ahead(a, s)[1] = Stage(a) /\ Ahead(b, t)[1] = Stage(b)
      /\ Ahead(a, s)[2] = Listing(a) /\ Ahead(b, t)[2] = Listing(b)
      /\ Ahead(a, s)[3] = Rest(a, s) /\ Ahead(b, t)[3] = Rest(b, t)
  BY DEF Ahead
<1>2. 3 \in 1 .. 3 /\ 1 .. 3 - 1 = {1, 2}
  OBVIOUS
<1> QED
  BY <1>1, <1>2 DEF Before

LEMMA StageAt ==
  ASSUME NEW r
  PROVE  /\ r.at = "before" => Stage(r) = 7
         /\ r.at = "save" => Stage(r) = 6
         /\ r.at = "after" => Stage(r) = 5
         /\ r.at = "send" => Stage(r) = 3
         /\ r.at = "teardown" =>
              Stage(r) = IF Len(r.torn) = 1 THEN 4 ELSE IF Len(r.torn) = 2 THEN 2 ELSE 1
         /\ r.at = "idle" => Stage(r) = 0
BY DEF Stage

LEMMA PassOf ==
  ASSUME NEW r, WellFormed(r)
  PROVE  /\ r.at \in {"before", "save", "after"} => Len(r.torn) = 0
         /\ r.at = "send" => Len(r.torn) = 1
         /\ r.at = "teardown" => Len(r.torn) \in 1 .. 3
         /\ r.at \in Points
BY DEF WellFormed, Passes, Points

LEMMA NaturalAhead ==
  ASSUME NEW r, NEW s, WellFormed(r), Finite(r)
  PROVE  \A k \in 1 .. 3 : Ahead(r, s)[k] \in Nat
<1>1. Stage(r) \in Nat
  <2>1. r.at \in Points
    BY PassOf
  <2> QED
    BY <2>1, StageAt DEF Points
<1>2. Len(r.todo) \in Nat /\ Len(r.response.queue) \in Nat
      /\ Len(r.response.current.items) \in Nat
  BY LenIsNatural DEF WellFormed, Numbered, Finite, FiniteResponse
<1>3. Listing(r) \in Nat
  BY <1>2 DEF Listing
<1>4. Unused(r, s) \in Nat
  BY DEF Unused
<1>5. Rest(r, s) \in Nat
  BY <1>2, <1>4 DEF Rest
<1> SUFFICES ASSUME NEW k \in 1 .. 3 PROVE Ahead(r, s)[k] \in Nat
  OBVIOUS
<1>6. k = 1 \/ k = 2 \/ k = 3
  OBVIOUS
<1> QED
  BY <1>1, <1>3, <1>5, <1>6 DEF Ahead

-----------------------------------------------------------------------------
(* The steps of the requests.                                              *)

\* The request of one process moves on to r, which has less ahead of it.
Advances(p, r) ==
  /\ \A q \in Processes : req'[q] = IF q = p THEN r ELSE req[q]
  /\ Finite(r)
  /\ Before(Ahead(r, session'[p]), AheadOf(p))

\* What is known of a request that is being handled.
Handled(p) ==
  /\ DOMAIN req = Processes /\ IsSeq(hooks) /\ app.values \subseteq Values
  /\ WellFormed(req[p]) /\ Finite(req[p])

LEMMA StageAdvances ==
  ASSUME NEW p \in Processes, Handled(p), NEW r, Set(p, r), Finite(r),
         Stage(r) < Stage(req[p])
  PROVE  Advances(p, r)
<1>1. \A q \in Processes : req'[q] = IF q = p THEN r ELSE req[q]
  BY DEF Set, Handled
<1> QED
  BY <1>1, LowerStage DEF Advances, AheadOf

LEMMA ListingAdvances ==
  ASSUME NEW p \in Processes, Handled(p), NEW r, Set(p, r), Finite(r),
         Stage(r) = Stage(req[p]), Listing(r) < Listing(req[p])
  PROVE  Advances(p, r)
<1>1. \A q \in Processes : req'[q] = IF q = p THEN r ELSE req[q]
  BY DEF Set, Handled
<1> QED
  BY <1>1, LowerListing DEF Advances, AheadOf

LEMMA LeaveAdvances ==
  ASSUME NEW p \in Processes, Handled(p), NEW exc, Leave(p, exc),
         req[p].at # "idle", Len(req[p].torn) < 3
  PROVE  \E r : Advances(p, r)
<1> USE FieldsOfIdle
<1> DEFINE o == req[p]
           q == IF o.torn = <<>> THEN o
                ELSE [o EXCEPT !.response = Idle.response, !.result = Idle.result,
                               !.sent = <<>>, !.ran = <<>>]
           todo == TeardownList(Len(q.torn) + 1)
           torn == Append(q.torn, <<>>)
           cut == Append(q.cut, FALSE)
           r == [q EXCEPT !.at = "teardown", !.exc = exc, !.todo = todo,
                          !.torn = torn, !.cut = cut]
<1>1. Set(p, r)
  BY DEF Leave
<1>2. WellFormed(o) /\ Finite(o) /\ IsSeq(hooks) /\ DOMAIN o = Fields
  BY DEF Handled, WellFormed
<1>3. DOMAIN q = Fields /\ q.torn = o.torn /\ FiniteResponse(q.response)
  <2>1. FiniteResponse(o.response) /\ FiniteResponse(Idle.response)
    BY <1>2, IdleIsFinite DEF Finite
  <2>2. CASE o.torn = <<>>
    BY <1>2, <2>1, <2>2
  <2>3. CASE o.torn # <<>>
    <3> DEFINE idle == Idle.response
               none == Idle.result
               u == [o EXCEPT !.response = idle, !.result = none, !.sent = <<>>, !.ran = <<>>]
    <3>1. q = u
      BY <2>3
    <3> HIDE DEF idle, none, o, q
    <3>2. DOMAIN u = Fields /\ u.torn = o.torn /\ u.response = idle
      BY <1>2
    <3> QED
      BY <2>1, <3>1, <3>2 DEF idle
  <2> QED
    BY <2>2, <2>3
<1>4. IsSeq(todo)
  BY <1>2, ListsAreSeq
<1>5. Len(torn) = Len(o.torn) + 1
  BY <1>2, <1>3, AppendIsSeq DEF WellFormed
<1> HIDE DEF q, todo, torn, cut
<1>6. r.at = "teardown" /\ r.torn = torn /\ r.todo = todo /\ r.response = q.response
  BY <1>3
<1> HIDE DEF r
<1>7. Finite(r)
  BY <1>3, <1>4, <1>6 DEF Finite
<1>8. Stage(r) = IF Len(torn) = 1 THEN 4 ELSE IF Len(torn) = 2 THEN 2 ELSE 1
  BY <1>6, StageAt
<1>9. Stage(r) < Stage(o)
  <2>1. CASE o.at \in {"before", "save", "after"}
    <3>1. Len(o.torn) = 0 /\ Stage(o) \in 5 .. 7
      BY <1>2, <2>1, PassOf, StageAt
    <3> QED
      BY <1>5, <1>8, <3>1
  <2>2. CASE o.at = "send"
    <3>1. Len(o.torn) = 1 /\ Stage(o) = 3
      BY <1>2, <2>2, PassOf, StageAt
    <3> QED
      BY <1>5, <1>8, <3>1
  <2>3. CASE o.at = "teardown"
    <3>1. /\ Len(o.torn) \in 1 .. 2
          /\ Stage(o) = IF Len(o.torn) = 1 THEN 4 ELSE IF Len(o.torn) = 2 THEN 2 ELSE 1
      <4>1. Len(o.torn) \in 1 .. 3
        BY <1>2, <2>3, PassOf
      <4> QED
        BY <2>3, <4>1, StageAt
    <3>2. CASE Len(o.torn) = 1
      BY ONLY <1>5, <1>8, <3>1, <3>2
    <3>3. CASE Len(o.torn) = 2
      BY ONLY <1>5, <1>8, <3>1, <3>3
    <3> QED
      BY ONLY <3>1, <3>2, <3>3
  <2> QED
    BY <1>2, <2>1, <2>2, <2>3, PassOf DEF Points
<1> QED
  BY <1>1, <1>7, <1>9, StageAdvances

LEMMA AnswerAdvances ==
  ASSUME NEW p \in Processes, Handled(p), NEW v, Answer(p, v), req[p].at = "before",
         v # Nothing => IsSeq(v.items)
  PROVE  \E r : Advances(p, r)
<1> USE FieldsOfIdle
<1> DEFINE o == req[p]
           value == IF v = Nothing THEN [lazy |-> FALSE, items |-> <<>>] ELSE v
           new == ResponseOf(value)
           r == [o EXCEPT !.at = "save", !.todo = <<>>, !.response = new]
<1>1. Set(p, r)
  BY DEF Answer
<1>2. IsSeq(value.items)
  <2>1. [lazy |-> FALSE, items |-> <<>>].items = <<>>
    OBVIOUS
  <2> QED
    BY <2>1, EmptyIsSeq
<1> HIDE DEF value
<1>3. FiniteResponse(new)
  BY <1>2, WrapIsSeq
<1> HIDE DEF new
<1>4. r.at = "save" /\ r.todo = <<>> /\ r.response = new
  BY DEF Handled, WellFormed
<1> HIDE DEF r
<1>5. Finite(r) /\ Stage(r) = 6 /\ Stage(o) = 7
  BY <1>3, <1>4, EmptyIsSeq, StageAt DEF Finite
<1> QED
  BY <1>1, <1>5, StageAdvances

LEMMA HandleErrorAdvances ==
  ASSUME ValuesAreFinite, NEW p \in Processes, Handled(p), NEW error,
         HandleError(p, error), req[p].at = "before"
  PROVE  \E r : Advances(p, r)
<1>1. Leave(p, TRUE) \/ \E v \in app.values \cup {Nothing, Apology} : Answer(p, v)
  BY DEF HandleError
<1>2. CASE Leave(p, TRUE)
  <2>1. Len(req[p].torn) < 3 /\ req[p].at # "idle"
    BY PassOf DEF Handled
  <2> QED
    BY <1>2, <2>1, LeaveAdvances
<1>3. CASE \E v \in app.values \cup {Nothing, Apology} : Answer(p, v)
  <2>1. PICK v \in app.values \cup {Nothing, Apology} : Answer(p, v)
    BY <1>3
  <2>2. IsSeq(Apology.items)
    <3>1. Apology.items = << <<"apology">> >>
      BY DEF Apology
    <3>2. << <<"apology">> >> = [i \in 1 .. 1 |-> << <<"apology">> >>[i]]
      OBVIOUS
    <3> QED
      BY <3>1, <3>2, 1 \in Nat, FunctionIsSeq
  <2>3. v # Nothing => IsSeq(v.items)
    BY <2>1, <2>2 DEF ValuesAreFinite, Handled
  <2> QED
    BY <2>1, <2>3, AnswerAdvances
<1> QED
  BY <1>1, <1>2, <1>3

LEMMA BeforeHookAdvances ==
  ASSUME ValuesAreFinite, NEW p \in Processes, Handled(p), BeforeHook(p)
  PROVE  \E r : Advances(p, r)
<1>1. req[p].at = "before" /\ req[p].todo # <<>>
  BY DEF BeforeHook, At
<1>2. CASE Set(p, [req[p] EXCEPT !.todo = Tail(@)])
  <2> DEFINE o == req[p]
             todo == Tail(o.todo)
             r == [o EXCEPT !.todo = todo]
  <2>1. Set(p, r)
    BY <1>2
  <2>2. IsSeq(o.todo) /\ Len(o.todo) \in Nat
    BY LenIsNatural DEF Handled, Finite
  <2>3. IsSeq(todo) /\ Len(todo) = Len(o.todo) - 1
    BY <1>1, <2>2, TailIsSeq
  <2> HIDE DEF todo
  <2>4. r.at = o.at /\ r.todo = todo /\ r.response = o.response
    BY FieldsOfIdle DEF Handled, WellFormed
  <2> HIDE DEF r
  <2>5. Finite(r)
    BY <2>3, <2>4 DEF Handled, Finite
  <2>6. Stage(r) = Stage(o) /\ Listing(r) = Len(todo) /\ Listing(o) = Len(o.todo)
    BY <1>1, <2>4, StageAt DEF Listing
  <2> QED
    BY <2>1, <2>2, <2>3, <2>5, <2>6, ListingAdvances
<1>3. CASE \E v \in app.values : Answer(p, v)
  BY <1>1, <1>3, AnswerAdvances DEF Handled, ValuesAreFinite
<1>4. CASE HandleError(p, "Error")
  BY <1>1, <1>4, HandleErrorAdvances
<1> QED
  BY <1>2, <1>3, <1>4 DEF BeforeHook

LEMMA DispatchAdvances ==
  ASSUME ValuesAreFinite, NEW p \in Processes, Handled(p), View(p)
  PROVE  \E r : Advances(p, r)
<1>1. req[p].at = "before"
  BY DEF View, InView, At
<1>2. CASE \E error : HandleError(p, error)
  BY <1>1, <1>2, HandleErrorAdvances
<1>3. CASE \E v \in app.values \cup {Nothing} : Answer(p, v)
  BY <1>1, <1>3, AnswerAdvances DEF Handled, ValuesAreFinite
<1> QED
  BY <1>2, <1>3 DEF View

\* A mark that is not there is written, the session is made permanent, or it is
\* cleared, once.
LEMMA ViewUsesSessionAdvances ==
  ASSUME NEW p \in Processes, Handled(p), session \in [Processes -> Sessions],
         ViewUsesSession(p)
  PROVE  \E r : Advances(p, r)
<1>1. req' = req /\ req[p].at = "before"
  BY DEF ViewUsesSession, InView, At
<1> DEFINE r == req[p]
           s == session[p]
           t == session'[p]
<1>2. s \in Sessions
  OBVIOUS
<1>3. Unused(r, t) < Unused(r, s)
  <2>1. CASE r.mark \notin s.marks /\ Write(p, r.mark)
    <3> DEFINE marks == s.marks \cup {r.mark}
    <3>1. t = [s EXCEPT !.marks = marks]
      BY <2>1 DEF Write
    <3>2. t.jid = s.jid /\ t.permanent = s.permanent /\ r.mark \in t.marks
      BY <1>2, <3>1 DEF Sessions
    <3> HIDE DEF r, s, t
    <3> QED
      BY <2>1, <3>2 DEF Unused
  <2>2. CASE ~s.permanent /\ SetPermanent(p, TRUE)
    <3>1. t = [s EXCEPT !.permanent = TRUE]
      BY <2>2 DEF SetPermanent
    <3>2. t.jid = s.jid /\ t.permanent /\ t.marks = s.marks
      BY <1>2, <3>1 DEF Sessions
    <3> HIDE DEF r, s, t
    <3> QED
      BY <2>2, <3>2 DEF Unused
  <2>3. CASE s.jid # NoJid /\ Clear(p)
    <3>1. t = NoSession
      BY <2>3 DEF Clear
    <3>2. t.jid = NoJid
      BY <3>1 DEF NoSession
    <3> HIDE DEF r, s, t
    <3>3. Unused(r, t) <= 2 /\ Unused(r, s) >= 3
      BY <2>3, <3>2 DEF Unused
    <3> QED
      BY <3>3 DEF Unused
  <2> QED
    BY <2>1, <2>2, <2>3 DEF ViewUsesSession
<1>4. Rest(r, t) < Rest(r, s)
  BY <1>1, <1>3 DEF Rest
<1>5. Before(Ahead(r, t), Ahead(r, s))
  <2> HIDE DEF r, s, t
  <2> QED
    BY <1>4, LowerRest
<1> QED
  BY <1>1, <1>5 DEF Advances, AheadOf, Handled

LEMMA SaveSessionAdvances ==
  ASSUME NEW p \in Processes, Handled(p), SaveSession(p)
  PROVE  \E r : Advances(p, r)
<1>1. req[p].at = "save"
  BY DEF SaveSession, At
<1>2. CASE Set(p, [req[p] EXCEPT !.at = "after", !.todo = AfterHooks(req[p].endpoint)])
  <2> DEFINE o == req[p]
             todo == AfterHooks(o.endpoint)
             r == [o EXCEPT !.at = "after", !.todo = todo]
  <2>1. Set(p, r)
    BY <1>2
  <2>2. IsSeq(todo)
    BY ListsAreSeq DEF Handled
  <2> HIDE DEF todo
  <2>3. r.at = "after" /\ r.todo = todo /\ r.response = o.response
    BY FieldsOfIdle DEF Handled, WellFormed
  <2> HIDE DEF r
  <2>4. Finite(r) /\ Stage(r) = 5 /\ Stage(o) = 6
    BY <1>1, <2>2, <2>3, StageAt DEF Handled, Finite
  <2> QED
    BY <2>1, <2>4, StageAdvances
<1>3. CASE Leave(p, TRUE)
  <2>1. Len(req[p].torn) < 3 /\ req[p].at # "idle"
    BY <1>1, PassOf DEF Handled
  <2> QED
    BY <1>3, <2>1, LeaveAdvances
<1> QED
  BY <1>2, <1>3 DEF SaveSession

\* An after_request hook may append a response, but there is one hook less to call.
LEMMA AfterHookAdvances ==
  ASSUME ValuesAreFinite, NEW p \in Processes, Handled(p), AfterHook(p) \/ AfterHooksDone(p)
  PROVE  \E r : Advances(p, r)
<1>1. req[p].at = "after"
  BY DEF AfterHook, AfterHooksDone, At
<1>2. CASE \E exc : Leave(p, exc)
  <2>1. Len(req[p].torn) < 3 /\ req[p].at # "idle"
    BY <1>1, PassOf DEF Handled
  <2> QED
    BY <1>2, <2>1, LeaveAdvances
<1> DEFINE o == req[p]
           todo == Tail(o.todo)
           ran == Append(o.ran, Head(o.todo))
           r == [o EXCEPT !.todo = todo, !.ran = ran]
<1>3. ASSUME o.todo # <<>>, NEW s, Set(p, s), s.at = o.at, s.todo = todo,
             FiniteResponse(s.response)
      PROVE  Advances(p, s)
  <2>1. IsSeq(o.todo) /\ Len(o.todo) \in Nat
    BY LenIsNatural DEF Handled, Finite
  <2>2. IsSeq(todo) /\ Len(todo) = Len(o.todo) - 1
    BY <1>3, <2>1, TailIsSeq
  <2> HIDE DEF todo
  <2>3. Finite(s)
    BY <1>3, <2>2 DEF Finite
  <2>4. Stage(s) = Stage(o) /\ Listing(s) = Len(todo) /\ Listing(o) = Len(o.todo)
    BY <1>1, <1>3, StageAt DEF Listing
  <2> QED
    BY <1>3, <2>1, <2>2, <2>3, <2>4, ListingAdvances
<1> HIDE DEF todo, ran
<1>4. r.at = o.at /\ r.todo = todo /\ r.response = o.response /\ DOMAIN r = Fields
  BY FieldsOfIdle DEF Handled, WellFormed
<1>5. CASE o.todo # <<>> /\ Set(p, r)
  <2>1. FiniteResponse(r.response)
    BY <1>4 DEF Handled, Finite
  <2> HIDE DEF r
  <2> QED
    BY <1>3, <1>4, <1>5, <2>1
<1>6. ASSUME o.todo # <<>>, NEW v \in app.values, Set(p, [r EXCEPT !.response = Called(@, v)])
      PROVE  \E s : Advances(p, s)
  <2> HIDE DEF r
  <2> DEFINE new == Called(r.response, v)
             s == [r EXCEPT !.response = new]
  <2>1. Set(p, s)
    BY <1>6
  <2>2. FiniteResponse(new)
    <3> DEFINE queue == o.response.queue
               last == [gen |-> Len(queue) + 2, items |-> Wrap(v)]
    <3>1. Numbered(o.response) /\ FiniteResponse(o.response)
      BY DEF Handled, WellFormed, Finite
    <3>2. new.current = o.response.current /\ new.queue = Append(queue, last)
      BY <1>4, <3>1 DEF Called, Numbered
    <3>3. IsSeq(last.items)
      BY <1>6, WrapIsSeq DEF Handled, ValuesAreFinite
    <3> HIDE DEF new, last
    <3>4. IsSeq(queue)
      BY <3>1 DEF Numbered
    <3> HIDE DEF queue
    <3>5. /\ IsSeq(Append(queue, last)) /\ Len(Append(queue, last)) = Len(queue) + 1
          /\ Append(queue, last)[Len(queue) + 1] = last
          /\ \A i \in 1..Len(queue) : Append(queue, last)[i] = queue[i]
      BY <3>4, AppendIsSeq
    <3>6. /\ DOMAIN new.queue = 1 .. Len(queue) + 1 /\ DOMAIN queue = 1 .. Len(queue)
          /\ Len(queue) \in Nat
      BY <3>2, <3>4, <3>5, LenIsNatural
    <3>7. \A i \in DOMAIN new.queue : IsSeq(new.queue[i].items)
      <4> SUFFICES ASSUME NEW i \in DOMAIN new.queue PROVE IsSeq(new.queue[i].items)
        OBVIOUS
      <4>1. CASE i = Len(queue) + 1
        BY <3>2, <3>3, <3>5, <4>1
      <4>2. CASE i \in DOMAIN queue
        <5>1. new.queue[i] = queue[i]
          BY <3>2, <3>5, <3>6, <4>2
        <5> QED
          BY <3>1, <4>2, <5>1 DEF FiniteResponse, queue
      <4> QED
        BY <3>6, <4>1, <4>2
    <3> QED
      BY <3>1, <3>2, <3>7 DEF FiniteResponse
  <2> HIDE DEF new
  <2>3. s.at = r.at /\ s.todo = r.todo /\ s.response = new
    BY <1>4, FieldsOfIdle
  <2> HIDE DEF s
  <2> QED
    BY <1>3, <1>4, <1>6, <2>1, <2>2, <2>3
<1> QED
  BY <1>2, <1>5, <1>6 DEF AfterHook, AfterHooksDone, todo, ran

\* An item goes out, or the next of the appended responses is started.
LEMMA SendAdvances ==
  ASSUME NEW p \in Processes, Handled(p), SendItem(p) \/ SendNext(p) \/ ResponseSent(p)
  PROVE  \E r : Advances(p, r)
<1>1. req[p].at = "send" /\ session' = session
  BY DEF SendItem, SendNext, ResponseSent, At, redisVars
<1>2. CASE \E exc : Leave(p, exc)
  <2>1. WellFormed(req[p])
    BY DEF Handled
  <2>2. Len(req[p].torn) = 1
    BY <1>1, <2>1, PassOf
  <2>3. Len(req[p].torn) < 3 /\ req[p].at # "idle"
    BY <1>1, <2>2
  <2> QED
    BY <1>2, <2>3, LeaveAdvances
<1> DEFINE o == req[p]
           queue == o.response.queue
           items == o.response.current.items
<1>3. /\ Numbered(o.response) /\ IsSeq(o.todo) /\ IsSeq(items) /\ IsSeq(queue)
      /\ \A i \in DOMAIN queue : IsSeq(queue[i].items)
      /\ \A i \in DOMAIN queue : DOMAIN queue[i] = {"gen", "items"}
      /\ DOMAIN o = Fields
  BY DEF Handled, WellFormed, Finite, FiniteResponse, Numbered
<1>4. Len(queue) \in Nat /\ Len(items) \in Nat
  BY <1>3, LenIsNatural
<1>5. CASE HasItem(o.response) /\ \E a, b : Set(p, [o EXCEPT !.response = AfterItem(@),
                                                            !.result = a, !.sent = b])
  <2>1. PICK a, b : Set(p, [o EXCEPT !.response = AfterItem(@), !.result = a, !.sent = b])
    BY <1>5
  <2> DEFINE new == AfterItem(o.response)
             r == [o EXCEPT !.response = new, !.result = a, !.sent = b]
  <2>2. Set(p, r)
    BY <2>1
  <2>3. IsSeq(Tail(items)) /\ Len(Tail(items)) = Len(items) - 1
    BY <1>3, <1>5, TailIsSeq DEF HasItem
  <2>4. new.current.items = Tail(items) /\ new.queue = queue
    <3> DEFINE rest == Tail(items)
    <3>1. new = [o.response EXCEPT !.current.items = rest]
      BY DEF AfterItem
    <3> HIDE DEF rest
    <3>2. new.current.items = rest /\ new.queue = queue
      BY <1>3, <3>1 DEF Numbered
    <3> QED
      BY <3>2 DEF rest
  <2> HIDE DEF new
  <2>5. r.at = o.at /\ r.todo = o.todo /\ r.response = new
    BY <1>3, FieldsOfIdle
  <2> HIDE DEF r
  <2>6. Finite(r)
    BY <1>3, <2>3, <2>4, <2>5 DEF Finite, FiniteResponse
  <2>7. Stage(r) = Stage(o) /\ Listing(r) = Listing(o)
    BY <1>1, <2>4, <2>5, StageAt DEF Listing
  <2>8. Rest(r, session'[p]) = Len(Tail(items)) /\ Rest(o, session[p]) = Len(items)
    BY <1>1, <2>4, <2>5 DEF Rest
  <2>9. Before(Ahead(r, session'[p]), AheadOf(p))
    BY <1>4, <2>3, <2>7, <2>8, LowerRest DEF AheadOf
  <2>10. \A q \in Processes : req'[q] = IF q = p THEN r ELSE req[q]
    BY <2>2 DEF Set, Handled
  <2> QED
    BY <2>6, <2>9, <2>10 DEF Advances
<1>6. CASE queue # <<>> /\ Set(p, [o EXCEPT !.response = NextIterator(@), !.result = "None"])
  <2> DEFINE new == NextIterator(o.response)
             r == [o EXCEPT !.response = new, !.result = "None"]
  <2>1. Set(p, r)
    BY <1>6
  <2>2. new.current = Head(queue) /\ new.queue = Tail(queue)
    BY DEF NextIterator
  <2> HIDE DEF new
  <2> HIDE DEF queue
  <2>3. /\ IsSeq(Tail(queue)) /\ Len(Tail(queue)) = Len(queue) - 1
        /\ \A i \in 1 .. Len(queue) - 1 : Tail(queue)[i] = queue[i + 1]
        /\ Head(queue) = queue[1] /\ 1 \in DOMAIN queue
    BY <1>3, <1>6, TailIsSeq
  <2>4. FiniteResponse(new)
    <3>1. IsSeq(new.current.items)
      BY <1>3, <2>2, <2>3
    <3>2. ASSUME NEW i \in DOMAIN new.queue PROVE IsSeq(new.queue[i].items)
      <4>1. i \in 1 .. Len(queue) - 1
        BY <2>2, <2>3, LenIsNatural
      <4>2. i + 1 \in DOMAIN queue
        BY <1>3, <1>4, <4>1, LenIsNatural
      <4> QED
        BY <1>3, <2>2, <2>3, <4>1, <4>2
    <3> QED
      BY <3>1, <3>2 DEF FiniteResponse
  <2>5. r.at = o.at /\ r.todo = o.todo /\ r.response = new
    BY <1>3, FieldsOfIdle
  <2> HIDE DEF r
  <2>6. Finite(r)
    BY <1>3, <2>4, <2>5 DEF Finite
  <2>7. Stage(r) = Stage(o) /\ Listing(r) = Len(Tail(queue)) /\ Listing(o) = Len(queue)
    BY <1>1, <2>2, <2>5, StageAt DEF Listing, queue
  <2>8. Listing(r) < Listing(o)
    BY <1>4, <2>3, <2>7
  <2> QED
    BY <2>1, <2>6, <2>7, <2>8, ListingAdvances
<1> QED
  BY <1>2, <1>5, <1>6 DEF SendItem, SendNext, ResponseSent

LEMMA TeardownAdvances ==
  ASSUME NEW p \in Processes, Handled(p), Teardown(p)
  PROVE  \E r : Advances(p, r)
<1> DEFINE o == req[p]
           n == Len(o.torn)
           todo == Tail(o.todo)
<1>1. o.at = "teardown" /\ o.todo # <<>>
  BY DEF Teardown, At
<1>2. IsSeq(o.todo) /\ Len(o.todo) \in Nat \ {0} /\ IsSeq(o.torn) /\ n \in 1 .. 3
  <2>1. WellFormed(o) /\ IsSeq(o.todo)
    BY DEF Handled, Finite
  <2>2. Len(o.todo) \in Nat \ {0}
    BY <1>1, <2>1, LenIsNatural
  <2> QED
    BY <1>1, <2>1, <2>2, PassOf DEF WellFormed
<1>3. IsSeq(todo) /\ Len(todo) = Len(o.todo) - 1
  BY <1>1, <1>2, TailIsSeq
\* Whatever the function does, the list of the pass gets shorter.
<1>4. ASSUME NEW s, Set(p, s), s.at = o.at, s.response = o.response,
             Len(s.torn) = n, IsSeq(s.todo), Len(s.todo) < Len(o.todo)
      PROVE  Advances(p, s)
  <2>1. Finite(s)
    BY <1>4 DEF Handled, Finite
  <2>2. Stage(s) = Stage(o) /\ Listing(s) = Len(s.todo) /\ Listing(o) = Len(o.todo)
    BY <1>1, <1>4, StageAt DEF Listing
  <2> QED
    BY <1>4, <2>1, <2>2, ListingAdvances
<1>5. PICK torn, cut, ran, stopped, raised :
        /\ torn = [o.torn EXCEPT ![n] = Append(@, Head(o.todo))]
        /\ cut = [o.cut EXCEPT ![n] = TRUE]
        /\ ran = [o EXCEPT !.todo = todo, !.torn = torn]
        /\ stopped = [o EXCEPT !.todo = <<>>, !.torn = torn, !.cut = cut]
        /\ raised = [o EXCEPT !.todo = <<>>, !.torn = torn, !.cut = cut, !.exc = TRUE]
  OBVIOUS
<1>6. DOMAIN o = Fields
  BY DEF Handled, WellFormed
<1>7. Set(p, ran) \/ Set(p, stopped) \/ Set(p, raised)
  <2> DEFINE r0 == [o EXCEPT !.todo = Tail(@), !.torn[n] = Append(@, Head(o.todo))]
             s0 == [r0 EXCEPT !.todo = <<>>, !.cut[n] = TRUE]
             x0 == [s0 EXCEPT !.exc = TRUE]
  <2>1. Set(p, r0) \/ Set(p, s0) \/ Set(p, x0)
    BY DEF Teardown
  <2>2. r0 = ran
    BY <1>5, <1>6, FieldsOfIdle
  <2>3. s0 = stopped
    <3>1. s0 = [ran EXCEPT !.todo = <<>>, !.cut[n] = TRUE]
      BY <2>2
    <3>2. [ran EXCEPT !.todo = <<>>, !.cut[n] = TRUE] = stopped
      BY <1>5, <1>6, FieldsOfIdle
    <3> QED
      BY <3>1, <3>2
  <2>4. x0 = raised
    <3>1. x0 = [stopped EXCEPT !.exc = TRUE]
      BY <2>3
    <3>2. [stopped EXCEPT !.exc = TRUE] = raised
      BY <1>5, <1>6, FieldsOfIdle
    <3> QED
      BY <3>1, <3>2
  <2> QED
    BY <2>1, <2>2, <2>3, <2>4
<1>8. Len(torn) = n
  BY <1>2, <1>5, ExceptIsSeq
<1>9. /\ ran.at = o.at /\ ran.response = o.response /\ ran.torn = torn /\ ran.todo = todo
      /\ stopped.at = o.at /\ stopped.response = o.response /\ stopped.torn = torn
      /\ stopped.todo = <<>>
      /\ raised.at = o.at /\ raised.response = o.response /\ raised.torn = torn
      /\ raised.todo = <<>>
  BY <1>5, <1>6, FieldsOfIdle
<1> HIDE DEF todo, o
<1>10. IsSeq(<<>>) /\ Len(<<>>) < Len(o.todo) /\ Len(todo) < Len(o.todo)
  BY <1>2, <1>3, EmptyIsSeq
<1>11. CASE Set(p, ran)
  BY <1>3, <1>4, <1>8, <1>9, <1>10, <1>11
<1>12. CASE Set(p, stopped)
  BY <1>4, <1>8, <1>9, <1>10, <1>12
<1>13. CASE Set(p, raised)
  BY <1>4, <1>8, <1>9, <1>10, <1>13
<1> QED
  BY <1>7, <1>11, <1>12, <1>13

LEMMA TeardownDoneAdvances ==
  ASSUME NEW p \in Processes, Handled(p), TeardownDone(p)
  PROVE  \E r : Advances(p, r)
<1> DEFINE o == req[p]
<1>1. o.at = "teardown" /\ WellFormed(o) /\ Finite(o) /\ DOMAIN o = Fields
  BY DEF TeardownDone, At, Handled, WellFormed
<1>2. CASE Len(o.torn) < 3 /\ \E exc : Leave(p, exc)
  <2>1. o.at # "idle"
    BY <1>1
  <2> QED
    BY <1>2, <2>1, LeaveAdvances
<1>3. CASE Len(o.torn) = 1 /\ Set(p, [o EXCEPT !.at = "send"])
  <2> DEFINE r == [o EXCEPT !.at = "send"]
  <2>1. r.at = "send" /\ r.todo = o.todo /\ r.response = o.response
    BY <1>1, FieldsOfIdle
  <2>2. Set(p, r)
    BY <1>3
  <2> HIDE DEF r
  <2>3. Finite(r) /\ Stage(r) = 3 /\ Stage(o) = 4
    BY <1>1, <1>3, <2>1, StageAt DEF Finite
  <2> QED
    BY <2>2, <2>3, StageAdvances
<1>4. CASE Len(o.torn) = 3 /\ Set(p, [Idle EXCEPT !.torn = o.torn, !.cut = o.cut])
  <2> DEFINE torn == o.torn
             cut == o.cut
             r == [Idle EXCEPT !.torn = torn, !.cut = cut]
  <2>1. Set(p, r)
    BY <1>4
  <2> HIDE DEF torn, cut
  <2>2. r.at = "idle" /\ r.todo = Idle.todo /\ r.response = Idle.response
    BY DEF Idle
  <2> HIDE DEF r
  <2>3. Finite(r) /\ Stage(r) = 0 /\ Stage(o) = 1
    BY <1>1, <1>4, <2>2, StageAt, IdleIsFinite DEF Finite
  <2> QED
    BY <2>1, <2>3, StageAdvances
<1>5. \/ Len(o.torn) = 1 /\ Set(p, [o EXCEPT !.at = "send"])
      \/ Len(o.torn) = 1 /\ Leave(p, TRUE)
      \/ Len(o.torn) = 2 /\ Leave(p, o.exc)
      \/ Len(o.torn) = 3 /\ Set(p, [Idle EXCEPT !.torn = o.torn, !.cut = o.cut])
  BY DEF TeardownDone
<1> HIDE DEF o
<1>6. CASE Len(o.torn) = 1 /\ Leave(p, TRUE)
  <2>1. Len(o.torn) < 3
    BY <1>6
  <2>2. \E exc : Leave(p, exc)
    BY <1>6, Zenon
  <2> QED
    BY <1>2, <2>1, <2>2, Zenon
<1>7. CASE Len(o.torn) = 2 /\ Leave(p, o.exc)
  <2>1. Len(o.torn) < 3
    BY <1>7
  <2>2. \E exc : Leave(p, exc)
    BY <1>7, Zenon
  <2> QED
    BY <1>2, <2>1, <2>2, Zenon
<1> QED
  BY <1>3, <1>4, <1>5, <1>6, <1>7

\* Every step on a stanza.
LEMMA HandleAdvances ==
  ASSUME ValuesAreFinite, Inv, ShapeInv, FiniteInv, NEW p \in Processes, Handle(p)
  PROVE  /\ \E r : Advances(p, r)
         /\ UNCHANGED env /\ req[p].at # "idle"
         /\ \A q \in Processes \ {p} : session'[q] = session[q]
<1>1. UNCHANGED env /\ req[p].at # "idle"
  BY DEF Handle, BeforeHook, ViewUsesSession, View, InView, SaveSession, AfterHook,
     AfterHooksDone, SendItem, SendNext, ResponseSent, Teardown, TeardownDone, At
<1>2. session \in [Processes -> Sessions]
  BY DEF Inv, RedisInv, RedisTypeOK
<1>3. Handled(p)
  <2>1. SetUp /\ ~broken
    BY <1>1 DEF FiniteInv, FiniteLists, SetUp
  <2>2. app.values \subseteq Values
    BY Deployed DEF ShapeInv
  <2> QED
    BY <2>1, <2>2 DEF Handled, FiniteInv, FiniteLists, ShapeInv, Inv, RequestInv
<1>4. \E r : Advances(p, r)
  BY <1>2, <1>3, BeforeHookAdvances, ViewUsesSessionAdvances, DispatchAdvances,
     SaveSessionAdvances, AfterHookAdvances, SendAdvances, TeardownAdvances,
     TeardownDoneAdvances DEF Handle
<1>5. \A q \in Processes \ {p} : session'[q] = session[q]
  <2>1. CASE ViewUsesSession(p)
    BY <1>2, <2>1 DEF ViewUsesSession, Write, SetPermanent, Clear
  <2>2. CASE ~ViewUsesSession(p)
    <3>1. session' = session
      BY <2>2 DEF Handle, BeforeHook, View, SaveSession, Save, AfterHook, AfterHooksDone,
         SendItem, SendNext, ResponseSent, Teardown, TeardownDone, redisVars
    <3> QED
      BY <3>1
  <2> QED
    BY <2>1, <2>2
<1> QED
  BY <1>1, <1>4, <1>5

LEMMA BeginIsFinite ==
  ASSUME Inv, FiniteInv, NEW p \in Processes, Begin(p)
  PROVE  /\ \E r : Finite(r) /\ req' = [req EXCEPT ![p] = r]
         /\ UNCHANGED env /\ SetUp /\ req[p].at = "idle"
         /\ \A q \in Processes \ {p} : session'[q] = session[q]
<1>1. UNCHANGED env /\ SetUp /\ req[p].at = "idle"
  BY DEF Begin, At
<1>2. PICK j \in Jids, e \in app.endpoints \cup {NoRule} :
        /\ Open(p, j)
        /\ Set(p, [Idle EXCEPT !.at = "before", !.jid = j, !.endpoint = e,
                               !.mark = requests', !.todo = Functions(HooksFor("before", AppWide))])
  BY DEF Begin
<1> DEFINE todo == Functions(HooksFor("before", AppWide))
           r == [Idle EXCEPT !.at = "before", !.jid = j, !.endpoint = e,
                             !.mark = requests', !.todo = todo]
<1>3. req' = [req EXCEPT ![p] = r]
  BY <1>2 DEF Set
<1>4. IsSeq(todo)
  <2>1. IsSeq(hooks)
    BY <1>1 DEF FiniteInv, FiniteLists, SetUp
  <2> QED
    BY <2>1, HooksForIsSeq
<1> HIDE DEF todo
<1>5. r.todo = todo /\ r.response = Idle.response
  BY DEF Idle
<1> HIDE DEF r
<1>6. Finite(r)
  BY <1>4, <1>5, IdleIsFinite DEF Finite
<1>7. \A q \in Processes \ {p} : session'[q] = session[q]
  BY <1>2 DEF Open, Inv, RedisInv, RedisTypeOK
<1> QED
  BY <1>1, <1>3, <1>6, <1>7

LEMMA BeginFailsIsFinite ==
  ASSUME Inv, FiniteInv, NEW p \in Processes, BeginFails(p)
  PROVE  /\ \E r : Finite(r) /\ req' = [req EXCEPT ![p] = r]
         /\ UNCHANGED env /\ SetUp /\ req[p].at = "idle"
         /\ \A q \in Processes \ {p} : session'[q] = session[q]
<1>1. UNCHANGED env /\ SetUp /\ req[p].at = "idle"
  BY DEF BeginFails, At
<1>2. PICK j \in Jids, pass \in {2, 3} :
        /\ OpenFails(p, j)
        /\ Set(p, [Idle EXCEPT !.at = "teardown", !.jid = j, !.mark = requests', !.exc = TRUE,
                               !.todo = TeardownList(pass),
                               !.torn = [n \in 1..pass |-> <<>>],
                               !.cut = [n \in 1..pass |-> n < pass]])
  BY DEF BeginFails
<1> DEFINE todo == TeardownList(pass)
           torn == [n \in 1..pass |-> <<>>]
           cut == [n \in 1..pass |-> n < pass]
           r == [Idle EXCEPT !.at = "teardown", !.jid = j, !.mark = requests', !.exc = TRUE,
                             !.todo = todo, !.torn = torn, !.cut = cut]
<1>3. req' = [req EXCEPT ![p] = r]
  BY <1>2 DEF Set
<1>4. IsSeq(todo)
  <2>1. IsSeq(hooks)
    BY <1>1 DEF FiniteInv, FiniteLists, SetUp
  <2> QED
    BY <2>1, ListsAreSeq
<1> HIDE DEF todo, torn, cut
<1>5. r.todo = todo /\ r.response = Idle.response
  BY DEF Idle
<1> HIDE DEF r
<1>6. Finite(r)
  BY <1>4, <1>5, IdleIsFinite DEF Finite
<1>7. \A q \in Processes \ {p} : session'[q] = session[q]
  BY <1>2 DEF OpenFails, Inv, RedisInv, RedisTypeOK
<1> QED
  BY <1>1, <1>3, <1>6, <1>7

\* Time, and the other programs that use the store.
LEMMA OutsideIsElsewhere ==
  ASSUME Outside PROVE UNCHANGED <<env, req, session>>
BY DEF Outside, Tick, Collide

LEMMA InitIsFinite ==
  ASSUME Init, \A s \in Setups : NamesBlueprints(s)
  PROVE  FiniteInv
<1>1. /\ setup \in Setups /\ hooks = <<>> /\ deferred = [b \in Blueprints |-> <<>>]
      /\ \A p \in Processes : req[p] = Idle
  BY DEF Init, SetupInit
<1>2. Idle.at = "idle"
  BY IdleWellFormed
<1> QED
  BY <1>1, <1>2, EmptyIsSeq, IdleIsFinite DEF FiniteInv, FiniteLists

LEMMA NextIsFinite ==
  ASSUME ValuesAreFinite, Inv, ShapeInv, FiniteInv, [Next]_vars
  PROVE  FiniteInv'
<1>1. DOMAIN req = Processes
  BY DEF Inv, RequestInv
<1>2. CASE SettingUp
  BY <1>2, SettingUpIsFinite
<1>3. CASE UNCHANGED <<env, req>>
  BY <1>3 DEF env, setupVars, FiniteInv, FiniteLists, Finite, FiniteResponse, SetUp
<1>4. ASSUME NEW p \in Processes, Begin(p) \/ BeginFails(p) \/ Handle(p) PROVE FiniteInv'
  <2>1. PICK r : Finite(r) /\ \A q \in Processes : req'[q] = IF q = p THEN r ELSE req[q]
    BY <1>1, <1>4, BeginIsFinite, BeginFailsIsFinite, HandleAdvances DEF Advances
  <2>2. UNCHANGED env /\ SetUp
    BY <1>4, BeginIsFinite, BeginFailsIsFinite, HandleAdvances DEF FiniteInv, FiniteLists
  <2>3. UNCHANGED <<setup, next, deferred, hooks, broken>>
    BY <2>2 DEF env, setupVars
  <2>4. FiniteLists'
    BY <2>2, <2>3 DEF FiniteInv, FiniteLists, SetUp
  <2>5. \A q \in Processes : Finite(req'[q])
    BY <2>1 DEF FiniteInv
  <2> QED
    BY <2>4, <2>5 DEF FiniteInv, Finite, FiniteResponse
<1>5. CASE UNCHANGED vars
  <2>1. UNCHANGED <<env, req>>
    BY <1>5 DEF vars, env
  <2> QED
    BY <1>3, <2>1
<1>6. CASE Outside
  BY <1>3, <1>6, OutsideIsElsewhere
<1> QED
  BY <1>2, <1>4, <1>5, <1>6 DEF Next

\* For setups that record and register blueprints only and values of finitely many
\* items: each step on a stanza, whatever hooks, views, generators and teardown functions
\* do and wherever they raise, lowers a measure of three natural numbers, and what other
\* processes, time and other programs do in between does not touch it.
THEOREM RequestsCannotGoOn ==
  ASSUME ValuesAreFinite, \A s \in Setups : NamesBlueprints(s)
  PROVE  Spec => []AheadIsNatural /\ EveryStepCounts
<1>1. Init => FiniteInv
  BY InitIsFinite
<1>2. Inv /\ ShapeInv /\ FiniteInv /\ [Next]_vars => FiniteInv'
  BY NextIsFinite
<1>3. ShapeInv /\ FiniteInv => AheadIsNatural
  BY NaturalAhead DEF ShapeInv, FiniteInv, AheadIsNatural, AheadOf
<1>4. Inv /\ ShapeInv /\ FiniteInv /\ [Next]_vars
        => [\A p \in Processes :
              IF Handle(p) THEN Before(AheadOf(p)', AheadOf(p))
              ELSE ~At(p, "idle") => AheadOf(p)' = AheadOf(p)]_vars
  <2> SUFFICES ASSUME Inv, ShapeInv, FiniteInv, Next, NEW p \in Processes
               PROVE  IF Handle(p) THEN Before(AheadOf(p)', AheadOf(p))
                      ELSE ~At(p, "idle") => AheadOf(p)' = AheadOf(p)
    OBVIOUS
  <2>1. CASE Handle(p)
    <3>1. PICK r : Advances(p, r)
      BY <2>1, HandleAdvances
    <3>2. AheadOf(p)' = Ahead(req'[p], session'[p])
      BY DEF AheadOf, Ahead, Stage, Listing, Rest, Unused
    <3> QED
      BY <2>1, <3>1, <3>2 DEF Advances
  <2>2. CASE ~Handle(p) /\ ~At(p, "idle")
    <3>1. req'[p] = req[p] /\ session'[p] = session[p]
      <4>1. DOMAIN req = Processes
        BY DEF Inv, RequestInv
      <4>2. CASE SettingUp \/ Outside
        BY <4>2, OutsideIsElsewhere DEF SettingUp, redisVars
      <4>3. ASSUME NEW q \in Processes, Begin(q) \/ BeginFails(q)
            PROVE  req'[p] = req[p] /\ session'[p] = session[p]
        BY <2>2, <4>1, <4>3, BeginIsFinite, BeginFailsIsFinite DEF At
      <4>4. ASSUME NEW q \in Processes, Handle(q) PROVE req'[p] = req[p] /\ session'[p] = session[p]
        <5>1. p # q
          BY <2>2, <4>4
        <5>2. PICK r : Advances(q, r)
          BY <4>4, HandleAdvances
        <5> QED
          BY <4>4, <5>1, <5>2, HandleAdvances DEF Advances
      <4> QED
        BY <4>2, <4>3, <4>4 DEF Next
    <3>2. AheadOf(p)' = Ahead(req'[p], session'[p])
      BY DEF AheadOf, Ahead, Stage, Listing, Rest, Unused
    <3> QED
      BY <2>2, <3>1, <3>2 DEF AheadOf
  <2> QED
    BY <2>1, <2>2
<1> QED
  BY <1>1, <1>2, <1>3, <1>4, ShapeAlways, PTL DEF Spec, EveryStepCounts
=============================================================================
