--------------------------- MODULE ContextsProofs ---------------------------
(***************************************************************************)
(* Proofs about Contexts, for any number of applications, contexts and     *)
(* nested blocks, and whichever of the failures an instance admits.        *)
(*                                                                         *)
(* NoEarlyTeardown is not inductive.  It holds because a context has at    *)
(* least as many levels (entries of _implicit_app_ctx_stack, references)   *)
(* as open blocks, so the level that tears it down is its last block.  A   *)
(* failed push or teardown leaves levels too many behind, never too few.   *)
(***************************************************************************)
EXTENDS Contexts, TLAPS, FiniteSetTheorems, SequenceTheorems

-----------------------------------------------------------------------------
(* Sequences and occurrences.                                              *)

\* The sequence without its last element, and that element.
LEMMA FrontProperties ==
  ASSUME NEW S, NEW seq \in Seq(S), seq # <<>>
  PROVE  /\ Front(seq) \in Seq(S)
         /\ Last(seq) \in S
         /\ Len(seq) \in Nat \ {0}
         /\ Len(Front(seq)) = Len(seq) - 1
         /\ DOMAIN Front(seq) = 1 .. (Len(seq) - 1)
         /\ DOMAIN seq = 1 .. Len(seq)
         /\ \A i \in 1 .. (Len(seq) - 1) : Front(seq)[i] = seq[i]
BY SubSeqProperties DEF Front, Last

\* The sequence with one element more.
LEMMA AppendOne ==
  ASSUME NEW S, NEW seq \in Seq(S), NEW x \in S
  PROVE  /\ Append(seq, x) \in Seq(S)
         /\ Append(seq, x) # <<>>
         /\ Len(Append(seq, x)) = Len(seq) + 1
         /\ Last(Append(seq, x)) = x
         /\ DOMAIN seq = 1 .. Len(seq)
         /\ DOMAIN Append(seq, x) = 1 .. (Len(seq) + 1)
         /\ Len(seq) \in Nat
         /\ \A i \in 1 .. Len(seq) : Append(seq, x)[i] = seq[i]
BY AppendProperties DEF Last

\* The places of c in a sequence are finite, and there are none exactly when
\* c is not in it.
LEMMA OccurrencesNat ==
  ASSUME NEW S, NEW seq \in Seq(S), NEW c
  PROVE  /\ IsFiniteSet({i \in DOMAIN seq : seq[i] = c})
         /\ Occurrences(c, seq) \in Nat
         /\ Occurrences(c, seq) = 0 <=> \A i \in DOMAIN seq : seq[i] # c
<1> DEFINE Places == {i \in DOMAIN seq : seq[i] = c}
<1>1. DOMAIN seq = 1 .. Len(seq) /\ Len(seq) \in Nat
  OBVIOUS
<1>2. IsFiniteSet(DOMAIN seq)
  BY <1>1, FS_Interval
<1>3. IsFiniteSet(Places)
  BY <1>2, FS_Subset
<1>4. Cardinality(Places) \in Nat
  BY <1>3, FS_CardinalityType
<1>5. Cardinality(Places) = 0 <=> Places = {}
  BY <1>3, FS_EmptySet
<1> QED
  BY <1>3, <1>4, <1>5 DEF Occurrences

\* Appending an element adds a place of it and of nothing else.
LEMMA OccurrencesAppend ==
  ASSUME NEW S, NEW seq \in Seq(S), NEW x \in S, NEW c
  PROVE  Occurrences(c, Append(seq, x)) =
           IF c = x THEN Occurrences(c, seq) + 1 ELSE Occurrences(c, seq)
<1> DEFINE P == {i \in DOMAIN seq : seq[i] = c}
<1> DEFINE Q == {i \in DOMAIN Append(seq, x) : Append(seq, x)[i] = c}
<1>1. IsFiniteSet(P)
  BY OccurrencesNat
<1>2. CASE c = x
  <2>1. Q = P \cup {Len(seq) + 1} /\ Len(seq) + 1 \notin P
    BY <1>2, AppendOne, AppendProperties
  <2>2. Cardinality(Q) = Cardinality(P) + 1
    BY <1>1, <2>1, FS_AddElement
  <2> QED
    BY <1>2, <2>2 DEF Occurrences
<1>3. CASE c # x
  <2>1. Q = P
    BY <1>3, AppendOne, AppendProperties
  <2> QED
    BY <1>3, <2>1 DEF Occurrences
<1> QED
  BY <1>2, <1>3

\* Front takes away a place of the last element and of nothing else.
LEMMA OccurrencesFront ==
  ASSUME NEW S, NEW seq \in Seq(S), seq # <<>>, NEW c
  PROVE  Occurrences(c, Front(seq)) =
           IF c = Last(seq) THEN Occurrences(c, seq) - 1 ELSE Occurrences(c, seq)
<1>1. Front(seq) \in Seq(S) /\ Last(seq) \in S
  BY FrontProperties
<1>2. seq = Append(Front(seq), Last(seq))
  <2> DEFINE again == Append(Front(seq), Last(seq))
  <2>1. again \in Seq(S)
    BY <1>1, AppendOne
  <2>2. Len(again) = Len(seq)
    BY <1>1, AppendOne, FrontProperties
  <2>3. \A i \in 1 .. Len(seq) : again[i] = seq[i]
    BY <1>1, AppendOne, FrontProperties, AppendProperties DEF Last
  <2> HIDE DEF again
  <2>4. again = seq
    BY <2>1, <2>2, <2>3, SeqEqual
  <2> QED
    BY <2>4 DEF again
<1>3. Occurrences(c, seq) = IF c = Last(seq) THEN Occurrences(c, Front(seq)) + 1
                                             ELSE Occurrences(c, Front(seq))
  <2> DEFINE front == Front(seq)
             last == Last(seq)
  <2> HIDE DEF front, last
  <2>1. Occurrences(c, Append(front, last)) = IF c = last THEN Occurrences(c, front) + 1
                                                          ELSE Occurrences(c, front)
    BY <1>1, OccurrencesAppend DEF front, last
  <2>2. seq = Append(front, last)
    BY <1>2 DEF front, last
  <2> QED
    BY <2>1, <2>2, Zenon DEF front, last
<1>4. Occurrences(c, Front(seq)) \in Nat
  BY <1>1, OccurrencesNat
<1> QED
  BY <1>3, <1>4

-----------------------------------------------------------------------------
(* The inductive invariant.                                                *)

\* A request has been pushed at least once for each of its open blocks.
RequestLevels ==
  \A r \in RequestContexts : Len(implicit[r]) >= Occurrences(r, blocks)

Referenced(a) ==
  \E r \in RequestContexts : \E i \in DOMAIN implicit[r] : implicit[r][i] = a

\* An implicit context is counted for each of its open blocks, and once more
\* while a request's level refers to it.
ImplicitCounted ==
  \A a \in ImplicitContexts :
    /\ refcnt[a] >= Occurrences(a, blocks)
    /\ Referenced(a) => refcnt[a] >= Occurrences(a, blocks) + 1

\* Two levels never refer to the same implicit context.
ReferencedOnce ==
  \A q, r \in RequestContexts :
    \A i \in DOMAIN implicit[q], k \in DOMAIN implicit[r] :
      implicit[q][i] = implicit[r][k] /\ implicit[q][i] # NoContext => q = r /\ i = k

ContextsInv ==
  /\ TypeOK
  /\ RefcntCountsBlocks
  /\ RequestLevels
  /\ ImplicitCounted
  /\ ReferencedOnce
  /\ NoEarlyTeardown

\* Initially nothing is stacked, counted or open.
LEMMA InitContextsInv == Init => ContextsInv
<1> SUFFICES ASSUME Init PROVE ContextsInv
  OBVIOUS
<1>1. \A c : Occurrences(c, <<>>) = 0
  <2> TAKE c
  <2>1. <<>> \in Seq(Contexts) /\ DOMAIN <<>> = {}
    OBVIOUS
  <2> QED
    BY <2>1, OccurrencesNat
<1>2. TypeOK
  <2>1. <<>> \in Seq(AllAppContexts) /\ <<>> \in Seq(RequestContexts)
        /\ <<>> \in Seq(ImplicitContexts \cup {NoContext}) /\ <<>> \in Seq(Contexts)
    OBVIOUS
  <2>2. /\ refcnt \in [AllAppContexts -> Int]
        /\ life \in [Contexts -> {"new", "live", "torn"}]
    BY DEF Init
  <2>3. notes \in [AllAppContexts -> Seq(Notes) \cup {Unset}]
    BY DEF Init
  <2>4. implicit \in [RequestContexts -> Seq(ImplicitContexts \cup {NoContext})]
    BY <2>1, Zenon DEF Init
  <2> QED
    BY <2>1, <2>2, <2>3, <2>4 DEF Init, TypeOK
<1>3. RefcntCountsBlocks /\ RequestLevels
  BY <1>1 DEF Init, RefcntCountsBlocks, RequestLevels, AllAppContexts
<1>4. ImplicitCounted /\ ReferencedOnce /\ NoEarlyTeardown
  BY <1>1 DEF Init, ImplicitCounted, Referenced, ReferencedOnce, NoEarlyTeardown, InBlock,
              AllAppContexts
<1> QED
  BY <1>2, <1>3, <1>4 DEF ContextsInv

\* What entering a block changes.
LEMMA BlockOpened ==
  ASSUME blocks \in Seq(Contexts), NEW c \in Contexts, blocks' = Append(blocks, c)
  PROVE  /\ blocks' \in Seq(Contexts)
         /\ \A d :
              /\ Occurrences(d, blocks) \in Nat
              /\ Occurrences(d, blocks') =
                   IF d = c THEN Occurrences(d, blocks) + 1 ELSE Occurrences(d, blocks)
              /\ InBlock(d) <=> Occurrences(d, blocks) # 0
              /\ InBlock(d)' <=> Occurrences(d, blocks') # 0
<1>1. blocks' \in Seq(Contexts)
  BY AppendOne
<1>2. ASSUME NEW d
      PROVE  /\ Occurrences(d, blocks) \in Nat
             /\ Occurrences(d, blocks') =
                  IF d = c THEN Occurrences(d, blocks) + 1 ELSE Occurrences(d, blocks)
  <2>1. Occurrences(d, Append(blocks, c)) =
          IF d = c THEN Occurrences(d, blocks) + 1 ELSE Occurrences(d, blocks)
    BY OccurrencesAppend
  <2> QED
    BY <2>1, OccurrencesNat
<1>3. ASSUME NEW d
      PROVE  /\ InBlock(d) <=> Occurrences(d, blocks) # 0
             /\ InBlock(d)' <=> Occurrences(d, blocks') # 0
  BY <1>1, OccurrencesNat, Zenon DEF InBlock
<1> QED
  BY <1>1, <1>2, <1>3

\* What leaving the innermost block changes.
LEMMA BlockClosed ==
  ASSUME blocks \in Seq(Contexts), NEW c, Innermost(c), blocks' = Front(blocks)
  PROVE  /\ blocks' \in Seq(Contexts)
         /\ c \in Contexts /\ InBlock(c)
         /\ \A d :
              /\ Occurrences(d, blocks) \in Nat
              /\ Occurrences(d, blocks') \in Nat
              /\ Occurrences(d, blocks') =
                   IF d = c THEN Occurrences(d, blocks) - 1 ELSE Occurrences(d, blocks)
              /\ InBlock(d) <=> Occurrences(d, blocks) # 0
              /\ InBlock(d)' <=> Occurrences(d, blocks') # 0
<1>1. blocks # <<>> /\ Last(blocks) = c
  BY DEF Innermost
<1>2. blocks' \in Seq(Contexts) /\ c \in Contexts
  BY <1>1, FrontProperties
<1>3. InBlock(c)
  BY <1>1, FrontProperties DEF InBlock, Last
<1>4. ASSUME NEW d
      PROVE  /\ Occurrences(d, blocks) \in Nat
             /\ Occurrences(d, blocks') \in Nat
             /\ Occurrences(d, blocks') =
                  IF d = c THEN Occurrences(d, blocks) - 1 ELSE Occurrences(d, blocks)
  BY <1>1, <1>2, OccurrencesNat, OccurrencesFront
<1>5. ASSUME NEW d
      PROVE  /\ InBlock(d) <=> Occurrences(d, blocks) # 0
             /\ InBlock(d)' <=> Occurrences(d, blocks') # 0
  BY <1>2, OccurrencesNat, Zenon DEF InBlock
<1> QED
  BY <1>2, <1>3, <1>4, <1>5

\* Popping a stack of contexts leaves a stack of contexts.
LEMMA PopTopType ==
  ASSUME NEW S, NEW stack \in Seq(S)
  PROVE  PopTop(stack) \in Seq(S)
BY FrontProperties DEF PopTop

-----------------------------------------------------------------------------
(* Every action keeps the invariant.                                       *)

USE DisjointContexts DEF AllAppContexts, Contexts

\* Entering an application context counts its new block.
LEMMA EnterAppInv ==
  ASSUME ContextsInv, NEW a \in AllAppContexts, EnterApp(a)
  PROVE  ContextsInv'
<1> USE DEF ContextsInv, TypeOK
<1>1. /\ blocks' = Append(blocks, a)
      /\ refcnt' = [refcnt EXCEPT ![a] = @ + 1]
      /\ life' = SetLife({a}, "live")
      /\ UNCHANGED <<reqStack, implicit, notes, wrongPop>>
  BY DEF EnterApp
<1>2. TypeOK'
  <2>1. appStack' \in Seq(AllAppContexts)
    BY AppendOne DEF EnterApp
  <2>2. blocks' \in Seq(Contexts)
    BY <1>1, BlockOpened
  <2>3. life' \in [Contexts -> {"new", "live", "torn"}]
    BY <1>1 DEF SetLife
  <2>4. refcnt' \in [AllAppContexts -> Int]
    BY <1>1
  <2> QED
    BY <1>1, <2>1, <2>2, <2>3, <2>4
<1>3. RefcntCountsBlocks'
  BY <1>1, BlockOpened DEF RefcntCountsBlocks
<1>4. RequestLevels' /\ ReferencedOnce'
  <2>1. RequestLevels'
    BY <1>1, BlockOpened DEF RequestLevels
  <2>2. ReferencedOnce'
    BY <1>1 DEF ReferencedOnce
  <2> QED
    BY <2>1, <2>2
<1>5. ImplicitCounted'
  <2>1. \A b : Referenced(b)' <=> Referenced(b)
    BY <1>1 DEF Referenced
  <2> QED
    BY <1>1, <2>1, BlockOpened DEF ImplicitCounted
<1>6. NoEarlyTeardown'
  BY <1>1, BlockOpened DEF NoEarlyTeardown, SetLife
<1> QED
  BY <1>2, <1>3, <1>4, <1>5, <1>6

\* Leaving an application context: the last reference is the last block.
LEMMA ExitAppInv ==
  ASSUME ContextsInv, NEW a \in AllAppContexts, NEW raises \in BOOLEAN,
         ExitApp(a, raises)
  PROVE  ContextsInv'
<1> USE DEF ContextsInv, TypeOK
<1>1. /\ Innermost(a)
      /\ blocks' = Front(blocks)
      /\ refcnt' = [refcnt EXCEPT ![a] = @ - 1]
      /\ life' = SetLife(TornWithApp(a), "torn")
      /\ UNCHANGED <<reqStack, implicit, notes>>
  BY DEF ExitApp, PopApp
<1>2. TypeOK'
  <2>1. appStack' \in Seq(AllAppContexts) /\ wrongPop' \in BOOLEAN
    BY PopTopType DEF ExitApp, PopApp
  <2>2. blocks' \in Seq(Contexts)
    BY <1>1, BlockClosed
  <2>3. life' \in [Contexts -> {"new", "live", "torn"}]
    BY <1>1 DEF SetLife
  <2>4. refcnt' \in [AllAppContexts -> Int]
    BY <1>1
  <2> QED
    BY <1>1, <2>1, <2>2, <2>3, <2>4
<1>3. RefcntCountsBlocks'
  BY <1>1, BlockClosed DEF RefcntCountsBlocks
<1>4. RequestLevels' /\ ReferencedOnce'
  <2>1. RequestLevels'
    BY <1>1, BlockClosed DEF RequestLevels
  <2>2. ReferencedOnce'
    BY <1>1 DEF ReferencedOnce
  <2> QED
    BY <2>1, <2>2
<1>5. ImplicitCounted'
  <2>1. \A b : Referenced(b)' <=> Referenced(b)
    BY <1>1 DEF Referenced
  <2> QED
    BY <1>1, <2>1, BlockClosed DEF ImplicitCounted
<1>6. NoEarlyTeardown'
  <2>1. refcnt[a] >= Occurrences(a, blocks)
    BY BlockClosed, <1>1 DEF RefcntCountsBlocks, ImplicitCounted
  <2>2. a \in TornWithApp(a) => ~InBlock(a)'
    BY <1>1, <2>1, BlockClosed DEF TornWithApp
  <2> QED
    BY <1>1, <2>2, BlockClosed DEF NoEarlyTeardown, SetLife, TornWithApp
<1> QED
  BY <1>2, <1>3, <1>4, <1>5, <1>6

\* What RequestContext.push changes: one level more for the request, which
\* refers to no context or to a new one that nothing referred to.
LevelAdded(r, a) ==
  /\ a \in ImplicitContexts \cup {NoContext}
  /\ a # NoContext => a \in ImplicitContexts /\ ~InBlock(a)
  /\ appStack' \in Seq(AllAppContexts) /\ reqStack' \in Seq(RequestContexts)
  /\ implicit' \in [RequestContexts -> Seq(ImplicitContexts \cup {NoContext})]
  /\ life' = SetLife({r, a}, "live")
  /\ refcnt' = IF a = NoContext THEN refcnt ELSE [refcnt EXCEPT ![a] = 1]
  /\ \A q \in RequestContexts :
       Len(implicit'[q]) = IF q = r THEN Len(implicit[q]) + 1 ELSE Len(implicit[q])
  /\ \A b \in ImplicitContexts : Referenced(b)' => Referenced(b) \/ b = a
  /\ ReferencedOnce'

\* The places of a sequence that has grown by one.
LEMMA LastOrBefore ==
  ASSUME NEW n \in Nat, NEW i \in 1 .. (n + 1)
  PROVE  i \in 1 .. n \/ i = n + 1
OBVIOUS

\* RequestContext.push adds such a level.
LEMMA LevelPushed ==
  ASSUME ContextsInv, NEW r \in RequestContexts, NEW a \in ImplicitFor(r),
         PushRequest(r, a)
  PROVE  LevelAdded(r, a)
<1> USE DEF ContextsInv, TypeOK
<1> DEFINE level == implicit[r]
           Levels == Seq(ImplicitContexts \cup {NoContext})
<1>1. a = NoContext \/ (a \in ImplicitContexts /\ Fresh(a))
  BY DEF ImplicitFor
<1>2. a \in ImplicitContexts \cup {NoContext}
  BY <1>1
<1>3. /\ implicit' = [implicit EXCEPT ![r] = Append(@, a)]
      /\ reqStack' = Append(reqStack, r)
      /\ life' = SetLife({r, a}, "live")
      /\ appStack' = IF a = NoContext THEN appStack ELSE Append(appStack, a)
      /\ refcnt' = IF a = NoContext THEN refcnt ELSE [refcnt EXCEPT ![a] = 1]
  BY DEF PushRequest
<1>4. appStack' \in Seq(AllAppContexts) /\ reqStack' \in Seq(RequestContexts)
  BY <1>1, <1>3, AppendOne
<1>5. /\ level \in Levels
      /\ implicit'[r] = Append(level, a)
      /\ \A q \in RequestContexts : q # r => implicit'[q] = implicit[q]
  BY <1>3
<1>6. /\ Append(level, a) \in Levels
      /\ Len(level) \in Nat
      /\ Len(Append(level, a)) = Len(level) + 1
      /\ DOMAIN level = 1 .. Len(level)
      /\ DOMAIN Append(level, a) = 1 .. (Len(level) + 1)
      /\ \A i \in 1 .. Len(level) : Append(level, a)[i] = level[i]
      /\ Append(level, a)[Len(level) + 1] = a
  BY <1>2, <1>5, AppendOne, AppendProperties
<1>7. implicit' \in [RequestContexts -> Levels]
  BY <1>3, <1>6
<1>8. \A q \in RequestContexts : Len(implicit'[q]) =
        IF q = r THEN Len(implicit[q]) + 1 ELSE Len(implicit[q])
  BY <1>5, <1>6
<1>9. ASSUME NEW q \in RequestContexts, NEW i \in DOMAIN implicit'[q]
      PROVE  \/ i \in DOMAIN implicit[q] /\ implicit'[q][i] = implicit[q][i]
             \/ q = r /\ i = Len(level) + 1 /\ implicit'[q][i] = a
  <2>1. CASE q = r
    <3>1. i \in 1 .. (Len(level) + 1)
      BY <2>1, <1>5, <1>6
    <3>2. i \in 1 .. Len(level) \/ i = Len(level) + 1
      BY ONLY <3>1, <1>6, LastOrBefore
    <3> QED
      BY <2>1, <3>2, <1>5, <1>6
  <2>2. CASE q # r
    BY <2>2, <1>5
  <2> QED
    BY <2>1, <2>2
<1>10. \A b \in ImplicitContexts : Referenced(b)' => Referenced(b) \/ b = a
  BY <1>9 DEF Referenced
<1>11. a # NoContext =>
         \A q \in RequestContexts : \A i \in DOMAIN implicit[q] : implicit[q][i] # a
  BY <1>1 DEF Fresh
<1>12. ReferencedOnce'
  <2> SUFFICES ASSUME NEW q \in RequestContexts, NEW p \in RequestContexts,
                      NEW i \in DOMAIN implicit'[q], NEW k \in DOMAIN implicit'[p],
                      implicit'[q][i] = implicit'[p][k], implicit'[q][i] # NoContext
               PROVE  q = p /\ i = k
    BY DEF ReferencedOnce
  <2>1. CASE /\ i \in DOMAIN implicit[q] /\ implicit'[q][i] = implicit[q][i]
             /\ k \in DOMAIN implicit[p] /\ implicit'[p][k] = implicit[p][k]
    <3>1. implicit[q][i] = implicit[p][k] /\ implicit[q][i] # NoContext
      BY <2>1
    <3>2. i \in DOMAIN implicit[q] /\ k \in DOMAIN implicit[p]
      BY <2>1
    <3>3. \A x \in DOMAIN implicit[q], y \in DOMAIN implicit[p] :
            implicit[q][x] = implicit[p][y] /\ implicit[q][x] # NoContext
              => q = p /\ x = y
      BY DEF ReferencedOnce
    <3> QED
      BY <3>1, <3>2, <3>3
  <2>2. CASE implicit'[q][i] = a
    <3>1. a # NoContext /\ implicit'[p][k] = a
      BY <2>2
    <3>2. q = r /\ i = Len(level) + 1
      BY <2>2, <3>1, <1>9, <1>11
    <3>3. p = r /\ k = Len(level) + 1
      BY <3>1, <1>9, <1>11
    <3> QED
      BY <3>2, <3>3
  <2>3. CASE implicit'[p][k] = a
    BY <2>2, <2>3
  <2> QED
    BY <2>1, <2>2, <2>3, <1>9
<1> QED
  BY <1>1, <1>2, <1>3, <1>4, <1>7, <1>8, <1>10, <1>12 DEF Fresh, LevelAdded

\* Entering a request's block adds a level and a block of it.
LEMMA EnterRequestInv ==
  ASSUME ContextsInv, NEW r \in RequestContexts, EnterRequest(r)
  PROVE  ContextsInv'
<1> USE DEF ContextsInv, TypeOK
<1>1. PICK a \in ImplicitFor(r) :
        /\ PushRequest(r, a)
        /\ notes' = [notes EXCEPT ![Last(appStack')] = <<>>]
  BY DEF EnterRequest
<1>0. LevelAdded(r, a)
  BY <1>1, LevelPushed
<1> USE DEF LevelAdded
<1>2. blocks' = Append(blocks, r) /\ wrongPop' = wrongPop
  BY DEF EnterRequest
<1>3. TypeOK'
  <2>1. blocks' \in Seq(Contexts)
    BY <1>2, BlockOpened
  <2>2. life' \in [Contexts -> {"new", "live", "torn"}]
    BY <1>1, <1>0 DEF SetLife
  <2>3. refcnt' \in [AllAppContexts -> Int]
    BY <1>1, <1>0
  <2>4. notes' \in [AllAppContexts -> Seq(Notes) \cup {Unset}]
    <3>1. <<>> \in Seq(Notes)
      OBVIOUS
    <3> QED
      BY <1>1, <3>1
  <2> QED
    BY <1>1, <1>2, <2>1, <2>2, <2>3, <2>4, <1>0
<1>4. RefcntCountsBlocks'
  BY <1>1, <1>2, <1>0, BlockOpened DEF RefcntCountsBlocks
<1>5. RequestLevels'
  <2> SUFFICES ASSUME NEW q \in RequestContexts
               PROVE  Len(implicit'[q]) >= Occurrences(q, blocks')
    BY DEF RequestLevels
  <2>1. Len(implicit[q]) >= Occurrences(q, blocks) /\ Len(implicit[q]) \in Nat
    BY DEF RequestLevels
  <2>2. Occurrences(q, blocks') = IF q = r THEN Occurrences(q, blocks) + 1
                                  ELSE Occurrences(q, blocks)
    BY <1>2, BlockOpened
  <2>3. Len(implicit'[q]) = IF q = r THEN Len(implicit[q]) + 1 ELSE Len(implicit[q])
    BY <1>0
  <2>4. Occurrences(q, blocks) \in Nat
    BY <1>2, BlockOpened
  <2> QED
    BY ONLY <2>1, <2>2, <2>3, <2>4
<1>6. ReferencedOnce'
  BY <1>1, <1>0
<1>7. ImplicitCounted'
  <2> SUFFICES ASSUME NEW b \in ImplicitContexts
               PROVE  /\ refcnt'[b] >= Occurrences(b, blocks')
                      /\ Referenced(b)' => refcnt'[b] >= Occurrences(b, blocks') + 1
    BY DEF ImplicitCounted
  <2>1. Occurrences(b, blocks') = Occurrences(b, blocks) /\ Occurrences(b, blocks) \in Nat
    BY <1>2, BlockOpened
  <2>2. CASE b = a
    <3>1. Occurrences(b, blocks) = 0 /\ refcnt'[b] = 1
      BY <1>0, <1>2, <2>2, BlockOpened
    <3> QED
      BY <2>1, <3>1
  <2>3. CASE b # a
    <3>1. refcnt'[b] = refcnt[b]
      BY <1>0, <2>3
    <3>2. Referenced(b)' => Referenced(b)
      BY <1>0, <2>3
    <3> QED
      BY <2>1, <3>1, <3>2 DEF ImplicitCounted
  <2> QED
    BY <2>2, <2>3
<1>8. NoEarlyTeardown'
  BY <1>1, <1>2, <1>0, BlockOpened DEF NoEarlyTeardown, SetLife
<1> QED
  BY <1>3, <1>4, <1>5, <1>6, <1>7, <1>8

\* A push whose open_session raises adds a level and no block.
LEMMA EnterRequestFailsInv ==
  ASSUME ContextsInv, NEW r \in RequestContexts, EnterRequestFails(r)
  PROVE  ContextsInv'
<1> USE DEF ContextsInv, TypeOK
<1>1. PICK a \in ImplicitFor(r) :
        /\ PushRequest(r, a)
        /\ notes' = IF a = NoContext THEN notes ELSE [notes EXCEPT ![a] = Unset]
  BY DEF EnterRequestFails
<1>0. LevelAdded(r, a)
  BY <1>1, LevelPushed
<1> USE DEF LevelAdded
<1>2. blocks' = blocks /\ wrongPop' = wrongPop
  BY DEF EnterRequestFails
<1>3. \A c : /\ InBlock(c)' <=> InBlock(c)
             /\ Occurrences(c, blocks') = Occurrences(c, blocks)
             /\ Occurrences(c, blocks) \in Nat
             /\ InBlock(c) <=> Occurrences(c, blocks) # 0
  BY <1>2, OccurrencesNat DEF InBlock
<1>4. TypeOK'
  <2>1. life' \in [Contexts -> {"new", "live", "torn"}]
    BY <1>1, <1>0 DEF SetLife
  <2>2. refcnt' \in [AllAppContexts -> Int]
    BY <1>1, <1>0
  <2>4. notes' \in [AllAppContexts -> Seq(Notes) \cup {Unset}]
    BY <1>1
  <2> QED
    BY <1>1, <1>2, <2>1, <2>2, <2>4, <1>0
<1>5. RefcntCountsBlocks'
  BY <1>1, <1>3, <1>0 DEF RefcntCountsBlocks
<1>6. RequestLevels'
  BY <1>1, <1>3, <1>0 DEF RequestLevels
<1>7. ReferencedOnce'
  BY <1>1, <1>0
<1>8. ImplicitCounted'
  BY <1>1, <1>3, <1>0 DEF ImplicitCounted
<1>9. NoEarlyTeardown'
  BY <1>1, <1>3, <1>0 DEF NoEarlyTeardown, SetLife
<1> QED
  BY <1>4, <1>5, <1>6, <1>7, <1>8, <1>9

\* What RequestContext.pop changes in the levels: the last one of the request
\* goes, and with it the only reference to its implicit context.
LevelTaken(r, a) ==
  /\ a = Last(implicit[r]) /\ a \in ImplicitContexts \cup {NoContext}
  /\ implicit' \in [RequestContexts -> Seq(ImplicitContexts \cup {NoContext})]
  /\ \A q \in RequestContexts :
       Len(implicit'[q]) = IF q = r THEN Len(implicit[q]) - 1 ELSE Len(implicit[q])
  /\ TornWithRequest(r) = IF Len(implicit[r]) = 1 THEN {r} ELSE {}
  /\ \A b \in ImplicitContexts : Referenced(b)' => Referenced(b)
  /\ a # NoContext => Referenced(a) /\ ~Referenced(a)'
  /\ ReferencedOnce'

\* Inside its block a request has a level to take.
LEMMA LevelPopped ==
  ASSUME ContextsInv, NEW r \in RequestContexts, Innermost(r),
         implicit' = [implicit EXCEPT ![r] = Front(@)],
         NEW a, a = Last(implicit[r])
  PROVE  LevelTaken(r, a)
<1> USE DEF ContextsInv, TypeOK
<1> DEFINE level == implicit[r]
           Levels == Seq(ImplicitContexts \cup {NoContext})
<1>1. level \in Levels /\ level # <<>>
  <2>1. InBlock(r) /\ Occurrences(r, blocks) # 0 /\ Occurrences(r, blocks) \in Nat
    <3>1. blocks # <<>> /\ Last(blocks) = r
      BY DEF Innermost
    <3>2. InBlock(r)
      BY <3>1, FrontProperties DEF InBlock, Last
    <3> QED
      BY <3>2, OccurrencesNat DEF InBlock
  <2>2. level \in Levels /\ Len(level) >= Occurrences(r, blocks)
    BY DEF RequestLevels
  <2> QED
    BY <2>1, <2>2
<1>2. /\ Front(level) \in Levels
      /\ a \in ImplicitContexts \cup {NoContext}
      /\ Len(level) \in Nat \ {0}
      /\ Len(Front(level)) = Len(level) - 1
      /\ DOMAIN Front(level) = 1 .. (Len(level) - 1)
      /\ DOMAIN level = 1 .. Len(level)
      /\ \A i \in 1 .. (Len(level) - 1) : Front(level)[i] = level[i]
      /\ level[Len(level)] = a
  BY <1>1, FrontProperties DEF Last
<1>3. /\ implicit'[r] = Front(level)
      /\ \A q \in RequestContexts : q # r => implicit'[q] = implicit[q]
  OBVIOUS
<1>4. implicit' \in [RequestContexts -> Levels]
  BY <1>2
<1>5. \A q \in RequestContexts :
        Len(implicit'[q]) = IF q = r THEN Len(implicit[q]) - 1 ELSE Len(implicit[q])
  BY <1>2, <1>3
<1>6. TornWithRequest(r) = IF Len(level) = 1 THEN {r} ELSE {}
  <2>1. Front(level) = <<>> <=> Len(level) = 1
    BY <1>2, EmptySeq
  <2> QED
    BY <2>1 DEF TornWithRequest
<1>7. ASSUME NEW q \in RequestContexts, NEW i \in DOMAIN implicit'[q]
      PROVE  /\ i \in DOMAIN implicit[q] /\ implicit'[q][i] = implicit[q][i]
             /\ q = r => i # Len(level)
  <2>1. CASE q = r
    <3>1. i \in 1 .. (Len(level) - 1)
      BY <2>1, <1>2, <1>3
    <3>2. i \in 1 .. Len(level) /\ i # Len(level)
      BY <3>1, <1>2
    <3>3. implicit'[q][i] = Front(level)[i] /\ Front(level)[i] = level[i]
      BY <2>1, <3>1, <1>2, <1>3
    <3> QED
      BY <2>1, <3>2, <3>3, <1>2
  <2>2. CASE q # r
    BY <2>2, <1>3
  <2> QED
    BY <2>1, <2>2
<1>8. \A b \in ImplicitContexts : Referenced(b)' => Referenced(b)
  BY <1>7 DEF Referenced
<1>9. a # NoContext => Referenced(a) /\ ~Referenced(a)'
  <2> SUFFICES ASSUME a # NoContext PROVE Referenced(a) /\ ~Referenced(a)'
    OBVIOUS
  <2>1. Len(level) \in DOMAIN implicit[r] /\ implicit[r][Len(level)] = a
    BY <1>2
  <2>2. ASSUME NEW q \in RequestContexts, NEW i \in DOMAIN implicit'[q],
               implicit'[q][i] = a
        PROVE  FALSE
    <3>1. i \in DOMAIN implicit[q] /\ implicit[q][i] = a /\ (q = r => i # Len(level))
      BY <2>2, <1>7
    <3>2. \A x \in DOMAIN implicit[q], y \in DOMAIN implicit[r] :
            implicit[q][x] = implicit[r][y] /\ implicit[q][x] # NoContext
              => q = r /\ x = y
      BY DEF ReferencedOnce
    <3> QED
      BY <2>1, <3>1, <3>2
  <2>3. Referenced(a)
    BY <2>1 DEF Referenced
  <2> QED
    BY <2>2, <2>3 DEF Referenced
<1>10. ReferencedOnce'
  BY <1>7 DEF ReferencedOnce
<1> QED
  BY <1>2, <1>4, <1>5, <1>6, <1>8, <1>9, <1>10 DEF LevelTaken

\* Leaving a request's block tears down the request with its last level, and
\* the implicit context with the last reference to it.
LEMMA ExitRequestInv ==
  ASSUME ContextsInv, NEW r \in RequestContexts, NEW raises \in BOOLEAN,
         ExitRequest(r, raises)
  PROVE  ContextsInv'
<1> USE DEF ContextsInv, TypeOK
<1>0. PICK a : a = Last(implicit[r])
  OBVIOUS
<1> DEFINE popsApp == TopOf(reqStack) = r /\ a # NoContext
<1>1. /\ Innermost(r)
      /\ blocks' = Front(blocks)
      /\ implicit' = [implicit EXCEPT ![r] = Front(@)]
      /\ reqStack' = PopTop(reqStack)
      /\ life' = SetLife(TornWithRequest(r)
                           \cup (IF popsApp THEN TornWithApp(a) ELSE {}), "torn")
      /\ refcnt' = IF popsApp THEN [refcnt EXCEPT ![a] = @ - 1] ELSE refcnt
      /\ appStack' \in {appStack, PopTop(appStack)}
      /\ wrongPop' \in BOOLEAN
      /\ notes' = notes
  BY <1>0 DEF ExitRequest, PopApp
<1>2. LevelTaken(r, a)
  BY <1>0, <1>1, LevelPopped
<1>3. a \in ImplicitContexts \cup {NoContext}
  BY <1>2 DEF LevelTaken
<1>4. TypeOK'
  <2>1. appStack' \in Seq(AllAppContexts) /\ reqStack' \in Seq(RequestContexts)
    BY <1>1, PopTopType
  <2>2. blocks' \in Seq(Contexts)
    BY <1>1, BlockClosed
  <2>3. life' \in [Contexts -> {"new", "live", "torn"}]
    BY <1>1 DEF SetLife
  <2>4. refcnt' \in [AllAppContexts -> Int]
    <3>1. CASE popsApp
      BY <1>1, <1>3, <3>1
    <3>2. CASE ~popsApp
      BY <1>1, <3>2
    <3> QED
      BY <3>1, <3>2
  <2> QED
    BY <1>1, <1>2, <2>1, <2>2, <2>3, <2>4 DEF LevelTaken
<1>5. RefcntCountsBlocks'
  BY <1>1, <1>3, BlockClosed DEF RefcntCountsBlocks
<1>6. RequestLevels'
  BY <1>1, <1>2, BlockClosed DEF RequestLevels, LevelTaken
<1>7. ReferencedOnce'
  BY <1>2 DEF LevelTaken
<1>8. ImplicitCounted'
  <2> SUFFICES ASSUME NEW b \in ImplicitContexts
               PROVE  /\ refcnt'[b] >= Occurrences(b, blocks')
                      /\ Referenced(b)' => refcnt'[b] >= Occurrences(b, blocks') + 1
    BY DEF ImplicitCounted
  <2>1. Occurrences(b, blocks') = Occurrences(b, blocks) /\ Occurrences(b, blocks) \in Nat
    BY <1>1, BlockClosed
  <2>2. CASE popsApp /\ b = a
    BY <1>1, <1>2, <2>1, <2>2 DEF ImplicitCounted, LevelTaken
  <2>3. CASE ~(popsApp /\ b = a)
    <3>1. refcnt'[b] = refcnt[b]
      BY <1>1, <1>3, <2>3
    <3> QED
      BY <1>2, <2>1, <3>1 DEF ImplicitCounted, LevelTaken
  <2> QED
    BY <2>2, <2>3
<1>9. NoEarlyTeardown'
  <2>1. r \in TornWithRequest(r) => ~InBlock(r)'
    <3>1. Occurrences(r, blocks) <= Len(implicit[r])
      BY DEF RequestLevels
    <3> QED
      BY <1>1, <1>2, <3>1, BlockClosed DEF LevelTaken
  <2>2. popsApp /\ a \in TornWithApp(a) => ~InBlock(a)
    <3>1. popsApp => a \in ImplicitContexts /\ refcnt[a] >= Occurrences(a, blocks) + 1
      BY <1>2 DEF LevelTaken, ImplicitCounted
    <3> QED
      BY <1>1, <3>1, BlockClosed DEF TornWithApp
  <2>3. TornWithRequest(r) \subseteq {r} /\ TornWithApp(a) \subseteq {a}
    BY DEF TornWithRequest, TornWithApp
  <2> QED
    BY <1>1, <2>1, <2>2, <2>3, BlockClosed DEF NoEarlyTeardown, SetLife
<1> QED
  BY <1>4, <1>5, <1>6, <1>7, <1>8, <1>9

\* A teardown function of the request that raises takes the level all the same.
LEMMA ExitRequestFailsInv ==
  ASSUME ContextsInv, NEW r \in RequestContexts, ExitRequestFails(r)
  PROVE  ContextsInv'
<1> USE DEF ContextsInv, TypeOK
<1>1. /\ Innermost(r)
      /\ TornWithRequest(r) # {}
      /\ blocks' = Front(blocks)
      /\ implicit' = [implicit EXCEPT ![r] = Front(@)]
      /\ life' = SetLife({r}, "torn")
      /\ UNCHANGED <<appStack, reqStack, refcnt, notes, wrongPop>>
  BY DEF ExitRequestFails
<1>0. PICK a : a = Last(implicit[r])
  OBVIOUS
<1>2. LevelTaken(r, a)
  BY <1>0, <1>1, LevelPopped
<1>3. TypeOK'
  <2>1. blocks' \in Seq(Contexts)
    BY <1>1, BlockClosed
  <2>2. life' \in [Contexts -> {"new", "live", "torn"}]
    BY <1>1 DEF SetLife
  <2> QED
    BY <1>1, <1>2, <2>1, <2>2 DEF LevelTaken
<1>4. RefcntCountsBlocks'
  BY <1>1, BlockClosed DEF RefcntCountsBlocks
<1>5. RequestLevels'
  BY <1>1, <1>2, BlockClosed DEF RequestLevels, LevelTaken
<1>6. ReferencedOnce'
  BY <1>2 DEF LevelTaken
<1>7. ImplicitCounted'
  BY <1>1, <1>2, BlockClosed DEF ImplicitCounted, LevelTaken
<1>8. NoEarlyTeardown'
  <2>1. Occurrences(r, blocks) <= Len(implicit[r]) /\ Len(implicit[r]) = 1
    BY <1>1, <1>2 DEF RequestLevels, LevelTaken
  <2>2. ~InBlock(r)'
    BY <1>1, <2>1, BlockClosed
  <2> QED
    BY <1>1, <2>2, BlockClosed DEF NoEarlyTeardown, SetLife
<1> QED
  BY <1>3, <1>4, <1>5, <1>6, <1>7, <1>8

\* Collecting a notification and stuttering leave the contexts alone.
LEMMA NotifyInv ==
  ASSUME ContextsInv, (\E n \in Notes : Notify(n)) \/ UNCHANGED vars
  PROVE  ContextsInv'
<1> USE DEF ContextsInv, TypeOK
<1>1. UNCHANGED <<appStack, reqStack, refcnt, implicit, blocks, life, wrongPop>>
  BY DEF Notify, vars
<1>2. notes' \in [AllAppContexts -> Seq(Notes) \cup {Unset}]
  <2>1. ASSUME NEW n \in Notes, Notify(n)
        PROVE  notes' \in [AllAppContexts -> Seq(Notes) \cup {Unset}]
    <3> DEFINE top == Last(appStack)
    <3>1. top \in AllAppContexts
      BY <2>1, FrontProperties DEF Notify
    <3>2. /\ notes[top] # Unset
          /\ notes' = [notes EXCEPT ![top] = Append(@, n)]
      BY <2>1 DEF Notify
    <3>3. Append(notes[top], n) \in Seq(Notes)
      BY <3>1, <3>2, AppendOne
    <3> QED
      BY <3>1, <3>2, <3>3
  <2> QED
    BY <2>1 DEF vars
<1>3. TypeOK'
  BY <1>1, <1>2
<1> QED
  BY <1>1, <1>3 DEF RefcntCountsBlocks, RequestLevels, ImplicitCounted, Referenced,
                    ReferencedOnce, NoEarlyTeardown, InBlock

\* ContextsInv is an invariant.
LEMMA ContextsInvAlways == Spec => []ContextsInv
<1>1. ContextsInv /\ [Next]_vars => ContextsInv'
  BY EnterAppInv, ExitAppInv, EnterRequestInv, EnterRequestFailsInv, ExitRequestInv,
     ExitRequestFailsInv, NotifyInv DEF Next
<1> QED
  BY <1>1, InitContextsInv, PTL DEF Spec

-----------------------------------------------------------------------------
\* For every instance and every failure: the stacks hold contexts of their
\* kind, and a request that is left has a level to take.
THEOREM TypeCorrect == Spec => []TypeOK
<1>1. ContextsInv => TypeOK
  BY DEF ContextsInv
<1> QED
  BY <1>1, ContextsInvAlways, PTL

\* For every instance and every failure: the reference count of a context held
\* by a caller is the number of its open blocks.
THEOREM CallersAreCounted == Spec => []RefcntCountsBlocks
<1>1. ContextsInv => RefcntCountsBlocks
  BY DEF ContextsInv
<1> QED
  BY <1>1, ContextsInvAlways, PTL

\* For every instance and every failure: no teardown function runs for a
\* context that a with block is still using.
THEOREM TeardownIsLast == Spec => []NoEarlyTeardown
<1>1. ContextsInv => NoEarlyTeardown
  BY DEF ContextsInv
<1> QED
  BY <1>1, ContextsInvAlways, PTL
=============================================================================
