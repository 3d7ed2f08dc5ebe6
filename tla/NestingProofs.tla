---------------------------- MODULE NestingProofs ----------------------------
(***************************************************************************)
(* Proofs about Contexts while nothing raises, for any number of           *)
(* applications, contexts and nested blocks.                               *)
(*                                                                         *)
(* That every block takes off the stacks what it has put there is not      *)
(* inductive: it says nothing of the blocks further out.  Nested says of   *)
(* each open block how high the two stacks and the levels of each request  *)
(* were when it had been entered, and what lies there.  Leaving a block    *)
(* then leaves the stacks at the heights of the block around it.           *)
(***************************************************************************)
EXTENDS ContextsProofs

-----------------------------------------------------------------------------
(* The inductive invariant.                                                *)

\* The heights of the stacks and levels with i blocks open.
AreHeights(ha, hr, hl) ==
  /\ ha \in [0 .. Len(blocks) -> Nat] /\ hr \in [0 .. Len(blocks) -> Nat]
  /\ hl \in [0 .. Len(blocks) -> [RequestContexts -> Nat]]
  /\ ha[0] = 0 /\ hr[0] = 0 /\ \A r \in RequestContexts : hl[0][r] = 0
  /\ ha[Len(blocks)] = Len(appStack) /\ hr[Len(blocks)] = Len(reqStack)
  /\ \A r \in RequestContexts : hl[Len(blocks)][r] = Len(implicit[r])
  /\ \A i, k \in 0 .. Len(blocks) : i <= k =>
       /\ ha[i] <= ha[k] /\ hr[i] <= hr[k]
       /\ \A r \in RequestContexts : hl[i][r] <= hl[k][r]

\* Block i of an application context has put that context on the stack.
HoldsApp(ha, hr, hl, i) ==
  /\ ha[i] = ha[i - 1] + 1 /\ appStack[ha[i]] = blocks[i]
  /\ hr[i] = hr[i - 1]
  /\ \A r \in RequestContexts : hl[i][r] = hl[i - 1][r]

\* Block i of a request has put it on the stack and added a level to it; the
\* application context on top is the level's, or was there and will do.
HoldsRequest(ha, hr, hl, i) ==
  LET r == blocks[i]
      a == implicit[r][hl[i][r]]
  IN
  /\ hr[i] = hr[i - 1] + 1 /\ reqStack[hr[i]] = r
  /\ hl[i][r] = hl[i - 1][r] + 1
  /\ \A q \in RequestContexts : q # r => hl[i][q] = hl[i - 1][q]
  /\ ha[i] # 0 /\ AppOf[appStack[ha[i]]] = AppOf[r]
  /\ \/ a = NoContext /\ ha[i] = ha[i - 1]
     \/ a # NoContext /\ ha[i] = ha[i - 1] + 1 /\ appStack[ha[i]] = a

Holds(ha, hr, hl, i) ==
  /\ blocks[i] \in AllAppContexts => HoldsApp(ha, hr, hl, i)
  /\ blocks[i] \in RequestContexts => HoldsRequest(ha, hr, hl, i)

Describes(ha, hr, hl) ==
  /\ AreHeights(ha, hr, hl)
  /\ \A i \in 1 .. Len(blocks) : Holds(ha, hr, hl, i)

Nested == \E ha, hr, hl : Describes(ha, hr, hl)

\* A request has as many levels as places on the stack.
LevelsCountPushes ==
  \A r \in RequestContexts : Len(implicit[r]) = Occurrences(r, reqStack)

\* What has been pushed and not torn down has a reference or a level.
LiveIsCounted ==
  /\ \A a \in AllAppContexts : life[a] = "live" => refcnt[a] # 0
  /\ \A r \in RequestContexts : life[r] = "live" => Len(implicit[r]) # 0

NestingInv ==
  /\ ContextsInv
  /\ Nested
  /\ PopsMatch
  /\ RefcntCountsPushes
  /\ LevelsCountPushes
  /\ LiveIsCounted

-----------------------------------------------------------------------------
(* Sequences that agree up to a height.                                    *)

USE DisjointContexts DEF AllAppContexts, Contexts

\* s is t up to the height m.
Agree(s, t, m) == Len(s) >= m /\ Len(t) >= m /\ \A i \in 1 .. m : s[i] = t[i]

\* Append and Front agree with the sequence up to the lower height.
LEMMA AppendAgrees ==
  ASSUME NEW S, NEW seq \in Seq(S), NEW x \in S
  PROVE  Agree(Append(seq, x), seq, Len(seq))
BY AppendOne DEF Agree

LEMMA FrontAgrees ==
  ASSUME NEW S, NEW seq \in Seq(S), seq # <<>>
  PROVE  Agree(Front(seq), seq, Len(seq) - 1)
BY FrontProperties DEF Agree

LEMMA FrontHeight ==
  ASSUME NEW S, NEW seq \in Seq(S), seq # <<>>, NEW front, front = Front(seq),
         NEW m, m = Len(seq) - 1
  PROVE  Len(front) = m /\ Agree(front, seq, m)
BY FrontProperties, FrontAgrees

\* What holds of a block goes on holding while the stacks agree up to its height.
LEMMA HoldsKept ==
  ASSUME TypeOK, TypeOK', NEW ha, NEW hr, NEW hl, AreHeights(ha, hr, hl),
         NEW n \in 0 .. Len(blocks), Agree(blocks', blocks, n),
         Agree(appStack', appStack, ha[n]), Agree(reqStack', reqStack, hr[n]),
         \A r \in RequestContexts : Agree(implicit'[r], implicit[r], hl[n][r]),
         NEW ha2, NEW hr2, NEW hl2,
         \A i \in 0 .. n : ha2[i] = ha[i] /\ hr2[i] = hr[i] /\ hl2[i] = hl[i],
         NEW i \in 1 .. n, Holds(ha, hr, hl, i)
  PROVE  Holds(ha2, hr2, hl2, i)'
<1>1. /\ i \in 0 .. n /\ i - 1 \in 0 .. n /\ i \in 0 .. Len(blocks) /\ i \in 1 .. Len(blocks)
      /\ i - 1 \in 0 .. Len(blocks)
  BY DEF TypeOK
<1>2. /\ ha2[i] = ha[i] /\ ha2[i - 1] = ha[i - 1]
      /\ hr2[i] = hr[i] /\ hr2[i - 1] = hr[i - 1]
      /\ hl2[i] = hl[i] /\ hl2[i - 1] = hl[i - 1]
  BY <1>1
<1>3. blocks'[i] = blocks[i] /\ blocks[i] \in Contexts
  BY <1>1 DEF TypeOK, Agree
<1>4. /\ ha[i] \in Nat /\ ha[i - 1] \in Nat /\ ha[n] \in Nat /\ ha[i] <= ha[n]
      /\ hr[i] \in Nat /\ hr[i - 1] \in Nat /\ hr[n] \in Nat /\ hr[i] <= hr[n]
      /\ \A r \in RequestContexts : /\ hl[i][r] \in Nat /\ hl[i - 1][r] \in Nat
                                    /\ hl[n][r] \in Nat /\ hl[i][r] <= hl[n][r]
  <2>1. i <= n /\ n \in 0 .. Len(blocks)
    OBVIOUS
  <2> QED
    BY ONLY <1>1, <2>1, AreHeights(ha, hr, hl) DEF AreHeights
<1>5. ha[i] # 0 => appStack'[ha[i]] = appStack[ha[i]]
  BY ONLY <1>4, Agree(appStack', appStack, ha[n]) DEF Agree
<1>6. hr[i] # 0 => reqStack'[hr[i]] = reqStack[hr[i]]
  BY ONLY <1>4, Agree(reqStack', reqStack, hr[n]) DEF Agree
<1>7. \A r \in RequestContexts :
        hl[i][r] # 0 => implicit'[r][hl[i][r]] = implicit[r][hl[i][r]]
  <2> SUFFICES ASSUME NEW r \in RequestContexts, hl[i][r] # 0
               PROVE  implicit'[r][hl[i][r]] = implicit[r][hl[i][r]]
    OBVIOUS
  <2>1. hl[i][r] \in 1 .. hl[n][r]
    BY <1>4
  <2>2. Agree(implicit'[r], implicit[r], hl[n][r])
    OBVIOUS
  <2> QED
    BY ONLY <2>1, <2>2 DEF Agree
<1>8. CASE blocks[i] \in AllAppContexts
  <2>1. HoldsApp(ha, hr, hl, i)
    BY <1>8 DEF Holds
  <2>2. HoldsApp(ha2, hr2, hl2, i)'
    BY <2>1, <1>2, <1>3, <1>4, <1>5 DEF HoldsApp
  <2> QED
    BY <2>2, <1>3, <1>8 DEF Holds
<1>9. CASE blocks[i] \in RequestContexts
  <2>1. HoldsRequest(ha, hr, hl, i)
    BY <1>9 DEF Holds
  <2>2. PICK r \in RequestContexts : r = blocks[i] /\ r = blocks'[i]
    BY <1>3, <1>9
  <2>3. /\ hr2[i] = hr2[i - 1] + 1 /\ reqStack'[hr2[i]] = r
        /\ hl2[i][r] = hl2[i - 1][r] + 1
        /\ \A q \in RequestContexts : q # r => hl2[i][q] = hl2[i - 1][q]
    BY ONLY <2>1, <2>2, <1>2, <1>4, <1>6 DEF HoldsRequest
  <2>4. implicit'[r][hl2[i][r]] = implicit[r][hl[i][r]]
    <3>1. hl[i][r] = hl[i - 1][r] + 1 /\ hl[i - 1][r] \in Nat
      BY ONLY <2>1, <2>2, <1>4 DEF HoldsRequest
    <3>2. hl[i][r] # 0
      BY ONLY <3>1
    <3> QED
      BY ONLY <3>2, <2>2, <1>2, <1>7
  <2>5. ha2[i] # 0 /\ appStack'[ha2[i]] = appStack[ha[i]]
    BY ONLY <2>1, <1>2, <1>4, <1>5 DEF HoldsRequest
  <2>6. HoldsRequest(ha2, hr2, hl2, i)'
    BY ONLY <2>1, <2>2, <2>3, <2>4, <2>5, <1>2 DEF HoldsRequest
  <2> QED
    BY <2>6, <1>3, <1>9 DEF Holds
<1> QED
  BY <1>3, <1>8, <1>9

-----------------------------------------------------------------------------
(* Opening and closing a block.                                            *)

\* What is put on the stacks and levels when block c is opened.
LEMMA BlockNested ==
  ASSUME TypeOK, TypeOK', Nested, NEW c \in Contexts, blocks' = Append(blocks, c),
         Agree(appStack', appStack, Len(appStack)), Agree(reqStack', reqStack, Len(reqStack)),
         \A r \in RequestContexts : Agree(implicit'[r], implicit[r], Len(implicit[r])),
         c \in AllAppContexts =>
           /\ Len(appStack') = Len(appStack) + 1 /\ appStack'[Len(appStack')] = c
           /\ reqStack' = reqStack /\ implicit' = implicit,
         c \in RequestContexts =>
           /\ Len(reqStack') = Len(reqStack) + 1 /\ reqStack'[Len(reqStack')] = c
           /\ Len(implicit'[c]) = Len(implicit[c]) + 1
           /\ \A q \in RequestContexts : q # c => implicit'[q] = implicit[q]
           /\ Len(appStack') # 0 /\ AppOf[appStack'[Len(appStack')]] = AppOf[c]
           /\ LET a == implicit'[c][Len(implicit'[c])] IN
                \/ a = NoContext /\ Len(appStack') = Len(appStack)
                \/ /\ a # NoContext /\ Len(appStack') = Len(appStack) + 1
                   /\ appStack'[Len(appStack')] = a
  PROVE  Nested'
<1>n. PICK n \in Nat : n = Len(blocks)
  BY DEF TypeOK
<1>1. PICK ha, hr, hl : Describes(ha, hr, hl)
  BY DEF Nested
<1>2. AreHeights(ha, hr, hl)
  BY <1>1 DEF Describes
<1>3. /\ n \in Nat /\ Len(blocks') = n + 1 /\ blocks'[n + 1] = c
      /\ Agree(blocks', blocks, n) /\ n \in 0 .. n
  BY <1>n, AppendOne, AppendAgrees DEF TypeOK, Last
<1>a. PICK levels : levels = [r \in RequestContexts |-> Len(implicit'[r])]
  OBVIOUS
<1>b. PICK ga, gr, gl :
        /\ ga = [i \in 0 .. n + 1 |-> IF i <= n THEN ha[i] ELSE Len(appStack')]
        /\ gr = [i \in 0 .. n + 1 |-> IF i <= n THEN hr[i] ELSE Len(reqStack')]
        /\ gl = [i \in 0 .. n + 1 |-> IF i <= n THEN hl[i] ELSE levels]
  OBVIOUS
<1>4. /\ Len(appStack) \in Nat /\ Len(appStack') \in Nat /\ Len(appStack') >= Len(appStack)
      /\ Len(reqStack) \in Nat /\ Len(reqStack') \in Nat /\ Len(reqStack') >= Len(reqStack)
      /\ \A r \in RequestContexts : /\ Len(implicit[r]) \in Nat /\ Len(implicit'[r]) \in Nat
                                    /\ Len(implicit'[r]) >= Len(implicit[r])
  <2>1. /\ Len(appStack) \in Nat /\ Len(appStack') \in Nat
        /\ Len(reqStack) \in Nat /\ Len(reqStack') \in Nat
        /\ \A r \in RequestContexts : Len(implicit[r]) \in Nat /\ Len(implicit'[r]) \in Nat
    BY ONLY TypeOK, TypeOK' DEF TypeOK
  <2>2. /\ Len(appStack') >= Len(appStack) /\ Len(reqStack') >= Len(reqStack)
        /\ \A r \in RequestContexts : Len(implicit'[r]) >= Len(implicit[r])
    BY DEF Agree
  <2> QED
    BY ONLY <2>1, <2>2
<1>5. /\ \A i \in 0 .. n : ga[i] = ha[i] /\ gr[i] = hr[i] /\ gl[i] = hl[i]
      /\ ga[n + 1] = Len(appStack') /\ gr[n + 1] = Len(reqStack') /\ gl[n + 1] = levels
      /\ \A r \in RequestContexts : levels[r] = Len(implicit'[r])
  BY <1>3, <1>a, <1>b
<1>6. /\ ha[n] = Len(appStack) /\ hr[n] = Len(reqStack)
      /\ \A r \in RequestContexts : hl[n][r] = Len(implicit[r])
  BY <1>n, <1>2 DEF AreHeights
<1>7. AreHeights(ga, gr, gl)'
  <2>1. /\ ga \in [0 .. n + 1 -> Nat] /\ gr \in [0 .. n + 1 -> Nat]
        /\ gl \in [0 .. n + 1 -> [RequestContexts -> Nat]]
    <3>1. \A i \in 0 .. n + 1 : i <= n => i \in 0 .. n
      BY <1>3
    <3>2. levels \in [RequestContexts -> Nat]
      BY <1>4, <1>a
    <3> QED
      BY <1>n, <1>2, <1>3, <1>4, <1>b, <3>1, <3>2 DEF AreHeights
  <2>2. ga[0] = 0 /\ gr[0] = 0 /\ \A r \in RequestContexts : gl[0][r] = 0
    <3>1. 0 \in 0 .. n
      BY <1>3
    <3> QED
      BY <1>2, <1>5, <3>1 DEF AreHeights
  <2>3. ASSUME NEW i \in 0 .. n + 1, NEW k \in 0 .. n + 1, i <= k
        PROVE  /\ ga[i] <= ga[k] /\ gr[i] <= gr[k]
               /\ \A r \in RequestContexts : gl[i][r] <= gl[k][r]
    <3>1. CASE k \in 0 .. n
      <4>1. i \in 0 .. n
        BY <1>3, <2>3, <3>1
      <4>2. /\ ha[i] <= ha[k] /\ hr[i] <= hr[k]
            /\ \A r \in RequestContexts : hl[i][r] <= hl[k][r]
        BY <1>n, <1>2, <2>3, <3>1, <4>1 DEF AreHeights
      <4> QED
        BY ONLY <1>5, <3>1, <4>1, <4>2
    <3>2. CASE i \in 0 .. n /\ k = n + 1
      <4>1. /\ ha[i] <= ha[n] /\ hr[i] <= hr[n]
            /\ \A r \in RequestContexts : hl[i][r] <= hl[n][r]
            /\ ha[i] \in Nat /\ hr[i] \in Nat
            /\ \A r \in RequestContexts : hl[i][r] \in Nat
        BY <1>n, <1>2, <1>3, <3>2 DEF AreHeights
      <4>2. /\ ga[i] = ha[i] /\ gr[i] = hr[i] /\ gl[i] = hl[i]
            /\ ga[k] = Len(appStack') /\ gr[k] = Len(reqStack') /\ gl[k] = levels
        BY ONLY <1>5, <3>2
      <4>3. /\ ha[i] <= Len(appStack) /\ hr[i] <= Len(reqStack)
            /\ \A r \in RequestContexts : hl[i][r] <= Len(implicit[r])
        BY ONLY <1>6, <4>1
      <4>4. ha[i] <= Len(appStack') /\ hr[i] <= Len(reqStack')
        BY ONLY <1>4, <4>1, <4>3
      <4>5. \A r \in RequestContexts : hl[i][r] <= Len(implicit'[r])
        BY ONLY <1>4, <4>1, <4>3
      <4>6. \A r \in RequestContexts : hl[i][r] <= levels[r]
        BY ONLY <1>5, <4>5
      <4> QED
        BY ONLY <4>2, <4>4, <4>6
    <3>3. CASE i = n + 1 /\ k = n + 1
      <4>1. /\ ga[i] \in Nat /\ gr[i] \in Nat
            /\ \A r \in RequestContexts : gl[i][r] \in Nat
        BY ONLY <1>4, <1>5, <3>3
      <4> QED
        BY ONLY <3>3, <4>1
    <3> QED
      BY <1>3, <2>3, <3>1, <3>2, <3>3
  <2> QED
    BY <1>3, <1>5, <2>1, <2>2, <2>3 DEF AreHeights
<1>8. ASSUME NEW i \in 1 .. n
      PROVE  Holds(ga, gr, gl, i)'
  <2>1. Holds(ha, hr, hl, i)
    BY <1>n, <1>1 DEF Describes
  <2>2. /\ n \in 0 .. Len(blocks) /\ Agree(appStack', appStack, ha[n])
        /\ Agree(reqStack', reqStack, hr[n])
        /\ \A r \in RequestContexts : Agree(implicit'[r], implicit[r], hl[n][r])
    BY <1>n, <1>6
  <2> QED
    BY <1>2, <1>3, <1>5, <2>1, <2>2, HoldsKept
<1>9. Holds(ga, gr, gl, n + 1)'
  <2>0. /\ n + 1 - 1 = n /\ n \in 0 .. n
        /\ ga[n] = Len(appStack) /\ gr[n] = Len(reqStack)
        /\ \A r \in RequestContexts : gl[n][r] = Len(implicit[r])
        /\ \A r \in RequestContexts : gl[n + 1][r] = Len(implicit'[r])
    BY <1>3, <1>5, <1>6
  <2>1. ASSUME c \in AllAppContexts PROVE HoldsApp(ga, gr, gl, n + 1)'
    <3>1. /\ Len(appStack') = Len(appStack) + 1 /\ appStack'[Len(appStack')] = c
          /\ reqStack' = reqStack /\ implicit' = implicit
      BY <2>1
    <3>2. /\ ga[n + 1] = ga[n] + 1 /\ appStack'[ga[n + 1]] = c /\ gr[n + 1] = gr[n]
      BY ONLY <1>5, <2>0, <3>1
    <3>3. \A r \in RequestContexts : gl[n + 1][r] = gl[n][r]
      BY ONLY <2>0, <3>1
    <3>4. n + 1 - 1 = n /\ blocks'[n + 1] = c
      BY ONLY <1>3, <2>0
    <3> QED
      BY ONLY <3>2, <3>3, <3>4 DEF HoldsApp
  <2>2. ASSUME c \in RequestContexts PROVE HoldsRequest(ga, gr, gl, n + 1)'
    <3>0. /\ Len(reqStack') = Len(reqStack) + 1 /\ reqStack'[Len(reqStack')] = c
          /\ Len(implicit'[c]) = Len(implicit[c]) + 1
          /\ \A q \in RequestContexts : q # c => implicit'[q] = implicit[q]
      BY <2>2
    <3>1. /\ gr[n + 1] = gr[n] + 1 /\ reqStack'[gr[n + 1]] = c
          /\ gl[n + 1][c] = gl[n][c] + 1
          /\ \A q \in RequestContexts : q # c => gl[n + 1][q] = gl[n][q]
      BY ONLY <1>5, <2>0, <2>2, <3>0
    <3>2. /\ ga[n + 1] # 0 /\ AppOf[appStack'[ga[n + 1]]] = AppOf[c]
          /\ LET a == implicit'[c][gl[n + 1][c]] IN
               \/ a = NoContext /\ ga[n + 1] = ga[n]
               \/ a # NoContext /\ ga[n + 1] = ga[n] + 1 /\ appStack'[ga[n + 1]] = a
      BY <1>5, <2>0, <2>2
    <3> QED
      BY <1>3, <2>0, <3>1, <3>2 DEF HoldsRequest
  <2> QED
    BY <1>3, <2>1, <2>2 DEF Holds
<1>10. \A i \in 1 .. n + 1 : i \in 1 .. n \/ i = n + 1
  BY <1>3
<1>11. Describes(ga, gr, gl)'
  BY <1>3, <1>7, <1>8, <1>9, <1>10 DEF Describes
<1> QED
  BY <1>11 DEF Nested

\* Closing a block leaves what the blocks around it have put there.
LEMMA BlockUnnested ==
  ASSUME TypeOK, TypeOK', blocks # <<>>, blocks' = Front(blocks),
         NEW ha, NEW hr, NEW hl, Describes(ha, hr, hl),
         NEW n \in Nat, n = Len(blocks) - 1,
         Len(appStack') = ha[n], Agree(appStack', appStack, ha[n]),
         Len(reqStack') = hr[n], Agree(reqStack', reqStack, hr[n]),
         \A r \in RequestContexts :
           Len(implicit'[r]) = hl[n][r] /\ Agree(implicit'[r], implicit[r], hl[n][r])
  PROVE  Nested'
<1>1. /\ Len(blocks) = n + 1 /\ Len(blocks') = n /\ Agree(blocks', blocks, n)
      /\ n \in 0 .. Len(blocks)
  <2>1. blocks \in Seq(Contexts)
    BY DEF TypeOK
  <2>2. Len(blocks) \in Nat \ {0} /\ Len(Front(blocks)) = Len(blocks) - 1
    BY ONLY <2>1, FrontProperties, blocks # <<>>
  <2>3. Agree(Front(blocks), blocks, Len(blocks) - 1)
    BY ONLY <2>1, FrontAgrees, blocks # <<>>
  <2> QED
    BY <2>2, <2>3
<1>2. AreHeights(ha, hr, hl)
  BY DEF Describes
<1>3. PICK ga, gr, gl :
        /\ ga = [i \in 0 .. n |-> ha[i]]
        /\ gr = [i \in 0 .. n |-> hr[i]]
        /\ gl = [i \in 0 .. n |-> hl[i]]
  OBVIOUS
<1>4. \A i \in 0 .. n : i \in 0 .. Len(blocks) /\ (i # 0 => i \in 1 .. Len(blocks))
  BY <1>1
<1>5. \A i \in 0 .. n : ga[i] = ha[i] /\ gr[i] = hr[i] /\ gl[i] = hl[i]
  BY <1>3
<1>6. AreHeights(ga, gr, gl)'
  <2>1. /\ ga \in [0 .. n -> Nat] /\ gr \in [0 .. n -> Nat]
        /\ gl \in [0 .. n -> [RequestContexts -> Nat]]
    BY <1>2, <1>3, <1>4 DEF AreHeights
  <2>2. ga[0] = 0 /\ gr[0] = 0 /\ \A r \in RequestContexts : gl[0][r] = 0
    BY <1>2, <1>5 DEF AreHeights
  <2>3. ASSUME NEW i \in 0 .. n, NEW k \in 0 .. n, i <= k
        PROVE  /\ ga[i] <= ga[k] /\ gr[i] <= gr[k]
               /\ \A r \in RequestContexts : gl[i][r] <= gl[k][r]
    <3>1. /\ ha[i] <= ha[k] /\ hr[i] <= hr[k]
          /\ \A r \in RequestContexts : hl[i][r] <= hl[k][r]
      BY <1>2, <1>4, <2>3 DEF AreHeights
    <3> QED
      BY <1>5, <3>1
  <2>4. n \in 0 .. n
    OBVIOUS
  <2> QED
    BY <1>1, <1>5, <2>1, <2>2, <2>3, <2>4 DEF AreHeights
<1>7. ASSUME NEW i \in 1 .. n
      PROVE  Holds(ga, gr, gl, i)'
  <2>1. Holds(ha, hr, hl, i)
    BY <1>4 DEF Describes
  <2> QED
    BY <1>1, <1>2, <1>5, <2>1, HoldsKept
<1>8. Describes(ga, gr, gl)'
  BY <1>1, <1>6, <1>7 DEF Describes
<1> QED
  BY <1>8 DEF Nested

\* The innermost block's entries are on top of the stacks.
LEMMA InnermostOnTop ==
  ASSUME NestingInv, NEW c, Innermost(c)
  PROVE  /\ c \in AllAppContexts => appStack # <<>> /\ Last(appStack) = c
         /\ c \in RequestContexts =>
              /\ reqStack # <<>> /\ Last(reqStack) = c
              /\ implicit[c] # <<>>
              /\ appStack # <<>> /\ AppOf[Last(appStack)] = AppOf[c]
              /\ Last(implicit[c]) # NoContext => Last(appStack) = Last(implicit[c])
<1> USE DEF NestingInv, ContextsInv
<1>1. PICK n \in Nat \ {0} : n = Len(blocks) /\ blocks[n] = c /\ c \in Contexts
  BY FrontProperties DEF Innermost, Last, TypeOK
<1>2. PICK ha, hr, hl : AreHeights(ha, hr, hl) /\ Holds(ha, hr, hl, n)
  BY <1>1 DEF Nested, Describes
<1>3. /\ n \in 0 .. n /\ n - 1 \in 0 .. n
      /\ ha[n] = Len(appStack) /\ hr[n] = Len(reqStack)
      /\ ha[n - 1] \in Nat /\ hr[n - 1] \in Nat
      /\ \A r \in RequestContexts : hl[n][r] = Len(implicit[r]) /\ hl[n - 1][r] \in Nat
  <2>1. n \in 0 .. n /\ n - 1 \in 0 .. n /\ n = Len(blocks)
    BY ONLY <1>1
  <2> QED
    BY ONLY <1>2, <2>1 DEF AreHeights
<1>4. \A r \in RequestContexts : Len(implicit[r]) \in Nat /\ (Len(implicit[r]) # 0 => implicit[r] # <<>>)
  BY DEF TypeOK
<1>5. /\ Len(appStack) \in Nat /\ (Len(appStack) # 0 => appStack # <<>>)
      /\ Len(reqStack) \in Nat /\ (Len(reqStack) # 0 => reqStack # <<>>)
  BY DEF TypeOK
<1>6. CASE c \in AllAppContexts
  <2>1. Len(appStack) # 0 /\ appStack[Len(appStack)] = c
    BY <1>1, <1>2, <1>3, <1>6 DEF Holds, HoldsApp
  <2> QED
    BY <2>1, <1>5, <1>6 DEF Last
<1>7. CASE c \in RequestContexts
  <2>1. HoldsRequest(ha, hr, hl, n)
    BY <1>1, <1>2, <1>7 DEF Holds
  <2>2. Len(reqStack) # 0 /\ reqStack[Len(reqStack)] = c
    BY <2>1, <1>1, <1>3 DEF HoldsRequest
  <2>3. Len(implicit[c]) # 0
    BY <2>1, <1>1, <1>3, <1>7 DEF HoldsRequest
  <2>4. Len(appStack) # 0 /\ AppOf[appStack[Len(appStack)]] = AppOf[c]
    BY <2>1, <1>1, <1>3 DEF HoldsRequest
  <2>5. implicit[c][Len(implicit[c])] # NoContext
          => appStack[Len(appStack)] = implicit[c][Len(implicit[c])]
    BY <2>1, <1>1, <1>3, <1>7 DEF HoldsRequest
  <2> QED
    BY <2>2, <2>3, <2>4, <2>5, <1>4, <1>5, <1>7 DEF Last
<1> QED
  BY <1>1, <1>6, <1>7

\* Leaving the innermost block of an application context, or of a request with or
\* without an application context of its own, leaves what the others have put there.
LEMMA InnermostClosed ==
  ASSUME NestingInv, TypeOK', NEW c, Innermost(c), blocks' = Front(blocks),
         c \in AllAppContexts =>
           appStack' = Front(appStack) /\ reqStack' = reqStack /\ implicit' = implicit,
         c \in RequestContexts =>
           /\ reqStack' = Front(reqStack)
           /\ implicit' = [implicit EXCEPT ![c] = Front(@)]
           /\ appStack' = IF Last(implicit[c]) = NoContext THEN appStack ELSE Front(appStack)
  PROVE  Nested'
<1> USE DEF NestingInv, ContextsInv
<1>1. PICK n \in Nat : n = Len(blocks) - 1 /\ blocks[n + 1] = c /\ c \in Contexts /\ blocks # <<>>
  BY FrontProperties DEF Innermost, Last, TypeOK
<1>2. PICK ha, hr, hl : Describes(ha, hr, hl)
  BY DEF Nested
<1>3. AreHeights(ha, hr, hl) /\ Len(blocks) = n + 1 /\ n + 1 - 1 = n
  BY <1>1, <1>2 DEF Describes, TypeOK
<1>4. Holds(ha, hr, hl, n + 1)
  BY <1>2, <1>3 DEF Describes
<1>5. /\ ha[n + 1] = Len(appStack) /\ hr[n + 1] = Len(reqStack)
      /\ ha[n] \in Nat /\ hr[n] \in Nat
      /\ \A r \in RequestContexts : hl[n + 1][r] = Len(implicit[r]) /\ hl[n][r] \in Nat
  <2>1. n \in 0 .. Len(blocks)
    BY <1>3
  <2> QED
    BY <1>3, <2>1 DEF AreHeights
<1>6. /\ appStack \in Seq(AllAppContexts) /\ reqStack \in Seq(RequestContexts)
      /\ implicit \in [RequestContexts -> Seq(ImplicitContexts \cup {NoContext})]
  BY DEF TypeOK
<1>7. /\ Agree(appStack, appStack, Len(appStack)) /\ Agree(reqStack, reqStack, Len(reqStack))
      /\ \A r \in RequestContexts : Agree(implicit[r], implicit[r], Len(implicit[r]))
  BY <1>6 DEF Agree
<1>8. CASE c \in AllAppContexts
  <2>1. HoldsApp(ha, hr, hl, n + 1)
    BY <1>1, <1>4, <1>8 DEF Holds
  <2>2. appStack # <<>> /\ Len(appStack) - 1 = ha[n]
    BY <1>5, <1>8, <2>1, <1>3, InnermostOnTop DEF HoldsApp
  <2>3. Len(appStack') = ha[n] /\ Agree(appStack', appStack, ha[n])
    <3>1. appStack' = Front(appStack)
      BY <1>8
    <3> QED
      BY ONLY <1>6, <2>2, <3>1, FrontHeight
  <2>4. Len(reqStack') = hr[n] /\ Agree(reqStack', reqStack, hr[n])
    <3>1. reqStack' = reqStack /\ hr[n] = Len(reqStack)
      BY <1>3, <1>5, <1>8, <2>1 DEF HoldsApp
    <3> QED
      BY ONLY <1>7, <3>1
  <2>5. \A r \in RequestContexts :
           Len(implicit'[r]) = hl[n][r] /\ Agree(implicit'[r], implicit[r], hl[n][r])
    BY <1>3, <1>5, <1>7, <1>8, <2>1 DEF HoldsApp
  <2> QED
    BY <1>1, <1>2, <2>3, <2>4, <2>5, BlockUnnested
<1>9. CASE c \in RequestContexts
  <2>1. HoldsRequest(ha, hr, hl, n + 1)
    BY <1>1, <1>4, <1>9 DEF Holds
  <2>2. /\ reqStack # <<>> /\ Len(reqStack) - 1 = hr[n]
        /\ implicit[c] # <<>> /\ Len(implicit[c]) - 1 = hl[n][c]
    <3>1. reqStack # <<>> /\ implicit[c] # <<>>
      BY <1>9, InnermostOnTop
    <3>2. hr[n + 1] = hr[n] + 1 /\ hl[n + 1][c] = hl[n][c] + 1
      BY <1>1, <1>3, <2>1 DEF HoldsRequest
    <3> QED
      BY ONLY <1>5, <1>9, <3>1, <3>2
  <2>3. Len(reqStack') = hr[n] /\ Agree(reqStack', reqStack, hr[n])
    <3>1. reqStack' = Front(reqStack)
      BY <1>9
    <3> QED
      BY ONLY <1>6, <2>2, <3>1, FrontHeight
  <2>4. ASSUME NEW r \in RequestContexts
        PROVE  Len(implicit'[r]) = hl[n][r] /\ Agree(implicit'[r], implicit[r], hl[n][r])
    <3>1. CASE r = c
      <4>1. implicit'[c] = Front(implicit[c]) /\ implicit[c] \in Seq(ImplicitContexts \cup {NoContext})
        BY <1>6, <1>9
      <4> QED
        BY <4>1, <3>1, <2>2, FrontProperties, FrontAgrees
    <3>2. CASE r # c
      <4>1. implicit'[r] = implicit[r] /\ hl[n + 1][r] = hl[n][r]
        BY <1>1, <1>3, <1>6, <1>9, <2>1, <3>2 DEF HoldsRequest
      <4> QED
        BY <4>1, <1>5, <1>7
    <3> QED
      BY <3>1, <3>2
  <2>5. Len(appStack') = ha[n] /\ Agree(appStack', appStack, ha[n])
    <3>1. implicit[c][hl[n + 1][c]] = Last(implicit[c])
      BY <1>5, <1>9 DEF Last
    <3>2. CASE Last(implicit[c]) = NoContext
      <4>1. ha[n] = Len(appStack)
        BY <1>1, <1>3, <1>5, <2>1, <3>1, <3>2 DEF HoldsRequest
      <4> QED
        BY <4>1, <1>7, <1>9, <3>2
    <3>3. CASE Last(implicit[c]) # NoContext
      <4>1. ha[n] = Len(appStack) - 1 /\ appStack # <<>>
        BY <1>1, <1>3, <1>5, <1>9, <2>1, <3>1, <3>3, InnermostOnTop DEF HoldsRequest
      <4>2. appStack' = Front(appStack)
        BY <1>9, <3>3
      <4> QED
        BY ONLY <4>1, <4>2, <1>6, FrontHeight
    <3> QED
      BY <3>2, <3>3
  <2> QED
    BY <1>1, <1>2, <2>3, <2>4, <2>5, BlockUnnested
<1> QED
  BY <1>1, <1>8, <1>9

-----------------------------------------------------------------------------
(* Every action that does not raise keeps the invariant.                   *)

\* Initially there is no block and nothing has been pushed.
LEMMA InitNestingInv == Init => NestingInv
<1> SUFFICES ASSUME Init PROVE NestingInv
  OBVIOUS
<1>1. ContextsInv
  BY InitContextsInv
<1>2. Len(blocks) = 0 /\ Len(appStack) = 0 /\ Len(reqStack) = 0
      /\ \A r \in RequestContexts : Len(implicit[r]) = 0
  BY DEF Init
<1>3. Nested
  <2> DEFINE zero == [i \in 0 .. 0 |-> 0]
             none == [i \in 0 .. 0 |-> [r \in RequestContexts |-> 0]]
  <2>1. AreHeights(zero, zero, none)
    BY <1>2 DEF AreHeights
  <2>2. \A i \in 1 .. Len(blocks) : Holds(zero, zero, none, i)
    BY <1>2
  <2> QED
    BY <2>1, <2>2 DEF Nested, Describes
<1>4. \A c : Occurrences(c, <<>>) = 0
  <2> TAKE c
  <2>1. <<>> \in Seq(Contexts) /\ DOMAIN <<>> = {}
    OBVIOUS
  <2> QED
    BY <2>1, OccurrencesNat
<1>5. PopsMatch /\ RefcntCountsPushes /\ LevelsCountPushes /\ LiveIsCounted
  BY <1>2, <1>4
  DEF Init, PopsMatch, RefcntCountsPushes, LevelsCountPushes, LiveIsCounted
<1> QED
  BY <1>1, <1>3, <1>5 DEF NestingInv

\* Entering an application context.
LEMMA EnterAppNests ==
  ASSUME NestingInv, NEW a \in AllAppContexts, EnterApp(a)
  PROVE  NestingInv'
<1> USE DEF NestingInv, ContextsInv
<1>1. ContextsInv'
  BY EnterAppInv
<1>2. /\ blocks' = Append(blocks, a) /\ appStack' = Append(appStack, a)
      /\ refcnt' = [refcnt EXCEPT ![a] = @ + 1]
      /\ life' = SetLife({a}, "live")
      /\ reqStack' = reqStack /\ implicit' = implicit /\ wrongPop' = wrongPop
  BY DEF EnterApp
<1>3. /\ appStack \in Seq(AllAppContexts) /\ reqStack \in Seq(RequestContexts)
      /\ implicit \in [RequestContexts -> Seq(ImplicitContexts \cup {NoContext})]
      /\ refcnt \in [AllAppContexts -> Int]
  BY DEF TypeOK
<1>4. Nested'
  <2>1. Agree(appStack', appStack, Len(appStack))
    BY ONLY <1>2, <1>3, AppendAgrees
  <2>2. Len(appStack') = Len(appStack) + 1 /\ appStack'[Len(appStack')] = a
    BY ONLY <1>2, <1>3, AppendOne DEF Last
  <2>3. /\ Agree(reqStack', reqStack, Len(reqStack))
        /\ \A r \in RequestContexts : Agree(implicit'[r], implicit[r], Len(implicit[r]))
    BY <1>2, <1>3 DEF Agree
  <2> QED
    BY <1>1, <1>2, <2>1, <2>2, <2>3, BlockNested
<1>5. RefcntCountsPushes'
  <2>1. \A b : Occurrences(b, appStack') =
                 IF b = a THEN Occurrences(b, appStack) + 1 ELSE Occurrences(b, appStack)
    BY ONLY <1>2, <1>3, OccurrencesAppend
  <2> QED
    BY <1>2, <1>3, <2>1 DEF RefcntCountsPushes
<1>6. LevelsCountPushes' /\ PopsMatch'
  BY <1>2 DEF LevelsCountPushes, PopsMatch
<1>7. LiveIsCounted'
  <2>0. Occurrences(a, appStack) \in Nat
    BY ONLY <1>3, OccurrencesNat
  <2>1. refcnt[a] \in Nat
    BY <2>0 DEF RefcntCountsPushes
  <2> QED
    BY <1>2, <1>3, <2>1 DEF LiveIsCounted, SetLife
<1> QED
  BY <1>1, <1>4, <1>5, <1>6, <1>7

\* What AppContext.pop does while a is on top and its teardown returns.
LEMMA AppPopped ==
  ASSUME NestingInv, NEW a \in AllAppContexts, PopApp(a, FALSE),
         appStack # <<>>, Last(appStack) = a
  PROVE  /\ appStack' = Front(appStack) /\ wrongPop' = wrongPop
         /\ refcnt' = [refcnt EXCEPT ![a] = @ - 1]
         /\ RefcntCountsPushes'
         /\ TornWithApp(a) = IF refcnt'[a] = 0 THEN {a} ELSE {}
<1> USE DEF NestingInv, ContextsInv
<1>1. /\ appStack' = Front(appStack) /\ wrongPop' = wrongPop
      /\ refcnt' = [refcnt EXCEPT ![a] = @ - 1]
  BY DEF PopApp, TopOf, PopTop, TypeOK
<1>2. appStack \in Seq(AllAppContexts) /\ refcnt \in [AllAppContexts -> Int]
  BY DEF TypeOK
<1>3. \A b : Occurrences(b, appStack') =
               IF b = a THEN Occurrences(b, appStack) - 1 ELSE Occurrences(b, appStack)
  BY ONLY <1>1, <1>2, appStack # <<>>, Last(appStack) = a, OccurrencesFront
<1>4. RefcntCountsPushes'
  BY <1>1, <1>2, <1>3 DEF RefcntCountsPushes
<1>5. appStack' \in Seq(AllAppContexts)
  BY <1>1, <1>2, FrontProperties
<1>6. refcnt'[a] \in Nat /\ refcnt'[a] = refcnt[a] - 1
  <2>1. Occurrences(a, appStack') \in Nat
    BY ONLY <1>5, OccurrencesNat
  <2> QED
    BY <1>1, <1>2, <1>4, <2>1 DEF RefcntCountsPushes
<1>7. TornWithApp(a) = IF refcnt'[a] = 0 THEN {a} ELSE {}
  BY <1>2, <1>6 DEF TornWithApp
<1> QED
  BY <1>1, <1>4, <1>7

\* Leaving an application context.
LEMMA ExitAppNests ==
  ASSUME NestingInv, NEW a \in AllAppContexts, ExitApp(a, FALSE)
  PROVE  NestingInv'
<1> USE DEF NestingInv, ContextsInv
<1>1. ContextsInv'
  BY ExitAppInv
<1>2. /\ Innermost(a) /\ PopApp(a, FALSE)
      /\ blocks' = Front(blocks)
      /\ life' = SetLife(TornWithApp(a), "torn")
      /\ reqStack' = reqStack /\ implicit' = implicit
  BY DEF ExitApp
<1>3. appStack # <<>> /\ Last(appStack) = a
  BY <1>2, InnermostOnTop
<1>4. /\ appStack' = Front(appStack) /\ wrongPop' = wrongPop
      /\ refcnt' = [refcnt EXCEPT ![a] = @ - 1]
      /\ RefcntCountsPushes'
      /\ TornWithApp(a) = IF refcnt'[a] = 0 THEN {a} ELSE {}
  BY <1>2, <1>3, AppPopped
<1>5. Nested'
  BY <1>1, <1>2, <1>4, InnermostClosed
<1>6. LevelsCountPushes' /\ PopsMatch'
  BY <1>2, <1>4 DEF LevelsCountPushes, PopsMatch
<1>7. LiveIsCounted'
  <2>1. refcnt \in [AllAppContexts -> Int]
    BY DEF TypeOK
  <2> QED
    BY <1>2, <1>4, <2>1 DEF LiveIsCounted, SetLife
<1> QED
  BY <1>1, <1>4, <1>5, <1>6, <1>7

\* Entering a request: the application context on top is the one it adds, or
\* one of its application.
LEMMA EnterRequestNests ==
  ASSUME NestingInv, NEW r \in RequestContexts, EnterRequest(r)
  PROVE  NestingInv'
<1> USE DEF NestingInv, ContextsInv
<1>1. ContextsInv'
  BY EnterRequestInv
<1>2. PICK a \in ImplicitFor(r) : PushRequest(r, a)
  BY DEF EnterRequest
<1>3. /\ blocks' = Append(blocks, r) /\ wrongPop' = wrongPop
      /\ implicit' = [implicit EXCEPT ![r] = Append(@, a)]
      /\ reqStack' = Append(reqStack, r)
      /\ life' = SetLife({r, a}, "live")
      /\ appStack' = IF a = NoContext THEN appStack ELSE Append(appStack, a)
      /\ refcnt' = IF a = NoContext THEN refcnt ELSE [refcnt EXCEPT ![a] = 1]
  BY <1>2 DEF EnterRequest, PushRequest
<1>4. /\ appStack \in Seq(AllAppContexts) /\ reqStack \in Seq(RequestContexts)
      /\ implicit \in [RequestContexts -> Seq(ImplicitContexts \cup {NoContext})]
      /\ refcnt \in [AllAppContexts -> Int]
  BY DEF TypeOK
<1>5. \/ a = NoContext /\ ~NeedsAppContext(r)
      \/ a \in ImplicitContexts /\ Fresh(a) /\ AppOf[a] = AppOf[r]
  BY DEF ImplicitFor
<1>6. a \in ImplicitContexts \cup {NoContext} /\ (a # NoContext => a \in AllAppContexts)
  BY <1>5
<1>7. /\ implicit[r] \in Seq(ImplicitContexts \cup {NoContext})
      /\ implicit'[r] = Append(implicit[r], a)
      /\ \A q \in RequestContexts : q # r => implicit'[q] = implicit[q]
  BY <1>3, <1>4
<1>8. /\ Len(implicit'[r]) = Len(implicit[r]) + 1 /\ implicit'[r][Len(implicit'[r])] = a
      /\ Agree(implicit'[r], implicit[r], Len(implicit[r]))
  BY ONLY <1>6, <1>7, AppendOne, AppendAgrees DEF Last
<1>9. /\ Len(reqStack') = Len(reqStack) + 1 /\ reqStack'[Len(reqStack')] = r
      /\ Agree(reqStack', reqStack, Len(reqStack))
  BY <1>3, <1>4, AppendOne, AppendAgrees DEF Last
<1>10. a # NoContext =>
         /\ Len(appStack') = Len(appStack) + 1 /\ appStack'[Len(appStack')] = a
         /\ Agree(appStack', appStack, Len(appStack))
  <2> SUFFICES ASSUME a # NoContext
               PROVE  /\ Len(appStack') = Len(appStack) + 1 /\ appStack'[Len(appStack')] = a
                      /\ Agree(appStack', appStack, Len(appStack))
    OBVIOUS
  <2>1. appStack' = Append(appStack, a) /\ a \in AllAppContexts
    BY <1>3, <1>6
  <2> QED
    BY ONLY <2>1, <1>4, AppendOne, AppendAgrees DEF Last
<1>11. Nested'
  <2>1. Agree(appStack', appStack, Len(appStack))
    BY <1>3, <1>4, <1>10 DEF Agree
  <2>2. \A q \in RequestContexts : Agree(implicit'[q], implicit[q], Len(implicit[q]))
    <3>1. \A q \in RequestContexts : q # r => Agree(implicit'[q], implicit[q], Len(implicit[q]))
      BY <1>4, <1>7 DEF Agree
    <3> QED
      BY <1>8, <3>1
  <2>3. Len(appStack') # 0 /\ AppOf[appStack'[Len(appStack')]] = AppOf[r]
    <3>1. CASE a = NoContext
      BY <1>3, <1>4, <1>5, <3>1 DEF NeedsAppContext, Last
    <3>2. CASE a # NoContext
      BY <1>4, <1>5, <1>10, <3>2
    <3> QED
      BY <3>1, <3>2
  <2>4. \/ a = NoContext /\ Len(appStack') = Len(appStack)
        \/ a # NoContext /\ Len(appStack') = Len(appStack) + 1 /\ appStack'[Len(appStack')] = a
    BY <1>3, <1>10
  <2> QED
    BY <1>1, <1>3, <1>7, <1>8, <1>9, <2>1, <2>2, <2>3, <2>4, BlockNested
<1>12. RefcntCountsPushes'
  <2>1. CASE a = NoContext
    BY <1>3, <2>1 DEF RefcntCountsPushes
  <2>2. CASE a # NoContext
    <3>1. \A b : Occurrences(b, appStack') =
                   IF b = a THEN Occurrences(b, appStack) + 1 ELSE Occurrences(b, appStack)
      <4>1. appStack' = Append(appStack, a) /\ a \in AllAppContexts
        BY <1>3, <1>6, <2>2
      <4> QED
        BY ONLY <4>1, <1>4, OccurrencesAppend
    <3>2. Occurrences(a, appStack) = 0
      <4>1. \A i \in DOMAIN appStack : appStack[i] # a
        BY <1>5, <2>2 DEF Fresh
      <4> QED
        BY ONLY <4>1, <1>4, OccurrencesNat
    <3> QED
      BY <1>3, <1>4, <1>6, <2>2, <3>1, <3>2 DEF RefcntCountsPushes
  <2> QED
    BY <2>1, <2>2
<1>13. LevelsCountPushes'
  <2>1. \A q : Occurrences(q, reqStack') =
                 IF q = r THEN Occurrences(q, reqStack) + 1 ELSE Occurrences(q, reqStack)
    BY ONLY <1>3, <1>4, r \in RequestContexts, OccurrencesAppend
  <2> QED
    BY <1>7, <1>8, <2>1 DEF LevelsCountPushes
<1>14. LiveIsCounted'
  <2>1. \A b \in AllAppContexts : life'[b] = "live" => refcnt'[b] # 0
    BY <1>3, <1>4, <1>6 DEF LiveIsCounted, SetLife
  <2>2. \A q \in RequestContexts : life'[q] = "live" => Len(implicit'[q]) # 0
    <3>1. Len(implicit'[r]) # 0
      BY <1>7, <1>8
    <3>2. \A q \in RequestContexts : q # r => life'[q] = life[q]
      BY <1>3, <1>6 DEF SetLife
    <3> QED
      BY <1>7, <3>1, <3>2 DEF LiveIsCounted
  <2> QED
    BY <2>1, <2>2 DEF LiveIsCounted
<1>15. PopsMatch'
  BY <1>3 DEF PopsMatch
<1> QED
  BY <1>1, <1>11, <1>12, <1>13, <1>14, <1>15

\* What leaving a request does to its stack and levels.
LEMMA RequestPopped ==
  ASSUME NestingInv, NEW r \in RequestContexts, Innermost(r),
         reqStack' = PopTop(reqStack), implicit' = [implicit EXCEPT ![r] = Front(@)]
  PROVE  /\ TopOf(reqStack) = r
         /\ reqStack # <<>> /\ Last(reqStack) = r /\ reqStack' = Front(reqStack)
         /\ LevelsCountPushes'
         /\ TornWithRequest(r) = IF Len(implicit'[r]) = 0 THEN {r} ELSE {}
         /\ Len(implicit'[r]) = 0 <=> \A i \in DOMAIN reqStack' : reqStack'[i] # r
<1> USE DEF NestingInv, ContextsInv
<1>1. reqStack # <<>> /\ Last(reqStack) = r /\ implicit[r] # <<>>
  BY InnermostOnTop
<1>2. TopOf(reqStack) = r /\ reqStack' = Front(reqStack)
  BY <1>1 DEF TopOf, PopTop
<1>3. /\ reqStack \in Seq(RequestContexts)
      /\ implicit \in [RequestContexts -> Seq(ImplicitContexts \cup {NoContext})]
  BY DEF TypeOK
<1>4. /\ implicit'[r] = Front(implicit[r])
      /\ implicit[r] \in Seq(ImplicitContexts \cup {NoContext})
      /\ \A q \in RequestContexts : q # r => implicit'[q] = implicit[q]
  BY <1>3
<1>5. /\ Len(implicit'[r]) = Len(implicit[r]) - 1 /\ Len(implicit[r]) \in Nat
      /\ implicit'[r] \in Seq(ImplicitContexts \cup {NoContext})
  BY ONLY <1>1, <1>4, FrontProperties
<1>6. \A q : Occurrences(q, reqStack') =
               IF q = r THEN Occurrences(q, reqStack) - 1 ELSE Occurrences(q, reqStack)
  BY ONLY <1>1, <1>2, <1>3, OccurrencesFront
<1>7. LevelsCountPushes'
  BY <1>4, <1>5, <1>6 DEF LevelsCountPushes
<1>8. TornWithRequest(r) = IF Len(implicit'[r]) = 0 THEN {r} ELSE {}
  <2>1. Front(implicit[r]) = <<>> <=> Len(implicit'[r]) = 0
    BY <1>4, <1>5
  <2> QED
    BY <2>1 DEF TornWithRequest
<1>9. Len(implicit'[r]) = 0 <=> \A i \in DOMAIN reqStack' : reqStack'[i] # r
  <2>1. reqStack' \in Seq(RequestContexts)
    BY ONLY <1>1, <1>2, <1>3, FrontProperties
  <2>2. Occurrences(r, reqStack') = 0 <=> \A i \in DOMAIN reqStack' : reqStack'[i] # r
    BY ONLY <2>1, OccurrencesNat
  <2>3. Len(implicit'[r]) = Occurrences(r, reqStack')
    BY <1>7 DEF LevelsCountPushes
  <2> QED
    BY <2>2, <2>3
<1> QED
  BY <1>1, <1>2, <1>7, <1>8, <1>9

\* Leaving a request: its application context goes with it.
LEMMA ExitRequestNests ==
  ASSUME NestingInv, NEW r \in RequestContexts, ExitRequest(r, FALSE)
  PROVE  NestingInv'
<1> USE DEF NestingInv, ContextsInv
<1>1. ContextsInv'
  BY ExitRequestInv
<1>2. PICK a : a = Last(implicit[r])
  OBVIOUS
<1>3. /\ Innermost(r)
      /\ blocks' = Front(blocks)
      /\ implicit' = [implicit EXCEPT ![r] = Front(@)]
      /\ reqStack' = PopTop(reqStack)
  BY DEF ExitRequest
<1>4. /\ TopOf(reqStack) = r /\ reqStack' = Front(reqStack)
      /\ LevelsCountPushes'
      /\ TornWithRequest(r) = IF Len(implicit'[r]) = 0 THEN {r} ELSE {}
  BY <1>3, RequestPopped
<1>5. /\ life' = SetLife(TornWithRequest(r)
                           \cup (IF a # NoContext THEN TornWithApp(a) ELSE {}), "torn")
      /\ a # NoContext => PopApp(a, FALSE)
      /\ a = NoContext => appStack' = appStack /\ refcnt' = refcnt /\ wrongPop' = wrongPop
  BY <1>2, <1>4 DEF ExitRequest, TypeOK
<1>6. a # NoContext => a \in AllAppContexts /\ appStack # <<>> /\ Last(appStack) = a
  <2>1. LevelTaken(r, a)
    BY <1>2, <1>3, LevelPopped
  <2> QED
    BY <1>2, <1>3, <2>1, InnermostOnTop DEF LevelTaken
<1>7. a # NoContext =>
        /\ appStack' = Front(appStack) /\ wrongPop' = wrongPop
        /\ refcnt' = [refcnt EXCEPT ![a] = @ - 1]
        /\ RefcntCountsPushes'
        /\ TornWithApp(a) = IF refcnt'[a] = 0 THEN {a} ELSE {}
  BY <1>5, <1>6, AppPopped
<1>8. Nested'
  <2>1. appStack' = IF Last(implicit[r]) = NoContext THEN appStack ELSE Front(appStack)
    BY <1>2, <1>5, <1>7
  <2>2. r \in AllAppContexts =>
          appStack' = Front(appStack) /\ reqStack' = reqStack /\ implicit' = implicit
    OBVIOUS
  <2>3. TypeOK'
    BY <1>1
  <2>4. NestingInv
    OBVIOUS
  <2>5. Innermost(r) /\ blocks' = Front(blocks) /\ reqStack' = Front(reqStack)
        /\ implicit' = [implicit EXCEPT ![r] = Front(@)]
    BY <1>3, <1>4
  <2> HIDE DEF NestingInv, ContextsInv, TypeOK
  <2> QED
    BY ONLY <2>1, <2>2, <2>3, <2>4, <2>5, InnermostClosed
<1>9. RefcntCountsPushes' /\ PopsMatch'
  <2>1. RefcntCountsPushes'
    BY <1>5, <1>7 DEF RefcntCountsPushes
  <2> QED
    BY <1>5, <1>7, <2>1 DEF PopsMatch
<1>10. LiveIsCounted'
  <2>1. /\ refcnt \in [AllAppContexts -> Int]
        /\ implicit \in [RequestContexts -> Seq(ImplicitContexts \cup {NoContext})]
    BY DEF TypeOK
  <2>2. \A b \in AllAppContexts : life'[b] = "live" => refcnt'[b] # 0
    BY <1>4, <1>5, <1>6, <1>7, <2>1 DEF LiveIsCounted, SetLife
  <2>3. \A q \in RequestContexts : life'[q] = "live" => Len(implicit'[q]) # 0
    BY <1>3, <1>4, <1>5, <1>6, <1>7, <2>1 DEF LiveIsCounted, SetLife
  <2> QED
    BY <2>2, <2>3 DEF LiveIsCounted
<1> QED
  BY <1>1, <1>4, <1>8, <1>9, <1>10

\* Notifications and stuttering leave stacks, counts and levels alone.
LEMMA NotifyNests ==
  ASSUME NestingInv, (\E n \in Notes : Notify(n)) \/ UNCHANGED vars
  PROVE  NestingInv'
<1> USE DEF NestingInv
<1>1. ContextsInv'
  BY NotifyInv
<1>2. UNCHANGED <<appStack, reqStack, refcnt, implicit, blocks, life, wrongPop>>
  BY DEF Notify, vars
<1>3. Nested'
  <2>1. PICK ha, hr, hl : Describes(ha, hr, hl)
    BY DEF Nested
  <2>2. AreHeights(ha, hr, hl)'
    BY ONLY <1>2, <2>1 DEF Describes, AreHeights
  <2>3. \A i \in 1 .. Len(blocks) : Holds(ha, hr, hl, i)'
    BY ONLY <1>2, <2>1 DEF Describes, Holds, HoldsApp, HoldsRequest
  <2>4. Describes(ha, hr, hl)'
    BY ONLY <1>2, <2>2, <2>3 DEF Describes
  <2> QED
    BY ONLY <2>4 DEF Nested
<1> QED
  BY <1>1, <1>2, <1>3
  DEF PopsMatch, RefcntCountsPushes, LevelsCountPushes, LiveIsCounted

\* NestingInv is an invariant while nothing raises.
LEMMA NextNests ==
  ASSUME Failures = {}, NestingInv, [Next]_vars
  PROVE  NestingInv'
<1>1. \A kind : ~MayFail(kind)
  BY DEF MayFail
<1>2. ASSUME NEW a \in AllAppContexts, NEW raises \in BOOLEAN, ExitApp(a, raises)
      PROVE  ExitApp(a, FALSE)
  BY <1>1, <1>2 DEF ExitApp, PopApp
<1>3. ASSUME NEW r \in RequestContexts, NEW raises \in BOOLEAN, ExitRequest(r, raises)
      PROVE  ExitRequest(r, FALSE)
  BY <1>1, <1>3 DEF ExitRequest, PopApp
<1>4. ASSUME NEW r \in RequestContexts
      PROVE  ~EnterRequestFails(r) /\ ~ExitRequestFails(r)
  BY <1>1 DEF EnterRequestFails, ExitRequestFails
<1> QED
  BY <1>2, <1>3, <1>4, EnterAppNests, ExitAppNests, EnterRequestNests, ExitRequestNests,
     NotifyNests
  DEF Next

LEMMA NestingInvAlways ==
  ASSUME Failures = {}
  PROVE  Spec => []NestingInv
BY InitNestingInv, NextNests, PTL DEF Spec

-----------------------------------------------------------------------------
\* While nothing raises, neither of the "Popped wrong ... context" assertions fails,
\* however contexts and requests of several applications are nested and re-entered.
THEOREM PopsAlwaysMatch ==
  ASSUME Failures = {}
  PROVE  Spec => []PopsMatch
<1>1. NestingInv => PopsMatch
  BY DEF NestingInv
<1> QED
  BY <1>1, NestingInvAlways, PTL

\* While nothing raises, _refcnt of every application context, the implicit ones
\* too, is the number of its places on the stack.
THEOREM CountsArePushes ==
  ASSUME Failures = {}
  PROVE  Spec => []RefcntCountsPushes
<1>1. NestingInv => RefcntCountsPushes
  BY DEF NestingInv
<1> QED
  BY <1>1, NestingInvAlways, PTL

\* While nothing raises, the request and current_app proxies resolve to the
\* innermost request and its application.
THEOREM ProxiesAreOwn ==
  ASSUME Failures = {}
  PROVE  Spec => []ProxiesServeInnermost
<1>1. NestingInv => ProxiesServeInnermost
  BY InnermostOnTop DEF ProxiesServeInnermost, TopOf
<1> QED
  BY <1>1, NestingInvAlways, PTL

\* While no block is open, nothing is stacked, levelled, counted or alive.
LEMMA NestingLeavesNothing == NestingInv => NothingLeftBehind
<1> SUFFICES ASSUME NestingInv, blocks = <<>>
             PROVE  /\ appStack = <<>> /\ reqStack = <<>>
                    /\ \A r \in RequestContexts : implicit[r] = <<>>
                    /\ \A c \in Contexts : life[c] # "live"
  BY DEF NothingLeftBehind
<1> USE DEF NestingInv, ContextsInv
<1>1. Len(blocks) = 0
  OBVIOUS
<1>2. PICK ha, hr, hl : AreHeights(ha, hr, hl)
  BY DEF Nested, Describes
<1>3. /\ Len(appStack) = 0 /\ Len(reqStack) = 0
      /\ \A r \in RequestContexts : Len(implicit[r]) = 0
  BY <1>1, <1>2 DEF AreHeights
<1>4. appStack = <<>> /\ reqStack = <<>> /\ \A r \in RequestContexts : implicit[r] = <<>>
  BY <1>3 DEF TypeOK
<1>5. \A a \in AllAppContexts : refcnt[a] = 0
  <2>1. appStack \in Seq(AllAppContexts) /\ \A i \in DOMAIN appStack : FALSE
    BY <1>4
  <2>2. \A a : Occurrences(a, appStack) = 0
    BY ONLY <2>1, OccurrencesNat
  <2> QED
    BY <2>2 DEF RefcntCountsPushes
<1>6. \A c \in Contexts : life[c] # "live"
  BY <1>3, <1>5 DEF LiveIsCounted
<1> QED
  BY <1>4, <1>6

\* While nothing raises, leaving the outermost block leaves nothing bound to the
\* thread and nothing that has not been torn down.
THEOREM EverythingIsLeft ==
  ASSUME Failures = {}
  PROVE  Spec => []NothingLeftBehind
BY NestingLeavesNothing, NestingInvAlways, PTL

-----------------------------------------------------------------------------
(* The refinement.                                                         *)

Alive == {r \in RequestContexts : life[r] = "live"}

\* Entering a request opens its scope.
LEMMA EnterOpensScope ==
  ASSUME NestingInv, NEW r \in RequestContexts, EnterRequest(r)
  PROVE  Scopes!Enter(r)
<1> USE DEF NestingInv, ContextsInv
<1>1. PICK a \in ImplicitFor(r) : PushRequest(r, a)
  BY DEF EnterRequest
<1>2. a \notin RequestContexts
  BY DEF ImplicitFor
<1>3. reqStack' = Append(reqStack, r) /\ life' = SetLife({r, a}, "live")
  BY <1>1 DEF PushRequest
<1>4. Alive' = Alive \cup {r}
  BY <1>2, <1>3 DEF Alive, SetLife
<1> QED
  BY <1>3, <1>4 DEF Scopes!Enter, Alive

\* Leaving a request closes its scope, and tears it down with the last one.
LEMMA ExitClosesScope ==
  ASSUME NestingInv, NEW r \in RequestContexts, ExitRequest(r, FALSE)
  PROVE  Scopes!Leave
<1> USE DEF NestingInv, ContextsInv
<1>1. /\ Innermost(r)
      /\ implicit' = [implicit EXCEPT ![r] = Front(@)]
      /\ reqStack' = PopTop(reqStack)
  BY DEF ExitRequest
<1>2. /\ TopOf(reqStack) = r
      /\ reqStack # <<>> /\ Last(reqStack) = r /\ reqStack' = Front(reqStack)
      /\ TornWithRequest(r) = IF Len(implicit'[r]) = 0 THEN {r} ELSE {}
      /\ Len(implicit'[r]) = 0 <=> \A i \in DOMAIN reqStack' : reqStack'[i] # r
  BY <1>1, RequestPopped
<1>3. PICK a : a = Last(implicit[r]) /\ a \in ImplicitContexts \cup {NoContext}
  BY <1>1, LevelPopped DEF LevelTaken
<1>4. PICK torn \in SUBSET {a} : life' = SetLife(TornWithRequest(r) \cup torn, "torn")
  BY <1>2, <1>3 DEF ExitRequest, TornWithApp
<1>5. a \notin RequestContexts
  BY <1>3
<1>6. Alive' = IF \E i \in DOMAIN reqStack' : reqStack'[i] = r THEN Alive ELSE Alive \ {r}
  BY <1>2, <1>4, <1>5 DEF Alive, SetLife
<1>7. Alive' = IF \E i \in DOMAIN reqStack' : reqStack'[i] = Last(reqStack)
               THEN Alive ELSE Alive \ {Last(reqStack)}
  BY <1>2, <1>6
<1>8. {q \in RequestContexts : life'[q] = "live"} =
        IF \E i \in DOMAIN reqStack' : reqStack'[i] = Last(reqStack)
        THEN {q \in RequestContexts : life[q] = "live"}
        ELSE {q \in RequestContexts : life[q] = "live"} \ {Last(reqStack)}
  BY ONLY <1>7 DEF Alive
<1> QED
  BY ONLY <1>2, <1>8 DEF Scopes!Leave, Scopes!Front, Scopes!Last, Front, Last

\* Nothing else changes the requests that are stacked or alive.
LEMMA OthersLeaveScopes ==
  ASSUME NestingInv,
         \/ \E a \in AllAppContexts : EnterApp(a) \/ ExitApp(a, FALSE)
         \/ \E n \in Notes : Notify(n)
         \/ UNCHANGED vars
  PROVE  UNCHANGED Scopes!vars
<1>1. reqStack' = reqStack /\ \A r \in RequestContexts : life'[r] = life[r]
  BY DEF EnterApp, ExitApp, TornWithApp, Notify, vars, SetLife
<1>2. Alive' = Alive
  BY <1>1 DEF Alive
<1> QED
  BY <1>1, <1>2 DEF Scopes!vars, Alive

\* While nothing raises, ctx.py implements RequestScope: application contexts,
\* counts and levels are nothing but the bookkeeping of nested scopes.
THEOREM ContextsImplementScopes ==
  ASSUME Failures = {}
  PROVE  Spec => RequestsNest
<1>1. Init => Scopes!Init
  BY DEF Init, Scopes!Init
<1>2. NestingInv /\ [Next]_vars => [Scopes!Next]_Scopes!vars
  <2> SUFFICES ASSUME NestingInv, [Next]_vars PROVE Scopes!Next \/ UNCHANGED Scopes!vars
    OBVIOUS
  <2>1. \A kind : ~MayFail(kind)
    BY DEF MayFail
  <2>2. ASSUME NEW a \in AllAppContexts, NEW raises \in BOOLEAN, ExitApp(a, raises)
        PROVE  ExitApp(a, FALSE)
    BY <2>1, <2>2 DEF ExitApp, PopApp
  <2>3. ASSUME NEW r \in RequestContexts, NEW raises \in BOOLEAN, ExitRequest(r, raises)
        PROVE  ExitRequest(r, FALSE)
    BY <2>1, <2>3 DEF ExitRequest, PopApp
  <2>4. ASSUME NEW r \in RequestContexts
        PROVE  ~EnterRequestFails(r) /\ ~ExitRequestFails(r)
    BY <2>1 DEF EnterRequestFails, ExitRequestFails
  <2> QED
    BY <2>2, <2>3, <2>4, EnterOpensScope, ExitClosesScope, OthersLeaveScopes
    DEF Next, Scopes!Next
<1> QED
  BY <1>1, <1>2, NestingInvAlways, PTL DEF Spec, RequestsNest, Scopes!Spec
=============================================================================
