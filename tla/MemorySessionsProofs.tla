------------------------ MODULE MemorySessionsProofs ------------------------
(***************************************************************************)
(* Proofs about MemorySessions, for every number of threads, senders and   *)
(* session objects, every time to live and every bound on the clock.       *)
(*                                                                         *)
(* DeleteFindsItsKey is not inductive.  What makes it true is the lock: a  *)
(* thread that is inside cleanup owns it, the keys of its snapshot are all *)
(* still stored because only the owner deletes, and no key is listed       *)
(* twice, so the key just condemned is not among those still to come.      *)
(*                                                                         *)
(* With one thread nothing comes between the steps of a request: what has  *)
(* been condemned has expired, and the session a request works on stays    *)
(* the one found in the store.                                             *)
(*                                                                         *)
(* The last part shows that cleanup uses up a supply of work which others  *)
(* do not add to.                                                          *)
(***************************************************************************)
EXTENDS MemorySessions, FunctionTheorems, FiniteSetTheorems, TLAPS

InCleanup(t) == pc[t] \in ScanLocations \cup DeleteLocations

\* A thread inside cleanup owns the lock.
OwnerInside == \A t \in Threads : InCleanup(t) => lock = t

\* A thread that handles a request knows its sender, and, from the view to the
\* saving, its session.
RequestAttributes ==
  \A t \in Threads :
    /\ pc[t] # "idle" => jid[t] \in Jids
    /\ pc[t] \in {"view", "save"} => held[t] \in Sessions

\* The keys the owner has still to look at are stored, and listed once.
SnapshotStored ==
  \A t \in Threads : InCleanup(t) =>
    /\ \A i \in todo[t] : storage[i.key] # None
    /\ \A i, k \in todo[t] : i.key = k.key => i = k

\* The condemned key is stored, and is not met again.
VictimStored ==
  \A t \in Threads : pc[t] \in DeleteLocations =>
    /\ victim[t] \in Keys
    /\ storage[victim[t]] # None
    /\ \A i \in todo[t] : i.key # victim[t]

CleanupInv ==
  /\ TypeOK
  /\ OwnerInside
  /\ RequestAttributes
  /\ SnapshotStored
  /\ VictimStored

USE DEF Keys, Locations, ScanLocations, DeleteLocations, Attributes, Item, InCleanup,
        store, threadVars

LEMMA InitCleanupInv == Init => CleanupInv
BY NoneIsNothing DEF Init, CleanupInv, TypeOK, OwnerInside, RequestAttributes,
                     SnapshotStored, VictimStored

\* Every step of the specification keeps the invariant.
LEMMA NextCleanupInv == CleanupInv /\ [Next]_vars => CleanupInv'
<1> SUFFICES ASSUME CleanupInv, [Next]_vars PROVE CleanupInv'
  OBVIOUS
<1> USE NoneIsNothing, TimesAreNatural
        DEF CleanupInv, TypeOK, OwnerInside, RequestAttributes, SnapshotStored,
            VictimStored, Goto
<1>1. CASE Tick
  BY <1>1 DEF Tick
<1>2. ASSUME NEW t \in Threads, BeginCleanup(t) PROVE CleanupInv'
  BY <1>2 DEF BeginCleanup, StoredItems
<1>3. ASSUME NEW t \in Threads, KeepItem(t) PROVE CleanupInv'
  BY <1>3 DEF KeepItem
<1>4. ASSUME NEW t \in Threads, CondemnItem(t) PROVE CleanupInv'
  BY <1>4 DEF CondemnItem
<1>5. ASSUME NEW t \in Threads, DeleteItem(t) PROVE CleanupInv'
  <2> USE <1>5 DEF DeleteItem
  <2>1. \A u \in Threads : InCleanup(u) => u = t
    OBVIOUS
  <2>2. TypeOK'
    OBVIOUS
  <2>3. OwnerInside' /\ RequestAttributes'
    OBVIOUS
  <2>4. SnapshotStored' /\ VictimStored'
    BY <2>1
  <2> QED
    BY <2>2, <2>3, <2>4
<1>6. ASSUME NEW t \in Threads, EndCleanup(t) PROVE CleanupInv'
  <2> USE <1>6 DEF EndCleanup
  <2>1. TypeOK'
    OBVIOUS
  <2>2. OwnerInside' /\ RequestAttributes'
    OBVIOUS
  <2>3. SnapshotStored' /\ VictimStored'
    OBVIOUS
  <2> QED
    BY <2>1, <2>2, <2>3
<1>7. ASSUME NEW t \in Threads, NEW j \in Jids, Begin(t, j) PROVE CleanupInv'
  BY <1>7 DEF Begin
<1>8. ASSUME NEW t \in Threads, OpenSession(t) PROVE CleanupInv'
  <2> USE <1>8 DEF OpenSession
  <2>1. TypeOK'
    <3>1. pc' \in [Threads -> Locations] /\ sweptAt' \in [Threads -> Nat]
      OBVIOUS
    <3>2. held' \in [Threads -> Sessions \cup {None}]
      OBVIOUS
    <3>3. session' \in [Sessions -> Attributes]
      <4>1. jid[t] \in Jids /\ clock \in Nat
        OBVIOUS
      <4>2. [jid |-> jid[t], timestamp |-> clock, permanent |-> FALSE] \in Attributes
        BY <4>1
      <4>3. \/ session' = session
            \/ \E s \in Sessions : session' = [session EXCEPT ![s] =
                 [jid |-> jid[t], timestamp |-> clock, permanent |-> FALSE]]
        BY <1>8
      <4> QED
        BY <4>2, <4>3
    <3> QED
      BY <3>1, <3>2, <3>3
  <2>2. OwnerInside' /\ SnapshotStored' /\ VictimStored'
    OBVIOUS
  <2>3. RequestAttributes'
    OBVIOUS
  <2> QED
    BY <2>1, <2>2, <2>3
<1>9. ASSUME NEW t \in Threads, NEW perm \in BOOLEAN, Modify(t, perm)
      PROVE  CleanupInv'
  BY <1>9 DEF Modify
<1>10. ASSUME NEW t \in Threads, Return(t) \/ Raise(t) PROVE CleanupInv'
  <2>1. CASE Return(t)
    BY <2>1 DEF Return
  <2>2. CASE Raise(t)
    BY <2>2 DEF Raise
  <2> QED
    BY <1>10, <2>1, <2>2
<1>11. ASSUME NEW t \in Threads, SaveSession(t) PROVE CleanupInv'
  <2> USE <1>11 DEF SaveSession
  <2>1. \A j \in Jids : storage[j] # None => storage'[j] # None
    OBVIOUS
  <2>2. TypeOK'
    OBVIOUS
  <2>3. OwnerInside' /\ RequestAttributes'
    OBVIOUS
  <2>4. SnapshotStored' /\ VictimStored'
    BY <2>1
  <2> QED
    BY <2>2, <2>3, <2>4
<1>12. ASSUME NEW t \in Threads, Clear(t) PROVE CleanupInv'
  BY <1>12 DEF Clear
<1>13. CASE UNCHANGED vars
  BY <1>13 DEF vars
<1> HIDE DEF CleanupInv
<1> QED
  BY <1>1, <1>2, <1>3, <1>4, <1>5, <1>6, <1>7, <1>8, <1>9, <1>10, <1>11, <1>12, <1>13
  DEF Next, Cleanup, Request

\* CleanupInv is an invariant.
LEMMA CleanupInvAlways == Spec => []CleanupInv
BY InitCleanupInv, NextCleanupInv, PTL DEF Spec

\* For every instance: the store, the session objects and what each thread
\* knows of its request keep their types through all interleavings; a key that
\* is deleted and a session that is modified exist.
THEOREM TypeCorrect == Spec => []TypeOK
<1>1. CleanupInv => TypeOK
  BY DEF CleanupInv
<1> QED
  BY <1>1, CleanupInvAlways, PTL

\* For every number of threads: the del statement of cleanup never raises
\* KeyError, though other threads store sessions without the lock.
THEOREM DeleteIsSafe == Spec => []DeleteFindsItsKey
<1>1. CleanupInv => DeleteFindsItsKey
  BY DEF CleanupInv, VictimStored, DeleteFindsItsKey
<1> QED
  BY <1>1, CleanupInvAlways, PTL

-----------------------------------------------------------------------------
\* Every step keeps sessions under the JID they were created for.  A new
\* session is an object nothing refers to, and saving stores a session under
\* the JID it carries, or under None when it has been cleared.
LEMMA NextStoredUnderOwnJid ==
  CleanupInv /\ StoredUnderOwnJid /\ [Next]_vars => StoredUnderOwnJid'
<1> SUFFICES ASSUME CleanupInv, StoredUnderOwnJid, [Next]_vars
             PROVE  StoredUnderOwnJid'
  OBVIOUS
<1> USE NoneIsNothing
        DEF CleanupInv, TypeOK, RequestAttributes, StoredUnderOwnJid, Goto
<1>1. CASE Tick
  BY <1>1 DEF Tick
<1>2. ASSUME NEW t \in Threads, BeginCleanup(t) \/ KeepItem(t) \/ CondemnItem(t)
      PROVE  StoredUnderOwnJid'
  BY <1>2 DEF BeginCleanup, KeepItem, CondemnItem
<1>3. ASSUME NEW t \in Threads, DeleteItem(t) PROVE StoredUnderOwnJid'
  BY <1>3 DEF DeleteItem, VictimStored
<1>4. ASSUME NEW t \in Threads, EndCleanup(t) PROVE StoredUnderOwnJid'
  BY <1>4 DEF EndCleanup
<1>5. ASSUME NEW t \in Threads, NEW j \in Jids, Begin(t, j) PROVE StoredUnderOwnJid'
  BY <1>5 DEF Begin
<1>6. ASSUME NEW t \in Threads, OpenSession(t) PROVE StoredUnderOwnJid'
  <2> USE <1>6 DEF OpenSession
  <2>1. CASE session' = session
    BY <2>1
  <2>2. CASE \E s \in Sessions :
               /\ Garbage(s)
               /\ held' = [held EXCEPT ![t] = s]
               /\ session' = [session EXCEPT ![s] =
                    [jid |-> jid[t], timestamp |-> clock, permanent |-> FALSE]]
    BY <2>2 DEF Garbage
  <2> QED
    BY <2>1, <2>2
<1>7. ASSUME NEW t \in Threads, NEW perm \in BOOLEAN, Modify(t, perm)
      PROVE  StoredUnderOwnJid'
  BY <1>7 DEF Modify
<1>8. ASSUME NEW t \in Threads, Return(t) \/ Raise(t) PROVE StoredUnderOwnJid'
  BY <1>8 DEF Return, Raise
<1>9. ASSUME NEW t \in Threads, SaveSession(t) PROVE StoredUnderOwnJid'
  BY <1>9 DEF SaveSession
<1>10. ASSUME NEW t \in Threads, Clear(t) PROVE StoredUnderOwnJid'
  BY <1>10 DEF Clear
<1>11. CASE UNCHANGED vars
  BY <1>11 DEF vars
<1> QED
  BY <1>1, <1>2, <1>3, <1>4, <1>5, <1>6, <1>7, <1>8, <1>9, <1>10, <1>11
  DEF Next, Cleanup, Request

\* For every number of threads: no sender is ever given a session that was
\* created for another one.
THEOREM SessionsAreOwn == Spec => []StoredUnderOwnJid
<1>1. Init => StoredUnderOwnJid
  BY DEF Init, StoredUnderOwnJid
<1> QED
  BY <1>1, CleanupInvAlways, NextStoredUnderOwnJid, PTL DEF Spec

-----------------------------------------------------------------------------
(* One thread.  The race that breaks LiveSessionNotDeleted needs a second   *)
(* one: alone, what cleanup has found in its snapshot is what is stored.    *)

SnapshotCurrent ==
  \A t \in Threads : InCleanup(t) => \A i \in todo[t] : storage[i.key] = i.session

VictimExpired ==
  \A t \in Threads : pc[t] \in DeleteLocations => ExpiredAt(storage[victim[t]], clock)

OwnSessionStored ==
  \A t \in Threads : pc[t] \in {"view", "save"} => storage[jid[t]] \in {None, held[t]}

LifespanInv ==
  /\ CleanupInv /\ StoredUnderOwnJid
  /\ SnapshotCurrent /\ VictimExpired /\ OwnSessionStored

\* Every step of a single thread keeps LifespanInv.
LEMMA NextLifespanInv ==
  ASSUME \A t, u \in Threads : t = u, LifespanInv, [Next]_vars
  PROVE  LifespanInv'
<1>1. CleanupInv' /\ StoredUnderOwnJid'
  BY NextCleanupInv, NextStoredUnderOwnJid DEF LifespanInv
<1> USE NoneIsNothing, TimesAreNatural
        DEF LifespanInv, CleanupInv, TypeOK, RequestAttributes, VictimStored,
            SnapshotStored, SnapshotCurrent, VictimExpired, OwnSessionStored,
            ExpiredAt, Goto
<1> DEFINE Rest == SnapshotCurrent /\ VictimExpired /\ OwnSessionStored
<1>2. ASSUME Tick PROVE Rest'
  BY <1>2 DEF Tick
<1>3. ASSUME NEW t \in Threads, BeginCleanup(t) PROVE Rest'
  BY <1>3 DEF BeginCleanup, StoredItems
<1>4. ASSUME NEW t \in Threads, KeepItem(t) PROVE Rest'
  BY <1>4 DEF KeepItem
<1>5. ASSUME NEW t \in Threads, CondemnItem(t) PROVE Rest'
  BY <1>5 DEF CondemnItem
<1>6. ASSUME NEW t \in Threads, DeleteItem(t) PROVE Rest'
  BY <1>6 DEF DeleteItem
<1>7. ASSUME NEW t \in Threads, EndCleanup(t) PROVE Rest'
  BY <1>7 DEF EndCleanup
<1>8. ASSUME NEW t \in Threads, NEW j \in Jids, Begin(t, j) PROVE Rest'
  BY <1>8 DEF Begin
<1>9. ASSUME NEW t \in Threads, OpenSession(t) PROVE Rest'
  BY <1>9 DEF OpenSession
<1>10. ASSUME NEW t \in Threads, NEW perm \in BOOLEAN, Modify(t, perm) PROVE Rest'
  BY <1>10 DEF Modify
<1>11. ASSUME NEW t \in Threads, Return(t) \/ Raise(t) PROVE Rest'
  BY <1>11 DEF Return, Raise
<1>12. ASSUME NEW t \in Threads, SaveSession(t) PROVE Rest'
  BY <1>12 DEF SaveSession, StoredUnderOwnJid
<1>13. ASSUME NEW t \in Threads, Clear(t) PROVE Rest'
  BY <1>13 DEF Clear
<1>14. ASSUME UNCHANGED vars PROVE Rest'
  BY <1>14 DEF vars
<1> QED
  BY <1>1, <1>2, <1>3, <1>4, <1>5, <1>6, <1>7, <1>8, <1>9, <1>10, <1>11, <1>12, <1>13,
     <1>14
  DEF Next, Cleanup, Request

\* The test of is_session_expired is the lifespan that the properties speak of.
LEMMA ExpiredIsPast ==
  ASSUME TypeOK, NEW s \in Sessions, NEW time \in Nat
  PROVE  ExpiredAt(s, time) <=> PastLifespan(s, time)
<1>1. session[s].timestamp \in Nat /\ SessionTTL \in Nat
  BY TimesAreNatural DEF TypeOK
<1> QED
  BY <1>1 DEF ExpiredAt, PastLifespan

\* For every instance with one thread: a stored session is replaced or deleted
\* only when it is past its lifespan, whatever the view does with it.
THEOREM LifespanKept ==
  ASSUME \A t, u \in Threads : t = u
  PROVE  Spec => SessionKeptForLifespan
<1> DEFINE Kept ==
  \A j \in Jids : storage[j] # None /\ storage'[j] # storage[j]
    => storage'[j] = None /\ PastLifespan(storage[j], clock)
<1>1. Init => LifespanInv
  BY InitCleanupInv, NoneIsNothing
  DEF Init, LifespanInv, StoredUnderOwnJid, SnapshotCurrent, VictimExpired,
      OwnSessionStored
<1>2. LifespanInv /\ [Next]_vars => LifespanInv'
  BY NextLifespanInv
<1>3. LifespanInv /\ [Next]_vars => [Kept]_vars
  <2> SUFFICES ASSUME LifespanInv, Next PROVE Kept
    OBVIOUS
  <2>1. CASE storage' = storage
    BY <2>1
  <2>2. ASSUME NEW t \in Threads, DeleteItem(t) PROVE Kept
    <3> USE <2>2 DEF LifespanInv, CleanupInv, TypeOK, VictimStored
    <3>1. /\ storage' = [storage EXCEPT ![victim[t]] = None]
          /\ pc[t] \in DeleteLocations
      BY DEF DeleteItem, Goto
    <3>2. storage[victim[t]] \in Sessions /\ ExpiredAt(storage[victim[t]], clock)
      BY <3>1 DEF VictimExpired
    <3>3. PastLifespan(storage[victim[t]], clock)
      BY <3>2, ExpiredIsPast
    <3> QED
      BY ONLY <3>1, <3>3, \A j \in Jids : j \in Keys, storage \in [Keys -> Sessions \cup {None}]
  <2>3. ASSUME NEW t \in Threads, SaveSession(t) PROVE Kept
    <3> USE DEF LifespanInv, CleanupInv, TypeOK
    <3>1. /\ jid[t] \in Jids /\ held[t] \in Sessions
          /\ session[held[t]].jid \in {jid[t], None}
          /\ storage[jid[t]] \in {None, held[t]}
      BY <2>3 DEF StoredUnderOwnJid, RequestAttributes, OwnSessionStored, SaveSession, Goto
    <3>2. storage' = [storage EXCEPT ![session[held[t]].jid] = held[t]]
      BY <2>3 DEF SaveSession
    <3>3. \A j \in Jids : storage'[j] = storage[j] \/ (j = jid[t] /\ storage'[j] = held[t])
      BY <3>1, <3>2, NoneIsNothing
    <3> QED
      BY <3>1, <3>3
  <2> QED
    BY <2>1, <2>2, <2>3
    DEF Next, Cleanup, Request, Tick, BeginCleanup, KeepItem, CondemnItem, EndCleanup,
        Begin, OpenSession, Modify, Clear, Return, Raise
<1> QED
  BY <1>1, <1>2, <1>3, PTL DEF Spec, SessionKeptForLifespan

-----------------------------------------------------------------------------
(* One thread: what a request finds.                                       *)

Sweeping(t) == pc[t] \in {"openScan", "openDelete"}

\* The sweep of open_session began in the past.
SweepBegan == \A t \in Threads : Sweeping(t) => sweptAt[t] <= clock

\* What is stored and had expired when the sweep began, the loop has still to look at,
\* or is about to delete.
SweepProgress ==
  \A t \in Threads, k \in Keys : Sweeping(t) /\ storage[k] # None =>
    \/ \E i \in todo[t] : i.key = k
    \/ pc[t] = "openDelete" /\ victim[t] = k
    \/ ~ExpiredAt(storage[k], sweptAt[t])

NothingExpiredFound ==
  \A t \in Threads, k \in Keys :
    pc[t] = "get" /\ storage[k] # None => ~ExpiredAt(storage[k], sweptAt[t])

ServedInv ==
  /\ LifespanInv /\ SweepBegan /\ SweepProgress
  /\ NothingExpiredFound /\ SavedSessionIsFound

\* A session that the loop keeps had not expired when the sweep began.
LEMMA KeptEarlier ==
  ASSUME TypeOK, NEW s \in Sessions, NEW t \in Threads, sweptAt[t] <= clock,
         ~ExpiredAt(s, clock)
  PROVE  ~ExpiredAt(s, sweptAt[t])
<1>1. /\ session[s].timestamp \in Nat /\ sweptAt[t] \in Nat /\ clock \in Nat
      /\ SessionTTL \in Nat
  BY TimesAreNatural DEF TypeOK
<1> QED
  BY <1>1 DEF ExpiredAt

\* Every step of a single thread keeps what the sweep of open_session has reached.
LEMMA NextSweep ==
  ASSUME \A t, u \in Threads : t = u, ServedInv, [Next]_vars
  PROVE  SweepBegan' /\ SweepProgress' /\ NothingExpiredFound'
<1> DEFINE Swept == SweepBegan /\ SweepProgress /\ NothingExpiredFound
<1> USE DEF Sweeping, Goto
<1>1. TypeOK /\ LifespanInv
  BY DEF ServedInv, LifespanInv, CleanupInv
<1> USE DEF TypeOK, SweepBegan, SweepProgress, NothingExpiredFound
<1>2. CASE Tick
  BY <1>1, <1>2 DEF Tick, ServedInv, ExpiredAt
<1>3. ASSUME NEW t \in Threads, BeginCleanup(t) PROVE Swept'
  <2>1. \A u \in Threads : u = t
    OBVIOUS
  <2>2. /\ todo'[t] = StoredItems /\ UNCHANGED <<storage, session, clock>>
        /\ pc'[t] = "openScan" => sweptAt'[t] = clock
        /\ pc'[t] \in {"openScan", "saveScan"}
    BY <1>1, <1>3 DEF BeginCleanup
  <2>3. \A k \in Keys : storage[k] # None => \E i \in StoredItems : i.key = k
    <3> SUFFICES ASSUME NEW k \in Keys, storage[k] # None
                 PROVE  \E i \in StoredItems : i.key = k
      OBVIOUS
    <3> DEFINE item == [key |-> k, session |-> storage[k]]
    <3>1. item \in StoredItems /\ item.key = k
      BY <1>1 DEF StoredItems
    <3> QED
      BY <3>1
  <2> QED
    BY <1>1, <2>1, <2>2, <2>3
<1>4. ASSUME NEW t \in Threads, KeepItem(t) PROVE Swept'
  <2>1. PICK i \in todo[t] : /\ ~ExpiredAt(i.session, clock)
                             /\ todo' = [todo EXCEPT ![t] = @ \ {i}]
    BY <1>4 DEF KeepItem
  <2>2. /\ UNCHANGED <<storage, session, clock, pc, victim, sweptAt>>
        /\ pc[t] \in ScanLocations
    BY <1>4 DEF KeepItem
  <2>3. i \in Item /\ storage[i.key] = i.session
    BY <1>1, <2>2 DEF LifespanInv, SnapshotCurrent
  <2>4. Sweeping(t) => ~ExpiredAt(storage[i.key], sweptAt[t])
    BY <1>1, <2>1, <2>3, KeptEarlier DEF ServedInv
  <2>5. \A u \in Threads : u = t
    OBVIOUS
  <2>6. todo'[t] = todo[t] \ {i}
    BY <1>1, <2>1
  <2> QED
    BY <1>1, <2>2, <2>3, <2>4, <2>5, <2>6 DEF ServedInv, ExpiredAt
<1>5. ASSUME NEW t \in Threads, CondemnItem(t) PROVE Swept'
  <2>1. PICK i \in todo[t] : /\ todo' = [todo EXCEPT ![t] = @ \ {i}]
                             /\ victim' = [victim EXCEPT ![t] = i.key]
    BY <1>5 DEF CondemnItem
  <2>2. /\ UNCHANGED <<storage, session, clock, sweptAt>>
        /\ todo'[t] = todo[t] \ {i} /\ victim'[t] = i.key
        /\ \/ pc[t] = "openScan" /\ pc'[t] = "openDelete"
           \/ pc[t] = "saveScan" /\ pc'[t] = "saveDelete"
    BY <1>1, <1>5, <2>1 DEF CondemnItem
  <2>3. \A u \in Threads : u = t
    OBVIOUS
  <2> QED
    BY <2>2, <2>3 DEF ServedInv, ExpiredAt
<1>6. ASSUME NEW t \in Threads, DeleteItem(t) PROVE Swept'
  <2>1. /\ UNCHANGED <<session, clock, todo, sweptAt>>
        /\ storage'[victim[t]] = None
        /\ \A k \in Keys : k # victim[t] => storage'[k] = storage[k]
        /\ \/ pc[t] = "openDelete" /\ pc'[t] = "openScan"
           \/ pc[t] = "saveDelete" /\ pc'[t] = "saveScan"
    BY <1>1, <1>6 DEF DeleteItem
  <2>2. \A u \in Threads : u = t
    OBVIOUS
  <2> QED
    BY <2>1, <2>2 DEF ServedInv, ExpiredAt
<1>7. ASSUME NEW t \in Threads, EndCleanup(t) PROVE Swept'
  <2>1. /\ UNCHANGED <<storage, session, clock, sweptAt>> /\ todo[t] = {}
        /\ \/ pc[t] = "openScan" /\ pc'[t] = "get"
           \/ pc'[t] = "idle"
    BY <1>1, <1>7 DEF EndCleanup
  <2>2. \A u \in Threads : u = t
    OBVIOUS
  <2> QED
    BY <2>1, <2>2 DEF ServedInv, ExpiredAt
<1>8. ASSUME NEW t \in Threads,
             \/ (\E j \in Jids : Begin(t, j)) \/ OpenSession(t) \/ Return(t) \/ Raise(t)
             \/ SaveSession(t) \/ Clear(t) \/ \E perm \in BOOLEAN : Modify(t, perm)
      PROVE  Swept'
  <2>1. pc'[t] \in {"open", "view", "save", "clean", "idle"}
    BY <1>1, <1>8
    DEF Begin, OpenSession, Return, Raise, SaveSession, Clear, Modify
  <2>2. \A u \in Threads : u = t
    OBVIOUS
  <2> QED
    BY <2>1, <2>2
<1>9. CASE UNCHANGED vars
  BY <1>9 DEF vars, ServedInv, ExpiredAt
<1> QED
  BY <1>2, <1>3, <1>4, <1>5, <1>6, <1>7, <1>8, <1>9 DEF Next, Cleanup, Request

\* Every step of a single thread leaves a saved session where the next request looks.
LEMMA NextSaved ==
  ASSUME \A t, u \in Threads : t = u, ServedInv, [Next]_vars
  PROVE  SavedSessionIsFound'
<1> USE NoneIsNothing DEF TypeOK, SavedSessionIsFound, Goto
<1>1. TypeOK /\ LifespanInv /\ SavedSessionIsFound
  BY DEF ServedInv, LifespanInv, CleanupInv
<1>2. ASSUME NEW t \in Threads, SaveSession(t) PROVE SavedSessionIsFound'
  <2>1. /\ jid[t] \in Jids /\ held[t] \in Sessions
        /\ session[held[t]].jid \in {jid[t], None}
        /\ storage[jid[t]] \in {None, held[t]}
    BY <1>1, <1>2 DEF LifespanInv, CleanupInv, RequestAttributes, StoredUnderOwnJid,
                      OwnSessionStored, SaveSession
  <2>2. /\ storage' = [storage EXCEPT ![session[held[t]].jid] = held[t]]
        /\ UNCHANGED <<session, jid, held>>
    BY <1>2 DEF SaveSession
  <2>3. \/ storage'[jid[t]] = held[t]
        \/ session[held[t]].jid = None /\ storage'[jid[t]] = None
    BY <1>1, <2>1, <2>2
  <2>4. \/ storage'[jid'[t]] = held'[t]
        \/ session'[held'[t]].jid = None /\ storage'[jid'[t]] = None
    BY ONLY <2>2, <2>3
  <2> QED
    BY ONLY <2>4, \A u \in Threads : u = t DEF SavedSessionIsFound
<1>3. ASSUME NEW t \in Threads, pc'[t] # "clean" PROVE SavedSessionIsFound'
  BY <1>3
<1>4. ASSUME UNCHANGED <<storage, session, jid, held, pc>> PROVE SavedSessionIsFound'
  BY <1>1, <1>4
<1>5. ASSUME NEW t \in Threads, Cleanup(t) PROVE SavedSessionIsFound'
  <2>1. pc'[t] # "clean"
    BY <1>1, <1>5
    DEF Cleanup, BeginCleanup, KeepItem, CondemnItem, DeleteItem, EndCleanup
  <2> QED
    BY <1>3, <2>1
<1>6. ASSUME NEW t \in Threads,
             \/ (\E j \in Jids : Begin(t, j)) \/ OpenSession(t) \/ Return(t) \/ Raise(t)
             \/ Clear(t) \/ \E perm \in BOOLEAN : Modify(t, perm)
      PROVE  SavedSessionIsFound'
  <2>1. pc'[t] # "clean"
    BY <1>1, <1>6 DEF Begin, OpenSession, Return, Raise, Clear, Modify
  <2> QED
    BY <1>3, <2>1
<1> QED
  BY <1>2, <1>4, <1>5, <1>6 DEF Next, Request, Tick, vars

LEMMA ServedAlways ==
  ASSUME \A t, u \in Threads : t = u
  PROVE  Spec => []ServedInv
<1>1. Init => ServedInv
  BY InitCleanupInv, NoneIsNothing
  DEF Init, ServedInv, LifespanInv, StoredUnderOwnJid, SnapshotCurrent, VictimExpired,
      OwnSessionStored, SweepBegan, SweepProgress, Sweeping, NothingExpiredFound,
      SavedSessionIsFound
<1>2. ServedInv /\ [Next]_vars => ServedInv'
  BY NextLifespanInv, NextSweep, NextSaved DEF ServedInv
<1> QED
  BY <1>1, <1>2, PTL DEF Spec

\* For every instance with one thread: after the cleanup in open_session no stored
\* session was past its lifespan when the cleanup began, so no request is served one.
THEOREM NothingExpiredIsServed ==
  ASSUME \A t, u \in Threads : t = u
  PROVE  Spec => []SweepLeavesNothingExpired
<1>1. ServedInv => SweepLeavesNothingExpired
  <2> SUFFICES ASSUME ServedInv, NEW t \in Threads, NEW k \in Keys,
                      pc[t] = "get", storage[k] # None
               PROVE  ~PastLifespan(storage[k], sweptAt[t])
    BY DEF SweepLeavesNothingExpired
  <2>1. TypeOK /\ ~ExpiredAt(storage[k], sweptAt[t])
    BY DEF ServedInv, LifespanInv, CleanupInv, NothingExpiredFound
  <2>2. storage[k] \in Sessions /\ sweptAt[t] \in Nat
    BY <2>1 DEF TypeOK
  <2> QED
    BY <2>1, <2>2, ExpiredIsPast
<1> QED
  BY <1>1, ServedAlways, PTL

\* For every instance with one thread: the session a request has saved is the one the
\* sender's next request finds, unless the view has cleared a new one.
THEOREM SavedIsFound ==
  ASSUME \A t, u \in Threads : t = u
  PROVE  Spec => []SavedSessionIsFound
<1>1. ServedInv => SavedSessionIsFound
  BY DEF ServedInv
<1> QED
  BY <1>1, ServedAlways, PTL

-----------------------------------------------------------------------------
(* Cleanup ends.  LockIsReleased itself is left to the runs; what makes it *)
(* true is proved: the owner of the lock is inside cleanup, its steps use  *)
(* up a supply of work that the keys bound, and nobody else adds to it.    *)

LockMeansInside == \A t \in Threads : lock = t => InCleanup(t)

\* Two steps for each item of the snapshot, to condemn it and to delete it.
Work(t) == 2 * Cardinality(todo[t]) + (IF pc[t] \in DeleteLocations THEN 1 ELSE 0)

WorkIsBounded == \A t \in Threads : lock = t => Work(t) \in 0 .. 2 * Cardinality(Keys)

WorkIsDone ==
  [][\A t \in Threads : lock = t /\ lock' = t =>
       IF Cleanup(t) THEN Work(t)' < Work(t) ELSE Work(t)' = Work(t)]_vars

LEMMA NextLockMeansInside ==
  CleanupInv /\ LockMeansInside /\ [Next]_vars => LockMeansInside'
<1> SUFFICES ASSUME CleanupInv, LockMeansInside, [Next]_vars,
                    NEW t \in Threads, lock' = t
             PROVE  InCleanup(t)'
  BY DEF LockMeansInside
<1> USE NoneIsNothing DEF CleanupInv, TypeOK, LockMeansInside, OwnerInside, Goto
<1>1. ASSUME NEW u \in Threads, Cleanup(u) PROVE InCleanup(t)'
  <2>1. CASE BeginCleanup(u)
    BY <2>1 DEF BeginCleanup
  <2>2. CASE KeepItem(u)
    BY <2>2 DEF KeepItem
  <2>3. CASE CondemnItem(u)
    BY <2>3 DEF CondemnItem
  <2>4. CASE DeleteItem(u)
    BY <2>4 DEF DeleteItem
  <2>5. CASE EndCleanup(u)
    BY <2>5 DEF EndCleanup
  <2> QED
    BY <1>1, <2>1, <2>2, <2>3, <2>4, <2>5 DEF Cleanup
<1>2. ASSUME NEW u \in Threads, Request(u) PROVE InCleanup(t)'
  <2>1. lock' = lock /\ (u # t => pc'[t] = pc[t]) /\ ~InCleanup(u)
    BY <1>2 DEF Request, Begin, OpenSession, Modify, Clear, Return, Raise, SaveSession
  <2> QED
    BY <2>1
<1>3. CASE Tick \/ UNCHANGED vars
  BY <1>3 DEF Tick, vars
<1> QED
  BY <1>1, <1>2, <1>3 DEF Next

\* The items of a snapshot have different keys.
LEMMA SnapshotIsSmall ==
  ASSUME IsFiniteSet(Jids), CleanupInv, NEW t \in Threads, InCleanup(t)
  PROVE  /\ IsFiniteSet(todo[t])
         /\ Work(t) \in 0 .. 2 * Cardinality(Keys)
<1>1. IsFiniteSet(Keys) /\ Cardinality(Keys) \in Nat
  BY FS_AddElement, FS_CardinalityType
<1>2. PICK left : left = IF pc[t] \in DeleteLocations THEN Keys \ {victim[t]} ELSE Keys
  OBVIOUS
<1>3. /\ IsFiniteSet(left)
      /\ Cardinality(left) = Cardinality(Keys)
                               - (IF pc[t] \in DeleteLocations THEN 1 ELSE 0)
  <2>1. pc[t] \in DeleteLocations => victim[t] \in Keys
    BY DEF CleanupInv, VictimStored
  <2> QED
    BY ONLY <1>1, <1>2, <2>1, FS_RemoveElement
<1>4. PICK key : key = [i \in todo[t] |-> i.key]
  OBVIOUS
<1>5. key \in Injection(todo[t], left)
  <2>1. /\ \A i \in todo[t] : i.key \in Keys
        /\ \A i, k \in todo[t] : i.key = k.key => i = k
        /\ pc[t] \in DeleteLocations => \A i \in todo[t] : i.key # victim[t]
    BY DEF CleanupInv, TypeOK, SnapshotStored, VictimStored
  <2>2. key \in [todo[t] -> left]
    BY ONLY <1>2, <1>4, <2>1
  <2> QED
    BY ONLY <1>4, <2>1, <2>2 DEF Injection, IsInjective
<1>6. IsFiniteSet(todo[t]) /\ Cardinality(todo[t]) <= Cardinality(left)
  BY ONLY <1>3, <1>5, FS_Injection
<1>7. Cardinality(todo[t]) \in Nat
  BY <1>6, FS_CardinalityType
<1> QED
  BY <1>1, <1>3, <1>6, <1>7 DEF Work

\* What the steps of the owner and of the others do to its work.
LEMMA StepsDoWork ==
  ASSUME IsFiniteSet(Jids), CleanupInv, LockMeansInside, [Next]_vars,
         NEW t \in Threads, lock = t, lock' = t
  PROVE  IF Cleanup(t) THEN Work(t)' < Work(t) ELSE Work(t)' = Work(t)
<1>1. IsFiniteSet(todo[t]) /\ InCleanup(t)
  BY SnapshotIsSmall DEF LockMeansInside
<1>2. \A i \in todo[t] : Cardinality(todo[t] \ {i}) = Cardinality(todo[t]) - 1
  BY <1>1, FS_RemoveElement
<1>3. Cardinality(todo[t]) \in Nat
  BY <1>1, FS_CardinalityType
<1>4. pc \in [Threads -> Locations] /\ todo \in [Threads -> SUBSET Item]
  BY DEF CleanupInv, TypeOK
<1>5. ASSUME Cleanup(t) PROVE Work(t)' < Work(t)
  <2>1. ~BeginCleanup(t) /\ ~EndCleanup(t)
    BY NoneIsNothing DEF BeginCleanup, EndCleanup
  <2>2. CASE KeepItem(t)
    <3>1. PICK i \in todo[t] : todo' = [todo EXCEPT ![t] = @ \ {i}]
      BY <2>2 DEF KeepItem
    <3>2. todo'[t] = todo[t] \ {i} /\ pc' = pc
      BY <1>4, <2>2, <3>1 DEF KeepItem
    <3>3. Cardinality(todo'[t]) = Cardinality(todo[t]) - 1
      BY ONLY <1>2, <3>1, <3>2
    <3> QED
      BY <1>3, <3>2, <3>3 DEF Work
  <2>3. CASE CondemnItem(t)
    <3>1. PICK i \in todo[t] : todo' = [todo EXCEPT ![t] = @ \ {i}]
      BY <2>3 DEF CondemnItem
    <3>2. /\ todo'[t] = todo[t] \ {i}
          /\ pc[t] \notin DeleteLocations /\ pc'[t] \in DeleteLocations
      BY <1>4, <2>3, <3>1 DEF CondemnItem, Goto
    <3>3. Cardinality(todo'[t]) = Cardinality(todo[t]) - 1
      BY ONLY <1>2, <3>1, <3>2
    <3> QED
      BY <1>3, <3>2, <3>3 DEF Work
  <2>4. CASE DeleteItem(t)
    <3>1. /\ todo'[t] = todo[t]
          /\ pc[t] \in DeleteLocations /\ pc'[t] \notin DeleteLocations
      BY <1>4, <2>4 DEF DeleteItem, Goto
    <3> QED
      BY <1>3, <3>1 DEF Work
  <2> QED
    BY <1>5, <2>1, <2>2, <2>3, <2>4 DEF Cleanup
<1>6. ASSUME ~Cleanup(t) PROVE Work(t)' = Work(t)
  <2>1. CASE Tick \/ UNCHANGED vars
    BY <2>1 DEF Tick, vars, Work
  <2>2. ASSUME NEW u \in Threads, Cleanup(u) PROVE Work(t)' = Work(t)
    <3>1. u # t /\ lock # u
      BY <1>6, <2>2
    <3>2. ~InCleanup(u) /\ lock # None
      BY <3>1, NoneIsNothing DEF CleanupInv, OwnerInside
    <3> QED
      BY <2>2, <3>2 DEF Cleanup, BeginCleanup, KeepItem, CondemnItem, DeleteItem,
                        EndCleanup, Goto
  <2>3. ASSUME NEW u \in Threads, Request(u) PROVE Work(t)' = Work(t)
    <3>1. todo' = todo /\ (u # t => pc'[t] = pc[t]) /\ ~InCleanup(u)
      BY <1>4, <2>3 DEF Request, Begin, OpenSession, Modify, Clear, Return, Raise,
                        SaveSession, Goto
    <3> QED
      BY <1>1, <3>1 DEF Work
  <2> QED
    BY <1>6, <2>1, <2>2, <2>3 DEF Next
<1> QED
  BY <1>5, <1>6

\* For every number of threads, finitely many senders, and any number of session
\* objects: whoever holds the lock is inside cleanup and has at most two steps left for
\* each key, each of its steps takes one off, and no other thread, storing or modifying
\* sessions meanwhile, adds any.  So the lock is given back.
THEOREM CleanupGetsDone ==
  ASSUME IsFiniteSet(Jids)
  PROVE  Spec => []LockMeansInside /\ []WorkIsBounded /\ WorkIsDone
<1>1. Init => LockMeansInside
  BY NoneIsNothing DEF Init, LockMeansInside
<1>2. Spec => [](CleanupInv /\ LockMeansInside)
  BY <1>1, InitCleanupInv, NextCleanupInv, NextLockMeansInside, PTL DEF Spec
<1>3. CleanupInv /\ LockMeansInside => WorkIsBounded
  BY SnapshotIsSmall DEF LockMeansInside, WorkIsBounded
<1>4. CleanupInv /\ LockMeansInside /\ [Next]_vars
        => [\A t \in Threads : lock = t /\ lock' = t =>
              IF Cleanup(t) THEN Work(t)' < Work(t) ELSE Work(t)' = Work(t)]_vars
  BY StepsDoWork
<1> QED
  BY <1>2, <1>3, <1>4, PTL DEF Spec, WorkIsDone
=============================================================================
