--------------------------- MODULE MemorySessions ---------------------------
(***************************************************************************)
(* The in-memory session store of xmppflask/sessions/memory.py, used by    *)
(* threads that each handle one request after another: open_session, the   *)
(* view, save_session.  Storing, looking up and deleting one key are       *)
(* single steps (the interpreter's dict operations); the lock is held only *)
(* inside cleanup.  Session objects are shared: the object in the storage  *)
(* is the one the view modifies.                                           *)
(***************************************************************************)
EXTENDS Integers, FiniteSets

CONSTANTS
  Threads,     \* threads that handle requests of the one application
  Jids,        \* senders
  Sessions,    \* session objects (MemorySession instances)
  None,        \* no session, no thread, no JID: Python's None
  SessionTTL,  \* app.session_ttl
  MaxClock     \* bound: time.time() stops there

ASSUME NoneIsNothing == None \notin Threads \cup Jids \cup Sessions
ASSUME TimesAreNatural == SessionTTL \in Nat /\ MaxClock \in Nat

VARIABLES
  storage,    \* the session stored under each key, None where there is none
  session,    \* the attributes of each session object
  lock,       \* owner of _lock
  clock,      \* time.time()
  pc,         \* where each thread is
  jid,        \* the sender of the request each thread handles
  held,       \* the session the request context of each thread refers to
  todo,       \* items of the snapshot cleanup has still to look at
  victim,     \* the key cleanup is about to delete
  sweptAt     \* history: when the cleanup of open_session took its snapshot

store == <<storage, session, clock>>
threadVars == <<pc, jid, held, todo, victim, sweptAt>>
vars == <<storage, session, lock, clock, pc, jid, held, todo, victim, sweptAt>>

Locations ==
  {"idle", "open", "openScan", "openDelete", "get", "view",
   "save", "clean", "saveScan", "saveDelete"}
ScanLocations == {"openScan", "saveScan"}
DeleteLocations == {"openDelete", "saveDelete"}

\* A view that clears its session takes the JID out of it too, so None may
\* become a key.
Keys == Jids \cup {None}

Attributes == [jid : Keys, timestamp : Nat, permanent : BOOLEAN]
Item == [key : Keys, session : Sessions]

TypeOK ==
  /\ storage \in [Keys -> Sessions \cup {None}]
  /\ session \in [Sessions -> Attributes]
  /\ lock \in Threads \cup {None}
  /\ clock \in Nat
  /\ pc \in [Threads -> Locations]
  /\ jid \in [Threads -> Keys]
  /\ held \in [Threads -> Sessions \cup {None}]
  /\ todo \in [Threads -> SUBSET Item]
  /\ victim \in [Threads -> Keys]
  /\ sweptAt \in [Threads -> Nat]

Init ==
  /\ storage = [k \in Keys |-> None]
  /\ session = [s \in Sessions |->
                  [jid |-> None, timestamp |-> 0, permanent |-> FALSE]]
  /\ lock = None
  /\ clock = 0
  /\ pc = [t \in Threads |-> "idle"]
  /\ jid = [t \in Threads |-> None]
  /\ held = [t \in Threads |-> None]
  /\ todo = [t \in Threads |-> {}]
  /\ victim = [t \in Threads |-> None]
  /\ sweptAt = [t \in Threads |-> 0]

Goto(t, from, to) == pc[t] = from /\ pc' = [pc EXCEPT ![t] = to]

Tick ==
  /\ clock < MaxClock
  /\ clock' = clock + 1
  /\ UNCHANGED <<storage, session, lock, threadVars>>

-----------------------------------------------------------------------------
(* cleanup, called first in open_session and last in save_session.         *)

\* Mutation of ExpiredAt: a session expires one unit of time too early.
ExpiredAtOnce(s, time) ==
  /\ ~session[s].permanent
  /\ session[s].timestamp + SessionTTL <= time

\* is_session_expired
ExpiredAt(s, time) ==
  /\ ~session[s].permanent
  /\ session[s].timestamp + SessionTTL < time

StoredItems == {i \in Item : storage[i.key] = i.session}

\* Mutation of BeginCleanup: the lock is not taken.
BeginCleanupUnlocked(t) ==
  /\ \/ Goto(t, "open", "openScan")
     \/ Goto(t, "clean", "saveScan")
  /\ lock' = t
  /\ todo' = [todo EXCEPT ![t] = StoredItems]
  /\ sweptAt' = [sweptAt EXCEPT ![t] = IF pc[t] = "open" THEN clock ELSE 0]
  /\ UNCHANGED <<store, jid, held, victim>>

\* with self._lock: ... self.storage.items()
BeginCleanup(t) ==
  /\ lock = None
  /\ \/ Goto(t, "open", "openScan")
     \/ Goto(t, "clean", "saveScan")
  /\ lock' = t
  /\ todo' = [todo EXCEPT ![t] = StoredItems]
  /\ sweptAt' = [sweptAt EXCEPT ![t] = IF pc[t] = "open" THEN clock ELSE 0]
  /\ UNCHANGED <<store, jid, held, victim>>

\* Mutation of KeepItem: the loop runs over the storage and not over a snapshot.
KeepItemAndRestart(t) ==
  /\ pc[t] \in ScanLocations
  /\ \E i \in todo[t] :
       /\ ~ExpiredAt(i.session, clock)
       /\ todo' = [todo EXCEPT ![t] = StoredItems]
  /\ UNCHANGED <<store, lock, pc, jid, held, victim, sweptAt>>

\* The loop looks at one item of the snapshot and keeps the session...
KeepItem(t) ==
  /\ pc[t] \in ScanLocations
  /\ \E i \in todo[t] :
       /\ ~ExpiredAt(i.session, clock)
       /\ todo' = [todo EXCEPT ![t] = @ \ {i}]
  /\ UNCHANGED <<store, lock, pc, jid, held, victim, sweptAt>>

\* Mutation of CondemnItem: key and value of the item are taken for each other.
CondemnSession(t) ==
  /\ \/ Goto(t, "openScan", "openDelete")
     \/ Goto(t, "saveScan", "saveDelete")
  /\ \E i \in todo[t] :
       /\ ExpiredAt(i.session, clock)
       /\ todo' = [todo EXCEPT ![t] = @ \ {i}]
       /\ victim' = [victim EXCEPT ![t] = i.session]
  /\ UNCHANGED <<store, lock, jid, held, sweptAt>>

\* ... or finds that it has expired.
CondemnItem(t) ==
  /\ \/ Goto(t, "openScan", "openDelete")
     \/ Goto(t, "saveScan", "saveDelete")
  /\ \E i \in todo[t] :
       /\ ExpiredAt(i.session, clock)
       /\ todo' = [todo EXCEPT ![t] = @ \ {i}]
       /\ victim' = [victim EXCEPT ![t] = i.key]
  /\ UNCHANGED <<store, lock, jid, held, sweptAt>>

\* Mutation of DeleteItem: the loop ends with the first deletion.
DeleteOneItem(t) ==
  /\ \/ Goto(t, "openDelete", "openScan")
     \/ Goto(t, "saveDelete", "saveScan")
  /\ storage' = [storage EXCEPT ![victim[t]] = None]
  /\ victim' = [victim EXCEPT ![t] = None]
  /\ todo' = [todo EXCEPT ![t] = {}]
  /\ UNCHANGED <<session, clock, lock, jid, held, sweptAt>>

\* del self.storage[key]
DeleteItem(t) ==
  /\ \/ Goto(t, "openDelete", "openScan")
     \/ Goto(t, "saveDelete", "saveScan")
  /\ storage' = [storage EXCEPT ![victim[t]] = None]
  /\ victim' = [victim EXCEPT ![t] = None]
  /\ UNCHANGED <<session, clock, lock, jid, held, todo, sweptAt>>

\* The end of the with block.
EndCleanup(t) ==
  /\ todo[t] = {}
  /\ \/ /\ Goto(t, "openScan", "get")
        /\ UNCHANGED <<jid, held>>
     \/ /\ Goto(t, "saveScan", "idle")
        /\ jid' = [jid EXCEPT ![t] = None]
        /\ held' = [held EXCEPT ![t] = None]
  /\ lock' = None
  /\ UNCHANGED <<store, todo, victim, sweptAt>>

-----------------------------------------------------------------------------
(* A request.                                                              *)

\* A stanza of j arrives: RequestContext.push calls open_session.
Begin(t, j) ==
  /\ Goto(t, "idle", "open")
  /\ jid' = [jid EXCEPT ![t] = j]
  /\ UNCHANGED <<store, lock, held, todo, victim, sweptAt>>

\* No reference to the object: a new session may be created there.
Garbage(s) ==
  /\ \A k \in Keys : storage[k] # s
  /\ \A t \in Threads : held[t] # s /\ \A i \in todo[t] : i.session # s

\* Mutation of OpenSession: a stored session is not looked up.
OpenNewSession(t) ==
  /\ Goto(t, "get", "view")
  /\ \E s \in Sessions :
       /\ Garbage(s)
       /\ held' = [held EXCEPT ![t] = s]
       /\ session' = [session EXCEPT ![s] =
            [jid |-> jid[t], timestamp |-> clock, permanent |-> FALSE]]
  /\ sweptAt' = [sweptAt EXCEPT ![t] = 0]
  /\ UNCHANGED <<storage, clock, lock, jid, todo, victim>>

\* Mutation of OpenSession: a session object that is in use is used again.
OpenSharedSession(t) ==
  /\ Goto(t, "get", "view")
  /\ \/ /\ storage[jid[t]] # None
        /\ held' = [held EXCEPT ![t] = storage[jid[t]]]
        /\ UNCHANGED session
     \/ /\ storage[jid[t]] = None
        /\ \E s \in Sessions :
             /\ held' = [held EXCEPT ![t] = s]
             /\ session' = [session EXCEPT ![s] =
                  [jid |-> jid[t], timestamp |-> clock, permanent |-> FALSE]]
  /\ sweptAt' = [sweptAt EXCEPT ![t] = 0]
  /\ UNCHANGED <<storage, clock, lock, jid, todo, victim>>

\* self.storage.get(jid), and a new session when that is None: assigning its
\* jid is its first modification, so it has a timestamp from the start.
OpenSession(t) ==
  /\ Goto(t, "get", "view")
  /\ \/ /\ storage[jid[t]] # None
        /\ held' = [held EXCEPT ![t] = storage[jid[t]]]
        /\ UNCHANGED session
     \/ /\ storage[jid[t]] = None
        /\ \E s \in Sessions :
             /\ Garbage(s)
             /\ held' = [held EXCEPT ![t] = s]
             /\ session' = [session EXCEPT ![s] =
                  [jid |-> jid[t], timestamp |-> clock, permanent |-> FALSE]]
  /\ sweptAt' = [sweptAt EXCEPT ![t] = 0]
  /\ UNCHANGED <<storage, clock, lock, jid, todo, victim>>

\* The view modifies the session: on_update takes the time.  The flag is one
\* of the values it may set.
Modify(t, perm) ==
  /\ pc[t] = "view"
  /\ session' = [session EXCEPT ![held[t]].timestamp = clock,
                                ![held[t]].permanent = perm]
  /\ UNCHANGED <<storage, clock, lock, threadVars>>

\* session.clear(): its JID is one of the entries that go.
Clear(t) ==
  /\ pc[t] = "view"
  /\ session' = [session EXCEPT ![held[t]] =
       [jid |-> None, timestamp |-> clock, permanent |-> FALSE]]
  /\ UNCHANGED <<storage, clock, lock, threadVars>>

\* The view returns: process_response calls save_session.
Return(t) ==
  /\ Goto(t, "view", "save")
  /\ UNCHANGED <<store, lock, jid, held, todo, victim, sweptAt>>

\* The view raises and debug is on: nothing is saved.  The same when open_session
\* cannot create an object; bound: that is when all of Sessions are in use.
Raise(t) ==
  /\ \/ Goto(t, "view", "idle")
     \/ /\ Goto(t, "get", "idle")
        /\ storage[jid[t]] = None
        /\ \A s \in Sessions : ~Garbage(s)
  /\ jid' = [jid EXCEPT ![t] = None]
  /\ held' = [held EXCEPT ![t] = None]
  /\ sweptAt' = [sweptAt EXCEPT ![t] = 0]
  /\ UNCHANGED <<store, lock, todo, victim>>

\* self.storage[session.jid] = session, without the lock.
SaveSession(t) ==
  /\ Goto(t, "save", "clean")
  /\ storage' = [storage EXCEPT ![session[held[t]].jid] = held[t]]
  /\ UNCHANGED <<session, clock, lock, jid, held, todo, victim, sweptAt>>

-----------------------------------------------------------------------------
Cleanup(t) ==
  BeginCleanup(t) \/ KeepItem(t) \/ CondemnItem(t) \/ DeleteItem(t) \/ EndCleanup(t)

Request(t) ==
  \/ \E j \in Jids : Begin(t, j)
  \/ OpenSession(t)
  \/ \E perm \in BOOLEAN : Modify(t, perm)
  \/ Clear(t)
  \/ Return(t) \/ Raise(t)
  \/ SaveSession(t)

Next == Tick \/ \E t \in Threads : Cleanup(t) \/ Request(t)

\* A thread inside cleanup is not suspended forever: nothing in the loop waits.
Fairness == \A t \in Threads : WF_vars(lock = t /\ Cleanup(t))

Spec == Init /\ [][Next]_vars /\ Fairness

-----------------------------------------------------------------------------
(* Properties.                                                             *)

\* What an application sets with session_ttl: a session that is not permanent may be
\* forgotten when its last modification is longer ago than that, and not before.
PastLifespan(s, time) ==
  ~session[s].permanent /\ time - session[s].timestamp > SessionTTL

\* The del in cleanup never meets a missing key: only cleanup deletes, and the
\* lock lets one snapshot be worked off at a time.
DeleteFindsItsKey ==
  \A t \in Threads : pc[t] \in DeleteLocations => storage[victim[t]] # None

\* A session is found under the JID it was created for, or has lost that JID
\* to clear(): no sender is ever given another sender's session, although threads
\* store without the lock, delete keys others are about to look up, and save
\* session objects that others have cleared.
StoredUnderOwnJid ==
  /\ \A j \in Jids : storage[j] # None => session[storage[j]].jid \in {j, None}
  /\ \A t \in Threads :
       pc[t] \in {"view", "save"} => session[held[t]].jid \in {jid[t], None}

\* cleanup always ends and gives the lock back, whatever other threads store
\* meanwhile: the loop runs over a snapshot.
LockIsReleased == \A t \in Threads : lock = t ~> lock # t

\* With one thread: right after the cleanup in open_session no stored session
\* was past its lifespan when the cleanup began, so none of them can be served.
SweepLeavesNothingExpired ==
  \A t \in Threads, k \in Keys :
    pc[t] = "get" /\ storage[k] # None => ~PastLifespan(storage[k], sweptAt[t])

\* A session leaves the storage only when it is past its lifespan at that moment.
\* One thread keeps this; with two, a view may modify the session, or a request
\* store another one, between cleanup's check and its del.
LiveSessionNotDeleted ==
  [][\A j \in Jids :
       storage[j] # None /\ storage'[j] = None => PastLifespan(storage[j], clock)]_vars

\* With one thread: what a sender has stored stays reachable for its lifespan;
\* it is neither deleted before nor replaced by another session object
\* ("Session should keep stored values for whole his lifespan").
SessionKeptForLifespan ==
  [][\A j \in Jids :
       storage[j] # None /\ storage'[j] # storage[j]
         => storage'[j] = None /\ PastLifespan(storage[j], clock)]_vars

\* With one thread: when a request has saved its session, the sender's next request
\* finds it.  A new session that the view has cleared is not found, its key is gone with
\* its entries; one that was stored before is, for the storage has the same object.
SavedSessionIsFound ==
  \A t \in Threads : pc[t] = "clean" =>
    \/ storage[jid[t]] = held[t]
    \/ session[held[t]].jid = None /\ storage[jid[t]] = None
=============================================================================
