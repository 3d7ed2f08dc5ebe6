--------------------------- MODULE RedisSessions ---------------------------
(***************************************************************************)
(* The session store of xmppflask/sessions/redis.py: processes of one      *)
(* application keep a JSON document per sender in a Redis server, which    *)
(* lets it expire.  A process works on a copy between open_session and     *)
(* save_session.  What views put into a session are marks.                 *)
(***************************************************************************)
EXTENDS Integers

CONSTANTS
  Processes,   \* processes of the application
  Jids,        \* senders
  Marks,       \* what views may write to a session
  NoJid,       \* the JID of a session that has been cleared: None
  Absent,      \* no value stored under a key
  Malformed,   \* a value that json.loads refuses
  NotObject,   \* one that it reads, but no object: a list, a number...
  Never,       \* the expiry of a key without a time to live
  SessionTTL,  \* app.session_ttl
  MaxClock     \* bound: the server's clock stops there

ASSUME NoJidIsNobody == NoJid \notin Jids
ASSUME TimesToLive == SessionTTL \in Nat \ {0} /\ MaxClock \in Nat

Keys == Jids \cup {NoJid}
Documents == [jid : Keys, marks : SUBSET Marks, permanent : BOOLEAN]

ASSUME NoDocuments == {Absent, Malformed, NotObject} \cap Documents = {}
ASSUME NotObjectIsAValue == NotObject \notin {Absent, Malformed}
ASSUME NeverIsNoTime == Never \notin Nat

StoredValues == Documents \cup {Absent, Malformed, NotObject}

VARIABLES
  jidObjects,  \* environ['xmpp.jid'] is a JID object, and not its text
  storage,     \* the Redis server's values
  expires,     \* and when they expire
  clock,
  session,     \* the session object of each process's request
  base,        \* history: the value it was loaded from
  wrote,       \* history: the marks the request has written to it
  kept,        \* history: marks the store owes a sender
  stored       \* history: marks that have ever been stored

server == <<storage, expires, clock>>
promises == <<kept, stored>>
redisVars == <<jidObjects, server, session, base, wrote, promises>>

\* plain: json.dumps can serialise it.
Sessions ==
  [jid : Keys, marks : SUBSET Marks, permanent : BOOLEAN, plain : BOOLEAN]

RedisTypeOK ==
  /\ jidObjects \in BOOLEAN
  /\ storage \in [Keys -> StoredValues]
  /\ expires \in [Keys -> Nat \cup {Never}]
  /\ clock \in Nat
  /\ session \in [Processes -> Sessions]
  /\ base \in [Processes -> StoredValues]
  /\ wrote \in [Processes -> SUBSET Marks]
  /\ kept \in [Jids -> SUBSET Marks]
  /\ stored \in SUBSET Marks

\* Session(_jid=jid), and the session of a process that has opened none.
NewSession(j) ==
  [jid |-> j, marks |-> {}, permanent |-> FALSE, plain |-> ~jidObjects]
NoSession == [jid |-> NoJid, marks |-> {}, permanent |-> FALSE, plain |-> TRUE]

RedisInit ==
  /\ storage = [k \in Keys |-> Absent]
  /\ expires = [k \in Keys |-> Never]
  /\ clock = 0
  /\ session = [p \in Processes |-> NoSession]
  /\ base = [p \in Processes |-> Absent]
  /\ wrote = [p \in Processes |-> {}]
  /\ kept = [j \in Jids |-> {}]
  /\ stored = {}

DocumentOf(s) == [jid |-> s.jid, marks |-> s.marks, permanent |-> s.permanent]

\* Mutation of LoadedFrom: the document is not made a session again.
LoadedAsIs(d) == d

LoadedFrom(d) ==
  [jid |-> d.jid, marks |-> d.marks, permanent |-> d.permanent, plain |-> TRUE]

-----------------------------------------------------------------------------
\* open_session: a document that cannot be read counts as none.
Open(p, j) ==
  /\ storage[j] # NotObject
  /\ session' = [session EXCEPT ![p] =
       IF storage[j] \in Documents THEN LoadedFrom(storage[j]) ELSE NewSession(j)]
  /\ base' = [base EXCEPT ![p] = storage[j]]
  /\ wrote' = [wrote EXCEPT ![p] = {}]
  /\ UNCHANGED <<jidObjects, server, promises>>

\* One that is read and is no object makes the call of the session class a TypeError,
\* which is not caught: there is no session.
OpenFails(p, j) ==
  /\ storage[j] = NotObject
  /\ session' = [session EXCEPT ![p] = NoSession]
  /\ base' = [base EXCEPT ![p] = Absent]
  /\ wrote' = [wrote EXCEPT ![p] = {}]
  /\ UNCHANGED <<jidObjects, server, promises>>

\* The view's session['...'] = ..., session.permanent = ... and session.clear().
Write(p, m) ==
  /\ session' = [session EXCEPT ![p].marks = @ \cup {m}]
  /\ wrote' = [wrote EXCEPT ![p] = @ \cup {m}]
  /\ UNCHANGED <<jidObjects, server, base, promises>>

SetPermanent(p, flag) ==
  /\ session' = [session EXCEPT ![p].permanent = flag]
  /\ UNCHANGED <<jidObjects, server, base, wrote, promises>>

\* The JID is one of the entries that go.
Clear(p) ==
  /\ session' = [session EXCEPT ![p] = NoSession]
  /\ wrote' = [wrote EXCEPT ![p] = {}]
  /\ UNCHANGED <<jidObjects, server, base, promises>>

\* json.dumps refuses a session with a JID object in it.
Serialisable(p) == session[p].plain

\* What the store owes a sender after a store: what it owed before, unless another
\* process has stored since this one loaded, and what the request has written.
Owed(p, k) == (IF storage[k] = base[p] THEN kept[k] ELSE {}) \cup wrote[p]

\* Mutation of TimeToLive: one once given stays.
TimeToLiveKept(s) == IF s.permanent THEN expires[s.jid] ELSE clock + SessionTTL

\* SET takes a time to live away, SETEX gives one.
TimeToLive(s) == IF s.permanent THEN Never ELSE clock + SessionTTL

\* save_session
Save(p) ==
  LET s == session[p] IN
  /\ Serialisable(p)
  /\ storage' = [storage EXCEPT ![s.jid] = DocumentOf(s)]
  /\ expires' = [expires EXCEPT ![s.jid] = TimeToLive(s)]
  /\ kept' = [j \in Jids |-> IF j = s.jid THEN Owed(p, j) ELSE kept[j]]
  /\ stored' = stored \cup s.marks
  /\ UNCHANGED <<jidObjects, clock, session, base, wrote>>

-----------------------------------------------------------------------------
(* The Redis server and the other programs that use it.                    *)

\* Time passes, and the server drops what has expired.
Tick ==
  LET gone == {k \in Keys : expires[k] # Never /\ expires[k] <= clock + 1} IN
  /\ clock < MaxClock
  /\ clock' = clock + 1
  /\ storage' = [k \in Keys |-> IF k \in gone THEN Absent ELSE storage[k]]
  /\ expires' = [k \in Keys |-> IF k \in gone THEN Never ELSE expires[k]]
  /\ kept' = [j \in Jids |->
       IF j \in gone /\ ~storage[j].permanent THEN {} ELSE kept[j]]
  /\ UNCHANGED <<jidObjects, session, base, wrote, stored>>

\* "key collisions are possible": another program stores its own value.
Collide(j) ==
  /\ storage[j] \in Documents
  /\ \E value \in {Malformed, NotObject} : storage' = [storage EXCEPT ![j] = value]
  /\ expires' = [expires EXCEPT ![j] = Never]
  /\ kept' = [kept EXCEPT ![j] = {}]
  /\ UNCHANGED <<jidObjects, clock, session, base, wrote, stored>>

-----------------------------------------------------------------------------
\* What requests have stored for a sender stays stored: it goes only with a time
\* to live that was not permanent, with another program's value, or under the
\* store of a process that had loaded the session before.
WritesKept ==
  \A j \in Jids :
    kept[j] \subseteq IF storage[j] \in Documents THEN storage[j].marks ELSE {}
=============================================================================
