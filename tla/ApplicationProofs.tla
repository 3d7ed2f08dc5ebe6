------------------------- MODULE ApplicationProofs -------------------------
(***************************************************************************)
(* Theorems about modules RedisSessions and Application: what the store    *)
(* owes a sender is there, no item of a response goes out before the       *)
(* session has been stored, requests keep their form, and a generator is   *)
(* given its own results, for all setups of an application, any number of  *)
(* processes and stanzas and whatever raises.                              *)
(***************************************************************************)
EXTENDS Application, SequenceTheorems, TLAPS

\* Only documents that are not permanent are given a time to live.
ExpiringKeys ==
  \A k \in Keys : expires[k] # Never => storage[k] \in Documents /\ ~storage[k].permanent

\* A session has what the request has written to it and what it was loaded with.
Carried ==
  \A p \in Processes :
    /\ wrote[p] \subseteq session[p].marks
    /\ session[p].jid \in Jids /\ base[p] \in Documents
         => base[p].marks \subseteq session[p].marks

RedisInv == RedisTypeOK /\ WritesKept /\ ExpiringKeys /\ Carried

LEMMA RedisInitInv == ASSUME RedisInit, jidObjects \in BOOLEAN PROVE RedisInv
<1> USE NoDocuments DEF RedisInit, NoSession, Keys, StoredValues
<1>1. RedisTypeOK
  BY DEF RedisTypeOK, Sessions
<1>2. WritesKept /\ ExpiringKeys /\ Carried
  BY DEF WritesKept, ExpiringKeys, Carried
<1> QED
  BY <1>1, <1>2 DEF RedisInv

LEMMA RedisInvStable == ASSUME RedisInv, UNCHANGED redisVars PROVE RedisInv'
BY DEF RedisInv, RedisTypeOK, WritesKept, ExpiringKeys, Carried, redisVars, server, promises

\* Steps on the session object of one process: the store is as it was.
LEMMA OpenStep ==
  ASSUME RedisInv, NEW p \in Processes, NEW j \in Jids, Open(p, j)
  PROVE  RedisInv'
<1> DEFINE s == IF storage[j] \in Documents THEN LoadedFrom(storage[j]) ELSE NewSession(j)
<1>1. /\ session' = [session EXCEPT ![p] = s] /\ base' = [base EXCEPT ![p] = storage[j]]
      /\ wrote' = [wrote EXCEPT ![p] = {}]
      /\ UNCHANGED <<jidObjects, server, promises>>
  BY DEF Open
<1>2. j \in Keys /\ storage[j] \in StoredValues /\ jidObjects \in BOOLEAN
  BY DEF RedisInv, RedisTypeOK, Keys
<1>3. s \in Sessions /\ (storage[j] \in Documents => s.marks = storage[j].marks)
  BY <1>2 DEF LoadedFrom, NewSession, Sessions, Documents, Keys
<1>4. RedisTypeOK'
  BY <1>1, <1>2, <1>3 DEF RedisInv, RedisTypeOK, server, promises
<1>5. WritesKept' /\ ExpiringKeys'
  BY <1>1 DEF RedisInv, WritesKept, ExpiringKeys, server, promises
<1>6. Carried'
  BY <1>1, <1>3 DEF RedisInv, RedisTypeOK, Carried
<1> QED
  BY <1>4, <1>5, <1>6 DEF RedisInv

LEMMA OpenFailsStep ==
  ASSUME RedisInv, NEW p \in Processes, NEW j \in Jids, OpenFails(p, j)
  PROVE  RedisInv'
<1>1. /\ session' = [session EXCEPT ![p] = NoSession] /\ base' = [base EXCEPT ![p] = Absent]
      /\ wrote' = [wrote EXCEPT ![p] = {}]
      /\ UNCHANGED <<jidObjects, server, promises>>
  BY DEF OpenFails
<1>2. NoSession \in Sessions /\ NoSession.jid = NoJid
  BY DEF NoSession, Sessions, Keys
<1>3. RedisTypeOK'
  BY <1>1, <1>2 DEF RedisInv, RedisTypeOK, StoredValues, server, promises
<1>4. WritesKept' /\ ExpiringKeys'
  BY <1>1 DEF RedisInv, WritesKept, ExpiringKeys, server, promises
<1>5. Carried'
  BY <1>1, <1>2, NoJidIsNobody DEF RedisInv, RedisTypeOK, Carried
<1> QED
  BY <1>3, <1>4, <1>5 DEF RedisInv

LEMMA ViewStep ==
  ASSUME RedisInv, NEW p \in Processes,
         (\E m \in Marks : Write(p, m)) \/ SetPermanent(p, TRUE) \/ Clear(p)
  PROVE  RedisInv'
<1>1. UNCHANGED <<jidObjects, server, base, promises>>
  BY DEF Write, SetPermanent, Clear
<1>2. session[p] \in Sessions /\ wrote[p] \subseteq session[p].marks /\ wrote[p] \subseteq Marks
  BY DEF RedisInv, RedisTypeOK, Carried
<1>3. PICK s \in Sessions, w \in SUBSET Marks :
        /\ session' = [session EXCEPT ![p] = s] /\ wrote' = [wrote EXCEPT ![p] = w]
        /\ w \subseteq s.marks
        /\ s.jid = NoJid \/ (s.jid = session[p].jid /\ session[p].marks \subseteq s.marks)
  <2>1. CASE \E m \in Marks : Write(p, m)
    <3>1. PICK m \in Marks : Write(p, m)
      BY <2>1
    <3> DEFINE s == [session[p] EXCEPT !.marks = @ \cup {m}]
               w == wrote[p] \cup {m}
    <3>2. /\ s \in Sessions /\ w \in SUBSET Marks /\ w \subseteq s.marks
          /\ s.jid = session[p].jid /\ session[p].marks \subseteq s.marks
      BY <1>2 DEF Sessions
    <3>3. session' = [session EXCEPT ![p] = s] /\ wrote' = [wrote EXCEPT ![p] = w]
      BY <3>1 DEF Write
    <3> QED
      BY <3>2, <3>3
  <2>2. CASE SetPermanent(p, TRUE)
    <3> DEFINE s == [session[p] EXCEPT !.permanent = TRUE]
    <3>1. /\ s \in Sessions
          /\ s.jid = session[p].jid /\ s.marks = session[p].marks
      BY <1>2 DEF Sessions
    <3>2. session' = [session EXCEPT ![p] = s] /\ wrote' = [wrote EXCEPT ![p] = wrote[p]]
      BY <2>2 DEF SetPermanent, RedisInv, RedisTypeOK
    <3> QED
      BY <1>2, <3>1, <3>2
  <2>3. CASE Clear(p)
    <3>1. NoSession \in Sessions
      BY DEF NoSession, Sessions, Keys
    <3> WITNESS NoSession \in Sessions, {} \in SUBSET Marks
    <3> QED
      BY <2>3 DEF Clear, NoSession
  <2> QED
    BY <2>1, <2>2, <2>3
<1>4. RedisTypeOK'
  BY <1>1, <1>3 DEF RedisInv, RedisTypeOK, server, promises
<1>5. WritesKept' /\ ExpiringKeys'
  BY <1>1 DEF RedisInv, WritesKept, ExpiringKeys, server, promises
<1>6. Carried'
  BY <1>1, <1>3, NoJidIsNobody DEF RedisInv, RedisTypeOK, Carried
<1> QED
  BY <1>4, <1>5, <1>6 DEF RedisInv

\* What is owed for the key that is stored is in the session: either the document is
\* the one the session was loaded from, or only the request's own marks are owed.
LEMMA SaveStep ==
  ASSUME RedisInv, NEW p \in Processes, Save(p)
  PROVE  RedisInv' /\ wrote'[p] = wrote[p] /\ stored \subseteq stored' /\ wrote[p] \subseteq stored'
<1> DEFINE s == session[p]  k == s.jid
<1>1. /\ storage' = [storage EXCEPT ![k] = DocumentOf(s)]
      /\ expires' = [expires EXCEPT ![k] = IF s.permanent THEN Never ELSE clock + SessionTTL]
      /\ kept' = [j \in Jids |-> IF j = k THEN Owed(p, j) ELSE kept[j]]
      /\ stored' = stored \cup s.marks
      /\ UNCHANGED <<jidObjects, clock, session, base, wrote>>
  BY DEF Save, TimeToLive
<1>2. s \in Sessions /\ k \in Keys /\ wrote[p] \subseteq s.marks /\ s.marks \subseteq Marks
  BY DEF RedisInv, RedisTypeOK, Carried, Sessions
<1>3. /\ DocumentOf(s) \in Documents
      /\ DocumentOf(s).marks = s.marks /\ DocumentOf(s).permanent = s.permanent
  BY <1>2 DEF DocumentOf, Documents, Sessions
<1>4. k \in Jids => Owed(p, k) \subseteq s.marks
  <2>1. CASE storage[k] = base[p]
    BY <1>2, <2>1 DEF RedisInv, WritesKept, Carried, Owed
  <2>2. CASE storage[k] # base[p]
    BY <1>2, <2>2 DEF Owed
  <2> QED
    BY <2>1, <2>2
<1>5. RedisTypeOK'
  <2>1. clock + SessionTTL \in Nat
    BY TimesToLive DEF RedisInv, RedisTypeOK
  <2>2. storage' \in [Keys -> StoredValues]
    BY <1>1, <1>2, <1>3 DEF RedisInv, RedisTypeOK, StoredValues
  <2>3. expires' \in [Keys -> Nat \cup {Never}]
    BY <1>1, <1>2, <2>1 DEF RedisInv, RedisTypeOK
  <2>4. kept' \in [Jids -> SUBSET Marks] /\ stored' \in SUBSET Marks
    BY <1>1, <1>2, <1>4 DEF RedisInv, RedisTypeOK
  <2> QED
    BY <1>1, <2>2, <2>3, <2>4 DEF RedisInv, RedisTypeOK
<1>6. WritesKept'
  <2> SUFFICES ASSUME NEW j \in Jids
               PROVE  kept'[j] \subseteq
                        IF storage'[j] \in Documents THEN storage'[j].marks ELSE {}
    BY DEF WritesKept
  <2>1. CASE j = k
    BY <1>1, <1>2, <1>3, <1>4, <2>1 DEF RedisInv, RedisTypeOK
  <2>2. CASE j # k
    BY <1>1, <2>2 DEF RedisInv, RedisTypeOK, WritesKept, Keys
  <2> QED
    BY <2>1, <2>2
<1>7. ExpiringKeys'
  BY <1>1, <1>2, <1>3 DEF RedisInv, RedisTypeOK, ExpiringKeys
<1>8. Carried'
  BY <1>1 DEF RedisInv, Carried
<1> QED
  BY <1>1, <1>2, <1>5, <1>6, <1>7, <1>8 DEF RedisInv

\* A key with a time to live holds a document that is not permanent, so what the store
\* owes its sender goes with it.
LEMMA TickStep == ASSUME RedisInv, Tick PROVE RedisInv'
<1> DEFINE gone == {k \in Keys : expires[k] # Never /\ expires[k] <= clock + 1}
<1>1. /\ clock' = clock + 1
      /\ storage' = [k \in Keys |-> IF k \in gone THEN Absent ELSE storage[k]]
      /\ expires' = [k \in Keys |-> IF k \in gone THEN Never ELSE expires[k]]
      /\ kept' = [j \in Jids |-> IF j \in gone /\ ~storage[j].permanent THEN {} ELSE kept[j]]
      /\ UNCHANGED <<jidObjects, session, base, wrote, stored>>
  BY DEF Tick
<1>2. \A k \in gone : storage[k] \in Documents /\ ~storage[k].permanent
  BY DEF RedisInv, ExpiringKeys
<1> HIDE DEF gone
<1>3. RedisTypeOK'
  BY <1>1 DEF RedisInv, RedisTypeOK, StoredValues
<1>4. WritesKept'
  BY <1>1, <1>2 DEF RedisInv, RedisTypeOK, WritesKept, Keys
<1>5. ExpiringKeys'
  BY <1>1 DEF RedisInv, RedisTypeOK, ExpiringKeys
<1>6. Carried'
  BY <1>1 DEF RedisInv, Carried
<1> QED
  BY <1>3, <1>4, <1>5, <1>6 DEF RedisInv

LEMMA CollideStep ==
  ASSUME RedisInv, NEW j \in Jids, Collide(j) PROVE RedisInv'
<1>1. PICK value \in {Malformed, NotObject} : storage' = [storage EXCEPT ![j] = value]
  BY DEF Collide
<1>2. /\ expires' = [expires EXCEPT ![j] = Never] /\ kept' = [kept EXCEPT ![j] = {}]
      /\ UNCHANGED <<jidObjects, clock, session, base, wrote, stored>>
  BY DEF Collide
<1>3. RedisTypeOK'
  BY <1>1, <1>2 DEF RedisInv, RedisTypeOK, StoredValues
<1>4. WritesKept'
  BY <1>1, <1>2 DEF RedisInv, RedisTypeOK, WritesKept, Keys
<1>5. ExpiringKeys'
  BY <1>1, <1>2 DEF RedisInv, RedisTypeOK, ExpiringKeys
<1>6. Carried'
  BY <1>2 DEF RedisInv, Carried
<1> QED
  BY <1>3, <1>4, <1>5, <1>6 DEF RedisInv

-----------------------------------------------------------------------------
\* A request has passed save_session when it is in the after_request hooks, sends the
\* response, or is left without an exception.
Passed(p) == req[p].at \in {"after", "send"} \/ (req[p].at = "teardown" /\ ~req[p].exc)

Fields == DOMAIN Idle

RequestInv ==
  /\ DOMAIN req = Processes /\ requests \in Nat /\ requests <= MaxRequests
  /\ \A p \in Processes :
       /\ DOMAIN req[p] = Fields
       /\ req[p].at = "before" => req[p].mark \in Marks
       /\ Passed(p) => wrote[p] \subseteq stored

Inv == RedisInv /\ RequestInv

\* The request of one process moves on to r.
Moves(p, r) ==
  /\ req' = [req EXCEPT ![p] = r]
  /\ DOMAIN r = Fields
  /\ r.at = "before" => r.mark \in Marks

LEMMA FieldsOfIdle ==
  Fields = {"at", "jid", "endpoint", "mark", "todo", "ran", "response", "result", "sent",
            "exc", "torn", "cut"}
BY DEF Fields, Idle

LEMMA LeaveMoves ==
  ASSUME RequestInv, NEW p \in Processes, NEW exc, Leave(p, exc)
  PROVE  \E r : Moves(p, r) /\ r.at = "teardown" /\ r.exc = exc
<1> USE FieldsOfIdle DEF RequestInv
<1> DEFINE q == IF req[p].torn = <<>> THEN req[p]
                ELSE [req[p] EXCEPT !.response = Idle.response, !.result = Idle.result,
                                    !.sent = <<>>, !.ran = <<>>]
           r == [q EXCEPT !.at = "teardown", !.exc = exc,
                          !.todo = TeardownList(Len(q.torn) + 1),
                          !.torn = Append(@, <<>>), !.cut = Append(@, FALSE)]
<1>1. Set(p, r)
  BY DEF Leave
<1>2. DOMAIN q = Fields
  OBVIOUS
<1>3. DOMAIN r = Fields /\ r.at = "teardown" /\ r.exc = exc
  BY <1>2
<1> QED
  BY <1>1, <1>3 DEF Set, Moves

LEMMA AnswerMoves ==
  ASSUME RequestInv, NEW p \in Processes, NEW v, Answer(p, v)
  PROVE  \E r : Moves(p, r) /\ r.at = "save"
<1> USE FieldsOfIdle DEF RequestInv
<1> DEFINE new == ResponseOf(IF v = Nothing THEN [lazy |-> FALSE, items |-> <<>>] ELSE v)
           r == [req[p] EXCEPT !.at = "save", !.todo = <<>>, !.response = new]
<1>1. Set(p, r)
  BY DEF Answer
<1>2. DOMAIN r = Fields /\ r.at = "save"
  OBVIOUS
<1> QED
  BY <1>1, <1>2 DEF Set, Moves

LEMMA HandleErrorMoves ==
  ASSUME RequestInv, NEW p \in Processes, NEW error, HandleError(p, error)
  PROVE  \E r : Moves(p, r) /\ (r.at = "save" \/ (r.at = "teardown" /\ r.exc = TRUE))
<1>1. Leave(p, TRUE) \/ \E v : Answer(p, v)
  BY DEF HandleError
<1>2. CASE Leave(p, TRUE)
  BY <1>2, LeaveMoves
<1>3. CASE \E v : Answer(p, v)
  <2>1. PICK v : Answer(p, v)
    BY <1>3
  <2> QED
    BY <2>1, AnswerMoves
<1> QED
  BY <1>1, <1>2, <1>3

\* A move that leaves the store alone needs the request to be saved only where it has
\* not passed save_session before.
LEMMA MoveStep ==
  ASSUME RequestInv, NEW p \in Processes, NEW r, Moves(p, r), UNCHANGED <<wrote, stored, requests>>,
         (r.at \in {"after", "send"} \/ (r.at = "teardown" /\ ~r.exc)) => wrote[p] \subseteq stored
  PROVE  RequestInv'
BY FieldsOfIdle DEF RequestInv, Moves, Passed

\* The steps that touch neither session nor store.
LEMMA QuietStep ==
  ASSUME Inv, NEW p \in Processes, NEW r, Moves(p, r), UNCHANGED <<redisVars, requests>>,
         (r.at \in {"after", "send"} \/ (r.at = "teardown" /\ ~r.exc)) => wrote[p] \subseteq stored
  PROVE  Inv'
<1>1. UNCHANGED <<wrote, stored, requests>>
  BY DEF redisVars, promises
<1> QED
  BY <1>1, MoveStep, RedisInvStable DEF Inv

LEMMA BeginStep ==
  ASSUME Inv, NEW p \in Processes, Begin(p)
  PROVE  Inv'
<1>1. PICK j \in Jids, e \in app.endpoints \cup {NoRule} :
        /\ Open(p, j)
        /\ Set(p, [Idle EXCEPT !.at = "before", !.jid = j, !.endpoint = e,
                               !.mark = requests', !.todo = Functions(HooksFor("before", AppWide))])
  BY DEF Begin
<1> DEFINE r == [Idle EXCEPT !.at = "before", !.jid = j, !.endpoint = e,
                             !.mark = requests', !.todo = Functions(HooksFor("before", AppWide))]
<1>2. RedisInv'
  BY <1>1, OpenStep DEF Inv
<1>3. requests' \in Nat /\ requests' <= MaxRequests /\ requests' \in Marks
  BY MarksCountRequests, MaxRequestsIsNatural DEF Begin, Inv, RequestInv
<1>4. DOMAIN r = Fields /\ r.at = "before" /\ r.mark = requests'
  BY FieldsOfIdle DEF Idle
<1>5. req' = [req EXCEPT ![p] = r]
  BY <1>1 DEF Set
<1>6. /\ \A q \in Processes \ {p} : wrote'[q] = wrote[q]
      /\ stored' = stored
  BY <1>1 DEF Open, promises, Inv, RedisInv, RedisTypeOK
<1> HIDE DEF r
<1>7. RequestInv'
  BY <1>3, <1>4, <1>5, <1>6 DEF Inv, RequestInv, Passed
<1> QED
  BY <1>2, <1>7 DEF Inv

LEMMA BeginFailsStep ==
  ASSUME Inv, NEW p \in Processes, BeginFails(p)
  PROVE  Inv'
<1>1. PICK j \in Jids, pass \in {2, 3} :
        /\ OpenFails(p, j)
        /\ Set(p, [Idle EXCEPT !.at = "teardown", !.jid = j, !.mark = requests', !.exc = TRUE,
                               !.todo = TeardownList(pass),
                               !.torn = [n \in 1..pass |-> <<>>],
                               !.cut = [n \in 1..pass |-> n < pass]])
  BY DEF BeginFails
<1> DEFINE r == [Idle EXCEPT !.at = "teardown", !.jid = j, !.mark = requests', !.exc = TRUE,
                             !.todo = TeardownList(pass),
                             !.torn = [n \in 1..pass |-> <<>>],
                             !.cut = [n \in 1..pass |-> n < pass]]
<1>2. RedisInv'
  BY <1>1, OpenFailsStep DEF Inv
<1>3. requests' \in Nat /\ requests' <= MaxRequests
  BY MaxRequestsIsNatural DEF BeginFails, Inv, RequestInv
<1>4. DOMAIN r = Fields /\ r.at = "teardown" /\ r.exc = TRUE
  BY FieldsOfIdle DEF Idle
<1>5. req' = [req EXCEPT ![p] = r]
  BY <1>1 DEF Set
<1>6. /\ \A q \in Processes \ {p} : wrote'[q] = wrote[q]
      /\ stored' = stored
  BY <1>1 DEF OpenFails, promises, Inv, RedisInv, RedisTypeOK
<1> HIDE DEF r
<1>7. RequestInv'
  BY <1>3, <1>4, <1>5, <1>6 DEF Inv, RequestInv, Passed
<1> QED
  BY <1>2, <1>7 DEF Inv

LEMMA BeforeHookStep ==
  ASSUME Inv, NEW p \in Processes, BeforeHook(p)
  PROVE  Inv'
<1>1. UNCHANGED <<redisVars, requests>> /\ RequestInv /\ req[p].at = "before"
  BY DEF BeforeHook, Inv, At
<1>2. CASE Set(p, [req[p] EXCEPT !.todo = Tail(@)])
  <2> DEFINE r == [req[p] EXCEPT !.todo = Tail(@)]
  <2>1. Moves(p, r) /\ r.at = "before"
    BY <1>1, <1>2, FieldsOfIdle DEF RequestInv, Set, Moves
  <2> QED
    BY <1>1, <2>1, QuietStep
<1>3. CASE \E v : Answer(p, v)
  BY <1>1, <1>3, AnswerMoves, QuietStep
<1>4. CASE HandleError(p, "Error")
  BY <1>1, <1>4, HandleErrorMoves, QuietStep
<1> QED
  BY <1>2, <1>3, <1>4 DEF BeforeHook

LEMMA ViewUsesSessionStep ==
  ASSUME Inv, NEW p \in Processes, ViewUsesSession(p)
  PROVE  Inv'
<1>1. /\ req[p].at = "before" /\ UNCHANGED <<requests, req>>
      /\ Write(p, req[p].mark) \/ SetPermanent(p, TRUE) \/ Clear(p)
  BY DEF ViewUsesSession, InView, At
<1>2. RedisInv'
  BY <1>1, ViewStep DEF Inv, RequestInv
<1>3. stored' = stored /\ \A q \in Processes \ {p} : wrote'[q] = wrote[q]
  BY <1>1 DEF Write, SetPermanent, Clear, promises, Inv, RedisInv, RedisTypeOK
<1>4. RequestInv'
  BY <1>1, <1>3 DEF Inv, RequestInv, Passed
<1> QED
  BY <1>2, <1>4 DEF Inv

LEMMA DispatchStep ==
  ASSUME Inv, NEW p \in Processes, View(p)
  PROVE  Inv'
<1>1. UNCHANGED <<redisVars, requests>> /\ RequestInv
  BY DEF View, Inv
<1>2. CASE \E error : HandleError(p, error)
  BY <1>1, <1>2, HandleErrorMoves, QuietStep
<1>3. CASE \E v : Answer(p, v)
  BY <1>1, <1>3, AnswerMoves, QuietStep
<1> QED
  BY <1>2, <1>3 DEF View

LEMMA SaveSessionStep ==
  ASSUME Inv, NEW p \in Processes, SaveSession(p)
  PROVE  Inv'
<1>1. CASE Save(p) /\ Set(p, [req[p] EXCEPT !.at = "after", !.todo = AfterHooks(req[p].endpoint)])
  <2> DEFINE r == [req[p] EXCEPT !.at = "after", !.todo = AfterHooks(req[p].endpoint)]
  <2>1. RedisInv' /\ stored \subseteq stored' /\ wrote[p] \subseteq stored'
    BY <1>1, SaveStep DEF Inv
  <2>2. Moves(p, r) /\ r.at = "after"
    BY <1>1, FieldsOfIdle DEF Inv, RequestInv, Set, Moves
  <2>3. wrote' = wrote /\ requests' = requests
    BY <1>1 DEF Save, SaveSession
  <2> HIDE DEF r
  <2>4. RequestInv'
    BY <2>1, <2>2, <2>3, FieldsOfIdle DEF Inv, RequestInv, Moves, Passed
  <2> QED
    BY <2>1, <2>4 DEF Inv
<1>2. CASE Leave(p, TRUE) /\ UNCHANGED redisVars
  <2>1. requests' = requests
    BY DEF SaveSession
  <2> QED
    BY <1>2, <2>1, LeaveMoves, QuietStep DEF Inv
<1> QED
  BY <1>1, <1>2 DEF SaveSession

LEMMA AfterHookStep ==
  ASSUME Inv, NEW p \in Processes, AfterHook(p) \/ AfterHooksDone(p)
  PROVE  Inv'
<1>1. /\ UNCHANGED <<redisVars, requests>> /\ RequestInv
      /\ req[p].at = "after" /\ wrote[p] \subseteq stored
  BY DEF AfterHook, AfterHooksDone, Inv, RequestInv, Passed, At
<1>2. CASE \E exc : Leave(p, exc)
  BY <1>1, <1>2, LeaveMoves, QuietStep
<1>3. ASSUME NEW new,
        LET r == [req[p] EXCEPT !.todo = Tail(@), !.ran = Append(@, Head(req[p].todo))]
        IN  Set(p, r) \/ Set(p, [r EXCEPT !.response = new])
      PROVE  Inv'
  <2> DEFINE r == [req[p] EXCEPT !.todo = Tail(@), !.ran = Append(@, Head(req[p].todo))]
             c == [r EXCEPT !.response = new]
  <2>1. DOMAIN r = Fields /\ DOMAIN c = Fields /\ r.at = "after" /\ c.at = "after"
    BY <1>1, FieldsOfIdle DEF RequestInv
  <2>2. Moves(p, r) \/ Moves(p, c)
    BY <1>3, <2>1 DEF Set, Moves
  <2> QED
    BY <1>1, <2>1, <2>2, QuietStep
<1> QED
  BY <1>2, <1>3 DEF AfterHook, AfterHooksDone

LEMMA SendStep ==
  ASSUME Inv, NEW p \in Processes, SendItem(p) \/ SendNext(p) \/ ResponseSent(p)
  PROVE  Inv'
<1>1. /\ UNCHANGED <<redisVars, requests>> /\ RequestInv
      /\ req[p].at = "send" /\ wrote[p] \subseteq stored
  BY DEF SendItem, SendNext, ResponseSent, Inv, RequestInv, Passed, At
<1>2. CASE \E exc : Leave(p, exc)
  BY <1>1, <1>2, LeaveMoves, QuietStep
<1>3. ASSUME NEW a, NEW b, NEW c,
             \/ Set(p, [req[p] EXCEPT !.response = a, !.result = b, !.sent = c])
             \/ Set(p, [req[p] EXCEPT !.response = a, !.result = b])
      PROVE  Inv'
  <2> DEFINE r == [req[p] EXCEPT !.response = a, !.result = b, !.sent = c]
             q == [req[p] EXCEPT !.response = a, !.result = b]
  <2>1. DOMAIN r = Fields /\ DOMAIN q = Fields /\ r.at = "send" /\ q.at = "send"
    BY <1>1, FieldsOfIdle DEF RequestInv
  <2>2. Moves(p, r) \/ Moves(p, q)
    BY <1>3, <2>1 DEF Set, Moves
  <2> QED
    BY <1>1, <2>1, <2>2, QuietStep
<1> QED
  BY <1>2, <1>3 DEF SendItem, SendNext, ResponseSent

\* An exception of a teardown function is never forgotten, so nothing that has not
\* been saved is sent after it.
LEMMA TeardownStep ==
  ASSUME Inv, NEW p \in Processes, Teardown(p) \/ TeardownDone(p)
  PROVE  Inv'
<1>1. /\ UNCHANGED <<redisVars, requests>> /\ RequestInv
      /\ req[p].at = "teardown" /\ (~req[p].exc => wrote[p] \subseteq stored)
  BY DEF Teardown, TeardownDone, Inv, RequestInv, Passed, At
<1>2. CASE Leave(p, TRUE) \/ Leave(p, req[p].exc)
  BY <1>1, <1>2, LeaveMoves, QuietStep
<1>3. CASE Teardown(p)
  <2> DEFINE pass == Len(req[p].torn)
             ran == [req[p] EXCEPT !.todo = Tail(@),
                                   !.torn[pass] = Append(@, Head(req[p].todo))]
             stopped == [ran EXCEPT !.todo = <<>>, !.cut[pass] = TRUE]
             raised == [stopped EXCEPT !.exc = TRUE]
  <2>1. /\ DOMAIN ran = Fields /\ DOMAIN stopped = Fields /\ DOMAIN raised = Fields
        /\ ran.at = "teardown" /\ stopped.at = "teardown" /\ raised.at = "teardown"
        /\ ran.exc = req[p].exc /\ stopped.exc = req[p].exc /\ raised.exc = TRUE
    BY <1>1, FieldsOfIdle DEF RequestInv
  <2>2. Set(p, ran) \/ Set(p, stopped) \/ Set(p, raised)
    BY <1>3 DEF Teardown
  <2> HIDE DEF ran, stopped, raised
  <2>3. Moves(p, ran) \/ Moves(p, stopped) \/ Moves(p, raised)
    BY <2>1, <2>2 DEF Set, Moves
  <2> QED
    BY <1>1, <2>1, <2>3, QuietStep
<1>4. CASE ~req[p].exc /\ Set(p, [req[p] EXCEPT !.at = "send"])
  <2> DEFINE r == [req[p] EXCEPT !.at = "send"]
  <2>1. Moves(p, r) /\ r.at = "send"
    BY <1>1, <1>4, FieldsOfIdle DEF RequestInv, Set, Moves
  <2> QED
    BY <1>1, <1>4, <2>1, QuietStep
<1>5. CASE Set(p, [Idle EXCEPT !.torn = req[p].torn, !.cut = req[p].cut])
  <2> DEFINE r == [Idle EXCEPT !.torn = req[p].torn, !.cut = req[p].cut]
  <2>1. DOMAIN r = Fields /\ r.at = "idle"
    BY FieldsOfIdle DEF Idle
  <2>2. Moves(p, r)
    BY <1>5, <2>1 DEF Set, Moves
  <2> QED
    BY <1>1, <2>1, <2>2, QuietStep
<1> QED
  BY <1>2, <1>3, <1>4, <1>5 DEF TeardownDone

-----------------------------------------------------------------------------
LEMMA InitInv == Init => Inv
<1> SUFFICES ASSUME Init PROVE Inv
  OBVIOUS
<1>1. jidObjects \in BOOLEAN
  BY Deployed DEF Init
<1>2. RedisInv
  BY <1>1, RedisInitInv DEF Init
<1>3. RequestInv
  BY MaxRequestsIsNatural, FieldsOfIdle DEF Init, RequestInv, Passed, Idle, Fields
<1> QED
  BY <1>2, <1>3 DEF Inv

LEMMA InvInductive == Inv /\ [Next]_vars => Inv'
<1> SUFFICES ASSUME Inv, [Next]_vars PROVE Inv'
  OBVIOUS
<1>1. ASSUME RedisInv', UNCHANGED <<wrote, stored, requests, req>> PROVE Inv'
  BY <1>1 DEF Inv, RequestInv, Passed
<1>2. CASE SettingUp \/ UNCHANGED vars
  <2>1. UNCHANGED <<redisVars, requests, req>>
    BY <1>2 DEF SettingUp, vars
  <2> QED
    BY <1>1, <2>1, RedisInvStable DEF Inv, redisVars, promises
<1>3. CASE Outside
  <2>1. RedisInv'
    BY <1>3, TickStep, CollideStep DEF Outside, Inv
  <2>2. UNCHANGED <<wrote, stored, requests, req>>
    BY <1>3 DEF Outside, Tick, Collide
  <2> QED
    BY <1>1, <2>1, <2>2
<1>4. ASSUME NEW p \in Processes, Begin(p) \/ BeginFails(p) \/ Handle(p) PROVE Inv'
  BY <1>4, BeginStep, BeginFailsStep, BeforeHookStep, ViewUsesSessionStep, DispatchStep,
     SaveSessionStep, AfterHookStep, SendStep, TeardownStep DEF Handle
<1> QED
  BY <1>2, <1>3, <1>4 DEF Next

\* Inv holds in every state: this is the inductive invariant of the theorems below.
LEMMA Invariance == Spec => []Inv
<1>1. Init => Inv
  BY InitInv
<1>2. Inv /\ [Next]_vars => Inv'
  BY InvInductive
<1> QED
  BY <1>1, <1>2, PTL DEF Spec

\* What requests have stored in Redis is there until its time to live ends, another
\* program overwrites it, or a process that had loaded the session before stores its
\* own copy, for any number of processes.
THEOREM StoreKeepsWrites == Spec => []WritesKept
<1>1. Inv => WritesKept
  BY DEF Inv, RedisInv
<1> QED
  BY <1>1, Invariance, PTL

\* process_response saves the session before the server sends the first item; where
\* hooks, views, json.dumps or teardown functions raise, no item is sent without.
THEOREM NoAnswerUnsaved == Spec => []AnsweredMeansSaved
<1>1. Inv => AnsweredMeansSaved
  BY DEF Inv, RequestInv, Passed, AnsweredMeansSaved, At
<1> QED
  BY <1>1, Invariance, PTL

-----------------------------------------------------------------------------
(* Types, and what generators are given.  A value is counted only while    *)
(* the response is sent: before and after, no command has given one.       *)

IsSeq(q) == q \in Seq({q[i] : i \in DOMAIN q})

LEMMA EmptyIsSeq == IsSeq(<<>>) /\ Len(<<>>) = 0 /\ DOMAIN <<>> = {}
BY DEF IsSeq

LEMMA LenIsNatural ==
  ASSUME NEW q, IsSeq(q)
  PROVE  Len(q) \in Nat /\ DOMAIN q = 1..Len(q) /\ (q = <<>> <=> Len(q) = 0)
<1>1. Len(q) \in Nat /\ DOMAIN q = 1..Len(q)
  BY LenProperties DEF IsSeq
<1>2. q # <<>> => Len(q) # 0
  BY EmptySeq DEF IsSeq
<1> QED
  BY <1>1, <1>2, EmptyIsSeq

\* A function on 1..n is a sequence.
LEMMA FunctionIsSeq ==
  ASSUME NEW q, NEW n \in Nat, q = [i \in 1..n |-> q[i]]
  PROVE  IsSeq(q) /\ Len(q) = n
<1>1. DOMAIN q = 1..n
  OBVIOUS
<1>2. q \in [1..n -> {q[i] : i \in DOMAIN q}]
  BY <1>1
<1>3. q \in Seq({q[i] : i \in DOMAIN q})
  BY <1>2, SeqDef
<1>4. Len(q) = n
  BY <1>1, <1>3, LenProperties
<1> QED
  BY <1>3, <1>4 DEF IsSeq

LEMMA SeqIsFunction ==
  ASSUME NEW S, NEW q \in Seq(S)
  PROVE  IsSeq(q)
<1>1. Len(q) \in Nat /\ q \in [1..Len(q) -> S]
  BY LenProperties
<1>2. q = [i \in 1..Len(q) |-> q[i]]
  BY <1>1
<1> QED
  BY <1>1, <1>2, FunctionIsSeq

LEMMA AppendIsSeq ==
  ASSUME NEW q, NEW x, IsSeq(q)
  PROVE  /\ IsSeq(Append(q, x)) /\ Len(Append(q, x)) = Len(q) + 1
         /\ Append(q, x)[Len(q) + 1] = x
         /\ \A i \in 1..Len(q) : Append(q, x)[i] = q[i]
<1> DEFINE S == {q[i] : i \in DOMAIN q} \cup {x}
<1>1. q \in Seq(S) /\ x \in S
  <2>1. {q[i] : i \in DOMAIN q} \subseteq S
    OBVIOUS
  <2> QED
    BY <2>1, SeqMonotonic DEF IsSeq
<1> HIDE DEF S
<1>2. /\ Append(q, x) \in Seq(S) /\ Len(Append(q, x)) = Len(q) + 1
      /\ \A i \in 1..Len(q) : Append(q, x)[i] = q[i]
      /\ Append(q, x)[Len(q) + 1] = x
  BY <1>1, AppendProperties
<1> QED
  BY <1>2, SeqIsFunction

LEMMA TailIsSeq ==
  ASSUME NEW q, IsSeq(q), q # <<>>
  PROVE  /\ IsSeq(Tail(q)) /\ Len(Tail(q)) = Len(q) - 1
         /\ \A i \in 1..Len(q) - 1 : Tail(q)[i] = q[i + 1]
         /\ Head(q) = q[1] /\ 1 \in DOMAIN q
<1> DEFINE S == {q[i] : i \in DOMAIN q}
<1>1. q \in Seq(S)
  BY DEF IsSeq
<1>2. 1 \in DOMAIN q
  BY LenIsNatural
<1> HIDE DEF S
<1>3. Tail(q) \in Seq(S) /\ Len(Tail(q)) = Len(q) - 1
  BY <1>1, HeadTailProperties
<1>4. \A i \in 1..Len(q) - 1 : Tail(q)[i] = q[i + 1]
  BY <1>1, <1>3, HeadTailProperties
<1>5. Head(q) = q[1]
  BY <1>1
<1> QED
  BY <1>2, <1>3, <1>4, <1>5, SeqIsFunction

LEMMA ExceptIsSeq ==
  ASSUME NEW q, NEW k, NEW x, IsSeq(q), NEW c, c = [q EXCEPT ![k] = x]
  PROVE  /\ IsSeq(c) /\ Len(c) = Len(q)
         /\ \A i \in DOMAIN q : c[i] = IF i = k THEN x ELSE q[i]
<1>1. Len(q) \in Nat /\ DOMAIN q = 1..Len(q)
  BY LenIsNatural
<1>2. c = [i \in 1..Len(q) |-> c[i]]
  BY <1>1
<1>3. \A i \in DOMAIN q : c[i] = IF i = k THEN x ELSE q[i]
  OBVIOUS
<1>4. IsSeq(c) /\ Len(c) = Len(q)
  BY <1>1, <1>2, FunctionIsSeq
<1> QED
  BY <1>3, <1>4

-----------------------------------------------------------------------------
\* The iterators of a response have the numbers that follow that of the current one.
Numbered(response) ==
  /\ DOMAIN response = {"current", "queue"}
  /\ DOMAIN response.current = {"gen", "items"} /\ response.current.gen \in Nat
  /\ IsSeq(response.queue)
  /\ \A i \in DOMAIN response.queue :
       /\ DOMAIN response.queue[i] = {"gen", "items"}
       /\ response.queue[i].gen = response.current.gen + i

\* Each item was sent by the current iterator or an earlier one.
SentInOrder(sent, gen) ==
  /\ IsSeq(sent)
  /\ \A i \in DOMAIN sent : sent[i].gen \in Nat /\ sent[i].gen <= gen
  /\ \A i \in DOMAIN sent :
       LET fresh == i = 1 \/ sent[i - 1].gen # sent[i].gen IN
       /\ sent[i].got = IF fresh THEN "None" ELSE ResultOf(sent[i - 1].item)
       /\ i > 1 => sent[i - 1].gen <= sent[i].gen

\* The value that will be given to the current iterator.
Pending(sent, gen) ==
  IF sent = <<>> \/ sent[Len(sent)].gen # gen
  THEN "None" ELSE ResultOf(sent[Len(sent)].item)

\* How many contexts have been left.
Passes(at) ==
  CASE at = "idle" -> {0, 3}
    [] at \in {"before", "save", "after"} -> {0}
    [] at = "send" -> {1}
    [] at = "teardown" -> 1..3

WellFormed(r) ==
  /\ DOMAIN r = Fields /\ r.at \in Points
  /\ IsSeq(r.torn) /\ IsSeq(r.cut) /\ Len(r.cut) = Len(r.torn)
  /\ Len(r.torn) \in Passes(r.at)
  /\ Numbered(r.response)
  /\ r.at \in {"before", "save", "after"} => r.response.current.gen = 1
  /\ r.at # "send" => r.sent = <<>> /\ r.result = "None"
  /\ SentInOrder(r.sent, r.response.current.gen)
  /\ r.result = Pending(r.sent, r.response.current.gen)

\* A document carries the JID it is stored under.
FiledUnderOwnJid == \A k \in Keys : storage[k] \in Documents => storage[k].jid = k

\* The session of a request is that of its sender, or has been cleared.
SessionOfSender ==
  \A p \in Processes : req[p].at # "idle" => session[p].jid \in {req[p].jid, NoJid}

ShapeInv ==
  /\ app \in Deployments
  /\ IsSeq(setup) /\ next \in 1..Len(setup) + 1
  /\ FiledUnderOwnJid /\ SessionOfSender
  /\ \A p \in Processes : WellFormed(req[p]) /\ req[p].mark \in 0..requests

\* The request of one process moves on to r, which is well formed; a moment it is not
\* taken up with the session of another sender.
Forms(p, r) ==
  /\ req' = [req EXCEPT ![p] = r]
  /\ WellFormed(r) /\ r.mark \in 0..requests'
  /\ r.at # "idle" => session'[p].jid \in {r.jid, NoJid}

LEMMA NewResponse ==
  ASSUME NEW v
  PROVE  Numbered(ResponseOf(v)) /\ ResponseOf(v).current.gen = 1
BY EmptyIsSeq DEF Numbered, ResponseOf

LEMMA NothingSent ==
  ASSUME NEW gen
  PROVE  SentInOrder(<<>>, gen) /\ Pending(<<>>, gen) = "None"
BY EmptyIsSeq DEF SentInOrder, Pending

LEMMA IdleWellFormed ==
  /\ WellFormed(Idle)
  /\ Idle.response = ResponseOf([lazy |-> TRUE, items |-> <<>>])
  /\ Idle.sent = <<>> /\ Idle.result = "None" /\ Idle.torn = <<>> /\ Idle.cut = <<>>
  /\ Idle.at = "idle" /\ Idle.mark = 0
<1>1. /\ Idle.response = ResponseOf([lazy |-> TRUE, items |-> <<>>])
      /\ Idle.sent = <<>> /\ Idle.result = "None" /\ Idle.torn = <<>> /\ Idle.cut = <<>>
      /\ Idle.at = "idle" /\ Idle.mark = 0 /\ DOMAIN Idle = Fields
  BY DEF Idle, Fields
<1>2. Numbered(Idle.response)
  BY <1>1, NewResponse
<1>3. SentInOrder(<<>>, Idle.response.current.gen)
      /\ Pending(<<>>, Idle.response.current.gen) = "None"
  BY NothingSent
<1> QED
  BY <1>1, <1>2, <1>3, EmptyIsSeq DEF WellFormed, Points, Passes

LEMMA Formed ==
  ASSUME Inv, ShapeInv, NEW p \in Processes
  PROVE  /\ WellFormed(req[p]) /\ req[p].mark \in 0..requests
         /\ req[p].at # "idle" => session[p].jid \in {req[p].jid, NoJid}
         /\ Len(req[p].torn) \in Nat /\ (req[p].torn = <<>> <=> Len(req[p].torn) = 0)
         /\ DOMAIN req = Processes /\ requests \in Nat
<1>1. WellFormed(req[p])
  BY DEF ShapeInv
<1>2. Len(req[p].torn) \in Nat /\ (req[p].torn = <<>> <=> Len(req[p].torn) = 0)
  BY <1>1, LenIsNatural DEF WellFormed
<1> QED
  BY <1>1, <1>2 DEF Inv, RequestInv, ShapeInv, SessionOfSender

\* A context is left: the response goes with the outer one.
LEMMA LeaveForms ==
  ASSUME Inv, ShapeInv, NEW p \in Processes, NEW exc, Leave(p, exc),
         Len(req[p].torn) < 3, req[p].at # "idle", UNCHANGED <<session, requests>>
  PROVE  \E r : Forms(p, r)
<1> USE FieldsOfIdle
<1> DEFINE o == req[p]
           q == IF o.torn = <<>> THEN o
                ELSE [o EXCEPT !.response = Idle.response, !.result = Idle.result,
                               !.sent = <<>>, !.ran = <<>>]
           todo == TeardownList(Len(q.torn) + 1)
           r == [q EXCEPT !.at = "teardown", !.exc = exc, !.todo = todo,
                          !.torn = Append(@, <<>>), !.cut = Append(@, FALSE)]
<1>1. /\ WellFormed(o) /\ o.mark \in 0..requests /\ session[p].jid \in {o.jid, NoJid}
      /\ Len(o.torn) \in Nat /\ (o.torn = <<>> <=> Len(o.torn) = 0)
  BY Formed
<1>2. /\ DOMAIN q = Fields /\ q.torn = o.torn /\ q.cut = o.cut /\ q.mark = o.mark
      /\ q.jid = o.jid /\ q.sent = <<>> /\ q.result = "None"
      /\ Numbered(q.response)
  <2>1. CASE o.torn = <<>>
    BY <1>1, <2>1 DEF WellFormed, Passes, Points
  <2>2. CASE o.torn # <<>>
    <3>1. Numbered(Idle.response) /\ Idle.result = "None"
      BY IdleWellFormed DEF WellFormed
    <3> HIDE DEF o
    <3> QED
      BY <1>1, <2>2, <3>1 DEF WellFormed
  <2> QED
    BY <2>1, <2>2
<1> HIDE DEF q, todo
<1>3. /\ DOMAIN r = Fields /\ r.at = "teardown" /\ r.mark = o.mark /\ r.jid = o.jid
      /\ r.sent = <<>> /\ r.result = "None" /\ r.response = q.response
      /\ r.torn = Append(o.torn, <<>>) /\ r.cut = Append(o.cut, FALSE)
  BY <1>2
<1>4. req' = [req EXCEPT ![p] = r]
  BY DEF Leave, Set, q, todo
<1> HIDE DEF r
<1>5. /\ IsSeq(r.torn) /\ Len(r.torn) = Len(o.torn) + 1
      /\ IsSeq(r.cut) /\ Len(r.cut) = Len(r.torn)
  <2>1. IsSeq(o.torn) /\ IsSeq(o.cut) /\ Len(o.cut) = Len(o.torn)
    BY <1>1 DEF WellFormed
  <2>2. IsSeq(Append(o.torn, <<>>)) /\ Len(Append(o.torn, <<>>)) = Len(o.torn) + 1
    BY <2>1, AppendIsSeq
  <2>3. IsSeq(Append(o.cut, FALSE)) /\ Len(Append(o.cut, FALSE)) = Len(o.cut) + 1
    BY <2>1, AppendIsSeq
  <2> QED
    BY <1>3, <2>1, <2>2, <2>3
<1>6. Len(r.torn) \in Passes("teardown")
  BY <1>1, <1>5 DEF Passes
<1>7. WellFormed(r)
  BY <1>2, <1>3, <1>5, <1>6, NothingSent DEF WellFormed, Points
<1> QED
  BY <1>1, <1>3, <1>4, <1>7 DEF Forms

\* A response is made: nothing of it has been sent.
LEMMA AnswerForms ==
  ASSUME Inv, ShapeInv, NEW p \in Processes, NEW v, Answer(p, v), req[p].at = "before",
         UNCHANGED <<session, requests>>
  PROVE  \E r : Forms(p, r)
<1> USE FieldsOfIdle
<1> DEFINE o == req[p]
           new == ResponseOf(IF v = Nothing THEN [lazy |-> FALSE, items |-> <<>>] ELSE v)
           r == [o EXCEPT !.at = "save", !.todo = <<>>, !.response = new]
<1>1. /\ WellFormed(o) /\ o.mark \in 0..requests /\ session[p].jid \in {o.jid, NoJid}
  BY Formed
<1>2. Numbered(new) /\ new.current.gen = 1
  BY NewResponse
<1>3. req' = [req EXCEPT ![p] = r]
  BY DEF Answer, Set
<1> HIDE DEF new
<1>4. /\ DOMAIN r = Fields /\ r.at = "save" /\ r.mark = o.mark /\ r.jid = o.jid
      /\ r.sent = o.sent /\ r.result = o.result /\ r.response = new
      /\ r.torn = o.torn /\ r.cut = o.cut
  BY <1>1 DEF WellFormed
<1> HIDE DEF r
<1>5. WellFormed(r)
  BY <1>1, <1>2, <1>4, NothingSent DEF WellFormed, Points, Passes
<1> QED
  BY <1>1, <1>3, <1>4, <1>5 DEF Forms

LEMMA HandleErrorForms ==
  ASSUME Inv, ShapeInv, NEW p \in Processes, NEW error, HandleError(p, error),
         req[p].at = "before", UNCHANGED <<session, requests>>
  PROVE  \E r : Forms(p, r)
<1>1. Leave(p, TRUE) \/ \E v : Answer(p, v)
  BY DEF HandleError
<1>2. Len(req[p].torn) < 3
  BY Formed DEF WellFormed, Passes
<1>3. CASE Leave(p, TRUE)
  BY <1>2, <1>3, LeaveForms
<1>4. CASE \E v : Answer(p, v)
  BY <1>4, AnswerForms
<1> QED
  BY <1>1, <1>3, <1>4

\* A step of one process that leaves the setup alone keeps the shape of all requests.
LEMMA FormsStep ==
  ASSUME Inv, ShapeInv, NEW p \in Processes, NEW r, Forms(p, r), UNCHANGED env,
         requests' \in Nat, requests <= requests', FiledUnderOwnJid',
         \A q \in Processes \ {p} : session'[q] = session[q]
  PROVE  ShapeInv'
<1>1. UNCHANGED <<app, setup, next>>
  BY DEF env, setupVars
<1>2. \A q \in Processes : req'[q] = IF q = p THEN r ELSE req[q]
  BY DEF Forms, Inv, RequestInv
<1>3. SessionOfSender'
  BY <1>2 DEF Forms, ShapeInv, SessionOfSender
<1>4. \A q \in Processes : WellFormed(req'[q]) /\ req'[q].mark \in 0..requests'
  BY <1>2 DEF Forms, ShapeInv, Inv, RequestInv
<1> QED
  BY <1>1, <1>3, <1>4 DEF ShapeInv

\* The steps that do not touch the sessions.
LEMMA QuietForms ==
  ASSUME Inv, ShapeInv, NEW p \in Processes, \E r : Forms(p, r),
         UNCHANGED <<env, redisVars, requests>>
  PROVE  ShapeInv'
<1>1. UNCHANGED <<session, storage>>
  BY DEF redisVars, server
<1>2. FiledUnderOwnJid'
  BY <1>1 DEF ShapeInv, FiledUnderOwnJid
<1>3. requests' \in Nat /\ requests <= requests'
  BY DEF Inv, RequestInv
<1> QED
  BY <1>1, <1>2, <1>3, FormsStep

\* A step within one point that changes neither response nor passes.
LEMMA StaysFormed ==
  ASSUME Inv, ShapeInv, NEW p \in Processes, NEW r, Set(p, r), UNCHANGED <<session, requests>>,
         DOMAIN r = Fields,
         \A f \in Fields \ {"todo", "ran", "exc"} : r[f] = req[p][f]
  PROVE  Forms(p, r)
<1>1. /\ r.at = req[p].at /\ r.mark = req[p].mark /\ r.jid = req[p].jid
      /\ r.torn = req[p].torn /\ r.cut = req[p].cut
      /\ r.response = req[p].response /\ r.result = req[p].result /\ r.sent = req[p].sent
  BY FieldsOfIdle
<1> QED
  BY <1>1, Formed DEF Forms, Set, WellFormed

LEMMA BeginForms ==
  ASSUME Inv, ShapeInv, NEW p \in Processes, Begin(p)
  PROVE  ShapeInv'
<1> USE FieldsOfIdle
<1>1. PICK j \in Jids, e \in app.endpoints \cup {NoRule} :
        /\ Open(p, j)
        /\ Set(p, [Idle EXCEPT !.at = "before", !.jid = j, !.endpoint = e,
                               !.mark = requests', !.todo = Functions(HooksFor("before", AppWide))])
  BY DEF Begin
<1> DEFINE todo == Functions(HooksFor("before", AppWide))
           r == [Idle EXCEPT !.at = "before", !.jid = j, !.endpoint = e,
                             !.mark = requests', !.todo = todo]
<1>2. req' = [req EXCEPT ![p] = r]
  BY <1>1 DEF Set
<1> HIDE DEF todo
<1>3. requests \in Nat /\ requests' = requests + 1
  BY DEF Begin, Inv, RequestInv
<1>4. /\ DOMAIN r = Fields /\ r.at = "before" /\ r.mark = requests' /\ r.jid = j
      /\ r.sent = Idle.sent /\ r.result = Idle.result /\ r.response = Idle.response
      /\ r.torn = Idle.torn /\ r.cut = Idle.cut
  BY DEF Fields
<1> HIDE DEF r
<1>5. WellFormed(r)
  <2>1. r.response.current.gen = 1
    BY <1>4, IdleWellFormed, NewResponse
  <2> QED
    BY <1>4, <2>1, IdleWellFormed DEF WellFormed, Points, Passes
<1>6. session'[p].jid \in {j, NoJid} /\ \A q \in Processes \ {p} : session'[q] = session[q]
  <2>1. j \in Keys
    BY DEF Keys
  <2>2. storage[j] \in Documents => storage[j].jid = j
    BY <2>1 DEF ShapeInv, FiledUnderOwnJid
  <2>3. DOMAIN session = Processes
    BY DEF Inv, RedisInv, RedisTypeOK
  <2> QED
    BY <1>1, <2>2, <2>3 DEF Open, LoadedFrom, NewSession
<1>7. FiledUnderOwnJid'
  BY <1>1 DEF Open, server, ShapeInv, FiledUnderOwnJid
<1>8. Forms(p, r) /\ UNCHANGED env
  BY <1>2, <1>3, <1>4, <1>5, <1>6 DEF Forms, Begin
<1> QED
  BY <1>3, <1>6, <1>7, <1>8, FormsStep

\* No session is opened, and the contexts that were not entered count as left.
LEMMA BeginFailsForms ==
  ASSUME Inv, ShapeInv, NEW p \in Processes, BeginFails(p)
  PROVE  ShapeInv'
<1> USE FieldsOfIdle
<1>1. PICK j \in Jids, pass \in {2, 3} :
        /\ OpenFails(p, j)
        /\ Set(p, [Idle EXCEPT !.at = "teardown", !.jid = j, !.mark = requests', !.exc = TRUE,
                               !.todo = TeardownList(pass),
                               !.torn = [n \in 1..pass |-> <<>>],
                               !.cut = [n \in 1..pass |-> n < pass]])
  BY DEF BeginFails
<1> DEFINE todo == TeardownList(pass)
           torn == [n \in 1..pass |-> <<>>]
           cut == [n \in 1..pass |-> n < pass]
           r == [Idle EXCEPT !.at = "teardown", !.jid = j, !.mark = requests', !.exc = TRUE,
                             !.todo = todo, !.torn = torn, !.cut = cut]
<1>2. req' = [req EXCEPT ![p] = r]
  BY <1>1 DEF Set
<1>3. IsSeq(torn) /\ Len(torn) = pass /\ IsSeq(cut) /\ Len(cut) = pass
  <2>1. pass \in Nat
    BY <1>1
  <2>2. IsSeq(torn) /\ Len(torn) = pass
    BY <2>1, FunctionIsSeq
  <2>3. IsSeq(cut) /\ Len(cut) = pass
    BY <2>1, FunctionIsSeq
  <2> QED
    BY <2>2, <2>3
<1> HIDE DEF todo, torn, cut
<1>4. requests \in Nat /\ requests' = requests + 1
  BY DEF BeginFails, Inv, RequestInv
<1>5. /\ DOMAIN r = Fields /\ r.at = "teardown" /\ r.mark = requests' /\ r.jid = j
      /\ r.sent = Idle.sent /\ r.result = Idle.result /\ r.response = Idle.response
      /\ r.torn = torn /\ r.cut = cut
  BY DEF Fields
<1> HIDE DEF r
<1>6. WellFormed(r)
  <2>1. Len(r.torn) \in 1..3
    BY <1>1, <1>3, <1>5
  <2> QED
    BY <1>3, <1>5, <2>1, IdleWellFormed DEF WellFormed, Points, Passes
<1>7. session'[p].jid = NoJid /\ \A q \in Processes \ {p} : session'[q] = session[q]
  BY <1>1 DEF OpenFails, NoSession, Inv, RedisInv, RedisTypeOK
<1>8. FiledUnderOwnJid'
  BY <1>1 DEF OpenFails, server, ShapeInv, FiledUnderOwnJid
<1>9. Forms(p, r) /\ UNCHANGED env
  BY <1>2, <1>4, <1>5, <1>6, <1>7 DEF Forms, BeginFails
<1> QED
  BY <1>4, <1>7, <1>8, <1>9, FormsStep

LEMMA BeforeHookForms ==
  ASSUME Inv, ShapeInv, NEW p \in Processes, BeforeHook(p)
  PROVE  ShapeInv'
<1>1. /\ UNCHANGED <<env, redisVars, requests>> /\ req[p].at = "before"
      /\ UNCHANGED <<session, requests>>
  BY DEF BeforeHook, At, redisVars
<1>2. CASE Set(p, [req[p] EXCEPT !.todo = Tail(@)])
  <2> DEFINE todo == Tail(req[p].todo)
             r == [req[p] EXCEPT !.todo = todo]
  <2>1. Set(p, r)
    BY <1>2
  <2>2. DOMAIN r = Fields /\ \A f \in Fields \ {"todo", "ran", "exc"} : r[f] = req[p][f]
    BY Formed, FieldsOfIdle DEF WellFormed
  <2>3. Forms(p, r)
    BY <1>1, <2>1, <2>2, StaysFormed
  <2> QED
    BY <1>1, <2>3, QuietForms
<1>3. CASE \E v : Answer(p, v)
  BY <1>1, <1>3, AnswerForms, QuietForms
<1>4. CASE HandleError(p, "Error")
  BY <1>1, <1>4, HandleErrorForms, QuietForms
<1> QED
  BY <1>2, <1>3, <1>4 DEF BeforeHook

LEMMA ViewUsesSessionForms ==
  ASSUME Inv, ShapeInv, NEW p \in Processes, ViewUsesSession(p)
  PROVE  ShapeInv'
<1>1. /\ req[p].at = "before" /\ UNCHANGED <<env, requests, req>>
      /\ Write(p, req[p].mark) \/ SetPermanent(p, TRUE) \/ Clear(p)
  BY DEF ViewUsesSession, InView, At
<1>2. UNCHANGED <<app, setup, next, storage>>
  BY <1>1 DEF env, setupVars, Write, SetPermanent, Clear, server
<1>3. \A q \in Processes : session'[q].jid \in {session[q].jid, NoJid}
  <2>1. session \in [Processes -> Sessions]
    BY DEF Inv, RedisInv, RedisTypeOK
  <2> QED
    BY <1>1, <2>1 DEF Write, SetPermanent, Clear, NoSession, Sessions
<1> QED
  BY <1>1, <1>2, <1>3 DEF ShapeInv, FiledUnderOwnJid, SessionOfSender

LEMMA DispatchForms ==
  ASSUME Inv, ShapeInv, NEW p \in Processes, View(p)
  PROVE  ShapeInv'
<1>1. /\ UNCHANGED <<env, redisVars, requests>> /\ req[p].at = "before"
      /\ UNCHANGED <<session, requests>>
  BY DEF View, InView, At, redisVars
<1>2. CASE \E error : HandleError(p, error)
  BY <1>1, <1>2, HandleErrorForms, QuietForms
<1>3. CASE \E v : Answer(p, v)
  BY <1>1, <1>3, AnswerForms, QuietForms
<1> QED
  BY <1>2, <1>3 DEF View

\* save_session stores the document under the JID that is in it.
LEMMA SaveSessionForms ==
  ASSUME Inv, ShapeInv, NEW p \in Processes, SaveSession(p)
  PROVE  ShapeInv'
<1>1. req[p].at = "save" /\ UNCHANGED <<env, requests>> /\ WellFormed(req[p])
  BY Formed DEF SaveSession, At
<1>2. CASE Save(p) /\ Set(p, [req[p] EXCEPT !.at = "after", !.todo = AfterHooks(req[p].endpoint)])
  <2> DEFINE o == req[p]
             todo == AfterHooks(req[p].endpoint)
             r == [o EXCEPT !.at = "after", !.todo = todo]
  <2>1. req' = [req EXCEPT ![p] = r]
    BY <1>2 DEF Set
  <2> HIDE DEF todo
  <2>2. /\ DOMAIN r = Fields /\ r.at = "after" /\ r.mark = o.mark /\ r.jid = o.jid
        /\ r.sent = o.sent /\ r.result = o.result /\ r.response = o.response
        /\ r.torn = o.torn /\ r.cut = o.cut
    BY <1>1, FieldsOfIdle DEF WellFormed
  <2> HIDE DEF r
  <2>3. WellFormed(r)
    BY <1>1, <2>2 DEF WellFormed, Points, Passes
  <2>4. UNCHANGED session
    BY <1>2 DEF Save
  <2>5. Forms(p, r)
    BY <1>1, <2>1, <2>2, <2>3, <2>4, Formed DEF Forms
  <2>6. FiledUnderOwnJid'
    <3>1. session[p].jid \in Keys /\ storage \in [Keys -> StoredValues]
      BY DEF Inv, RedisInv, RedisTypeOK, Sessions
    <3>2. storage' = [storage EXCEPT ![session[p].jid] = DocumentOf(session[p])]
      BY <1>2 DEF Save
    <3>3. DocumentOf(session[p]).jid = session[p].jid
      BY DEF DocumentOf
    <3> QED
      BY <3>1, <3>2, <3>3 DEF ShapeInv, FiledUnderOwnJid
  <2> QED
    BY <1>1, <2>4, <2>5, <2>6, FormsStep DEF Inv, RequestInv
<1>3. CASE Leave(p, TRUE) /\ UNCHANGED redisVars
  <2>1. Len(req[p].torn) < 3
    BY <1>1, Formed DEF WellFormed, Passes
  <2>2. UNCHANGED session
    BY <1>3 DEF redisVars
  <2> QED
    BY <1>1, <1>3, <2>1, <2>2, LeaveForms, QuietForms
<1> QED
  BY <1>2, <1>3 DEF SaveSession

\* The first iterator is current while responses are appended to it.
LEMMA CalledNumbered ==
  ASSUME NEW response, NEW v, Numbered(response), response.current.gen = 1
  PROVE  Numbered(Called(response, v)) /\ Called(response, v).current = response.current
<1> DEFINE queue == response.queue
           last == [gen |-> Len(queue) + 2, items |-> Wrap(v)]
           c == Called(response, v)
<1>1. /\ DOMAIN c = {"current", "queue"} /\ c.current = response.current
      /\ c.queue = Append(queue, last)
  BY DEF Numbered, Called
<1>2. /\ IsSeq(c.queue) /\ Len(c.queue) = Len(queue) + 1
      /\ c.queue[Len(queue) + 1] = last /\ \A i \in 1..Len(queue) : c.queue[i] = queue[i]
  BY <1>1, AppendIsSeq DEF Numbered
<1>3. Len(queue) \in Nat /\ DOMAIN queue = 1..Len(queue) /\ DOMAIN c.queue = 1..Len(c.queue)
  BY <1>2, LenIsNatural DEF Numbered
<1>4. DOMAIN last = {"gen", "items"} /\ last.gen = Len(queue) + 2
  OBVIOUS
<1> HIDE DEF last, c
<1>5. \A i \in DOMAIN c.queue :
        DOMAIN c.queue[i] = {"gen", "items"} /\ c.queue[i].gen = c.current.gen + i
  <2> SUFFICES ASSUME NEW i \in DOMAIN c.queue
               PROVE  DOMAIN c.queue[i] = {"gen", "items"} /\ c.queue[i].gen = c.current.gen + i
    OBVIOUS
  <2>1. CASE i = Len(queue) + 1
    BY <1>1, <1>2, <1>3, <1>4, <2>1
  <2>2. CASE i # Len(queue) + 1
    BY <1>1, <1>2, <1>3, <2>2 DEF Numbered
  <2> QED
    BY <2>1, <2>2
<1> QED
  BY <1>1, <1>2, <1>5 DEF Numbered, c

LEMMA AfterHookForms ==
  ASSUME Inv, ShapeInv, NEW p \in Processes, AfterHook(p) \/ AfterHooksDone(p)
  PROVE  ShapeInv'
<1>1. /\ UNCHANGED <<env, redisVars, requests>> /\ req[p].at = "after"
      /\ UNCHANGED <<session, requests>> /\ WellFormed(req[p])
  BY Formed DEF AfterHook, AfterHooksDone, At, redisVars
<1>2. CASE \E exc : Leave(p, exc)
  <2>1. Len(req[p].torn) < 3
    BY <1>1, Formed DEF WellFormed, Passes
  <2> QED
    BY <1>1, <1>2, <2>1, LeaveForms, QuietForms
<1> DEFINE todo == Tail(req[p].todo)
           ran == Append(req[p].ran, Head(req[p].todo))
           r == [req[p] EXCEPT !.todo = todo, !.ran = ran]
<1>3. CASE Set(p, r)
  <2> HIDE DEF todo, ran
  <2>1. DOMAIN r = Fields /\ \A f \in Fields \ {"todo", "ran", "exc"} : r[f] = req[p][f]
    BY <1>1, FieldsOfIdle DEF WellFormed
  <2>2. Forms(p, r)
    BY <1>1, <1>3, <2>1, StaysFormed
  <2> QED
    BY <1>1, <2>2, QuietForms
<1>4. ASSUME NEW v, Set(p, [r EXCEPT !.response = Called(@, v)])
      PROVE  ShapeInv'
  <2> DEFINE o == req[p]
             new == Called(o.response, v)
             c == [r EXCEPT !.response = new]
  <2>1. o.response = r.response
    BY <1>1, FieldsOfIdle DEF WellFormed
  <2>2. req' = [req EXCEPT ![p] = c]
    BY <1>4, <2>1 DEF Set
  <2>3. Numbered(new) /\ new.current = o.response.current
    BY <1>1, CalledNumbered DEF WellFormed
  <2> HIDE DEF todo, ran, new
  <2>4. /\ DOMAIN c = Fields /\ c.at = o.at /\ c.mark = o.mark /\ c.jid = o.jid
        /\ c.sent = o.sent /\ c.result = o.result /\ c.response = new
        /\ c.torn = o.torn /\ c.cut = o.cut
    BY <1>1, FieldsOfIdle DEF WellFormed
  <2> HIDE DEF c
  <2>5. WellFormed(c)
    BY <1>1, <2>3, <2>4 DEF WellFormed
  <2>6. Forms(p, c)
    BY <1>1, <2>2, <2>4, <2>5, Formed DEF Forms
  <2> QED
    BY <1>1, <2>6, QuietForms
<1> QED
  BY <1>2, <1>3, <1>4 DEF AfterHook, AfterHooksDone

\* A command's result is given to the iterator that asked for it.
LEMMA ItemSent ==
  ASSUME NEW sent, NEW gen \in Nat, NEW item, NEW entry, SentInOrder(sent, gen),
         entry = [gen |-> gen, item |-> item, got |-> Pending(sent, gen)]
  PROVE  /\ SentInOrder(Append(sent, entry), gen)
         /\ Pending(Append(sent, entry), gen) = ResultOf(item)
<1> DEFINE n == Len(sent)
           new == Append(sent, entry)
<1>1. /\ n \in Nat /\ DOMAIN sent = 1..n /\ (sent = <<>> <=> n = 0)
      /\ \A i \in DOMAIN sent : sent[i].gen \in Nat /\ sent[i].gen <= gen
  BY LenIsNatural DEF SentInOrder
<1>2. /\ IsSeq(new) /\ Len(new) = n + 1 /\ new[n + 1] = entry
      /\ \A i \in 1..n : new[i] = sent[i]
  <2>1. IsSeq(sent)
    BY DEF SentInOrder
  <2> QED
    BY ONLY <2>1, AppendIsSeq
<1>4. entry.gen = gen /\ entry.item = item /\ entry.got = Pending(sent, gen)
  OBVIOUS
<1> HIDE DEF new
<1>3. DOMAIN new = 1..n + 1 /\ new # <<>>
  BY <1>1, <1>2, LenIsNatural
<1>5. \A i \in DOMAIN new : new[i].gen \in Nat /\ new[i].gen <= gen
  BY <1>1, <1>2, <1>3, <1>4
<1>6. ASSUME NEW i \in DOMAIN new
      PROVE  LET fresh == i = 1 \/ new[i - 1].gen # new[i].gen IN
             /\ new[i].got = IF fresh THEN "None" ELSE ResultOf(new[i - 1].item)
             /\ i > 1 => new[i - 1].gen <= new[i].gen
  <2>1. CASE i \in 1..n
    <3>1. new[i] = sent[i] /\ (i > 1 => new[i - 1] = sent[i - 1])
      BY <1>1, <1>2, <2>1
    <3> QED
      BY <1>1, <2>1, <3>1 DEF SentInOrder
  <2>2. CASE i = n + 1 /\ n = 0
    <3>1. i = 1 /\ new[i] = entry /\ sent = <<>>
      BY <1>1, <1>2, <2>2
    <3> QED
      BY <1>4, <3>1 DEF Pending
  <2>3. CASE i = n + 1 /\ n > 0
    <3>1. /\ i # 1 /\ new[i] = entry /\ new[i - 1] = sent[n] /\ sent # <<>>
          /\ sent[n].gen <= gen
      BY <1>1, <1>2, <2>3
    <3> QED
      BY <1>4, <3>1 DEF Pending
  <2> QED
    BY <1>1, <1>3, <2>1, <2>2, <2>3
<1>7. SentInOrder(new, gen)
  BY <1>2, <1>5, <1>6 DEF SentInOrder
<1>8. Pending(new, gen) = ResultOf(item)
  BY <1>1, <1>2, <1>3, <1>4 DEF Pending
<1> QED
  BY <1>7, <1>8 DEF new

\* A new iterator has asked for nothing.
LEMMA IteratorStarted ==
  ASSUME NEW sent, NEW gen \in Nat, NEW later \in Nat, gen < later, SentInOrder(sent, gen)
  PROVE  SentInOrder(sent, later) /\ Pending(sent, later) = "None"
<1>1. /\ Len(sent) \in Nat /\ DOMAIN sent = 1..Len(sent) /\ (sent = <<>> <=> Len(sent) = 0)
  BY LenIsNatural DEF SentInOrder
<1>2. \A i \in DOMAIN sent : sent[i].gen \in Nat /\ sent[i].gen <= later /\ sent[i].gen # later
  BY DEF SentInOrder
<1>3. SentInOrder(sent, later)
  BY <1>2 DEF SentInOrder
<1>4. sent # <<>> => Len(sent) \in DOMAIN sent
  BY <1>1
<1> QED
  BY <1>2, <1>3, <1>4 DEF Pending

LEMMA NextNumbered ==
  ASSUME NEW response, Numbered(response), response.queue # <<>>
  PROVE  /\ Numbered(NextIterator(response))
         /\ NextIterator(response).current.gen = response.current.gen + 1
<1> DEFINE queue == response.queue
           next2 == NextIterator(response)
<1>1. /\ DOMAIN next2 = {"current", "queue"} /\ next2.current = Head(queue)
      /\ next2.queue = Tail(queue)
  BY DEF NextIterator
<1>2. /\ IsSeq(Tail(queue)) /\ Len(Tail(queue)) = Len(queue) - 1
      /\ \A i \in 1..Len(queue) - 1 : Tail(queue)[i] = queue[i + 1]
      /\ Head(queue) = queue[1] /\ 1 \in DOMAIN queue
  BY TailIsSeq DEF Numbered
<1>3. /\ Len(queue) \in Nat /\ DOMAIN queue = 1..Len(queue)
      /\ DOMAIN Tail(queue) = 1..Len(queue) - 1
  BY <1>2, LenIsNatural DEF Numbered
<1> HIDE DEF next2
<1>4. /\ DOMAIN next2.current = {"gen", "items"}
      /\ next2.current.gen = response.current.gen + 1 /\ response.current.gen \in Nat
  BY <1>1, <1>2 DEF Numbered
<1>5. \A i \in DOMAIN next2.queue :
        DOMAIN next2.queue[i] = {"gen", "items"} /\ next2.queue[i].gen = next2.current.gen + i
  <2> SUFFICES ASSUME NEW i \in 1..Len(queue) - 1
               PROVE  /\ DOMAIN next2.queue[i] = {"gen", "items"}
                      /\ next2.queue[i].gen = next2.current.gen + i
    BY <1>1, <1>3
  <2>1. next2.queue[i] = queue[i + 1] /\ i + 1 \in DOMAIN queue
    BY <1>1, <1>2, <1>3
  <2>2. /\ DOMAIN queue[i + 1] = {"gen", "items"}
        /\ queue[i + 1].gen = response.current.gen + (i + 1)
    BY <2>1 DEF Numbered
  <2>3. response.current.gen + (i + 1) = next2.current.gen + i
    BY <1>4
  <2> QED
    BY <2>1, <2>2, <2>3
<1> QED
  BY <1>1, <1>2, <1>4, <1>5 DEF Numbered, next2

LEMMA SendForms ==
  ASSUME Inv, ShapeInv, NEW p \in Processes, SendItem(p) \/ SendNext(p) \/ ResponseSent(p)
  PROVE  ShapeInv'
<1> DEFINE o == req[p]
           gen == o.response.current.gen
<1>1. /\ UNCHANGED <<env, redisVars, requests>> /\ o.at = "send"
      /\ UNCHANGED <<session, requests>> /\ WellFormed(o) /\ o.mark \in 0..requests
      /\ session[p].jid \in {o.jid, NoJid}
  BY Formed DEF SendItem, SendNext, ResponseSent, At, redisVars
<1>2. CASE \E exc : Leave(p, exc)
  <2>1. Len(req[p].torn) < 3
    BY <1>1, Formed DEF WellFormed, Passes
  <2> QED
    BY <1>1, <1>2, <2>1, LeaveForms, QuietForms
<1>3. ASSUME NEW new, NEW result, NEW sent, Numbered(new),
             SentInOrder(sent, new.current.gen), result = Pending(sent, new.current.gen),
             Set(p, [o EXCEPT !.response = new, !.result = result, !.sent = sent])
      PROVE  ShapeInv'
  <2> DEFINE r == [o EXCEPT !.response = new, !.result = result, !.sent = sent]
  <2>1. /\ DOMAIN r = Fields /\ r.at = "send" /\ r.mark = o.mark /\ r.jid = o.jid
        /\ r.sent = sent /\ r.result = result /\ r.response = new
        /\ r.torn = o.torn /\ r.cut = o.cut
    BY <1>1, FieldsOfIdle DEF WellFormed
  <2>2. req' = [req EXCEPT ![p] = r]
    BY <1>3 DEF Set
  <2> HIDE DEF r
  <2>3. WellFormed(r)
    BY <1>1, <1>3, <2>1 DEF WellFormed
  <2>4. Forms(p, r)
    BY <1>1, <2>1, <2>2, <2>3 DEF Forms
  <2> QED
    BY <1>1, <2>4, QuietForms
<1>4. /\ Numbered(o.response) /\ SentInOrder(o.sent, gen) /\ o.result = Pending(o.sent, gen)
      /\ gen \in Nat
  BY <1>1 DEF WellFormed, Numbered
<1>5. ASSUME SendItem(p), \A exc : ~Leave(p, exc) PROVE ShapeInv'
  <2> DEFINE item == Item(o.response)
             entry == [gen |-> gen, item |-> item, got |-> o.result]
             new == AfterItem(o.response)
  <2>1. Set(p, [o EXCEPT !.response = new, !.result = ResultOf(item),
                         !.sent = Append(o.sent, entry)])
    <3>1. o.response = o.response /\ DOMAIN o = Fields
      BY <1>1 DEF WellFormed
    <3> QED
      BY <1>5, <3>1, FieldsOfIdle DEF SendItem
  <2>2. Numbered(new) /\ new.current.gen = gen
    <3>1. /\ DOMAIN new = {"current", "queue"} /\ new.queue = o.response.queue
          /\ DOMAIN new.current = {"gen", "items"} /\ new.current.gen = gen
      BY <1>4 DEF AfterItem, Numbered
    <3> QED
      BY <1>4, <3>1 DEF Numbered
  <2> HIDE DEF item, new
  <2>3. SentInOrder(Append(o.sent, entry), gen) /\ Pending(Append(o.sent, entry), gen) = ResultOf(item)
    BY <1>4, ItemSent
  <2> QED
    BY <1>3, <2>1, <2>2, <2>3
<1>6. CASE SendNext(p)
  <2> DEFINE new == NextIterator(o.response)
  <2>1. /\ o.response.queue # <<>>
        /\ Set(p, [o EXCEPT !.response = new, !.result = "None"])
    BY <1>6 DEF SendNext
  <2>2. Numbered(new) /\ new.current.gen = gen + 1
    BY <1>4, <2>1, NextNumbered
  <2> HIDE DEF new
  <2>3. SentInOrder(o.sent, new.current.gen) /\ Pending(o.sent, new.current.gen) = "None"
    BY <1>4, <2>2, IteratorStarted
  <2>4. [o EXCEPT !.response = new, !.result = "None"]
          = [o EXCEPT !.response = new, !.result = "None", !.sent = o.sent]
    BY <1>1, FieldsOfIdle DEF WellFormed
  <2> QED
    BY <1>3, <2>1, <2>2, <2>3, <2>4
<1>7. CASE ResponseSent(p)
  BY <1>2, <1>7 DEF ResponseSent
<1> QED
  BY <1>2, <1>5, <1>6, <1>7

LEMMA TeardownForms ==
  ASSUME Inv, ShapeInv, NEW p \in Processes, Teardown(p)
  PROVE  ShapeInv'
<1> DEFINE o == req[p]
           pass == Len(o.torn)
           todo == Tail(o.todo)
           list == Append(o.torn[pass], Head(o.todo))
           ran == [o EXCEPT !.todo = todo, !.torn[pass] = list]
           stopped == [ran EXCEPT !.todo = <<>>, !.cut[pass] = TRUE]
           raised == [stopped EXCEPT !.exc = TRUE]
<1>1. /\ UNCHANGED <<env, redisVars, requests>> /\ o.at = "teardown"
      /\ UNCHANGED <<session, requests>> /\ WellFormed(o) /\ o.mark \in 0..requests
      /\ session[p].jid \in {o.jid, NoJid}
  BY Formed DEF Teardown, At, redisVars
<1>2. Set(p, ran) \/ Set(p, stopped) \/ Set(p, raised)
  <2>1. DOMAIN o = Fields
    BY <1>1 DEF WellFormed
  <2>2. ran = [o EXCEPT !.todo = Tail(@), !.torn[pass] = Append(@, Head(o.todo))]
    BY <2>1, FieldsOfIdle
  <2> QED
    BY <2>2 DEF Teardown
<1>3. ASSUME NEW r, Set(p, r), DOMAIN r = Fields,
             r.torn = [o.torn EXCEPT ![pass] = list],
             r.cut = o.cut \/ r.cut = [o.cut EXCEPT ![pass] = TRUE],
             \A f \in Fields \ {"todo", "exc", "torn", "cut"} : r[f] = o[f]
      PROVE  ShapeInv'
  <2> HIDE DEF list
  <2>1. /\ r.at = "teardown" /\ r.mark = o.mark /\ r.jid = o.jid
        /\ r.sent = o.sent /\ r.result = o.result /\ r.response = o.response
    BY <1>1, <1>3, FieldsOfIdle
  <2>2. IsSeq(o.torn) /\ IsSeq(o.cut) /\ Len(o.cut) = Len(o.torn)
    BY <1>1 DEF WellFormed
  <2>3. IsSeq(r.torn) /\ Len(r.torn) = Len(o.torn)
    <3>1. PICK torn, pass1 : torn = o.torn /\ pass1 = pass
      OBVIOUS
    <3>2. IsSeq(torn) /\ r.torn = [torn EXCEPT ![pass1] = list]
      BY <1>3, <2>2, <3>1
    <3>3. IsSeq(r.torn) /\ Len(r.torn) = Len(torn)
      BY ONLY <3>2, ExceptIsSeq
    <3> QED
      BY <3>1, <3>3
  <2>4. IsSeq(r.cut) /\ Len(r.cut) = Len(o.cut)
    <3>1. PICK cut, pass1, flag : cut = o.cut /\ pass1 = pass /\ flag = TRUE
      OBVIOUS
    <3>2. IsSeq(cut) /\ (r.cut = cut \/ r.cut = [cut EXCEPT ![pass1] = flag])
      BY <1>3, <2>2, <3>1
    <3>3. ASSUME r.cut = [cut EXCEPT ![pass1] = flag]
          PROVE  IsSeq(r.cut) /\ Len(r.cut) = Len(cut)
      <4>1. IsSeq(cut) /\ r.cut = [cut EXCEPT ![pass1] = flag]
        BY <3>2, <3>3
      <4> QED
        BY ONLY <4>1, ExceptIsSeq
    <3> QED
      BY <3>1, <3>2, <3>3
  <2>5. WellFormed(r)
    BY <1>1, <1>3, <2>1, <2>2, <2>3, <2>4 DEF WellFormed
  <2>6. Forms(p, r)
    BY <1>1, <1>3, <2>1, <2>5 DEF Forms, Set
  <2> QED
    BY <1>1, <2>6, QuietForms
<1>4. DOMAIN o = Fields
  BY <1>1 DEF WellFormed
<1> HIDE DEF todo, list, o
<1>5. /\ DOMAIN ran = Fields /\ ran.torn = [o.torn EXCEPT ![pass] = list] /\ ran.cut = o.cut
      /\ \A f \in Fields \ {"todo", "exc", "torn", "cut"} : ran[f] = o[f]
  BY <1>4, FieldsOfIdle
<1> HIDE DEF ran
<1>6. /\ DOMAIN stopped = Fields /\ stopped.torn = ran.torn
      /\ stopped.cut = [o.cut EXCEPT ![pass] = TRUE]
      /\ \A f \in Fields \ {"todo", "exc", "torn", "cut"} : stopped[f] = o[f]
  BY <1>5, FieldsOfIdle
<1> HIDE DEF stopped
<1>7. /\ DOMAIN raised = Fields /\ raised.torn = ran.torn /\ raised.cut = stopped.cut
      /\ \A f \in Fields \ {"todo", "exc", "torn", "cut"} : raised[f] = o[f]
  BY <1>6, FieldsOfIdle
<1> HIDE DEF raised
<1> QED
  BY <1>2, <1>3, <1>5, <1>6, <1>7

LEMMA TeardownDoneForms ==
  ASSUME Inv, ShapeInv, NEW p \in Processes, TeardownDone(p)
  PROVE  ShapeInv'
<1> DEFINE o == req[p]
<1>1. /\ UNCHANGED <<env, redisVars, requests>> /\ o.at = "teardown"
      /\ UNCHANGED <<session, requests>> /\ WellFormed(o) /\ o.mark \in 0..requests
      /\ session[p].jid \in {o.jid, NoJid} /\ requests \in Nat
  BY Formed DEF TeardownDone, At, redisVars
<1>2. ASSUME NEW exc, Leave(p, exc), Len(o.torn) = 1 \/ Len(o.torn) = 2 PROVE ShapeInv'
  <2>1. PICK passes \in {1, 2} : Len(req[p].torn) = passes
    BY <1>2
  <2>2. Len(req[p].torn) < 3 /\ req[p].at # "idle"
    BY <1>1, <2>1
  <2>3. \E r : Forms(p, r)
    BY <1>1, <1>2, <2>2, LeaveForms
  <2> QED
    BY <1>1, <2>3, QuietForms
<1>3. CASE Len(o.torn) = 1 /\ Set(p, [o EXCEPT !.at = "send"])
  <2> DEFINE r == [o EXCEPT !.at = "send"]
  <2>1. /\ DOMAIN r = Fields /\ r.at = "send" /\ r.mark = o.mark /\ r.jid = o.jid
        /\ r.sent = o.sent /\ r.result = o.result /\ r.response = o.response
        /\ r.torn = o.torn /\ r.cut = o.cut
    BY <1>1, FieldsOfIdle DEF WellFormed
  <2>2. req' = [req EXCEPT ![p] = r]
    BY <1>3 DEF Set
  <2> HIDE DEF r
  <2>3. WellFormed(r)
    BY <1>1, <1>3, <2>1 DEF WellFormed, Points, Passes
  <2>4. Forms(p, r)
    BY <1>1, <2>1, <2>2, <2>3 DEF Forms
  <2> QED
    BY <1>1, <2>4, QuietForms
<1>4. CASE Len(o.torn) = 3 /\ Set(p, [Idle EXCEPT !.torn = o.torn, !.cut = o.cut])
  <2> DEFINE r == [Idle EXCEPT !.torn = o.torn, !.cut = o.cut]
  <2>1. DOMAIN Idle = Fields
    BY DEF Fields
  <2>2. /\ DOMAIN r = Fields /\ r.at = Idle.at /\ r.mark = Idle.mark
        /\ r.sent = Idle.sent /\ r.result = Idle.result /\ r.response = Idle.response
        /\ r.torn = o.torn /\ r.cut = o.cut
    BY <2>1, FieldsOfIdle
  <2>3. req' = [req EXCEPT ![p] = r]
    BY <1>4 DEF Set
  <2> HIDE DEF r
  <2>4. WellFormed(r)
    BY <1>1, <1>4, <2>2, IdleWellFormed DEF WellFormed, Points, Passes
  <2>5. Forms(p, r)
    BY <1>1, <2>2, <2>3, <2>4, IdleWellFormed DEF Forms
  <2> QED
    BY <1>1, <2>5, QuietForms
<1> QED
  BY <1>2, <1>3, <1>4 DEF TeardownDone

LEMMA InitShape == Init => ShapeInv
<1> SUFFICES ASSUME Init PROVE ShapeInv
  OBVIOUS
<1>1. app \in Deployments /\ setup \in Setups /\ next = 1 /\ requests = 0
  BY DEF Init, SetupInit
<1>2. IsSeq(setup)
  BY <1>1, SetupsAreSequences DEF IsSeq
<1>3. next \in 1..Len(setup) + 1
  BY <1>1, <1>2, LenIsNatural
<1>4. FiledUnderOwnJid
  BY NoDocuments DEF Init, RedisInit, FiledUnderOwnJid
<1>5. \A p \in Processes : req[p] = Idle
  BY DEF Init
<1> QED
  BY <1>1, <1>2, <1>3, <1>4, <1>5, IdleWellFormed DEF ShapeInv, SessionOfSender

LEMMA NextShape == Inv /\ ShapeInv /\ [Next]_vars => ShapeInv'
<1> SUFFICES ASSUME Inv, ShapeInv, [Next]_vars PROVE ShapeInv'
  OBVIOUS
<1>1. ASSUME UNCHANGED <<app, setup, session, req, requests>>, next' \in 1..Len(setup) + 1,
             FiledUnderOwnJid'
      PROVE  ShapeInv'
  BY <1>1 DEF ShapeInv, SessionOfSender
<1>2. CASE SettingUp
  <2>1. /\ UNCHANGED <<app, setup, redisVars, req, requests>> /\ next' = next + 1
        /\ next <= Len(setup)
    BY <1>2 DEF SettingUp, Configure, Decorate, OnError, Record, Register, StepIs
  <2>2. next' \in 1..Len(setup) + 1
    BY <2>1, LenIsNatural DEF ShapeInv
  <2>3. UNCHANGED <<session, storage>>
    BY <2>1 DEF redisVars, server
  <2>4. FiledUnderOwnJid'
    BY <2>3 DEF ShapeInv, FiledUnderOwnJid
  <2> QED
    BY <1>1, <2>1, <2>2, <2>3, <2>4
<1>3. CASE Outside
  <2>1. /\ UNCHANGED <<app, setup, next, req, requests>>
        /\ Tick \/ \E j \in Jids : Collide(j)
    BY <1>3 DEF Outside, env, setupVars
  <2>2. UNCHANGED session
    BY <2>1 DEF Tick, Collide
  <2>3. FiledUnderOwnJid'
    <3>1. CASE Tick
      BY <3>1, NoDocuments DEF Tick, ShapeInv, FiledUnderOwnJid
    <3>2. CASE \E j \in Jids : Collide(j)
      <4>1. DOMAIN storage = Keys
        BY DEF Inv, RedisInv, RedisTypeOK
      <4> QED
        BY <3>2, <4>1, NoDocuments DEF Collide, ShapeInv, FiledUnderOwnJid
    <3> QED
      BY <2>1, <3>1, <3>2
  <2> QED
    BY <1>1, <2>1, <2>2, <2>3 DEF ShapeInv
<1>4. ASSUME NEW p \in Processes, Begin(p) \/ BeginFails(p) \/ Handle(p)
      PROVE  ShapeInv'
  BY <1>4, BeginForms, BeginFailsForms, BeforeHookForms, ViewUsesSessionForms, DispatchForms,
     SaveSessionForms, AfterHookForms, SendForms, TeardownForms, TeardownDoneForms DEF Handle
<1>5. CASE UNCHANGED vars
  <2>1. UNCHANGED <<app, setup, next, session, storage, req, requests>>
    BY <1>5 DEF vars, redisVars, server, setupVars
  <2> QED
    BY <1>1, <2>1 DEF ShapeInv, FiledUnderOwnJid
<1> QED
  BY <1>2, <1>3, <1>4, <1>5 DEF Next

LEMMA ShapeAlways == Spec => [](Inv /\ ShapeInv)
<1>1. Init => ShapeInv
  BY InitShape
<1>2. Inv /\ ShapeInv /\ [Next]_vars => ShapeInv'
  BY NextShape
<1> QED
  BY <1>1, <1>2, Invariance, PTL DEF Spec

\* Each request is at one point of the handling, has left as many contexts as that
\* point says and holds the session of its own sender, whatever the deployment.
THEOREM TypeCorrect == Spec => []TypeOK
<1>1. Inv /\ ShapeInv => TypeOK
  <2> SUFFICES ASSUME Inv, ShapeInv PROVE TypeOK
    OBVIOUS
  <2>1. RedisTypeOK /\ app \in Deployments /\ next \in 1..Len(setup) + 1
    BY DEF Inv, RedisInv, ShapeInv
  <2>2. requests \in 0..MaxRequests
    BY MaxRequestsIsNatural DEF Inv, RequestInv
  <2>3. ASSUME NEW p \in Processes
        PROVE  /\ DOMAIN req[p] = DOMAIN Idle
               /\ req[p].at \in Points /\ req[p].mark \in 0..requests
               /\ Len(req[p].torn) = Len(req[p].cut) /\ Len(req[p].torn) <= 3
               /\ req[p].at = "teardown" => req[p].torn # <<>>
               /\ req[p].at \notin {"idle", "teardown"} =>
                    session[p].jid \in {req[p].jid, NoJid}
    BY <2>3, Formed DEF WellFormed, Fields, Points, Passes
  <2> QED
    BY <2>1, <2>2, <2>3 DEF TypeOK
<1> QED
  BY <1>1, ShapeAlways, PTL

\* A generator is given the results of its own commands only, and responses appended by
\* after_request hooks go out in their order, for every response and deployment.
THEOREM ResultsAreOwn == Spec => []ResultsReachAsker
<1>1. Inv /\ ShapeInv => ResultsReachAsker
  BY DEF ShapeInv, WellFormed, SentInOrder, ResultsReachAsker
<1> QED
  BY <1>1, ShapeAlways, PTL
=============================================================================
