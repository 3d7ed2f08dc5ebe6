---------------------------- MODULE Application ----------------------------
(***************************************************************************)
(* What XmppFlask does with one stanza after another in each process of an *)
(* application: it opens the session, runs hooks and view, answers errors, *)
(* saves the session, runs the after_request hooks; the server then sends  *)
(* the items of the response, and teardown functions run when the inner    *)
(* and the outer request context and the server's application context are  *)
(* left.  The contexts themselves are in Contexts, and stanzas handled one *)
(* below the other in Server; here are the lists of functions, the items   *)
(* of a response and the session documents the processes share.            *)
(***************************************************************************)
EXTENDS RedisSessions, Blueprints, Responses

CONSTANTS
  Endpoints,    \* endpoints of the application's rules
  NoRule,       \* no rule matches the stanza
  BlueprintOf,  \* the blueprint of each endpoint ("bp.page"), or AppWide
  Values,       \* what hooks and views may return
  Nothing,      \* None
  Commands,     \* commands of the server
  Deployments,  \* bound: setup, processes, debug, jidObjects,
                \* endpoints, values, outside
  MaxRequests   \* bound: stanzas of a behaviour

ASSUME EndpointsHaveBlueprints ==
  NoRule \notin Endpoints /\ BlueprintOf \in [Endpoints -> Blueprints \cup {AppWide}]
ASSUME MarksCountRequests == Marks = 1..MaxRequests
ASSUME MaxRequestsIsNatural == MaxRequests \in Nat
ASSUME Deployed ==
  \A d \in Deployments :
    /\ d.setup \in Setups /\ d.processes \subseteq Processes /\ d.values \subseteq Values
    /\ d.endpoints \subseteq Endpoints /\ {d.debug, d.jidObjects, d.outside} \subseteq BOOLEAN

VARIABLES
  app,        \* the deployment: its processes, app.debug, the endpoints of its rules,
              \* what its functions return, whether time passes and others use Redis
  requests,   \* how many stanzas have been taken up
  req         \* the request each process handles

vars == <<redisVars, setupVars, app, requests, req>>
env == <<setupVars, app>>

Idle ==
  [at |-> "idle", jid |-> NoJid, endpoint |-> NoRule, mark |-> 0, todo |-> <<>>,
   ran |-> <<>>, response |-> ResponseOf([lazy |-> TRUE, items |-> <<>>]),
   result |-> "None", sent |-> <<>>, exc |-> FALSE, torn |-> <<>>, cut |-> <<>>]

Points == {"idle", "before", "save", "after", "send", "teardown"}

\* torn: the teardown functions each pass has run, cut: one of them has stopped it, or
\* its context was never entered.
TypeOK ==
  /\ RedisTypeOK
  /\ next \in 1..Len(setup) + 1
  /\ app \in Deployments /\ requests \in 0..MaxRequests
  /\ \A p \in Processes :
       /\ DOMAIN req[p] = DOMAIN Idle
       /\ req[p].at \in Points /\ req[p].mark \in 0..requests
       /\ Len(req[p].torn) = Len(req[p].cut) /\ Len(req[p].torn) <= 3
       /\ req[p].at = "teardown" => req[p].torn # <<>>
       /\ req[p].at \notin {"idle", "teardown"} =>
            session[p].jid \in {req[p].jid, NoJid}

Init ==
  /\ app \in Deployments /\ setup = app.setup /\ jidObjects = app.jidObjects
  /\ SetupInit /\ RedisInit
  /\ requests = 0
  /\ req = [p \in Processes |-> Idle]

-----------------------------------------------------------------------------
At(p, point) == req[p].at = point
Set(p, r) == req' = [req EXCEPT ![p] = r]
Functions(list) == [i \in DOMAIN list |-> list[i].func]

\* A stanza arrives: the context finds its rule and opens the session.
Begin(p) ==
  /\ SetUp /\ p \in app.processes /\ At(p, "idle") /\ requests < MaxRequests
  /\ requests' = requests + 1
  /\ \E j \in Jids, e \in app.endpoints \cup {NoRule} :
       /\ Open(p, j)
       /\ Set(p, [Idle EXCEPT !.at = "before", !.jid = j, !.endpoint = e,
                              !.mark = requests', !.todo = Functions(HooksFor("before", AppWide))])
  /\ UNCHANGED env

\* make_response
Answer(p, value) ==
  Set(p, [req[p] EXCEPT !.at = "save", !.todo = <<>>, !.response =
    ResponseOf(IF value = Nothing THEN [lazy |-> FALSE, items |-> <<>>] ELSE value)])

\* Mutation of TeardownList: in the order of registration.
TeardownListForward(pass) ==
  Functions(HooksFor(IF pass = 3 THEN "teardown_appcontext" ELSE "teardown", AppWide))

\* do_teardown_request for the inner and for the outer context, then
\* do_teardown_appcontext.
TeardownList(pass) ==
  Reverse(Functions(HooksFor(IF pass = 3 THEN "teardown_appcontext" ELSE "teardown", AppWide)))

\* A context is left, with an exception or without; the response with the outer one.
Leave(p, exc) ==
  LET r == IF req[p].torn = <<>> THEN req[p]
           ELSE [req[p] EXCEPT !.response = Idle.response, !.result = Idle.result,
                               !.sent = <<>>, !.ran = <<>>]
  IN
  Set(p, [r EXCEPT !.at = "teardown", !.exc = exc, !.todo = TeardownList(Len(r.torn) + 1),
                   !.torn = Append(@, <<>>), !.cut = Append(@, FALSE)])

\* open_session raises, for the outer request context or, when another program's value
\* has come after it, for the inner one: only contexts that were entered are left.
BeginFails(p) ==
  /\ SetUp /\ p \in app.processes /\ At(p, "idle") /\ requests < MaxRequests
  /\ requests' = requests + 1
  /\ \E j \in Jids, pass \in {2, 3} :
       /\ OpenFails(p, j)
       /\ Set(p, [Idle EXCEPT !.at = "teardown", !.jid = j, !.mark = requests', !.exc = TRUE,
                              !.todo = TeardownList(pass),
                              !.torn = [n \in 1..pass |-> <<>>],
                              !.cut = [n \in 1..pass |-> n < pass]])
  /\ UNCHANGED env

\* handle_user_exception: any of the handlers whose class fits, which may raise
\* itself.  Nobody answers a stanza that has no rule; else the apology is sent.
Classes(error) == {"Exception", error}
Apology == [lazy |-> FALSE, items |-> << <<"apology">> >>]

HandleError(p, error) ==
  LET fits == handlers \cap Classes(error) # {} IN
  \/ fits /\ (Leave(p, TRUE) \/ \E v \in app.values \cup {Nothing} : Answer(p, v))
  \/ ~fits /\ error = "NotFound" /\ Answer(p, Nothing)
  \/ ~fits /\ error # "NotFound" /\ IF app.debug THEN Leave(p, TRUE) ELSE Answer(p, Apology)

-----------------------------------------------------------------------------
(* preprocess_request and dispatch_request                                 *)

InView(p) == At(p, "before") /\ req[p].todo = <<>>

BeforeHook(p) ==
  /\ At(p, "before") /\ req[p].todo # <<>>
  /\ \/ Set(p, [req[p] EXCEPT !.todo = Tail(@)])
     \/ \E v \in app.values : Answer(p, v)
     \/ HandleError(p, "Error")
  /\ UNCHANGED <<env, redisVars, requests>>

ViewUsesSession(p) ==
  /\ InView(p) /\ req[p].endpoint # NoRule
  /\ \/ req[p].mark \notin session[p].marks /\ Write(p, req[p].mark)
     \/ ~session[p].permanent /\ SetPermanent(p, TRUE)
     \/ session[p].jid # NoJid /\ Clear(p)
  /\ UNCHANGED <<env, requests, req>>

View(p) ==
  /\ InView(p)
  /\ \/ req[p].endpoint = NoRule /\ HandleError(p, "NotFound")
     \/ /\ req[p].endpoint # NoRule
        /\ \/ \E v \in app.values \cup {Nothing} : Answer(p, v)
           \/ HandleError(p, "Error")
  /\ UNCHANGED <<env, redisVars, requests>>

-----------------------------------------------------------------------------
(* process_response                                                        *)

\* The blueprint's own ones first, each list last to first.
AfterHooks(endpoint) ==
  LET own == IF endpoint = NoRule \/ BlueprintOf[endpoint] = AppWide
             THEN <<>> ELSE HooksFor("after", BlueprintOf[endpoint])
  IN Reverse(Functions(own)) \o Reverse(Functions(HooksFor("after", AppWide)))

\* Mutation of SaveSession: a session that cannot be saved is given up.
SaveOrGiveUp(p) ==
  /\ At(p, "save")
  /\ IF Serialisable(p) THEN Save(p) ELSE UNCHANGED redisVars
  /\ Set(p, [req[p] EXCEPT !.at = "after", !.todo = AfterHooks(req[p].endpoint)])
  /\ UNCHANGED <<env, requests>>

\* What save_session raises, nobody handles.
SaveSession(p) ==
  /\ At(p, "save")
  /\ IF Serialisable(p)
     THEN Save(p) /\ Set(p, [req[p] EXCEPT !.at = "after", !.todo = AfterHooks(req[p].endpoint)])
     ELSE Leave(p, TRUE) /\ UNCHANGED redisVars
  /\ UNCHANGED <<env, requests>>

\* An after_request hook returns the response, with another one appended or not.
AfterHook(p) ==
  /\ At(p, "after") /\ req[p].todo # <<>>
  /\ LET r == [req[p] EXCEPT !.todo = Tail(@), !.ran = Append(@, Head(req[p].todo))] IN
       \/ Set(p, r)
       \/ \E v \in app.values : Set(p, [r EXCEPT !.response = Called(@, v)])
       \/ Leave(p, TRUE)
  /\ UNCHANGED <<env, redisVars, requests>>

AfterHooksDone(p) ==
  /\ At(p, "after") /\ req[p].todo = <<>> /\ Leave(p, FALSE)
  /\ UNCHANGED <<env, redisVars, requests>>

-----------------------------------------------------------------------------
(* dispatch_app_response and the generators of Response                    *)

Deliverable(item) == Len(item) = 1 \/ (Len(item) = 2 /\ item[1] \in Commands)
ResultOf(item) == IF Len(item) = 1 THEN "True" ELSE item[1]

\* The command of an item is called; its result goes to whoever is asked next.  An item
\* without a command raises, and so may the command, or a generator instead of giving
\* the item.
SendItem(p) ==
  LET r == req[p]
      item == Item(r.response)
  IN
  /\ At(p, "send") /\ HasItem(r.response)
  /\ \/ /\ Deliverable(item)
        /\ Set(p, [r EXCEPT !.response = AfterItem(@), !.result = ResultOf(item),
                      !.sent = Append(@, [gen |-> r.response.current.gen, item |-> item,
                                          got |-> r.result])])
     \/ Leave(p, TRUE)
  /\ UNCHANGED <<env, redisVars, requests>>

\* Mutation of SendNext: the value goes on to the next iterator.
SendNextValue(p) ==
  /\ At(p, "send") /\ ~HasItem(req[p].response) /\ req[p].response.queue # <<>>
  /\ Set(p, [req[p] EXCEPT !.response = NextIterator(@)])
  /\ UNCHANGED <<env, redisVars, requests>>

\* The exhausted iterator has dropped the value: the next one is started with None.
SendNext(p) ==
  /\ At(p, "send") /\ ~HasItem(req[p].response) /\ req[p].response.queue # <<>>
  /\ Set(p, [req[p] EXCEPT !.response = NextIterator(@), !.result = "None"])
  /\ UNCHANGED <<env, redisVars, requests>>

ResponseSent(p) ==
  /\ At(p, "send") /\ ~HasItem(req[p].response) /\ req[p].response.queue = <<>>
  /\ Leave(p, FALSE)
  /\ UNCHANGED <<env, redisVars, requests>>

-----------------------------------------------------------------------------
(* do_teardown_request and do_teardown_appcontext                          *)

\* Mutation of Teardown: a pass starts again after an exception.
TeardownAgain(p) ==
  LET r == req[p]
      pass == Len(r.torn)
      ran == [r EXCEPT !.todo = Tail(@), !.torn[pass] = Append(@, Head(r.todo))]
  IN
  /\ At(p, "teardown") /\ r.todo # <<>>
  /\ \/ Set(p, ran)
     \/ Set(p, [r EXCEPT !.torn[pass] = <<>>, !.todo = TeardownList(pass)])
  /\ UNCHANGED <<env, redisVars, requests>>

\* A function returns None; another value, which stops the pass unless it is that of
\* the application context; or it raises.
Teardown(p) ==
  LET r == req[p]
      pass == Len(r.torn)
      ran == [r EXCEPT !.todo = Tail(@), !.torn[pass] = Append(@, Head(r.todo))]
      stopped == [ran EXCEPT !.todo = <<>>, !.cut[pass] = TRUE]
  IN
  /\ At(p, "teardown") /\ r.todo # <<>>
  /\ \/ Set(p, ran)
     \/ pass < 3 /\ Set(p, stopped)
     \/ Set(p, [stopped EXCEPT !.exc = TRUE])
  /\ UNCHANGED <<env, redisVars, requests>>

\* The server sends the response between the two request contexts.
TeardownDone(p) ==
  LET r == req[p] IN
  /\ At(p, "teardown") /\ r.todo = <<>>
  /\ \/ Len(r.torn) = 1 /\ ~r.exc /\ Set(p, [r EXCEPT !.at = "send"])
     \/ Len(r.torn) = 1 /\ r.exc /\ Leave(p, TRUE)
     \/ Len(r.torn) = 2 /\ Leave(p, r.exc)
     \/ Len(r.torn) = 3 /\ Set(p, [Idle EXCEPT !.torn = r.torn, !.cut = r.cut])
  /\ UNCHANGED <<env, redisVars, requests>>

-----------------------------------------------------------------------------
Handle(p) ==
  \/ BeforeHook(p) \/ ViewUsesSession(p) \/ View(p)
  \/ SaveSession(p) \/ AfterHook(p) \/ AfterHooksDone(p)
  \/ SendItem(p) \/ SendNext(p) \/ ResponseSent(p)
  \/ Teardown(p) \/ TeardownDone(p)

Outside ==
  /\ app.outside
  /\ Tick \/ \E j \in Jids : Collide(j)
  /\ UNCHANGED <<env, requests, req>>

SettingUp == Configure /\ UNCHANGED <<redisVars, app, requests, req>>

Next == SettingUp \/ Outside \/ \E p \in Processes : Begin(p) \/ BeginFails(p) \/ Handle(p)

\* Each process goes on with the stanza it handles: nothing in it waits, and hooks,
\* views and generators end.
Spec == Init /\ [][Next]_vars /\ \A p \in Processes : WF_vars(Handle(p))

-----------------------------------------------------------------------------
(* Properties.                                                             *)

\* No item of a response goes out before what the view has written to the session has
\* been stored: a stanza whose session cannot be saved is not answered.
AnsweredMeansSaved ==
  \A p \in Processes : At(p, "send") => wrote[p] \subseteq stored

\* "regardless of whether there was an exception or not": for each of the three
\* contexts every teardown function of the application runs, the ones registered later
\* before it, and nothing that was not registered.  Two things are excepted, and claimed
\* below: a function that returns a value or raises stops the pass, and nothing is said
\* of the functions that a blueprint has recorded for its own requests.
TeardownComplete ==
  \A p \in Processes :
    LET r == req[p]
        Finished(n) == n < Len(r.torn) \/ r.todo = <<>>
    IN
    /\ \A n \in DOMAIN r.torn :
         LET kind == IF n = 3 THEN "teardown_appcontext" ELSE "teardown"
             asked == Asked(kind, AppWide)
             ran == {r.torn[n][i] : i \in DOMAIN r.torn[n]}
         IN
         /\ Finished(n) /\ ~r.cut[n] => asked \subseteq ran
         /\ ran \subseteq UNION {Asked(kind, scope) : scope \in Blueprints \cup {AppWide}}
         /\ \A i \in DOMAIN r.torn[n], f \in asked :
              (\E k \in DOMAIN hooks : \E l \in k + 1 .. Len(hooks) :
                 hooks[k].func = r.torn[n][i] /\ hooks[l].func = f)
              => \E h \in 1 .. i - 1 : r.torn[n][h] = f
    /\ At(p, "idle") /\ r.torn # <<>> => Len(r.torn) = 3

\* "executed when tearing down requests handled by a function of that blueprint": what a
\* blueprint has recorded for its own requests runs when one of them is torn down and
\* nothing has stopped the pass.
BlueprintTeardownRuns ==
  \A p \in Processes :
    LET r == req[p]
        pass == Len(r.torn)
    IN At(p, "teardown") /\ pass < 3 /\ r.todo = <<>> /\ ~r.cut[pass] /\ r.endpoint # NoRule
         => Asked("teardown", BlueprintOf[r.endpoint])
              \subseteq {r.torn[pass][i] : i \in DOMAIN r.torn[pass]}

\* A function of after_request runs for the requests of its own blueprint only and one
\* of after_app_request for all, once each and after those of the blueprint, however
\* often the blueprint has been registered.
HooksInScope ==
  \A p \in Processes :
    LET r == req[p]
        bp == IF r.endpoint = NoRule THEN AppWide ELSE BlueprintOf[r.endpoint]
        ran == {r.ran[i] : i \in DOMAIN r.ran}
    IN
    /\ ran \subseteq Asked("after", bp) \cup Asked("after", AppWide)
    /\ \A i, k \in DOMAIN r.ran : i < k =>
         /\ r.ran[i] # r.ran[k]
         /\ r.ran[k] \in Asked("after", AppWide) \/ r.ran[i] \notin Asked("after", AppWide)
    /\ At(p, "send") => ran = Asked("after", bp) \cup Asked("after", AppWide)

\* Items go out in the order in which the responses were appended, and a generator is
\* given the results of its own commands only: a new one starts with None, as it must.
ResultsReachAsker ==
  \A p \in Processes :
    LET sent == req[p].sent IN
    \A i \in DOMAIN sent :
      LET fresh == i = 1 \/ sent[i - 1].gen # sent[i].gen IN
      /\ sent[i].got = IF fresh THEN "None" ELSE ResultOf(sent[i - 1].item)
      /\ i > 1 => sent[i - 1].gen <= sent[i].gen

\* Every stanza taken up is dealt with, whatever raises.
RequestEnds == \A p \in Processes : ~At(p, "idle") ~> At(p, "idle")
=============================================================================
