# XmppFlask in TLA+

XmppFlask is a small framework for XMPP bots in the manner of Flask: a server
takes stanzas from an XMPP library (xmpppy or SleekXMPP), turns each into an
environ, and calls an application through XMPPWSGI; the application matches the
text of a message to a view, runs it inside contexts, keeps a session per sender
and answers with text, commands and notifications.

This directory holds TLA+ modules that model that code, configurations that let
TLC check them on small instances, and proofs for TLAPS. Paths below are
relative to `src/xmppflask/`. `PROJECT.json` lists runs, mutations and
theorems, and gives for each definition the lines it is translated from.

To check a run: `tlc -config contexts.cfg MCContexts.tla`; to check the proofs:
`tlapm ContextsProofs.tla`, and the same for `NestingProofs`, `ServerProofs`,
`MemorySessionsProofs`, `RoutingProofs`, `ApplicationProofs`, `HooksProofs` and `BotProofs`.

## 1. Inventory

| component | state it keeps | operations | correct when |
|---|---|---|---|
| Contexts `ctx.py`, `globals.py`, `thirdparty/werkzeug/local.py` | two stacks per thread; `_refcnt` of an application context; `_implicit_app_ctx_stack` of a request context; `g` | push and pop of both contexts, as `with` blocks | pops match pushes, teardown at the last level only, proxies resolve to the innermost request, nothing is left bound to the thread |
| Notifications `notification.py` | a list in `g` of the application context on top | `notify`, `init_notification_list` (entering a request context), `get_notification_list` | what a view notifies is sent once, to the queue of its own stanza |
| In-memory sessions `sessions/memory.py`, `base.py` | a dictionary from JID to session object; a lock; a time stamp in each session | `open_session`, `save_session`, `cleanup`, modification by the view | a sender's session is its own and lives until it expires |
| Redis sessions `sessions/redis.py` | JSON documents in a Redis server, with expiry; a copy in each process | `open_session`, `save_session` | what was stored stays stored until it expires or another process that had loaded it stores; a stanza whose session cannot be stored is not answered |
| XMPPWSGI server `server/base.py` | one `app_ctx` for all stanzas, commands, capabilities | `handle`, `xmppwsgi_app`, dispatching of a response and of the notification queue | each stanza runs in its own request; whatever raises, the contexts are left |
| Server on xmpppy `server/xmpppy.py` | the connection, the loop of `serve_forever` | delivery of stanzas, also from inside a waiting `cmd_version` | nested handling of stanzas does not mix them up |
| Server on SleekXMPP `server/sleekxmpp.py` | event handlers | the same commands, blocking | the same |
| Capabilities `server/caps.py`, `helpers.py` | commands and handlers registered with the library, a weak reference to the server | registration, environ keys, `handle_message` ... | registered once, however often `session_start` is fired; requirements before the presence |
| Application `app.py` | hooks, rules, error handlers, session interface | `xmppwsgi_app`, `full_dispatch_request`, `process_response`, teardown | hooks, view, saving and draining in this order, whatever raises; teardown functions run for each context |
| Request, Response `wrappers.py` | the current iterator of a Response and a queue of further ones | `send`, `__call__` | items in the order the iterators were appended; a generator gets the results of its own commands |
| Routing `routing.py` | rules, sorted lazily | `match`, `build` | the best rule wins whatever the order of registration; `match` inverts `build` |
| JID `jid.py` | the text and its cached parts | getters, setters, comparison | text and parts are what has been assigned, in any order |
| Blueprints `blueprints.py` | deferred functions | recording, registration | hooks are there once and run for the requests they were recorded for |
| Lazy initialisation `helpers.py`, `logger.py` | cached property, logger | first access | initialised once under threads |
| Runner `run.py` | none | choice of the library, connecting, serving | no stanza is handled twice, also when the other library takes over |

Templating, configuration, exceptions, packaging and examples keep no state of
their own or are pure input and output; `PROJECT.json` gives the reason for each.

How they interact. The library calls `XmppWsgiServer.handle`, which enters
`with app_ctx: with request_context(environ):` and calls the application, which
enters a second request context for the same environ, runs hooks and view,
saves the session, drains the notifications collected in `g` into the server's
queue and leaves its context; the server then sends the items of the response,
each through a command of a capability, and after them the queue. Entering a
request context opens a session and empties the notification list. All
contexts of a thread live on the same two stacks, and all stanzas of a server
share one application context and therefore one `g`.

What is hard about it:

* `cmd_version` of xmpppy processes incoming stanzas while it waits, so `handle`
  is re-entered in the middle of a response, on the same stacks and `g`;
* the same contexts are pushed at several levels, and teardown must happen with
  the last one only;
* `open_session`, views, hooks, generators, commands and teardown functions may
  raise, each at a point where something has been pushed and not yet popped;
* a generator view runs when its own request context has been left;
* threads share the session dictionary and its objects, while the lock covers
  one of the three operations, and processes share Redis documents with no lock;
* `session_start` may be fired again, and may have failed halfway before;
* a teardown function may stop the others, and runs twice per stanza; what a blueprint
  records for its own requests is kept under a key of its own;
* registering a blueprint may break off after some of its functions have been
  added, and a second registration must not add them again;
* a JID is edited through parts that are cached.

`PROJECT.json` lists these and more as hazards, each at its line.

## 2. Modules

| module | what it is |
|---|---|
| `Contexts` | contexts, stacks and notification list as one thread sees them; the refinement mapping to `RequestScope` |
| `RequestScope` | the abstract promise: request scopes nest and a request is torn down when its last scope is left |
| `MCContexts` | instances of `Contexts` |
| `ContextsProofs` | theorems about `Contexts` whatever raises |
| `NestingProofs` | theorems about `Contexts` while nothing raises, and that it implements `RequestScope` |
| `MemorySessions` | the in-memory session store under any number of threads |
| `MCMemorySessions` | instances of it |
| `MemorySessionsProofs` | theorems about it |
| `Server` | the way of a stanza through server and application; extends `Contexts` and uses its actions |
| `MCServer` | an instance of it |
| `ServerProofs` | theorems about it |
| `Routing` | rules, their order and the matching of stanzas by threads that share a map |
| `MCRouting` | instances of it, with rules of the kinds the tests use |
| `RoutingProofs` | theorems about it |
| `RedisSessions` | the Redis session store under any number of processes |
| `Blueprints` | hooks, error handlers and blueprints while an application is set up |
| `Responses` | the iterators of a Response |
| `Application` | one stanza after another in each process: session, hooks, view, response, teardown; extends the three |
| `MCApplication` | instances of it with four setups |
| `ApplicationProofs` | theorems about `RedisSessions` and `Application`, but for the hooks |
| `HooksProofs` | theorems about the hooks of `Blueprints` and `Application`, and that requests cannot go on for ever |
| `Jid` | JIDs with cached parts |
| `Startup` | from `run_server` to a bot that is online, and its later streams |
| `Bot` | a started bot whose views edit JIDs and send; extends the two |
| `MCBot` | an instance of it |
| `BotProofs` | theorems about `Startup` and `Bot` |

Each mutation of an action stands just before the action it changes, under a
comment that says which mistake it is. It takes no part in any specification:
it serves to see that the property which names it in `PROJECT.json` really
depends on that code.

### Contexts

`blocks` is the nesting of `with` blocks the thread is inside: the control state
of whoever uses the contexts. The other variables are the code's: `appStack`
and `reqStack` (the LocalStacks), `refcnt`, `implicit` and `notes`
(`g._notification_list`). `life` records teardown. `wrongPop` records a failed
assertion of the two pops.

| action | code |
|---|---|
| `EnterApp`, `ExitApp` | `AppContext.__enter__`, `__exit__` |
| `EnterRequest` | `RequestContext.__enter__`: push, with an implicit application context where the top serves another application, then `init_notification_list` |
| `EnterRequestFails` | the same when `open_session` raises: `with` then never calls `__exit__` |
| `ExitRequest` | `RequestContext.pop` when the request's teardown functions return; the implicit context is popped, whose teardown functions may raise |
| `ExitRequestFails` | `RequestContext.pop` when they raise |
| `Notify` | `notify` |

CONSTANT `Failures` says which of the raising steps an instance has. With
`Failures = {}` everything must match; with all three the stacks do get out of
step (an entry stays when `__enter__` or a teardown function raises), and the
properties state what is still true then: no teardown function runs for a
context in use, and a caller's context is counted right. A failed assertion in
`pop` is recorded and not turned into a longer unwinding, which
`blocks` allows anyway: after a raising step any legal next step of the
program may follow. `with _app_ctx_stack.top:` is why an implicit context can be
entered again, and only while it is on top.

The properties, and what each is for:

* `PopsMatch`, `RefcntCountsPushes`, `ProxiesServeInnermost`,
  `NothingLeftBehind` and the refinement `RequestsNest` (failure-free): nesting
  requests of two applications and re-entering them keeps count, stack and
  implicit levels in step, so that `request`, `current_app` and `g` resolve to
  the right objects and are unbound at the end, as the tests of contexts expect.
* `NoEarlyTeardown`, `RefcntCountsBlocks` (with failures).

### MemorySessions

A thread is in one of ten places (`pc`): idle; about to run `cleanup` in
`open_session` and the steps of it; looking its session up; in the view; about
to store; and the steps of `cleanup` in `save_session`. Each access to the
shared dictionary is one step (the interpreter makes `get`, item assignment,
`del` and `items` atomic), so threads interleave between the check for expiry
and the `del`, and between the look-up and the storing. `cleanup` works off
`todo`, a snapshot: `items()` is a list in Python 2, the language of this code
(`basestring`). `session` holds of each object the entries that the store
itself looks at: JID, time stamp, permanent flag. A view may modify the session
(`Modify`), clear it (`Clear`; the JID is an entry of the dictionary, so it goes
too), return or raise. A session object that nothing refers to is garbage and
can be the next new one, as in the interpreter; where all `Sessions` are in use, creating one
raises (`Raise`).

* `DeleteFindsItsKey`, `StoredUnderOwnJid`: with any number of threads, the `del`
  in `cleanup` finds its key, and nobody is served another sender's session, though threads
  store without the lock and save sessions that others have cleared.
* `SavedSessionIsFound`: a session that was saved is stored under its sender, unless the
  view has cleared it, which takes its JID away: then it is stored under `None`, and the
  sender finds nothing if it was new.
* `SweepLeavesNothingExpired`, `SessionKeptForLifespan`: with one thread, a session past
  its lifespan cannot be served, and one that is not is neither deleted nor replaced. With two
  threads the second is false: `LiveSessionNotDeleted` is the half of it that forbids the
  deletion (see findings). These three say what a lifespan is (`PastLifespan`) without
  `is_session_expired` (`ExpiredAt`), so a boundary moved by one is noticed.
* `LockIsReleased`: `cleanup` ends though others store meanwhile.

### Server

`frames` holds the calls of `handle()` in progress, innermost last, each with
the statement it is at, the rest of its response, its notification queue and
whether an exception is on its way. `EnterAppContext`, `EnterOuter`,
`EnterInner`, `LeaveInner`, `LeaveOuter` and `LeaveAppContext` are the `with`
blocks of `XmppWsgiServer.xmppwsgi_app` and of `XmppFlask.xmppwsgi_app`, built
from the actions of `Contexts`. Hooks and view are application code, of which
only the effects count: `Write` to the session, `MakeNote`, `ViewReturns` (a list
or a generator), `ViewRaises`. Exceptions that a handler or the apology answers
end in `ViewReturns`. The response is a sequence of "message", "wait" (a command
that waits for an answer) and "unknown" (a command nobody has registered).
A stanza arrives while no other is being handled or, with xmpppy, while a
command waits. Stanzas of the bot itself and empty messages are skipped.
Sessions are the objects and the dictionary of the in-memory store without
expiry; a session object is named by the request context that has created it.

* `RequestIsOwn`, `QueueIsOwn`: application code sees its own request, and a
  stanza's queue its own notifications, whatever is handled in between.
* `IdleIsClean`: after any exception the server's context has been released, and
  unless `open_session` has raised nothing is left on the stacks.
* `ViewWritesKept`: what the view has written is in the session that is stored.
* `HandledMeansNotified`: no exception, no notification of the view lost. (What a generator notifies
  comes after the queue has been drained, and is not covered.)
* `HandlingEnds`: every stanza that is taken up is dealt with.

### Routing

The first part is operators: `Accepts` (the regular expressions of the
converters), `RuleMatch` (`Rule.match`), `RuleBuild` (`Rule.build`) and `Before`
(`match_compare`). A message is a sequence of words and a rule is what
`parse_rule` makes of its text: a sequence of texts and variables. A match cuts the
message into the parts of the rule, and `Search` picks the cut that a search
with greedy quantifiers finds. Numbers keep their value and the digits they are
written with, since `fixed_digits` is about these; they are below 100.

The second part is the map. `AddRule` is `Map.add`, between stanzas; a thread
goes through `MapAdapter.match`: `Update` (is the order out of date?), `BeginSort`
and `EndSort` (the list is empty for other threads while Python sorts it),
`EndUpdate`, then `SkipRule`, `TakeRule` or `FindNothing` per rule of the list as
it then is. The lists by endpoint are sorted in the same step and read by
`build` only, so they are not kept apart.

* `BestRuleWins`: a stanza gets the rule that `match_compare` puts first among those
  that match, and of equal ones the one registered first, whatever the order of
  additions, first matches and sorts. A thread whose match coincides with
  the sort of another one (`disturbed`) is excepted: it may find the list empty and
  answer that nothing matches.
* `LongerTextWins`: the reason the code gives for the order.
* `BuildInvertsMatch`: the message built from what was matched matches again with
  the same values, though the two directions use the converters crosswise. This is not so
  for every rule, and the property names the exceptions: a number with digits or bounds, a
  default for a variable, a rule that takes a part of the message, and (`NumbersAreVariables`) a text or
  an item of `any` with a number in it. `'<string:a> 7 <int:n> <string:b>'` takes `x 7 07 7 b` for
  `x`, 7 and `7 b`; the message built from these is `x 7 7 7 b`, where the greedy `a` goes on to `x 7`.

### RedisSessions, Blueprints, Responses

`RedisSessions` has the values and expiries of the Redis server and, for each
process, the session object of its request. `Open` and `Save` are
`open_session` and `save_session`; `Write`, `SetPermanent` and `Clear` are what a
view does in between. A new session holds the JID of the environ, which is an
object JSON cannot serialise where the server puts one there (`jidObjects`,
both servers of this repository do) and a text where a test or another server puts a string;
`Serialisable` is that difference. `Tick` (keys expire) and `Collide` (another program stores
under the key, which a comment of the class warns of) are outside. What another program stores cannot
be read (`Malformed`: a new session takes its place) or is read and is no object (`NotObject`: the call of
the session class raises a `TypeError`, which is not caught, `OpenFails`). `base` and `wrote` record
what a request has loaded and written, `kept` what the store owes a sender.

`Blueprints` goes through a setup step by step: `Decorate` and `OnError` are
decorators of the application, `Record` those of a blueprint (the table `Decorators` says what
each of them records: for which list, under which key, with `record_once` or not), `Register` its
`register`, which runs the recorded functions until one raises. Routes, error handlers
and the preprocessors of values always raise, since `XmppFlask` lacks what they
ask for. A static folder is a route that is added first, so it is covered by a setup that
records the route first.

`Responses` has the wrapping of what a function returns, the appending of further
responses and the change to the next iterator.

### Application

`req` holds for each process the request it handles: the point it is at, the
functions still to call, the response, and what teardown has run so far.

| action | code |
|---|---|
| `Begin` | the request context: rule, session, `before_request` functions |
| `BeginFails` | the same when `open_session` raises: for the outer context, or for the inner one if another program has stored its value between the two, which the model takes as one step; only contexts that were entered are left |
| `BeforeHook` | `preprocess_request`: return nothing, return a value, raise |
| `ViewUsesSession`, `View` | `dispatch_request`; `handle_user_exception` where it raises (`HandleError`) |
| `SaveSession` | the first half of `process_response`; an exception leaves both contexts |
| `AfterHook`, `AfterHooksDone` | its second half: those of the blueprint, then those of the application, each list last to first |
| `SendItem`, `SendNext`, `ResponseSent` | `dispatch_app_response` with `Response.send`; a command, a generator or an item without a command may raise |
| `Teardown`, `TeardownDone` | `do_teardown_request` for the inner context before the response is sent and for the outer one after it, then `do_teardown_appcontext` |

* `WritesKept`: what requests have stored for a sender stays, whatever becomes permanent
  or temporary, is malformed, expires, or is stored by other processes. It promises nothing
  about writes that a process has overwritten which had loaded the session before them:
  lost updates of this kind are what the code does.
* `AnsweredMeansSaved`: no item goes out before the view's writes have been stored.
* `TeardownComplete`: three passes per stanza, each with every teardown function of the
  application, the later registered first, and with none that was not registered. Excepted are a pass
  that a function has stopped, and what a blueprint has recorded for its own requests.
* `BlueprintTeardownRuns`: what the code's own words say of the second exception (see findings).
* `HooksInScope`: of the `after_request` functions those of the request's own blueprint
  and of the application run, each once and the blueprint's first, also after a second
  registration.
* `ResultsReachAsker`: a generator gets the results of its own commands, and a new one `None`.
* `RequestEnds`: whatever raises, the process gets to the next stanza.

### Jid

A text is a sequence of words, `"@"` and `"/"`: what a JID means depends on where
these two are. The operators are the getters, the setters, `regenerate` and comparison of
`jid.py`, on a record of the text and the cached parts.

### Startup

| action | code |
|---|---|
| `ChooseLibrary` | `run_server` with `engine`, and the import of the library |
| `Connect`, `ConnectInBackground` | `connect` of the two servers |
| `SessionStarted` | SleekXMPP's event, for the first and every later stream |
| `RegisterCapability` | one capability of `session_start`: known, registered, or its plugin is missing |
| `GoOnline` | `check_app_requirements`, then the presence |
| `Require` | `require_capability` |
| `StreamLost` | the stream ends |

What raises ends `run_server` with xmpppy and is logged by SleekXMPP, which leaves
the capabilities registered until then in place.

### Bot

A stanza arrives and the client calls each handler it has (`now.calls`); `Skip`
and `RunView` are `handle`. The view edits the sender's JID (`EditJid`), reads its
parts (`ReadJid`, which fills the cache), sends (`CmdMessage`, `CmdPresence`,
`CmdJoinRoom`), requires a capability, ends or raises. `wanted` records the parts the
view has asked for, after the grammar of RFC 6120.

* `HandledOnce`: no stanza reaches a view twice, after any number of reconnects, failed
  starts and a change of the library.
* `RepliesFollowEdits`: parts, text and recipients are what was assigned, in every order of
  assignments and reads. Excepted are a domain that was assigned last (the setter does
  not regenerate the text) and JIDs without a user whose resource contains `"@"`, which the code
  takes apart wrongly.
* `OnlineMeansReady`: the presence is sent only with all that is required, and with one
  handler.
* `ComesOnline`: when nothing is missing, every stream gets online or is lost.

## 3. Runs

| run | instance | result |
|---|---|---|
| `contexts` | 2 applications, 1 caller's context, 4 implicit ones, 2 requests, nesting up to 4, no failures | all hold, 74 thousand states |
| `contexts_faults` | 2 applications, 1 caller's context, 3 implicit ones, 2 requests, nesting up to 3, every failure | both hold, 2.4 million states |
| `sessions` | 1 thread, 2 senders, 3 objects, clock to 3, lifetime 1 | all hold, 641 thousand states |
| `sessions_threads` | 2 threads, 2 senders, 2 objects, lifetime 0 | all hold, `LockIsReleased` under fairness, 962 thousand states |
| `server` | both libraries, 2 stanzas of one sender and 1 of the bot, all behaviours | all hold, 263 thousand states |
| `routing` | 2 threads, 9 rules of which 3 get registered, 6 stanzas | all hold, 2.9 million states |
| `application` | 5 deployments of 4 setups, 1 or 2 processes, 1 sender, 2 stanzas, clock to 1 | all hold, `RequestEnds` under fairness, 579 thousand states |
| `bot` | 6 environments, 2 capabilities, 3 streams, 2 of 4 stanzas, 2 assignments per view | all hold, `ComesOnline` under fairness, 514 thousand states |
| `sessions_race`, `server_notify`, `server_generator`, `teardown_blueprint` | see findings | violated |

Bounds. They stand in the guards and are constants.

* `MaxBlocks` bounds the nesting. Four blocks are enough for each request to be
  entered twice with one of the other application in between, which is the
  shortest history where levels of one request have different implicit
  contexts; an error of one block in matching shows at a nesting of two or three.
* `MaxStack`: no call fails with more entries stacked than that. Every failure can leave
  entries behind, so without it the stacks would grow for ever; with 3, a second
  failure can lie on what the first has left.
* `MaxNotes`: one notification in a list. Notifications are not compared with
  each other but with the stanza that has made them, so a second of the same
  stanza adds nothing.
* The implicit contexts are, without failures, as many as the nesting can have live
  at once; with failures, one application has two and the other one, so that levels that failures
  have left behind and live ones exist together. An object no longer referred to is
  taken again.
* `MaxClock` and `SessionTTL`: time 3 with lifetime 1 lets a session be fresh,
  exactly at its limit and beyond it, and be modified in between. With two
  threads lifetime 0 and time 1 (2 for `sessions_race`) give the same in
  fewer steps.
* `Sessions`: with one thread, one object more than senders, so that a new one is always
  free. With two threads, two objects for two senders and the key `None`: there creating a third
  raises (`Raise`), so that no deadlock comes from the bound. Two are enough for one
  sender to be given what another has stored, cleared or just created.
* `MaxRules`: three rules in the map, in every order and of all nine kinds. Errors
  of an order show in two rules, errors of its combination with sorting late in
  three: two that have been sorted and one that was added afterwards.
* `Responses`: the response with no items, with a text, with a command that waits
  before a text, and with an unknown command. One stanza can so be handled inside
  the other, and fail there. `server_notify` leaves the unknown command out (`MCGoodResponses`): what
  keeps a notification from being sent there is the notification itself.
* The server handles two stanzas of one sender, because sessions and the shared `g`
  mix up stanzas of one sender sooner than those of two.
* `Deployments`: a setup together with what matters for it, so that not every
  setup is combined with every value: all kinds of hooks of the application and of two
  blueprints, one of them registered twice, with every form of response; teardown functions of all
  three kinds, those of a blueprint for its own requests included, with and without `debug` and with
  JID objects; a blueprint with a route, which
  cannot be registered; and two processes that share a sender's document while
  time passes and another program stores under the key. `teardown_blueprint` has
  one request of a blueprint's page (`MCTeardownDeployments`).
* `MaxRequests`: two stanzas, which are the two processes that overlap, or the second that
  finds what the first has left in the store. `MaxClock` 1 with lifetime 1: a document that is
  stored now is gone at the end, one that was made permanent is not.
* `Environments`: every value of the option, both libraries, one of them, or none
  installed, and a plugin that is missing. `MaxStarts`: a first stream, a reconnect, and one
  more, since a mistake in what a start leaves behind shows in the second and one in
  what a failed start leaves behind in the third. `MaxArrivals`: two stanzas, before and after that.
* `MaxEdits`: two assignments with any reads before, between and after: a stale part needs one
  assignment that leaves it and one that uses it. `Words` has one with an `"@"` in it.

`CHECK_DEADLOCK FALSE` stands in the configurations of `Server`, `Application` and `Bot`
only: these systems do stop, when every stanza has been handled, when a setup has
been broken off, and when an exception has ended the server. Symmetry (threads, senders,
objects) is used for safety properties only.

### Findings

The runs that end in a violation check what the repository's own words say.

* `server_notify` / `NotificationsSent`. `dispatch_notification_queue` calls the
  command with an environ of one key (`server/base.py:226`) while `cmd_message`
  reads two of them (`server/xmpppy.py:113`, `server/sleekxmpp.py:94`): a
  notification with a text ends in a `KeyError`. The overview of the
  documentation promises that the server sends it.
* `server_generator` / `GeneratorWritesKept`. The body of a generator view runs
  while the response is being sent, in the outer context. If nothing was stored
  for the sender, that context has a session object of its own which nobody
  saves; what the generator writes to it is lost.
* `sessions_race` / `LiveSessionNotDeleted`. Views modify sessions, and
  `save_session` stores them, without the lock: between the check for expiry
  and the `del` the session may have been renewed, made permanent or replaced.
* `teardown_blueprint` / `BlueprintTeardownRuns`. `do_teardown_request` reads the functions under
  the key `None` only, so what `Blueprint.teardown_request` adds under the name of the blueprint never runs; the docstring
  says that it is "executed when tearing down requests handled by a function of that blueprint".

What the models show besides, and no run singles out:

* Two threads that handle stanzas of one new sender both find nothing stored and create a session
  each; the one saved last replaces the other, whose values are lost (`OpenSession`, `SaveSession`).
* `do_teardown_request` returns with the first value that is not `None`, although its docstring says
  (`app.py:269`) that it "will call every as `teardown_request` decorated function" (`Teardown`;
  `TeardownComplete` excepts the pass, `cut`).
* `Rule.match` converts the captured text with `to_message`, which checks neither `fixed_digits` nor
  the bounds (`Rule.build` has the conversion that does): a rule with `fixed_digits=2` takes "ping 7"
  and hands `07` to the view, although the docstring says (`routing.py:133`) that it only matches
  "if the url looks like `/0001/`" (`ToMessage`; `BuildInvertsMatch` excepts such numbers).
* With both servers `environ['xmpp.jid']` is a JID object, which JSON cannot serialise: a new
  session cannot be stored in Redis, and its stanza is not answered (`SaveSession`).
* `before_request` functions of a blueprint never run either, because `preprocess_request` reads
  the key `None` only; those of `after_request` do (`Begin`, `AfterHooks`).
* A value of another program that is valid JSON and no object ends the stanza with a `TypeError`
  (`OpenFails`).
* A blueprint with a route or an error handler cannot be registered, and what it had
  recorded before that stays added (`Register`).
* A list of two texts is taken for a command and its payload (`Wrap`).
* Where SleekXMPP lacks a plugin, the bot never announces itself, and yet handles what arrives
  (`GoOnline`, `Arrive`).

### Fairness

`MemorySessions` assumes weak fairness of a thread's steps of `cleanup` while it
holds the lock. Nothing in that loop waits for anything, so this only says that
the interpreter does not suspend a thread for ever. Nothing is assumed of
threads that wait for the lock, of requests or of arriving stanzas.

`Server` assumes weak fairness of `Handler`, the steps of the thread inside
`handle()`. It is justified as far as views and generators end. The only step
that waits, `Answered`, ends by itself: `cmd_version` gives up after its timeout.
No fairness is assumed of `Receive`, so a stanza is dealt with whether
or not others arrive.

`Application` assumes weak fairness of `Handle` for each process: nothing in the
handling of a stanza waits for another process, and hooks, views and generators end.
`Begin` and `Outside` are not fair.

`Bot` assumes weak fairness of `Start`, the steps of `run_server` and of
`session_start`: code that runs without waiting, in the main thread or in the event
thread of SleekXMPP. No fairness is assumed of streams, stanzas or views, so `ComesOnline` allows
for the stream to be lost.

## 4. Proofs

TLAPS proves for every value of the constants, from the named assumptions in the
modules (disjoint contexts, natural bounds, `None` no thread, sender or session, one application
per server, a setup being a sequence). A theorem that needs more says so in its hypotheses: that
nothing raises (`Failures = {}`), that there is one thread, or that setups give each function once.

`ContextsProofs`, for every set of `Failures`:

* `TypeCorrect`: `Spec => []TypeOK`;
* `CallersAreCounted`: `Spec => []RefcntCountsBlocks`;
* `TeardownIsLast`: `Spec => []NoEarlyTeardown`.

None of these is inductive alone. `ContextsInv` adds three facts: a request has
at least as many levels in `implicit` as it has open blocks (`RequestLevels`;
more, if `open_session` has raised), so that leaving a block finds a level to
take and a level that is not the last one has another below it; an implicit
context that has open blocks besides its level is counted for them
(`ImplicitCounted`); and no implicit context is referred to from two levels
(`ReferencedOnce`), so that popping a level never drops a count somebody else
relies on. There is a lemma for each action, and two for what adding and
taking a level does to the number of occurrences.

`NestingProofs`, for `Failures = {}`:

* `PopsAlwaysMatch`: `Spec => []PopsMatch`; `CountsArePushes`: `Spec => []RefcntCountsPushes`;
  `ProxiesAreOwn`: `Spec => []ProxiesServeInnermost`; `EverythingIsLeft`:
  `Spec => []NothingLeftBehind`;
* `ContextsImplementScopes`: `Spec => RequestsNest`: the initial states of `Contexts` are initial
  states of `RequestScope`, and each step enters a scope, leaves one, or stutters.

That the innermost block finds on the stacks what it has put there says nothing of the blocks
further out, and leaving it uncovers one of these. `NestingInv` therefore has `Nested`: there are
heights of the two stacks and of the levels of every request, one for each number of open blocks,
that grow with it, and every open block has put its entries at its own height. Entering a block
adds a height, and leaving it goes back to the one before. `CountsArePushes` needs, besides, that
the count of a context is the number of its places on the stack, which the lemmas about adding
and dropping an entry keep.

`ServerProofs`, for any `Behaviours`, any `Failures`, any number of stanzas and depth of calls:

* `ServerTypeCorrect`: `ServerSpec => []ServerTypeOK`;
* `CodeSeesItsRequest`: `ServerSpec => []RequestIsOwn`; `QueuesAreOwn`: `ServerSpec => []QueueIsOwn`;
* `NothingHeldWhenIdle`: `ServerSpec => []IdleIsClean`;
* `WritesAreStored`: `ServerSpec => []ViewWritesKept`;
* `HandledHaveNotified`: `ServerSpec => []HandledMeansNotified`;
* `ServerUsesContexts`: every behaviour of `Server` is one of `Contexts`, so what is proved of the
  contexts holds of the server;
* `HandlingCannotGoOn`: for finitely many stanzas every step of the server lowers `Remaining`.

`ServerInv` reads the stacks off `frames`: all calls but the innermost wait (`CallsWait`), and the
stacks hold one application context and one request for each of them, with on top what the innermost
has pushed up to its statement. The server shares one application context among all stanzas, so its count is the
number of entered calls, and a nested call never meets the list `g` while the call below it has
notifications in it. An `open_session` that raises leaves an entry behind; from then on an
exception is on its way, no hook, view or generator runs before all calls have ended, and of the
request stack nothing is claimed until then.

`Remaining` are five natural numbers, the first of which to change goes down: the stanzas still to
come; the calls in progress, of which there is one more when a stanza arrives and one less when one
ends; the way the innermost call has before it, by its statement, an exception only shortening it; what
it has to send, a waiting command included, which is why its way back from the wait is not a circle;
and the session writes and notifications no view has made yet. The definitions of `ServerInv` make
each a natural number (a queue, items and calls are sequences; what has been written and noted is finite).

`MemorySessionsProofs`, for any number of threads:

* `TypeCorrect`: `Spec => []TypeOK`;
* `DeleteIsSafe`: `Spec => []DeleteFindsItsKey`, from `CleanupInv`: whoever is inside
  `cleanup` owns the lock, so there is one sweeper at a time, whose snapshot and
  victim are keys still stored since only it deletes;
* `SessionsAreOwn`: `Spec => []StoredUnderOwnJid`, from the same argument plus that an
  object somebody refers to is never handed out as a new one;
* `LifespanKept`: with one thread, `Spec => SessionKeptForLifespan`, from
  `LifespanInv`: what the thread has condemned has expired and stays so, and the
  session it is about to store is the one stored or there is none;
* `NothingExpiredIsServed`: with one thread, `Spec => []SweepLeavesNothingExpired`, from
  `SweepProgress`: what had expired when the sweep began is among the keys still to come or the
  one just condemned, so none is left when there are none to come;
* `SavedIsFound`: with one thread, `Spec => []SavedSessionIsFound`, from `ServedInv`: the session a
  request works on is its sender's or has been cleared, and stays the one found in the store;
* `CleanupGetsDone`: for finitely many senders, who holds the lock is inside `cleanup`, and the
  `Work` it has left (two steps for each item of the snapshot, to condemn it and to delete it, of which there
  are at most as many as keys) goes down by its own steps and by nobody else's, though others store meanwhile.

`RoutingProofs`, for any rules whose weights are natural numbers, any stanzas and any number of threads:

* `MatchOrder`: `Before` is asymmetric and transitive. `match_compare` answers 1 for two
  rules it cannot tell apart, both ways round, so as a `cmp` function it contradicts
  itself; what `list.sort` uses of it ("is this one less?") is nevertheless an
  order, and the result of a sort is determined up to the order of registration. It rests
  on a lemma each for the lexicographic orders of weights and of the rest.
* `RoutingTypeCorrect`: `Spec => []TypeOK`;
* `BestRuleAlwaysWins`: `Spec => []BestRuleWins`;
* `LongerTextAlwaysWins`: `Spec => []LongerTextWins`, from the two before and the assumption
  `TextsWeighTheirLength`: of two rules that are only a text, one of which begins with the other,
  the longer weighs more. In the code the weight of a text is its length;
* `BuildAlwaysInvertsMatch`: `Spec => []BuildInvertsMatch`, if the names of a rule's
  variables differ (`NamesAreUsedOnce`, which `parse_rule` enforces) and rules and stanzas have parts and
  words as `RulesAreDeclared` and `RequestsAreDeclared` say.

A stable sort cannot be followed by induction over the list here, so `Sorted` is what the sort
returns: the arrangement of the list in which every place precedes those behind it. That there is
one is proved: places are ordered by `PrecedesIn` (`PlacesAreOrdered`; rules that are tied have
the same weights and rank, so a tie passes comparisons on), and a finite set can be numbered in any order
(`OrderNumbers`, each element by how many are not behind it). `RoutingInv` then has three parts.
`SortInv`: the list is *kept*, an arrangement of the registered rules with tied ones in the order of
registration, or it is empty and the only thread that sorts has saved a kept one; and once the
mark is gone and nobody sorts, it is *ordered*. `ScanInv`: nobody else sorts while an undisturbed
thread is at work, and the rules it has passed do not match. `BestRuleWins` is inductive with these:
the first match in an ordered list precedes all others, and where none matches none is
registered that does.

That `build` undoes `match` holds rule by rule (`BuildUndoesMatch`), and a thread keeps what the rule
has answered (`FoundOf`). Two messages are *alike* when they differ only in how their numbers are
written. The message built from a cut consists of the segments of that cut, the numbers written
anew (`BuiltFromCut`), so it is alike; a part accepts both of two segments that are alike or neither
(`AcceptsAlike`), unless its text has a number in it; so both messages have the same cuts
(`CutsAlike`). There is a first cut wherever there is one (`FirstIsFound`), so the search finds the same one in
both, and its parts give the same values. As many segments as the rule has parts are put together by a
recursive function, which asks for an induction: `FlattenSegments`, `FirstIsFound` and
`CutsClimb` make it from the least place where the claim would fail (`Least`).

`ApplicationProofs`, for any setups, processes, senders, stanzas and times to live:

* `StoreKeepsWrites`: `Spec => []WritesKept`. Not inductive alone: `RedisInv` adds that only
  documents that are not permanent have an expiry (`ExpiringKeys`), so that the clock takes only what
  the store need not keep, and that a session has what its request has written and what
  it was loaded with (`Carried`), so that storing it keeps what is owed;
* `NoAnswerUnsaved`: `Spec => []AnsweredMeansSaved`, from `RequestInv`: a request that has
  got past saving without an exception has its writes stored. What is proved of each point rests on
  three lemmas about leaving a context, answering and handling an error, which are the only ways on;
* `TypeCorrect`: `Spec => []TypeOK`, and `ResultsAreOwn`: `Spec => []ResultsReachAsker`, from
  `ShapeInv`: the iterators of a response are numbered in their order and the queue goes on from the
  current one (`Numbered`), what has been sent comes from no later iterator than the current one
  (`SentInOrder`), and the result that waits is that of the current iterator's last command or
  `None` if it has sent nothing (`Pending`). It also has how many contexts have been left at
  each point (`Passes`) and whose session a request holds (`SessionOfSender`, which needs that
  documents are stored under the sender they name, `FiledUnderOwnJid`).

`HooksProofs`, for any setups that give each function once (`GivenOnce`), any blueprints, processes
and stanzas:

* `EveryTeardownRuns`: `Spec => []TeardownComplete`, as far as that goes: a pass that was stopped and
  the functions of a blueprint are excepted there, and the code does not do what its docstrings say of them;
* `HooksRunInScope`: `Spec => []HooksInScope`.

Both follow from `HooksInv`. `ListsInv` relates a setup to what it leaves: when step n is reached,
each blueprint has recorded what the steps before have given it (`Recorded`), the lists of the
application hold the function of every step that has taken effect, each once (`Listed`), and no
request is taken up before the setup is done. `RunInv` says of each request that what a list has run
and what is to do make up the list (`Splits`), for each pass of the teardown (`TornDown`) and for the
`after_request` hooks (`HasRun`). There is a lemma for each step of a setup and each action of
a request, and one for what a part of a list, its functions and its reverse are (`Ranks` counts
the indices chosen). `GivenOnce` asks that no function is decorated or recorded twice, that a
blueprint is registered as the first once, and that it records what goes into the lists
of the application with `record_once`, as all its decorators for them do. The properties
need it: a function that is in the lists twice runs twice, once for each entry. TLC
evaluates it for the setups of the run (`GivesOnce`).

* `RequestsCannotGoOn`: every step on a stanza lowers `AheadOf` its process, and no other step touches it.

`AheadOf` are three natural numbers, compared as in `Server`: the points a request has still to pass;
the functions it has still to call, or the appended responses it has still to begin with; and what the view
may still do to its session (a clearing makes room for writes, but there is no second one) or the items of
the current iterator. `FiniteInv` makes them numbers: lists, responses and what is still to do are
sequences. For that, what functions return must have finitely many items (`ValuesAreFinite`: a generator that
never ends is never sent to its end) and a setup must record in blueprints and register them only
(`NamesBlueprints`); `GivenOnce` is not needed.

`BotProofs`, for any capabilities, requirements, stanzas and number of streams:

* `TypeCorrect`: `Spec => []TypeOK`, which has the relation between the registered
  capabilities and the number of handlers;
* `HandledAtMostOnce`: `Spec => []HandledOnce`, from `Once`: a stanza that is being handed
  on has no view behind it while a call is left, and there is only one call;
* `ReadyWhenOnline`: `Spec => OnlineMeansReady`, from `StandardFirst`: while 'std' is not
  registered it is the next to be;
* `NothingKeepsOffline`: while no plugin is missing and the server has a class for all that is required
  (`NothingLacks`), a stream on which the bot is not online has a `session_start` at work
  (`SilentIsStarting`), each step of which takes a capability off its list or is the presence
  (`SessionGetsOnline`). It needs that each class is registered or still on the list (`ToComeOrThere`);
  so the name already known, in a second `session_start`, is passed by and nothing raises;
* `RepliesAlwaysFollowEdits`: `Spec => []RepliesFollowEdits`, for texts of any length and any
  number of assignments. The property is not inductive: a part may be cached, or in the text,
  or both, and after the domain has been assigned the text is still that of the old one. `Faithful`
  says what such a JID stands for: a text whose parts can be told apart and, the domain apart, are those
  asked for, and cached parts that agree. The getters then return the parts asked for
  (`Getters`), reading keeps this, and each setter makes a JID that stands for the new parts (`SetNodeIsFaithful`
  and those after it). It rests on lemmas about texts: a text splits at its first mark
  in one way (`OneSplit`), and the text of parts that can be told apart has just the marks that go with them,
  since another would make it longer (`PartsFound`). `JidsAreWellFormed` asks that the
  JIDs that arrive and are assigned have neither an empty node nor an empty resource, and
  that bare ones have no resource; TLC evaluates it for those of the run.

Only model-checked: liveness (`LockIsReleased`, `HandlingEnds`, `RequestEnds`,
`ComesOnline`), which the prover does not reach: that a step is possible and will be taken speaks of
`ENABLED` and fairness. What else they rest on, that nothing goes round in a circle on its way to
the end or leaves it for another, speaks of steps and is proved: `CleanupGetsDone`, `HandlingCannotGoOn`,
`RequestsCannotGoOn` and `NothingKeepsOffline`, with a measure each.

## 5. Not modelled

* What application code does besides writing to its session, notifying, raising
  and answering; the contents of messages and sessions.
* In `Server`: several threads (each has stacks of its own; what they share is the
  session store, which `MemorySessions` has), expiry, raising teardown functions
  (in `Contexts`), a reconnect.
* In `MemorySessions`: a session interface that returns no session; a view that
  replaces `session.jid` by another sender's JID, which is application code acting
  against its own framework.
* In `Routing`: the text of a rule and its parsing, letters within a word and the arguments for their
  number (`length`, `minlength`, `maxlength`), the converter
  for floating point numbers (which differs from that for integers in its regular
  expression only), additions while stanzas are being matched.
* In `Application`: stanzas handled one below the other (`Server`), nested contexts
  (`Contexts`), notifications (`Server`), several threads of a process. `is_session_expired` of the
  Redis store, which nobody calls, and which answers the opposite of its name.
* In `Blueprints`: the texts and endpoints of routes, since no route can be registered through a
  blueprint.
* In `Bot`: what a stanza holds besides sender, type and body; the environ keys of delayed delivery and
  of software versions; the room plugin of SleekXMPP, which is given room and nick as they are.
* Lazy initialisation (`locked_cached_property`, the logger): the lock covers the whole
  getter, and what is created under it is read nowhere else. Nothing could be violated but what
  the lock excludes by its definition.
* Templating, configuration, the remaining vendored data structures, exceptions, packaging and
  examples: no state that a sequence of calls could bring into disorder.

## 6. Plan

In order; each with its runs and, where it says so, proofs.

1. `Routing`, what is left: `MapAdapter.build` with `suitable_for`.
2. Sessions keyed by a JID that a view edits: `MemorySessions` composed with `Jid`.
