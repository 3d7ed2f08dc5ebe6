------------------------------- MODULE Server -------------------------------
(***************************************************************************)
(* The way of a stanza through xmppflask: XmppWsgiServer.handle, the outer *)
(* request context of the server, the inner one of the application, hooks  *)
(* and view, saving the session, the response and the notifications.       *)
(*                                                                         *)
(* One thread handles stanzas.  With xmpppy, a command that waits for an   *)
(* answer (cmd_version) processes incoming stanzas meanwhile, so handle()  *)
(* is re-entered below a half-sent response: frames holds the calls of     *)
(* handle() in progress, innermost last, each with the statement it is at. *)
(* The contexts are those of module Contexts; the sessions are the objects *)
(* and the dictionary of the in-memory store, without expiry (module       *)
(* MemorySessions has it).                                                 *)
(***************************************************************************)
EXTENDS Contexts

CONSTANTS
  Stanzas,        \* the stanzas that arrive
  Jids,           \* JIDs stanzas come from
  From,           \* the sender of each stanza
  Empty,          \* stanzas that are messages without a body
  AppJid,         \* environ['app.jid']
  ServerContext,  \* the server's app_ctx
  Engines,        \* XMPP libraries, a subset of {"xmpppy", "sleekxmpp"}
  Behaviours,     \* what the application code may do, a subset of AllBehaviours
  Responses,      \* bound: the lists of items a view may answer with
  None            \* no session

AllBehaviours ==
  {"write", "notify", "raise", "lazy", "lazy write", "lazy notify"}

\* Items of a response: a command that sends, one that waits for an answer,
\* and one no capability has registered.
Items == {"message", "wait", "unknown"}

Outer(s) == <<s, 1>>     \* the context of XmppWsgiServer.xmppwsgi_app
Inner(s) == <<s, 2>>     \* the context of XmppFlask.xmppwsgi_app
StanzaContexts == Stanzas \X {1, 2}

\* A notification: the stanza it was made for, the part of the view that made
\* it, and whether its response is a text or a presence command.
StanzaNotes ==
  [by : Stanzas, during : {"view", "generator"}, kind : {"message", "presence"}]

ASSUME SharedContexts ==
  RequestContexts = StanzaContexts /\ ServerContext \in AppContexts
\* The context the server holds and those of its requests are made by one
\* application object.
ASSUME OneApplication ==
  \A r \in RequestContexts : AppOf[r] = AppOf[ServerContext]
ASSUME NoSession == None \notin StanzaContexts
ASSUME NotesOfStanzas == Notes = StanzaNotes
ASSUME Senders == From \in [Stanzas -> Jids] /\ Empty \subseteq Stanzas
ASSUME KnownResponses == Responses \subseteq Seq(Items)
ASSUME KnownBehaviours == Behaviours \subseteq AllBehaviours

VARIABLES
  engine,     \* the library in use
  running,    \* serve_forever has not ended
  status,     \* what became of each stanza
  frames,     \* calls of handle() in progress
  sess,       \* RequestContext.session, named by the context that created it
  storage,    \* MemorySessionInterface._storage
  data,       \* what each session object holds: the writes it has seen
  written,    \* history: writes made through the session proxy
  noted,      \* history: notifications handed to notify()
  delivered,  \* history: notifications sent
  openFailed  \* history: some call of open_session has raised

serving == <<engine, running, status>>
store == <<sess, storage, data>>
history == <<written, noted, delivered, openFailed>>
allVars == <<vars, frames, serving, store, history>>

Statuses == {"pending", "ignored", "handling", "done", "failed"}
Points == {"app context", "outer", "inner", "view", "process", "drain", "leave inner",
           "send", "wait", "notify", "leave outer", "leave app context"}
Writes == Stanzas \X {"view", "generator"}
Frames ==
  [stanza : Stanzas, at : Points, lazy : BOOLEAN, items : Seq(Items),
   queue : Seq(Notes), exc : BOOLEAN]

ServerTypeOK ==
  /\ TypeOK
  /\ engine \in Engines /\ running \in BOOLEAN /\ openFailed \in BOOLEAN
  /\ status \in [Stanzas -> Statuses]
  /\ frames \in Seq(Frames)
  /\ sess \in [StanzaContexts -> StanzaContexts \cup {None}]
  /\ storage \in [Jids -> StanzaContexts \cup {None}]
  /\ data \in [StanzaContexts -> SUBSET Writes]
  /\ written \subseteq Writes
  /\ noted \subseteq Notes /\ delivered \subseteq noted

ServerInit ==
  /\ Init
  /\ engine \in Engines
  /\ running = TRUE
  /\ status = [s \in Stanzas |-> "pending"]
  /\ frames = <<>>
  /\ sess = [r \in StanzaContexts |-> None]
  /\ storage = [j \in Jids |-> None]
  /\ data = [r \in StanzaContexts |-> {}]
  /\ written = {} /\ noted = {} /\ delivered = {}
  /\ openFailed = FALSE

-----------------------------------------------------------------------------
Top == Last(frames)
Active == Top.stanza
At(point) == frames # <<>> /\ Top.at = point

SetTop(frame) == frames' = [frames EXCEPT ![Len(frames)] = frame]
Goto(point) == SetTop([Top EXCEPT !.at = point])

\* An exception leaves for the with block the statement is in.
RaiseTo(point) == SetTop([Top EXCEPT !.at = point, !.exc = TRUE])

May(behaviour) == behaviour \in Behaviours

-----------------------------------------------------------------------------
(* handle()                                                                *)

\* The library delivers stanzas when it processes its input: between calls of
\* handle(), and with xmpppy while a command waits for its answer.
Delivers == running /\ (frames = <<>> \/ At("wait"))

\* Our own stanzas and empty messages are skipped.
Skipped(s) == From[s] = AppJid \/ s \in Empty

Ignore(s) ==
  /\ Delivers /\ status[s] = "pending" /\ Skipped(s)
  /\ status' = [status EXCEPT ![s] = "ignored"]
  /\ UNCHANGED <<vars, engine, running, frames, store, history>>

Receive(s) ==
  /\ Delivers /\ status[s] = "pending" /\ ~Skipped(s)
  /\ status' = [status EXCEPT ![s] = "handling"]
  /\ frames' = Append(frames,
       [stanza |-> s, at |-> "app context", lazy |-> FALSE, items |-> <<>>,
        queue |-> <<>>, exc |-> FALSE])
  /\ UNCHANGED <<vars, engine, running, store, history>>

-----------------------------------------------------------------------------
(* xmppwsgi_app of the server and of the application: entering contexts.   *)

EnterAppContext ==
  /\ At("app context") /\ Goto("outer")
  /\ EnterApp(ServerContext)
  /\ UNCHANGED <<serving, store, history>>

\* open_session: the stored session, or a new one.
OpenSession(r) ==
  LET j == From[Active] IN
  sess' = [sess EXCEPT ![r] = IF storage[j] # None THEN storage[j] ELSE r]

\* Mutation of EnterOuter: the server runs the application without a context
\* of its own.
EnterNoOuter ==
  /\ At("outer") /\ Goto("inner")
  /\ OpenSession(Outer(Active))
  /\ UNCHANGED <<vars, serving, storage, data, history>>

EnterOuter ==
  /\ At("outer") /\ Goto("inner")
  /\ EnterRequest(Outer(Active)) /\ OpenSession(Outer(Active))
  /\ UNCHANGED <<serving, storage, data, history>>

EnterInner ==
  /\ At("inner") /\ Goto("view")
  /\ EnterRequest(Inner(Active)) /\ OpenSession(Inner(Active))
  /\ UNCHANGED <<serving, storage, data, history>>

\* open_session raises.
EnterFails ==
  /\ \/ At("outer") /\ EnterRequestFails(Outer(Active)) /\ RaiseTo("leave app context")
     \/ At("inner") /\ EnterRequestFails(Inner(Active)) /\ RaiseTo("leave outer")
  /\ openFailed' = TRUE
  /\ UNCHANGED <<serving, store, written, noted, delivered>>

-----------------------------------------------------------------------------
(* Application code: the hooks and the view function at "view", and the    *)
(* body of a generator view, which runs while its response is being sent.  *)

RunningPart ==
  CASE At("view") -> "view"
    [] At("send") /\ Top.lazy -> "generator"
    [] OTHER -> "none"

\* session[...] = ... on the session of the current request.
Write ==
  LET part == RunningPart
      write == <<Active, part>>
      object == sess[TopOf(reqStack)]
  IN
  /\ \/ part = "view" /\ May("write")
     \/ part = "generator" /\ May("lazy write")
  /\ write \notin written
  /\ data' = [data EXCEPT ![object] = @ \cup {write}]
  /\ written' = written \cup {write}
  /\ UNCHANGED <<vars, serving, frames, sess, storage, noted, delivered, openFailed>>

MakeNote(n) ==
  /\ n.during = RunningPart /\ n.by = Active
  /\ \/ n.during = "view" /\ May("notify")
     \/ n.during = "generator" /\ May("lazy notify")
  /\ n \notin noted
  /\ Notify(n)
  /\ noted' = noted \cup {n}
  /\ UNCHANGED <<serving, frames, store, written, delivered, openFailed>>

\* A hook or the view returns, or an exception is answered by its handler or by
\* the apology: the response is a list of items or a generator.  No item at
\* all is the response to a message that no rule matches.
ViewReturns ==
  /\ At("view")
  /\ \E items \in Responses, lazy \in BOOLEAN :
       /\ lazy => May("lazy")
       /\ SetTop([Top EXCEPT !.at = "process", !.items = items, !.lazy = lazy])
  /\ UNCHANGED <<vars, serving, store, history>>

\* Without a handler and with debug on, the exception goes on.
ViewRaises ==
  /\ At("view") /\ May("raise") /\ RaiseTo("leave inner")
  /\ UNCHANGED <<vars, serving, store, history>>

\* Mutation of ProcessResponse: the session of the server's context is saved.
ProcessResponseOuter ==
  /\ At("process")
  /\ \/ Goto("drain")
     \/ May("raise") /\ RaiseTo("leave inner")
  /\ storage' = [storage EXCEPT ![From[Active]] = sess[Outer(Active)]]
  /\ UNCHANGED <<vars, serving, sess, data, history>>

\* process_response: the session of the top request context is saved, then the
\* after_request hooks run, which may raise outside of any handler.
ProcessResponse ==
  /\ At("process")
  /\ \/ Goto("drain")
     \/ May("raise") /\ RaiseTo("leave inner")
  /\ storage' = [storage EXCEPT ![From[Active]] = sess[TopOf(reqStack)]]
  /\ UNCHANGED <<vars, serving, sess, data, history>>

\* for item in get_notification_list(): notification_queue.append(item)
DrainNotes ==
  /\ At("drain")
  /\ SetTop([Top EXCEPT !.at = "leave inner",
                        !.queue = @ \o notes[Last(appStack)]])
  /\ UNCHANGED <<vars, serving, store, history>>

LeaveInner ==
  /\ At("leave inner")
  /\ ExitRequest(Inner(Active), FALSE)
  /\ IF Top.exc \/ TopOf(reqStack) # Inner(Active)
     THEN RaiseTo("leave outer") ELSE Goto("send")
  /\ UNCHANGED <<serving, store, history>>

-----------------------------------------------------------------------------
(* dispatch_app_response and dispatch_notification_queue                   *)

SendItem ==
  /\ At("send") /\ Top.items # <<>>
  /\ LET rest == [Top EXCEPT !.items = Tail(@)] IN
       CASE Head(Top.items) = "message" -> SetTop(rest)
         [] Head(Top.items) = "wait" ->
              \* SleekXMPP blocks the thread that delivers stanzas.
              SetTop([rest EXCEPT !.at = IF engine = "xmpppy" THEN "wait" ELSE "send"])
         [] Head(Top.items) = "unknown" ->
              SetTop([rest EXCEPT !.at = "leave outer", !.exc = TRUE])
  /\ UNCHANGED <<vars, serving, store, history>>

\* Mutation of Answered: without the timeout, a wait ends with the next stanza.
AnsweredByTraffic ==
  /\ At("wait") /\ Goto("send")
  /\ \E s \in Stanzas \ {Active} : status[s] # "pending"
  /\ UNCHANGED <<vars, serving, store, history>>

\* The answer has come, or none has within the timeout.
Answered ==
  /\ At("wait") /\ Goto("send")
  /\ UNCHANGED <<vars, serving, store, history>>

\* The body of a generator raises: nothing in the server catches it.
GeneratorRaises ==
  /\ RunningPart = "generator" /\ May("raise") /\ RaiseTo("leave outer")
  /\ UNCHANGED <<vars, serving, store, history>>

ResponseSent ==
  /\ At("send") /\ Top.items = <<>> /\ Goto("notify")
  /\ UNCHANGED <<vars, serving, store, history>>

\* The environ of a notification has one key; cmd_message reads two, and the
\* missing one is a KeyError.
NotificationKeys == {"xmpp.jid"}
KeysRead(kind) ==
  CASE kind = "message" -> {"xmpp.jid", "xmpp.stanza_type"}
    [] kind = "presence" -> {"xmpp.jid"}

\* Mutation of SendNote: the KeyError is swallowed with the notification.
SendNoteOrDrop ==
  /\ At("notify") /\ Top.queue # <<>>
  /\ LET n == Head(Top.queue) IN
       /\ SetTop([Top EXCEPT !.queue = Tail(@)])
       /\ delivered' = IF KeysRead(n.kind) \subseteq NotificationKeys
                        THEN delivered \cup {n} ELSE delivered
  /\ UNCHANGED <<vars, serving, store, written, noted, openFailed>>

SendNote ==
  /\ At("notify") /\ Top.queue # <<>>
  /\ LET n == Head(Top.queue) IN
       IF KeysRead(n.kind) \subseteq NotificationKeys
       THEN /\ SetTop([Top EXCEPT !.queue = Tail(@)])
            /\ delivered' = delivered \cup {n}
       ELSE RaiseTo("leave outer") /\ UNCHANGED delivered
  /\ UNCHANGED <<vars, serving, store, written, noted, openFailed>>

NotesSent ==
  /\ At("notify") /\ Top.queue = <<>> /\ Goto("leave outer")
  /\ UNCHANGED <<vars, serving, store, history>>

-----------------------------------------------------------------------------
(* Leaving the contexts, normally or with an exception.                    *)

LeaveOuter ==
  /\ At("leave outer")
  /\ ExitRequest(Outer(Active), FALSE)
  /\ IF TopOf(reqStack) # Outer(Active)
     THEN RaiseTo("leave app context") ELSE Goto("leave app context")
  /\ UNCHANGED <<serving, store, history>>

\* Mutation of LeaveAppContext: an exception skips the pop.
LeaveAppContextOnReturn ==
  /\ At("leave app context")
  /\ IF Top.exc THEN UNCHANGED vars ELSE ExitApp(ServerContext, FALSE)
  /\ status' = [status EXCEPT ![Active] = IF Top.exc THEN "failed" ELSE "done"]
  /\ LET rest == Front(frames) IN
       frames' = IF Top.exc /\ rest # <<>>
                 THEN [rest EXCEPT ![Len(rest)].at = "leave outer",
                                   ![Len(rest)].exc = TRUE]
                 ELSE rest
  /\ running' = (running /\ ~(Top.exc /\ Len(frames) = 1 /\ engine = "xmpppy"))
  /\ UNCHANGED <<engine, store, history>>

\* An exception reaches the library.  Below a waiting command it comes out of
\* that command; otherwise SleekXMPP logs it, and with xmpppy it ends the loop
\* of serve_forever.
LeaveAppContext ==
  /\ At("leave app context")
  /\ ExitApp(ServerContext, FALSE)
  /\ status' = [status EXCEPT ![Active] = IF Top.exc THEN "failed" ELSE "done"]
  /\ LET rest == Front(frames) IN
       frames' = IF Top.exc /\ rest # <<>>
                 THEN [rest EXCEPT ![Len(rest)].at = "leave outer",
                                   ![Len(rest)].exc = TRUE]
                 ELSE rest
  /\ running' = (running /\ ~(Top.exc /\ Len(frames) = 1 /\ engine = "xmpppy"))
  /\ UNCHANGED <<engine, store, history>>

-----------------------------------------------------------------------------
\* The steps of the handling thread.
Handler ==
  \/ EnterAppContext \/ EnterOuter \/ EnterInner \/ EnterFails
  \/ Write \/ (\E n \in Notes : MakeNote(n))
  \/ ViewReturns \/ ViewRaises \/ ProcessResponse \/ DrainNotes \/ LeaveInner
  \/ SendItem \/ Answered \/ GeneratorRaises \/ ResponseSent \/ SendNote \/ NotesSent
  \/ LeaveOuter \/ LeaveAppContext

ServerNext == Handler \/ \E s \in Stanzas : Ignore(s) \/ Receive(s)

\* The thread that runs handle() is scheduled, views and generators end, and a
\* waiting command ends with its timeout.
ServerSpec == ServerInit /\ [][ServerNext]_allVars /\ WF_allVars(Handler)

-----------------------------------------------------------------------------
(* Properties.                                                             *)

\* Application code always runs with its own stanza's request on top, also in
\* a generator that goes on after other stanzas were handled below it, and
\* after requests that could not open their session.
RequestIsOwn ==
  RunningPart # "none" =>
    \E r \in StanzaContexts : r[1] = Active /\ TopOf(reqStack) = r

\* The notifications a stanza's queue holds were made by that stanza's view:
\* the g they pass through is shared by all stanzas of the server.
QueueIsOwn ==
  \A f \in DOMAIN frames : \A i \in DOMAIN frames[f].queue :
    /\ frames[f].queue[i].by = frames[f].stanza
    /\ frames[f].queue[i].during = "view"

\* When no stanza is being handled, the server's application context has been
\* released, whatever raised; and as long as open_session did not raise,
\* nothing at all is left on the stacks.
IdleIsClean ==
  frames = <<>> =>
    /\ refcnt[ServerContext] = 0
    /\ life[ServerContext] # "live"
    /\ ~openFailed => NothingLeftBehind

\* What the view of a handled stanza has written to its session is in the
\* session stored for the sender, whatever was handled in between.
ViewWritesKept ==
  \A s \in Stanzas : status[s] = "done" /\ <<s, "view">> \in written =>
    /\ storage[From[s]] # None
    /\ <<s, "view">> \in data[storage[From[s]]]

\* A stanza that was handled without an exception has sent every notification
\* its view had made.
HandledMeansNotified ==
  \A n \in noted : n.during = "view" /\ status[n.by] = "done" => n \in delivered

\* Every stanza taken up is dealt with, though others are handled meanwhile.
HandlingEnds ==
  \A s \in Stanzas : status[s] = "handling" ~> status[s] \in {"done", "failed"}

\* "... and also says to XMPPWSGI server to send messages to user1@gmail.com":
\* a notification is sent by the time the stanza it was made for is dealt
\* with.  (For applications whose own code does not raise and whose answers
\* have known commands only.)
NotificationsSent ==
  \A n \in noted : status[n.by] \in {"done", "failed"} => n \in delivered

\* "You may keep session context for each user": what a generator view has
\* written to its session is in the session stored for the sender.
GeneratorWritesKept ==
  \A s \in Stanzas : status[s] = "done" /\ <<s, "generator">> \in written =>
    /\ storage[From[s]] # None
    /\ <<s, "generator">> \in data[storage[From[s]]]
=============================================================================
