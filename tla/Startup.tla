------------------------------ MODULE Startup ------------------------------
(***************************************************************************)
(* From run_server to a bot that is online: choosing the library,          *)
(* connecting, session_start with the capabilities, and, with SleekXMPP,   *)
(* the session_start of every later reconnect.  The libraries and the XMPP *)
(* server are outside; what they do is a choice.                           *)
(***************************************************************************)
EXTENDS Naturals, Sequences

CONSTANTS
  Environments,  \* bound: [installed, engine, missing]: the libraries that are installed,
                 \* the option engine, and the plugins SleekXMPP lacks
  Classes,     \* the server's capabilities, in the order of __subclasses__
  Requirable,  \* names require_capability may be given
  MaxStarts    \* bound: streams of a behaviour

Libraries == {"xmpppy", "sleekxmpp"}
Names == {Classes[i] : i \in DOMAIN Classes}

ASSUME StandardIsThere == Classes \in Seq(STRING) /\ "std" \in Names
ASSUME StartsAreNatural == MaxStarts \in Nat

VARIABLES
  options,   \* the environment and the option
  phase,     \* of run_server; "starting" is session_start
  lib,       \* the library whose server has been created last
  todo,      \* capabilities session_start has still to register
  caps,      \* server.caps
  handlers,  \* how many handlers the client calls for a message
  required,  \* app.required_capabilities
  stream,    \* the client has a stream to the server
  online,    \* and has announced itself on it
  starts     \* how many streams there have been

startVars == <<options, phase, lib, todo, caps, handlers, required, stream, online, starts>>

Phases == {"choose", "connect", "starting", "serving", "ended"}

StartTypeOK ==
  /\ options \in Environments
  /\ phase \in Phases /\ lib \in Libraries
  /\ todo \in Seq(Names) /\ caps \subseteq Names /\ handlers \in Nat
  /\ required \subseteq Requirable
  /\ stream \in BOOLEAN /\ online \in BOOLEAN /\ starts \in 0..MaxStarts
  /\ online => stream
  /\ handlers = IF "std" \in caps THEN 1 ELSE 0

StartInit ==
  /\ options \in Environments
  /\ phase = "choose" /\ lib = "xmpppy"
  /\ todo = <<>> /\ caps = {} /\ handlers = 0
  /\ required \in SUBSET Requirable
  /\ stream = FALSE /\ online = FALSE /\ starts = 0

\* Mutation of NoCapabilities: they belong to the class and not to the object.
SharedCapabilities == caps

\* A new server object has no capabilities, and its client no handlers.
NoCapabilities == {}

Serve(library) ==
  /\ phase' = "connect" /\ lib' = library /\ todo' = <<>>
  /\ caps' = NoCapabilities /\ handlers' = 0
  /\ stream' = FALSE /\ online' = FALSE

End ==
  /\ phase' = "ended" /\ todo' = <<>> /\ stream' = FALSE /\ online' = FALSE
  /\ UNCHANGED <<lib, caps, handlers>>

\* run_server: an ImportError leads to the other library only where none was asked for.
ImportFails ==
  IF options.engine = "any" /\ "sleekxmpp" \in options.installed THEN Serve("sleekxmpp") ELSE End

ChooseLibrary ==
  /\ phase = "choose"
  /\ \/ options.engine \in {"any", "xmpppy"} /\ "xmpppy" \in options.installed /\ Serve("xmpppy")
     \/ options.engine \in {"any", "xmpppy"} /\ "xmpppy" \notin options.installed /\ ImportFails
     \/ options.engine = "sleekxmpp" /\ IF "sleekxmpp" \in options.installed THEN Serve("sleekxmpp") ELSE End
     \/ options.engine = "other" /\ End
  /\ UNCHANGED <<options, required, starts>>

\* session_start begins: 'std' first, then all classes.
StartSession ==
  /\ phase' = "starting" /\ todo' = <<"std">> \o Classes
  /\ stream' = TRUE /\ online' = FALSE
  /\ starts < MaxStarts /\ starts' = starts + 1
  /\ UNCHANGED <<options, lib, caps, handlers, required>>

\* xmpppy: connect and authorize, or raise.
Connect ==
  /\ phase = "connect" /\ lib = "xmpppy"
  /\ \/ StartSession
     \/ End /\ UNCHANGED <<options, required, starts>>

\* SleekXMPP: a thread is left running, whatever connect has returned.
ConnectInBackground ==
  /\ phase = "connect" /\ lib = "sleekxmpp"
  /\ phase' = "serving"
  /\ UNCHANGED <<options, lib, todo, caps, handlers, required, stream, online, starts>>

\* The library fires session_start for the first stream and for every later one.
SessionStarted ==
  /\ phase = "serving" /\ lib = "sleekxmpp" /\ ~stream
  /\ StartSession

\* What raises in session_start ends run_server with xmpppy; SleekXMPP logs it.
StartFails ==
  IF lib = "xmpppy" THEN End
  ELSE /\ phase' = "serving" /\ todo' = <<>>
       /\ UNCHANGED <<lib, caps, handlers, stream, online>>

\* Mutation of Known: a capability is registered again.
KnownNever(name) == FALSE

Known(name) == name \in caps

\* The constructors of SleekXMPP's capabilities ask for plugins, which may be missing.
PluginThere(name) == lib = "xmpppy" \/ name \notin options.missing

\* That of 'std' registers a handler for messages, and one for presences.
HandlersWith(name) == IF name = "std" THEN handlers + 1 ELSE handlers

RegisterCapability ==
  LET name == Head(todo) IN
  /\ phase = "starting" /\ todo # <<>>
  /\ \/ /\ Known(name) /\ todo' = Tail(todo)
        /\ UNCHANGED <<phase, lib, caps, handlers, stream, online>>
     \/ /\ ~Known(name) /\ PluginThere(name) /\ todo' = Tail(todo)
        /\ caps' = caps \cup {name} /\ handlers' = HandlersWith(name)
        /\ UNCHANGED <<phase, lib, stream, online>>
     \/ ~Known(name) /\ ~PluginThere(name) /\ StartFails
  /\ UNCHANGED <<options, required, starts>>

\* Mutations of Fulfilled: of a later stream nothing is required; nothing else is allowed.
FulfilledLater == required \subseteq caps \/ starts > 1
FulfilledExactly == required = caps

\* check_app_requirements
Fulfilled == required \subseteq caps

\* The end of session_start: the presence.
GoOnline ==
  /\ phase = "starting" /\ todo = <<>>
  /\ \/ /\ Fulfilled /\ phase' = "serving" /\ online' = TRUE
        /\ UNCHANGED <<lib, todo, caps, handlers, stream>>
     \/ ~Fulfilled /\ StartFails
  /\ UNCHANGED <<options, required, starts>>

\* app.require_capability, which may be called at any time.
Require(name) ==
  /\ phase = "serving" /\ name \notin required
  /\ required' = required \cup {name}
  /\ UNCHANGED <<options, phase, lib, todo, caps, handlers, stream, online, starts>>

\* The stream is lost: SleekXMPP gets another one in the end, while serve_forever goes
\* on with xmpppy, whatever Process returns.
StreamLost ==
  /\ phase = "serving" /\ stream
  /\ stream' = FALSE /\ online' = FALSE
  /\ UNCHANGED <<options, phase, lib, todo, caps, handlers, required, starts>>

\* The steps of run_server and of session_start.
Starting ==
  ChooseLibrary \/ Connect \/ ConnectInBackground \/ RegisterCapability \/ GoOnline

-----------------------------------------------------------------------------
\* The bot announces itself only with everything the application "MUST" have, required
\* by then, and with one handler for a message; a stream without it stays silent.
OnlineMeansReady ==
  [][~online /\ online' => required \subseteq caps /\ handlers = 1]_startVars

\* Whenever a stream is up, all plugins are there and the server has a class for what is
\* required, the bot gets online on it, in a later stream as in the first, or the stream
\* is lost before.
ComesOnline ==
  stream /\ options.missing = {} /\ required \subseteq Names ~> online \/ ~stream
=============================================================================
