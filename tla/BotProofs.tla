----------------------------- MODULE BotProofs -----------------------------
(***************************************************************************)
(* Theorems about modules Startup and Bot: the handlers of 'std' are there *)
(* once, a bot is online only with what is required and gets there when    *)
(* nothing lacks, every stanza is handled at most once, and a view reads   *)
(* and addresses what it has asked for, for all libraries, capabilities,   *)
(* stanzas and texts and any number of streams and assignments.            *)
(***************************************************************************)
EXTENDS Bot, TLAPS, SequenceTheorems, WellFoundedInduction

\* session_start runs while there is a stream and begins with 'std', so that it is
\* there when the bot goes online.
StandardFirst ==
  phase = "starting" =>
    stream /\ ("std" \in caps \/ (todo # <<>> /\ Head(todo) = "std"))

StartInv == StartTypeOK /\ StandardFirst

\* The list session_start works off has names only, and 'std' is its first.
LEMMA ToRegister ==
  /\ <<"std">> \o Classes \in Seq(Names)
  /\ <<"std">> \o Classes # <<>> /\ Head(<<"std">> \o Classes) = "std"
<1>1. Classes \in Seq(STRING) /\ "std" \in Names
  BY StandardIsThere
<1>2. Classes \in Seq(Names)
  BY <1>1 DEF Names
<1>3. <<"std">> \in Seq(Names)
  BY <1>1
<1> QED
  BY <1>1, <1>2, <1>3

\* A new server object has no capabilities and its client no handlers; when run_server
\* ends, the capabilities stay as they are.
LEMMA ServeOrEnd ==
  ASSUME StartInv, UNCHANGED <<options, required, starts>>,
         End \/ (\E l \in Libraries : Serve(l))
  PROVE  StartInv'
<1> USE DEF StartInv, StartTypeOK, StandardFirst, Phases, Libraries
<1>1. <<>> \in Seq(Names)
  OBVIOUS
<1>2. CASE End
  BY <1>1, <1>2 DEF End
<1>3. CASE \E l \in Libraries : Serve(l)
  <2>1. PICK l \in Libraries : Serve(l)
    BY <1>3
  <2>2. /\ phase' = "connect" /\ lib' = l /\ caps' = {} /\ handlers' = 0
        /\ ~stream' /\ ~online' /\ todo' = <<>>
    BY <2>1 DEF Serve, NoCapabilities
  <2>3. stream' \in BOOLEAN /\ online' \in BOOLEAN
    BY <2>1 DEF Serve
  <2> QED
    BY <1>1, <2>2, <2>3
<1> QED
  BY <1>2, <1>3

LEMMA ImportFailsServesOrEnds ==
  ASSUME ImportFails
  PROVE  End \/ (\E l \in Libraries : Serve(l))
BY DEF ImportFails, Libraries

\* What raises in session_start.
LEMMA FailedStart ==
  ASSUME StartInv, UNCHANGED <<options, required, starts>>, StartFails
  PROVE  StartInv'
<1>1. CASE lib = "xmpppy"
  BY <1>1, ServeOrEnd DEF StartFails
<1>2. CASE lib # "xmpppy"
  BY <1>2 DEF StartFails, StartInv, StartTypeOK, StandardFirst, Phases
<1> QED
  BY <1>1, <1>2

LEMMA NewSession ==
  ASSUME StartInv, StartSession
  PROVE  StartInv'
<1>1. starts' \in 0..MaxStarts
  BY StartsAreNatural DEF StartInv, StartTypeOK, StartSession
<1>2. todo' \in Seq(Names) /\ todo' # <<>> /\ Head(todo') = "std"
  BY ToRegister DEF StartSession
<1> QED
  BY <1>1, <1>2
       DEF StartInv, StartTypeOK, StandardFirst, StartSession, Phases

LEMMA Registration ==
  ASSUME StartInv, RegisterCapability
  PROVE  StartInv'
<1> DEFINE name == Head(todo)
<1>1. todo \in Seq(Names) /\ todo # <<>> /\ name \in Names /\ Tail(todo) \in Seq(Names)
  BY DEF StartInv, StartTypeOK, RegisterCapability
<1>2. UNCHANGED <<options, required, starts>> /\ phase = "starting"
  BY DEF RegisterCapability
<1>3. CASE Known(name) /\ todo' = Tail(todo)
             /\ UNCHANGED <<phase, lib, caps, handlers, stream, online>>
  BY <1>1, <1>2, <1>3 DEF StartInv, StartTypeOK, StandardFirst, Known
<1>4. CASE StartFails
  BY <1>2, <1>4, FailedStart
<1>5. CASE /\ ~Known(name) /\ todo' = Tail(todo)
           /\ caps' = caps \cup {name} /\ handlers' = HandlersWith(name)
           /\ UNCHANGED <<phase, lib, stream, online>>
  BY <1>1, <1>2, <1>5
     DEF StartInv, StartTypeOK, StandardFirst, Known, HandlersWith
<1> QED
  BY <1>3, <1>4, <1>5 DEF RegisterCapability

LEMMA StartStep ==
  ASSUME StartInv,
         Starting \/ SessionStarted \/ StreamLost \/ (\E name \in Requirable : Require(name))
  PROVE  StartInv'
<1>1. CASE ChooseLibrary
  <2>1. End \/ (\E l \in Libraries : Serve(l))
    BY <1>1, ImportFailsServesOrEnds DEF ChooseLibrary, Libraries
  <2> QED
    BY <1>1, <2>1, ServeOrEnd DEF ChooseLibrary
<1>2. CASE Connect
  BY <1>2, NewSession, ServeOrEnd DEF Connect
<1>3. CASE ConnectInBackground
  BY <1>3 DEF ConnectInBackground, StartInv, StartTypeOK, StandardFirst, Phases
<1>4. CASE RegisterCapability
  BY <1>4, Registration
<1>5. CASE GoOnline
  <2>1. CASE required \subseteq caps
    BY <1>5, <2>1 DEF GoOnline, Fulfilled, StartInv, StartTypeOK, StandardFirst, Phases
  <2>2. CASE ~(required \subseteq caps)
    BY <1>5, <2>2, FailedStart DEF GoOnline, Fulfilled
  <2> QED
    BY <2>1, <2>2
<1>6. CASE SessionStarted
  BY <1>6, NewSession DEF SessionStarted
<1>7. CASE StreamLost
  BY <1>7 DEF StreamLost, StartInv, StartTypeOK, StandardFirst
<1>8. CASE \E name \in Requirable : Require(name)
  BY <1>8 DEF Require, StartInv, StartTypeOK, StandardFirst
<1> QED
  BY <1>1, <1>2, <1>3, <1>4, <1>5, <1>6, <1>7, <1>8 DEF Starting

LEMMA StartInvStable ==
  ASSUME StartInv, UNCHANGED startVars
  PROVE  StartInv'
BY DEF StartInv, StartTypeOK, StandardFirst, startVars

-----------------------------------------------------------------------------
\* A client with one handler calls it once; a stanza that has been handled has arrived,
\* and is the current one only while the view still runs.
Once ==
  /\ now.calls <= 1 /\ (now.calls > 0 => now.stanza # Nobody)
  /\ \A s \in Stanzas :
       /\ handled[s] <= 1
       /\ handled[s] # 0 => s \in arrived /\ (now.stanza = s => now.view)

Inv == StartInv /\ TypeOK /\ Once

LEMMA InitInv == BotInit => Inv
<1> SUFFICES ASSUME BotInit PROVE Inv
  OBVIOUS
<1>1. <<>> \in Seq(Names) /\ 0 \in 0..MaxStarts /\ 0 \in 0..MaxEdits
  BY StartsAreNatural, BoundsAreNatural
<1>2. StartInv
  BY <1>1 DEF BotInit, StartInit, StartInv, StartTypeOK, StandardFirst, Phases, Libraries
<1>3. TypeOK
  BY <1>1, <1>2 DEF BotInit, StartInv, TypeOK, Idle
<1>4. Once
  BY DEF BotInit, Once, Idle
<1> QED
  BY <1>2, <1>3, <1>4 DEF Inv

\* After the call of a handler the stanza is dealt with.
LEMMA CalledIsIdle ==
  ASSUME Inv
  PROVE  Called = Idle /\ Idle \in [stanza : {Nobody}, calls : Nat, view : BOOLEAN]
BY DEF Inv, TypeOK, Once, Called, Idle

\* What the rest of Inv needs of a step that runs no view.
LEMMA NothingHandled ==
  ASSUME Inv, StartInv', UNCHANGED <<arrived, handled>>,
         appJid' \in {Nobody, Typed}, edits' \in 0..MaxEdits,
         now' = now \/ now' = Idle
  PROVE  Inv'
<1>1. now' \in [stanza : arrived \cup {Nobody}, calls : Nat, view : BOOLEAN]
  BY CalledIsIdle DEF Inv, TypeOK
<1>2. TypeOK'
  BY <1>1 DEF Inv, TypeOK, StartInv
<1>3. Once'
  <2>1. CASE now' = now
    BY <2>1 DEF Inv, Once
  <2>2. CASE now' = Idle
    BY <2>2, NobodyIsNothing DEF Inv, TypeOK, Once, Idle
  <2> QED
    BY <2>1, <2>2
<1> QED
  BY <1>2, <1>3 DEF Inv

LEMMA ViewStep ==
  ASSUME Inv, View
  PROVE  Inv'
<1>1. StartInv /\ edits \in 0..MaxEdits /\ appJid \in {Nobody, Typed} /\ MaxEdits \in Nat
  BY BoundsAreNatural DEF Inv, TypeOK
<1>2. CASE EditJid
  <2>1. edits < MaxEdits /\ edits' = edits + 1
    BY <1>2 DEF EditJid, Edit
  <2>2. UNCHANGED <<startVars, appJid, arrived, now, handled>>
    BY <1>2 DEF EditJid, Edit
  <2> QED
    BY <1>1, <2>1, <2>2, StartInvStable, NothingHandled
<1>3. CASE ReadJid \/ CmdMessage \/ CmdPresence \/ CmdJoinRoom
  <2>1. UNCHANGED <<startVars, appJid, arrived, now, handled, edits>>
    BY <1>3 DEF ReadJid, CmdMessage, CmdPresence, CmdJoinRoom, Send
  <2> QED
    BY <1>1, <2>1, StartInvStable, NothingHandled
<1>4. CASE ViewEnds
  <2>1. UNCHANGED <<startVars, appJid, arrived, handled>> /\ edits' = 0 /\ now' = Idle
    BY <1>4, CalledIsIdle DEF ViewEnds, NoView
  <2> QED
    BY <1>1, <2>1, StartInvStable, NothingHandled
<1>5. CASE ViewRequires
  <2>1. StartInv'
    BY <1>1, <1>5, StartStep DEF ViewRequires
  <2>2. UNCHANGED <<appJid, arrived, now, handled, edits>>
    BY <1>5 DEF ViewRequires, viewVars
  <2> QED
    BY <1>1, <2>1, <2>2, NothingHandled
<1>6. CASE ViewRaises
  <2>1. UNCHANGED <<arrived, handled>> /\ edits' = 0 /\ now' = Idle
    BY <1>6, CalledIsIdle DEF ViewRaises, NoView
  <2>2. appJid' \in {Nobody, Typed}
    BY <1>1, <1>6 DEF ViewRaises, AppJid
  <2>3. StartInv'
    BY <1>1, <1>6, ImportFailsServesOrEnds, ServeOrEnd, StartInvStable DEF ViewRaises
  <2> QED
    BY <1>1, <2>1, <2>2, <2>3, NothingHandled
<1> QED
  BY <1>2, <1>3, <1>4, <1>5, <1>6 DEF View

LEMMA InvInductive == Inv /\ [Next]_botVars => Inv'
<1> SUFFICES ASSUME Inv, [Next]_botVars PROVE Inv'
  OBVIOUS
<1>1. StartInv /\ edits \in 0..MaxEdits /\ appJid \in {Nobody, Typed}
  BY DEF Inv, TypeOK
<1>2. CASE Start
  <2>1. StartInv'
    BY <1>1, <1>2, StartStep DEF Start
  <2>2. UNCHANGED <<arrived, now, handled, edits>> /\ appJid' \in {Nobody, Typed}
    BY <1>1, <1>2 DEF Start, AppJid, viewVars
  <2> QED
    BY <1>1, <2>1, <2>2, NothingHandled
<1>3. CASE StartAgain \/ Lose
  <2>1. StartInv'
    BY <1>1, <1>3, StartStep DEF StartAgain, Lose
  <2>2. UNCHANGED <<appJid, arrived, now, handled, edits>>
    BY <1>3 DEF StartAgain, Lose, viewVars
  <2> QED
    BY <1>1, <2>1, <2>2, NothingHandled
<1>4. ASSUME NEW s \in Stanzas, Arrive(s) PROVE Inv'
  <2>1. StartInv'
    BY <1>1, <1>4, StartInvStable DEF Arrive
  <2>2. /\ s \notin arrived /\ arrived' = arrived \cup {s}
        /\ now' = [stanza |-> s, calls |-> handlers, view |-> FALSE]
        /\ UNCHANGED <<appJid, handled, edits>>
    BY <1>4 DEF Arrive, viewVars
  <2>3. handlers \in Nat /\ handlers <= 1
    BY <1>1 DEF StartInv, StartTypeOK
  <2>4. TypeOK'
    BY <2>1, <2>2, <2>3 DEF Inv, TypeOK, StartInv
  <2>5. Once'
    BY <2>2, <2>3, NobodyIsNothing DEF Inv, TypeOK, Once
  <2> QED
    BY <2>1, <2>4, <2>5 DEF Inv
<1>5. CASE Skip
  <2>1. UNCHANGED <<startVars, appJid, arrived, handled, edits>> /\ now' = Idle
    BY <1>5, CalledIsIdle DEF Skip, viewVars
  <2> QED
    BY <1>1, <2>1, StartInvStable, NothingHandled
<1>6. CASE RunView
  <2> DEFINE s == now.stanza
  <2>1. /\ now.calls > 0 /\ ~now.view /\ now' = [now EXCEPT !.view = TRUE]
        /\ handled' = [handled EXCEPT ![s] = @ + 1] /\ edits' = 0
        /\ UNCHANGED <<startVars, appJid, arrived>>
    BY <1>6 DEF RunView
  <2>2. s \in Stanzas /\ s \in arrived /\ handled[s] = 0
    BY <2>1 DEF Inv, TypeOK, Once
  <2>3. StartInv'
    BY <1>1, <2>1, StartInvStable
  <2>4. /\ now' \in [stanza : arrived \cup {Nobody}, calls : Nat, view : BOOLEAN]
        /\ now'.stanza = s /\ now'.calls = now.calls /\ now'.view
    BY <2>1 DEF Inv, TypeOK
  <2>5. TypeOK'
    <3>1. handled' \in [Stanzas -> Nat]
      BY <2>1, <2>2 DEF Inv, TypeOK
    <3>2. edits' \in 0..MaxEdits
      BY <2>1, BoundsAreNatural
    <3> QED
      BY <2>1, <2>3, <2>4, <3>1, <3>2 DEF Inv, TypeOK, StartInv
  <2>6. Once'
    BY <2>1, <2>2, <2>4 DEF Inv, TypeOK, Once
  <2> QED
    BY <2>3, <2>5, <2>6 DEF Inv
<1>7. CASE View
  BY <1>7, ViewStep
<1>8. CASE UNCHANGED botVars
  BY <1>1, <1>8, StartInvStable, NothingHandled DEF botVars, viewVars
<1> QED
  BY <1>2, <1>3, <1>4, <1>5, <1>6, <1>7, <1>8 DEF Next

-----------------------------------------------------------------------------
\* Inv holds in every state: this is the inductive invariant of the theorems below.
LEMMA Invariance == Spec => []Inv
<1>1. BotInit => Inv
  BY InitInv
<1>2. Inv /\ [Next]_botVars => Inv'
  BY InvInductive
<1> QED
  BY <1>1, <1>2, PTL DEF Spec

\* Startup and client keep their types; in particular the handlers are registered
\* exactly once for 'std', in run_server, session_start, and every session_start that
\* SleekXMPP fires again.
THEOREM TypeCorrect == Spec => []TypeOK
<1>1. Inv => TypeOK
  BY DEF Inv
<1> QED
  BY <1>1, Invariance, PTL

\* handle() runs a view at most once for each stanza, for any number of reconnects, of
\* session_starts that fail, and after a change of the library.
THEOREM HandledAtMostOnce == Spec => []HandledOnce
<1>1. Inv => HandledOnce
  BY DEF Inv, Once, HandledOnce
<1> QED
  BY <1>1, Invariance, PTL

\* Only the end of session_start brings the bot online, and it has checked the required
\* capabilities.
LEMMA OnlineStep ==
  Inv /\ [Next]_botVars
    => [~online /\ online' => required \subseteq caps /\ handlers = 1]_startVars
<1> SUFFICES ASSUME Inv, Next, ~online, online'
             PROVE  required \subseteq caps /\ handlers = 1
  BY DEF botVars
<1>1. StartTypeOK /\ StandardFirst
  BY DEF Inv, StartInv
<1>2. ~StartFails /\ ~End /\ ~StartSession /\ \A l : ~Serve(l)
  BY DEF StartFails, End, StartSession, Serve
<1>3. ~ImportFails
  BY <1>2 DEF ImportFails
<1>4. CASE Start
  <2>1. GoOnline
    BY <1>2, <1>3, <1>4
       DEF Start, Starting, ChooseLibrary, Connect, ConnectInBackground, RegisterCapability
  <2>2. required \subseteq caps /\ phase = "starting" /\ todo = <<>>
    BY <1>2, <2>1 DEF GoOnline, Fulfilled
  <2> QED
    BY <1>1, <2>2 DEF StartTypeOK, StandardFirst
<1>5. ~StartAgain /\ ~Lose
  BY <1>2 DEF StartAgain, SessionStarted, Lose, StreamLost
<1>6. (\A s \in Stanzas : ~Arrive(s)) /\ ~Skip /\ ~RunView
  BY DEF Arrive, Skip, RunView, startVars
<1>7. ~View
  BY <1>2, <1>3
     DEF View, EditJid, Edit, ReadJid, CmdMessage, CmdPresence, CmdJoinRoom, Send,
         ViewEnds, ViewRequires, Require, ViewRaises, startVars
<1> QED
  BY <1>4, <1>5, <1>6, <1>7 DEF Next

\* Whatever the server has, whatever the application requires and however often
\* session_start has failed before, the bot announces itself only when all required
\* capabilities are there.
THEOREM ReadyWhenOnline == Spec => OnlineMeansReady
<1>1. Inv /\ [Next]_botVars
        => [~online /\ online' => required \subseteq caps /\ handlers = 1]_startVars
  BY OnlineStep
<1> QED
  BY <1>1, Invariance, PTL DEF Spec, OnlineMeansReady

-----------------------------------------------------------------------------
(* A session_start goes through.  ComesOnline itself is left to the runs;  *)
(* what makes it true is proved: a stream without the bot online is one    *)
(* session_start is at work on, whose steps shorten its list and end       *)
(* online.                                                                 *)

\* All plugins are there and the server has a class for all that is required.
NothingLacks == options.missing = {} /\ required \subseteq Names

SilentIsStarting == stream /\ NothingLacks => online \/ phase = "starting"

SessionGetsOnline ==
  [][stream /\ ~online /\ NothingLacks =>
       IF Starting THEN online' \/ (phase' = "starting" /\ Len(todo') < Len(todo))
       ELSE ~stream' \/ UNCHANGED <<phase, todo>>]_startVars

\* A class is registered or still to come; there is a stream only from session_start on.
ToComeOrThere ==
  /\ phase = "starting" => Names \subseteq caps \cup {todo[i] : i \in DOMAIN todo}
  /\ stream => phase \in {"starting", "serving"}

OnTheWay == ToComeOrThere /\ SilentIsStarting

\* Steps that leave no stream.
LEMMA NoStreamNoWay ==
  ASSUME ~stream', phase' # "starting"
  PROVE  OnTheWay'
BY DEF OnTheWay, ToComeOrThere, SilentIsStarting

LEMMA ServedOrEnded ==
  ASSUME End \/ (\E l \in Libraries : Serve(l))
  PROVE  ~stream' /\ phase' # "starting"
BY DEF End, Serve

\* What raises in session_start does so because something lacks.
LEMMA FailedForLack ==
  ASSUME StartFails, ~NothingLacks, UNCHANGED <<options, required>>, phase = "starting",
         ToComeOrThere
  PROVE  OnTheWay'
<1>1. CASE End
  BY <1>1, ServedOrEnded, NoStreamNoWay
<1>2. CASE phase' = "serving"
  BY <1>2 DEF OnTheWay, ToComeOrThere, SilentIsStarting, NothingLacks
<1> QED
  BY <1>1, <1>2 DEF StartFails

LEMMA AllToCome ==
  ASSUME StartSession
  PROVE  OnTheWay'
<1> DEFINE list == <<"std">> \o Classes
<1>1. Classes \in Seq(Names) /\ <<"std">> \in Seq(Names) /\ Len(<<"std">>) = 1
  <2>1. Classes \in Seq(Names)
    BY StandardIsThere DEF Names
  <2>2. <<"std">> \in Seq(Names) /\ Len(<<"std">>) = 1
    BY StandardIsThere
  <2> QED
    BY <2>1, <2>2
<1>2. /\ Len(list) = 1 + Len(Classes) /\ list \in Seq(Names)
      /\ \A i \in 1 .. Len(list) : list[i] = IF i <= 1 THEN <<"std">>[i] ELSE Classes[i - 1]
  BY <1>1, ConcatProperties
<1> HIDE DEF list
<1>3. ASSUME NEW i \in DOMAIN Classes PROVE \E k \in DOMAIN list : list[k] = Classes[i]
  <2>1. Len(Classes) \in Nat /\ i \in 1 .. Len(Classes)
    BY <1>1
  <2>2. i + 1 \in 1 .. Len(list) /\ ~(i + 1 <= 1) /\ i + 1 - 1 = i
    BY <1>2, <2>1
  <2>3. i + 1 \in DOMAIN list
    BY <1>2, <2>2
  <2> QED
    BY <1>2, <2>2, <2>3
<1>4. Names \subseteq {list[k] : k \in DOMAIN list}
  BY <1>3 DEF Names
<1>5. todo' = list /\ phase' = "starting"
  BY DEF StartSession, list
<1> QED
  BY <1>4, <1>5 DEF OnTheWay, ToComeOrThere, SilentIsStarting

\* One capability of the list: it is there afterwards, or something lacks.
LEMMA OneRegistered ==
  ASSUME StartInv, RegisterCapability
  PROVE  \/ /\ phase' = "starting" /\ Len(todo') < Len(todo)
            /\ UNCHANGED <<options, required, stream, online>>
            /\ caps \cup {todo[i] : i \in DOMAIN todo}
                 \subseteq caps' \cup {todo'[i] : i \in DOMAIN todo'}
         \/ StartFails /\ ~NothingLacks
<1> DEFINE name == Head(todo)
<1>1. todo \in Seq(Names) /\ todo # <<>> /\ phase = "starting"
  BY DEF StartInv, StartTypeOK, RegisterCapability
<1>2. CASE StartFails /\ ~PluginThere(name)
  BY <1>2 DEF PluginThere, NothingLacks
<1>3. CASE /\ todo' = Tail(todo) /\ name \in caps' /\ caps \subseteq caps'
           /\ UNCHANGED <<phase, options, required, stream, online>>
  <2>1. /\ Len(Tail(todo)) = Len(todo) - 1 /\ Len(todo) \in Nat /\ Tail(todo) \in Seq(Names)
        /\ \A i \in 1 .. Len(todo) - 1 : Tail(todo)[i] = todo[i + 1]
        /\ name = todo[1]
    BY <1>1, HeadTailProperties
  <2>2. ASSUME NEW i \in DOMAIN todo
        PROVE  todo[i] \in caps' \cup {todo'[k] : k \in DOMAIN todo'}
    <3>1. i \in 1 .. Len(todo)
      BY <1>1
    <3>2. CASE i = 1
      BY <1>3, <2>1, <3>2
    <3>3. CASE i # 1
      <4>1. i - 1 \in 1 .. Len(todo) - 1 /\ (i - 1) + 1 = i
        BY <2>1, <3>1, <3>3
      <4>2. i - 1 \in DOMAIN Tail(todo) /\ Tail(todo)[i - 1] = todo[i]
        BY <2>1, <4>1
      <4> QED
        BY <1>3, <4>2
    <3> QED
      BY <3>2, <3>3
  <2> QED
    BY <1>1, <1>3, <2>1, <2>2
<1> QED
  BY <1>2, <1>3 DEF RegisterCapability, Known

\* The end of the list: all classes are there.
LEMMA OnlineOrLacking ==
  ASSUME ToComeOrThere, GoOnline
  PROVE  \/ online' /\ phase' = "serving"
         \/ StartFails /\ ~NothingLacks
<1>1. Names \subseteq caps
  BY DEF ToComeOrThere, GoOnline
<1> QED
  BY <1>1 DEF GoOnline, Fulfilled, NothingLacks

LEMMA StartOnTheWay ==
  ASSUME StartInv, OnTheWay,
         Starting \/ SessionStarted \/ StreamLost \/ (\E name \in Requirable : Require(name))
  PROVE  OnTheWay'
<1>1. CASE ChooseLibrary
  <2>1. End \/ (\E l \in Libraries : Serve(l))
    BY <1>1, ImportFailsServesOrEnds DEF ChooseLibrary, Libraries
  <2> QED
    BY <2>1, ServedOrEnded, NoStreamNoWay
<1>2. CASE Connect
  BY <1>2, AllToCome, ServedOrEnded, NoStreamNoWay DEF Connect
<1>3. CASE ConnectInBackground
  BY <1>3, NoStreamNoWay DEF ConnectInBackground, OnTheWay, ToComeOrThere
<1>4. CASE RegisterCapability
  <2>1. phase = "starting" /\ UNCHANGED <<options, required>>
    BY <1>4 DEF RegisterCapability
  <2>2. CASE StartFails /\ ~NothingLacks
    BY <2>1, <2>2, FailedForLack DEF OnTheWay
  <2>3. CASE ~(StartFails /\ ~NothingLacks)
    BY <1>4, <2>1, <2>3, OneRegistered DEF OnTheWay, ToComeOrThere, SilentIsStarting
  <2> QED
    BY <2>2, <2>3
<1>5. CASE GoOnline
  <2>1. phase = "starting" /\ UNCHANGED <<options, required>>
    BY <1>5 DEF GoOnline
  <2>2. CASE StartFails /\ ~NothingLacks
    BY <2>1, <2>2, FailedForLack DEF OnTheWay
  <2>3. CASE ~(StartFails /\ ~NothingLacks)
    BY <1>5, <2>3, OnlineOrLacking DEF OnTheWay, ToComeOrThere, SilentIsStarting
  <2> QED
    BY <2>2, <2>3
<1>6. CASE SessionStarted
  BY <1>6, AllToCome DEF SessionStarted
<1>7. CASE StreamLost
  BY <1>7, NoStreamNoWay DEF StreamLost
<1>8. CASE \E name \in Requirable : Require(name)
  <2>1. phase = "serving" /\ required \subseteq required'
        /\ UNCHANGED <<options, phase, stream, online>>
    BY <1>8 DEF Require
  <2> QED
    BY <2>1 DEF OnTheWay, ToComeOrThere, SilentIsStarting, NothingLacks
<1> QED
  BY <1>1, <1>2, <1>3, <1>4, <1>5, <1>6, <1>7, <1>8 DEF Starting

\* The steps of the bot are steps of run_server and session_start, lose the stream, end
\* the server with an exception, or leave all this alone.
LEMMA StartupSteps ==
  ASSUME [Next]_botVars
  PROVE  \/ Starting \/ SessionStarted \/ StreamLost
         \/ \E name \in Requirable : Require(name)
         \/ End \/ \E l \in Libraries : Serve(l)
         \/ UNCHANGED startVars
<1>1. CASE Start \/ StartAgain \/ Lose
  BY <1>1 DEF Start, StartAgain, Lose
<1>2. CASE (\E s \in Stanzas : Arrive(s)) \/ Skip \/ RunView
  BY <1>2 DEF Arrive, Skip, RunView
<1>3. CASE EditJid \/ ReadJid \/ CmdMessage \/ CmdPresence \/ CmdJoinRoom \/ ViewEnds
  BY <1>3 DEF EditJid, Edit, ReadJid, CmdMessage, CmdPresence, CmdJoinRoom, Send, ViewEnds
<1>4. CASE ViewRequires
  BY <1>4 DEF ViewRequires
<1>5. CASE ViewRaises
  BY <1>5, ImportFailsServesOrEnds DEF ViewRaises
<1>6. CASE UNCHANGED botVars
  BY <1>6 DEF botVars
<1> QED
  BY <1>1, <1>2, <1>3, <1>4, <1>5, <1>6 DEF Next, View

LEMMA NextOnTheWay ==
  StartInv /\ OnTheWay /\ [Next]_botVars => OnTheWay'
<1> SUFFICES ASSUME StartInv, OnTheWay, [Next]_botVars PROVE OnTheWay'
  OBVIOUS
<1>1. CASE End \/ \E l \in Libraries : Serve(l)
  BY <1>1, ServedOrEnded, NoStreamNoWay
<1>2. CASE UNCHANGED startVars
  BY <1>2 DEF startVars, OnTheWay, ToComeOrThere, SilentIsStarting, NothingLacks
<1>3. CASE Starting \/ SessionStarted \/ StreamLost \/ \E name \in Requirable : Require(name)
  BY <1>3, StartOnTheWay
<1> QED
  BY <1>1, <1>2, <1>3, StartupSteps

\* For any capabilities, libraries and number of streams: a stream on which nothing
\* lacks and the bot is not online has a session_start at work, each step of which takes
\* a class off its list or is the presence; all else leaves the list alone or ends the
\* stream.  No exception, name that is known or later stream is in the way.
THEOREM NothingKeepsOffline == Spec => []SilentIsStarting /\ SessionGetsOnline
<1>1. BotInit => OnTheWay
  BY DEF BotInit, StartInit, OnTheWay, ToComeOrThere, SilentIsStarting
<1>2. Inv /\ OnTheWay /\ [Next]_botVars => OnTheWay'
  BY NextOnTheWay DEF Inv
<1>3. OnTheWay => SilentIsStarting
  BY DEF OnTheWay
<1>4. Inv /\ OnTheWay /\ [Next]_botVars
        => [stream /\ ~online /\ NothingLacks =>
              IF Starting THEN online' \/ (phase' = "starting" /\ Len(todo') < Len(todo))
              ELSE ~stream' \/ UNCHANGED <<phase, todo>>]_startVars
  <2> SUFFICES ASSUME StartInv, OnTheWay, [Next]_botVars, ~(UNCHANGED startVars),
                      stream, ~online, NothingLacks
               PROVE  IF Starting
                      THEN online' \/ (phase' = "starting" /\ Len(todo') < Len(todo))
                      ELSE ~stream' \/ UNCHANGED <<phase, todo>>
    BY DEF Inv
  <2>1. phase = "starting"
    BY DEF OnTheWay, SilentIsStarting
  <2>2. CASE Starting
    <3>1. RegisterCapability \/ GoOnline
      BY <2>1, <2>2 DEF Starting, ChooseLibrary, Connect, ConnectInBackground
    <3> QED
      BY <2>2, <3>1, OneRegistered, OnlineOrLacking DEF OnTheWay
  <2>3. CASE ~Starting
    <3>1. CASE End \/ \E l \in Libraries : Serve(l)
      BY <2>3, <3>1, ServedOrEnded
    <3>2. CASE SessionStarted \/ StreamLost \/ \E name \in Requirable : Require(name)
      BY <2>1, <3>2 DEF SessionStarted, StreamLost, Require
    <3> QED
      BY <2>3, <3>1, <3>2, StartupSteps
  <2> QED
    BY <2>2, <2>3
<1> QED
  BY <1>1, <1>2, <1>3, <1>4, Invariance, PTL DEF Spec, SessionGetsOnline

-----------------------------------------------------------------------------
(* Texts and their marks.                                                  *)

\* Where the words of two texts are in the two joined.
LEMMA Joined ==
  ASSUME NEW S, NEW a \in Seq(S), NEW b \in Seq(S)
  PROVE  /\ a \o b \in Seq(S) /\ Len(a \o b) = Len(a) + Len(b)
         /\ \A i \in 1 .. Len(a) : i \in 1 .. Len(a \o b) /\ (a \o b)[i] = a[i]
         /\ \A i \in 1 .. Len(b) :
              Len(a) + i \in 1 .. Len(a \o b) /\ (a \o b)[Len(a) + i] = b[i]
<1>1. PICK t : t = a \o b
  OBVIOUS
<1>2. PICK n \in Nat : n = Len(a)
  OBVIOUS
<1>3. PICK k \in Nat : k = Len(b)
  OBVIOUS
<1>4. /\ t \in Seq(S) /\ Len(t) = n + k
      /\ \A i \in 1 .. n + k : t[i] = IF i <= n THEN a[i] ELSE b[i - n]
  BY ONLY <1>1, <1>2, <1>3, ConcatProperties, a \in Seq(S), b \in Seq(S)
<1>5. ASSUME NEW i \in 1 .. n PROVE i \in 1 .. n + k /\ t[i] = a[i]
  BY <1>2, <1>3, <1>4
<1>6. ASSUME NEW i \in 1 .. k PROVE n + i \in 1 .. n + k /\ t[n + i] = b[i]
  <2>1. n + i \in 1 .. n + k /\ ~(n + i <= n) /\ (n + i) - n = i
    BY <1>2, <1>3
  <2> QED
    BY <1>4, <2>1
<1> QED
  BY <1>1, <1>2, <1>3, <1>4, <1>5, <1>6

\* The words of a piece of a text.
LEMMA Piece ==
  ASSUME NEW S, NEW text \in Seq(S), NEW m \in Nat, NEW n \in Nat, m + n <= Len(text)
  PROVE  LET a == SubSeq(text, m + 1, m + n)
         IN  a \in Seq(S) /\ Len(a) = n /\ \A i \in 1 .. n : a[i] = text[m + i]
<1>1. PICK a : a = SubSeq(text, m + 1, m + n)
  OBVIOUS
<1>2. PICK p \in Int : p = m + 1
  OBVIOUS
<1>3. PICK q \in Int : q = m + n
  OBVIOUS
<1>4. \A i \in p .. q : text[i] \in S
  <2>1. \A i \in p .. q : i \in 1 .. Len(text)
    BY <1>2, <1>3
  <2> QED
    BY <2>1
<1>5. /\ a \in Seq(S) /\ Len(a) = IF p <= q THEN q - p + 1 ELSE 0
      /\ \A i \in 1 .. q - p + 1 : a[i] = text[p + i - 1]
  BY ONLY <1>1, <1>2, <1>3, <1>4, SubSeqProperties, p \in Int, q \in Int
<1>6. Len(a) = n /\ q - p + 1 = n
  BY <1>2, <1>3, <1>5
<1>7. ASSUME NEW i \in 1 .. n PROVE a[i] = text[m + i]
  <2>1. p + i - 1 = m + i
    BY <1>2
  <2> QED
    BY <1>5, <1>6, <2>1
<1> QED
  BY <1>1, <1>5, <1>6, <1>7

\* The place of a mark is the first one that has it.
LEMMA PlaceIsFirst ==
  ASSUME NEW S, NEW text \in Seq(S), NEW mark, Has(text, mark)
  PROVE  /\ Place(text, mark) \in 1 .. Len(text) /\ text[Place(text, mark)] = mark
         /\ \A i \in 1 .. Len(text) : text[i] = mark => Place(text, mark) <= i
<1>1. PICK I : I = {i \in DOMAIN text : text[i] = mark}
  OBVIOUS
<1>2. I \subseteq Nat /\ I # {} /\ I \subseteq 1 .. Len(text)
  BY <1>1 DEF Has
<1>3. \E x \in I : \A y \in I : x <= y
  <2>1. PICK x \in I : \A y \in I : <<y, x>> \notin OpToRel(<, Nat)
    BY <1>2, NatLessThanWellFounded, WFMin
  <2>2. \A y \in I : ~(y < x)
    BY <1>2, <2>1 DEF OpToRel
  <2>3. \A y \in I : x <= y
    BY <1>2, <2>2
  <2> QED
    BY <2>3
<1>4. Place(text, mark) \in I /\ \A y \in I : Place(text, mark) <= y
  <2>1. PICK n : n = Min(I)
    OBVIOUS
  <2>2. n \in I /\ \A y \in I : n <= y
    BY <1>3, <2>1 DEF Min
  <2> QED
    BY <1>1, <2>1, <2>2 DEF Place
<1> QED
  BY <1>1, <1>2, <1>4

\* A text with the mark is what is before it, the mark, and what is after it.
LEMMA SplitHas ==
  ASSUME NEW S, NEW text \in Seq(S), NEW mark \in S, Has(text, mark)
  PROVE  /\ Before(text, mark) \in Seq(S) /\ After(text, mark) \in Seq(S)
         /\ text = Before(text, mark) \o (<<mark>> \o After(text, mark))
         /\ ~Has(Before(text, mark), mark)
<1>1. PICK l \in Nat : l = Len(text)
  OBVIOUS
<1>2. PICK n : n = Place(text, mark)
  OBVIOUS
<1>3. /\ n \in 1 .. l /\ text[n] = mark
      /\ \A i \in 1 .. l : text[i] = mark => n <= i
  BY <1>1, <1>2, PlaceIsFirst
<1>4. PICK m \in Nat : n = m + 1
  <2>1. n - 1 \in Nat /\ n = (n - 1) + 1
    BY <1>3
  <2> QED
    BY <2>1
<1>5. PICK k \in Nat : l = n + k
  <2>1. l - n \in Nat /\ l = n + (l - n)
    BY <1>3
  <2> QED
    BY <2>1
<1>6. PICK a : a = SubSeq(text, 0 + 1, 0 + m)
  OBVIOUS
<1>7. PICK b : b = SubSeq(text, n + 1, n + k)
  OBVIOUS
<1>8. a \in Seq(S) /\ Len(a) = m /\ \A i \in 1 .. m : a[i] = text[i]
  <2>1. 0 + m <= Len(text) /\ 0 \in Nat
    BY <1>1, <1>4, <1>5
  <2>2. a \in Seq(S) /\ Len(a) = m /\ \A i \in 1 .. m : a[i] = text[0 + i]
    BY ONLY <1>6, <2>1, Piece, text \in Seq(S), m \in Nat
  <2> QED
    BY <2>2
<1>9. b \in Seq(S) /\ Len(b) = k /\ \A i \in 1 .. k : b[i] = text[n + i]
  <2>1. n \in Nat /\ n + k <= Len(text)
    BY <1>1, <1>3, <1>5
  <2> QED
    BY ONLY <1>7, <2>1, Piece, text \in Seq(S), k \in Nat
<1>10. Before(text, mark) = a /\ After(text, mark) = b
  <2>1. n - 1 = 0 + m /\ 1 = 0 + 1
    BY <1>4
  <2> QED
    BY <1>1, <1>2, <1>5, <1>6, <1>7, <2>1 DEF Before, After
<1>11. text = a \o (<<mark>> \o b)
  <2>1. PICK c : c = <<mark>> \o b
    OBVIOUS
  <2>2. <<mark>> \in Seq(S) /\ Len(<<mark>>) = 1 /\ <<mark>>[1] = mark
    OBVIOUS
  <2>3. /\ c \in Seq(S) /\ Len(c) = 1 + k /\ c[1] = mark
        /\ \A i \in 1 .. k : c[1 + i] = b[i]
    BY <1>9, <2>1, <2>2, Joined
  <2>4. PICK t : t = a \o c
    OBVIOUS
  <2>5. /\ t \in Seq(S) /\ Len(t) = m + (1 + k)
        /\ \A i \in 1 .. m : t[i] = a[i]
        /\ \A i \in 1 .. 1 + k : t[m + i] = c[i]
    <3>1. a \in Seq(S) /\ c \in Seq(S) /\ Len(a) = m /\ Len(c) = 1 + k
      BY <1>8, <2>3
    <3>2. /\ a \o c \in Seq(S) /\ Len(a \o c) = Len(a) + Len(c)
          /\ \A i \in 1 .. Len(a) : i \in 1 .. Len(a \o c) /\ (a \o c)[i] = a[i]
          /\ \A i \in 1 .. Len(c) :
               Len(a) + i \in 1 .. Len(a \o c) /\ (a \o c)[Len(a) + i] = c[i]
      <4> SUFFICES \A x, y \in Seq(S) :
            /\ x \o y \in Seq(S) /\ Len(x \o y) = Len(x) + Len(y)
            /\ \A i \in 1 .. Len(x) : i \in 1 .. Len(x \o y) /\ (x \o y)[i] = x[i]
            /\ \A i \in 1 .. Len(y) :
                 Len(x) + i \in 1 .. Len(x \o y) /\ (x \o y)[Len(x) + i] = y[i]
        BY ONLY <3>1
      <4> QED
        BY ONLY Joined
    <3> QED
      BY ONLY <2>4, <3>1, <3>2
  <2>6. Len(t) = l
    BY <1>4, <1>5, <2>5
  <2>7. ASSUME NEW i \in 1 .. l PROVE t[i] = text[i]
    <3>1. CASE i \in 1 .. m
      BY <1>8, <2>5, <3>1
    <3>2. CASE i = n
      <4>1. i = m + 1 /\ 1 \in 1 .. 1 + k
        BY <1>4, <3>2
      <4> QED
        BY <1>3, <2>3, <2>5, <3>2, <4>1
    <3>3. CASE i > n
      <4>1. i - n \in 1 .. k /\ i = n + (i - n)
        BY <1>3, <1>5, <3>3
      <4>2. PICK j \in 1 .. k : i = n + j
        BY <4>1
      <4>3. i = m + (1 + j) /\ 1 + j \in 1 .. 1 + k
        BY <1>4, <4>2
      <4>4. t[i] = c[1 + j] /\ text[i] = b[j] /\ c[1 + j] = b[j]
        BY <1>9, <2>3, <2>5, <4>2, <4>3
      <4> QED
        BY <4>4
    <3> QED
      BY <1>3, <1>4, <3>1, <3>2, <3>3
  <2>8. t = text
    BY <1>1, <2>5, <2>6, <2>7, SeqEqual
  <2> QED
    BY <2>1, <2>4, <2>8
<1>12. ~Has(a, mark)
  <2> SUFFICES ASSUME NEW i \in DOMAIN a, a[i] = mark PROVE FALSE
    BY DEF Has
  <2>1. i \in 1 .. m /\ i \in 1 .. l /\ i < n
    BY <1>4, <1>5, <1>8
  <2> QED
    BY <1>3, <1>8, <2>1
<1> QED
  BY <1>8, <1>9, <1>10, <1>11, <1>12

\* Without the mark it stays whole.
LEMMA SplitNone ==
  ASSUME NEW text, NEW mark, ~Has(text, mark)
  PROVE  Before(text, mark) = text /\ After(text, mark) = text
BY DEF Before, After

\* The marks of two texts joined are those of the two.
LEMMA HasConcat ==
  ASSUME NEW S, NEW a \in Seq(S), NEW b \in Seq(S), NEW mark
  PROVE  Has(a \o b, mark) <=> Has(a, mark) \/ Has(b, mark)
<1>1. PICK t : t = a \o b
  OBVIOUS
<1>2. PICK n \in Nat : n = Len(a)
  OBVIOUS
<1>3. PICK k \in Nat : k = Len(b)
  OBVIOUS
<1>4. /\ t \in Seq(S) /\ Len(t) = n + k
      /\ \A i \in 1 .. n : i \in 1 .. Len(t) /\ t[i] = a[i]
      /\ \A i \in 1 .. k : n + i \in 1 .. Len(t) /\ t[n + i] = b[i]
  BY <1>1, <1>2, <1>3, Joined
<1>5. DOMAIN t = 1 .. n + k /\ DOMAIN a = 1 .. n /\ DOMAIN b = 1 .. k
  BY <1>2, <1>3, <1>4
<1>6. ASSUME NEW i \in 1 .. n + k
      PROVE  i \in 1 .. n \/ \E j \in 1 .. k : i = n + j
  <2>1. i \in 1 .. n \/ (i - n \in 1 .. k /\ i = n + (i - n))
    BY <1>2, <1>3
  <2> QED
    BY <2>1
<1>7. Has(t, mark) => Has(a, mark) \/ Has(b, mark)
  <2> SUFFICES ASSUME NEW i \in 1 .. n + k, t[i] = mark
               PROVE  Has(a, mark) \/ Has(b, mark)
    BY <1>5 DEF Has
  <2>1. CASE i \in 1 .. n
    BY <1>4, <1>5, <2>1 DEF Has
  <2>2. CASE \E j \in 1 .. k : i = n + j
    BY <1>4, <1>5, <2>2 DEF Has
  <2> QED
    BY <1>6, <2>1, <2>2
<1>8. Has(a, mark) => Has(t, mark)
  BY <1>4, <1>5 DEF Has
<1>9. Has(b, mark) => Has(t, mark)
  BY <1>4, <1>5 DEF Has
<1> QED
  BY <1>1, <1>7, <1>8, <1>9

LEMMA HasOne ==
  ASSUME NEW mark, NEW other
  PROVE  (Has(<<mark>>, other) <=> mark = other) /\ ~Has(<<>>, other)
BY DEF Has

\* There is one way to split a text at its first mark.
LEMMA OneSplit ==
  ASSUME NEW S, NEW mark \in S,
         NEW a \in Seq(S), NEW b \in Seq(S), NEW c \in Seq(S), NEW d \in Seq(S),
         ~Has(a, mark), ~Has(c, mark), a \o (<<mark>> \o b) = c \o (<<mark>> \o d)
  PROVE  a = c /\ b = d
<1>1. PICK t : t = a \o (<<mark>> \o b) /\ t = c \o (<<mark>> \o d)
  OBVIOUS
<1>2. \A x, y \in Seq(S) : t = x \o (<<mark>> \o y) =>
        /\ Len(x) + 1 \in 1 .. Len(t) /\ t[Len(x) + 1] = mark
        /\ \A i \in 1 .. Len(x) : t[i] = x[i]
  <2> SUFFICES ASSUME NEW x \in Seq(S), NEW y \in Seq(S), t = x \o (<<mark>> \o y)
               PROVE  /\ Len(x) + 1 \in 1 .. Len(t) /\ t[Len(x) + 1] = mark
                      /\ \A i \in 1 .. Len(x) : t[i] = x[i]
    OBVIOUS
  <2>1. <<mark>> \in Seq(S) /\ Len(<<mark>>) = 1 /\ <<mark>>[1] = mark
    OBVIOUS
  <2>2. PICK z : z = <<mark>> \o y
    OBVIOUS
  <2>3. z \in Seq(S) /\ Len(z) = 1 + Len(y) /\ 1 \in 1 .. Len(z) /\ z[1] = mark
    BY <2>1, <2>2, Joined
  <2> QED
    BY <2>2, <2>3, Joined
<1>3. PICK n \in Nat : n = Len(a)
  OBVIOUS
<1>4. PICK k \in Nat : k = Len(c)
  OBVIOUS
<1>5. /\ t[n + 1] = mark /\ \A i \in 1 .. n : t[i] = a[i] /\ a[i] # mark
      /\ t[k + 1] = mark /\ \A i \in 1 .. k : t[i] = c[i] /\ c[i] # mark
  <2>1. t[n + 1] = mark /\ \A i \in 1 .. n : t[i] = a[i]
    BY <1>1, <1>2, <1>3
  <2>2. t[k + 1] = mark /\ \A i \in 1 .. k : t[i] = c[i]
    BY <1>1, <1>2, <1>4
  <2>3. DOMAIN a = 1 .. n /\ DOMAIN c = 1 .. k
    BY <1>3, <1>4
  <2> QED
    BY <2>1, <2>2, <2>3 DEF Has
<1>6. n + 1 \notin 1 .. k /\ k + 1 \notin 1 .. n
  BY <1>5
<1>7. n = k
  BY <1>6
<1>8. a = c
  BY <1>3, <1>4, <1>5, <1>7, SeqEqual
<1>9. <<mark>> \o b = <<mark>> \o d
  <2>1. <<mark>> \o b \in Seq(S) /\ <<mark>> \o d \in Seq(S)
    BY Joined
  <2> QED
    BY <1>8, <2>1, ConcatSimplifications
<1>10. b = d
  <2>1. <<mark>> \in Seq(S)
    OBVIOUS
  <2>2. PICK m \in Seq(S) : m = <<mark>>
    BY <2>1
  <2> QED
    BY <1>9, <2>2, ConcatSimplifications
<1> QED
  BY <1>8, <1>10

\* A text that has no mark, the mark, and another text are told apart again.
LEMMA SplitAt ==
  ASSUME NEW S, NEW a \in Seq(S), NEW b \in Seq(S), NEW mark \in S, ~Has(a, mark)
  PROVE  LET text == a \o (<<mark>> \o b)
         IN  Has(text, mark) /\ Before(text, mark) = a /\ After(text, mark) = b
<1>1. PICK t : t = a \o (<<mark>> \o b)
  OBVIOUS
<1>2. <<mark>> \in Seq(S) /\ <<mark>> \o b \in Seq(S)
  BY Joined
<1>3. t \in Seq(S) /\ Has(t, mark)
  <2>1. t \in Seq(S)
    BY <1>1, <1>2, Joined
  <2>2. Has(<<mark>>, mark)
    BY HasOne
  <2>3. Has(<<mark>> \o b, mark)
    BY <1>2, <2>2, HasConcat
  <2>4. Has(t, mark)
    BY <1>1, <1>2, <2>3, HasConcat
  <2> QED
    BY <2>1, <2>4
<1>4. PICK c : c = Before(t, mark)
  OBVIOUS
<1>5. PICK d : d = After(t, mark)
  OBVIOUS
<1>6. c \in Seq(S) /\ d \in Seq(S) /\ t = c \o (<<mark>> \o d) /\ ~Has(c, mark)
  BY <1>3, <1>4, <1>5, SplitHas
<1>7. c = a /\ d = b
  BY <1>1, <1>6, OneSplit
<1> QED
  BY <1>1, <1>3, <1>4, <1>5, <1>7

-----------------------------------------------------------------------------
(* The parts of a JID and its text.                                        *)

PartsSet == [node : Texts, domain : Texts, resource : Texts]

Signs == {"@", "/"} \cup STRING

LEMMA Marks ==
  /\ Texts = Seq(Signs) /\ "@" \in Signs /\ "/" \in Signs /\ "@" # "/"
  /\ <<>> \in Texts /\ <<"@">> \in Texts /\ <<"/">> \in Texts
  /\ Len(<<>>) = 0 /\ Len(<<"@">>) = 1 /\ Len(<<"/">>) = 1
<1>1. Texts = Seq(Signs)
  BY DEF Texts, Signs
<1>2. "@" \in Signs /\ "/" \in Signs /\ "@" # "/"
  BY DEF Signs
<1>3. ASSUME NEW c \in Signs PROVE <<c>> \in Seq(Signs) /\ Len(<<c>>) = 1
  OBVIOUS
<1> QED
  BY <1>1, <1>2, <1>3

\* What joining texts makes of length and marks.
LEMMA JoinedTexts ==
  ASSUME NEW a \in Texts, NEW b \in Texts
  PROVE  /\ a \o b \in Texts /\ Len(a \o b) = Len(a) + Len(b)
         /\ <<>> \o a = a /\ a \o <<>> = a
         /\ Len(a) \in Nat /\ (Len(a) = 0 <=> a = <<>>)
         /\ \A mark : Has(a \o b, mark) <=> Has(a, mark) \/ Has(b, mark)
<1>1. a \in Seq(Signs) /\ b \in Seq(Signs)
  BY Marks
<1>2. a \o b \in Seq(Signs) /\ Len(a \o b) = Len(a) + Len(b)
  BY <1>1, Joined
<1>3. <<>> \o a = a /\ a \o <<>> = a
  BY <1>1, ConcatEmptySeq
<1>4. Len(a) \in Nat /\ (Len(a) = 0 <=> a = <<>>)
  BY <1>1, EmptySeq
<1>5. ASSUME NEW mark PROVE Has(a \o b, mark) <=> Has(a, mark) \/ Has(b, mark)
  BY <1>1, HasConcat
<1> QED
  BY <1>2, <1>3, <1>4, <1>5, Marks

LEMMA Associative == \A a, b, c \in Texts : (a \o b) \o c = a \o (b \o c)
BY Marks, ConcatAssociative

LEMMA Lengths ==
  \A a, b \in Texts : a \o b \in Texts /\ Len(a) \in Nat /\ Len(a \o b) = Len(a) + Len(b)
BY JoinedTexts

LEMMA SplitText ==
  ASSUME NEW text \in Texts, NEW mark \in {"@", "/"}
  PROVE  /\ Before(text, mark) \in Texts /\ After(text, mark) \in Texts
         /\ ~Has(Before(text, mark), mark)
         /\ Has(text, mark) => text = Before(text, mark) \o (<<mark>> \o After(text, mark))
         /\ ~Has(text, mark) => Before(text, mark) = text /\ After(text, mark) = text
<1>1. text \in Seq(Signs) /\ mark \in Signs
  BY Marks
<1>2. CASE Has(text, mark)
  BY <1>1, <1>2, SplitHas, Marks
<1>3. CASE ~Has(text, mark)
  BY <1>3, SplitNone
<1> QED
  BY <1>2, <1>3

\* The parts of any text make up the text again, with the marks it has.
LEMMA PartsOfText ==
  ASSUME NEW t \in Texts, NEW b, b = Before(t, "/"), NEW p, p = Parts(t)
  PROVE  /\ p \in PartsSet /\ b \in Texts /\ ~Has(b, "/") /\ ~Has(p.node, "@")
         /\ Has(b, "@") => b = p.node \o (<<"@">> \o p.domain)
         /\ ~Has(b, "@") => p.node = <<>> /\ b = p.domain
         /\ Has(t, "/") => t = b \o (<<"/">> \o p.resource)
         /\ ~Has(t, "/") => t = b /\ p.resource = <<>>
<1>1. /\ b \in Texts /\ ~Has(b, "/") /\ After(t, "/") \in Texts
      /\ Has(t, "/") => t = b \o (<<"/">> \o After(t, "/"))
      /\ ~Has(t, "/") => t = b
  BY SplitText
<1>2. /\ Before(b, "@") \in Texts /\ After(b, "@") \in Texts /\ ~Has(Before(b, "@"), "@")
      /\ Has(b, "@") => b = Before(b, "@") \o (<<"@">> \o After(b, "@"))
      /\ ~Has(b, "@") => b = After(b, "@")
  BY <1>1, SplitText
<1>3. /\ p = [node |-> p.node, domain |-> p.domain, resource |-> p.resource]
      /\ p.node = IF Has(b, "@") THEN Before(b, "@") ELSE <<>>
      /\ p.domain = After(b, "@")
      /\ p.resource = IF Has(t, "/") THEN After(t, "/") ELSE <<>>
  BY DEF Parts
<1>4. p.node \in Texts /\ p.domain \in Texts /\ p.resource \in Texts /\ ~Has(p.node, "@")
  BY <1>1, <1>2, <1>3, Marks, HasOne
<1>5. p \in PartsSet
  BY <1>3, <1>4 DEF PartsSet
<1> QED
  BY <1>1, <1>2, <1>3, <1>4, <1>5

\* The text made of the parts: its pieces, and how long it is.
LEMMA JoinText ==
  ASSUME NEW n \in Texts, NEW d \in Texts, NEW r \in Texts
  PROVE  /\ Join(n, d, r) \in Texts
         /\ Join(n, d, <<>>) = IF n # <<>> THEN n \o (<<"@">> \o d) ELSE d
         /\ Join(n, d, r) = IF r # <<>> THEN Join(n, d, <<>>) \o (<<"/">> \o r)
                            ELSE Join(n, d, <<>>)
         /\ Len(Join(n, d, r)) = Len(n) + Len(d) + Len(r)
              + (IF n # <<>> THEN 1 ELSE 0) + (IF r # <<>> THEN 1 ELSE 0)
<1>1. PICK b : b = Join(n, d, <<>>)
  OBVIOUS
<1>2. b = IF n # <<>> THEN n \o (<<"@">> \o d) ELSE d
  <2>1. CASE n # <<>>
    <3>1. b = ((n \o <<"@">>) \o d) \o <<>>
      BY <1>1, <2>1 DEF Join
    <3>2. n \o <<"@">> \in Texts /\ (n \o <<"@">>) \o d \in Texts
      BY Marks, JoinedTexts
    <3>3. b = (n \o <<"@">>) \o d
      BY <3>1, <3>2, JoinedTexts
    <3>4. (n \o <<"@">>) \o d = n \o (<<"@">> \o d)
      BY Marks, ConcatAssociative
    <3> QED
      BY <2>1, <3>3, <3>4
  <2>2. CASE n = <<>>
    <3>1. b = (<<>> \o d) \o <<>>
      BY <1>1, <2>2 DEF Join
    <3> QED
      BY <2>2, <3>1, JoinedTexts
  <2> QED
    BY <2>1, <2>2
<1>3. /\ b \in Texts
      /\ Len(b) = Len(n) + Len(d) + (IF n # <<>> THEN 1 ELSE 0)
  <2>1. CASE n # <<>>
    <3>1. <<"@">> \o d \in Texts /\ Len(<<"@">> \o d) = 1 + Len(d)
      BY Marks, JoinedTexts
    <3>2. b \in Texts /\ Len(b) = Len(n) + (1 + Len(d))
      BY <1>2, <2>1, <3>1, JoinedTexts
    <3> QED
      BY <2>1, <3>2, JoinedTexts
  <2>2. CASE n = <<>>
    BY <1>2, <2>2, JoinedTexts
  <2> QED
    BY <2>1, <2>2
<1>4. PICK t : t = Join(n, d, r)
  OBVIOUS
<1>5. t = IF r # <<>> THEN b \o (<<"/">> \o r) ELSE b
  <2>1. PICK a : a = (IF n # <<>> THEN n \o <<"@">> ELSE <<>>) \o d
    OBVIOUS
  <2>2. a \in Texts
    BY <2>1, Marks, JoinedTexts
  <2>3. b = a \o <<>> /\ t = a \o (IF r # <<>> THEN <<"/">> \o r ELSE <<>>)
    BY <1>1, <1>4, <2>1 DEF Join
  <2>4. b = a
    BY <2>2, <2>3, JoinedTexts
  <2> QED
    BY <2>3, <2>4
<1>6. t \in Texts /\ Len(t) = Len(b) + Len(r) + (IF r # <<>> THEN 1 ELSE 0)
  <2>1. CASE r # <<>>
    <3>1. PICK u \in Texts : u = <<"/">> \o r /\ Len(u) = 1 + Len(r)
      BY Marks, Lengths
    <3>2. t \in Texts /\ Len(t) = Len(b) + (1 + Len(r))
      <4>1. t = b \o u
        BY <1>5, <2>1, <3>1
      <4> QED
        BY <1>3, <3>1, <4>1, Lengths
    <3> QED
      BY <1>3, <2>1, <3>2, JoinedTexts
  <2>2. CASE r = <<>>
    BY <1>3, <1>5, <2>2, JoinedTexts
  <2> QED
    BY <2>1, <2>2
<1>7. Len(n) \in Nat /\ Len(d) \in Nat /\ Len(r) \in Nat
  BY JoinedTexts
<1>8. Len(t) = Len(n) + Len(d) + Len(r)
        + (IF n # <<>> THEN 1 ELSE 0) + (IF r # <<>> THEN 1 ELSE 0)
  BY <1>3, <1>6, <1>7
<1> QED
  BY <1>1, <1>2, <1>4, <1>5, <1>6, <1>8

\* A text that has these parts has exactly the marks that go with them, since another
\* mark would make it longer; and before its first "/" is the bare JID.
LEMMA PartsFound ==
  ASSUME NEW p \in PartsSet, NEW t, t = FullOf(p), Parts(t) = p
  PROVE  /\ t \in Texts /\ Before(t, "/") = BareOf(p)
         /\ p.node # <<>> <=> Has(BareOf(p), "@")
         /\ p.resource # <<>> <=> Has(t, "/")
<1>1. PICK b : b = Before(t, "/")
  OBVIOUS
<1>2. p.node \in Texts /\ p.domain \in Texts /\ p.resource \in Texts
  BY DEF PartsSet
<1>3. PICK n \in Nat : n = Len(p.node)
  BY <1>2, JoinedTexts
<1>4. PICK d \in Nat : d = Len(p.domain)
  BY <1>2, JoinedTexts
<1>5. PICK r \in Nat : r = Len(p.resource)
  BY <1>2, JoinedTexts
<1>6. t \in Texts
  BY <1>2, JoinText DEF FullOf
<1>7. Len(t) = n + d + r
        + (IF p.node # <<>> THEN 1 ELSE 0) + (IF p.resource # <<>> THEN 1 ELSE 0)
  BY <1>2, <1>3, <1>4, <1>5, JoinText DEF FullOf
<1>8. /\ b \in Texts
      /\ Has(b, "@") => b = p.node \o (<<"@">> \o p.domain)
      /\ ~Has(b, "@") => p.node = <<>> /\ b = p.domain
      /\ Has(t, "/") => t = b \o (<<"/">> \o p.resource)
      /\ ~Has(t, "/") => t = b /\ p.resource = <<>>
  BY <1>1, <1>6, PartsOfText
<1>9. Len(b) = n + d + (IF Has(b, "@") THEN 1 ELSE 0)
  <2>1. CASE Has(b, "@")
    <3>1. PICK u \in Texts : u = <<"@">> \o p.domain /\ Len(u) = 1 + d
      <4>1. <<"@">> \o p.domain \in Texts /\ Len(<<"@">> \o p.domain) = 1 + d
        BY <1>2, <1>4, Marks, JoinedTexts
      <4> QED
        BY <4>1
    <3>2. Len(b) = n + (1 + d)
      <4>1. b = p.node \o u
        BY <1>8, <2>1, <3>1
      <4>2. Len(p.node \o u) = Len(p.node) + Len(u)
        BY <1>2, <3>1, Lengths
      <4> QED
        BY <1>3, <3>1, <4>1, <4>2
    <3> QED
      BY <2>1, <3>2
  <2>2. CASE ~Has(b, "@")
    <3>1. n = 0 /\ Len(b) = d
      BY <1>3, <1>4, <1>8, <2>2, Marks
    <3> QED
      BY <2>2, <3>1
  <2> QED
    BY <2>1, <2>2
<1>10. Len(t) = Len(b) + r + (IF Has(t, "/") THEN 1 ELSE 0)
  <2>0. Len(b) \in Nat
    BY <1>8, JoinedTexts
  <2>1. CASE Has(t, "/")
    <3>1. <<"/">> \o p.resource \in Texts /\ Len(<<"/">> \o p.resource) = 1 + r
      BY <1>2, <1>5, Marks, JoinedTexts
    <3>2. Len(t) = Len(b) + (1 + r)
      BY <1>8, <2>1, <3>1, JoinedTexts
    <3> QED
      BY <2>0, <2>1, <3>2
  <2>2. CASE ~Has(t, "/")
    <3>1. r = 0 /\ Len(t) = Len(b)
      BY <1>5, <1>8, <2>2, Marks
    <3> QED
      BY <2>0, <2>2, <3>1
  <2> QED
    BY <2>1, <2>2
<1>11. (p.node # <<>> <=> Has(b, "@")) /\ (p.resource # <<>> <=> Has(t, "/"))
  BY <1>7, <1>8, <1>9, <1>10
<1>12. b = BareOf(p)
  BY <1>2, <1>8, <1>11, JoinText DEF BareOf
<1> QED
  BY <1>1, <1>6, <1>11, <1>12

\* What the getters find in a text whose parts can be told apart.
LEMMA PartsOfRegular ==
  ASSUME NEW p \in PartsSet, Regular(p), NEW t, t = FullOf(p)
  PROVE  /\ t \in Texts /\ Before(t, "/") = BareOf(p)
         /\ p.node = IF Has(t, "@") THEN Before(t, "@") ELSE <<>>
         /\ p.domain = Before(After(t, "@"), "/")
         /\ p.resource = IF Has(t, "/") THEN After(t, "/") ELSE <<>>
<1>1. Parts(t) = p /\ (p.node # <<>> \/ ~Has(p.resource, "@"))
  BY DEF Regular
<1>2. p.node \in Texts /\ p.domain \in Texts /\ p.resource \in Texts
  BY DEF PartsSet
<1>3. PICK b : b = Before(t, "/")
  OBVIOUS
<1>4. /\ t \in Texts /\ b = BareOf(p)
      /\ p.node # <<>> <=> Has(b, "@")
      /\ p.resource # <<>> <=> Has(t, "/")
  BY <1>1, <1>3, PartsFound
<1>5. /\ b \in Texts /\ ~Has(b, "/") /\ ~Has(p.node, "@")
      /\ Has(b, "@") => b = p.node \o (<<"@">> \o p.domain)
      /\ ~Has(b, "@") => p.node = <<>> /\ b = p.domain
      /\ Has(t, "/") => t = b \o (<<"/">> \o p.resource)
      /\ ~Has(t, "/") => t = b /\ p.resource = <<>>
  BY <1>1, <1>3, <1>4, PartsOfText
<1>6. p.resource = IF Has(t, "/") THEN After(t, "/") ELSE <<>>
  BY <1>1 DEF Parts
<1>7. PICK rest : rest = IF Has(t, "/") THEN <<"/">> \o p.resource ELSE <<>>
  OBVIOUS
<1>8. rest \in Texts /\ t = b \o rest
  <2>1. CASE Has(t, "/")
    BY <1>2, <1>5, <1>7, <2>1, Marks, JoinedTexts
  <2>2. CASE ~Has(t, "/")
    BY <1>5, <1>7, <2>2, Marks, JoinedTexts
  <2> QED
    BY <2>1, <2>2
<1>9. CASE p.node # <<>>
  <2>1. PICK u : u = p.domain \o rest
    OBVIOUS
  <2>2. u \in Texts /\ t = p.node \o (<<"@">> \o u)
    <3>1. PICK m : m = <<"@">>
      OBVIOUS
    <3>2. m \in Texts /\ m \o p.domain \in Texts
      BY <1>2, <3>1, Marks, JoinedTexts
    <3>3. t = (p.node \o (m \o p.domain)) \o rest
      BY <1>4, <1>5, <1>8, <1>9, <3>1
    <3>4. t = p.node \o ((m \o p.domain) \o rest)
      BY <1>2, <1>8, <3>2, <3>3, Associative
    <3>5. (m \o p.domain) \o rest = m \o u
      BY <1>2, <1>8, <2>1, <3>2, Associative
    <3>6. u \in Texts
      BY <1>2, <1>8, <2>1, JoinedTexts
    <3> QED
      BY <3>1, <3>4, <3>5, <3>6
  <2>3. Has(t, "@") /\ Before(t, "@") = p.node /\ After(t, "@") = u
    BY <1>2, <1>5, <2>2, Marks, SplitAt
  <2>4. ~Has(p.domain, "/")
    <3>1. PICK m \in Texts : m = <<"@">> \o p.domain
      BY <1>2, Marks, JoinedTexts
    <3>2. b = p.node \o m
      BY <1>4, <1>5, <1>9, <3>1
    <3>3. ~Has(m, "/")
      BY <1>2, <1>5, <3>1, <3>2, JoinedTexts
    <3> QED
      BY <1>2, <3>1, <3>3, Marks, JoinedTexts
  <2>5. Before(u, "/") = p.domain
    <3>1. CASE Has(t, "/")
      BY <1>2, <1>7, <2>1, <2>4, <3>1, Marks, SplitAt
    <3>2. CASE ~Has(t, "/")
      BY <1>2, <1>7, <2>1, <2>4, <3>2, JoinedTexts, SplitNone
    <3> QED
      BY <3>1, <3>2
  <2> QED
    BY <1>3, <1>4, <1>6, <2>3, <2>5
<1>10. CASE p.node = <<>>
  <2>1. b = p.domain /\ ~Has(b, "@")
    BY <1>4, <1>5, <1>10
  <2>2. ~Has(rest, "@")
    <3>1. ~Has(<<"/">>, "@") /\ ~Has(<<>>, "@")
      BY Marks, HasOne
    <3> QED
      BY <1>1, <1>2, <1>7, <1>10, <3>1, Marks, JoinedTexts
  <2>3. ~Has(t, "@")
    BY <1>5, <1>8, <2>1, <2>2, JoinedTexts
  <2>4. After(t, "@") = t
    BY <2>3, SplitNone
  <2> QED
    BY <1>3, <1>4, <1>6, <1>10, <2>1, <2>3, <2>4
<1> QED
  BY <1>9, <1>10

-----------------------------------------------------------------------------
(* The view and the JID it edits.                                          *)

\* What is cached is what the view has asked for or, the domain apart, what the text has.
Faithful(j, parts) ==
  LET old == Parts(j.text) IN
  /\ j = [text |-> j.text, node |-> j.node, domain |-> j.domain,
          resource |-> j.resource, bare |-> j.bare]
  /\ parts \in PartsSet /\ old \in PartsSet /\ Regular(old) /\ j.text = FullOf(old)
  /\ old.node = parts.node /\ old.resource = parts.resource
  /\ j.node \in {Unset, parts.node} /\ j.resource \in {Unset, parts.resource}
  /\ j.bare \in {Unset, BareOf(old)}
  /\ j.domain = parts.domain \/ (j.domain = Unset /\ old.domain = parts.domain)

\* While the parts can be told apart, the JID stands for them; and only a domain that
\* was assigned last is not in its text.
FollowsEdits ==
  InView /\ sound =>
    Faithful(jid, wanted) /\ Regular(wanted) /\ (~pending => Parts(jid.text) = wanted)

SentAsAsked == sent # Nobody => (sent.exact => sent.to = sent.asked)

Views == FollowsEdits /\ SentAsAsked

\* The texts that arrive and are assigned.
LEMMA Values ==
  /\ Unset \notin Texts
  /\ \A w \in Words \cup {<<>>} : w \in Texts
  /\ \A a \in Jids : a \in Texts /\ FullOf(Parts(a)) = a
  /\ \A b \in Bares : b \in Texts /\ ~Has(b, "/")
  /\ Addresses \subseteq Jids /\ \A s \in Stanzas : s.from \in Jids
BY JidsAreWellFormed, Marks DEF Jids

\* The parts of a JID make up a text with these parts, and its bare JID is before "/".
LEMMA PartsOfJid ==
  ASSUME NEW a \in Jids
  PROVE  Parts(a) \in PartsSet /\ Before(a, "/") = BareOf(Parts(a))
<1>1. a \in Texts /\ FullOf(Parts(a)) = a
  BY Values
<1>2. PICK p : p = Parts(a)
  OBVIOUS
<1>3. PICK b : b = Before(a, "/")
  OBVIOUS
<1>4. p \in PartsSet
  BY <1>1, <1>2, <1>3, PartsOfText
<1> QED
  BY <1>1, <1>2, <1>4, PartsFound

\* A JID that was made of its parts.
LEMMA NewIsFaithful ==
  ASSUME NEW p \in PartsSet, Regular(p)
  PROVE  Faithful(Jid(FullOf(p)), p) /\ Parts(Jid(FullOf(p)).text) = p
<1>1. PICK j : j = Jid(FullOf(p))
  OBVIOUS
<1>2. /\ j = [text |-> FullOf(p), node |-> Unset, domain |-> Unset,
              resource |-> Unset, bare |-> Unset]
  BY <1>1 DEF Jid
<1>3. /\ j.text = FullOf(p) /\ j.node = Unset /\ j.domain = Unset
      /\ j.resource = Unset /\ j.bare = Unset
      /\ j = [text |-> j.text, node |-> j.node, domain |-> j.domain,
              resource |-> j.resource, bare |-> j.bare]
  BY <1>2
<1>4. Parts(j.text) = p
  BY <1>3 DEF Regular
<1> QED
  BY <1>1, <1>3, <1>4 DEF Faithful

\* The getters return what the view has asked for, also before the text has it.
LEMMA Getters ==
  ASSUME NEW j, NEW parts, Faithful(j, parts)
  PROVE  /\ Node(j) = parts.node /\ Domain(j) = parts.domain
         /\ Resource(j) = parts.resource /\ Bare(j) = BareOf(Parts(j.text))
<1>1. PICK old : old = Parts(j.text)
  OBVIOUS
<1>2. PICK t : t = j.text
  OBVIOUS
<1>3. /\ parts \in PartsSet /\ old \in PartsSet /\ Regular(old) /\ t = FullOf(old)
      /\ old.node = parts.node /\ old.resource = parts.resource
      /\ j.node \in {Unset, parts.node} /\ j.resource \in {Unset, parts.resource}
      /\ j.bare \in {Unset, BareOf(old)}
      /\ j.domain = parts.domain \/ (j.domain = Unset /\ old.domain = parts.domain)
  BY <1>1, <1>2 DEF Faithful
<1>4. /\ Before(t, "/") = BareOf(old)
      /\ old.node = IF Has(t, "@") THEN Before(t, "@") ELSE <<>>
      /\ old.domain = Before(After(t, "@"), "/")
      /\ old.resource = IF Has(t, "/") THEN After(t, "/") ELSE <<>>
  BY <1>3, PartsOfRegular
<1>5. Node(j) = parts.node
  BY <1>2, <1>3, <1>4 DEF Node
<1>6. Domain(j) = parts.domain
  <2>1. parts.domain # Unset
    BY <1>3, Values DEF PartsSet
  <2> QED
    BY <1>2, <1>3, <1>4, <2>1 DEF Domain
<1>7. Resource(j) = parts.resource
  BY <1>2, <1>3, <1>4 DEF Resource
<1>8. Bare(j) = BareOf(old)
  BY <1>2, <1>3, <1>4 DEF Bare
<1> QED
  BY <1>1, <1>5, <1>6, <1>7, <1>8

\* What they cache is what they return.
LEMMA ReadIsFaithful ==
  ASSUME NEW j, NEW parts, Faithful(j, parts)
  PROVE  Faithful(ReadParts(j), parts) /\ ReadParts(j).text = j.text
<1>1. PICK k : k = ReadParts(j)
  OBVIOUS
<1>2. /\ Node(j) = parts.node /\ Domain(j) = parts.domain
      /\ Resource(j) = parts.resource /\ Bare(j) = BareOf(Parts(j.text))
  BY Getters
<1>3. j = [text |-> j.text, node |-> j.node, domain |-> j.domain,
           resource |-> j.resource, bare |-> j.bare]
  BY DEF Faithful
<1>4. k = [text |-> j.text,
           node |-> IF Has(j.text, "@") THEN parts.node ELSE j.node,
           domain |-> parts.domain,
           resource |-> IF Has(j.text, "/") THEN parts.resource ELSE j.resource,
           bare |-> BareOf(Parts(j.text))]
  BY <1>1, <1>2, <1>3 DEF ReadParts
<1>5. /\ k.text = j.text /\ k.node \in {j.node, parts.node} /\ k.domain = parts.domain
      /\ k.resource \in {j.resource, parts.resource} /\ k.bare = BareOf(Parts(j.text))
      /\ k = [text |-> k.text, node |-> k.node, domain |-> k.domain,
              resource |-> k.resource, bare |-> k.bare]
  BY <1>4
<1> QED
  BY <1>1, <1>5 DEF Faithful

\* regenerate() makes the text of what the getters return.
LEMMA RegeneratedIsFaithful ==
  ASSUME NEW j, NEW p \in PartsSet, Regular(p),
         Node(j) = p.node, Domain(j) = p.domain, Resource(j) = p.resource
  PROVE  Faithful(Regenerate(j), p) /\ Parts(Regenerate(j).text) = p
<1>1. Regenerate(j) = Jid(FullOf(p))
  BY DEF Regenerate, FullOf
<1> QED
  BY <1>1, NewIsFaithful

\* A setter replaces a cached part and lets the others be.
LEMMA OnePart ==
  ASSUME NEW j, NEW parts, Faithful(j, parts), NEW w \in Texts
  PROVE  /\ LET k == [j EXCEPT !.node = w] IN
            Node(k) = w /\ Domain(k) = Domain(j) /\ Resource(k) = Resource(j)
         /\ LET k == [j EXCEPT !.resource = w] IN
            Node(k) = Node(j) /\ Domain(k) = Domain(j) /\ Resource(k) = w
<1>1. w # Unset
  BY Values
<1>2. j = [text |-> j.text, node |-> j.node, domain |-> j.domain,
           resource |-> j.resource, bare |-> j.bare]
  BY DEF Faithful
<1>3. PICK k : k = [j EXCEPT !.node = w]
  OBVIOUS
<1>4. k.text = j.text /\ k.node = w /\ k.domain = j.domain /\ k.resource = j.resource
  BY <1>2, <1>3
<1>5. Node(k) = w /\ Domain(k) = Domain(j) /\ Resource(k) = Resource(j)
  BY <1>1, <1>4 DEF Node, Domain, Resource
<1>6. PICK m : m = [j EXCEPT !.resource = w]
  OBVIOUS
<1>7. m.text = j.text /\ m.node = j.node /\ m.domain = j.domain /\ m.resource = w
  BY <1>2, <1>6
<1>8. Node(m) = Node(j) /\ Domain(m) = Domain(j) /\ Resource(m) = w
  BY <1>1, <1>7 DEF Node, Domain, Resource
<1> QED
  BY <1>3, <1>5, <1>6, <1>8

LEMMA SetNodeIsFaithful ==
  ASSUME NEW j, NEW parts, Faithful(j, parts), NEW w \in Texts,
         NEW p, p = [parts EXCEPT !.node = w], Regular(p)
  PROVE  Faithful(SetNode(j, w), p) /\ Parts(SetNode(j, w).text) = p
<1>1. parts \in PartsSet
  BY DEF Faithful
<1>2. p \in PartsSet /\ p.node = w /\ p.domain = parts.domain /\ p.resource = parts.resource
  BY <1>1 DEF PartsSet
<1>3. PICK k : k = [j EXCEPT !.node = w]
  OBVIOUS
<1>4. Node(k) = w /\ Domain(k) = Domain(j) /\ Resource(k) = Resource(j)
  BY <1>3, OnePart
<1>5. Node(j) = parts.node /\ Domain(j) = parts.domain /\ Resource(j) = parts.resource
  BY Getters
<1> QED
  BY <1>2, <1>3, <1>4, <1>5, RegeneratedIsFaithful DEF SetNode

LEMMA SetResourceIsFaithful ==
  ASSUME NEW j, NEW parts, Faithful(j, parts), NEW w \in Texts,
         NEW p, p = [parts EXCEPT !.resource = w], Regular(p)
  PROVE  Faithful(SetResource(j, w), p) /\ Parts(SetResource(j, w).text) = p
<1>1. parts \in PartsSet
  BY DEF Faithful
<1>2. p \in PartsSet /\ p.node = parts.node /\ p.domain = parts.domain /\ p.resource = w
  BY <1>1 DEF PartsSet
<1>3. PICK k : k = [j EXCEPT !.resource = w]
  OBVIOUS
<1>4. Node(k) = Node(j) /\ Domain(k) = Domain(j) /\ Resource(k) = w
  BY <1>3, OnePart
<1>5. Node(j) = parts.node /\ Domain(j) = parts.domain /\ Resource(j) = parts.resource
  BY Getters
<1> QED
  BY <1>2, <1>3, <1>4, <1>5, RegeneratedIsFaithful DEF SetResource

\* The setter of the domain changes no text.
LEMMA SetDomainIsFaithful ==
  ASSUME NEW j, NEW parts, Faithful(j, parts), NEW w \in Texts,
         NEW p, p = [parts EXCEPT !.domain = w]
  PROVE  Faithful(SetDomain(j, w), p)
<1>1. parts \in PartsSet
  BY DEF Faithful
<1>2. p \in PartsSet /\ p.node = parts.node /\ p.domain = w /\ p.resource = parts.resource
  BY <1>1 DEF PartsSet
<1>3. PICK k : k = SetDomain(j, w)
  OBVIOUS
<1>4. k = [text |-> j.text, node |-> j.node, domain |-> w,
           resource |-> j.resource, bare |-> j.bare]
  BY <1>3 DEF SetDomain, Faithful
<1>5. /\ k.text = j.text /\ k.node = j.node /\ k.domain = w
      /\ k.resource = j.resource /\ k.bare = j.bare
      /\ k = [text |-> k.text, node |-> k.node, domain |-> k.domain,
              resource |-> k.resource, bare |-> k.bare]
  BY <1>4
<1> QED
  BY <1>2, <1>3, <1>5 DEF Faithful

\* That of the bare JID replaces the node, also by none, and the domain.
LEMMA SetBareIsFaithful ==
  ASSUME NEW j, NEW parts, Faithful(j, parts), NEW b \in Bares,
         NEW p, p = [Parts(b) EXCEPT !.resource = parts.resource], Regular(p)
  PROVE  Faithful(SetBare(j, b), p) /\ Parts(SetBare(j, b).text) = p
<1>1. b \in Texts /\ ~Has(b, "/") /\ <<>> \in Texts /\ Unset \notin Texts
  BY Values, Marks
<1>2. Before(b, "/") = b
  BY <1>1, SplitNone
<1>3. PICK q : q = Parts(b)
  OBVIOUS
<1>4. q \in PartsSet
  BY <1>1, <1>2, <1>3, PartsOfText
<1>5. q.node = (IF Has(b, "@") THEN Before(b, "@") ELSE <<>>) /\ q.domain = After(b, "@")
  BY <1>2, <1>3 DEF Parts
<1>6. parts \in PartsSet
  BY DEF Faithful
<1>7. p \in PartsSet /\ p.node = q.node /\ p.domain = q.domain /\ p.resource = parts.resource
  BY <1>3, <1>4, <1>6 DEF PartsSet
<1>8. p.node # Unset /\ p.domain # Unset
  BY <1>1, <1>7 DEF PartsSet
<1>9. PICK k : k = IF Has(b, "@")
                   THEN [j EXCEPT !.node = Before(b, "@"), !.domain = After(b, "@")]
                   ELSE [j EXCEPT !.node = <<>>, !.domain = b]
  OBVIOUS
<1>10. ~Has(b, "@") => After(b, "@") = b
  BY SplitNone
<1>11. j = [text |-> j.text, node |-> j.node, domain |-> j.domain,
            resource |-> j.resource, bare |-> j.bare]
  BY DEF Faithful
<1>12. k.text = j.text /\ k.node = p.node /\ k.domain = p.domain /\ k.resource = j.resource
  BY <1>5, <1>7, <1>9, <1>10, <1>11
<1>13. Node(k) = p.node /\ Domain(k) = p.domain
  BY <1>8, <1>12 DEF Node, Domain
<1>14. Resource(k) = p.resource
  <2>1. Resource(j) = parts.resource
    BY Getters
  <2> QED
    BY <1>7, <1>12, <2>1 DEF Resource
<1> QED
  BY <1>7, <1>9, <1>13, <1>14, RegeneratedIsFaithful DEF SetBare

LEMMA SetFullIsFaithful ==
  ASSUME NEW j, NEW a \in Jids, Regular(Parts(a))
  PROVE  Faithful(SetFull(j, a), Parts(a)) /\ Parts(SetFull(j, a).text) = Parts(a)
<1>1. PICK p \in PartsSet : p = Parts(a) /\ FullOf(p) = a
  BY PartsOfJid, Values
<1>2. Faithful(Jid(a), p)
  BY <1>1, NewIsFaithful
<1>3. Node(Jid(a)) = p.node /\ Domain(Jid(a)) = p.domain /\ Resource(Jid(a)) = p.resource
  BY <1>2, Getters
<1> QED
  BY <1>1, <1>3, RegeneratedIsFaithful DEF SetFull

\* Each setter, after any assignments, leaves a JID for the parts asked for.
LEMMA EditFollows ==
  ASSUME Views, EditJid
  PROVE  Views'
<1>1. /\ InView /\ sent' = Nobody
      /\ sound' => sound /\ Regular(wanted')
  BY DEF EditJid, Edit, InView
<1>2. SentAsAsked'
  BY <1>1 DEF SentAsAsked
<1>3. FollowsEdits'
  <2> SUFFICES ASSUME sound'
               PROVE  /\ Faithful(jid', wanted')
                      /\ ~pending' => Parts(jid'.text) = wanted'
    BY <1>1 DEF FollowsEdits
  <2>1. Faithful(jid, wanted) /\ Regular(wanted')
    BY <1>1 DEF Views, FollowsEdits
  <2>2. CASE \E w \in Words \cup {<<>>} :
               Edit(SetNode(jid, w), [wanted EXCEPT !.node = w], FALSE)
    <3>1. PICK w \in Words \cup {<<>>} :
            jid' = SetNode(jid, w) /\ wanted' = [wanted EXCEPT !.node = w]
      BY <2>2 DEF Edit
    <3>2. w \in Texts
      BY Values
    <3> QED
      BY <2>1, <3>1, <3>2, SetNodeIsFaithful
  <2>3. CASE \E w \in Words : Edit(SetDomain(jid, w), [wanted EXCEPT !.domain = w], TRUE)
    <3>1. PICK w \in Words : /\ jid' = SetDomain(jid, w) /\ pending'
                             /\ wanted' = [wanted EXCEPT !.domain = w]
      BY <2>3 DEF Edit
    <3>2. w \in Texts
      BY Values
    <3> QED
      BY <2>1, <3>1, <3>2, SetDomainIsFaithful
  <2>4. CASE \E w \in Words \cup {<<>>} :
               Edit(SetResource(jid, w), [wanted EXCEPT !.resource = w], FALSE)
    <3>1. PICK w \in Words \cup {<<>>} :
            jid' = SetResource(jid, w) /\ wanted' = [wanted EXCEPT !.resource = w]
      BY <2>4 DEF Edit
    <3>2. w \in Texts
      BY Values
    <3> QED
      BY <2>1, <3>1, <3>2, SetResourceIsFaithful
  <2>5. CASE \E b \in Bares :
               Edit(SetBare(jid, b), [Parts(b) EXCEPT !.resource = wanted.resource], FALSE)
    <3>1. PICK b \in Bares :
            jid' = SetBare(jid, b) /\ wanted' = [Parts(b) EXCEPT !.resource = wanted.resource]
      BY <2>5 DEF Edit
    <3> QED
      BY <2>1, <3>1, SetBareIsFaithful
  <2>6. CASE \E a \in Addresses : Edit(SetFull(jid, a), Parts(a), FALSE)
    <3>1. PICK a \in Jids : jid' = SetFull(jid, a) /\ wanted' = Parts(a)
      BY <2>6, Values DEF Edit
    <3> QED
      BY <2>1, <3>1, SetFullIsFaithful
  <2> QED
    BY <2>2, <2>3, <2>4, <2>5, <2>6 DEF EditJid
<1> QED
  BY <1>2, <1>3 DEF Views

\* What is sent after the assignments is addressed as they ask for.
LEMMA SentFollows ==
  ASSUME Inv, Views, CmdMessage \/ CmdPresence \/ CmdJoinRoom
  PROVE  Views'
<1>1. /\ UNCHANGED <<now, jid, wanted, sound, pending>> /\ InView
  BY DEF CmdMessage, CmdPresence, CmdJoinRoom, Send
<1>2. FollowsEdits'
  BY <1>1 DEF Views, FollowsEdits, InView
<1>3. sound /\ ~pending =>
        /\ jid.text = FullOf(wanted) /\ Bare(Jid(jid.text)) = BareOf(wanted)
  <2> SUFFICES ASSUME sound, ~pending
               PROVE  jid.text = FullOf(wanted) /\ Bare(Jid(jid.text)) = BareOf(wanted)
    OBVIOUS
  <2>1. wanted \in PartsSet /\ Regular(wanted) /\ jid.text = FullOf(wanted)
    BY <1>1 DEF Views, FollowsEdits, Faithful
  <2>2. Faithful(Jid(FullOf(wanted)), wanted) /\ Parts(Jid(FullOf(wanted)).text) = wanted
    BY <2>1, NewIsFaithful
  <2> QED
    BY <2>1, <2>2, Getters
<1>4. ASSUME NEW a \in Addresses
      PROVE  a = FullOf(Parts(a)) /\ Bare(Jid(a)) = BareOf(Parts(a))
  <2>1. a \in Jids /\ a = FullOf(Parts(a)) /\ Before(a, "/") = BareOf(Parts(a))
    BY Values, PartsOfJid
  <2>2. Jid(a).text = a /\ Jid(a).bare = Unset
    BY DEF Jid
  <2> QED
    BY <2>1, <2>2 DEF Bare
<1>5. ASSUME CmdMessage PROVE SentAsAsked'
  <2> DEFINE Asked(parts) ==
        IF now.stanza.type = "groupchat" THEN BareOf(parts) ELSE FullOf(parts)
  <2>1. CASE Send(Recipient(jid.text), Asked(wanted), sound /\ ~pending)
    <3>1. sound /\ ~pending => Recipient(jid.text) = Asked(wanted)
      BY <1>3 DEF Recipient
    <3> QED
      BY <2>1, <3>1 DEF Send, SentAsAsked
  <2>2. CASE \E a \in Addresses : Send(Recipient(a), Asked(Parts(a)), TRUE)
    <3>1. PICK a \in Addresses : Send(Recipient(a), Asked(Parts(a)), TRUE)
      BY <2>2
    <3>2. Recipient(a) = Asked(Parts(a))
      BY <1>4 DEF Recipient
    <3> QED
      BY <3>1, <3>2 DEF Send, SentAsAsked
  <2> QED
    BY <1>5, <2>1, <2>2 DEF CmdMessage
<1>6. ASSUME CmdPresence PROVE SentAsAsked'
  <2>1. CASE Send(jid.text, FullOf(wanted), sound /\ ~pending)
    BY <1>3, <2>1 DEF Send, SentAsAsked
  <2>2. CASE Send(Nobody, Nobody, TRUE)
    BY <2>2 DEF Send, SentAsAsked
  <2> QED
    BY <1>6, <2>1, <2>2 DEF CmdPresence
<1>7. ASSUME CmdJoinRoom PROVE SentAsAsked'
  <2>0. PICK a \in Addresses, w \in Words :
          LET parts == [Parts(a) EXCEPT !.resource = w] IN
          Send(SetResource(Jid(a), w).text, FullOf(parts),
               Regular(Parts(a)) /\ Regular(parts))
    BY <1>7 DEF CmdJoinRoom
  <2>1. PICK parts :
          /\ parts = [Parts(a) EXCEPT !.resource = w]
          /\ Send(SetResource(Jid(a), w).text, FullOf(parts),
                  Regular(Parts(a)) /\ Regular(parts))
    BY <2>0
  <2>2. ASSUME Regular(Parts(a)), Regular(parts)
        PROVE  SetResource(Jid(a), w).text = FullOf(parts)
    <3>1. Parts(a) \in PartsSet /\ FullOf(Parts(a)) = a /\ w \in Texts
      BY Values, PartsOfJid
    <3>2. Faithful(Jid(a), Parts(a))
      BY <2>2, <3>1, NewIsFaithful
    <3>3. /\ Faithful(SetResource(Jid(a), w), parts)
          /\ Parts(SetResource(Jid(a), w).text) = parts
      BY <2>1, <2>2, <3>1, <3>2, SetResourceIsFaithful
    <3> QED
      BY <3>3 DEF Faithful
  <2> QED
    BY <2>1, <2>2 DEF Send, SentAsAsked
<1>8. SentAsAsked'
  BY <1>5, <1>6, <1>7
<1> QED
  BY <1>2, <1>8 DEF Views

\* A view begins with the sender's JID and ends with nothing.
LEMMA ViewsStep ==
  ASSUME Inv, Views, [Next]_botVars
  PROVE  Views'
<1>1. ASSUME ~InView', sent' = sent \/ sent' = Nobody
      PROVE  Views'
  BY <1>1 DEF Views, FollowsEdits, SentAsAsked
<1>2. ASSUME UNCHANGED <<now, jid, wanted, sound, pending, sent>> PROVE Views'
  BY <1>2 DEF Views, FollowsEdits, SentAsAsked, InView
<1>3. CASE Start \/ StartAgain \/ Lose \/ ViewRequires
  BY <1>2, <1>3 DEF Start, StartAgain, Lose, ViewRequires, viewVars
<1>4. CASE \E s \in Stanzas : Arrive(s)
  BY <1>1, <1>4 DEF Arrive, InView, viewVars
<1>5. CASE Skip
  BY <1>1, <1>5, CalledIsIdle DEF Skip, InView, Idle, viewVars
<1>6. CASE RunView
  <2> DEFINE a == now.stanza.from
  <2>1. /\ jid' = Jid(a) /\ wanted' = Parts(a) /\ sound' = Regular(Parts(a))
        /\ sent' = Nobody /\ now.calls > 0
    BY <1>6 DEF RunView
  <2>2. now.stanza \in Stanzas
    BY <2>1 DEF Inv, TypeOK, Once
  <2>3. a \in Jids /\ Parts(a) \in PartsSet /\ FullOf(Parts(a)) = a
    BY <2>2, Values, PartsOfJid
  <2>4. Regular(Parts(a)) =>
          Faithful(Jid(a), Parts(a)) /\ Parts(Jid(a).text) = Parts(a)
    BY <2>3, NewIsFaithful
  <2> HIDE DEF a
  <2> QED
    BY <2>1, <2>4 DEF Views, FollowsEdits, SentAsAsked
<1>7. CASE EditJid
  BY <1>7, EditFollows
<1>8. CASE ReadJid
  <2>1. jid' = ReadParts(jid) /\ InView /\ UNCHANGED <<now, wanted, sound, pending, sent>>
    BY <1>8 DEF ReadJid
  <2>2. sound => Faithful(jid', wanted) /\ jid'.text = jid.text
    BY <2>1, ReadIsFaithful DEF Views, FollowsEdits
  <2> QED
    BY <2>1, <2>2 DEF Views, FollowsEdits, SentAsAsked, InView
<1>9. CASE CmdMessage \/ CmdPresence \/ CmdJoinRoom
  BY <1>9, SentFollows
<1>10. CASE ViewEnds \/ ViewRaises
  BY <1>1, <1>10, CalledIsIdle DEF ViewEnds, ViewRaises, NoView, InView, Idle
<1>11. CASE UNCHANGED botVars
  BY <1>2, <1>11 DEF botVars, viewVars
<1> QED
  BY <1>3, <1>4, <1>5, <1>6, <1>7, <1>8, <1>9, <1>10, <1>11 DEF Next, View

\* handle() gives the view the sender's JID, and after any assignments to its parts, in
\* any order and with any texts, the parts that are read and the recipients of what
\* cmd_message, cmd_presence and cmd_join_room send are those the view has asked for; the
\* exceptions are the two that RepliesFollowEdits names.
THEOREM RepliesAlwaysFollowEdits == Spec => []RepliesFollowEdits
<1>1. BotInit => Views
  BY DEF BotInit, Views, FollowsEdits, SentAsAsked, InView, Idle
<1>2. Inv /\ Views /\ [Next]_botVars => Views'
  BY ViewsStep
<1>3. Views => RepliesFollowEdits
  <2> SUFFICES ASSUME Views PROVE RepliesFollowEdits
    OBVIOUS
  <2>1. ASSUME InView, sound, ~pending
        PROVE  /\ jid.text = FullOf(wanted) /\ Bare(jid) = BareOf(wanted)
               /\ Domain(jid) = wanted.domain
               /\ Resource(jid) = wanted.resource /\ Node(jid) = wanted.node
    <3>1. Faithful(jid, wanted) /\ Parts(jid.text) = wanted
      BY <2>1 DEF Views, FollowsEdits
    <3>2. jid.text = FullOf(wanted)
      BY <3>1 DEF Faithful
    <3> QED
      BY <3>1, <3>2, Getters
  <2> QED
    BY <2>1 DEF RepliesFollowEdits, Username, Views, SentAsAsked
<1> QED
  BY <1>1, <1>2, <1>3, Invariance, PTL DEF Spec
=============================================================================
