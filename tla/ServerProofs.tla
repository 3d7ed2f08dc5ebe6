---------------------------- MODULE ServerProofs ----------------------------
(***************************************************************************)
(* Proofs about Server, for any number of stanzas, senders, nested calls   *)
(* of handle() and whichever Behaviours and Failures an instance admits.   *)
(*                                                                         *)
(* None of the properties is inductive.  ServerInv adds what the nesting   *)
(* of handle() below a waiting command keeps apart: the calls below the    *)
(* innermost one all wait, and the stacks hold one application context and *)
(* one request for each of them, under what the innermost one has pushed.  *)
(* Once an exception is on its way this may fail (an open_session that     *)
(* raised has left its request behind), but then no application code runs  *)
(* before all the calls have ended.                                        *)
(*                                                                         *)
(* The last part shows that the server cannot go on for ever with finitely *)
(* many stanzas: its steps lower a measure.                                *)
(***************************************************************************)
EXTENDS Server, NestingProofs

-----------------------------------------------------------------------------
(* The inductive invariant.                                                *)

\* Only the innermost call runs; it leaves its blocks after an exception.
CallsWait ==
  /\ \A f \in 1 .. Len(frames) - 1 : frames[f].at = "wait" /\ ~frames[f].exc
  /\ frames # <<>> /\ Top.exc =>
       Top.at \in {"leave inner", "leave outer", "leave app context"}
  /\ \A f \in DOMAIN frames : status[frames[f].stanza] = "handling"
  /\ \A f, g \in DOMAIN frames : frames[f].stanza = frames[g].stanza => f = g

\* The blocks a call of handle() is in, by the statement it is at.
AppBlock(at) == IF at = "app context" THEN 0 ELSE 1
OuterBlock(at) == IF at \in {"app context", "outer", "leave app context"} THEN 0 ELSE 1
InnerBlock(at) == IF at \in {"view", "process", "drain", "leave inner"} THEN 1 ELSE 0

\* The open blocks of application contexts and of requests.
AppDepth == IF frames = <<>> THEN 0 ELSE Len(frames) - 1 + AppBlock(Top.at)
RequestDepth ==
  IF frames = <<>> THEN 0
  ELSE Len(frames) - 1 + OuterBlock(Top.at) + InnerBlock(Top.at)

\* The server's application context is the only one that is ever stacked.
ServerStacked ==
  /\ Len(appStack) = AppDepth /\ Len(blocks) = AppDepth + RequestDepth
  /\ \A i \in DOMAIN appStack : appStack[i] = ServerContext
  /\ \A r \in RequestContexts : \A i \in DOMAIN implicit[r] : implicit[r][i] = NoContext
  /\ life[ServerContext] = "live" => refcnt[ServerContext] # 0
  /\ openFailed \/ NestingInv

\* Above what earlier calls of open_session have left behind lie the outer
\* requests of the calls and the inner one of the innermost call.
RequestsAbove(base) ==
  /\ Len(reqStack) = base + RequestDepth
  /\ \A f \in DOMAIN frames :
       OuterBlock(frames[f].at) = 1 => reqStack[base + f] = Outer(frames[f].stanza)
  /\ frames # <<>> /\ InnerBlock(Top.at) = 1 =>
       reqStack[base + Len(frames) + 1] = Inner(Active)

RequestsStacked ==
  (frames # <<>> => ~Top.exc) => \E base \in Nat : RequestsAbove(base)

\* The notifications the view of s has made.
MadeFor(s) == {n \in noted : n.by = s /\ n.during = "view"}

NotesOwn ==
  /\ frames # <<>> /\ Top.at \in {"view", "process", "drain"} =>
       notes[ServerContext] \in Seq(MadeFor(Active))
  /\ \A f \in DOMAIN frames : frames[f].queue \in Seq(MadeFor(frames[f].stanza))

\* The session of the innermost request is the stored one, if there is one.
SessionOpen ==
  frames # <<>> /\ Top.at \in {"view", "process"} =>
    /\ sess[Inner(Active)] \in StanzaContexts
    /\ storage[From[Active]] # None => storage[From[Active]] = sess[Inner(Active)]

\* What the view of s has written is stored, about to be, or lost to an exception.
Stored(s) ==
  storage[From[s]] # None /\ <<s, "view">> \in data[storage[From[s]]]
WriteKept(s) ==
  \/ status[s] = "failed"
  \/ Stored(s)
  \/ /\ frames # <<>> /\ Active = s
     /\ \/ Top.exc
        \/ Top.at \in {"view", "process"} /\ <<s, "view">> \in data[sess[Inner(s)]]
WritesKept ==
  \A s \in Stanzas : <<s, "view">> \in written =>
    status[s] \notin {"pending", "ignored"} /\ WriteKept(s)

\* The notifications a call of handle() still has to send.
Among(n, seq) == \E i \in DOMAIN seq : seq[i] = n
Queued(n, f) ==
  \/ Among(n, frames[f].queue)
  \/ /\ f = Len(frames) /\ frames[f].at \in {"view", "process", "drain"}
     /\ Among(n, notes[ServerContext])
NoteKept(n) ==
  \/ status[n.by] = "failed"
  \/ n \in delivered
  \/ \E f \in DOMAIN frames :
       frames[f].stanza = n.by /\ (frames[f].exc \/ Queued(n, f))
NotesKept ==
  /\ \A n \in noted : n.during = "view" =>
       status[n.by] \notin {"pending", "ignored"} /\ NoteKept(n)
  /\ frames # <<>> /\ ~Top.exc /\ Top.at \in {"leave outer", "leave app context"} =>
       Top.queue = <<>>

ServerInv ==
  /\ ServerTypeOK /\ ContextsInv
  /\ CallsWait /\ ServerStacked /\ RequestsStacked
  /\ NotesOwn /\ SessionOpen /\ WritesKept /\ NotesKept

-----------------------------------------------------------------------------
(* The calls of handle().                                                  *)

USE SharedContexts, NotesOfStanzas, Senders, NoSession DEF StanzaContexts

LEMMA TopFrame ==
  ASSUME frames \in Seq(Frames), frames # <<>>
  PROVE  /\ Len(frames) \in Nat \ {0} /\ DOMAIN frames = 1 .. Len(frames)
         /\ Len(frames) \in DOMAIN frames
         /\ Top = frames[Len(frames)] /\ Top \in Frames /\ Active \in Stanzas
<1>1. /\ Len(frames) \in Nat \ {0} /\ DOMAIN frames = 1 .. Len(frames)
      /\ Last(frames) \in Frames
  BY FrontProperties
<1>2. Top = frames[Len(frames)] /\ Top \in Frames
  BY ONLY <1>1 DEF Top, Last
<1> QED
  BY ONLY <1>1, <1>2 DEF Active, Frames

LEMMA TopSet ==
  ASSUME frames \in Seq(Frames), frames # <<>>, NEW frame \in Frames, SetTop(frame)
  PROVE  /\ frames' \in Seq(Frames) /\ frames' # <<>> /\ Len(frames') = Len(frames)
         /\ Top' = frame /\ Active' = frame.stanza /\ DOMAIN frames' = DOMAIN frames
         /\ \A f \in DOMAIN frames :
              frames'[f] = IF f = Len(frames) THEN frame ELSE frames[f]
<1>1. /\ Len(frames) \in Nat \ {0} /\ DOMAIN frames = 1 .. Len(frames)
  BY TopFrame
<1>2. frames' = [frames EXCEPT ![Len(frames)] = frame]
  BY DEF SetTop
<1>3. /\ frames' \in Seq(Frames) /\ Len(frames') = Len(frames)
      /\ DOMAIN frames' = DOMAIN frames
      /\ frames'[Len(frames)] = frame
      /\ \A f \in DOMAIN frames : f # Len(frames) => frames'[f] = frames[f]
  BY <1>1, <1>2
<1> QED
  BY <1>1, <1>3 DEF Top, Active, Last

LEMMA TopRemoved ==
  ASSUME frames \in Seq(Frames), frames # <<>>, LeaveAppContext
  PROVE  /\ frames' \in Seq(Frames) /\ Len(frames') = Len(frames) - 1
         /\ DOMAIN frames' = 1 .. Len(frames) - 1
         /\ \A f \in 1 .. Len(frames) - 1 :
              frames'[f] = IF Top.exc /\ f = Len(frames) - 1
                           THEN [frames[f] EXCEPT !.at = "leave outer", !.exc = TRUE]
                           ELSE frames[f]
<1>1. PICK rest : rest = Front(frames)
  OBVIOUS
<1>2. frames' = IF Top.exc /\ rest # <<>>
                THEN [rest EXCEPT ![Len(rest)].at = "leave outer",
                                  ![Len(rest)].exc = TRUE]
                ELSE rest
  BY <1>1 DEF LeaveAppContext
<1>3. /\ rest \in Seq(Frames) /\ Len(rest) = Len(frames) - 1 /\ Len(rest) \in Nat
      /\ DOMAIN rest = 1 .. Len(rest)
      /\ \A f \in 1 .. Len(frames) - 1 : rest[f] = frames[f]
  BY <1>1, FrontProperties
<1>4. CASE Top.exc /\ rest # <<>>
  <2>1. PICK last \in Frames : last = rest[Len(rest)] /\ Len(rest) \in DOMAIN rest
    BY <1>3, <1>4
  <2>2. [last EXCEPT !.at = "leave outer", !.exc = TRUE] \in Frames
    BY DEF Frames, Points
  <2>3. frames' = [rest EXCEPT ![Len(rest)] =
                     [last EXCEPT !.at = "leave outer", !.exc = TRUE]]
    BY <1>2, <1>4, <2>1
  <2>4. /\ frames' \in Seq(Frames) /\ Len(frames') = Len(rest)
        /\ DOMAIN frames' = 1 .. Len(rest)
        /\ \A f \in 1 .. Len(rest) :
             frames'[f] = IF f = Len(rest)
                          THEN [last EXCEPT !.at = "leave outer", !.exc = TRUE]
                          ELSE rest[f]
    BY ONLY <1>3, <2>1, <2>2, <2>3
  <2> QED
    BY ONLY <1>3, <1>4, <2>1, <2>4
<1>5. CASE ~(Top.exc /\ rest # <<>>)
  <2>1. frames' = rest
    BY <1>2, <1>5
  <2>2. Top.exc => Len(frames) - 1 = 0
    BY <1>3, <1>5
  <2>3. /\ Len(frames) \in Nat /\ DOMAIN frames' = 1 .. Len(frames) - 1
        /\ frames' \in Seq(Frames) /\ Len(frames') = Len(frames) - 1
        /\ \A f \in 1 .. Len(frames) - 1 : frames'[f] = frames[f]
    BY ONLY <1>3, <2>1, FrontProperties, frames \in Seq(Frames)
  <2>4. \A f \in 1 .. Len(frames) - 1 : ~(Top.exc /\ f = Len(frames) - 1)
    BY ONLY <2>2, <2>3
  <2> QED
    BY ONLY <2>3, <2>4
<1> QED
  BY <1>4, <1>5

\* The code of the application that runs.
LEMMA Running ==
  /\ RunningPart = "view" => At("view")
  /\ RunningPart = "generator" => At("send")
  /\ RunningPart \in {"view", "generator", "none"}
BY DEF RunningPart, At

-----------------------------------------------------------------------------
(* What the server's steps do to the contexts.                             *)

LEMMA ServerIsContext ==
  ServerContext \in AppContexts /\ ServerContext \in AllAppContexts
BY SharedContexts DEF AllAppContexts

LEMMA ServerOnTop ==
  ASSUME ServerInv, frames # <<>>, Top.at # "app context"
  PROVE  appStack # <<>> /\ Last(appStack) = ServerContext
<1>1. /\ appStack \in Seq(AllAppContexts) /\ Len(appStack) = AppDepth
      /\ \A i \in DOMAIN appStack : appStack[i] = ServerContext
  BY DEF ServerInv, ServerStacked, ContextsInv, TypeOK
<1>2. Len(frames) \in Nat \ {0}
  BY TopFrame DEF ServerInv, ServerTypeOK
<1>3. AppBlock(Top.at) = 1
  BY DEF AppBlock
<1>4. Len(appStack) # 0
  <2>1. AppDepth = Len(frames) - 1 + AppBlock(Top.at)
    BY DEF AppDepth
  <2>2. AppDepth = Len(frames) - 1 + 1
    BY ONLY <2>1, <1>3
  <2>3. AppDepth # 0
    BY ONLY <2>2, <1>2
  <2> QED
    BY ONLY <1>1, <2>3
<1> QED
  BY ONLY <1>1, <1>4 DEF Last

\* The requests find an application context of their application.
LEMMA NothingImplicit ==
  ASSUME ServerInv, appStack # <<>>, Last(appStack) = ServerContext,
         NEW r \in RequestContexts
  PROVE  ImplicitFor(r) = {NoContext}
BY OneApplication DEF ImplicitFor, NeedsAppContext

LEMMA RequestEntered ==
  ASSUME ServerInv, frames # <<>>, Top.at # "app context",
         NEW r \in RequestContexts, EnterRequest(r)
  PROVE  /\ UNCHANGED <<appStack, refcnt>>
         /\ reqStack' = Append(reqStack, r)
         /\ implicit' = [implicit EXCEPT ![r] = Append(@, NoContext)]
         /\ life' = SetLife({r, NoContext}, "live")
         /\ notes' = [notes EXCEPT ![ServerContext] = <<>>]
         /\ blocks' = Append(blocks, r)
<1>1. ImplicitFor(r) = {NoContext} /\ Last(appStack) = ServerContext
  BY ServerOnTop, NothingImplicit
<1> QED
  BY <1>1 DEF EnterRequest, PushRequest

LEMMA RequestNotEntered ==
  ASSUME ServerInv, frames # <<>>, Top.at # "app context",
         NEW r \in RequestContexts, EnterRequestFails(r)
  PROVE  /\ UNCHANGED <<appStack, refcnt, notes, blocks>>
         /\ implicit' = [implicit EXCEPT ![r] = Append(@, NoContext)]
         /\ life' = SetLife({r, NoContext}, "live")
<1>1. ImplicitFor(r) = {NoContext}
  BY ServerOnTop, NothingImplicit
<1> QED
  BY <1>1 DEF EnterRequestFails, PushRequest

LEMMA RequestLeft ==
  ASSUME ServerInv, NEW r \in RequestContexts, ExitRequest(r, FALSE)
  PROVE  /\ UNCHANGED <<appStack, refcnt, notes>>
         /\ implicit[r] # <<>> /\ implicit' = [implicit EXCEPT ![r] = Front(@)]
         /\ reqStack' = PopTop(reqStack)
         /\ life' = SetLife(TornWithRequest(r), "torn")
         /\ blocks # <<>> /\ blocks' = Front(blocks)
<1> USE DEF ServerInv
<1>1. /\ Innermost(r) /\ blocks # <<>> /\ blocks' = Front(blocks) /\ UNCHANGED notes
      /\ implicit' = [implicit EXCEPT ![r] = Front(@)] /\ reqStack' = PopTop(reqStack)
  BY DEF ExitRequest, Innermost
<1>2. /\ blocks \in Seq(Contexts)
      /\ implicit[r] \in Seq(ImplicitContexts \cup {NoContext})
      /\ Len(implicit[r]) >= Occurrences(r, blocks)
  BY DEF ContextsInv, TypeOK, RequestLevels
<1>3. Occurrences(r, blocks) \in Nat /\ Occurrences(r, blocks) # 0
  <2>1. InBlock(r)
    BY ONLY <1>1, <1>2, FrontProperties DEF Innermost, InBlock, Last
  <2> QED
    BY ONLY <2>1, <1>2, OccurrencesNat DEF InBlock
<1>4. implicit[r] # <<>> /\ Len(implicit[r]) \in DOMAIN implicit[r]
  BY ONLY <1>2, <1>3
<1>5. Last(implicit[r]) = NoContext
  BY <1>4 DEF ServerStacked, Last
<1>6. UNCHANGED <<appStack, refcnt>> /\ life' = SetLife(TornWithRequest(r), "torn")
  BY <1>5 DEF ExitRequest
<1> QED
  BY <1>1, <1>4, <1>6

-----------------------------------------------------------------------------
(* Steps that move the innermost call from one statement to another.       *)

Leaving == {"leave inner", "leave outer", "leave app context"}

Moves(frame) ==
  /\ frames # <<>> /\ SetTop(frame)
  /\ frame.stanza = Active
  /\ frame.exc => frame.at \in Leaving
  /\ Top.exc => frame.exc
  /\ UNCHANGED serving

SameBlocks(at, point) ==
  /\ AppBlock(at) = AppBlock(point)
  /\ OuterBlock(at) = OuterBlock(point) /\ InnerBlock(at) = InnerBlock(point)

\* What becomes of the queue of the innermost call: it goes with an exception, it
\* stays, it takes over the notifications of the view, or its head is sent.
Passes(point) ==
  \/ Top.at = "view" /\ point = "process"
  \/ Top.at = "process" /\ point = "drain" /\ ProcessResponse
  \/ Top.at \in {"send", "wait"} /\ point \in {"send", "wait", "notify"}
  \/ Top.at = "notify" /\ point = "leave outer" /\ Top.queue = <<>>
Takes(frame) ==
  /\ Top.at = "drain" /\ frame.at = "leave inner"
  /\ frame.queue = Top.queue \o notes[ServerContext]
Sends(frame) ==
  /\ Top.at = "notify" /\ frame.at = "notify"
  /\ Top.queue # <<>> /\ frame.queue = Tail(Top.queue)
  /\ delivered' = delivered \cup {Head(Top.queue)}
Carries(frame) ==
  \/ frame.exc /\ frame.queue = Top.queue
  \/ /\ ~frame.exc /\ ~Top.exc
     /\ \/ frame.queue = Top.queue /\ Passes(frame.at)
        \/ Takes(frame) \/ Sends(frame)

\* The steps that leave the contexts alone.
QuietStep ==
  \/ ViewReturns \/ ViewRaises \/ ProcessResponse \/ DrainNotes
  \/ SendItem \/ Answered \/ GeneratorRaises \/ ResponseSent \/ SendNote \/ NotesSent

LEMMA PointMoved ==
  ASSUME NEW frame \in Frames, NEW point \in Points, NEW exc \in BOOLEAN
  PROVE  /\ [frame EXCEPT !.at = point] \in Frames
         /\ [frame EXCEPT !.at = point].at = point
         /\ [frame EXCEPT !.at = point].stanza = frame.stanza
         /\ [frame EXCEPT !.at = point].exc = frame.exc
         /\ [frame EXCEPT !.at = point].queue = frame.queue
         /\ [frame EXCEPT !.at = point, !.exc = exc] \in Frames
         /\ [frame EXCEPT !.at = point, !.exc = exc].at = point
         /\ [frame EXCEPT !.at = point, !.exc = exc].stanza = frame.stanza
         /\ [frame EXCEPT !.at = point, !.exc = exc].exc = exc
         /\ [frame EXCEPT !.at = point, !.exc = exc].queue = frame.queue
BY DEF Frames

LEMMA GotoMoves ==
  ASSUME ServerInv, frames # <<>>, NEW point \in Points, Goto(point),
         ~Top.exc \/ point \in Leaving, UNCHANGED serving
  PROVE  \E frame \in Frames :
           /\ Moves(frame) /\ frame.at = point /\ frame.exc = Top.exc
           /\ frame.queue = Top.queue
<1>1. Top \in Frames
  BY TopFrame DEF ServerInv, ServerTypeOK
<1>2. PICK frame : frame = [Top EXCEPT !.at = point]
  OBVIOUS
<1>3. /\ frame \in Frames /\ frame.at = point /\ frame.stanza = Active
      /\ frame.exc = Top.exc /\ frame.queue = Top.queue
  BY ONLY <1>1, <1>2, PointMoved, point \in Points DEF Active
<1> QED
  BY <1>2, <1>3 DEF Goto, Moves

LEMMA RaiseMoves ==
  ASSUME ServerInv, frames # <<>>, NEW point \in Points, RaiseTo(point),
         point \in Leaving, UNCHANGED serving
  PROVE  \E frame \in Frames :
           /\ Moves(frame) /\ frame.at = point /\ frame.exc
           /\ frame.queue = Top.queue
<1>1. Top \in Frames
  BY TopFrame DEF ServerInv, ServerTypeOK
<1>2. PICK frame : frame = [Top EXCEPT !.at = point, !.exc = TRUE]
  OBVIOUS
<1>3. /\ frame \in Frames /\ frame.at = point /\ frame.stanza = Active
      /\ frame.exc = TRUE /\ frame.queue = Top.queue
  BY ONLY <1>1, <1>2, PointMoved, point \in Points DEF Active
<1> QED
  BY <1>2, <1>3 DEF RaiseTo, Moves

\* No exception is on its way where application code or the server's runs.
LEMMA NotRaised ==
  ASSUME ServerInv, frames # <<>>, Top.at \notin Leaving
  PROVE  ~Top.exc
BY DEF ServerInv, CallsWait, Leaving

LEMMA MovesKeepCalls ==
  ASSUME ServerInv, NEW frame \in Frames, Moves(frame)
  PROVE  /\ frames' \in Seq(Frames) /\ status' \in [Stanzas -> Statuses]
         /\ engine' \in Engines /\ running' \in BOOLEAN
         /\ CallsWait'
<1>1. /\ frames \in Seq(Frames) /\ status \in [Stanzas -> Statuses]
      /\ engine \in Engines /\ running \in BOOLEAN
      /\ UNCHANGED <<engine, running, status>>
  BY DEF ServerInv, ServerTypeOK, Moves, serving
<1>2. /\ frames # <<>> /\ SetTop(frame) /\ frame.stanza = Active
      /\ frame.exc => frame.at \in Leaving
  BY DEF Moves
<1>3. /\ frames' \in Seq(Frames) /\ Len(frames') = Len(frames) /\ Top' = frame
      /\ DOMAIN frames' = DOMAIN frames
      /\ \A f \in DOMAIN frames :
           frames'[f] = IF f = Len(frames) THEN frame ELSE frames[f]
  BY <1>1, <1>2, TopSet
<1>4. /\ DOMAIN frames = 1 .. Len(frames) /\ Len(frames) \in Nat
      /\ Top = frames[Len(frames)]
  BY <1>1, <1>2, TopFrame
<1>5. CallsWait
  BY DEF ServerInv
<1>6. \A f \in DOMAIN frames : frames'[f].stanza = frames[f].stanza
  BY ONLY <1>2, <1>3, <1>4 DEF Active
<1>7. \A f \in 1 .. Len(frames) - 1 : frames'[f] = frames[f]
  BY ONLY <1>3, <1>4
<1>8. CallsWait'
  BY ONLY <1>1, <1>2, <1>3, <1>5, <1>6, <1>7 DEF CallsWait, Leaving
<1> QED
  BY <1>1, <1>3, <1>8

LEMMA SequencesOf ==
  ASSUME NEW S, NEW T, S \subseteq T
  PROVE  Seq(S) \subseteq Seq(T)
OBVIOUS

\* The notifications that the innermost call takes over.
LEMMA NotesTaken ==
  ASSUME ServerInv, At("drain")
  PROVE  /\ notes[Last(appStack)] = notes[ServerContext]
         /\ notes[ServerContext] \in Seq(MadeFor(Active))
         /\ Top.queue \in Seq(MadeFor(Active))
         /\ MadeFor(Active) \subseteq Notes
         /\ Top.queue \o notes[ServerContext] \in Seq(MadeFor(Active))
         /\ Top.queue \o notes[ServerContext] \in Seq(Notes)
<1>1. Last(appStack) = ServerContext
  BY ServerOnTop DEF At
<1>2. notes[ServerContext] \in Seq(MadeFor(Active))
  BY DEF ServerInv, NotesOwn, At
<1>3. Top.queue \in Seq(MadeFor(Active))
  <2>1. Len(frames) \in DOMAIN frames /\ Top = frames[Len(frames)]
    BY TopFrame DEF ServerInv, ServerTypeOK, At
  <2> QED
    BY <2>1 DEF ServerInv, NotesOwn, Active
<1>4. MadeFor(Active) \subseteq Notes
  BY DEF ServerInv, ServerTypeOK, MadeFor
<1>5. Top.queue \o notes[ServerContext] \in Seq(MadeFor(Active))
  BY ONLY <1>2, <1>3, ConcatProperties
<1> QED
  BY <1>1, <1>2, <1>3, <1>4, <1>5, SequencesOf

LEMMA QuietMoves ==
  ASSUME ServerInv, QuietStep
  PROVE  /\ UNCHANGED vars /\ openFailed' = openFailed
         /\ \E frame \in Frames :
              Moves(frame) /\ SameBlocks(frame.at, Top.at) /\ Carries(frame)
<1> DEFINE Quiet == \E frame \in Frames :
              Moves(frame) /\ SameBlocks(frame.at, Top.at) /\ Carries(frame)
<1>0. UNCHANGED vars /\ openFailed' = openFailed /\ UNCHANGED serving
  BY DEF QuietStep, ViewReturns, ViewRaises, ProcessResponse, DrainNotes, SendItem,
         Answered, GeneratorRaises, ResponseSent, SendNote, NotesSent, history
<1>1. frames # <<>> /\ Top \in Frames
  BY Running, TopFrame
  DEF QuietStep, ViewReturns, ViewRaises, ProcessResponse, DrainNotes, SendItem, Answered,
      GeneratorRaises, ResponseSent, SendNote, NotesSent, At, ServerInv, ServerTypeOK
<1>2. ASSUME NEW point \in Points, Goto(point), ~Top.exc, SameBlocks(point, Top.at),
             Passes(point)
      PROVE  Quiet
  BY <1>0, <1>1, <1>2, GotoMoves DEF Carries
<1>3. ASSUME NEW point \in Points, RaiseTo(point), point \in Leaving,
             SameBlocks(point, Top.at)
      PROVE  Quiet
  BY <1>0, <1>1, <1>3, RaiseMoves DEF Carries
<1>4. ASSUME NEW frame \in Frames, SetTop(frame), frame.stanza = Active, ~Top.exc,
             frame.exc => frame.at \in Leaving, SameBlocks(frame.at, Top.at),
             Carries(frame)
      PROVE  Quiet
  BY <1>0, <1>1, <1>4 DEF Moves
<1>s. /\ SameBlocks("process", "view") /\ SameBlocks("leave inner", "view")
      /\ SameBlocks("drain", "process") /\ SameBlocks("leave inner", "process")
      /\ SameBlocks("leave inner", "drain") /\ SameBlocks("send", "send")
      /\ SameBlocks("wait", "send") /\ SameBlocks("send", "wait")
      /\ SameBlocks("leave outer", "send") /\ SameBlocks("notify", "send")
      /\ SameBlocks("notify", "notify") /\ SameBlocks("leave outer", "notify")
  BY DEF SameBlocks, AppBlock, OuterBlock, InnerBlock
<1>p. /\ {"process", "drain", "leave inner", "send", "wait", "notify", "leave outer"}
           \subseteq Points
      /\ {"leave inner", "leave outer"} \subseteq Leaving
      /\ {"view", "process", "drain", "send", "wait", "notify"} \cap Leaving = {}
  BY DEF Points, Leaving
<1>x. Top.at \notin Leaving => ~Top.exc
  BY <1>1, NotRaised
<1>q. SUFFICES Quiet
  BY <1>0
<1> HIDE DEF Quiet
<1>5. CASE ViewReturns
  <2>1. PICK items \in Responses, lazy \in BOOLEAN :
          SetTop([Top EXCEPT !.at = "process", !.items = items, !.lazy = lazy])
    BY <1>5 DEF ViewReturns
  <2>2. PICK frame : frame = [Top EXCEPT !.at = "process", !.items = items, !.lazy = lazy]
    OBVIOUS
  <2>3. items \in Seq(Items) /\ Top.at = "view" /\ ~Top.exc
    BY <1>5, <1>p, <1>x, KnownResponses DEF ViewReturns, At
  <2>4. /\ frame \in Frames /\ frame.at = "process" /\ frame.stanza = Active
        /\ ~frame.exc /\ frame.queue = Top.queue
    BY ONLY <1>1, <2>2, <2>3, <1>p DEF Frames, Active
  <2>5. Carries(frame)
    BY <2>3, <2>4 DEF Carries, Passes
  <2> QED
    BY <1>4, <1>s, <2>1, <2>2, <2>3, <2>4, <2>5
<1>6. CASE ViewRaises
  BY <1>3, <1>6, <1>s, <1>p DEF ViewRaises, At
<1>7. CASE ProcessResponse
  <2>1. Top.at = "process" /\ (Goto("drain") \/ RaiseTo("leave inner"))
    BY <1>7 DEF ProcessResponse, At
  <2>2. Passes("drain")
    BY <1>7, <2>1 DEF Passes
  <2> QED
    BY <1>2, <1>3, <2>1, <2>2, <1>s, <1>p, <1>x
<1>8. CASE DrainNotes
  <2>1. PICK frame : frame = [Top EXCEPT !.at = "leave inner",
                                         !.queue = @ \o notes[ServerContext]]
    OBVIOUS
  <2>2. SetTop(frame) /\ Top.at = "drain" /\ ~Top.exc
    BY <1>8, <2>1, <1>p, <1>x, NotesTaken DEF DrainNotes, At
  <2>3. Top.queue \o notes[ServerContext] \in Seq(Notes)
    BY <1>8, NotesTaken DEF DrainNotes
  <2>4. /\ frame \in Frames /\ frame.at = "leave inner" /\ frame.stanza = Active
        /\ frame.exc = Top.exc /\ frame.queue = Top.queue \o notes[ServerContext]
    BY ONLY <1>1, <2>1, <2>3, <1>p DEF Frames, Active
  <2>5. Carries(frame)
    BY <2>2, <2>4 DEF Carries, Takes
  <2> QED
    BY <1>4, <1>s, <2>2, <2>4, <2>5
<1>9. CASE SendItem
  <2>1. PICK rest : rest = [Top EXCEPT !.items = Tail(@)]
    OBVIOUS
  <2>2. Top.at = "send" /\ Top.items # <<>> /\ ~Top.exc /\ Top.exc \in BOOLEAN
    BY <1>1, <1>9, <1>p, <1>x DEF SendItem, At, Frames
  <2>3. /\ rest \in Frames /\ rest.at = "send" /\ rest.stanza = Active /\ ~rest.exc
        /\ rest.queue = Top.queue /\ Head(Top.items) \in Items
    BY ONLY <1>1, <2>1, <2>2, HeadTailProperties DEF Frames, Active
  <2>4. PICK wait, halt : /\ wait = [rest EXCEPT !.at = "wait"]
                          /\ halt = [rest EXCEPT !.at = "leave outer", !.exc = TRUE]
    OBVIOUS
  <2>5. /\ wait \in Frames /\ wait.at = "wait" /\ wait.stanza = Active /\ ~wait.exc
        /\ halt \in Frames /\ halt.at = "leave outer" /\ halt.stanza = Active
        /\ halt.exc = TRUE /\ halt.queue = Top.queue /\ wait.queue = Top.queue
    <3>1. "wait" \in Points /\ "leave outer" \in Points /\ TRUE \in BOOLEAN
      BY <1>p
    <3>2. /\ wait \in Frames /\ wait.at = "wait" /\ wait.stanza = Active /\ ~wait.exc
      BY ONLY <2>3, <2>4, <3>1 DEF Frames
    <3>3. wait.queue = Top.queue
      BY ONLY <2>3, <2>4 DEF Frames
    <3>4. /\ halt \in Frames /\ halt.at = "leave outer" /\ halt.stanza = Active
      BY ONLY <2>3, <2>4, <3>1, PointMoved
    <3>5. halt.exc = TRUE /\ halt.queue = Top.queue
      BY ONLY <2>3, <2>4 DEF Frames
    <3> QED
      BY ONLY <3>2, <3>3, <3>4, <3>5
  <2>6. SetTop(rest) \/ SetTop(wait) \/ SetTop(halt)
    <3>1. [rest EXCEPT !.at = "send"] = rest
      BY <2>3 DEF Frames
    <3> QED
      BY <1>9, <2>1, <2>3, <2>4, <3>1 DEF SendItem, Items
  <2>c. Carries(rest) /\ Carries(wait) /\ Carries(halt)
    BY <2>2, <2>3, <2>5 DEF Carries, Passes
  <2>7. CASE SetTop(rest)
    BY <1>4, <1>s, <2>2, <2>3, <2>7, <2>c
  <2>8. CASE SetTop(wait)
    BY <1>4, <1>s, <2>2, <2>5, <2>8, <2>c
  <2>9. CASE SetTop(halt)
    BY <1>4, <1>s, <1>p, <2>2, <2>5, <2>9, <2>c
  <2> QED
    BY <2>6, <2>7, <2>8, <2>9
<1>10. CASE Answered
  BY <1>2, <1>10, <1>s, <1>p, <1>x DEF Answered, At, Passes
<1>11. CASE GeneratorRaises
  BY <1>3, <1>11, <1>s, <1>p, Running DEF GeneratorRaises, At
<1>12. CASE ResponseSent
  BY <1>2, <1>12, <1>s, <1>p, <1>x DEF ResponseSent, At, Passes
<1>13. CASE SendNote
  <2>1. PICK frame : frame = [Top EXCEPT !.queue = Tail(@)]
    OBVIOUS
  <2>2. Top.at = "notify" /\ Top.queue # <<>> /\ ~Top.exc
    BY <1>13, <1>p, <1>x DEF SendNote, At
  <2>3. /\ frame \in Frames /\ frame.at = "notify" /\ frame.stanza = Active /\ ~frame.exc
        /\ frame.queue = Tail(Top.queue)
    BY ONLY <1>1, <2>1, <2>2, HeadTailProperties DEF Frames, Active
  <2>4. \/ SetTop(frame) /\ delivered' = delivered \cup {Head(Top.queue)}
        \/ RaiseTo("leave outer")
    BY <1>13, <2>1 DEF SendNote
  <2>5. delivered' = delivered \cup {Head(Top.queue)} => Carries(frame)
    BY <2>2, <2>3 DEF Carries, Sends
  <2> QED
    BY <1>3, <1>4, <1>s, <1>p, <2>2, <2>3, <2>4, <2>5
<1>14. CASE NotesSent
  BY <1>2, <1>14, <1>s, <1>p, <1>x DEF NotesSent, At, Passes
<1> QED
  BY <1>5, <1>6, <1>7, <1>8, <1>9, <1>10, <1>11, <1>12, <1>13, <1>14 DEF QuietStep

-----------------------------------------------------------------------------
(* The application context of the server, at any depth of nested calls.    *)

\* How a step of the innermost call changes the depths.
LEMMA DepthsMoved ==
  ASSUME ServerInv, NEW frame \in Frames, Moves(frame)
  PROVE  /\ Len(frames) \in Nat \ {0} /\ frames' # <<>> /\ Len(frames') = Len(frames)
         /\ Top' = frame
         /\ AppDepth = Len(frames) - 1 + AppBlock(Top.at)
         /\ AppDepth' = Len(frames) - 1 + AppBlock(frame.at)
         /\ RequestDepth = Len(frames) - 1 + OuterBlock(Top.at) + InnerBlock(Top.at)
         /\ RequestDepth' = Len(frames) - 1 + OuterBlock(frame.at) + InnerBlock(frame.at)
<1>1. frames \in Seq(Frames) /\ frames # <<>> /\ SetTop(frame)
  BY DEF ServerInv, ServerTypeOK, Moves
<1>2. frames' # <<>> /\ Len(frames') = Len(frames) /\ Top' = frame
  BY <1>1, TopSet
<1>3. Len(frames) \in Nat \ {0}
  BY <1>1, TopFrame
<1> QED
  BY ONLY <1>1, <1>2, <1>3 DEF AppDepth, RequestDepth

LEMMA StackedMoved ==
  ASSUME ServerInv, NEW frame \in Frames, Moves(frame), ContextsInv',
         NEW app \in {-1, 0, 1}, AppBlock(frame.at) = AppBlock(Top.at) + app,
         Len(appStack') = Len(appStack) + app,
         NEW req \in {-1, 0, 1},
         OuterBlock(frame.at) + InnerBlock(frame.at)
           = OuterBlock(Top.at) + InnerBlock(Top.at) + req,
         Len(blocks') = Len(blocks) + app + req,
         \A i \in DOMAIN appStack' : appStack'[i] = ServerContext,
         \A r \in RequestContexts : \A i \in DOMAIN implicit'[r] :
           implicit'[r][i] = NoContext,
         life'[ServerContext] = "live" => refcnt'[ServerContext] # 0,
         openFailed' \/ NestingInv'
  PROVE  ServerStacked'
<1>1. /\ Len(appStack) = AppDepth /\ Len(blocks) = AppDepth + RequestDepth
  BY DEF ServerInv, ServerStacked
<1>2. \A at : AppBlock(at) \in Nat /\ OuterBlock(at) \in Nat /\ InnerBlock(at) \in Nat
  BY DEF AppBlock, OuterBlock, InnerBlock
<1>d. PICK n \in Nat, a \in Nat, a2 \in Nat, o \in Nat, o2 \in Nat, i \in Nat, i2 \in Nat :
        /\ n = Len(frames)
        /\ a = AppBlock(Top.at) /\ o = OuterBlock(Top.at) /\ i = InnerBlock(Top.at)
        /\ a2 = AppBlock(frame.at) /\ o2 = OuterBlock(frame.at) /\ i2 = InnerBlock(frame.at)
  BY <1>2, DepthsMoved
<1>e. a2 = a + app /\ o2 + i2 = o + i + req
  BY <1>d
<1>f. /\ AppDepth = n - 1 + a /\ AppDepth' = n - 1 + a2
      /\ RequestDepth = n - 1 + o + i /\ RequestDepth' = n - 1 + o2 + i2
  BY <1>d, DepthsMoved
<1>i. /\ app \in Int /\ req \in Int /\ n \in Int /\ a \in Int /\ a2 \in Int
      /\ o \in Int /\ o2 \in Int /\ i \in Int /\ i2 \in Int
  OBVIOUS
<1>3. AppDepth' = AppDepth + app
  BY ONLY <1>e, <1>f, <1>i
<1>4. RequestDepth' = RequestDepth + req
  <2>1. RequestDepth' = n - 1 + (o2 + i2) /\ RequestDepth = n - 1 + (o + i)
    BY ONLY <1>f, <1>i
  <2> QED
    BY ONLY <1>e, <1>i, <2>1
<1>5. AppDepth \in Int /\ RequestDepth \in Int
  BY <1>f
<1>6. Len(appStack') = AppDepth' /\ Len(blocks') = AppDepth' + RequestDepth'
  BY <1>1, <1>3, <1>4, <1>5
<1> QED
  BY <1>6 DEF ServerStacked

\* The state of the contexts does not change.
LEMMA ContextsKept ==
  ASSUME ServerInv, UNCHANGED vars
  PROVE  ContextsInv' /\ (NestingInv => NestingInv')
BY NotifyInv, NotifyNests DEF ServerInv

LEMMA QuietStacked ==
  ASSUME ServerInv, QuietStep
  PROVE  ContextsInv' /\ ServerStacked'
<1>1. PICK frame \in Frames : Moves(frame) /\ SameBlocks(frame.at, Top.at)
  BY QuietMoves
<1>2. UNCHANGED vars /\ openFailed' = openFailed
  BY QuietMoves
<1>3. /\ Len(appStack') = Len(appStack) + 0 /\ Len(blocks') = Len(blocks) + 0 + 0
      /\ Len(appStack) \in Nat /\ Len(blocks) \in Nat
  BY <1>2 DEF vars, ServerInv, ContextsInv, TypeOK
<1>4. /\ AppBlock(frame.at) = AppBlock(Top.at) + 0
      /\ OuterBlock(frame.at) + InnerBlock(frame.at)
           = OuterBlock(Top.at) + InnerBlock(Top.at) + 0
  <2>1. \A at : AppBlock(at) \in Nat /\ OuterBlock(at) \in Nat /\ InnerBlock(at) \in Nat
    BY DEF AppBlock, OuterBlock, InnerBlock
  <2> QED
    BY <1>1, <2>1 DEF SameBlocks
<1>5. ContextsInv' /\ (openFailed' \/ NestingInv')
  BY <1>2, ContextsKept DEF ServerInv, ServerStacked
<1>6. /\ \A i \in DOMAIN appStack' : appStack'[i] = ServerContext
      /\ \A r \in RequestContexts : \A i \in DOMAIN implicit'[r] :
           implicit'[r][i] = NoContext
      /\ life'[ServerContext] = "live" => refcnt'[ServerContext] # 0
  BY <1>2 DEF vars, ServerInv, ServerStacked
<1>7. 0 \in {-1, 0, 1}
  OBVIOUS
<1> QED
  BY <1>1, <1>3, <1>4, <1>5, <1>6, <1>7, StackedMoved

\* The statements the innermost call goes to when it enters or leaves a block.
LEMMA BlockMoves ==
  ASSUME ServerInv
  PROVE  /\ EnterAppContext => \E frame \in Frames :
              /\ Moves(frame) /\ Top.at = "app context" /\ frame.at = "outer"
              /\ ~frame.exc /\ frame.queue = Top.queue
         /\ EnterOuter => \E frame \in Frames :
              /\ Moves(frame) /\ Top.at = "outer" /\ frame.at = "inner"
              /\ ~frame.exc /\ frame.queue = Top.queue
         /\ EnterInner => \E frame \in Frames :
              /\ Moves(frame) /\ Top.at = "inner" /\ frame.at = "view"
              /\ ~frame.exc /\ frame.queue = Top.queue
         /\ EnterFails => \E frame \in Frames :
              /\ Moves(frame) /\ frame.exc /\ frame.queue = Top.queue
              /\ \/ Top.at = "outer" /\ frame.at = "leave app context"
                 \/ Top.at = "inner" /\ frame.at = "leave outer"
         /\ LeaveInner => \E frame \in Frames :
              /\ Moves(frame) /\ Top.at = "leave inner" /\ frame.queue = Top.queue
              /\ \/ frame.at = "leave outer" /\ frame.exc
                 \/ /\ frame.at = "send" /\ ~frame.exc /\ ~Top.exc
                    /\ TopOf(reqStack) = Inner(Active)
         /\ LeaveOuter => \E frame \in Frames :
              /\ Moves(frame) /\ Top.at = "leave outer" /\ frame.queue = Top.queue
              /\ frame.at = "leave app context" /\ (~frame.exc => ~Top.exc)
<1>1. frames # <<>> => Top \in Frames
  BY TopFrame DEF ServerInv, ServerTypeOK
<1>2. /\ {"outer", "inner", "view", "leave app context", "leave outer", "send"}
           \subseteq Points
      /\ {"leave app context", "leave outer"} \subseteq Leaving
      /\ {"app context", "outer", "inner"} \cap Leaving = {}
  BY DEF Points, Leaving
<1>3. frames # <<>> => Top.exc \in BOOLEAN /\ (Top.at \notin Leaving => ~Top.exc)
  BY <1>1, NotRaised DEF Frames
<1>g. ASSUME NEW point \in Points, frames # <<>>, Goto(point), ~Top.exc, UNCHANGED serving
      PROVE  \E frame \in Frames :
               Moves(frame) /\ frame.at = point /\ ~frame.exc /\ frame.queue = Top.queue
  BY <1>g, GotoMoves
<1>4. ASSUME EnterAppContext
      PROVE  \E frame \in Frames :
               /\ Moves(frame) /\ Top.at = "app context" /\ frame.at = "outer"
               /\ ~frame.exc /\ frame.queue = Top.queue
  <2>1. frames # <<>> /\ Top.at = "app context" /\ Goto("outer") /\ UNCHANGED serving
    BY <1>4 DEF EnterAppContext, At
  <2>2. "outer" \in Points /\ ~Top.exc
    BY <1>2, <1>3, <2>1
  <2> QED
    BY <1>g, <2>1, <2>2
<1>5. ASSUME EnterOuter
      PROVE  \E frame \in Frames :
               /\ Moves(frame) /\ Top.at = "outer" /\ frame.at = "inner"
               /\ ~frame.exc /\ frame.queue = Top.queue
  <2>1. frames # <<>> /\ Top.at = "outer" /\ Goto("inner") /\ UNCHANGED serving
    BY <1>5 DEF EnterOuter, At
  <2>2. "inner" \in Points /\ ~Top.exc
    BY <1>2, <1>3, <2>1
  <2> QED
    BY <1>g, <2>1, <2>2
<1>6. ASSUME EnterInner
      PROVE  \E frame \in Frames :
               /\ Moves(frame) /\ Top.at = "inner" /\ frame.at = "view"
               /\ ~frame.exc /\ frame.queue = Top.queue
  <2>1. frames # <<>> /\ Top.at = "inner" /\ Goto("view") /\ UNCHANGED serving
    BY <1>6 DEF EnterInner, At
  <2>2. "view" \in Points /\ ~Top.exc
    BY <1>2, <1>3, <2>1
  <2> QED
    BY <1>g, <2>1, <2>2
<1>7. ASSUME EnterFails
      PROVE  \E frame \in Frames :
               /\ Moves(frame) /\ frame.exc /\ frame.queue = Top.queue
               /\ \/ Top.at = "outer" /\ frame.at = "leave app context"
                  \/ Top.at = "inner" /\ frame.at = "leave outer"
  BY <1>2, <1>3, <1>7, RaiseMoves DEF EnterFails, At
<1>8. ASSUME LeaveInner
      PROVE  \E frame \in Frames :
               /\ Moves(frame) /\ Top.at = "leave inner" /\ frame.queue = Top.queue
               /\ \/ frame.at = "leave outer" /\ frame.exc
                  \/ /\ frame.at = "send" /\ ~frame.exc /\ ~Top.exc
                     /\ TopOf(reqStack) = Inner(Active)
  <2>1. CASE Top.exc \/ TopOf(reqStack) # Inner(Active)
    BY <1>2, <1>8, <2>1, RaiseMoves DEF LeaveInner, At
  <2>2. CASE ~(Top.exc \/ TopOf(reqStack) # Inner(Active))
    BY <1>2, <1>8, <2>2, GotoMoves DEF LeaveInner, At
  <2> QED
    BY <2>1, <2>2
<1>9. ASSUME LeaveOuter
      PROVE  \E frame \in Frames :
               /\ Moves(frame) /\ Top.at = "leave outer" /\ frame.queue = Top.queue
               /\ frame.at = "leave app context" /\ (~frame.exc => ~Top.exc)
  <2>1. CASE TopOf(reqStack) # Outer(Active)
    BY <1>2, <1>9, <2>1, RaiseMoves DEF LeaveOuter, At
  <2>2. CASE ~(TopOf(reqStack) # Outer(Active))
    BY <1>2, <1>9, <2>2, GotoMoves DEF LeaveOuter, At
  <2> QED
    BY <2>1, <2>2
<1> QED
  BY <1>4, <1>5, <1>6, <1>7, <1>8, <1>9

\* A request is neither the server's context nor any other of an application.
LEMMA RequestsApart ==
  /\ ServerContext \in Contexts /\ ServerContext # NoContext
  /\ \A r \in RequestContexts : r # ServerContext /\ r \in Contexts
  /\ \A s \in Stanzas : Outer(s) \in RequestContexts /\ Inner(s) \in RequestContexts
BY DisjointContexts DEF AllAppContexts, Contexts, Outer, Inner

\* The blocks that the steps between statements enter and leave, as changes of
\* the two depths.
LEMMA BlocksAt ==
  /\ AppBlock("app context") = 0 /\ AppBlock("outer") = 1 /\ AppBlock("inner") = 1
  /\ AppBlock("view") = 1 /\ AppBlock("leave inner") = 1 /\ AppBlock("send") = 1
  /\ AppBlock("leave outer") = 1 /\ AppBlock("leave app context") = 1
  /\ AppBlock("wait") = 1
  /\ OuterBlock("app context") = 0 /\ OuterBlock("outer") = 0 /\ OuterBlock("inner") = 1
  /\ OuterBlock("view") = 1 /\ OuterBlock("leave inner") = 1 /\ OuterBlock("send") = 1
  /\ OuterBlock("leave outer") = 1 /\ OuterBlock("leave app context") = 0
  /\ OuterBlock("wait") = 1
  /\ InnerBlock("app context") = 0 /\ InnerBlock("outer") = 0 /\ InnerBlock("inner") = 0
  /\ InnerBlock("view") = 1 /\ InnerBlock("leave inner") = 1 /\ InnerBlock("send") = 0
  /\ InnerBlock("leave outer") = 0 /\ InnerBlock("leave app context") = 0
  /\ InnerBlock("wait") = 0
BY DEF AppBlock, OuterBlock, InnerBlock

LEMMA AppEnteredStacked ==
  ASSUME ServerInv, EnterAppContext
  PROVE  ContextsInv' /\ ServerStacked'
<1>1. PICK frame \in Frames :
        Moves(frame) /\ Top.at = "app context" /\ frame.at = "outer"
  BY BlockMoves
<1>2. /\ EnterApp(ServerContext) /\ openFailed' = openFailed
      /\ ContextsInv /\ TypeOK /\ RefcntCountsBlocks /\ ServerStacked
      /\ ServerContext \in AppContexts /\ ServerContext \in AllAppContexts
  BY ServerIsContext
  DEF EnterAppContext, history, ServerInv, ContextsInv
<1>3. ContextsInv' /\ (openFailed' \/ NestingInv')
  BY <1>2, EnterAppInv, EnterAppNests DEF ServerStacked
<1>4. /\ appStack' = Append(appStack, ServerContext)
      /\ blocks' = Append(blocks, ServerContext)
      /\ refcnt' = [refcnt EXCEPT ![ServerContext] = @ + 1]
      /\ UNCHANGED implicit
      /\ appStack \in Seq(AllAppContexts) /\ blocks \in Seq(Contexts)
  BY <1>2 DEF EnterApp, TypeOK
<1>5. /\ Len(appStack') = Len(appStack) + 1 /\ Len(blocks') = Len(blocks) + 1 + 0
      /\ \A i \in DOMAIN appStack' : appStack'[i] = ServerContext
  <2>1. \A i \in DOMAIN appStack : appStack[i] = ServerContext
    BY <1>2 DEF ServerStacked
  <2> QED
    BY ONLY <1>2, <1>4, <2>1, RequestsApart
<1>6. refcnt'[ServerContext] # 0
  <2>1. /\ refcnt[ServerContext] = Occurrences(ServerContext, blocks)
        /\ refcnt \in [AllAppContexts -> Int]
    BY <1>2 DEF RefcntCountsBlocks, TypeOK
  <2>2. Occurrences(ServerContext, blocks) \in Nat
    BY ONLY <1>4, OccurrencesNat
  <2> QED
    BY ONLY <1>2, <1>4, <2>1, <2>2
<1>7. \A r \in RequestContexts : \A i \in DOMAIN implicit'[r] : implicit'[r][i] = NoContext
  BY <1>2, <1>4 DEF ServerStacked
<1>8. /\ AppBlock(frame.at) = AppBlock(Top.at) + 1
      /\ OuterBlock(frame.at) + InnerBlock(frame.at)
           = OuterBlock(Top.at) + InnerBlock(Top.at) + 0
      /\ 1 \in {-1, 0, 1} /\ 0 \in {-1, 0, 1}
  <2>1. /\ AppBlock(frame.at) = 1 /\ OuterBlock(frame.at) = 0 /\ InnerBlock(frame.at) = 0
        /\ AppBlock(Top.at) = 0 /\ OuterBlock(Top.at) = 0 /\ InnerBlock(Top.at) = 0
    BY <1>1, BlocksAt, Zenon
  <2> QED
    BY ONLY <2>1
<1> QED
  BY <1>1, <1>3, <1>5, <1>6, <1>7, <1>8, StackedMoved

\* The level of a request that is entered has no application context of its own.
LEMMA LevelWithout ==
  ASSUME TypeOK, ServerStacked, NEW r \in RequestContexts,
         implicit' = [implicit EXCEPT ![r] = Append(@, NoContext)]
  PROVE  \A q \in RequestContexts : \A i \in DOMAIN implicit'[q] :
           implicit'[q][i] = NoContext
<1>1. ASSUME NEW q \in RequestContexts, NEW i \in DOMAIN implicit'[q]
      PROVE  implicit'[q][i] = NoContext
  <2>1. /\ implicit[q] \in Seq(ImplicitContexts \cup {NoContext})
        /\ \A k \in DOMAIN implicit[q] : implicit[q][k] = NoContext
    BY DEF TypeOK, ServerStacked
  <2>2. implicit'[q] = implicit[q] \/ implicit'[q] = Append(implicit[q], NoContext)
    BY DEF TypeOK
  <2> QED
    BY ONLY <1>1, <2>1, <2>2
<1> QED
  BY <1>1

LEMMA RequestEnteredStacked ==
  ASSUME ServerInv, EnterOuter \/ EnterInner
  PROVE  ContextsInv' /\ ServerStacked'
<1>1. PICK frame \in Frames, r \in RequestContexts :
        /\ Moves(frame) /\ EnterRequest(r) /\ Top.at # "app context" /\ frames # <<>>
        /\ AppBlock(frame.at) = AppBlock(Top.at) + 0
        /\ OuterBlock(frame.at) + InnerBlock(frame.at)
             = OuterBlock(Top.at) + InnerBlock(Top.at) + 1
  <2>1. frames # <<>> /\ Outer(Active) \in RequestContexts /\ Inner(Active) \in RequestContexts
    BY TopFrame, RequestsApart
    DEF EnterOuter, EnterInner, At, ServerInv, ServerTypeOK
  <2>2. CASE EnterOuter
    <3>1. PICK frame \in Frames : Moves(frame) /\ Top.at = "outer" /\ frame.at = "inner"
      BY <2>2, BlockMoves
    <3>2. /\ AppBlock(frame.at) = 1 /\ OuterBlock(frame.at) = 1 /\ InnerBlock(frame.at) = 0
          /\ AppBlock(Top.at) = 1 /\ OuterBlock(Top.at) = 0 /\ InnerBlock(Top.at) = 0
      BY <3>1, BlocksAt, Zenon
    <3> QED
      BY <2>1, <2>2, <3>1, <3>2 DEF EnterOuter
  <2>3. CASE EnterInner
    <3>1. PICK frame \in Frames : Moves(frame) /\ Top.at = "inner" /\ frame.at = "view"
      BY <2>3, BlockMoves
    <3>2. /\ AppBlock(frame.at) = 1 /\ OuterBlock(frame.at) = 1 /\ InnerBlock(frame.at) = 1
          /\ AppBlock(Top.at) = 1 /\ OuterBlock(Top.at) = 1 /\ InnerBlock(Top.at) = 0
      BY <3>1, BlocksAt, Zenon
    <3> QED
      BY <2>1, <2>3, <3>1, <3>2 DEF EnterInner
  <2> QED
    BY <2>2, <2>3
<1>2. /\ UNCHANGED <<appStack, refcnt>>
      /\ implicit' = [implicit EXCEPT ![r] = Append(@, NoContext)]
      /\ life' = SetLife({r, NoContext}, "live")
      /\ blocks' = Append(blocks, r)
  BY <1>1, RequestEntered
<1>3. /\ ContextsInv /\ TypeOK /\ ServerStacked
      /\ openFailed' = openFailed
  BY DEF EnterOuter, EnterInner, history, ServerInv, ContextsInv
<1>4. ContextsInv' /\ (openFailed' \/ NestingInv')
  BY <1>1, <1>3, EnterRequestInv, EnterRequestNests DEF ServerStacked
<1>5. /\ Len(appStack') = Len(appStack) + 0 /\ Len(blocks') = Len(blocks) + 0 + 1
      /\ \A i \in DOMAIN appStack' : appStack'[i] = ServerContext
  <2>1. /\ appStack \in Seq(AllAppContexts) /\ blocks \in Seq(Contexts) /\ r \in Contexts
        /\ \A i \in DOMAIN appStack : appStack[i] = ServerContext
    BY <1>3, RequestsApart DEF ServerStacked, TypeOK
  <2> QED
    BY ONLY <1>2, <2>1
<1>6. life'[ServerContext] = "live" => refcnt'[ServerContext] # 0
  BY <1>2, <1>3, RequestsApart DEF SetLife, ServerStacked
<1>7. \A q \in RequestContexts : \A i \in DOMAIN implicit'[q] : implicit'[q][i] = NoContext
  BY <1>2, <1>3, LevelWithout
<1>8. 1 \in {-1, 0, 1} /\ 0 \in {-1, 0, 1}
  OBVIOUS
<1> QED
  BY <1>1, <1>4, <1>5, <1>6, <1>7, <1>8, StackedMoved

LEMMA RequestNotEnteredStacked ==
  ASSUME ServerInv, EnterFails
  PROVE  ContextsInv' /\ ServerStacked'
<1>1. PICK frame \in Frames, r \in RequestContexts :
        /\ Moves(frame) /\ EnterRequestFails(r) /\ Top.at # "app context" /\ frames # <<>>
        /\ AppBlock(frame.at) = AppBlock(Top.at) + 0
        /\ OuterBlock(frame.at) + InnerBlock(frame.at)
             = OuterBlock(Top.at) + InnerBlock(Top.at) + 0
  <2>1. frames # <<>> /\ Outer(Active) \in RequestContexts /\ Inner(Active) \in RequestContexts
    BY TopFrame, RequestsApart DEF EnterFails, At, ServerInv, ServerTypeOK
  <2>2. PICK r \in RequestContexts : EnterRequestFails(r)
    BY <2>1 DEF EnterFails
  <2>3. PICK frame \in Frames :
          /\ Moves(frame)
          /\ \/ Top.at = "outer" /\ frame.at = "leave app context"
             \/ Top.at = "inner" /\ frame.at = "leave outer"
    BY BlockMoves
  <2>4. \/ /\ AppBlock(frame.at) = 1 /\ OuterBlock(frame.at) = 0 /\ InnerBlock(frame.at) = 0
           /\ AppBlock(Top.at) = 1 /\ OuterBlock(Top.at) = 0 /\ InnerBlock(Top.at) = 0
        \/ /\ AppBlock(frame.at) = 1 /\ OuterBlock(frame.at) = 1 /\ InnerBlock(frame.at) = 0
           /\ AppBlock(Top.at) = 1 /\ OuterBlock(Top.at) = 1 /\ InnerBlock(Top.at) = 0
    BY <2>3, BlocksAt, Zenon
  <2>5. /\ AppBlock(frame.at) = AppBlock(Top.at) + 0
        /\ OuterBlock(frame.at) + InnerBlock(frame.at)
             = OuterBlock(Top.at) + InnerBlock(Top.at) + 0
    BY ONLY <2>4
  <2> QED
    BY <2>1, <2>2, <2>3, <2>5
<1>2. /\ UNCHANGED <<appStack, refcnt, blocks>>
      /\ implicit' = [implicit EXCEPT ![r] = Append(@, NoContext)]
      /\ life' = SetLife({r, NoContext}, "live")
  BY <1>1, RequestNotEntered
<1>3. /\ ContextsInv /\ TypeOK /\ ServerStacked
      /\ openFailed' = TRUE
  BY DEF EnterFails, ServerInv, ContextsInv
<1>4. ContextsInv' /\ (openFailed' \/ NestingInv')
  BY <1>1, <1>3, EnterRequestFailsInv
<1>5. /\ Len(appStack') = Len(appStack) + 0 /\ Len(blocks') = Len(blocks) + 0 + 0
      /\ \A i \in DOMAIN appStack' : appStack'[i] = ServerContext
  BY <1>2, <1>3 DEF ServerStacked, TypeOK
<1>6. life'[ServerContext] = "live" => refcnt'[ServerContext] # 0
  BY <1>2, <1>3, RequestsApart DEF SetLife, ServerStacked
<1>7. \A q \in RequestContexts : \A i \in DOMAIN implicit'[q] : implicit'[q][i] = NoContext
  BY <1>2, <1>3, LevelWithout
<1>8. 0 \in {-1, 0, 1}
  OBVIOUS
<1> QED
  BY <1>1, <1>4, <1>5, <1>6, <1>7, <1>8, StackedMoved

LEMMA RequestLeftStacked ==
  ASSUME ServerInv, LeaveInner \/ LeaveOuter
  PROVE  ContextsInv' /\ ServerStacked'
<1>1. PICK frame \in Frames, r \in RequestContexts :
        /\ Moves(frame) /\ ExitRequest(r, FALSE) /\ frames # <<>>
        /\ AppBlock(frame.at) = AppBlock(Top.at) + 0
        /\ OuterBlock(frame.at) + InnerBlock(frame.at)
             = OuterBlock(Top.at) + InnerBlock(Top.at) + (-1)
  <2>1. frames # <<>> /\ Outer(Active) \in RequestContexts /\ Inner(Active) \in RequestContexts
    BY TopFrame, RequestsApart
    DEF LeaveOuter, LeaveInner, At, ServerInv, ServerTypeOK
  <2>2. CASE LeaveInner
    <3>1. PICK frame \in Frames :
            /\ Moves(frame) /\ Top.at = "leave inner"
            /\ frame.at \in {"leave outer", "send"}
      BY <2>2, BlockMoves
    <3>2. /\ AppBlock(frame.at) = 1 /\ OuterBlock(frame.at) = 1 /\ InnerBlock(frame.at) = 0
          /\ AppBlock(Top.at) = 1 /\ OuterBlock(Top.at) = 1 /\ InnerBlock(Top.at) = 1
      BY <3>1, BlocksAt, Zenon
    <3>3. /\ AppBlock(frame.at) = AppBlock(Top.at) + 0
          /\ OuterBlock(frame.at) + InnerBlock(frame.at)
               = OuterBlock(Top.at) + InnerBlock(Top.at) + (-1)
      BY ONLY <3>2
    <3>4. ExitRequest(Inner(Active), FALSE)
      BY <2>2 DEF LeaveInner
    <3> QED
      BY <2>1, <3>1, <3>3, <3>4
  <2>3. CASE LeaveOuter
    <3>1. PICK frame \in Frames :
            /\ Moves(frame) /\ Top.at = "leave outer"
            /\ frame.at = "leave app context"
      BY <2>3, BlockMoves
    <3>2. /\ AppBlock(frame.at) = 1 /\ OuterBlock(frame.at) = 0 /\ InnerBlock(frame.at) = 0
          /\ AppBlock(Top.at) = 1 /\ OuterBlock(Top.at) = 1 /\ InnerBlock(Top.at) = 0
      BY <3>1, BlocksAt, Zenon
    <3>3. /\ AppBlock(frame.at) = AppBlock(Top.at) + 0
          /\ OuterBlock(frame.at) + InnerBlock(frame.at)
               = OuterBlock(Top.at) + InnerBlock(Top.at) + (-1)
      BY ONLY <3>2
    <3>4. ExitRequest(Outer(Active), FALSE)
      BY <2>3 DEF LeaveOuter
    <3> QED
      BY <2>1, <3>1, <3>3, <3>4
  <2> QED
    BY <2>2, <2>3
<1>2. /\ UNCHANGED <<appStack, refcnt>>
      /\ implicit[r] # <<>> /\ implicit' = [implicit EXCEPT ![r] = Front(@)]
      /\ life' = SetLife(TornWithRequest(r), "torn")
      /\ blocks # <<>> /\ blocks' = Front(blocks)
  BY <1>1, RequestLeft
<1>3. /\ ContextsInv /\ TypeOK /\ ServerStacked
      /\ openFailed' = openFailed
  BY DEF LeaveInner, LeaveOuter, history, ServerInv, ContextsInv
<1>4. ContextsInv' /\ (openFailed' \/ NestingInv')
  BY <1>1, <1>3, ExitRequestInv, ExitRequestNests DEF ServerStacked
<1>5. /\ Len(appStack') = Len(appStack) + 0 /\ Len(blocks') = Len(blocks) + 0 + (-1)
      /\ \A i \in DOMAIN appStack' : appStack'[i] = ServerContext
  <2>1. /\ appStack \in Seq(AllAppContexts) /\ blocks \in Seq(Contexts)
        /\ \A i \in DOMAIN appStack : appStack[i] = ServerContext
    BY <1>3 DEF ServerStacked, TypeOK
  <2>2. Len(Front(blocks)) = Len(blocks) - 1 /\ Len(blocks) \in Nat /\ Len(appStack) \in Nat
    BY ONLY <1>2, <2>1, FrontProperties
  <2> QED
    BY ONLY <1>2, <2>1, <2>2
<1>6. life'[ServerContext] = "live" => refcnt'[ServerContext] # 0
  BY <1>2, <1>3, RequestsApart DEF SetLife, ServerStacked
<1>7. \A q \in RequestContexts : \A i \in DOMAIN implicit'[q] : implicit'[q][i] = NoContext
  <2>1. ASSUME NEW q \in RequestContexts, NEW i \in DOMAIN implicit'[q]
        PROVE  implicit'[q][i] = NoContext
    <3>1. /\ implicit[q] \in Seq(ImplicitContexts \cup {NoContext})
          /\ \A k \in DOMAIN implicit[q] : implicit[q][k] = NoContext
      BY <1>3 DEF TypeOK, ServerStacked
    <3>2. \/ implicit'[q] = implicit[q]
          \/ implicit[q] # <<>> /\ implicit'[q] = Front(implicit[q])
      BY <1>2, <1>3 DEF TypeOK
    <3> QED
      BY ONLY <2>1, <3>1, <3>2, FrontProperties
  <2> QED
    BY <2>1
<1>8. 0 \in {-1, 0, 1} /\ (-1) \in {-1, 0, 1}
  OBVIOUS
<1> QED
  BY <1>1, <1>4, <1>5, <1>6, <1>7, <1>8, StackedMoved

-----------------------------------------------------------------------------
(* A call of handle() begins, and one ends.                                *)

LEMMA ReceiveKeeps ==
  ASSUME ServerInv, NEW s \in Stanzas, Receive(s)
  PROVE  /\ frames' \in Seq(Frames) /\ status' \in [Stanzas -> Statuses]
         /\ frames' # <<>> /\ Len(frames') = Len(frames) + 1 /\ Len(frames) \in Nat
         /\ \E new \in Frames :
              /\ Top' = new /\ frames'[Len(frames) + 1] = new
              /\ new.stanza = s /\ new.at = "app context" /\ ~new.exc /\ new.queue = <<>>
         /\ DOMAIN frames = 1 .. Len(frames) /\ DOMAIN frames' = 1 .. Len(frames) + 1
         /\ \A f \in 1 .. Len(frames) : frames'[f] = frames[f]
         /\ \A f \in 1 .. Len(frames) : frames[f].at = "wait" /\ ~frames[f].exc
         /\ CallsWait' /\ ContextsInv' /\ ServerStacked'
<1>1. PICK new : new = [stanza |-> s, at |-> "app context", lazy |-> FALSE, items |-> <<>>,
                        queue |-> <<>>, exc |-> FALSE]
  OBVIOUS
<1>2. /\ frames \in Seq(Frames) /\ status \in [Stanzas -> Statuses]
      /\ CallsWait /\ ContextsInv /\ ServerStacked
  BY DEF ServerInv, ServerTypeOK
<1>3. /\ frames = <<>> \/ (frames # <<>> /\ Top.at = "wait")
      /\ status[s] = "pending" /\ status' = [status EXCEPT ![s] = "handling"]
      /\ frames' = Append(frames, new) /\ UNCHANGED vars /\ openFailed' = openFailed
  BY <1>1 DEF Receive, Delivers, At, history
<1>4. new \in Frames
  <2>1. <<>> \in Seq(Items) /\ <<>> \in Seq(Notes) /\ "app context" \in Points
    BY DEF Points
  <2> QED
    BY ONLY <1>1, <2>1, s \in Stanzas DEF Frames
<1>5. /\ frames' \in Seq(Frames) /\ frames' # <<>> /\ Len(frames') = Len(frames) + 1
      /\ Len(frames) \in Nat /\ Last(frames') = new
      /\ DOMAIN frames = 1 .. Len(frames) /\ DOMAIN frames' = 1 .. Len(frames) + 1
      /\ \A f \in 1 .. Len(frames) : frames'[f] = frames[f]
  BY ONLY <1>2, <1>3, <1>4, AppendOne
<1>6. Top' = new /\ frames'[Len(frames) + 1] = new
  BY ONLY <1>5 DEF Top, Last
<1>7. \A f \in 1 .. Len(frames) : frames[f].at = "wait" /\ ~frames[f].exc
  <2>1. CASE frames = <<>>
    BY <2>1, <1>5
  <2>2. CASE frames # <<>> /\ Top.at = "wait"
    <3>1. Top = frames[Len(frames)]
      BY <1>2, <2>2, TopFrame
    <3>2. ~Top.exc
      BY <2>2, NotRaised DEF Leaving
    <3> QED
      BY <1>2, <1>5, <2>2, <3>1, <3>2 DEF CallsWait
  <2> QED
    BY <1>3, <2>1, <2>2
<1>8. CallsWait'
  <2>1. status' \in [Stanzas -> Statuses]
    BY <1>2, <1>3 DEF Statuses
  <2>2. \A f \in 1 .. Len(frames) :
          /\ frames[f].stanza \in Stanzas
          /\ frames[f].stanza # s /\ status'[frames[f].stanza] = "handling"
    <3>1. \A f \in 1 .. Len(frames) : status[frames[f].stanza] = "handling"
      BY <1>2, <1>5 DEF CallsWait
    <3>2. \A f \in 1 .. Len(frames) : frames[f].stanza \in Stanzas
      <4>1. \A f \in 1 .. Len(frames) : frames[f] \in Frames
        BY ONLY <1>2, <1>5
      <4> QED
        BY ONLY <4>1 DEF Frames
    <3> QED
      BY <1>2, <1>3, <3>1, <3>2
  <2>3. new.stanza = s /\ ~new.exc /\ status'[s] = "handling"
    BY <1>1, <1>2, <1>3
  <2>4. \A f \in DOMAIN frames' : f \in 1 .. Len(frames) \/ f = Len(frames) + 1
    BY ONLY <1>5
  <2>5. \A f \in 1 .. Len(frames') - 1 : f \in 1 .. Len(frames)
    BY ONLY <1>5
  <2>6. \A f \in DOMAIN frames' : status'[frames'[f].stanza] = "handling"
    BY ONLY <1>5, <1>6, <2>2, <2>3, <2>4
  <2>7. ASSUME NEW f \in DOMAIN frames', NEW g \in DOMAIN frames',
               frames'[f].stanza = frames'[g].stanza
        PROVE  f = g
    <3>1. CASE f \in 1 .. Len(frames) /\ g \in 1 .. Len(frames)
      BY <1>2, <1>5, <2>7, <3>1 DEF CallsWait
    <3>2. CASE f = Len(frames) + 1 \/ g = Len(frames) + 1
      BY ONLY <1>5, <1>6, <2>2, <2>3, <2>4, <2>7, <3>2
    <3> QED
      BY <2>4, <3>1, <3>2
  <2> QED
    BY <1>5, <1>6, <1>7, <2>3, <2>5, <2>6, <2>7 DEF CallsWait
<1>9. ServerStacked'
  <2>1. AppDepth = Len(frames) /\ RequestDepth = Len(frames)
    <3>1. CASE frames = <<>>
      BY <3>1 DEF AppDepth, RequestDepth
    <3>2. CASE frames # <<>> /\ Top.at = "wait"
      <4>1. /\ AppBlock(Top.at) = 1 /\ OuterBlock(Top.at) = 1 /\ InnerBlock(Top.at) = 0
        BY <3>2, BlocksAt, Zenon
      <4>2. AppDepth = Len(frames) - 1 + 1 /\ RequestDepth = Len(frames) - 1 + 1 + 0
        BY <3>2, <4>1 DEF AppDepth, RequestDepth
      <4> QED
        BY ONLY <4>2, <1>5
    <3> QED
      BY <1>3, <3>1, <3>2
  <2>2. AppDepth' = Len(frames) /\ RequestDepth' = Len(frames)
    <3>0. new.at = "app context"
      BY ONLY <1>1
    <3>1. /\ AppBlock(new.at) = 0 /\ OuterBlock(new.at) = 0 /\ InnerBlock(new.at) = 0
      BY ONLY <3>0, BlocksAt, Zenon
    <3>2. /\ AppDepth' = Len(frames') - 1 + AppBlock(new.at)
          /\ RequestDepth' = Len(frames') - 1 + OuterBlock(new.at) + InnerBlock(new.at)
      BY <1>5, <1>6 DEF AppDepth, RequestDepth
    <3>3. AppDepth' = Len(frames') - 1 + 0 /\ RequestDepth' = Len(frames') - 1 + 0 + 0
      BY ONLY <3>1, <3>2
    <3> QED
      BY ONLY <1>5, <3>3
  <2>3. UNCHANGED <<appStack, blocks, implicit, life, refcnt>>
    BY <1>3 DEF vars
  <2>4. openFailed' \/ NestingInv'
    BY <1>2, <1>3, ContextsKept DEF ServerStacked
  <2> QED
    BY <1>2, <2>1, <2>2, <2>3, <2>4 DEF ServerStacked
<1>10. ContextsInv'
  BY <1>3, ContextsKept
<1>11. status' \in [Stanzas -> Statuses]
  BY <1>1, <1>2, <1>3 DEF Statuses
<1>12. new.stanza = s /\ new.at = "app context" /\ ~new.exc /\ new.queue = <<>>
  BY ONLY <1>1
<1> QED
  BY ONLY <1>4, <1>5, <1>6, <1>7, <1>8, <1>9, <1>10, <1>11, <1>12

LEMMA LeaveKeeps ==
  ASSUME ServerInv, LeaveAppContext, NEW n \in Nat, Len(frames) = n + 1
  PROVE  /\ frames # <<>> /\ Top.at = "leave app context" 
         /\ DOMAIN frames = 1 .. n + 1 /\ Top = frames[n + 1] /\ Top \in Frames
         /\ frames' \in Seq(Frames) /\ Len(frames') = n /\ DOMAIN frames' = 1 .. n
         /\ \A f \in 1 .. n :
              /\ frames[f].stanza # Active /\ frames[f].stanza \in Stanzas
              /\ frames[f].at = "wait" /\ ~frames[f].exc
              /\ frames'[f].stanza = frames[f].stanza
              /\ frames'[f].queue = frames[f].queue
              /\ \/ frames'[f] = frames[f] /\ ~(Top.exc /\ f = n)
                 \/ /\ frames'[f].at = "leave outer" /\ frames'[f].exc = TRUE
                    /\ Top.exc /\ f = n
         /\ Active \in Stanzas /\ Top.exc \in BOOLEAN
         /\ status' \in [Stanzas -> Statuses]
         /\ status' = [status EXCEPT ![Active] = IF Top.exc THEN "failed" ELSE "done"]
         /\ CallsWait' /\ ContextsInv' /\ ServerStacked'
<1>1. /\ frames \in Seq(Frames) /\ status \in [Stanzas -> Statuses]
      /\ CallsWait /\ ContextsInv /\ TypeOK /\ RefcntCountsBlocks /\ ServerStacked
      /\ ServerContext \in AppContexts /\ ServerContext \in AllAppContexts
  BY ServerIsContext DEF ServerInv, ServerTypeOK, ContextsInv
<1>2. /\ frames # <<>> /\ Top.at = "leave app context"
      /\ ExitApp(ServerContext, FALSE) /\ openFailed' = openFailed
      /\ status' = [status EXCEPT ![Active] = IF Top.exc THEN "failed" ELSE "done"]
  BY DEF LeaveAppContext, At, history
<1>n. /\ n \in Nat /\ Len(frames) = n + 1 /\ Len(frames) - 1 = n
      /\ \A f \in 1 .. n : f \in 1 .. n + 1 /\ f # n + 1
      /\ \A f \in 1 .. n - 1 : f \in 1 .. n /\ f # n
  OBVIOUS
<1>3. /\ DOMAIN frames = 1 .. n + 1 /\ n + 1 \in DOMAIN frames
      /\ Top = frames[n + 1] /\ Top \in Frames /\ Active \in Stanzas
  <2>1. /\ DOMAIN frames = 1 .. Len(frames) /\ Len(frames) \in DOMAIN frames
        /\ Top = frames[Len(frames)] /\ Top \in Frames /\ Active \in Stanzas
    BY ONLY <1>1, <1>2, TopFrame
  <2> QED
    BY ONLY <2>1, <1>n
<1>4. /\ frames' \in Seq(Frames) /\ Len(frames') = n
      /\ DOMAIN frames' = 1 .. n
      /\ \A f \in 1 .. n :
           frames'[f] = IF Top.exc /\ f = n
                        THEN [frames[f] EXCEPT !.at = "leave outer", !.exc = TRUE]
                        ELSE frames[f]
  <2>1. /\ frames' \in Seq(Frames) /\ Len(frames') = Len(frames) - 1
        /\ DOMAIN frames' = 1 .. Len(frames) - 1
        /\ \A f \in 1 .. Len(frames) - 1 :
             frames'[f] = IF Top.exc /\ f = Len(frames) - 1
                          THEN [frames[f] EXCEPT !.at = "leave outer", !.exc = TRUE]
                          ELSE frames[f]
    BY <1>1, <1>2, TopRemoved
  <2> QED
    BY ONLY <2>1, <1>n
<1>5. Top.exc \in BOOLEAN
  BY ONLY <1>3 DEF Frames
<1>6. status' \in [Stanzas -> Statuses]
  BY <1>1, <1>2, <1>3 DEF Statuses
<1>7. ASSUME NEW f \in 1 .. n
      PROVE  /\ frames[f].stanza # Active /\ frames[f].stanza \in Stanzas
             /\ frames[f].at = "wait" /\ ~frames[f].exc
             /\ frames'[f].stanza = frames[f].stanza
             /\ frames'[f].queue = frames[f].queue
             /\ \/ frames'[f] = frames[f] /\ ~(Top.exc /\ f = n)
                \/ /\ frames'[f].at = "leave outer" /\ frames'[f].exc = TRUE
                   /\ Top.exc /\ f = n
  <2>1. f \in DOMAIN frames /\ f # n + 1 /\ frames[f] \in Frames
    BY <1>1, <1>3, <1>n
  <2>2. frames[f].stanza # Active
    BY <1>1, <1>3, <2>1 DEF CallsWait, Active
  <2>3. frames[f].at = "wait" /\ ~frames[f].exc
    BY <1>1, <1>n DEF CallsWait
  <2>4. frames[f].stanza \in Stanzas
    BY ONLY <2>1 DEF Frames
  <2>5. "leave outer" \in Points /\ TRUE \in BOOLEAN
    BY DEF Points
  <2>6. CASE Top.exc /\ f = n
    <3>1. frames'[f] = [frames[f] EXCEPT !.at = "leave outer", !.exc = TRUE]
      BY <1>4, <2>6
    <3>2. /\ frames'[f].at = "leave outer" /\ frames'[f].exc = TRUE
          /\ frames'[f].stanza = frames[f].stanza /\ frames'[f].queue = frames[f].queue
      BY ONLY <2>1, <3>1 DEF Frames
    <3> QED
      BY ONLY <2>2, <2>3, <2>4, <2>6, <3>2
  <2>7. CASE ~(Top.exc /\ f = n)
    <3>1. frames'[f] = frames[f]
      BY <1>4, <2>7
    <3> QED
      BY <2>2, <2>3, <2>4, <2>7, <3>1
  <2> QED
    BY <2>6, <2>7
<1>8. CallsWait'
  <2>1. \A f \in 1 .. Len(frames') - 1 : f \in 1 .. n /\ f # n
    BY ONLY <1>n, <1>4
  <2>2. \A f \in 1 .. Len(frames') - 1 : frames'[f].at = "wait" /\ ~frames'[f].exc
    BY <1>7, <2>1
  <2>3. ASSUME frames' # <<>>, (Top')["exc"]
        PROVE  (Top')["at"] \in {"leave inner", "leave outer", "leave app context"}
    <3>1. n \in 1 .. n
      <4>1. Len(frames') # 0
        BY ONLY <1>4, <2>3, EmptySeq
      <4>2. n # 0 /\ n \in Nat
        BY ONLY <4>1, <1>4, <1>n
      <4> QED
        BY ONLY <4>2
    <3>2. Top' = frames'[n]
      BY ONLY <1>4 DEF Top, Last
    <3> QED
      BY <1>7, <2>3, <3>1, <3>2
  <2>4. \A f \in DOMAIN frames' : status'[frames'[f].stanza] = "handling"
    <3>1. \A f \in 1 .. n : f \in DOMAIN frames
      BY ONLY <1>n, <1>3
    <3>2. \A f \in 1 .. n : status[frames[f].stanza] = "handling"
      BY <1>1, <3>1 DEF CallsWait
    <3>3. ASSUME NEW f \in 1 .. n
          PROVE  status'[frames'[f].stanza] = "handling"
      <4>1. /\ frames[f].stanza # Active /\ frames[f].stanza \in Stanzas
            /\ frames'[f].stanza = frames[f].stanza
        BY <1>7
      <4> QED
        BY ONLY <1>1, <1>2, <3>2, <3>3, <4>1
    <3> QED
      BY <1>4, <3>3
  <2>5. \A f, g \in DOMAIN frames' : frames'[f].stanza = frames'[g].stanza => f = g
    <3>1. \A f \in 1 .. n : f \in DOMAIN frames
      BY ONLY <1>n, <1>3
    <3>2. \A f, g \in DOMAIN frames : frames[f].stanza = frames[g].stanza => f = g
      BY <1>1 DEF CallsWait
    <3>3. \A f \in 1 .. n : frames'[f].stanza = frames[f].stanza
      BY <1>7
    <3> QED
      BY ONLY <1>4, <3>1, <3>2, <3>3
  <2> QED
    BY <2>2, <2>3, <2>4, <2>5 DEF CallsWait
<1>9. ContextsInv' /\ (openFailed' \/ NestingInv')
  BY <1>1, <1>2, ExitAppInv, ExitAppNests DEF ServerStacked
<1>10. ServerStacked'
  <2>1. AppDepth = n + 1 /\ RequestDepth = n
    <3>1. AppBlock(Top.at) = 1 /\ OuterBlock(Top.at) = 0 /\ InnerBlock(Top.at) = 0
      BY <1>2, BlocksAt, Zenon
    <3>2. AppDepth = Len(frames) - 1 + 1 /\ RequestDepth = Len(frames) - 1 + 0 + 0
      BY <1>2, <3>1 DEF AppDepth, RequestDepth
    <3> QED
      BY ONLY <1>n, <3>2
  <2>2. AppDepth' = n /\ RequestDepth' = n
    <3>1. CASE frames' = <<>>
      BY <1>4, <3>1 DEF AppDepth, RequestDepth
    <3>2. CASE frames' # <<>>
      <4>1. PICK top \in Frames :
              Top' = top /\ (top.at = "wait" \/ top.at = "leave outer")
        <5>0. n \in 1 .. n
          <6>1. Len(frames') # 0
            BY ONLY <1>4, <3>2, EmptySeq
          <6>2. n # 0 /\ n \in Nat
            BY ONLY <6>1, <1>4, <1>n
          <6> QED
            BY ONLY <6>2
        <5>1. Top' = frames'[n]
          BY ONLY <1>4 DEF Top, Last
        <5>2. frames'[n] \in Frames
          BY ONLY <1>4, <5>0, ElementOfSeq
        <5> QED
          BY <1>7, <5>0, <5>1, <5>2
      <4>2. AppBlock(top.at) = 1 /\ OuterBlock(top.at) = 1 /\ InnerBlock(top.at) = 0
        BY <4>1, BlocksAt, Zenon
      <4>3. /\ AppDepth' = Len(frames') - 1 + AppBlock(top.at)
            /\ RequestDepth' = Len(frames') - 1 + OuterBlock(top.at) + InnerBlock(top.at)
        BY <3>2, <4>1 DEF AppDepth, RequestDepth
      <4>4. AppDepth' = Len(frames') - 1 + 1 /\ RequestDepth' = Len(frames') - 1 + 1 + 0
        BY ONLY <4>2, <4>3
      <4>5. AppDepth' = n - 1 + 1 /\ RequestDepth' = n - 1 + 1 + 0
        BY ONLY <1>4, <4>4
      <4> QED
        BY ONLY <1>n, <4>5
    <3> QED
      BY <3>1, <3>2
  <2>3. /\ appStack' = PopTop(appStack) /\ blocks' = Front(blocks) /\ UNCHANGED implicit
        /\ refcnt' = [refcnt EXCEPT ![ServerContext] = @ - 1]
        /\ life' = SetLife(TornWithApp(ServerContext), "torn")
    BY <1>2 DEF ExitApp, PopApp
  <2>4. /\ appStack \in Seq(AllAppContexts) /\ blocks \in Seq(Contexts)
        /\ \A i \in DOMAIN appStack : appStack[i] = ServerContext
        /\ Len(appStack) = AppDepth /\ Len(blocks) = AppDepth + RequestDepth
    BY <1>1 DEF ServerStacked, TypeOK
  <2>5. appStack # <<>> /\ blocks # <<>>
    <3>1. Len(appStack) = n + 1 /\ Len(blocks) = n + 1 + n
      BY ONLY <2>1, <2>4
    <3> QED
      BY ONLY <1>n, <2>4, <3>1
  <2>6. /\ Len(appStack') = Len(appStack) - 1 /\ Len(blocks') = Len(blocks) - 1
        /\ \A i \in DOMAIN appStack' : appStack'[i] = ServerContext
    <3>1. appStack' = Front(appStack)
      BY ONLY <2>3, <2>5 DEF PopTop
    <3>2. /\ Len(Front(appStack)) = Len(appStack) - 1
          /\ DOMAIN Front(appStack) = 1 .. Len(appStack) - 1
          /\ DOMAIN appStack = 1 .. Len(appStack) /\ Len(appStack) \in Nat
          /\ \A i \in 1 .. Len(appStack) - 1 : Front(appStack)[i] = appStack[i]
      BY ONLY <2>4, <2>5, FrontProperties
    <3>3. Len(Front(blocks)) = Len(blocks) - 1
      BY ONLY <2>4, <2>5, FrontProperties
    <3>4. \A i \in 1 .. Len(appStack) - 1 : i \in 1 .. Len(appStack)
      BY ONLY <3>2
    <3> QED
      BY ONLY <2>3, <2>4, <3>1, <3>2, <3>3, <3>4
  <2>7. Len(appStack') = AppDepth' /\ Len(blocks') = AppDepth' + RequestDepth'
    BY ONLY <1>n, <2>1, <2>2, <2>4, <2>6
  <2>8. \A r \in RequestContexts : \A i \in DOMAIN implicit'[r] : implicit'[r][i] = NoContext
    BY <1>1, <2>3 DEF ServerStacked
  <2>9. life'[ServerContext] = "live" => refcnt'[ServerContext] # 0
    <3>1. refcnt'[ServerContext] = refcnt[ServerContext] - 1 /\ refcnt[ServerContext] \in Int
      BY <1>1, <2>3 DEF TypeOK
    <3>2. life'[ServerContext] = "live" => ServerContext \notin TornWithApp(ServerContext)
      BY <2>3, RequestsApart DEF SetLife
    <3> QED
      BY <3>1, <3>2 DEF TornWithApp
  <2> QED
    BY <1>9, <2>6, <2>7, <2>8, <2>9 DEF ServerStacked
<1> QED
  BY ONLY <1>2, <1>3, <1>4, <1>5, <1>6, <1>7, <1>8, <1>9, <1>10

-----------------------------------------------------------------------------
(* Calls and contexts, over every step.                                    *)

\* The steps that move no call.
StillStep == Write \/ (\E n \in Notes : MakeNote(n)) \/ \E s \in Stanzas : Ignore(s)

LEMMA StillKeeps ==
  ASSUME ServerInv, StillStep \/ UNCHANGED allVars
  PROVE  /\ UNCHANGED <<frames, engine, running, openFailed>>
         /\ UNCHANGED <<appStack, reqStack, refcnt, implicit, blocks, life>>
         /\ status' \in [Stanzas -> Statuses]
         /\ \A s \in Stanzas :
              \/ status'[s] = status[s]
              \/ status[s] = "pending" /\ status'[s] = "ignored"
         /\ CallsWait' /\ ContextsInv' /\ ServerStacked'
<1>1. /\ UNCHANGED <<frames, engine, running, openFailed>>
      /\ UNCHANGED vars \/ \E n \in Notes : Notify(n)
  BY DEF StillStep, Write, MakeNote, Ignore, serving, history, allVars
<1>2. UNCHANGED <<appStack, reqStack, refcnt, implicit, blocks, life>>
  BY <1>1 DEF Notify, vars
<1>3. CallsWait /\ ContextsInv /\ ServerStacked /\ status \in [Stanzas -> Statuses]
      /\ frames \in Seq(Frames)
  BY DEF ServerInv, ServerTypeOK
<1>4. \/ status' = status
      \/ \E s \in Stanzas :
           status[s] = "pending" /\ status' = [status EXCEPT ![s] = "ignored"]
  BY DEF StillStep, Write, MakeNote, Ignore, serving, allVars
<1>5. /\ status' \in [Stanzas -> Statuses]
      /\ \A s \in Stanzas : \/ status'[s] = status[s]
                            \/ status[s] = "pending" /\ status'[s] = "ignored"
  BY <1>3, <1>4 DEF Statuses
<1>6. CallsWait'
  <2>1. \A f \in DOMAIN frames : frames[f].stanza \in Stanzas
    <3>1. \A f \in DOMAIN frames : frames[f] \in Frames
      BY ONLY <1>3
    <3> QED
      BY ONLY <3>1 DEF Frames
  <2>2. \A f \in DOMAIN frames : status'[frames[f].stanza] = "handling"
    BY ONLY <1>3, <1>5, <2>1 DEF CallsWait
  <2>3. Top' = Top
    BY <1>1 DEF Top
  <2> QED
    BY ONLY <1>1, <1>3, <2>2, <2>3 DEF CallsWait
<1>7. ContextsInv' /\ (openFailed' \/ NestingInv')
  BY <1>1, <1>3, NotifyInv, NotifyNests DEF ServerStacked
<1>8. AppDepth' = AppDepth /\ RequestDepth' = RequestDepth
  BY <1>1 DEF AppDepth, RequestDepth, Top
<1>9. ServerStacked'
  BY ONLY <1>2, <1>3, <1>7, <1>8 DEF ServerStacked
<1> QED
  BY <1>1, <1>2, <1>5, <1>6, <1>7, <1>9

\* The steps between statements of one call.
BlockStep ==
  EnterAppContext \/ EnterOuter \/ EnterInner \/ EnterFails \/ LeaveInner \/ LeaveOuter

LEMMA StepKinds ==
  ASSUME [ServerNext]_allVars
  PROVE  \/ QuietStep \/ BlockStep \/ LeaveAppContext
         \/ \E s \in Stanzas : Receive(s)
         \/ StillStep \/ UNCHANGED allVars
BY DEF ServerNext, Handler, QuietStep, BlockStep, StillStep

LEMMA CallsKept ==
  ASSUME ServerInv, [ServerNext]_allVars
  PROVE  /\ frames' \in Seq(Frames) /\ status' \in [Stanzas -> Statuses]
         /\ engine' \in Engines /\ running' \in BOOLEAN /\ openFailed' \in BOOLEAN
         /\ CallsWait' /\ ContextsInv' /\ ServerStacked'
<1>1. engine \in Engines /\ running \in BOOLEAN /\ openFailed \in BOOLEAN
      /\ frames \in Seq(Frames)
  BY DEF ServerInv, ServerTypeOK
<1>2. CASE QuietStep
  BY <1>1, <1>2, QuietMoves, MovesKeepCalls, QuietStacked
<1>3. CASE BlockStep
  <2>1. PICK frame \in Frames : Moves(frame)
    BY <1>3, BlockMoves DEF BlockStep
  <2>2. openFailed' \in BOOLEAN
    BY <1>1, <1>3 DEF BlockStep, EnterAppContext, EnterOuter, EnterInner, EnterFails,
                      LeaveInner, LeaveOuter, history
  <2>3. ContextsInv' /\ ServerStacked'
    BY <1>3, AppEnteredStacked, RequestEnteredStacked, RequestNotEnteredStacked,
       RequestLeftStacked DEF BlockStep
  <2> QED
    BY <2>1, <2>2, <2>3, MovesKeepCalls
<1>4. CASE LeaveAppContext
  <2>1. PICK n \in Nat : Len(frames) = n + 1
    <3>1. Len(frames) \in Nat \ {0}
      BY <1>1, <1>4, TopFrame DEF LeaveAppContext, At
    <3>2. Len(frames) = (Len(frames) - 1) + 1 /\ Len(frames) - 1 \in Nat
      BY ONLY <3>1
    <3> QED
      BY <3>2
  <2>2. engine' = engine /\ openFailed' = openFailed /\ running' \in BOOLEAN
    BY <1>1, <1>4 DEF LeaveAppContext, history
  <2> QED
    BY <1>1, <1>4, <2>1, <2>2, LeaveKeeps
<1>5. CASE \E s \in Stanzas : Receive(s)
  <2>1. UNCHANGED <<engine, running, openFailed>>
    BY <1>5 DEF Receive, history
  <2> QED
    BY <1>1, <1>5, <2>1, ReceiveKeeps
<1>6. CASE StillStep \/ UNCHANGED allVars
  BY <1>1, <1>6, StillKeeps
<1> QED
  BY <1>2, <1>3, <1>4, <1>5, <1>6, StepKinds

-----------------------------------------------------------------------------
(* The requests on the stack, while no exception is on its way.            *)

\* The calls below the innermost one.
LEMMA CallsBelow ==
  ASSUME ServerInv, frames # <<>>
  PROVE  \E n \in Nat : Len(frames) = n + 1
<1>1. Len(frames) \in Nat \ {0}
  BY TopFrame DEF ServerInv, ServerTypeOK
<1>2. Len(frames) = (Len(frames) - 1) + 1 /\ Len(frames) - 1 \in Nat
  BY ONLY <1>1
<1> QED
  BY <1>2

\* The requests of the n calls that wait, and those of the innermost one.
Requests(base, n, at) ==
  /\ Len(reqStack) = base + n + OuterBlock(at) + InnerBlock(at)
  /\ \A f \in 1 .. n : reqStack[base + f] = Outer(frames[f].stanza)
  /\ OuterBlock(at) = 1 => reqStack[base + n + 1] = Outer(Active)
  /\ InnerBlock(at) = 1 => reqStack[base + n + 2] = Inner(Active)

LEMMA BlockNumbers ==
  \A at : /\ AppBlock(at) \in {0, 1} /\ OuterBlock(at) \in {0, 1} /\ InnerBlock(at) \in {0, 1}
BY DEF AppBlock, OuterBlock, InnerBlock

LEMMA RequestsOfCalls ==
  ASSUME ServerInv, frames # <<>>, ~Top.exc, NEW n \in Nat, Len(frames) = n + 1
  PROVE  \E base \in Nat : Requests(base, n, Top.at)
<1>1. PICK base \in Nat : RequestsAbove(base)
  BY DEF ServerInv, RequestsStacked
<1>n. n \in Int /\ base \in Int /\ Len(frames) = n + 1
  OBVIOUS
<1>2. /\ DOMAIN frames = 1 .. Len(frames) /\ Top = frames[Len(frames)]
  BY TopFrame DEF ServerInv, ServerTypeOK
<1>3. /\ DOMAIN frames = 1 .. n + 1 /\ Top = frames[n + 1] /\ n + 1 \in DOMAIN frames
      /\ \A f \in 1 .. n : f \in DOMAIN frames /\ f \in 1 .. Len(frames) - 1
  BY <1>2
<1>4. PICK o \in Int, i \in Int : o = OuterBlock(Top.at) /\ i = InnerBlock(Top.at)
  BY BlockNumbers
<1>5. Len(reqStack) = base + (Len(frames) - 1 + o + i)
  BY <1>1, <1>4 DEF RequestsAbove, RequestDepth
<1>6. Len(reqStack) = base + n + o + i
  BY <1>4, <1>5
<1>7. \A f \in 1 .. n : reqStack[base + f] = Outer(frames[f].stanza)
  <2>1. \A f \in 1 .. n : frames[f].at = "wait"
    BY <1>3 DEF ServerInv, CallsWait
  <2> QED
    BY <1>1, <1>3, <2>1, BlocksAt DEF RequestsAbove
<1>8. o = 1 => reqStack[base + n + 1] = Outer(Active)
  <2>1. o = 1 => reqStack[base + (n + 1)] = Outer(frames[n + 1].stanza)
    BY <1>1, <1>3, <1>4 DEF RequestsAbove
  <2>2. base + (n + 1) = base + n + 1
    BY ONLY <1>n
  <2> QED
    BY <1>3, <2>1, <2>2 DEF Active
<1>9. i = 1 => reqStack[base + n + 2] = Inner(Active)
  <2>1. i = 1 => reqStack[base + Len(frames) + 1] = Inner(Active)
    BY <1>1, <1>4 DEF RequestsAbove
  <2>2. base + Len(frames) + 1 = base + n + 2
    BY ONLY <1>n
  <2> QED
    BY <2>1, <2>2
<1> QED
  BY <1>4, <1>6, <1>7, <1>8, <1>9 DEF Requests

\* After a step of the innermost call to the statement at.
LEMMA RequestsMoved ==
  ASSUME ServerInv, NEW frame \in Frames, Moves(frame),
         NEW n \in Nat, Len(frames) = n + 1, NEW base \in Nat,
         Len(reqStack') = base + n + OuterBlock(frame.at) + InnerBlock(frame.at),
         \A f \in 1 .. n : reqStack'[base + f] = Outer(frames[f].stanza),
         OuterBlock(frame.at) = 1 => reqStack'[base + n + 1] = Outer(Active),
         InnerBlock(frame.at) = 1 => reqStack'[base + n + 2] = Inner(Active)
  PROVE  RequestsStacked'
<1>n. n \in Int /\ base \in Int /\ Len(frames) = n + 1
  OBVIOUS
<1>1. frames \in Seq(Frames) /\ frames # <<>> /\ SetTop(frame) /\ frame.stanza = Active
  BY DEF ServerInv, ServerTypeOK, Moves
<1>2. /\ frames' # <<>> /\ Len(frames') = n + 1 /\ Top' = frame /\ Active' = Active
      /\ DOMAIN frames' = DOMAIN frames
      /\ \A f \in DOMAIN frames :
           frames'[f] = IF f = n + 1 THEN frame ELSE frames[f]
  BY <1>1, TopSet
<1>3. DOMAIN frames = 1 .. n + 1
  BY ONLY <1>1, <1>n, TopFrame
<1>4. PICK o \in Int, i \in Int : o = OuterBlock(frame.at) /\ i = InnerBlock(frame.at)
  BY BlockNumbers
<1>5. RequestDepth' = Len(frames') - 1 + o + i
  BY <1>2, <1>4 DEF RequestDepth
<1>i. o \in Int /\ i \in Int
  OBVIOUS
<1>6. Len(reqStack') = base + RequestDepth'
  <2>1. Len(reqStack') = base + n + o + i
    BY <1>4
  <2>2. RequestDepth' = n + 1 - 1 + o + i
    BY ONLY <1>2, <1>5
  <2> QED
    BY ONLY <2>1, <2>2, <1>n, <1>i
<1>7. ASSUME NEW f \in DOMAIN frames', OuterBlock(frames'[f].at) = 1
      PROVE  reqStack'[base + f] = Outer(frames'[f].stanza)
  <2>1. CASE f = n + 1
    <3>1. frames'[f] = frame /\ base + f = base + n + 1
      BY <1>2, <1>3, <2>1
    <3> QED
      BY <1>1, <1>7, <3>1
  <2>2. CASE f # n + 1
    <3>1. frames'[f] = frames[f] /\ f \in 1 .. n
      BY <1>2, <1>3, <2>2
    <3> QED
      BY <3>1
  <2> QED
    BY <2>1, <2>2
<1>8. InnerBlock(frame.at) = 1 => reqStack'[base + Len(frames') + 1] = Inner(Active')
  <2>1. base + Len(frames') + 1 = base + n + 2
    BY ONLY <1>2, <1>n
  <2> QED
    BY <1>2, <2>1
<1>9. RequestsAbove(base)'
  BY <1>2, <1>6, <1>7, <1>8 DEF RequestsAbove
<1> QED
  BY <1>9 DEF RequestsStacked

LEMMA RequestsAfterRaise ==
  ASSUME ServerInv, NEW frame \in Frames, Moves(frame), frame.exc
  PROVE  RequestsStacked'
<1>1. frames \in Seq(Frames) /\ frames # <<>> /\ SetTop(frame)
  BY DEF ServerInv, ServerTypeOK, Moves
<1>2. frames' # <<>> /\ Top' = frame
  BY <1>1, TopSet
<1> QED
  BY <1>2 DEF RequestsStacked

LEMMA RequestsSame ==
  ASSUME ServerInv, NEW frame \in Frames, Moves(frame), reqStack' = reqStack,
         OuterBlock(frame.at) = OuterBlock(Top.at), InnerBlock(frame.at) = InnerBlock(Top.at)
  PROVE  RequestsStacked'
<1>1. CASE frame.exc
  BY <1>1, RequestsAfterRaise
<1>2. CASE ~frame.exc
  <2>1. frames # <<>> /\ ~Top.exc
    BY <1>2 DEF Moves
  <2>2. PICK n \in Nat : Len(frames) = n + 1
    BY <2>1, CallsBelow
  <2>3. PICK base \in Nat : Requests(base, n, Top.at)
    BY <2>1, <2>2, RequestsOfCalls
  <2> QED
    BY <2>2, <2>3, RequestsMoved DEF Requests
<1> QED
  BY <1>1, <1>2

LEMMA Longer ==
  ASSUME NEW S, NEW seq \in Seq(S), NEW x \in S, NEW longer, longer = Append(seq, x)
  PROVE  /\ Len(longer) = Len(seq) + 1 /\ longer[Len(seq) + 1] = x
         /\ \A k \in 1 .. Len(seq) : longer[k] = seq[k]
OBVIOUS

LEMMA RequestPushed ==
  ASSUME ServerInv, EnterOuter \/ EnterInner
  PROVE  RequestsStacked'
<1>1. frames # <<>> /\ frames \in Seq(Frames) /\ reqStack \in Seq(RequestContexts)
      /\ Top.at # "app context"
  BY DEF EnterOuter, EnterInner, At, ServerInv, ServerTypeOK, ContextsInv, TypeOK
<1>2. Outer(Active) \in RequestContexts /\ Inner(Active) \in RequestContexts
  BY <1>1, TopFrame, RequestsApart
<1>3. CASE EnterOuter
  <2>1. PICK frame \in Frames :
          Moves(frame) /\ Top.at = "outer" /\ frame.at = "inner" /\ ~frame.exc
    BY <1>3, BlockMoves
  <2>2. PICK n \in Nat : Len(frames) = n + 1
    BY <1>1, CallsBelow
  <2>3. PICK base \in Nat : Requests(base, n, Top.at)
    BY <1>1, <2>1, <2>2, RequestsOfCalls DEF Moves
  <2>4. reqStack' = Append(reqStack, Outer(Active))
    BY <1>1, <1>2, <1>3, RequestEntered DEF EnterOuter
  <2>5. /\ OuterBlock(Top.at) = 0 /\ InnerBlock(Top.at) = 0
        /\ OuterBlock(frame.at) = 1 /\ InnerBlock(frame.at) = 0
    BY <2>1, BlocksAt, Zenon
  <2>6. Len(reqStack) = base + n + 0 + 0
    BY ONLY <2>3, <2>5 DEF Requests
  <2>7. /\ Len(reqStack') = base + n + 1 + 0 /\ reqStack'[base + n + 1] = Outer(Active)
        /\ \A f \in 1 .. n : reqStack'[base + f] = reqStack[base + f]
    <3>1. \A f \in 1 .. n : base + f \in 1 .. Len(reqStack)
      BY <2>6
    <3>2. base + n + 0 + 0 + 1 = base + n + 1 + 0 /\ base + n + 1 + 0 = base + n + 1
      OBVIOUS
    <3>3. /\ Len(reqStack') = Len(reqStack) + 1
          /\ reqStack'[Len(reqStack) + 1] = Outer(Active)
          /\ \A k \in 1 .. Len(reqStack) : reqStack'[k] = reqStack[k]
      <4>1. PICK r \in RequestContexts : r = Outer(Active) /\ reqStack' = Append(reqStack, r)
        BY <1>2, <2>4
      <4>2. reqStack \in Seq(RequestContexts)
        BY <1>1
      <4>3. /\ Len(Append(reqStack, r)) = Len(reqStack) + 1
            /\ Append(reqStack, r)[Len(reqStack) + 1] = r
            /\ \A k \in 1 .. Len(reqStack) : Append(reqStack, r)[k] = reqStack[k]
        BY ONLY <4>2, Longer
      <4> QED
        BY ONLY <4>1, <4>3
    <3> QED
      BY ONLY <2>6, <3>1, <3>2, <3>3
  <2>8. Len(reqStack') = base + n + OuterBlock(frame.at) + InnerBlock(frame.at)
    BY ONLY <2>5, <2>7
  <2>9. \A f \in 1 .. n : reqStack'[base + f] = Outer(frames[f].stanza)
    BY ONLY <2>3, <2>7 DEF Requests
  <2>10. InnerBlock(frame.at) # 1
    BY ONLY <2>5
  <2> QED
    BY <2>1, <2>2, <2>7, <2>8, <2>9, <2>10, RequestsMoved
<1>4. CASE EnterInner
  <2>1. PICK frame \in Frames :
          Moves(frame) /\ Top.at = "inner" /\ frame.at = "view" /\ ~frame.exc
    BY <1>4, BlockMoves
  <2>2. PICK n \in Nat : Len(frames) = n + 1
    BY <1>1, CallsBelow
  <2>3. PICK base \in Nat : Requests(base, n, Top.at)
    BY <1>1, <2>1, <2>2, RequestsOfCalls DEF Moves
  <2>4. reqStack' = Append(reqStack, Inner(Active))
    BY <1>1, <1>2, <1>4, RequestEntered DEF EnterInner
  <2>5. /\ OuterBlock(Top.at) = 1 /\ InnerBlock(Top.at) = 0
        /\ OuterBlock(frame.at) = 1 /\ InnerBlock(frame.at) = 1
    BY <2>1, BlocksAt, Zenon
  <2>6. Len(reqStack) = base + n + 1 + 0 /\ reqStack[base + n + 1] = Outer(Active)
    BY ONLY <2>3, <2>5 DEF Requests
  <2>7. /\ Len(reqStack') = base + n + 1 + 1 /\ reqStack'[base + n + 2] = Inner(Active)
        /\ reqStack'[base + n + 1] = reqStack[base + n + 1]
        /\ \A f \in 1 .. n : reqStack'[base + f] = reqStack[base + f]
    <3>1. /\ \A f \in 1 .. n : base + f \in 1 .. Len(reqStack)
          /\ base + n + 1 \in 1 .. Len(reqStack)
      BY <2>6
    <3>2. base + n + 1 + 0 + 1 = base + n + 1 + 1 /\ base + n + 1 + 0 + 1 = base + n + 2
      OBVIOUS
    <3>3. /\ Len(reqStack') = Len(reqStack) + 1
          /\ reqStack'[Len(reqStack) + 1] = Inner(Active)
          /\ \A k \in 1 .. Len(reqStack) : reqStack'[k] = reqStack[k]
      <4>1. PICK r \in RequestContexts : r = Inner(Active) /\ reqStack' = Append(reqStack, r)
        BY <1>2, <2>4
      <4>2. reqStack \in Seq(RequestContexts)
        BY <1>1
      <4>3. /\ Len(Append(reqStack, r)) = Len(reqStack) + 1
            /\ Append(reqStack, r)[Len(reqStack) + 1] = r
            /\ \A k \in 1 .. Len(reqStack) : Append(reqStack, r)[k] = reqStack[k]
        BY ONLY <4>2, Longer
      <4> QED
        BY ONLY <4>1, <4>3
    <3> QED
      BY ONLY <2>6, <3>1, <3>2, <3>3
  <2>8. Len(reqStack') = base + n + OuterBlock(frame.at) + InnerBlock(frame.at)
    BY ONLY <2>5, <2>7
  <2>9. \A f \in 1 .. n : reqStack'[base + f] = Outer(frames[f].stanza)
    BY ONLY <2>3, <2>7 DEF Requests
  <2> QED
    BY <2>1, <2>2, <2>6, <2>7, <2>8, <2>9, RequestsMoved
<1> QED
  BY <1>3, <1>4

LEMMA RequestPoppedOff ==
  ASSUME ServerInv, LeaveInner \/ LeaveOuter
  PROVE  RequestsStacked'
<1>1. frames # <<>> /\ frames \in Seq(Frames) /\ reqStack \in Seq(RequestContexts)
  BY DEF LeaveOuter, LeaveInner, At, ServerInv, ServerTypeOK, ContextsInv, TypeOK
<1>2. Outer(Active) \in RequestContexts /\ Inner(Active) \in RequestContexts
  BY <1>1, TopFrame, RequestsApart
<1>3. reqStack' = PopTop(reqStack)
  BY <1>2, RequestLeft DEF LeaveInner, LeaveOuter
<1>4. PICK frame \in Frames :
        /\ Moves(frame)
        /\ \/ /\ Top.at = "leave inner"
              /\ \/ frame.at = "leave outer" /\ frame.exc
                 \/ frame.at = "send" /\ ~frame.exc
           \/ Top.at = "leave outer" /\ frame.at = "leave app context"
  BY BlockMoves
<1>5. CASE frame.exc
  BY <1>4, <1>5, RequestsAfterRaise
<1>6. CASE ~frame.exc
  <2>1. ~Top.exc
    BY <1>4, <1>6 DEF Moves
  <2>2. PICK n \in Nat : Len(frames) = n + 1
    BY <1>1, CallsBelow
  <2>3. PICK base \in Nat : Requests(base, n, Top.at)
    BY <1>1, <2>1, <2>2, RequestsOfCalls
  <2>4. ASSUME reqStack # <<>>
        PROVE  /\ Len(reqStack') = Len(reqStack) - 1
               /\ \A k \in 1 .. Len(reqStack) - 1 : reqStack'[k] = reqStack[k]
    BY ONLY <1>1, <1>3, <2>4, FrontProperties DEF PopTop
  <2>5. CASE Top.at = "leave inner" /\ frame.at = "send"
    <3>1. /\ OuterBlock(Top.at) = 1 /\ InnerBlock(Top.at) = 1
          /\ OuterBlock(frame.at) = 1 /\ InnerBlock(frame.at) = 0
      BY <2>5, BlocksAt, Zenon
    <3>2. Len(reqStack) = base + n + 1 + 1 /\ reqStack[base + n + 1] = Outer(Active)
      BY ONLY <2>3, <3>1 DEF Requests
    <3>3. /\ Len(reqStack') = base + n + 1 + 0
          /\ reqStack'[base + n + 1] = reqStack[base + n + 1]
          /\ \A f \in 1 .. n : reqStack'[base + f] = reqStack[base + f]
      <4>1. reqStack # <<>>
        BY <1>1, <3>2
      <4>2. /\ \A f \in 1 .. n : base + f \in 1 .. Len(reqStack) - 1
            /\ base + n + 1 \in 1 .. Len(reqStack) - 1
        BY <3>2
      <4> QED
        BY <2>4, <3>2, <4>1, <4>2
    <3>4. Len(reqStack') = base + n + OuterBlock(frame.at) + InnerBlock(frame.at)
      BY ONLY <3>1, <3>3
    <3>5. \A f \in 1 .. n : reqStack'[base + f] = Outer(frames[f].stanza)
      BY ONLY <2>3, <3>3 DEF Requests
    <3>6. InnerBlock(frame.at) # 1
      BY ONLY <3>1
    <3> QED
      BY <1>4, <2>2, <3>2, <3>3, <3>4, <3>5, <3>6, RequestsMoved
  <2>6. CASE Top.at = "leave outer" /\ frame.at = "leave app context"
    <3>1. /\ OuterBlock(Top.at) = 1 /\ InnerBlock(Top.at) = 0
          /\ OuterBlock(frame.at) = 0 /\ InnerBlock(frame.at) = 0
      BY <2>6, BlocksAt, Zenon
    <3>2. Len(reqStack) = base + n + 1 + 0
      BY ONLY <2>3, <3>1 DEF Requests
    <3>3. /\ Len(reqStack') = base + n + 0 + 0
          /\ \A f \in 1 .. n : reqStack'[base + f] = reqStack[base + f]
      <4>1. reqStack # <<>>
        BY <1>1, <3>2
      <4>2. \A f \in 1 .. n : base + f \in 1 .. Len(reqStack) - 1
        BY <3>2
      <4> QED
        BY <2>4, <3>2, <4>1, <4>2
    <3>4. Len(reqStack') = base + n + OuterBlock(frame.at) + InnerBlock(frame.at)
      BY ONLY <3>1, <3>3
    <3>5. \A f \in 1 .. n : reqStack'[base + f] = Outer(frames[f].stanza)
      BY ONLY <2>3, <3>3 DEF Requests
    <3>6. InnerBlock(frame.at) # 1 /\ OuterBlock(frame.at) # 1
      BY ONLY <3>1
    <3> QED
      BY <1>4, <2>2, <3>4, <3>5, <3>6, RequestsMoved
  <2> QED
    BY <1>4, <1>6, <2>5, <2>6
<1> QED
  BY <1>5, <1>6

LEMMA RequestsKept ==
  ASSUME ServerInv, [ServerNext]_allVars
  PROVE  RequestsStacked'
<1>1. CASE QuietStep
  BY <1>1, QuietMoves, RequestsSame DEF SameBlocks, vars
<1>2. CASE EnterAppContext
  <2>1. PICK frame \in Frames : Moves(frame) /\ Top.at = "app context" /\ frame.at = "outer"
    BY <1>2, BlockMoves
  <2>2. reqStack' = reqStack
    BY <1>2 DEF EnterAppContext, EnterApp
  <2>3. OuterBlock(frame.at) = OuterBlock(Top.at) /\ InnerBlock(frame.at) = InnerBlock(Top.at)
    BY <2>1, BlocksAt, Zenon
  <2> QED
    BY <2>1, <2>2, <2>3, RequestsSame
<1>3. CASE EnterOuter \/ EnterInner
  BY <1>3, RequestPushed
<1>4. CASE EnterFails
  BY <1>4, BlockMoves, RequestsAfterRaise
<1>5. CASE LeaveInner \/ LeaveOuter
  BY <1>5, RequestPoppedOff
<1>6. CASE LeaveAppContext
  <2>1. frames # <<>> /\ reqStack' = reqStack /\ reqStack \in Seq(RequestContexts)
    BY <1>6 DEF LeaveAppContext, ExitApp, At, ServerInv, ContextsInv, TypeOK
  <2>2. PICK n \in Nat : Len(frames) = n + 1
    BY <2>1, CallsBelow
  <2>3. /\ Top.at = "leave app context" /\ frames' \in Seq(Frames) /\ Len(frames') = n
        /\ DOMAIN frames' = 1 .. n
        /\ \A f \in 1 .. n :
             /\ frames'[f].stanza = frames[f].stanza
             /\ \/ frames'[f] = frames[f] /\ ~(Top.exc /\ f = n)
                \/ /\ frames'[f].at = "leave outer" /\ frames'[f].exc = TRUE
                   /\ Top.exc /\ f = n
             /\ frames[f].at = "wait"
    BY <1>6, <2>2, LeaveKeeps
  <2>4. CASE frames' = <<>>
    <3>1. PICK base \in Nat : base = Len(reqStack)
      BY <2>1
    <3>2. RequestDepth' = 0 /\ DOMAIN frames' = {}
      BY <2>4 DEF RequestDepth
    <3>3. RequestsAbove(base)'
      BY <2>1, <2>4, <3>1, <3>2 DEF RequestsAbove
    <3> QED
      BY <3>3 DEF RequestsStacked
  <2>5. CASE frames' # <<>>
    <3>1. n # 0 /\ n \in Nat
      BY <2>3, <2>5, EmptySeq
    <3>2. n \in 1 .. n
      BY ONLY <3>1
    <3>3. Top' = frames'[n]
      BY ONLY <2>3 DEF Top, Last
    <3>4. CASE Top.exc
      <4>1. frames'[n].exc = TRUE
        BY ONLY <2>3, <3>2, <3>4
      <4> QED
        BY <2>5, <3>3, <4>1 DEF RequestsStacked
    <3>5. CASE ~Top.exc
      <4>1. PICK base \in Nat : Requests(base, n, Top.at)
        BY <2>1, <2>2, <3>5, RequestsOfCalls
      <4>2. \A f \in 1 .. n : frames'[f] = frames[f]
        BY <2>3, <3>5
      <4>3. PICK last \in Frames : Top' = last /\ last = frames[n] /\ last.at = "wait"
        <5>1. frames'[n] \in Frames
          BY ONLY <2>3, <3>2, ElementOfSeq
        <5> QED
          BY <2>3, <3>2, <3>3, <4>2, <5>1
      <4>4. /\ OuterBlock(Top.at) = 0 /\ InnerBlock(Top.at) = 0
            /\ OuterBlock(last.at) = 1 /\ InnerBlock(last.at) = 0
        BY <2>3, <4>3, BlocksAt, Zenon
      <4>5. Len(reqStack) = base + n + 0 + 0
        BY ONLY <4>1, <4>4 DEF Requests
      <4>6. RequestDepth' = Len(frames') - 1 + OuterBlock(last.at) + InnerBlock(last.at)
        BY <2>5, <4>3 DEF RequestDepth
      <4>7. RequestDepth' = n - 1 + 1 + 0
        BY ONLY <2>3, <4>4, <4>6
      <4>8. Len(reqStack') = base + RequestDepth'
        <5>1. base \in Nat /\ n \in Nat
          OBVIOUS
        <5> QED
          BY ONLY <2>1, <4>5, <4>7, <5>1
      <4>9. \A f \in 1 .. n : reqStack'[base + f] = Outer(frames'[f].stanza)
        BY ONLY <2>1, <2>3, <4>1 DEF Requests
      <4>10. InnerBlock(last.at) = 1 => FALSE
        BY ONLY <4>4
      <4>11. RequestsAbove(base)'
        BY ONLY <2>3, <4>3, <4>8, <4>9, <4>10 DEF RequestsAbove
      <4> QED
        BY <4>11 DEF RequestsStacked
    <3> QED
      BY <3>4, <3>5
  <2> QED
    BY <2>4, <2>5
<1>7. CASE \E s \in Stanzas : Receive(s)
  <2>1. PICK s \in Stanzas : Receive(s)
    BY <1>7
  <2>n. PICK n \in Nat : n = Len(frames) /\ DOMAIN frames = 1 .. n
    <3>1. frames \in Seq(Frames)
      BY DEF ServerInv, ServerTypeOK
    <3> QED
      BY ONLY <3>1
  <2>2. PICK new \in Frames :
          /\ Top' = new /\ new.at = "app context"
          /\ frames' # <<>> /\ Len(frames') = n + 1 /\ DOMAIN frames' = 1 .. n + 1
          /\ frames'[n + 1] = new
          /\ \A f \in 1 .. n : frames'[f] = frames[f] /\ frames[f].at = "wait"
    BY <2>1, <2>n, ReceiveKeeps
  <2>3. reqStack' = reqStack /\ (frames = <<>> \/ (frames # <<>> /\ Top.at = "wait"))
    BY <2>1 DEF Receive, vars, Delivers, At
  <2>4. PICK base \in Nat : RequestsAbove(base)
    <3>1. frames # <<>> => ~Top.exc
      BY <2>3, NotRaised DEF Leaving
    <3> QED
      BY <3>1 DEF ServerInv, RequestsStacked
  <2>5. /\ OuterBlock(new.at) = 0 /\ InnerBlock(new.at) = 0
    BY <2>2, BlocksAt, Zenon
  <2>6. RequestDepth' = n
    <3>1. RequestDepth' = Len(frames') - 1 + OuterBlock(new.at) + InnerBlock(new.at)
      BY <2>2 DEF RequestDepth
    <3>2. Len(frames') = n + 1
      BY <2>2
    <3>3. RequestDepth' = n + 1 - 1 + 0 + 0
      BY ONLY <2>5, <3>1, <3>2
    <3>4. n + 1 - 1 + 0 + 0 = n
      OBVIOUS
    <3> QED
      BY ONLY <3>3, <3>4
  <2>7. RequestDepth = n
    <3>1. CASE frames = <<>>
      BY <2>n, <3>1 DEF RequestDepth
    <3>2. CASE frames # <<>> /\ Top.at = "wait"
      <4>1. OuterBlock(Top.at) = 1 /\ InnerBlock(Top.at) = 0
        BY <3>2, BlocksAt, Zenon
      <4>2. RequestDepth = Len(frames) - 1 + OuterBlock(Top.at) + InnerBlock(Top.at)
        BY <3>2 DEF RequestDepth
      <4>3. RequestDepth = n - 1 + 1 + 0
        BY ONLY <2>n, <4>1, <4>2
      <4> QED
        BY <4>3
    <3> QED
      BY <2>3, <3>1, <3>2
  <2>8. Len(reqStack') = base + RequestDepth'
    BY ONLY <2>3, <2>4, <2>6, <2>7 DEF RequestsAbove
  <2>9. ASSUME NEW f \in DOMAIN frames', OuterBlock(frames'[f].at) = 1
        PROVE  reqStack'[base + f] = Outer(frames'[f].stanza)
    <3>1. f \in 1 .. n
      <4>1. f \in 1 .. n + 1
        BY <2>2, <2>9
      <4>2. ASSUME f = n + 1 PROVE FALSE
        <5>1. frames'[f] = new
          BY <2>2, <4>2
        <5>2. OuterBlock(new.at) = 1
          BY <2>9, <5>1
        <5> QED
          BY ONLY <2>5, <5>2
      <4> QED
        BY <4>1, <4>2
    <3>3. f \in DOMAIN frames
      BY <2>n, <3>1
    <3> QED
      BY <2>2, <2>3, <2>4, <2>9, <3>1, <3>3 DEF RequestsAbove
  <2>10. InnerBlock(new.at) = 1 => FALSE
    BY ONLY <2>5
  <2>11. RequestsAbove(base)'
    BY ONLY <2>2, <2>8, <2>9, <2>10 DEF RequestsAbove
  <2> QED
    BY <2>11 DEF RequestsStacked
<1>8. CASE StillStep \/ UNCHANGED allVars
  <2>1. UNCHANGED <<frames, reqStack>>
    BY <1>8, StillKeeps
  <2>2. Top' = Top /\ Active' = Active /\ RequestDepth' = RequestDepth
    BY <2>1 DEF Top, Active, RequestDepth
  <2>3. RequestsStacked
    BY DEF ServerInv
  <2> QED
    BY ONLY <2>1, <2>2, <2>3 DEF RequestsStacked, RequestsAbove
<1> QED
  BY <1>1, <1>2, <1>3, <1>4, <1>5, <1>6, <1>7, <1>8, StepKinds DEF BlockStep

\* The request of the stanza in whose name the code runs is on top.
LEMMA OwnRequestOnTop ==
  ASSUME ServerInv, frames # <<>>, Top.at \in {"view", "process", "send"}
  PROVE  /\ Active \in Stanzas /\ ~Top.exc
         /\ TopOf(reqStack) = IF Top.at = "send" THEN Outer(Active) ELSE Inner(Active)
<1>1. ~Top.exc /\ Active \in Stanzas /\ reqStack \in Seq(RequestContexts)
  BY NotRaised, TopFrame DEF Leaving, ServerInv, ServerTypeOK, ContextsInv, TypeOK
<1>2. PICK n \in Nat : Len(frames) = n + 1
  BY CallsBelow
<1>3. PICK base \in Nat : Requests(base, n, Top.at)
  BY <1>1, <1>2, RequestsOfCalls
<1>4. CASE Top.at = "send"
  <2>1. OuterBlock(Top.at) = 1 /\ InnerBlock(Top.at) = 0
    BY <1>4, BlocksAt, Zenon
  <2>2. Len(reqStack) = base + n + 1 + 0 /\ reqStack[base + n + 1] = Outer(Active)
    BY ONLY <1>3, <2>1 DEF Requests
  <2>3. base + n + 1 + 0 = base + n + 1 /\ base + n + 1 # 0
    OBVIOUS
  <2>4. Last(reqStack) = Outer(Active) /\ reqStack # <<>>
    BY ONLY <1>1, <2>2, <2>3, EmptySeq DEF Last
  <2> QED
    BY <1>1, <1>4, <2>4 DEF TopOf
<1>5. CASE Top.at \in {"view", "process"}
  <2>1. OuterBlock(Top.at) = 1 /\ InnerBlock(Top.at) = 1
    BY <1>5 DEF OuterBlock, InnerBlock
  <2>2. Len(reqStack) = base + n + 1 + 1 /\ reqStack[base + n + 2] = Inner(Active)
    BY ONLY <1>3, <2>1 DEF Requests
  <2>3. base + n + 1 + 1 = base + n + 2 /\ base + n + 2 # 0
    OBVIOUS
  <2>4. Last(reqStack) = Inner(Active) /\ reqStack # <<>>
    BY ONLY <1>1, <2>2, <2>3, EmptySeq DEF Last
  <2> QED
    BY <1>1, <1>5, <2>4 DEF TopOf
<1> QED
  BY <1>4, <1>5

-----------------------------------------------------------------------------
(* Sessions and notifications.                                             *)

LEMMA InnerIsContext ==
  \A s \in Stanzas : Inner(s) \in StanzaContexts /\ Outer(s) \in StanzaContexts
BY DEF Inner, Outer

\* The statement of the step, and the stanza it is about.
LEMMA ActiveAt ==
  ASSUME ServerInv, NEW point, At(point)
  PROVE  /\ frames # <<>> /\ Top.at = point /\ Top \in Frames
         /\ Active \in Stanzas /\ From[Active] \in Jids
         /\ point \notin Leaving => ~Top.exc
BY TopFrame, NotRaised DEF At, ServerInv, ServerTypeOK

\* What a step may do to the store and to the histories.
LEMMA StoreSteps ==
  ASSUME ServerInv, [ServerNext]_allVars
  PROVE  /\ \/ sess' = sess
            \/ At("outer") /\ OpenSession(Outer(Active))
            \/ At("inner") /\ OpenSession(Inner(Active))
         /\ \/ storage' = storage
            \/ ProcessResponse
         /\ \/ UNCHANGED <<data, written>>
            \/ Write
         /\ \/ noted' = noted
            \/ \E n \in Notes : MakeNote(n)
         /\ \/ delivered' = delivered
            \/ SendNote
<1>1. CASE Handler
  BY <1>1 DEF Handler, EnterAppContext, EnterOuter, EnterInner, EnterFails, Write, MakeNote,
     ViewReturns, ViewRaises, ProcessResponse, DrainNotes, LeaveInner, SendItem, Answered,
     GeneratorRaises, ResponseSent, SendNote, NotesSent, LeaveOuter, LeaveAppContext,
     store, history
<1>2. CASE \E s \in Stanzas : Ignore(s) \/ Receive(s)
  BY <1>2 DEF Ignore, Receive, store, history
<1>3. CASE UNCHANGED allVars
  BY <1>3 DEF allVars, store, history
<1> QED
  BY <1>1, <1>2, <1>3 DEF ServerNext

LEMMA TypesKept ==
  ASSUME ServerInv, [ServerNext]_allVars
  PROVE  ServerTypeOK'
<1>1. /\ sess \in [StanzaContexts -> StanzaContexts \cup {None}]
      /\ storage \in [Jids -> StanzaContexts \cup {None}]
      /\ data \in [StanzaContexts -> SUBSET Writes]
      /\ written \subseteq Writes
      /\ noted \subseteq Notes /\ delivered \subseteq noted
  BY DEF ServerInv, ServerTypeOK
<1>2. sess' \in [StanzaContexts -> StanzaContexts \cup {None}]
  <2>1. ASSUME NEW r \in StanzaContexts, NEW point, At(point), OpenSession(r)
        PROVE  sess' \in [StanzaContexts -> StanzaContexts \cup {None}]
    <3>1. From[Active] \in Jids
      BY <2>1, ActiveAt
    <3>2. PICK object \in StanzaContexts \cup {None} : sess' = [sess EXCEPT ![r] = object]
      BY <1>1, <2>1, <3>1 DEF OpenSession
    <3> QED
      BY ONLY <1>1, <3>2
  <2> QED
    BY <1>1, <2>1, StoreSteps, ActiveAt, InnerIsContext
<1>3. storage' \in [Jids -> StanzaContexts \cup {None}]
  <2>1. ASSUME ProcessResponse
        PROVE  storage' \in [Jids -> StanzaContexts \cup {None}]
    <3>1. At("process") /\ storage' = [storage EXCEPT ![From[Active]] = sess[TopOf(reqStack)]]
      BY <2>1 DEF ProcessResponse
    <3>2. frames # <<>> /\ Top.at = "process" /\ Active \in Stanzas
      BY <3>1, ActiveAt
    <3>3. TopOf(reqStack) = Inner(Active)
      BY <3>2, OwnRequestOnTop
    <3>4. sess[Inner(Active)] \in StanzaContexts
      BY <3>2 DEF ServerInv, SessionOpen
    <3> QED
      BY ONLY <1>1, <3>1, <3>3, <3>4
  <2> QED
    BY <1>1, <2>1, StoreSteps
<1>4. data' \in [StanzaContexts -> SUBSET Writes] /\ written' \subseteq Writes
  <2>1. ASSUME Write
        PROVE  data' \in [StanzaContexts -> SUBSET Writes] /\ written' \subseteq Writes
    <3>1. RunningPart \in {"view", "generator"}
      BY <2>1 DEF Write
    <3>2. Active \in Stanzas
      BY <3>1, Running, ActiveAt
    <3>3. PICK write \in Writes :
            /\ \E object : data' = [data EXCEPT ![object] = @ \cup {write}]
            /\ written' = written \cup {write}
      BY <2>1, <3>1, <3>2 DEF Write, Writes
    <3>4. PICK object : data' = [data EXCEPT ![object] = @ \cup {write}]
      BY <3>3
    <3>5. {write} \subseteq Writes
      BY <3>3
    <3>6. data' \in [StanzaContexts -> SUBSET Writes]
      BY ONLY <1>1, <3>4, <3>5
    <3>7. written' \subseteq Writes
      BY ONLY <1>1, <3>3, <3>5
    <3> QED
      BY <3>6, <3>7
  <2> QED
    BY <1>1, <2>1, StoreSteps
<1>5. noted' \subseteq Notes /\ noted \subseteq noted'
  BY <1>1, StoreSteps DEF MakeNote
<1>6. delivered' \subseteq noted'
  <2>1. ASSUME SendNote
        PROVE  delivered' \subseteq noted
    <3>1. At("notify") /\ Top.queue # <<>>
      BY <2>1 DEF SendNote
    <3>2. Top.queue \in Seq(MadeFor(Active))
      <4>1. Len(frames) \in DOMAIN frames /\ Top = frames[Len(frames)]
        BY <3>1, ActiveAt, TopFrame DEF ServerInv, ServerTypeOK
      <4> QED
        BY <4>1 DEF ServerInv, NotesOwn, Active
    <3>3. Head(Top.queue) \in MadeFor(Active)
      BY ONLY <3>1, <3>2, HeadTailProperties
    <3>4. Head(Top.queue) \in noted
      BY <3>3 DEF MadeFor
    <3> QED
      BY <1>1, <2>1, <3>4 DEF SendNote
  <2> QED
    BY <1>1, <1>5, <2>1, StoreSteps
<1>7. TypeOK'
  BY CallsKept DEF ContextsInv
<1> QED
  BY <1>2, <1>3, <1>4, <1>5, <1>6, <1>7, CallsKept DEF ServerTypeOK

-----------------------------------------------------------------------------
(* What the steps do to the queues and the notifications.                  *)

\* The steps of a call that enter or leave a block without an exception.
Enters(point) ==
  \/ Top.at = "app context" /\ point = "outer"
  \/ Top.at = "outer" /\ point = "inner"
  \/ Top.at = "inner" /\ point = "view" /\ EnterInner
  \/ Top.at = "leave inner" /\ point = "send"
  \/ Top.at = "leave outer" /\ point = "leave app context"

Transition(frame) ==
  \/ frame.exc /\ frame.queue = Top.queue /\ frame.at \in Leaving
  \/ /\ ~frame.exc /\ ~Top.exc
     /\ \/ frame.queue = Top.queue /\ (Passes(frame.at) \/ Enters(frame.at))
        \/ Takes(frame) \/ Sends(frame)

LEMMA CallMoves ==
  ASSUME ServerInv, QuietStep \/ BlockStep
  PROVE  \E frame \in Frames : Moves(frame) /\ Transition(frame)
<1>1. CASE QuietStep
  <2>1. PICK frame \in Frames : Moves(frame) /\ Carries(frame)
    BY <1>1, QuietMoves
  <2>2. Transition(frame)
    BY <2>1 DEF Carries, Transition, Moves
  <2> QED
    BY <2>1, <2>2
<1>2. CASE BlockStep
  <2>1. ASSUME NEW frame \in Frames, Moves(frame), frame.queue = Top.queue,
               frame.exc \/ (~Top.exc /\ Enters(frame.at))
        PROVE  \E f \in Frames : Moves(f) /\ Transition(f)
    BY <2>1 DEF Transition, Moves
  <2>2. CASE EnterFails \/ LeaveInner
    BY <1>2, <2>1, <2>2, BlockMoves DEF Enters
  <2>3. CASE LeaveOuter
    <3>1. PICK frame \in Frames :
            /\ Moves(frame) /\ Top.at = "leave outer" /\ frame.queue = Top.queue
            /\ frame.at = "leave app context" /\ (~frame.exc => ~Top.exc)
      BY <2>3, BlockMoves
    <3>2. frame.exc \/ (~Top.exc /\ Enters(frame.at))
      BY <3>1 DEF Enters
    <3> QED
      BY <2>1, <3>1, <3>2
  <2>4. ASSUME EnterAppContext \/ EnterOuter \/ EnterInner,
               NEW frame \in Frames, Moves(frame), ~frame.exc, frame.queue = Top.queue,
               Enters(frame.at)
        PROVE  \E f \in Frames : Moves(f) /\ Transition(f)
    BY <2>1, <2>4 DEF Moves
  <2>5. CASE EnterAppContext \/ EnterOuter \/ EnterInner
    <3>1. PICK frame \in Frames :
            /\ Moves(frame) /\ ~frame.exc /\ frame.queue = Top.queue
            /\ \/ Top.at = "app context" /\ frame.at = "outer"
               \/ Top.at = "outer" /\ frame.at = "inner"
               \/ Top.at = "inner" /\ frame.at = "view" /\ EnterInner
      BY <2>5, BlockMoves
    <3>2. Enters(frame.at)
      BY <3>1 DEF Enters
    <3> QED
      BY <2>4, <2>5, <3>1, <3>2
  <2> QED
    BY <1>2, <2>2, <2>3, <2>5 DEF BlockStep
<1> QED
  BY <1>1, <1>2

\* A notification is appended to the list in the server's g.
LEMMA NoteMade ==
  ASSUME ServerInv, NEW n \in Notes, MakeNote(n)
  PROVE  /\ frames # <<>> /\ UNCHANGED <<frames, status, delivered>>
         /\ \/ Top.at = "view" /\ n.during = "view"
            \/ Top.at = "send" /\ n.during = "generator"
         /\ n.by = Active /\ noted' = noted \cup {n}
         /\ notes[ServerContext] \in Seq(Notes)
         /\ notes'[ServerContext] = Append(notes[ServerContext], n)
<1>1. /\ notes \in [AllAppContexts -> Seq(Notes) \cup {Unset}]
      /\ ServerContext \in AllAppContexts
  BY ServerIsContext DEF ServerInv, ContextsInv, TypeOK
<1>2. /\ \/ RunningPart = "view" /\ n.during = "view"
         \/ RunningPart = "generator" /\ n.during = "generator"
      /\ n.by = Active /\ noted' = noted \cup {n} /\ Notify(n)
      /\ UNCHANGED <<frames, status, delivered>>
  BY DEF MakeNote, serving
<1>3. /\ frames # <<>>
      /\ \/ Top.at = "view" /\ n.during = "view"
         \/ Top.at = "send" /\ n.during = "generator"
  BY <1>2, Running DEF At
<1>4. Last(appStack) = ServerContext
  BY <1>3, ServerOnTop
<1>5. /\ notes[ServerContext] # Unset
      /\ notes' = [notes EXCEPT ![ServerContext] = Append(@, n)]
  BY <1>2, <1>4 DEF Notify
<1> QED
  BY <1>1, <1>2, <1>3, <1>5

LEMMA NotesSteps ==
  ASSUME ServerInv, [ServerNext]_allVars
  PROVE  \/ notes'[ServerContext] = notes[ServerContext]
         \/ EnterOuter
         \/ EnterInner /\ notes'[ServerContext] = <<>>
         \/ \E n \in Notes : MakeNote(n)
<1>1. /\ notes \in [AllAppContexts -> Seq(Notes) \cup {Unset}]
      /\ ServerContext \in AllAppContexts
  BY ServerIsContext DEF ServerInv, ContextsInv, TypeOK
<1>2. CASE QuietStep
  BY <1>2, QuietMoves DEF vars
<1>3. CASE EnterAppContext
  BY <1>3 DEF EnterAppContext, EnterApp
<1>4. CASE EnterInner
  <2>1. /\ frames # <<>> /\ Top.at = "inner" /\ EnterRequest(Inner(Active))
        /\ Inner(Active) \in RequestContexts
    BY <1>4, ActiveAt, RequestsApart DEF EnterInner
  <2>2. notes' = [notes EXCEPT ![ServerContext] = <<>>]
    BY <2>1, RequestEntered
  <2> QED
    BY <1>1, <1>4, <2>2
<1>5. CASE EnterFails
  <2>1. PICK r \in RequestContexts : EnterRequestFails(r)
    BY <1>5, ActiveAt, RequestsApart DEF EnterFails
  <2>2. frames # <<>> /\ Top.at # "app context"
    BY <1>5 DEF EnterFails, At
  <2>3. notes' = notes
    BY <2>1, <2>2, RequestNotEntered
  <2> QED
    BY <2>3
<1>6. CASE LeaveInner \/ LeaveOuter
  BY <1>6 DEF LeaveInner, LeaveOuter, ExitRequest
<1>7. CASE LeaveAppContext
  BY <1>7 DEF LeaveAppContext, ExitApp
<1>8. CASE UNCHANGED vars
  BY <1>8 DEF vars
<1>9. \/ UNCHANGED vars
      \/ \E n \in Notes : MakeNote(n)
      \/ QuietStep \/ BlockStep \/ LeaveAppContext
  <2>1. /\ Write => UNCHANGED vars
        /\ \A s \in Stanzas : Receive(s) \/ Ignore(s) => UNCHANGED vars
    BY DEF Write, Ignore, Receive
  <2>2. UNCHANGED allVars => UNCHANGED vars
    BY DEF allVars
  <2> QED
    BY <2>1, <2>2, StepKinds DEF StillStep
<1> QED
  BY <1>2, <1>3, <1>4, <1>5, <1>6, <1>7, <1>8, <1>9 DEF BlockStep

\* How a call comes to where its view has run or runs.
LEMMA InView ==
  ASSUME ServerInv, [ServerNext]_allVars, frames' # <<>>,
         NEW top, top = Top', top.at \in {"view", "process", "drain"}
  PROVE  /\ frames # <<>> /\ Active \in Stanzas /\ Active' = Active
         /\ \/ EnterInner /\ Top.at = "inner" /\ top.at = "view"
            \/ Top.at = "view" /\ top.at = "process" /\ QuietStep
            \/ Top.at = "process" /\ top.at = "drain" /\ QuietStep
            \/ Top.at = top.at /\ UNCHANGED frames /\ (StillStep \/ UNCHANGED allVars)
<1>1. frames \in Seq(Frames) /\ (frames # <<>> => Active \in Stanzas)
  BY TopFrame DEF ServerInv, ServerTypeOK
<1>2. CASE QuietStep \/ BlockStep
  <2>1. PICK frame \in Frames : Moves(frame) /\ Transition(frame)
    BY <1>2, CallMoves
  <2>2. frames # <<>> /\ SetTop(frame) /\ frame.stanza = Active
    BY <2>1 DEF Moves
  <2>3. Top' = frame /\ Active' = Active
    BY <1>1, <2>1, <2>2, TopSet
  <2>4. frame.at \in {"view", "process", "drain"} /\ frame.at \notin Leaving /\ top = frame
    BY <2>3 DEF Leaving
  <2>5. \/ EnterInner /\ Top.at = "inner" /\ frame.at = "view"
        \/ Top.at = "view" /\ frame.at = "process"
        \/ Top.at = "process" /\ frame.at = "drain"
    BY ONLY <2>1, <2>4 DEF Transition, Passes, Enters, Takes, Sends
  <2>6. BlockStep => Top.at \notin {"view", "process"}
    BY DEF BlockStep, EnterAppContext, EnterOuter, EnterInner, EnterFails, LeaveInner,
           LeaveOuter, At
  <2> QED
    BY <1>1, <1>2, <2>2, <2>3, <2>4, <2>5, <2>6
<1>3. CASE \E s \in Stanzas : Receive(s)
  <2>1. PICK new \in Frames : Top' = new /\ new.at = "app context"
    BY <1>3, ReceiveKeeps
  <2> QED
    BY <2>1
<1>4. CASE LeaveAppContext
  <2>1. frames # <<>>
    BY <1>4 DEF LeaveAppContext, At
  <2>2. PICK n \in Nat : Len(frames) = n + 1
    BY <2>1, CallsBelow
  <2>3. /\ frames' \in Seq(Frames) /\ Len(frames') = n
        /\ \A f \in 1 .. n : frames[f].at = "wait"
        /\ \A f \in 1 .. n : frames'[f] = frames[f] \/ frames'[f].at = "leave outer"
    BY <1>4, <2>2, LeaveKeeps
  <2>4. n # 0
    BY ONLY <2>3, EmptySeq, frames' # <<>>
  <2>5. n \in 1 .. n
    BY <2>4
  <2>6. Top' = frames'[n]
    BY <2>3 DEF Top, Last
  <2>7. frames'[n].at \in {"wait", "leave outer"}
    BY ONLY <2>3, <2>5
  <2> QED
    BY <2>6, <2>7
<1>5. CASE StillStep \/ UNCHANGED allVars
  <2>1. UNCHANGED frames
    BY <1>5, StillKeeps
  <2>2. Top' = Top /\ Active' = Active
    BY <2>1 DEF Top, Active
  <2> QED
    BY <1>1, <1>5, <2>1, <2>2
<1> QED
  BY <1>2, <1>3, <1>4, <1>5, StepKinds

\* The notifications of one view stay together, and only they do.
LEMMA NotesOwnKept ==
  ASSUME ServerInv, [ServerNext]_allVars
  PROVE  NotesOwn'
<1>1. PICK made :
        made = [s \in Stanzas |-> {n \in noted' : n.by = s /\ n.during = "view"}]
  OBVIOUS
<1>s. \A s \in Stanzas : Seq(MadeFor(s)) \subseteq Seq(made[s])
  <2>1. noted \subseteq noted'
    BY StoreSteps DEF MakeNote
  <2>2. \A s \in Stanzas : MadeFor(s) \subseteq made[s]
    BY <1>1, <2>1 DEF MadeFor
  <2> QED
    BY <2>2, SequencesOf
<1>2. ASSUME frames' # <<>>, NEW top, top = Top', top.at \in {"view", "process", "drain"}
      PROVE  notes'[ServerContext] \in Seq(made[Active])
  <2>1. /\ frames # <<>> /\ Active \in Stanzas /\ Active' = Active
        /\ \/ EnterInner
           \/ Top.at \in {"view", "process"} /\ QuietStep
           \/ Top.at = top.at /\ (StillStep \/ UNCHANGED allVars)
    BY <1>2, InView
  <2>2. Top.at \in {"view", "process", "drain"} =>
          notes[ServerContext] \in Seq(made[Active])
    BY <1>s, <2>1 DEF ServerInv, NotesOwn
  <2>3. CASE EnterInner
    <3>1. notes'[ServerContext] = <<>>
      <4>1. Inner(Active) \in RequestContexts /\ EnterRequest(Inner(Active))
            /\ Top.at # "app context"
        BY <2>1, <2>3, RequestsApart DEF EnterInner, At
      <4>2. notes' = [notes EXCEPT ![ServerContext] = <<>>]
        BY <2>1, <4>1, RequestEntered
      <4> QED
        BY <4>2, ServerIsContext DEF ServerInv, ContextsInv, TypeOK
    <3> QED
      BY <3>1
  <2>4. CASE QuietStep /\ Top.at \in {"view", "process"}
    BY <2>2, <2>4, QuietMoves DEF vars
  <2>5. CASE Top.at = top.at /\ (StillStep \/ UNCHANGED allVars)
    <3>1. ASSUME NEW n \in Notes, MakeNote(n)
          PROVE  notes'[ServerContext] \in Seq(made[Active])
      <4>1. Top.at = "view" /\ n.during = "view"
        BY <1>2, <2>5, <3>1, NoteMade
      <4>2. n \in made[Active]
        BY <1>1, <2>1, <3>1, <4>1, NoteMade
      <4>3. notes'[ServerContext] = Append(notes[ServerContext], n)
        BY <3>1, NoteMade
      <4> QED
        <5>1. notes[ServerContext] \in Seq(made[Active])
          BY <2>2, <4>1
        <5>2. Append(notes[ServerContext], n) \in Seq(made[Active])
          BY ONLY <4>2, <5>1, AppendProperties, Zenon
        <5> QED
          BY <4>3, <5>2
    <3>2. CASE ~\E n \in Notes : MakeNote(n)
      <4>1. UNCHANGED vars
        BY <2>5, <3>2 DEF StillStep, Write, Ignore, allVars
      <4> QED
        BY <1>2, <2>2, <2>5, <4>1 DEF vars
    <3> QED
      BY <3>1, <3>2
  <2> QED
    BY <2>1, <2>3, <2>4, <2>5
<1>3. \A f \in DOMAIN frames' : /\ frames'[f].stanza \in Stanzas
                              /\ frames'[f].queue \in Seq(made[frames'[f].stanza])
  <2>1. \A f \in DOMAIN frames :
          /\ frames[f].stanza \in Stanzas
          /\ frames[f].queue \in Seq(made[frames[f].stanza])
    <3>1. \A f \in DOMAIN frames : frames[f] \in Frames
      BY DEF ServerInv, ServerTypeOK
    <3>2. \A f \in DOMAIN frames : frames[f].stanza \in Stanzas
      BY ONLY <3>1 DEF Frames
    <3> QED
      BY <1>s, <3>2 DEF ServerInv, NotesOwn
  <2>2. CASE QuietStep \/ BlockStep
    <3>1. PICK frame \in Frames : Moves(frame) /\ Transition(frame)
      BY <2>2, CallMoves
    <3>2. /\ frames # <<>> /\ SetTop(frame) /\ frame.stanza = Active
          /\ frames \in Seq(Frames)
      BY <3>1 DEF Moves, ServerInv, ServerTypeOK
    <3>3. /\ DOMAIN frames' = DOMAIN frames
          /\ \A f \in DOMAIN frames :
               frames'[f] = IF f = Len(frames) THEN frame ELSE frames[f]
      BY <3>1, <3>2, TopSet
    <3>4. /\ Len(frames) \in DOMAIN frames /\ Top = frames[Len(frames)]
          /\ Active \in Stanzas
      BY <3>2, TopFrame
    <3>5. Top.queue \in Seq(made[Active])
      BY <2>1, <3>4 DEF Active
    <3>6. frame.queue \in Seq(made[Active])
      <4>1. CASE Takes(frame)
        BY <1>s, <3>2, <3>4, <4>1, NotesTaken DEF Takes, At
      <4>2. CASE Sends(frame)
        BY <3>5, <4>2, HeadTailProperties DEF Sends
      <4> QED
        BY <3>1, <3>5, <4>1, <4>2 DEF Transition
    <3> QED
      BY ONLY <2>1, <3>2, <3>3, <3>4, <3>6
  <2>3. CASE \E s \in Stanzas : Receive(s)
    <3>1. PICK new \in Frames :
            /\ new.queue = <<>> /\ frames'[Len(frames) + 1] = new
            /\ \A f \in 1 .. Len(frames) : frames'[f] = frames[f]
            /\ DOMAIN frames = 1 .. Len(frames) /\ Len(frames) \in Nat
            /\ DOMAIN frames' = 1 .. Len(frames) + 1
      BY <2>3, ReceiveKeeps
    <3>2. \A f \in DOMAIN frames' : f \in DOMAIN frames \/ f = Len(frames) + 1
      BY <3>1
    <3>3. new.stanza \in Stanzas /\ new.queue \in Seq(made[new.stanza])
      BY <3>1 DEF Frames
    <3> QED
      BY ONLY <2>1, <3>1, <3>2, <3>3
  <2>4. CASE LeaveAppContext
    <3>1. PICK n \in Nat : Len(frames) = n + 1
      BY <2>4, CallsBelow DEF LeaveAppContext, At
    <3>2. /\ DOMAIN frames' = 1 .. n /\ DOMAIN frames = 1 .. n + 1
          /\ \A f \in 1 .. n : /\ frames'[f].stanza = frames[f].stanza
                              /\ frames'[f].queue = frames[f].queue
      BY <2>4, <3>1, LeaveKeeps
    <3>3. \A f \in DOMAIN frames' : f \in DOMAIN frames /\ f \in 1 .. n
      BY <3>1, <3>2
    <3> QED
      BY ONLY <2>1, <3>2, <3>3
  <2>5. CASE StillStep \/ UNCHANGED allVars
    BY <2>1, <2>5, StillKeeps
  <2> QED
    BY <2>2, <2>3, <2>4, <2>5, StepKinds
<1> QED
  <2>1. \A s \in Stanzas : MadeFor(s)' = made[s]
    BY <1>1 DEF MadeFor
  <2> QED
    <3>1. ASSUME frames' # <<>>, NEW top, top = Top', top.at \in {"view", "process", "drain"}
          PROVE  Active' = Active /\ Active \in Stanzas
      BY <3>1, InView
    <3> QED
      BY <1>2, <1>3, <2>1, <3>1 DEF NotesOwn

\* The steps that move no call leave the sessions alone.
LEMMA StillSessions ==
  ASSUME ServerInv, StillStep \/ UNCHANGED allVars
  PROVE  UNCHANGED <<sess, storage, frames>>
BY DEF StillStep, Write, MakeNote, Ignore, store, allVars

LEMMA SessionOpenKept ==
  ASSUME ServerInv, [ServerNext]_allVars
  PROVE  SessionOpen'
<1>1. /\ sess \in [StanzaContexts -> StanzaContexts \cup {None}]
      /\ storage \in [Jids -> StanzaContexts \cup {None}]
  BY DEF ServerInv, ServerTypeOK
<1>2. ASSUME frames' # <<>>, NEW top, top = Top', top.at \in {"view", "process"}
      PROVE  /\ Active' = Active
             /\ sess'[Inner(Active)] \in StanzaContexts
             /\ storage'[From[Active]] # None =>
                  storage'[From[Active]] = sess'[Inner(Active)]
  <2>1. /\ frames # <<>> /\ Active \in Stanzas /\ Active' = Active
        /\ \/ EnterInner
           \/ Top.at = "view" /\ QuietStep
           \/ Top.at \in {"view", "process"} /\ (StillStep \/ UNCHANGED allVars)
    BY <1>2, InView
  <2>2. Inner(Active) \in StanzaContexts /\ From[Active] \in Jids
    BY <2>1, InnerIsContext
  <2>3. CASE EnterInner
    <3>1. PICK object : object = IF storage[From[Active]] # None
                                  THEN storage[From[Active]] ELSE Inner(Active)
      OBVIOUS
    <3>2. sess' = [sess EXCEPT ![Inner(Active)] = object] /\ storage' = storage
      BY <2>3, <3>1 DEF EnterInner, OpenSession
    <3>3. object \in StanzaContexts
      BY ONLY <1>1, <2>2, <3>1
    <3> QED
      BY ONLY <1>1, <2>1, <2>2, <3>1, <3>2, <3>3
  <2>4. CASE ~EnterInner
    <3>1. UNCHANGED <<sess, storage>> /\ Top.at \in {"view", "process"}
      <4>1. CASE Top.at = "view" /\ QuietStep
        BY <2>4, <4>1, StoreSteps DEF At, ProcessResponse
      <4>2. CASE StillStep \/ UNCHANGED allVars
        BY <2>1, <2>4, <4>2, StillSessions
      <4> QED
        BY <2>1, <2>4, <4>1, <4>2
    <3> QED
      BY <2>1, <3>1 DEF ServerInv, SessionOpen
  <2> QED
    BY <2>3, <2>4
<1> QED
  <2>1. PICK top : top = Top'
    OBVIOUS
  <2>2. frames' # <<>> /\ top.at \in {"view", "process"} =>
             /\ Active' = Active
             /\ sess'[Inner(Active)] \in StanzaContexts
             /\ storage'[From[Active]] # None =>
                  storage'[From[Active]] = sess'[Inner(Active)]
    BY <1>2, <2>1
  <2> QED
    BY <2>1, <2>2 DEF SessionOpen, Inner

-----------------------------------------------------------------------------
(* What views have written.                                                *)

\* What becomes of a stanza in a step.
LEMMA StatusSteps ==
  ASSUME ServerInv, [ServerNext]_allVars, NEW s \in Stanzas
  PROVE  \/ status'[s] = status[s]
         \/ status[s] = "pending"
         \/ /\ LeaveAppContext /\ frames # <<>> /\ s = Active /\ status[s] = "handling"
            /\ status'[s] = IF Top.exc THEN "failed" ELSE "done"
<1>1. status \in [Stanzas -> Statuses] /\ frames \in Seq(Frames)
  BY DEF ServerInv, ServerTypeOK
<1>2. CASE QuietStep \/ BlockStep
  BY <1>2, CallMoves DEF Moves, serving
<1>3. CASE \E r \in Stanzas : Receive(r)
  <2>1. PICK r \in Stanzas :
          status[r] = "pending" /\ status' = [status EXCEPT ![r] = "handling"]
    BY <1>3 DEF Receive
  <2> QED
    BY ONLY <1>1, <2>1, s \in Stanzas
<1>4. CASE LeaveAppContext
  <2>1. frames # <<>> /\ status' = [status EXCEPT ![Active] = IF Top.exc THEN "failed" ELSE "done"]
    BY <1>4 DEF LeaveAppContext, At
  <2>2. Active \in Stanzas /\ status[Active] = "handling"
    BY <1>1, <2>1, TopFrame DEF ServerInv, CallsWait, Active
  <2> QED
    BY <1>1, <1>4, <2>1, <2>2
<1>5. CASE StillStep \/ UNCHANGED allVars
  BY <1>5, StillKeeps
<1> QED
  BY <1>2, <1>3, <1>4, <1>5, StepKinds

LEMMA DataGrows ==
  ASSUME ServerInv, [ServerNext]_allVars, NEW r \in StanzaContexts
  PROVE  data[r] \subseteq data'[r]
<1>1. data \in [StanzaContexts -> SUBSET Writes]
  BY DEF ServerInv, ServerTypeOK
<1>2. CASE Write
  <2>1. PICK object, write : data' = [data EXCEPT ![object] = @ \cup {write}]
    BY <1>2 DEF Write
  <2> QED
    BY ONLY <1>1, <2>1, r \in StanzaContexts
<1> QED
  BY <1>2, StoreSteps

\* What is stored for a sender is never replaced by another session.
LEMMA StoredStays ==
  ASSUME ServerInv, [ServerNext]_allVars, NEW s \in Stanzas, Stored(s)
  PROVE  Stored(s)'
<1>1. /\ storage \in [Jids -> StanzaContexts \cup {None}]
      /\ storage[From[s]] \in StanzaContexts /\ From[s] \in Jids
      /\ <<s, "view">> \in data[storage[From[s]]]
  BY DEF ServerInv, ServerTypeOK, Stored
<1>2. storage'[From[s]] = storage[From[s]]
  <2>1. CASE ProcessResponse
    <3>1. /\ frames # <<>> /\ Top.at = "process" /\ Active \in Stanzas
          /\ storage' = [storage EXCEPT ![From[Active]] = sess[TopOf(reqStack)]]
      BY <2>1, ActiveAt DEF ProcessResponse
    <3>2. TopOf(reqStack) = Inner(Active)
      BY <3>1, OwnRequestOnTop
    <3>3. storage[From[Active]] # None => storage[From[Active]] = sess[Inner(Active)]
      BY <3>1 DEF ServerInv, SessionOpen
    <3> QED
      BY <1>1, <3>1, <3>2, <3>3
  <2> QED
    BY <2>1, StoreSteps
<1>3. data[storage[From[s]]] \subseteq data'[storage[From[s]]]
  BY <1>1, DataGrows
<1> QED
  BY <1>1, <1>2, <1>3 DEF Stored

\* A write of a view is made to the session of its stanza's request.
LEMMA WriteMade ==
  ASSUME ServerInv, Write, NEW s \in Stanzas, <<s, "view">> \in written' \ written
  PROVE  /\ frames # <<>> /\ Active = s /\ status[s] = "handling"
         /\ Top.at = "view" /\ UNCHANGED <<frames, sess, status>>
         /\ <<s, "view">> \in data'[sess[Inner(s)]]
<1>1. /\ RunningPart = "view" \/ RunningPart = "generator"
      /\ data' = [data EXCEPT ![sess[TopOf(reqStack)]] = @ \cup {<<Active, RunningPart>>}]
      /\ written' = written \cup {<<Active, RunningPart>>}
      /\ UNCHANGED <<frames, sess, status>>
  BY DEF Write, serving
<1>2. Active = s /\ RunningPart = "view"
  BY <1>1
<1>3. frames # <<>> /\ Top.at = "view"
  BY <1>2, Running DEF At
<1>4. TopOf(reqStack) = Inner(s)
  BY <1>2, <1>3, OwnRequestOnTop
<1>5. sess[Inner(s)] \in StanzaContexts /\ data \in [StanzaContexts -> SUBSET Writes]
  BY <1>2, <1>3 DEF ServerInv, ServerTypeOK, SessionOpen
<1>6. <<s, "view">> \in data'[sess[Inner(s)]]
  BY <1>1, <1>2, <1>4, <1>5
<1>7. status[s] = "handling"
  <2>1. frames \in Seq(Frames)
    BY DEF ServerInv, ServerTypeOK
  <2>2. Len(frames) \in DOMAIN frames /\ Top = frames[Len(frames)]
    BY <1>3, <2>1, TopFrame
  <2> QED
    BY <1>2, <2>2 DEF ServerInv, CallsWait, Active
<1> QED
  BY <1>1, <1>2, <1>3, <1>6, <1>7

LEMMA WritesKeptKept ==
  ASSUME ServerInv, [ServerNext]_allVars
  PROVE  WritesKept'
<1>1. ASSUME NEW s \in Stanzas, <<s, "view">> \in written' \ written
      PROVE  status'[s] \notin {"pending", "ignored"} /\ WriteKept(s)'
  <2>1. Write
    BY <1>1, StoreSteps
  <2>2. /\ frames' # <<>> /\ status'[s] = "handling"
        /\ <<s, "view">> \in data'[sess'[Inner(s)]]
    BY <1>1, <2>1, WriteMade
  <2>3. PICK top, active : top = Top' /\ active = Active'
    OBVIOUS
  <2>4. active = s /\ top.at = "view"
    BY <1>1, <2>1, <2>3, WriteMade DEF Top, Active
  <2> QED
    BY <2>2, <2>3, <2>4 DEF WriteKept, Inner
<1>2. ASSUME NEW s \in Stanzas, <<s, "view">> \in written
      PROVE  status'[s] \notin {"pending", "ignored"} /\ WriteKept(s)'
  <2>1. status[s] \notin {"pending", "ignored"} /\ WriteKept(s)
    BY <1>2 DEF ServerInv, WritesKept
  <2>2. /\ status'[s] \notin {"pending", "ignored"}
        /\ status[s] = "failed" => status'[s] = "failed"
    BY <2>1, StatusSteps
  <2>3. SUFFICES ASSUME status[s] # "failed", ~Stored(s)
                 PROVE  WriteKept(s)'
    BY <2>2, StoredStays DEF WriteKept
  <2>4. /\ frames # <<>> /\ Active = s
        /\ Top.exc \/ (Top.at \in {"view", "process"} /\ <<s, "view">> \in data[sess[Inner(s)]])
    BY <2>1, <2>3 DEF WriteKept
  <2>5. CASE QuietStep \/ BlockStep
    <3>1. PICK frame \in Frames : Moves(frame) /\ Transition(frame)
      BY <2>5, CallMoves
    <3>2. frames \in Seq(Frames) /\ SetTop(frame) /\ frame.stanza = s
      BY <2>4, <3>1 DEF Moves, ServerInv, ServerTypeOK
    <3>3. frames' # <<>> /\ Top' = frame /\ Active' = s
      BY <2>4, <3>1, <3>2, TopSet
    <3>4. CASE frame.exc
      BY <3>3, <3>4 DEF WriteKept
    <3>5. CASE ~frame.exc
      <4>1. Top.at \in {"view", "process"} /\ <<s, "view">> \in data[sess[Inner(s)]]
        BY <2>4, <3>1, <3>5 DEF Transition
      <4>2. \/ Top.at = "view" /\ frame.at = "process"
            \/ Top.at = "process" /\ ProcessResponse
        BY ONLY <3>1, <3>5, <4>1 DEF Transition, Passes, Enters, Takes, Sends
      <4>3. /\ sess[Inner(s)] \in StanzaContexts /\ sess' = sess
        BY <2>4, <4>1, StoreSteps DEF ServerInv, SessionOpen, At
      <4>4. <<s, "view">> \in data'[sess[Inner(s)]]
        BY <4>1, <4>3, DataGrows
      <4>5. CASE Top.at = "view" /\ frame.at = "process"
        BY <3>3, <4>3, <4>4, <4>5 DEF WriteKept, Inner
      <4>6. CASE ProcessResponse
        <5>1. storage' = [storage EXCEPT ![From[s]] = sess[Inner(s)]]
          BY <2>4, <4>1, <4>6, OwnRequestOnTop DEF ProcessResponse, At
        <5>2. storage \in [Jids -> StanzaContexts \cup {None}] /\ From[s] \in Jids
          BY DEF ServerInv, ServerTypeOK
        <5>3. storage'[From[s]] = sess[Inner(s)]
          BY <5>1, <5>2
        <5> QED
          BY <4>3, <4>4, <5>3 DEF WriteKept, Stored
      <4> QED
        BY <4>2, <4>5, <4>6
    <3> QED
      BY <3>4, <3>5
  <2>6. CASE \E r \in Stanzas : Receive(r)
    <3>1. \A f \in 1 .. Len(frames) : frames[f].at = "wait" /\ ~frames[f].exc
      BY <2>6, ReceiveKeeps
    <3>2. Len(frames) \in 1 .. Len(frames) /\ Top = frames[Len(frames)]
      BY <2>4, TopFrame DEF ServerInv, ServerTypeOK
    <3> QED
      BY <2>4, <3>1, <3>2
  <2>7. CASE LeaveAppContext
    <3>1. Top.at = "leave app context" /\ Top.exc
      BY <2>4, <2>7 DEF LeaveAppContext, At
    <3>2. status' = [status EXCEPT ![s] = "failed"] /\ status \in [Stanzas -> Statuses]
      BY <2>4, <2>7, <3>1 DEF LeaveAppContext, ServerInv, ServerTypeOK
    <3> QED
      BY <3>2 DEF WriteKept
  <2>8. CASE StillStep \/ UNCHANGED allVars
    <3>1. UNCHANGED <<frames, sess>>
      BY <2>8, StillSessions
    <3>2. Top' = Top /\ Active' = Active
      BY <3>1 DEF Top, Active
    <3>3. CASE Top.exc
      BY <2>4, <3>1, <3>2, <3>3 DEF WriteKept
    <3>4. CASE Top.at \in {"view", "process"} /\ <<s, "view">> \in data[sess[Inner(s)]]
      <4>1. sess[Inner(s)] \in StanzaContexts
        BY <2>4, <3>4 DEF ServerInv, SessionOpen
      <4>2. <<s, "view">> \in data'[sess'[Inner(s)]]
        BY <3>1, <3>4, <4>1, DataGrows
      <4> QED
        BY <2>4, <3>1, <3>2, <3>4, <4>2 DEF WriteKept, Inner
    <3> QED
      BY <2>4, <3>3, <3>4
  <2> QED
    BY <2>5, <2>6, <2>7, <2>8, StepKinds
<1> QED
  BY <1>1, <1>2 DEF WritesKept

-----------------------------------------------------------------------------
(* What views have asked to be sent.                                       *)

\* A notification that is still to be sent stays so while no call moves.
LEMMA AppendedStay ==
  ASSUME NEW S, NEW seq \in Seq(S), NEW e \in S, NEW n
  PROVE  /\ Among(n, seq) => Among(n, Append(seq, e))
         /\ Among(e, Append(seq, e))
<1>1. /\ Len(seq) \in Nat /\ DOMAIN seq = 1 .. Len(seq)
      /\ DOMAIN Append(seq, e) = 1 .. Len(seq) + 1
      /\ \A i \in 1 .. Len(seq) : Append(seq, e)[i] = seq[i]
      /\ Append(seq, e)[Len(seq) + 1] = e
  OBVIOUS
<1>2. /\ Len(seq) + 1 \in 1 .. Len(seq) + 1
      /\ \A i \in 1 .. Len(seq) : i \in 1 .. Len(seq) + 1
  BY <1>1
<1> QED
  BY ONLY <1>1, <1>2 DEF Among

LEMMA JoinedStay ==
  ASSUME NEW S, NEW seq \in Seq(S), NEW more \in Seq(S), NEW n,
         Among(n, seq) \/ Among(n, more)
  PROVE  Among(n, seq \o more)
<1>1. /\ Len(seq) \in Nat /\ DOMAIN seq = 1 .. Len(seq)
      /\ Len(more) \in Nat /\ DOMAIN more = 1 .. Len(more)
      /\ DOMAIN (seq \o more) = 1 .. Len(seq) + Len(more)
      /\ \A i \in 1 .. Len(seq) + Len(more) :
           (seq \o more)[i] = IF i <= Len(seq) THEN seq[i] ELSE more[i - Len(seq)]
  OBVIOUS
<1>2. CASE Among(n, seq)
  BY <1>1, <1>2 DEF Among
<1>3. CASE Among(n, more)
  <2>1. PICK i \in 1 .. Len(more) : more[i] = n
    BY <1>1, <1>3 DEF Among
  <2>2. /\ Len(seq) + i \in 1 .. Len(seq) + Len(more) /\ ~(Len(seq) + i <= Len(seq))
        /\ (Len(seq) + i) - Len(seq) = i
    BY <1>1, <2>1
  <2>3. (seq \o more)[Len(seq) + i] = n
    BY <1>1, <2>1, <2>2
  <2> QED
    BY <1>1, <2>2, <2>3 DEF Among
<1> QED
  BY <1>2, <1>3

LEMMA RestStays ==
  ASSUME NEW S, NEW seq \in Seq(S), seq # <<>>, NEW n, Among(n, seq)
  PROVE  n = Head(seq) \/ Among(n, Tail(seq))
<1>1. PICK i \in DOMAIN seq : seq[i] = n
  BY DEF Among
<1>2. /\ Len(seq) \in Nat /\ DOMAIN seq = 1 .. Len(seq) /\ Head(seq) = seq[1]
      /\ DOMAIN Tail(seq) = 1 .. Len(seq) - 1
      /\ \A j \in 1 .. Len(seq) - 1 : Tail(seq)[j] = seq[j + 1]
  BY EmptySeq
<1>3. CASE i # 1
  <2>1. i - 1 \in 1 .. Len(seq) - 1 /\ (i - 1) + 1 = i
    BY <1>1, <1>2, <1>3
  <2>2. Tail(seq)[i - 1] = n
    BY <1>1, <1>2, <2>1
  <2> QED
    BY <1>2, <2>1, <2>2 DEF Among
<1> QED
  BY <1>1, <1>2, <1>3

\* The notifications that a call still has to send, after a step of the call.
LEMMA QueuedStays ==
  ASSUME ServerInv, [ServerNext]_allVars, NEW frame \in Frames,
         Moves(frame), Transition(frame), ~frame.exc, QuietStep \/ BlockStep,
         NEW n, Queued(n, Len(frames))
  PROVE  \/ n \in delivered'
         \/ Among(n, frame.queue)
         \/ frame.at \in {"view", "process", "drain"} /\ Among(n, notes'[ServerContext])
<1>1. /\ frames # <<>> /\ Top = frames[Len(frames)] /\ Active \in Stanzas
      /\ Top.queue \in Seq(MadeFor(Active))
  <2>1. frames # <<>> /\ frames \in Seq(Frames)
    BY DEF Moves, ServerInv, ServerTypeOK
  <2>2. Top = frames[Len(frames)] /\ Active \in Stanzas /\ Len(frames) \in DOMAIN frames
    BY <2>1, TopFrame
  <2> QED
    BY <2>1, <2>2 DEF ServerInv, NotesOwn, Active
<1>2. \/ Among(n, Top.queue)
      \/ Top.at \in {"view", "process", "drain"} /\ Among(n, notes[ServerContext])
  BY <1>1 DEF Queued
<1>3. CASE Takes(frame)
  <2>1. Top.queue \in Seq(MadeFor(Active)) /\ notes[ServerContext] \in Seq(MadeFor(Active))
    BY <1>1, <1>3, NotesTaken DEF Takes, At
  <2> QED
    BY <1>2, <1>3, <2>1, JoinedStay DEF Takes
<1>4. CASE Sends(frame)
  <2>1. Among(n, Top.queue) /\ Top.queue # <<>>
    BY <1>2, <1>4 DEF Sends
  <2>2. n = Head(Top.queue) \/ Among(n, Tail(Top.queue))
    BY <1>1, <2>1, RestStays
  <2> QED
    BY <1>4, <2>2 DEF Sends
<1>5. CASE frame.queue = Top.queue /\ (Passes(frame.at) \/ Enters(frame.at))
  <2>1. SUFFICES ASSUME Top.at \in {"view", "process", "drain"}
                 PROVE  /\ notes'[ServerContext] = notes[ServerContext]
                        /\ frame.at \in {"view", "process", "drain"}
    BY <1>2, <1>5
  <2>2. /\ Top.at \in {"view", "process"} /\ frame.at \in {"process", "drain"}
    BY ONLY <1>5, <2>1 DEF Passes, Enters
  <2>3. QuietStep
    BY <2>1 DEF BlockStep, EnterAppContext, EnterOuter, EnterInner, EnterFails, LeaveInner,
                LeaveOuter, At
  <2> QED
    BY <2>2, <2>3, QuietMoves DEF vars
<1> QED
  BY <1>3, <1>4, <1>5 DEF Transition

LEMMA NoteKeptStays ==
  ASSUME ServerInv, [ServerNext]_allVars, NEW n \in Notes, NoteKept(n)
  PROVE  NoteKept(n)'
<1>1. /\ frames \in Seq(Frames) /\ n.by \in Stanzas
      /\ delivered \subseteq delivered'
  <2>1. n.by \in Stanzas
    BY DEF StanzaNotes
  <2>2. delivered \subseteq delivered'
    BY StoreSteps DEF SendNote
  <2> QED
    BY <2>1, <2>2 DEF ServerInv, ServerTypeOK
<1>2. status[n.by] = "failed" => status'[n.by] = "failed"
  BY <1>1, StatusSteps
<1>3. SUFFICES ASSUME status[n.by] # "failed", n \notin delivered
               PROVE  NoteKept(n)'
  BY <1>1, <1>2 DEF NoteKept
<1>4. PICK f \in DOMAIN frames :
        frames[f].stanza = n.by /\ (frames[f].exc \/ Queued(n, f))
  BY <1>3 DEF NoteKept
<1>5. /\ frames # <<>> /\ Len(frames) \in Nat \ {0} /\ DOMAIN frames = 1 .. Len(frames)
      /\ Top = frames[Len(frames)] /\ Active \in Stanzas
      /\ f # Len(frames) => f \in 1 .. Len(frames) - 1
  <2>1. frames # <<>>
    BY <1>1, <1>4, EmptySeq
  <2>2. /\ Len(frames) \in Nat \ {0} /\ DOMAIN frames = 1 .. Len(frames)
        /\ Top = frames[Len(frames)] /\ Active \in Stanzas
    BY <1>1, <2>1, TopFrame
  <2>3. f # Len(frames) => f \in 1 .. Len(frames) - 1
    BY ONLY <1>4, <2>2
  <2> QED
    BY <2>1, <2>2, <2>3
\* A call that waits has the notification in its queue.
<1>6. ASSUME ~frames[f].exc, frames[f].at = "wait" \/ f # Len(frames)
      PROVE  Among(n, frames[f].queue)
  BY <1>4, <1>6 DEF Queued
<1>7. \A g \in 1 .. Len(frames) - 1 : frames[g].at = "wait" /\ ~frames[g].exc
  BY DEF ServerInv, CallsWait
<1>8. CASE QuietStep \/ BlockStep
  <2>1. PICK frame \in Frames : Moves(frame) /\ Transition(frame)
    BY <1>8, CallMoves
  <2>2. SetTop(frame) /\ frame.stanza = Active
    BY <2>1 DEF Moves
  <2>3. /\ DOMAIN frames' = DOMAIN frames /\ Len(frames') = Len(frames)
        /\ \A g \in DOMAIN frames :
             frames'[g] = IF g = Len(frames) THEN frame ELSE frames[g]
    BY <1>1, <1>5, <2>1, <2>2, TopSet
  <2>4. CASE f # Len(frames)
    <3>1. frames'[f] = frames[f] /\ Among(n, frames[f].queue)
      BY <1>4, <1>5, <1>6, <1>7, <2>3, <2>4
    <3> QED
      BY <1>4, <2>3, <3>1 DEF NoteKept, Queued
  <2>5. CASE f = Len(frames)
    <3>1. frames'[f] = frame /\ frame.stanza = n.by
      BY <1>4, <1>5, <2>2, <2>3, <2>5 DEF Active
    <3>2. CASE frame.exc
      BY <1>4, <2>3, <3>1, <3>2 DEF NoteKept
    <3>3. CASE ~frame.exc
      <4>1. Queued(n, Len(frames))
        BY <1>4, <1>5, <2>1, <2>5, <3>3 DEF Transition
      <4>2. \/ n \in delivered'
            \/ Among(n, frame.queue)
            \/ frame.at \in {"view", "process", "drain"} /\ Among(n, notes'[ServerContext])
        BY <1>8, <2>1, <3>3, <4>1, QueuedStays
      <4> QED
        BY <1>4, <2>3, <2>5, <3>1, <4>2 DEF NoteKept, Queued
    <3> QED
      BY <3>2, <3>3
  <2> QED
    BY <2>4, <2>5
<1>9. CASE \E s \in Stanzas : Receive(s)
  <2>1. /\ DOMAIN frames' = 1 .. Len(frames) + 1
        /\ \A g \in 1 .. Len(frames) : frames'[g] = frames[g]
        /\ \A g \in 1 .. Len(frames) : frames[g].at = "wait" /\ ~frames[g].exc
    BY <1>9, ReceiveKeeps
  <2>2. f \in DOMAIN frames' /\ frames'[f] = frames[f]
    BY <1>4, <1>5, <2>1
  <2>3. Among(n, frames[f].queue)
    BY <1>4, <1>5, <1>6, <2>1
  <2> QED
    BY <1>4, <2>2, <2>3 DEF NoteKept, Queued
<1>10. CASE LeaveAppContext
  <2>1. PICK m \in Nat : Len(frames) = m + 1
    BY <1>5, CallsBelow
  <2>2. /\ Top.at = "leave app context" /\ DOMAIN frames' = 1 .. m
        /\ \A g \in 1 .. m : /\ frames'[g].stanza = frames[g].stanza
                             /\ frames'[g].queue = frames[g].queue
        /\ status' = [status EXCEPT ![Active] = IF Top.exc THEN "failed" ELSE "done"]
        /\ status \in [Stanzas -> Statuses]
    BY <1>10, <2>1, LeaveKeeps DEF ServerInv, ServerTypeOK
  <2>3. CASE f = Len(frames)
    <3>1. Active = n.by
      BY <1>4, <1>5, <2>3 DEF Active
    <3>2. CASE Top.exc
      <4>1. status'[n.by] = "failed"
        BY ONLY <1>1, <2>2, <3>1, <3>2
      <4> QED
        BY <4>1 DEF NoteKept
    <3>3. CASE ~Top.exc
      <4>1. Top.queue = <<>>
        BY <1>5, <2>2, <3>3 DEF ServerInv, NotesKept
      <4>2. Among(n, Top.queue)
        BY <1>4, <1>5, <2>2, <2>3, <3>3 DEF Queued
      <4> QED
        BY <4>1, <4>2 DEF Among
    <3> QED
      BY <3>2, <3>3
  <2>4. CASE f # Len(frames)
    <3>1. f \in 1 .. m
      BY <1>5, <2>1, <2>4
    <3>2. Among(n, frames'[f].queue) /\ frames'[f].stanza = n.by
      BY <1>4, <1>5, <1>6, <1>7, <2>2, <2>4, <3>1
    <3> QED
      BY <2>2, <3>1, <3>2 DEF NoteKept, Queued
  <2> QED
    BY ONLY <2>3, <2>4
<1>11. CASE StillStep \/ UNCHANGED allVars
  <2>1. UNCHANGED frames
    BY <1>11, StillKeeps
  <2>2. CASE frames[f].exc \/ Among(n, frames[f].queue)
    BY <1>4, <2>1, <2>2 DEF NoteKept, Queued
  <2>3. CASE /\ f = Len(frames) /\ frames[f].at \in {"view", "process", "drain"}
             /\ Among(n, notes[ServerContext])
    <3>1. ASSUME NEW new \in Notes, MakeNote(new)
          PROVE  Among(n, notes'[ServerContext])
      <4>1. /\ notes[ServerContext] \in Seq(Notes)
            /\ notes'[ServerContext] = Append(notes[ServerContext], new)
        BY <3>1, NoteMade
      <4>2. Among(n, Append(notes[ServerContext], new))
        BY <2>3, <4>1, AppendedStay
      <4> QED
        BY <4>1, <4>2
    <3>2. Among(n, notes'[ServerContext])
      <4>1. CASE UNCHANGED vars
        BY <2>3, <4>1 DEF vars
      <4>2. UNCHANGED vars \/ \E new \in Notes : MakeNote(new)
        BY <1>11 DEF StillStep, Write, Ignore, allVars
      <4> QED
        BY <3>1, <4>1, <4>2
    <3> QED
      BY <1>4, <2>1, <2>3, <3>2 DEF NoteKept, Queued
  <2> QED
    BY <1>4, <2>2, <2>3 DEF Queued
<1> QED
  BY <1>8, <1>9, <1>10, <1>11, StepKinds

LEMMA NotesKeptKept ==
  ASSUME ServerInv, [ServerNext]_allVars
  PROVE  NotesKept'
<1>1. /\ frames \in Seq(Frames) /\ noted \subseteq Notes
      /\ \A n \in Notes : n.by \in Stanzas
  BY DEF ServerInv, ServerTypeOK, StanzaNotes
<1>2. ASSUME NEW n \in noted, n.during = "view"
      PROVE  status'[n.by] \notin {"pending", "ignored"} /\ NoteKept(n)'
  <2>1. status[n.by] \notin {"pending", "ignored"} /\ NoteKept(n)
    BY <1>2 DEF ServerInv, NotesKept
  <2> QED
    BY <1>1, <1>2, <2>1, StatusSteps, NoteKeptStays
<1>3. ASSUME NEW n \in Notes, MakeNote(n), n.during = "view"
      PROVE  status'[n.by] \notin {"pending", "ignored"} /\ NoteKept(n)'
  <2>1. /\ frames # <<>> /\ UNCHANGED <<frames, status>> /\ Top.at = "view"
        /\ n.by = Active /\ notes[ServerContext] \in Seq(Notes)
        /\ notes'[ServerContext] = Append(notes[ServerContext], n)
    BY <1>3, NoteMade
  <2>2. Len(frames) \in DOMAIN frames /\ Top = frames[Len(frames)]
    BY <1>1, <2>1, TopFrame
  <2>3. frames[Len(frames)].stanza = n.by /\ status[n.by] = "handling"
    BY <2>1, <2>2 DEF ServerInv, CallsWait, Active
  <2>4. Among(n, notes'[ServerContext])
    BY <2>1, AppendedStay
  <2> QED
    BY <2>1, <2>2, <2>3, <2>4 DEF NoteKept, Queued
<1>4. \A n \in noted' : n.during = "view" =>
        status'[n.by] \notin {"pending", "ignored"} /\ NoteKept(n)'
  <2>1. CASE noted' = noted
    BY <1>2, <2>1
  <2>2. ASSUME NEW m \in Notes, MakeNote(m)
        PROVE  \A n \in noted' : n.during = "view" =>
                 status'[n.by] \notin {"pending", "ignored"} /\ NoteKept(n)'
    <3>1. noted' = noted \cup {m}
      BY <2>2, NoteMade
    <3> QED
      BY <1>2, <1>3, <2>2, <3>1
  <2> QED
    BY <2>1, <2>2, StoreSteps
<1>5. ASSUME frames' # <<>>, NEW top, top = Top', ~top.exc,
             top.at \in {"leave outer", "leave app context"}
      PROVE  top.queue = <<>>
  <2>1. CASE QuietStep \/ BlockStep
    <3>1. PICK frame \in Frames : Moves(frame) /\ Transition(frame)
      BY <2>1, CallMoves
    <3>2. top = frame /\ frames # <<>>
      BY <1>1, <1>5, <3>1, TopSet DEF Moves
    <3>3. ~Top.exc /\ Top.at = "leave outer" => Top.queue = <<>>
      BY <3>2 DEF ServerInv, NotesKept
    <3> QED
      BY ONLY <1>5, <3>1, <3>2, <3>3 DEF Transition, Takes, Sends, Passes, Enters
  <2>2. CASE \E s \in Stanzas : Receive(s)
    <3>1. PICK new \in Frames : Top' = new /\ new.queue = <<>>
      BY <2>2, ReceiveKeeps
    <3> QED
      BY <1>5, <3>1
  <2>3. CASE LeaveAppContext
    <3>1. PICK m \in Nat : Len(frames) = m + 1
      BY <2>3, CallsBelow DEF LeaveAppContext, At
    <3>2. /\ frames' \in Seq(Frames) /\ Len(frames') = m
          /\ \A g \in 1 .. m : /\ frames[g].at = "wait"
                               /\ \/ frames'[g] = frames[g]
                                  \/ frames'[g].exc = TRUE
      BY <2>3, <3>1, LeaveKeeps
    <3>3. m # 0
      <4>1. frames' # <<>>
        BY <1>5
      <4> QED
        BY ONLY <3>2, <4>1, EmptySeq
    <3>4. Top' = frames'[m]
      BY <3>2 DEF Top, Last
    <3>5. m \in 1 .. m
      BY <3>3
    <3> QED
      BY <1>5, <3>2, <3>4, <3>5
  <2>4. CASE StillStep \/ UNCHANGED allVars
    <3>1. UNCHANGED frames
      BY <2>4, StillKeeps
    <3>2. Top' = Top
      BY <3>1 DEF Top
    <3> QED
      BY <1>5, <3>1, <3>2 DEF ServerInv, NotesKept
  <2> QED
    BY <2>1, <2>2, <2>3, <2>4, StepKinds
<1> QED
  BY <1>4, <1>5 DEF NotesKept

-----------------------------------------------------------------------------
(* The invariant.                                                          *)

LEMMA InitServerInv == ServerInit => ServerInv
<1> SUFFICES ASSUME ServerInit PROVE ServerInv
  OBVIOUS
<1>1. /\ Init /\ frames = <<>> /\ noted = {} /\ delivered = {} /\ written = {}
      /\ engine \in Engines /\ running = TRUE /\ openFailed = FALSE
      /\ status = [s \in Stanzas |-> "pending"]
      /\ sess = [r \in StanzaContexts |-> None]
      /\ storage = [j \in Jids |-> None] /\ data = [r \in StanzaContexts |-> {}]
  BY DEF ServerInit
<1>2. ContextsInv /\ NestingInv
  BY <1>1, InitContextsInv, InitNestingInv
<1>3. frames \in Seq(Frames) /\ Len(frames) = 0 /\ DOMAIN frames = {}
  BY <1>1
<1>4. ServerTypeOK
  BY <1>1, <1>2, <1>3 DEF ServerTypeOK, ContextsInv, Statuses
<1>5. CallsWait /\ NotesOwn /\ SessionOpen /\ WritesKept /\ NotesKept
  BY <1>1, <1>3 DEF CallsWait, NotesOwn, SessionOpen, WritesKept, NotesKept
<1>6. ServerStacked
  <2>1. /\ appStack = <<>> /\ blocks = <<>>
        /\ implicit = [r \in RequestContexts |-> <<>>]
        /\ life = [c \in Contexts |-> "new"]
    BY <1>1 DEF Init
  <2>2. AppDepth = 0 /\ RequestDepth = 0
    BY <1>1 DEF AppDepth, RequestDepth
  <2>3. Len(appStack) = AppDepth /\ Len(blocks) = AppDepth + RequestDepth
    BY <2>1, <2>2
  <2>4. life[ServerContext] = "new"
    BY <2>1, RequestsApart
  <2> QED
    BY <1>2, <2>1, <2>3, <2>4 DEF ServerStacked
<1>7. RequestsStacked
  <2>1. reqStack = <<>> /\ RequestDepth = 0
    BY <1>1 DEF Init, RequestDepth
  <2>2. Len(reqStack) = 0 + RequestDepth
    BY <2>1
  <2>3. RequestsAbove(0)
    BY <1>1, <1>3, <2>2 DEF RequestsAbove
  <2> QED
    BY <2>3 DEF RequestsStacked
<1> QED
  BY <1>2, <1>4, <1>5, <1>6, <1>7 DEF ServerInv

LEMMA ServerInvKept ==
  ASSUME ServerInv, [ServerNext]_allVars
  PROVE  ServerInv'
BY TypesKept, CallsKept, RequestsKept, NotesOwnKept, SessionOpenKept, WritesKeptKept,
   NotesKeptKept DEF ServerInv

LEMMA ServerInvAlways == ServerSpec => []ServerInv
BY InitServerInv, ServerInvKept, PTL DEF ServerSpec

-----------------------------------------------------------------------------
\* Whatever raises: the calls, the sessions and the histories keep their form;
\* what is sent was asked for by some view.
THEOREM ServerTypeCorrect == ServerSpec => []ServerTypeOK
<1>1. ServerInv => ServerTypeOK
  BY DEF ServerInv
<1> QED
  BY <1>1, ServerInvAlways, PTL

\* Whatever raises and however deep handle() is re-entered: hooks, views and
\* generators run with the request of their own stanza on top.
THEOREM CodeSeesItsRequest == ServerSpec => []RequestIsOwn
<1>1. ServerInv => RequestIsOwn
  <2> SUFFICES ASSUME ServerInv, RunningPart # "none"
               PROVE  \E r \in StanzaContexts : r[1] = Active /\ TopOf(reqStack) = r
    BY DEF RequestIsOwn
  <2>1. frames # <<>> /\ Top.at \in {"view", "process", "send"}
    BY Running DEF At
  <2>2. /\ Active \in Stanzas
        /\ TopOf(reqStack) = Outer(Active) \/ TopOf(reqStack) = Inner(Active)
    BY <2>1, OwnRequestOnTop
  <2>3. /\ Outer(Active) \in StanzaContexts /\ Outer(Active)[1] = Active
        /\ Inner(Active) \in StanzaContexts /\ Inner(Active)[1] = Active
    BY <2>2, InnerIsContext DEF Outer, Inner
  <2> QED
    BY <2>2, <2>3
<1> QED
  BY <1>1, ServerInvAlways, PTL

\* The queue of a call of handle() holds notifications of its own view only,
\* though all views append to the list in the server's g.
THEOREM QueuesAreOwn == ServerSpec => []QueueIsOwn
<1>1. ServerInv => QueueIsOwn
  <2> SUFFICES ASSUME ServerInv, NEW f \in DOMAIN frames, NEW i \in DOMAIN frames[f].queue
               PROVE  /\ frames[f].queue[i].by = frames[f].stanza
                      /\ frames[f].queue[i].during = "view"
    BY DEF QueueIsOwn
  <2>1. PICK queue \in Seq(MadeFor(frames[f].stanza)) : queue = frames[f].queue
    BY DEF ServerInv, NotesOwn
  <2>2. queue[i] \in MadeFor(frames[f].stanza)
    BY <2>1
  <2> QED
    BY <2>1, <2>2 DEF MadeFor
<1> QED
  BY <1>1, ServerInvAlways, PTL

\* Between stanzas the server's application context is torn down, whatever has
\* raised; without a failed open_session nothing at all is left on the stacks.
THEOREM NothingHeldWhenIdle == ServerSpec => []IdleIsClean
<1>1. ServerInv => IdleIsClean
  <2> SUFFICES ASSUME ServerInv, frames = <<>>
               PROVE  /\ refcnt[ServerContext] = 0
                      /\ life[ServerContext] # "live"
                      /\ ~openFailed => NothingLeftBehind
    BY DEF IdleIsClean
  <2>1. blocks \in Seq(Contexts) /\ RefcntCountsBlocks
    BY DEF ServerInv, ContextsInv, TypeOK
  <2>2. blocks = <<>>
    <3>1. AppDepth = 0 /\ RequestDepth = 0
      BY DEF AppDepth, RequestDepth
    <3>2. Len(blocks) = AppDepth + RequestDepth
      BY DEF ServerInv, ServerStacked
    <3>3. Len(blocks) = 0
      BY <3>1, <3>2
    <3> QED
      BY <2>1, <3>3, EmptySeq
  <2>3. Occurrences(ServerContext, blocks) = 0
    <3>1. \A i \in DOMAIN blocks : blocks[i] # ServerContext
      BY <2>2
    <3> QED
      BY <2>1, <3>1, OccurrencesNat
  <2>4. refcnt[ServerContext] = 0
    BY <2>1, <2>3, ServerIsContext DEF RefcntCountsBlocks
  <2> QED
    BY <2>4, NestingLeavesNothing DEF ServerInv, ServerStacked
<1> QED
  BY <1>1, ServerInvAlways, PTL

\* What the view of a handled stanza has written is in the session stored for
\* its sender, also when other stanzas of that sender were handled below it.
THEOREM WritesAreStored == ServerSpec => []ViewWritesKept
<1>1. ServerInv => ViewWritesKept
  <2> SUFFICES ASSUME ServerInv, NEW s \in Stanzas, status[s] = "done",
                      <<s, "view">> \in written
               PROVE  Stored(s)
    BY DEF ViewWritesKept, Stored
  <2>1. WriteKept(s)
    BY DEF ServerInv, WritesKept
  <2>2. frames # <<>> => Active # s
    <3>1. frames \in Seq(Frames)
      BY DEF ServerInv, ServerTypeOK
    <3>2. frames # <<>> => Len(frames) \in DOMAIN frames /\ Top = frames[Len(frames)]
      BY <3>1, TopFrame
    <3> QED
      BY <3>2 DEF ServerInv, CallsWait, Active
  <2> QED
    BY <2>1, <2>2 DEF WriteKept
<1> QED
  BY <1>1, ServerInvAlways, PTL

\* A stanza that was handled without an exception has sent all notifications of
\* its view, though they pass through a list that other stanzas reset.
THEOREM HandledHaveNotified == ServerSpec => []HandledMeansNotified
<1>1. ServerInv => HandledMeansNotified
  <2> SUFFICES ASSUME ServerInv, NEW n \in noted, n.during = "view", status[n.by] = "done"
               PROVE  n \in delivered
    BY DEF HandledMeansNotified
  <2>1. NoteKept(n)
    BY DEF ServerInv, NotesKept
  <2>2. \A f \in DOMAIN frames : frames[f].stanza # n.by
    BY DEF ServerInv, CallsWait
  <2> QED
    BY <2>1, <2>2 DEF NoteKept
<1> QED
  BY <1>1, ServerInvAlways, PTL

\* The server uses the contexts as module Contexts says: what is proved there
\* for every sequence of calls holds while stanzas are handled.
THEOREM ServerUsesContexts == ServerSpec => Spec
<1>1. ServerInit => Init
  BY DEF ServerInit
<1>2. ASSUME ServerInv, [ServerNext]_allVars
      PROVE  Next \/ UNCHANGED vars
  <2>0. frames # <<>> =>
          Outer(Active) \in RequestContexts /\ Inner(Active) \in RequestContexts
    BY <1>2, TopFrame, RequestsApart DEF ServerInv, ServerTypeOK
  <2>1. CASE EnterAppContext
    BY <2>1, ServerIsContext DEF EnterAppContext, Next
  <2>2. CASE EnterOuter \/ EnterInner
    <3>1. PICK r \in RequestContexts : EnterRequest(r)
      BY <2>0, <2>2 DEF EnterOuter, EnterInner, At
    <3> QED
      BY <3>1 DEF Next
  <2>3. CASE EnterFails
    <3>1. PICK r \in RequestContexts : EnterRequestFails(r)
      BY <2>0, <2>3 DEF EnterFails, At
    <3> QED
      BY <3>1 DEF Next
  <2>4. CASE LeaveInner \/ LeaveOuter
    <3>1. PICK r \in RequestContexts : ExitRequest(r, FALSE)
      BY <2>0, <2>4 DEF LeaveInner, LeaveOuter, At
    <3> QED
      BY <3>1 DEF Next
  <2>5. CASE LeaveAppContext
    BY <2>5, ServerIsContext DEF LeaveAppContext, Next
  <2>6. CASE QuietStep
    BY <1>2, <2>6, QuietMoves
  <2>7. CASE StillStep
    <3>1. UNCHANGED vars \/ \E n \in Notes : Notify(n)
      BY <2>7 DEF StillStep, Write, Ignore, MakeNote
    <3> QED
      BY <3>1 DEF Next
  <2>8. CASE (\E s \in Stanzas : Receive(s)) \/ UNCHANGED allVars
    BY <2>8 DEF Receive, allVars
  <2> QED
    BY <2>1, <2>2, <2>3, <2>4, <2>5, <2>6, <2>7, <2>8, <1>2, StepKinds DEF BlockStep
<1> QED
  BY <1>1, <1>2, ServerInvAlways, PTL DEF ServerSpec, Spec

-----------------------------------------------------------------------------
(* Handling ends.  HandlingEnds itself is left to the runs; what makes it  *)
(* true is proved: there is no endless behaviour, for every step of the    *)
(* server lowers a measure.                                                *)

\* How far the innermost call is from its end: the blocks and statements it has still
\* to pass, then the items and notifications it has still to send.
Way ==
  CASE Top.at = "app context" -> 10
    [] Top.at = "outer" -> 9
    [] Top.at = "inner" -> 8
    [] Top.at = "view" -> 7
    [] Top.at = "process" -> 6
    [] Top.at = "drain" -> 5
    [] Top.at = "leave inner" -> 4
    [] Top.at \in {"send", "wait"} -> 3
    [] Top.at = "notify" -> 2
    [] Top.at = "leave outer" -> 1
    [] Top.at = "leave app context" -> 0

ToSend ==
  2 * Len(Top.items) + (IF Top.at = "wait" THEN 1 ELSE 0) + Len(Top.queue)

Pending == {s \in Stanzas : status[s] = "pending"}

\* The stanzas still to come; the calls in progress, the way the innermost one has
\* before it and what it has to send; and what application code may still do.
Remaining ==
  << Cardinality(Pending),
     Len(frames),
     IF frames = <<>> THEN 0 ELSE Way,
     IF frames = <<>> THEN 0 ELSE ToSend,
     Cardinality(Writes \ written) + Cardinality(Notes \ noted) >>

\* The first number that differs is lower.
Before(u, v) == \E k \in 1 .. 5 : u[k] < v[k] /\ \A i \in 1 .. k - 1 : u[i] = v[i]

MeasureIsNatural == \A k \in 1 .. 5 : Remaining[k] \in Nat
EveryStepAdvances == [][Before(Remaining', Remaining)]_allVars

\* Where the innermost call may go, except to where it sends.
Onward ==
  \/ Top.at = "app context" /\ Top'.at = "outer"
  \/ Top.at = "outer" /\ Top'.at \in {"inner", "leave app context"}
  \/ Top.at = "inner" /\ Top'.at \in {"view", "leave outer"}
  \/ Top.at = "view" /\ Top'.at \in {"process", "leave inner"}
  \/ Top.at = "process" /\ Top'.at \in {"drain", "leave inner"}
  \/ Top.at = "drain" /\ Top'.at = "leave inner"
  \/ Top.at = "leave inner" /\ Top'.at \in {"send", "leave outer"}
  \/ Top.at = "send" /\ Top'.at \in {"notify", "leave outer"}
  \/ Top.at = "notify" /\ Top'.at = "leave outer"
  \/ Top.at = "leave outer" /\ Top'.at = "leave app context"

LEMMA WayAt ==
  /\ Top.at = "app context" => Way = 10
  /\ Top.at = "outer" => Way = 9
  /\ Top.at = "inner" => Way = 8
  /\ Top.at = "view" => Way = 7
  /\ Top.at = "process" => Way = 6
  /\ Top.at = "drain" => Way = 5
  /\ Top.at = "leave inner" => Way = 4
  /\ Top.at = "send" => Way = 3
  /\ Top.at = "wait" => Way = 3
  /\ Top.at = "notify" => Way = 2
  /\ Top.at = "leave outer" => Way = 1
  /\ Top.at = "leave app context" => Way = 0
BY DEF Way

LEMMA WayNext ==
  /\ Top'.at = "app context" => Way' = 10
  /\ Top'.at = "outer" => Way' = 9
  /\ Top'.at = "inner" => Way' = 8
  /\ Top'.at = "view" => Way' = 7
  /\ Top'.at = "process" => Way' = 6
  /\ Top'.at = "drain" => Way' = 5
  /\ Top'.at = "leave inner" => Way' = 4
  /\ Top'.at = "send" => Way' = 3
  /\ Top'.at = "wait" => Way' = 3
  /\ Top'.at = "notify" => Way' = 2
  /\ Top'.at = "leave outer" => Way' = 1
  /\ Top'.at = "leave app context" => Way' = 0
BY DEF Way

LEMMA WayNatural ==
  ASSUME Top.at \in Points
  PROVE  Way \in Nat
<1>1. \/ Way = 10 \/ Way = 9 \/ Way = 8 \/ Way = 7 \/ Way = 6 \/ Way = 5
      \/ Way = 4 \/ Way = 3 \/ Way = 2 \/ Way = 1 \/ Way = 0
  BY ONLY WayAt, Top.at \in Points, Zenon DEF Points
<1> QED
  BY ONLY <1>1

LEMMA OnwardIsShorter ==
  ASSUME Onward
  PROVE  Way' < Way
<1>1. \/ Way = 10 /\ Way' = 9
      \/ Way = 9 /\ (Way' = 8 \/ Way' = 0)
      \/ Way = 8 /\ (Way' = 7 \/ Way' = 1)
      \/ Way = 7 /\ (Way' = 6 \/ Way' = 4)
      \/ Way = 6 /\ (Way' = 5 \/ Way' = 4)
      \/ Way = 5 /\ Way' = 4
      \/ Way = 4 /\ (Way' = 3 \/ Way' = 1)
      \/ Way = 3 /\ (Way' = 2 \/ Way' = 1)
      \/ Way = 2 /\ Way' = 1
      \/ Way = 1 /\ Way' = 0
  BY ONLY Onward, WayAt, WayNext, Zenon DEF Onward
<1> QED
  BY ONLY <1>1

LEMMA ToSendIs ==
  ASSUME Top \in Frames
  PROVE  /\ Len(Top.items) \in Nat /\ Len(Top.queue) \in Nat
         /\ Top.at = "wait" => ToSend = 2 * Len(Top.items) + Len(Top.queue) + 1
         /\ Top.at # "wait" => ToSend = 2 * Len(Top.items) + Len(Top.queue)
         /\ ToSend \in Nat
<1>1. Top.items \in Seq(Items) /\ Top.queue \in Seq(Notes)
  BY DEF Frames
<1>2. PICK n \in Nat, q \in Nat : n = Len(Top.items) /\ q = Len(Top.queue)
  BY ONLY <1>1
<1>3. ToSend = 2 * n + (IF Top.at = "wait" THEN 1 ELSE 0) + q
  BY ONLY <1>2 DEF ToSend
<1>4. \/ Top.at = "wait" /\ ToSend = 2 * n + q + 1
      \/ Top.at # "wait" /\ ToSend = 2 * n + q
  BY ONLY <1>3, n \in Nat, q \in Nat
<1>5. ToSend \in Nat
  BY ONLY <1>4, n \in Nat, q \in Nat
<1> QED
  BY ONLY <1>2, <1>4, <1>5

\* The same of a frame that a step puts on top.
LEMMA ToSendNext ==
  ASSUME NEW frame \in Frames, Top' = frame
  PROVE  /\ Len(frame.items) \in Nat /\ Len(frame.queue) \in Nat
         /\ frame.at = "wait" => ToSend' = 2 * Len(frame.items) + Len(frame.queue) + 1
         /\ frame.at # "wait" => ToSend' = 2 * Len(frame.items) + Len(frame.queue)
<1>1. frame.items \in Seq(Items) /\ frame.queue \in Seq(Notes)
  BY DEF Frames
<1>2. PICK n \in Nat, q \in Nat : n = Len(frame.items) /\ q = Len(frame.queue)
  BY ONLY <1>1
<1>3. ToSend' = 2 * n + (IF frame.at = "wait" THEN 1 ELSE 0) + q
  BY ONLY <1>2, Top' = frame DEF ToSend
<1>4. \/ frame.at = "wait" /\ ToSend' = 2 * n + q + 1
      \/ frame.at # "wait" /\ ToSend' = 2 * n + q
  BY ONLY <1>3, n \in Nat, q \in Nat
<1> QED
  BY ONLY <1>2, <1>4

LEMMA LessToSend ==
  ASSUME Top \in Frames, NEW frame \in Frames, Top' = frame,
         \/ /\ Top.at = "send" /\ frame.at \in {"send", "wait"}
            /\ Len(frame.items) = Len(Top.items) - 1
            /\ Len(frame.queue) = Len(Top.queue)
         \/ /\ Top.at = "wait" /\ frame.at = "send"
            /\ Len(frame.items) = Len(Top.items)
            /\ Len(frame.queue) = Len(Top.queue)
         \/ /\ Top.at = "notify" /\ frame.at = "notify"
            /\ Len(frame.items) = Len(Top.items)
            /\ Len(frame.queue) = Len(Top.queue) - 1
  PROVE  ToSend' < ToSend
<1>1. PICK n \in Nat, q \in Nat, m \in Nat, r \in Nat :
        /\ n = Len(Top.items) /\ q = Len(Top.queue)
        /\ m = Len(frame.items) /\ r = Len(frame.queue)
  BY ToSendIs, ToSendNext
<1>2. /\ Top.at = "wait" => ToSend = 2 * n + q + 1
      /\ Top.at # "wait" => ToSend = 2 * n + q
      /\ frame.at = "wait" => ToSend' = 2 * m + r + 1
      /\ frame.at # "wait" => ToSend' = 2 * m + r
  BY <1>1, ToSendIs, ToSendNext
<1>3. CASE Top.at = "send" /\ m = n - 1 /\ r = q
  <2>1. ToSend = 2 * n + q /\ (ToSend' = 2 * m + r + 1 \/ ToSend' = 2 * m + r)
    BY ONLY <1>2, <1>3, Zenon
  <2>2. m = n - 1 /\ r = q
    BY ONLY <1>3
  <2> QED
    BY ONLY <2>1, <2>2, n \in Nat, m \in Nat, q \in Nat, r \in Nat
<1>4. CASE Top.at = "wait" /\ frame.at = "send" /\ m = n /\ r = q
  <2>1. ToSend = 2 * n + q + 1 /\ ToSend' = 2 * m + r
    BY ONLY <1>2, <1>4, Zenon
  <2>2. m = n /\ r = q
    BY ONLY <1>4
  <2> QED
    BY ONLY <2>1, <2>2, n \in Nat, m \in Nat, q \in Nat, r \in Nat
<1>5. CASE Top.at = "notify" /\ frame.at = "notify" /\ m = n /\ r = q - 1
  <2>1. ToSend = 2 * n + q /\ ToSend' = 2 * m + r
    BY ONLY <1>2, <1>5, Zenon
  <2>2. m = n /\ r = q - 1
    BY ONLY <1>5
  <2> QED
    BY ONLY <2>1, <2>2, n \in Nat, m \in Nat, q \in Nat, r \in Nat
<1> QED
  BY <1>1, <1>3, <1>4, <1>5

LEMMA NotesAreFinite ==
  ASSUME IsFiniteSet(Stanzas)
  PROVE  IsFiniteSet(Writes) /\ IsFiniteSet(Notes)
<1>1. PICK parts, kinds : parts = {"view", "generator"} /\ kinds = {"message", "presence"}
  OBVIOUS
<1>2. IsFiniteSet(parts) /\ IsFiniteSet(kinds)
  <2>1. /\ parts = ({} \cup {"view"}) \cup {"generator"}
        /\ kinds = ({} \cup {"message"}) \cup {"presence"}
    BY <1>1
  <2> QED
    BY ONLY <2>1, FS_EmptySet, FS_AddElement
<1>3. IsFiniteSet(Stanzas \X parts)
  BY <1>2, FS_Product
<1>4. IsFiniteSet((Stanzas \X parts) \X kinds)
  BY ONLY <1>2, <1>3, FS_Product
<1>5. PICK triple : triple = [n \in Notes |-> << <<n.by, n.during>>, n.kind>>]
  OBVIOUS
<1>6. triple \in Injection(Notes, (Stanzas \X parts) \X kinds)
  <2>1. /\ \A n \in Notes : n.by \in Stanzas /\ n.during \in parts /\ n.kind \in kinds
        /\ \A n, m \in Notes :
             n.by = m.by /\ n.during = m.during /\ n.kind = m.kind => n = m
    BY <1>1 DEF StanzaNotes
  <2>2. triple \in [Notes -> (Stanzas \X parts) \X kinds]
    BY ONLY <1>5, <2>1
  <2> QED
    BY ONLY <1>5, <2>1, <2>2 DEF Injection, IsInjective
<1>7. IsFiniteSet(Notes)
  BY ONLY <1>4, <1>6, FS_Injection
<1> QED
  BY <1>1, <1>3, <1>7 DEF Writes

Unmade == Cardinality(Writes \ written) + Cardinality(Notes \ noted)

LEMMA RemainingParts ==
  /\ Remaining[1] = Cardinality(Pending)
  /\ Remaining[2] = Len(frames)
  /\ Remaining[3] = IF frames = <<>> THEN 0 ELSE Way
  /\ Remaining[4] = IF frames = <<>> THEN 0 ELSE ToSend
  /\ Remaining[5] = Unmade
BY DEF Remaining, Unmade

LEMMA NaturalMeasure ==
  ASSUME IsFiniteSet(Stanzas), ServerTypeOK
  PROVE  MeasureIsNatural
<1>1. Cardinality(Pending) \in Nat
  <2>1. Pending \subseteq Stanzas
    BY DEF Pending
  <2> QED
    BY ONLY <2>1, IsFiniteSet(Stanzas), FS_Subset, FS_CardinalityType
<1>2. frames \in Seq(Frames) /\ Len(frames) \in Nat
  BY DEF ServerTypeOK
<1>3. frames # <<>> => Way \in Nat /\ ToSend \in Nat
  <2>1. frames # <<>> => Top \in Frames /\ Top.at \in Points
    BY <1>2, TopFrame DEF Frames
  <2> QED
    BY <2>1, WayNatural, ToSendIs
<1>4. Unmade \in Nat
  <2>1. /\ IsFiniteSet(Writes \ written) /\ IsFiniteSet(Notes \ noted)
    BY NotesAreFinite, FS_Subset
  <2> QED
    BY <2>1, FS_CardinalityType DEF Unmade
<1> QED
  BY <1>1, <1>2, <1>3, <1>4, RemainingParts DEF MeasureIsNatural

\* A step of the innermost call that brings it nearer to its end, or lets it send.
LEMMA NearerEnd ==
  ASSUME frames # <<>>, frames' # <<>>, Len(frames') = Len(frames), status' = status,
         Onward \/ (Way' = Way /\ ToSend' < ToSend)
  PROVE  Before(Remaining', Remaining)
<1>1. PICK u, v : u = Remaining' /\ v = Remaining
  OBVIOUS
<1>2. /\ u[1] = v[1] /\ u[2] = v[2]
      /\ u[3] = Way' /\ v[3] = Way /\ u[4] = ToSend' /\ v[4] = ToSend
  BY <1>1 DEF Remaining, Pending
<1>3. \/ u[3] < v[3] /\ \A i \in 1 .. 2 : u[i] = v[i]
      \/ u[4] < v[4] /\ \A i \in 1 .. 3 : u[i] = v[i]
  BY <1>2, OnwardIsShorter
<1> QED
  BY ONLY <1>1, <1>3 DEF Before

LEMMA MovedTop ==
  ASSUME ServerTypeOK, frames # <<>>, NEW frame \in Frames, SetTop(frame)
  PROVE  frames' # <<>> /\ Len(frames') = Len(frames) /\ Top' = frame
BY TopSet DEF ServerTypeOK

LEMMA MovedTo ==
  ASSUME ServerTypeOK, frames # <<>>, NEW point \in Points, Goto(point) \/ RaiseTo(point)
  PROVE  frames' # <<>> /\ Len(frames') = Len(frames) /\ Top'.at = point
<1>1. Top \in Frames
  BY TopFrame DEF ServerTypeOK
<1>2. PICK gone, raised : /\ gone = [Top EXCEPT !.at = point]
                          /\ raised = [Top EXCEPT !.at = point, !.exc = TRUE]
  OBVIOUS
<1>3. /\ gone \in Frames /\ gone.at = point
      /\ raised \in Frames /\ raised.at = point
  <2>1. TRUE \in BOOLEAN
    OBVIOUS
  <2> QED
    BY ONLY <1>1, <1>2, <2>1, PointMoved, point \in Points
<1>4. SetTop(gone) \/ SetTop(raised)
  BY <1>2 DEF Goto, RaiseTo
<1> QED
  BY <1>3, <1>4, MovedTop

LEMMA QuietStepsAdvance ==
  ASSUME ServerInv, QuietStep
  PROVE  Before(Remaining', Remaining)
<1>t. ServerTypeOK
  BY DEF ServerInv
<1>0. UNCHANGED serving
  BY DEF QuietStep, ViewReturns, ViewRaises, ProcessResponse, DrainNotes, SendItem,
         Answered, GeneratorRaises, ResponseSent, SendNote, NotesSent
<1>1. status' = status /\ frames # <<>> /\ Top \in Frames
  BY <1>0, <1>t, Running, TopFrame
  DEF QuietStep, ViewReturns, ViewRaises, ProcessResponse, DrainNotes, SendItem, Answered,
      GeneratorRaises, ResponseSent, SendNote, NotesSent, At, ServerTypeOK, serving
<1>n. ASSUME frames' # <<>>, Len(frames') = Len(frames),
             Onward \/ (Way' = Way /\ ToSend' < ToSend)
      PROVE  Before(Remaining', Remaining)
  BY <1>1, <1>n, NearerEnd
<1>f. ASSUME NEW frame \in Frames, SetTop(frame)
      PROVE  frames' # <<>> /\ Len(frames') = Len(frames) /\ Top' = frame
  BY <1>t, <1>1, <1>f, MovedTop
<1>m. ASSUME NEW point \in Points, Goto(point) \/ RaiseTo(point)
      PROVE  frames' # <<>> /\ Len(frames') = Len(frames) /\ Top'.at = point
  BY <1>t, <1>1, <1>m, MovedTo
<1>p. {"drain", "leave inner", "leave outer", "notify"} \subseteq Points
  BY DEF Points
<1>2. CASE ViewReturns
  <2>1. PICK items \in Responses, lazy \in BOOLEAN :
          SetTop([Top EXCEPT !.at = "process", !.items = items, !.lazy = lazy])
    BY <1>2 DEF ViewReturns
  <2>2. PICK frame : frame = [Top EXCEPT !.at = "process", !.items = items, !.lazy = lazy]
    OBVIOUS
  <2>3. items \in Seq(Items) /\ Top.at = "view"
    BY <1>2, KnownResponses DEF ViewReturns, At
  <2>4. frame \in Frames /\ frame.at = "process"
    BY ONLY <1>1, <2>2, <2>3 DEF Frames, Points
  <2> QED
    BY <1>f, <1>n, <2>1, <2>2, <2>3, <2>4 DEF Onward
<1>3. CASE ViewRaises
  <2>1. Top.at = "view" /\ RaiseTo("leave inner")
    BY <1>3 DEF ViewRaises, At
  <2> QED
    BY <1>m, <1>n, <1>p, <2>1 DEF Onward
<1>4. CASE ProcessResponse
  <2>1. Top.at = "process" /\ (Goto("drain") \/ RaiseTo("leave inner"))
    BY <1>4 DEF ProcessResponse, At
  <2> QED
    BY <1>m, <1>n, <1>p, <2>1 DEF Onward
<1>5. CASE DrainNotes
  <2>1. PICK frame : frame = [Top EXCEPT !.at = "leave inner",
                                         !.queue = @ \o notes[Last(appStack)]]
    OBVIOUS
  <2>2. SetTop(frame) /\ Top.at = "drain"
    BY <1>5, <2>1 DEF DrainNotes, At
  <2>3. frame \in Frames /\ frame.at = "leave inner"
    <3>1. Top.queue \o notes[Last(appStack)] \in Seq(Notes)
      BY <1>5, NotesTaken DEF DrainNotes
    <3> QED
      BY ONLY <1>1, <2>1, <3>1 DEF Frames, Points
  <2> QED
    BY <1>f, <1>n, <2>2, <2>3 DEF Onward
<1>6. CASE SendItem
  <2>1. PICK rest : rest = [Top EXCEPT !.items = Tail(@)]
    OBVIOUS
  <2>2. PICK wait, halt : /\ wait = [rest EXCEPT !.at = "wait"]
                          /\ halt = [rest EXCEPT !.at = "leave outer", !.exc = TRUE]
    OBVIOUS
  <2>3. Top.at = "send" /\ Top.items # <<>> /\ Top.items \in Seq(Items)
    BY <1>1, <1>6 DEF SendItem, At, Frames
  <2>4. Tail(Top.items) \in Seq(Items) /\ Len(Tail(Top.items)) = Len(Top.items) - 1
    BY ONLY <2>3, HeadTailProperties
  <2>5. /\ rest \in Frames /\ rest.at = "send"
        /\ rest.items = Tail(Top.items) /\ rest.queue = Top.queue
    BY ONLY <1>1, <2>1, <2>3, <2>4 DEF Frames
  <2>6. /\ wait \in Frames /\ wait.at = "wait"
        /\ wait.items = Tail(Top.items) /\ wait.queue = Top.queue
    BY ONLY <2>2, <2>5 DEF Frames, Points
  <2>7. halt \in Frames /\ halt.at = "leave outer"
    BY ONLY <2>2, <2>5 DEF Frames, Points
  <2>8. SetTop(rest) \/ SetTop(wait) \/ SetTop(halt)
    <3>1. [rest EXCEPT !.at = "send"] = rest
      BY <2>5 DEF Frames
    <3>2. Head(Top.items) \in Items
      BY ONLY <2>3, HeadTailProperties
    <3> QED
      BY <1>6, <2>1, <2>2, <3>1, <3>2 DEF SendItem, Items
  <2>9. SetTop(rest) \/ SetTop(wait) => ToSend' < ToSend
    <3>1. ASSUME SetTop(rest) PROVE ToSend' < ToSend
      <4>1. Top' = rest
        BY <1>f, <2>5, <3>1
      <4> QED
        BY ONLY <1>1, <2>3, <2>4, <2>5, <4>1, LessToSend
    <3>2. ASSUME SetTop(wait) PROVE ToSend' < ToSend
      <4>1. Top' = wait
        BY <1>f, <2>6, <3>2
      <4> QED
        BY ONLY <1>1, <2>3, <2>4, <2>6, <4>1, LessToSend
    <3> QED
      BY <3>1, <3>2
  <2> QED
    <3>1. CASE SetTop(rest)
      BY <1>f, <1>n, <2>3, <2>5, <2>9, <3>1, WayAt, WayNext
    <3>2. CASE SetTop(wait)
      BY <1>f, <1>n, <2>3, <2>6, <2>9, <3>2, WayAt, WayNext
    <3>3. CASE SetTop(halt)
      BY <1>f, <1>n, <2>3, <2>7, <3>3 DEF Onward
    <3> QED
      BY <2>8, <3>1, <3>2, <3>3
<1>7. CASE Answered
  <2>1. PICK frame : frame = [Top EXCEPT !.at = "send"]
    OBVIOUS
  <2>2. SetTop(frame) /\ Top.at = "wait"
    BY <1>7, <2>1 DEF Answered, At, Goto
  <2>3. /\ frame \in Frames /\ frame.at = "send"
        /\ frame.items = Top.items /\ frame.queue = Top.queue
    BY ONLY <1>1, <2>1 DEF Frames, Points
  <2>4. ToSend' < ToSend
    <3>1. Top' = frame
      BY <1>f, <2>2, <2>3
    <3> QED
      BY ONLY <1>1, <2>2, <2>3, <3>1, LessToSend
  <2> QED
    BY <1>f, <1>n, <2>2, <2>3, <2>4, WayAt, WayNext
<1>8. CASE GeneratorRaises
  <2>1. Top.at = "send" /\ RaiseTo("leave outer")
    BY <1>8, Running DEF GeneratorRaises, At
  <2> QED
    BY <1>m, <1>n, <1>p, <2>1 DEF Onward
<1>9. CASE ResponseSent
  <2>1. Top.at = "send" /\ Goto("notify")
    BY <1>9 DEF ResponseSent, At
  <2> QED
    BY <1>m, <1>n, <1>p, <2>1 DEF Onward
<1>10. CASE SendNote
  <2>1. PICK frame : frame = [Top EXCEPT !.queue = Tail(@)]
    OBVIOUS
  <2>2. Top.at = "notify" /\ Top.queue # <<>> /\ Top.queue \in Seq(Notes)
    BY <1>1, <1>10 DEF SendNote, At, Frames
  <2>3. Tail(Top.queue) \in Seq(Notes) /\ Len(Tail(Top.queue)) = Len(Top.queue) - 1
    BY ONLY <2>2, HeadTailProperties
  <2>4. /\ frame \in Frames /\ frame.at = "notify"
        /\ frame.items = Top.items /\ frame.queue = Tail(Top.queue)
    BY ONLY <1>1, <2>1, <2>2, <2>3 DEF Frames
  <2>5. SetTop(frame) => ToSend' < ToSend
    <3>1. ASSUME SetTop(frame) PROVE Top' = frame
      BY <1>f, <2>4, <3>1
    <3> QED
      BY ONLY <1>1, <2>2, <2>3, <2>4, <3>1, LessToSend
  <2>6. SetTop(frame) \/ RaiseTo("leave outer")
    BY <1>10, <2>1 DEF SendNote
  <2> QED
    <3>1. CASE SetTop(frame)
      BY <1>f, <1>n, <2>2, <2>4, <2>5, <3>1, WayAt, WayNext
    <3>2. CASE RaiseTo("leave outer")
      BY <1>m, <1>n, <1>p, <2>2, <3>2 DEF Onward
    <3> QED
      BY <2>6, <3>1, <3>2
<1>11. CASE NotesSent
  <2>1. Top.at = "notify" /\ Goto("leave outer")
    BY <1>11 DEF NotesSent, At
  <2> QED
    BY <1>m, <1>n, <1>p, <2>1 DEF Onward
<1> QED
  BY <1>2, <1>3, <1>4, <1>5, <1>6, <1>7, <1>8, <1>9, <1>10, <1>11 DEF QuietStep

LEMMA BlockStepsAdvance ==
  ASSUME ServerTypeOK, BlockStep
  PROVE  Before(Remaining', Remaining)
<1>1. status' = status /\ frames # <<>>
  BY DEF BlockStep, EnterAppContext, EnterOuter, EnterInner, EnterFails, LeaveInner,
         LeaveOuter, At, serving
<1>2. ASSUME NEW point \in Points, Goto(point) \/ RaiseTo(point)
      PROVE  frames' # <<>> /\ Len(frames') = Len(frames) /\ Top'.at = point
  BY <1>1, <1>2, MovedTo
<1>3. {"outer", "inner", "view", "leave outer", "leave app context", "send"} \subseteq Points
  BY DEF Points
<1>4. frames' # <<>> /\ Len(frames') = Len(frames) /\ Onward
  <2>1. CASE EnterAppContext
    <3>1. Top.at = "app context" /\ Goto("outer")
      BY <2>1 DEF EnterAppContext, At
    <3> QED
      BY <1>2, <1>3, <3>1 DEF Onward
  <2>2. CASE EnterOuter
    <3>1. Top.at = "outer" /\ Goto("inner")
      BY <2>2 DEF EnterOuter, At
    <3> QED
      BY <1>2, <1>3, <3>1 DEF Onward
  <2>3. CASE EnterInner
    <3>1. Top.at = "inner" /\ Goto("view")
      BY <2>3 DEF EnterInner, At
    <3> QED
      BY <1>2, <1>3, <3>1 DEF Onward
  <2>4. CASE EnterFails
    <3>1. \/ Top.at = "outer" /\ RaiseTo("leave app context")
          \/ Top.at = "inner" /\ RaiseTo("leave outer")
      BY <2>4 DEF EnterFails, At
    <3> QED
      BY <1>2, <1>3, <3>1 DEF Onward
  <2>5. CASE LeaveInner
    <3>1. Top.at = "leave inner" /\ (RaiseTo("leave outer") \/ Goto("send"))
      BY <2>5 DEF LeaveInner, At
    <3> QED
      BY <1>2, <1>3, <3>1 DEF Onward
  <2>6. CASE LeaveOuter
    <3>1. /\ Top.at = "leave outer"
          /\ RaiseTo("leave app context") \/ Goto("leave app context")
      BY <2>6 DEF LeaveOuter, At
    <3> QED
      BY <1>2, <1>3, <3>1 DEF Onward
  <2> QED
    BY <2>1, <2>2, <2>3, <2>4, <2>5, <2>6 DEF BlockStep
<1> QED
  BY <1>1, <1>4, NearerEnd

\* What application code does leaves the calls alone, and it can do each thing once.
LEMMA CodeAdvances ==
  ASSUME IsFiniteSet(Stanzas), ServerTypeOK, Write \/ \E n \in Notes : MakeNote(n)
  PROVE  Before(Remaining', Remaining)
<1>1. UNCHANGED <<status, frames>>
  BY DEF Write, MakeNote, serving
<1>2. /\ Remaining'[1] = Remaining[1] /\ Remaining'[2] = Remaining[2]
      /\ Remaining'[3] = Remaining[3] /\ Remaining'[4] = Remaining[4]
      /\ Remaining'[5] = Unmade' /\ Remaining[5] = Unmade
  <2>1. Top' = Top
    BY <1>1 DEF Top
  <2>2. Pending' = Pending /\ Way' = Way /\ ToSend' = ToSend
    BY ONLY <1>1, <2>1 DEF Pending, Way, ToSend
  <2> QED
    BY ONLY <1>1, <2>2 DEF Remaining, Unmade
<1>3. /\ IsFiniteSet(Writes \ written) /\ IsFiniteSet(Notes \ noted)
  BY NotesAreFinite, FS_Subset
<1>4. Cardinality(Writes \ written) \in Nat /\ Cardinality(Notes \ noted) \in Nat
  BY <1>3, FS_CardinalityType
<1>5. Unmade' < Unmade
  <2>1. CASE Write
    <3>1. PICK w : w \notin written /\ w \in Writes /\ written' = written \cup {w}
      <4>1. Active \in Stanzas
        BY <2>1, Running, TopFrame DEF Write, At, ServerTypeOK
      <4> QED
        BY <2>1, <4>1 DEF Write, Writes
    <3>2. Writes \ written' = (Writes \ written) \ {w} /\ noted' = noted
      BY <2>1, <3>1 DEF Write
    <3>3. Cardinality(Writes \ written') = Cardinality(Writes \ written) - 1
      BY ONLY <1>3, <3>1, <3>2, FS_RemoveElement
    <3> QED
      BY <1>4, <3>2, <3>3 DEF Unmade, Writes
  <2>2. ASSUME NEW n \in Notes, MakeNote(n) PROVE Unmade' < Unmade
    <3>1. n \notin noted /\ noted' = noted \cup {n} /\ written' = written
      BY <2>2 DEF MakeNote
    <3>2. Notes \ noted' = (Notes \ noted) \ {n}
      BY <3>1
    <3>3. Cardinality(Notes \ noted') = Cardinality(Notes \ noted) - 1
      BY ONLY <1>3, <3>1, <3>2, n \in Notes, FS_RemoveElement
    <3> QED
      BY <1>4, <3>1, <3>3 DEF Unmade, Writes
  <2> QED
    BY <2>1, <2>2
<1>6. PICK u, v : u = Remaining' /\ v = Remaining
  OBVIOUS
<1>7. u[5] < v[5] /\ \A i \in 1 .. 4 : u[i] = v[i]
  BY ONLY <1>2, <1>5, <1>6
<1> QED
  BY ONLY <1>6, <1>7 DEF Before

LEMMA ArrivalsAdvance ==
  ASSUME IsFiniteSet(Stanzas), ServerTypeOK, NEW s \in Stanzas, Ignore(s) \/ Receive(s)
  PROVE  Before(Remaining', Remaining)
<1>1. s \in Pending /\ Pending' = Pending \ {s}
  BY DEF Ignore, Receive, Pending, ServerTypeOK
<1>2. IsFiniteSet(Pending)
  BY FS_Subset DEF Pending
<1>3. Cardinality(Pending') < Cardinality(Pending)
  <2>1. Cardinality(Pending \ {s}) = Cardinality(Pending) - 1
    BY ONLY <1>1, <1>2, FS_RemoveElement
  <2>2. Cardinality(Pending) \in Nat
    BY <1>2, FS_CardinalityType
  <2> QED
    BY <1>1, <2>1, <2>2
<1> QED
  <2>1. Remaining'[1] = Cardinality(Pending') /\ Remaining[1] = Cardinality(Pending)
    BY DEF Remaining
  <2>2. PICK u, v : u = Remaining' /\ v = Remaining
    OBVIOUS
  <2>3. u[1] < v[1]
    BY <1>3, <2>1, <2>2
  <2> QED
    BY ONLY <2>2, <2>3 DEF Before

\* A call that ends takes no stanza back to those still to come.
LEMMA EndsAdvance ==
  ASSUME IsFiniteSet(Stanzas), ServerTypeOK, LeaveAppContext
  PROVE  Before(Remaining', Remaining)
<1>1. frames \in Seq(Frames) /\ frames # <<>>
  BY DEF ServerTypeOK, LeaveAppContext, At
<1>2. Len(frames') = Len(frames) - 1 /\ Len(frames) \in Nat
  BY <1>1, TopRemoved, TopFrame
<1>3. Pending' \subseteq Pending
  BY DEF LeaveAppContext, Pending, ServerTypeOK
<1>4. IsFiniteSet(Pending)
  BY FS_Subset DEF Pending
<1>5. Cardinality(Pending') <= Cardinality(Pending)
  BY ONLY <1>3, <1>4, FS_Subset
<1>6. Cardinality(Pending) \in Nat /\ Cardinality(Pending') \in Nat
  BY ONLY <1>3, <1>4, FS_Subset, FS_CardinalityType
<1>7. PICK u, v : u = Remaining' /\ v = Remaining
  OBVIOUS
<1>8. \/ u[1] < v[1]
      \/ u[2] < v[2] /\ u[1] = v[1]
  <2>1. /\ u[1] = Cardinality(Pending') /\ v[1] = Cardinality(Pending)
        /\ u[2] = Len(frames') /\ v[2] = Len(frames)
    BY <1>7 DEF Remaining
  <2> QED
    BY ONLY <1>2, <1>5, <1>6, <2>1
<1> QED
  BY ONLY <1>7, <1>8 DEF Before

\* For finitely many stanzas, however deep they are nested and whatever raises: each
\* step of the server, the arrivals included, lowers a measure of five natural numbers,
\* so there are finitely many steps.  No wait, retry or exception goes round in a circle.
THEOREM HandlingCannotGoOn ==
  ASSUME IsFiniteSet(Stanzas)
  PROVE  ServerSpec => []MeasureIsNatural /\ EveryStepAdvances
<1>1. ServerInv => MeasureIsNatural
  BY NaturalMeasure DEF ServerInv
<1>2. ServerInv /\ [ServerNext]_allVars => [Before(Remaining', Remaining)]_allVars
  <2> SUFFICES ASSUME ServerInv, ServerNext PROVE Before(Remaining', Remaining)
    OBVIOUS
  <2> QED
    BY StepKinds, QuietStepsAdvance, BlockStepsAdvance, CodeAdvances, ArrivalsAdvance,
       EndsAdvance DEF ServerInv, ServerNext, Handler, QuietStep, BlockStep
<1> QED
  BY <1>1, <1>2, ServerInvAlways, PTL DEF ServerSpec, EveryStepAdvances
=============================================================================
