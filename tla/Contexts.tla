------------------------------ MODULE Contexts ------------------------------
(***************************************************************************)
(* The application and request contexts of xmppflask/ctx.py on the two     *)
(* LocalStacks of xmppflask/globals.py, as one thread sees them.           *)
(*                                                                         *)
(* Contexts are used through "with" blocks.  blocks is the nesting of      *)
(* blocks the thread is inside, innermost last: it is the control state    *)
(* of the callers (the server, the application object, views, tests).      *)
(* The stacks, the reference counts and the implicit application contexts  *)
(* are the data the code keeps.  Entering a block may raise (open_session) *)
(* and so may leaving one (a teardown function); CONSTANT Failures says    *)
(* which of these an instance admits.  An exception unwinds the enclosing  *)
(* blocks or is caught by one of them, so after a raising step any legal   *)
(* next step of the program is allowed.                                    *)
(***************************************************************************)
EXTENDS Integers, SequencesExt

CONSTANTS
  AppContexts,       \* contexts made by app.app_context() and held by a caller
  ImplicitContexts,  \* contexts made by RequestContext.push
  RequestContexts,   \* contexts made by app.request_context(environ)
  AppOf,             \* the application each context belongs to
  NoContext,         \* None
  Unset,             \* g has no _notification_list yet
  Notes,             \* what a view may hand to notify()
  Failures,          \* the calls that may raise, a subset of FailureKinds
  MaxBlocks,         \* bound: nested with blocks
  MaxStack,          \* bound: no call fails with more entries on the two stacks
  MaxNotes           \* bound: notifications collected in one g

FailureKinds == {"open_session", "teardown_request", "teardown_appcontext"}
AllAppContexts == AppContexts \cup ImplicitContexts
Contexts == AllAppContexts \cup RequestContexts

ASSUME DisjointContexts ==
  /\ AppContexts \cap ImplicitContexts = {}
  /\ AllAppContexts \cap RequestContexts = {}
  /\ NoContext \notin Contexts
ASSUME AppOfIsFunction == DOMAIN AppOf = Contexts
ASSUME FailuresAreKnown == Failures \subseteq FailureKinds
ASSUME BoundsAreNatural == {MaxBlocks, MaxStack, MaxNotes} \subseteq Nat
ASSUME UnsetIsNoList == Unset \notin Seq(Notes)

VARIABLES
  appStack,   \* _app_ctx_stack, top last
  reqStack,   \* _request_ctx_stack, top last
  refcnt,     \* AppContext._refcnt
  implicit,   \* RequestContext._implicit_app_ctx_stack
  notes,      \* g._notification_list of each application context
  blocks,     \* contexts whose with block is open, innermost last
  life,       \* "new", "live" since the first push, "torn" once torn down
  wrongPop    \* one of the two "Popped wrong ... context" assertions failed

vars == <<appStack, reqStack, refcnt, implicit, notes, blocks, life, wrongPop>>

TypeOK ==
  /\ appStack \in Seq(AllAppContexts)
  /\ reqStack \in Seq(RequestContexts)
  /\ refcnt \in [AllAppContexts -> Int]
  /\ implicit \in [RequestContexts -> Seq(ImplicitContexts \cup {NoContext})]
  /\ notes \in [AllAppContexts -> Seq(Notes) \cup {Unset}]
  /\ blocks \in Seq(Contexts)
  /\ life \in [Contexts -> {"new", "live", "torn"}]
  /\ wrongPop \in BOOLEAN

Init ==
  /\ appStack = <<>>
  /\ reqStack = <<>>
  /\ refcnt = [a \in AllAppContexts |-> 0]
  /\ implicit = [r \in RequestContexts |-> <<>>]
  /\ notes = [a \in AllAppContexts |-> Unset]
  /\ blocks = <<>>
  /\ life = [c \in Contexts |-> "new"]
  /\ wrongPop = FALSE

-----------------------------------------------------------------------------
\* LocalStack: top is None and pop returns None when nothing is stacked.
TopOf(stack) == IF stack = <<>> THEN NoContext ELSE Last(stack)
PopTop(stack) == IF stack = <<>> THEN <<>> ELSE Front(stack)

InBlock(c) == \E i \in DOMAIN blocks : blocks[i] = c
Innermost(c) == blocks # <<>> /\ Last(blocks) = c

MayFail(kind) ==
  /\ kind \in Failures
  /\ Len(appStack) + Len(reqStack) <= MaxStack

SetLife(cs, phase) == [c \in Contexts |-> IF c \in cs THEN phase ELSE life[c]]

-----------------------------------------------------------------------------
\* Mutation of EnterApp: a context that is already in use is not pushed again.
EnterAppOnce(a) ==
  /\ a \in AppContexts \/ TopOf(appStack) = a
  /\ Len(blocks) < MaxBlocks
  /\ refcnt' = [refcnt EXCEPT ![a] = @ + 1]
  /\ appStack' = IF refcnt[a] > 0 THEN appStack ELSE Append(appStack, a)
  /\ blocks' = Append(blocks, a)
  /\ life' = SetLife({a}, "live")
  /\ UNCHANGED <<reqStack, implicit, notes, wrongPop>>

\* AppContext.__enter__.  An implicit context has no name in the program, but
\* "with _app_ctx_stack.top:" enters it again.
EnterApp(a) ==
  /\ a \in AppContexts \/ TopOf(appStack) = a
  /\ Len(blocks) < MaxBlocks
  /\ refcnt' = [refcnt EXCEPT ![a] = @ + 1]
  /\ appStack' = Append(appStack, a)
  /\ blocks' = Append(blocks, a)
  /\ life' = SetLife({a}, "live")
  /\ UNCHANGED <<reqStack, implicit, notes, wrongPop>>

\* Mutation of TornWithApp: off by one, the last reference does not count.
TornBelowZero(a) == IF refcnt[a] - 1 < 0 THEN {a} ELSE {}

\* The application contexts AppContext.pop tears down: a, when this was the
\* last reference to it.
TornWithApp(a) == IF refcnt[a] - 1 <= 0 THEN {a} ELSE {}

\* Mutation of PopApp: only the last reference takes the context off the stack.
PopAppLast(a, raises) ==
  /\ raises => TornWithApp(a) # {} /\ MayFail("teardown_appcontext")
  /\ refcnt' = [refcnt EXCEPT ![a] = @ - 1]
  /\ appStack' = IF raises \/ TornWithApp(a) = {} THEN appStack ELSE PopTop(appStack)
  /\ wrongPop' = (wrongPop \/ (~raises /\ TopOf(appStack) # a))

\* Mutation of PopApp: the reference is given back after the teardown.
PopAppTornFirst(a, raises) ==
  /\ raises => TornWithApp(a) # {} /\ MayFail("teardown_appcontext")
  /\ refcnt' = IF raises THEN refcnt ELSE [refcnt EXCEPT ![a] = @ - 1]
  /\ appStack' = IF raises THEN appStack ELSE PopTop(appStack)
  /\ wrongPop' = (wrongPop \/ (~raises /\ TopOf(appStack) # a))

\* AppContext.pop: a teardown function that raises leaves the stack alone.
PopApp(a, raises) ==
  /\ raises => TornWithApp(a) # {} /\ MayFail("teardown_appcontext")
  /\ refcnt' = [refcnt EXCEPT ![a] = @ - 1]
  /\ appStack' = IF raises THEN appStack ELSE PopTop(appStack)
  /\ wrongPop' = (wrongPop \/ (~raises /\ TopOf(appStack) # a))

\* AppContext.__exit__
ExitApp(a, raises) ==
  /\ Innermost(a)
  /\ PopApp(a, raises)
  /\ blocks' = Front(blocks)
  /\ life' = SetLife(TornWithApp(a), "torn")
  /\ UNCHANGED <<reqStack, implicit, notes>>

-----------------------------------------------------------------------------
\* Mutation of NeedsAppContext: any application context will do.
NeedsAnyAppContext(r) == appStack = <<>>

NeedsAppContext(r) == appStack = <<>> \/ AppOf[Last(appStack)] # AppOf[r]

\* A new AppContext object: no reference to it is left anywhere.
Fresh(a) ==
  /\ ~InBlock(a)
  /\ \A i \in DOMAIN appStack : appStack[i] # a
  /\ \A r \in RequestContexts :
       \A i \in DOMAIN implicit[r] : implicit[r][i] # a

\* Mutation of ImplicitFor: the level refers to the context that is already there.
ImplicitForTop(r) ==
  IF NeedsAppContext(r)
  THEN {a \in ImplicitContexts : Fresh(a) /\ AppOf[a] = AppOf[r]}
  ELSE {Last(appStack)}

\* The application context RequestContext.push adds: a new one, or none when
\* the top of the stack already serves the request's application.
ImplicitFor(r) ==
  IF NeedsAppContext(r)
  THEN {a \in ImplicitContexts : Fresh(a) /\ AppOf[a] = AppOf[r]}
  ELSE {NoContext}

\* RequestContext.push up to the call of open_session.
PushRequest(r, a) ==
  /\ implicit' = [implicit EXCEPT ![r] = Append(@, a)]
  /\ reqStack' = Append(reqStack, r)
  /\ life' = SetLife({r, a}, "live")
  /\ IF a = NoContext
     THEN UNCHANGED <<appStack, refcnt>>
     ELSE /\ appStack' = Append(appStack, a)
          /\ refcnt' = [refcnt EXCEPT ![a] = 1]

\* Mutation of EnterRequest: a list that g already has is kept.
EnterRequestKeepsNotes(r) ==
  /\ Len(blocks) < MaxBlocks
  /\ \E a \in ImplicitFor(r) :
       /\ PushRequest(r, a)
       /\ notes' = [notes EXCEPT ![Last(appStack')] = IF @ = Unset THEN <<>> ELSE @]
  /\ blocks' = Append(blocks, r)
  /\ UNCHANGED wrongPop

\* RequestContext.__enter__: push, then init_notification_list() on the g of
\* the application context that is now on top.
EnterRequest(r) ==
  /\ Len(blocks) < MaxBlocks
  /\ \E a \in ImplicitFor(r) :
       /\ PushRequest(r, a)
       /\ notes' = [notes EXCEPT ![Last(appStack')] = <<>>]
  /\ blocks' = Append(blocks, r)
  /\ UNCHANGED wrongPop

\* open_session raises inside __enter__: the body never runs, and neither
\* does __exit__, so what push has stacked stays there.
EnterRequestFails(r) ==
  /\ MayFail("open_session")
  /\ Len(blocks) < MaxBlocks
  /\ \E a \in ImplicitFor(r) :
       /\ PushRequest(r, a)
       /\ notes' = IF a = NoContext THEN notes
                   ELSE [notes EXCEPT ![a] = Unset]
  /\ UNCHANGED <<blocks, wrongPop>>

\* Mutation of TornWithRequest: torn down whichever level is popped.
TornAtEveryLevel(r) == {r}

\* The request contexts RequestContext.pop tears down: r, when this was the
\* last level it was pushed at.
TornWithRequest(r) == IF Front(implicit[r]) = <<>> THEN {r} ELSE {}

\* RequestContext.__exit__ when the request's teardown functions return: the
\* implicit application context goes too, unless the assertion fails first.
ExitRequest(r, raises) ==
  LET a == Last(implicit[r])
      popsApp == TopOf(reqStack) = r /\ a # NoContext
  IN
  /\ Innermost(r)
  /\ blocks' = Front(blocks)
  /\ implicit' = [implicit EXCEPT ![r] = Front(@)]
  /\ reqStack' = PopTop(reqStack)
  /\ life' = SetLife(TornWithRequest(r)
                       \cup (IF popsApp THEN TornWithApp(a) ELSE {}), "torn")
  /\ IF popsApp
     THEN PopApp(a, raises)
     ELSE /\ ~raises
          /\ wrongPop' = (wrongPop \/ TopOf(reqStack) # r)
          /\ UNCHANGED <<appStack, refcnt>>
  /\ UNCHANGED notes

\* A teardown function of the request raises: the context stays on the stack
\* and its implicit application context is not popped.
ExitRequestFails(r) ==
  /\ MayFail("teardown_request")
  /\ Innermost(r)
  /\ TornWithRequest(r) # {}
  /\ blocks' = Front(blocks)
  /\ implicit' = [implicit EXCEPT ![r] = Front(@)]
  /\ life' = SetLife({r}, "torn")
  /\ UNCHANGED <<appStack, reqStack, refcnt, notes, wrongPop>>

-----------------------------------------------------------------------------
\* notify(): the g of the application context on top collects the message.
Notify(n) ==
  /\ appStack # <<>>
  /\ LET a == Last(appStack) IN
       /\ notes[a] # Unset
       /\ Len(notes[a]) < MaxNotes
       /\ notes' = [notes EXCEPT ![a] = Append(@, n)]
  /\ UNCHANGED <<appStack, reqStack, refcnt, implicit, blocks, life, wrongPop>>

Next ==
  \/ \E a \in AllAppContexts : EnterApp(a)
  \/ \E a \in AllAppContexts, raises \in BOOLEAN : ExitApp(a, raises)
  \/ \E r \in RequestContexts : EnterRequest(r)
  \/ \E r \in RequestContexts : EnterRequestFails(r)
  \/ \E r \in RequestContexts, raises \in BOOLEAN : ExitRequest(r, raises)
  \/ \E r \in RequestContexts : ExitRequestFails(r)
  \/ \E n \in Notes : Notify(n)

Spec == Init /\ [][Next]_vars

-----------------------------------------------------------------------------
(* Properties.  Occurrences counts the places of c in a sequence.          *)

Occurrences(c, seq) == Cardinality({i \in DOMAIN seq : seq[i] = c})

\* While nothing raises, the two assertions that guard the pops never fail:
\* every with block takes off the stacks exactly what it has put there, also
\* when requests of several applications are nested and re-entered.
PopsMatch == ~wrongPop

\* While nothing raises, _refcnt is the number of times the context is on the
\* stack, for callers' and for implicit contexts.
RefcntCountsPushes ==
  \A a \in AllAppContexts : refcnt[a] = Occurrences(a, appStack)

\* Inside a request's block, the request proxy resolves to that request and
\* current_app to the request's application, however the block was reached.
ProxiesServeInnermost ==
  \A r \in RequestContexts : Innermost(r) =>
    /\ TopOf(reqStack) = r
    /\ appStack # <<>> /\ AppOf[Last(appStack)] = AppOf[r]

\* Outside of all blocks nothing is left bound to the thread and every context
\* that was pushed has been torn down (the tests look at the empty stack).
NothingLeftBehind ==
  blocks = <<>> =>
    /\ appStack = <<>> /\ reqStack = <<>>
    /\ \A r \in RequestContexts : implicit[r] = <<>>
    /\ \A c \in Contexts : life[c] # "live"

\* Whatever raises, teardown functions never run for a context that some with
\* block is still using: "only if the last level is popped we get rid of them".
NoEarlyTeardown ==
  \A c \in Contexts : InBlock(c) => life[c] = "live"

\* Whatever raises, the reference count of a context held by a caller (the
\* server's app_ctx) is the number of its open blocks, so its teardown happens
\* when the outermost one is left.
RefcntCountsBlocks ==
  \A a \in AppContexts : refcnt[a] = Occurrences(a, blocks)

\* The contexts on the request stack are what RequestContext promises: the
\* stack is the nesting of the requests' scopes and a request is torn down
\* exactly when its last scope is left.
Scopes == INSTANCE RequestScope WITH
            Requests <- RequestContexts,
            scopes <- reqStack,
            alive <- {r \in RequestContexts : life[r] = "live"}

RequestsNest == Scopes!Spec
=============================================================================
