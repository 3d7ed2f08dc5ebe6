----------------------------- MODULE Blueprints -----------------------------
(***************************************************************************)
(* Setting an application up: the decorators of XmppFlask, and blueprints, *)
(* which record functions that run when the blueprint is registered.  A    *)
(* setup is a sequence of steps:                                           *)
(*   [op |-> "hook", kind, func]             app.before_request(f) ...     *)
(*   [op |-> "error", class]                 app.on_error(class)(f)        *)
(*   [op |-> "record", bp, kind, scope, once, func]   bp.before_request(f) *)
(*   [op |-> "register", bp, first]          bp.register(app, {}, first)   *)
(***************************************************************************)
EXTENDS Naturals, Sequences, SequencesExt, FiniteSetsExt

CONSTANTS
  Blueprints,  \* names of blueprints
  AppWide,     \* the key None of the lists of hooks
  Setups       \* the setups looked at

ASSUME AppWideIsNoBlueprint == AppWide \notin Blueprints
ASSUME SetupsAreSequences == \A s \in Setups : s \in Seq({s[i] : i \in DOMAIN s})

VARIABLES
  setup,      \* the setup of the application
  next,       \* the step it is at
  deferred,   \* deferred_functions of each blueprint
  hooks,      \* the lists of the application, as one list with kind and scope
  handlers,   \* exception_handle_funcs: the classes with a handler
  broken      \* an exception has ended the setup

setupVars == <<setup, next, deferred, hooks, handlers, broken>>

\* The attributes of the application to which functions are added.
HookKinds ==
  {"before", "after", "teardown", "teardown_appcontext", "context_processor", "endpoint"}

\* What the decorators of a blueprint record: a function that asks the application for
\* the attribute of that kind, under the blueprint's own key or under None, and that is
\* wrapped by record_once or not.
Recording(kind, own, once) == [kind |-> kind, own |-> own, once |-> once]
Decorators ==
  [route                      |-> Recording("add_url_rule", TRUE, FALSE),
   add_url_rule               |-> Recording("add_url_rule", TRUE, FALSE),
   endpoint                   |-> Recording("endpoint", FALSE, TRUE),
   before_request             |-> Recording("before", TRUE, TRUE),
   before_app_request         |-> Recording("before", FALSE, TRUE),
   after_request              |-> Recording("after", TRUE, TRUE),
   after_app_request          |-> Recording("after", FALSE, TRUE),
   teardown_request           |-> Recording("teardown", TRUE, TRUE),
   teardown_app_request       |-> Recording("teardown", FALSE, TRUE),
   context_processor          |-> Recording("context_processor", TRUE, TRUE),
   app_context_processor      |-> Recording("context_processor", FALSE, TRUE),
   app_errorhandler           |-> Recording("errorhandler", FALSE, TRUE),
   errorhandler               |-> Recording("_register_error_handler", TRUE, TRUE),
   url_value_preprocessor     |-> Recording("url_value_preprocessors", TRUE, TRUE),
   app_url_value_preprocessor |-> Recording("url_value_preprocessor", TRUE, TRUE),
   url_defaults               |-> Recording("url_default_functions", TRUE, TRUE),
   app_url_defaults           |-> Recording("url_default_functions", FALSE, TRUE)]

\* The step of a setup in which a blueprint's decorator is given a function.
RecordStep(bp, decorator, func) ==
  LET d == Decorators[decorator] IN
  [op |-> "record", bp |-> bp, kind |-> d.kind, scope |-> IF d.own THEN bp ELSE AppWide,
   once |-> d.once, func |-> func]

SetupInit ==
  /\ setup \in Setups
  /\ next = 1
  /\ deferred = [b \in Blueprints |-> <<>>]
  /\ hooks = <<>>
  /\ handlers = {}
  /\ broken = FALSE

Step == setup[next]
StepIs(op) == next <= Len(setup) /\ ~broken /\ Step.op = op
SetUp == next > Len(setup) /\ ~broken

Hook(kind, scope, func) == [kind |-> kind, scope |-> scope, func |-> func]

\* The elements of a list at some of its indices, in the order of these.
Sublist(list, indices) ==
  [n \in 1..Cardinality(indices) |->
     list[CHOOSE i \in indices : Cardinality({k \in indices : k <= i}) = n]]

\* The list of one kind under one key, in the order of registration.
HooksFor(kind, scope) ==
  Sublist(hooks, {i \in DOMAIN hooks : hooks[i].kind = kind /\ hooks[i].scope = scope})

Decorate ==
  /\ StepIs("hook")
  /\ hooks' = Append(hooks, Hook(Step.kind, AppWide, Step.func))
  /\ next' = next + 1
  /\ UNCHANGED <<setup, deferred, handlers, broken>>

OnError ==
  /\ StepIs("error")
  /\ handlers' = handlers \cup {Step.class}
  /\ next' = next + 1
  /\ UNCHANGED <<setup, deferred, hooks, broken>>

Record ==
  /\ StepIs("record")
  /\ deferred' = [deferred EXCEPT ![Step.bp] = Append(@, Step)]
  /\ next' = next + 1
  /\ UNCHANGED <<setup, hooks, handlers, broken>>

\* Mutation of CalledBy: record_once calls the function each time.
CalledAlways(bp, first) == deferred[bp]

\* The wrapper of record_once calls the function in the first registration only,
\* which the caller has to say it is.
CalledBy(bp, first) ==
  Sublist(deferred[bp], {i \in DOMAIN deferred[bp] : first \/ ~deferred[bp][i].once})

\* register: the recorded functions run in order until one raises, an AttributeError when
\* the application has no such attribute.
Register ==
  /\ StepIs("register")
  /\ LET called == CalledBy(Step.bp, Step.first)
         raising == {i \in DOMAIN called : called[i].kind \notin HookKinds}
         done == IF raising = {} THEN called ELSE SubSeq(called, 1, Min(raising) - 1)
     IN
     /\ hooks' = hooks \o [i \in DOMAIN done |-> Hook(done[i].kind, done[i].scope, done[i].func)]
     /\ broken' = (raising # {})
  /\ next' = next + 1
  /\ UNCHANGED <<setup, deferred, handlers>>

Configure == Decorate \/ OnError \/ Record \/ Register

-----------------------------------------------------------------------------
\* Step k of a setup registers a blueprint as the first.
FirstOf(steps, k, bp) == steps[k].op = "register" /\ steps[k].bp = bp /\ steps[k].first

\* What the setup asks for: the functions of a kind and scope that were given to the
\* application, or recorded before their blueprint was registered as the first.
Asked(kind, scope) ==
  {setup[i].func : i \in {i \in DOMAIN setup :
     /\ setup[i].op \in {"hook", "record"} /\ setup[i].kind = kind
     /\ \/ setup[i].op = "hook" /\ scope = AppWide
        \/ /\ setup[i].op = "record" /\ setup[i].scope = scope
           /\ \E k \in i + 1 .. Len(setup) : FirstOf(setup, k, setup[i].bp)}}

\* A setup that gives each function once: none is decorated or recorded twice, a
\* blueprint is registered as the first once, and what it records for a list of the
\* application it records once, as its decorators do.
GivenOnce(steps) ==
  /\ \A i \in DOMAIN steps :
       /\ steps[i].op \in {"record", "register"} => steps[i].bp \in Blueprints
       /\ steps[i].op = "record" /\ steps[i].kind \in HookKinds => steps[i].once
  /\ \A i, k \in DOMAIN steps :
       /\ {steps[i].op, steps[k].op} \subseteq {"hook", "record"} =>
            (steps[i].func = steps[k].func => i = k)
       /\ \A bp \in Blueprints : FirstOf(steps, i, bp) /\ FirstOf(steps, k, bp) => i = k
=============================================================================
