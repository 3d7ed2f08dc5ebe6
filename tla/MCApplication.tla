---------------------------- MODULE MCApplication ----------------------------
(***************************************************************************)
(* Application on a small instance: one process whose setup has hooks of   *)
(* every kind, and two that share the session documents.                   *)
(***************************************************************************)
EXTENDS Application

CONSTANTS p1, p2, j1

hook(kind, func) == [op |-> "hook", kind |-> kind, func |-> func]
register(bp, first) == [op |-> "register", bp |-> bp, first |-> first]
error(class) == [op |-> "error", class |-> class]

\* Hooks of the application and of two blueprints, one of them registered twice.
HooksSetup ==
  << hook("before", "f1"), RecordStep("bp", "after_request", "f2"),
     RecordStep("bp", "after_app_request", "f3"), RecordStep("other", "after_request", "f4"),
     RecordStep("bp", "before_request", "f5"),
     register("bp", TRUE), register("other", TRUE), register("bp", FALSE), error("Error") >>

\* Teardown functions of the application, and those of a blueprint for all requests and
\* for its own ones.
TeardownSetup ==
  << RecordStep("bp", "teardown_app_request", "t2"), RecordStep("bp", "teardown_request", "t5"),
     hook("teardown", "t1"), register("bp", TRUE),
     hook("teardown_appcontext", "t3"), hook("teardown_appcontext", "t4") >>

\* A blueprint with a route, which cannot be registered.
RouteSetup ==
  << RecordStep("bp", "before_app_request", "f1"), RecordStep("bp", "route", "f2"),
     register("bp", TRUE) >>

PlainSetup == << error("Exception") >>

MCSetups == {HooksSetup, TeardownSetup, RouteSetup, PlainSetup}
\* A text, a list of two texts, a generator that asks and goes on.
Text == [lazy |-> FALSE, items |-> << <<"hi">> >>]
Texts == [lazy |-> FALSE, items |-> << <<"hi">>, <<"ho">> >>]
Asking == [lazy |-> TRUE, items |-> << <<"version", "them">>, <<"hi">> >>]
MCValues == {Text, Texts, Asking}

deploy(steps, processes, debug, objects, endpoints, values, outside) ==
  [setup |-> steps, processes |-> processes, debug |-> debug, jidObjects |-> objects,
   endpoints |-> endpoints, values |-> values, outside |-> outside]
MCDeployments ==
  {deploy(HooksSetup, {p1}, FALSE, FALSE, Endpoints, MCValues, FALSE),
   deploy(TeardownSetup, {p1}, TRUE, FALSE, Endpoints, {Text}, FALSE),
   deploy(RouteSetup, {p1}, FALSE, FALSE, {"page"}, {Text}, FALSE),
   deploy(PlainSetup, {p1, p2}, FALSE, FALSE, {"page"}, {Text}, TRUE),
   deploy(TeardownSetup, {p1}, FALSE, TRUE, {"bp.page"}, {Text}, FALSE)}

\* One request of a blueprint's page, of an application with teardown functions.
MCTeardownDeployments ==
  {deploy(TeardownSetup, {p1}, FALSE, FALSE, {"bp.page"}, {Text}, FALSE)}

ASSUME GivesOnce == \A s \in MCSetups : GivenOnce(s)

MCBlueprintOf ==
  [e \in {"page", "bp.page"} |-> IF e = "page" THEN AppWide ELSE "bp"]

=============================================================================
