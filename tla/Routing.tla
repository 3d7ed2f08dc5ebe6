------------------------------- MODULE Routing -------------------------------
(***************************************************************************)
(* Rules, their order and the matching of stanzas: xmppflask/routing.py.   *)
(*                                                                         *)
(* A message is a sequence of words.  A word is a text or a number that is *)
(* written with some digits.  A rule is a sequence of parts, as parse_rule *)
(* returns them: a text, or a variable with its converter.  (Texts and     *)
(* values are taken to begin and end between words, and no item of "any"   *)
(* to begin with another one.)                                             *)
(*                                                                         *)
(* The map of rules is shared by the threads that handle stanzas, without  *)
(* a lock, and sorted by the first of them that finds it changed.  While   *)
(* Python sorts a list, it is empty for everybody else.                    *)
(***************************************************************************)
EXTENDS Integers, SequencesExt

CONSTANTS
  Threads,     \* threads that handle stanzas
  Rules,       \* Rule objects
  Declared,    \* what each rule was made with, see RuleFields
  Requests,    \* the stanzas: message, event, type and sender of each
  Request,     \* ... as a function
  None,        \* Python's None
  NoMatch,     \* no value: the rule does not match, or cannot be built
  MaxRules     \* bound: rules in the map

\* Texts and numbers, and what is made of them.
Word ==
  [word : STRING, digits : {0}, value : {0}]
    \cup [word : {""}, digits : Nat \ {0}, value : Nat]
Words == Seq(Word)

\* What parse_rule returns and the weights bind gives it.
RuleParts ==
  [kind : {"text"}, words : Words, weight : Nat]
    \cup [kind : {"default", "string"}, name : STRING, weight : Nat]
    \cup [kind : {"any"}, name : STRING, weight : Nat, items : SUBSET Words]
    \cup [kind : {"int"}, name : STRING, weight : Nat,
           fixed : Nat, min : Int \cup {None}, max : Int \cup {None}]

RuleFields == {"parts", "defaults", "event", "type", "senders", "strict", "greediness"}

ASSUME RulesAreDeclared ==
  /\ DOMAIN Declared = Rules
  /\ \A r \in Rules :
       DOMAIN Declared[r] = RuleFields /\ Declared[r].parts \in Seq(RuleParts)
ASSUME RequestsAreDeclared ==
  /\ DOMAIN Request = Requests
  /\ \A q \in Requests :
       /\ DOMAIN Request[q] = {"message", "event", "type", "sender"}
       /\ Request[q].message \in Words
ASSUME NoMatchIsNoMessage == NoMatch \notin Words
ASSUME NoneIsNoRule == None \notin Rules \cup Requests
ASSUME MaxRulesIsNatural == MaxRules \in Nat

-----------------------------------------------------------------------------
(* Converters.  A value is a number or a text.                             *)

Number(v) == [text |-> <<>>, number |-> v]
Text(words) == [text |-> words, number |-> 0]

\* How unicode() writes a number (below 100).
Written(v) == [word |-> "", digits |-> IF v < 10 THEN 1 ELSE 2, value |-> v]

\* The words the regular expression of a part stands for (of texts without the
\* arguments for their length).
Accepts(part, words) ==
  \/ part.kind = "text" /\ words = part.words
  \/ part.kind = "default" /\ Len(words) = 1
  \/ part.kind = "string" /\ Len(words) >= 1
  \/ part.kind = "any" /\ words \in part.items
  \/ part.kind = "int" /\ Len(words) = 1 /\ words[1].digits > 0

\* to_message: with fixed_digits the number is written out again, padded.
ToMessage(part, words) ==
  IF part.kind # "int" THEN Text(words)
  ELSE LET v == words[1].value
           padded == [Written(v) EXCEPT !.digits = IF @ < part.fixed THEN part.fixed ELSE @]
       IN  IF part.fixed = 0 THEN Number(v) ELSE Text(<<padded>>)

\* to_python, of a value that has a length whenever fixed_digits are asked for.
ToPython(part, value) ==
  IF part.kind # "int" THEN value.text
  ELSE LET v == IF value.text = <<>> THEN value.number ELSE value.text[1].value
       IN  IF \/ part.fixed # 0 /\ value.text[1].digits # part.fixed
              \/ part.min # None /\ v < part.min
              \/ part.max # None /\ v > part.max
           THEN NoMatch
           ELSE <<Written(v)>>

-----------------------------------------------------------------------------
(* Rule.bind, match and build                                              *)

Parts(r) == Declared[r].parts
Variables(r) == {i \in DOMAIN Parts(r) : Parts(r)[i].kind # "text"}
PartOf(r, name) == CHOOSE i \in Variables(r) : Parts(r)[i].name = name
Captured(r) == {Parts(r)[i].name : i \in Variables(r)}
Defaults(r) == IF Declared[r].defaults = None THEN <<>> ELSE Declared[r].defaults
Arguments(r) == Captured(r) \cup DOMAIN Defaults(r)

\* parse_rule: "variable name %r used twice."
ASSUME NamesAreUsedOnce ==
  \A r \in Rules : \A i, k \in Variables(r) : Parts(r)[i].name = Parts(r)[k].name => i = k

\* The ways to cut a message into the parts of a rule: part i is made of the
\* words after cut i - 1 up to cut i.
Segment(m, c, i) == SubSeq(m, c[i - 1] + 1, c[i])
Cuts(r, m) ==
  LET n == Len(Parts(r)) IN
  {c \in [0 .. n -> 0 .. Len(m)] :
     /\ \A i \in 1 .. n : c[i - 1] <= c[i] /\ Accepts(Parts(r)[i], Segment(m, c, i))
     /\ Declared[r].strict => c[0] = 0 /\ c[n] = Len(m)}

\* The one a search finds: leftmost, then every part takes all it can get.
FoundBefore(c, d) ==
  \E i \in DOMAIN c :
    /\ \A k \in 0 .. i - 1 : c[k] = d[k]
    /\ IF i = 0 THEN c[i] < d[i] ELSE c[i] > d[i]
Search(r, m) == CHOOSE c \in Cuts(r, m) : \A d \in Cuts(r, m) : c = d \/ FoundBefore(c, d)

Passes(wanted, given) == wanted = None \/ given = None \/ wanted = given

\* The sender is made a string first, so it is never None.
Admits(r, q) ==
  /\ Passes(Declared[r].event, q.event)
  /\ Passes(Declared[r].type, q.type)
  /\ Declared[r].senders = None \/ q.sender \in Declared[r].senders

\* Rule.match: the values of the arguments; defaults win over what is captured.
RuleMatch(r, q) ==
  IF ~Admits(r, q) \/ Cuts(r, q.message) = {} THEN NoMatch
  ELSE LET c == Search(r, q.message) IN
       [name \in Arguments(r) |->
          IF name \in DOMAIN Defaults(r) THEN Defaults(r)[name]
          ELSE LET i == PartOf(r, name)
               IN  ToMessage(Parts(r)[i], Segment(q.message, c, i))]

\* What each rule answers to each stanza.
MatchOf == [r \in Rules |-> [q \in Requests |-> RuleMatch(r, Request[q])]]

\* Mutation of RuleBuild: the texts between the variables are left out.
RuleBuildValues(r, values) ==
  FlattenSeq([i \in DOMAIN Parts(r) |->
    IF Parts(r)[i].kind = "text" THEN <<>>
    ELSE ToPython(Parts(r)[i], values[Parts(r)[i].name])])

\* Rule.build: the message with these values of the arguments.
RuleBuild(r, values) ==
  LET piece(i) == IF Parts(r)[i].kind = "text" THEN Parts(r)[i].words
                  ELSE ToPython(Parts(r)[i], values[Parts(r)[i].name])
  IN  IF \E i \in DOMAIN Parts(r) : piece(i) = NoMatch THEN NoMatch
      ELSE FlattenSeq([i \in DOMAIN Parts(r) |-> piece(i)])

-----------------------------------------------------------------------------
(* match_compare: whether rule a is to be tried before rule b.             *)

\* The weight of a text is its length, that of a variable is its converter's.
Weights(r) == [i \in DOMAIN Parts(r) |-> Parts(r)[i].weight]

\* Mutation of HeavierFirst: the comparison of weights is the wrong way round.
LighterFirst(v, w) ==
  \/ \E i \in DOMAIN v \cap DOMAIN w : v[i] < w[i] /\ \A k \in 1 .. i - 1 : v[k] = w[k]
  \/ Len(v) > Len(w) /\ \A k \in DOMAIN w : v[k] = w[k]

\* Heavier parts come first, then the longer list.
HeavierFirst(v, w) ==
  \/ \E i \in DOMAIN v \cap DOMAIN w : v[i] > w[i] /\ \A k \in 1 .. i - 1 : v[k] = w[k]
  \/ Len(v) > Len(w) /\ \A k \in DOMAIN w : v[k] = w[k]

\* Rules without arguments, then those without defaults, then greedy ones, then
\* those with fewer arguments.
Rank(r) ==
  <<IF Arguments(r) = {} THEN 0 ELSE 1,
    IF Declared[r].defaults = None THEN 0 ELSE 1,
    -Declared[r].greediness,
    Cardinality(Arguments(r))>>
ASSUME RanksAreNumbers ==
  \A r \in Rules : Weights(r) \in Seq(Nat) /\ Rank(r) \in Seq(Int)

\* A rule that is only a text; of two of them the longer one weighs more.
OnlyText(r) == Len(Parts(r)) = 1 /\ Variables(r) = {}
ASSUME TextsWeighTheirLength ==
  \A r, s \in {x \in Rules : OnlyText(x)} :
    IsStrictPrefix(Parts(s)[1].words, Parts(r)[1].words) => Weights(s)[1] < Weights(r)[1]

LowerFirst(v, w) ==
  \E i \in DOMAIN v : v[i] < w[i] /\ \A k \in 1 .. i - 1 : v[k] = w[k]

Before(a, b) ==
  \/ HeavierFirst(Weights(a), Weights(b))
  \/ Weights(a) = Weights(b) /\ LowerFirst(Rank(a), Rank(b))

\* list.sort is stable: of two rules neither of which is to be tried first, the
\* one that is first in the list stays first.
PrecedesIn(list, i, k) ==
  \/ Before(list[i], list[k])
  \/ ~Before(list[k], list[i]) /\ i < k
Sorted(list) ==
  LET from == CHOOSE f \in Bijection(DOMAIN list, DOMAIN list) :
                \A n, k \in DOMAIN list : n < k => PrecedesIn(list, f[n], f[k])
  IN  [n \in DOMAIN list |-> list[from[n]]]

-----------------------------------------------------------------------------
VARIABLES
  rules,       \* Map._rules
  remap,       \* Map._remap
  registered,  \* history: the rules in the order of add
  pc,          \* where each thread is
  req,         \* the stanza it matches
  saved,       \* the list it is sorting
  at,          \* the position its loop over the rules has reached
  result,      \* the rule it has found and the values of its arguments
  disturbed    \* history: threads whose match has met another one's sort

map == <<rules, remap, registered>>
vars == <<rules, remap, registered, pc, req, saved, at, result, disturbed>>

Locations == {"idle", "update", "sort", "sorting", "sorted", "scan", "done"}
Nothing == [rule |-> None, values |-> <<>>]

TypeOK ==
  /\ rules \in Seq(Rules) /\ registered \in Seq(Rules)
  /\ remap \in BOOLEAN
  /\ pc \in [Threads -> Locations]
  /\ req \in [Threads -> Requests \cup {None}]
  /\ saved \in [Threads -> Seq(Rules)]
  /\ at \in [Threads -> Nat]
  /\ DOMAIN result = Threads
  /\ \A t \in Threads :
       \/ result[t] = Nothing
       \/ /\ result[t].rule \in Rules
          /\ DOMAIN result[t].values = Arguments(result[t].rule)
  /\ disturbed \subseteq Threads

Init ==
  /\ rules = <<>> /\ registered = <<>>
  /\ remap = TRUE
  /\ pc = [t \in Threads |-> "idle"]
  /\ req = [t \in Threads |-> None]
  /\ saved = [t \in Threads |-> <<>>]
  /\ at = [t \in Threads |-> 0]
  /\ result = [t \in Threads |-> Nothing]
  /\ disturbed = {}

Goto(t, from, to) == pc[t] = from /\ pc' = [pc EXCEPT ![t] = to]

\* Mutation of AddRule: the order is not marked as out of date.
AddRuleOnly(r) ==
  /\ \A t \in Threads : pc[t] = "idle"
  /\ ~Contains(registered, r) /\ Len(registered) < MaxRules
  /\ rules' = Append(rules, r)
  /\ registered' = Append(registered, r)
  /\ UNCHANGED <<remap, pc, req, saved, at, result, disturbed>>

\* Map.add, between stanzas.  A rule can be bound once.
AddRule(r) ==
  /\ \A t \in Threads : pc[t] = "idle"
  /\ ~Contains(registered, r) /\ Len(registered) < MaxRules
  /\ rules' = Append(rules, r)
  /\ registered' = Append(registered, r)
  /\ remap' = TRUE
  /\ UNCHANGED <<pc, req, saved, at, result, disturbed>>

Sorting == {t \in Threads : pc[t] = "sorting"}

\* RequestContext.match_request calls MapAdapter.match, which calls Map.update.
Begin(t, q) ==
  /\ Goto(t, "idle", "update")
  /\ req' = [req EXCEPT ![t] = q]
  /\ disturbed' = (disturbed \ {t}) \cup (IF Sorting = {} THEN {} ELSE {t})
  /\ UNCHANGED <<map, saved, at, result>>

\* if self._remap:
Update(t) ==
  /\ \/ remap /\ Goto(t, "update", "sort")
     \/ ~remap /\ Goto(t, "update", "scan")
  /\ at' = [at EXCEPT ![t] = 1]
  /\ UNCHANGED <<map, req, saved, result, disturbed>>

\* self._rules.sort(...): a list that takes comparing is empty meanwhile.  (The
\* lists by endpoint hold the same rules and are sorted the same way.)
BeginSort(t) ==
  /\ Len(rules) > 1
  /\ Goto(t, "sort", "sorting")
  /\ saved' = [saved EXCEPT ![t] = rules]
  /\ rules' = <<>>
  /\ disturbed' = disturbed \cup {u \in Threads \ {t} : pc[u] # "idle"}
  /\ UNCHANGED <<remap, registered, req, at, result>>

SortShort(t) ==
  /\ Len(rules) <= 1
  /\ Goto(t, "sort", "sorted")
  /\ disturbed' = disturbed \cup (IF Sorting = {} THEN {} ELSE {t})
  /\ UNCHANGED <<map, req, saved, at, result>>

EndSort(t) ==
  /\ Goto(t, "sorting", "sorted")
  /\ rules' = Sorted(saved[t])
  /\ saved' = [saved EXCEPT ![t] = <<>>]
  /\ UNCHANGED <<remap, registered, req, at, result, disturbed>>

EndUpdate(t) ==
  /\ Goto(t, "sorted", "scan")
  /\ remap' = FALSE
  /\ UNCHANGED <<rules, registered, req, saved, at, result, disturbed>>

\* for rule in self.map._rules: the loop runs over the list as it is now.
SkipRule(t) ==
  /\ pc[t] = "scan" /\ at[t] <= Len(rules)
  /\ MatchOf[rules[at[t]]][req[t]] = NoMatch
  /\ at' = [at EXCEPT ![t] = @ + 1]
  /\ UNCHANGED <<map, pc, req, saved, result, disturbed>>

\* Mutation of TakeRule: an empty answer is not told from none at all.
TakeRuleAnyway(t) ==
  /\ Goto(t, "scan", "done") /\ at[t] <= Len(rules)
  /\ result' = [result EXCEPT ![t] =
       [rule |-> rules[at[t]],
        values |-> IF MatchOf[rules[at[t]]][req[t]] = NoMatch THEN [none |-> None]
                   ELSE MatchOf[rules[at[t]]][req[t]]]]
  /\ UNCHANGED <<map, req, saved, at, disturbed>>

TakeRule(t) ==
  /\ Goto(t, "scan", "done") /\ at[t] <= Len(rules)
  /\ MatchOf[rules[at[t]]][req[t]] # NoMatch
  /\ result' = [result EXCEPT ![t] =
       [rule |-> rules[at[t]], values |-> MatchOf[rules[at[t]]][req[t]]]]
  /\ UNCHANGED <<map, req, saved, at, disturbed>>

\* raise NotFound()
FindNothing(t) ==
  /\ Goto(t, "scan", "done") /\ at[t] > Len(rules)
  /\ UNCHANGED <<map, req, saved, at, result, disturbed>>

Finish(t) ==
  /\ Goto(t, "done", "idle")
  /\ req' = [req EXCEPT ![t] = None]
  /\ at' = [at EXCEPT ![t] = 0]
  /\ result' = [result EXCEPT ![t] = Nothing]
  /\ disturbed' = disturbed \ {t}
  /\ UNCHANGED <<map, saved>>

Match(t) ==
  \/ Update(t) \/ BeginSort(t) \/ SortShort(t) \/ EndSort(t) \/ EndUpdate(t)
  \/ SkipRule(t) \/ TakeRule(t) \/ FindNothing(t) \/ Finish(t)

Next ==
  \/ \E r \in Rules : AddRule(r)
  \/ \E t \in Threads : Match(t) \/ \E q \in Requests : Begin(t, q)

Spec == Init /\ [][Next]_vars

-----------------------------------------------------------------------------
(* Properties.                                                             *)

\* The rule a stanza should get: the first in the order of match_compare among
\* those that match, and of equal ones the one registered first.
Matching(q) == {i \in DOMAIN registered : MatchOf[registered[i]][q] # NoMatch}
Best(q) ==
  {registered[i] : i \in {j \in Matching(q) :
                           \A k \in Matching(q) \ {j} : PrecedesIn(registered, j, k)}}

\* Unless another thread sorts meanwhile, a stanza gets that rule, and none when
\* there is none: additions, first matches and sorts may come in any order.
BestRuleWins ==
  \A t \in Threads : pc[t] = "done" /\ t \notin disturbed =>
    IF Matching(req[t]) = {} THEN result[t] = Nothing
    ELSE result[t].rule \in Best(req[t])

\* "Needed to match "hello world" rule before "hello" rule": a rule that is only
\* a text never takes a stanza from a longer one that begins with it.
LongerTextWins ==
  \A t \in Threads, r \in Rules :
    pc[t] = "done" /\ t \notin disturbed /\ result[t] # Nothing
      /\ OnlyText(r) /\ OnlyText(result[t].rule)
      /\ IsStrictPrefix(Parts(result[t].rule)[1].words, Parts(r)[1].words)
      /\ Contains(registered, r)
    => MatchOf[r][req[t]] = NoMatch

\* A number whose converter asks for digits or bounds.
Bounded(part) ==
  part.kind = "int" /\ (part.fixed # 0 \/ part.min # None \/ part.max # None)

\* Only variables that take any number stand for numbers.
Literals(part) ==
  IF part.kind = "text" THEN {part.words} ELSE IF part.kind = "any" THEN part.items ELSE {}
NumbersAreVariables(r) ==
  \A i \in DOMAIN Parts(r) : \A words \in Literals(Parts(r)[i]) :
    \A k \in DOMAIN words : words[k].digits = 0

\* What a rule answers to the message built from its answer to a stanza.
AnswerToBuilt ==
  [r \in Rules |-> [q \in Requests |->
    LET values == MatchOf[r][q]
        built == IF values = NoMatch THEN NoMatch ELSE RuleBuild(r, values)
    IN  IF built = NoMatch THEN NoMatch
        ELSE RuleMatch(r, [Request[q] EXCEPT !.message = built])]]

\* build inverts match, though they use the converters the other way round: the
\* message built from the values a stanza has given gives the same values again.
\* (Not the same message: 07 is written 7.)  Of rules that take the whole message,
\* have no bounded number, no default for a variable of their text, and no number
\* but for variables: '<string:a> 7 <int:n> <string:b>' takes "x 7 07 7 b" for "x", 7
\* and "7 b", but "x 7 7 7 b" for "x 7", 7 and "b".
BuildInvertsMatch ==
  \A t \in Threads :
    pc[t] = "done" /\ result[t] # Nothing =>
      LET r == result[t].rule IN
      /\ Declared[r].strict
      /\ \A i \in Variables(r) : ~Bounded(Parts(r)[i])
      /\ Captured(r) \cap DOMAIN Defaults(r) = {}
      /\ NumbersAreVariables(r)
      => AnswerToBuilt[r][req[t]] = result[t].values
=============================================================================
