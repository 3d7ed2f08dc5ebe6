------------------------------ MODULE MCRouting ------------------------------
(***************************************************************************)
(* Routing on small instances, with rules of the kinds the tests use.      *)
(***************************************************************************)
EXTENDS Routing, TLC

CONSTANTS t1, t2, j1, j2

\* Only safety properties are checked with this.
Interchangeable == Permutations(Threads)

Plain(w) == [word |-> w, digits |-> 0, value |-> 0]
Digits(n, v) == [word |-> "", digits |-> n, value |-> v]

TextPart(words, weight) == [kind |-> "text", words |-> words, weight |-> weight]
Variable(kind, name) == [kind |-> kind, name |-> name, weight |-> 100]
IntPart(name, fixed, min, max) ==
  [kind |-> "int", name |-> name, weight |-> 100, fixed |-> fixed, min |-> min, max |-> max]
AnyPart(name, items) ==
  [kind |-> "any", name |-> name, weight |-> 100, items |-> items]

Rule(parts, strict) ==
  [parts |-> parts, strict |-> strict, defaults |-> None, event |-> "message",
   type |-> None, senders |-> None, greediness |-> 0]

Ping == TextPart(<<Plain("ping")>>, 5)

\* 'hello' and 'hello world', not strict; 'ping <user>' and 'ping <int:n>', which
\* weigh the same; 'ping' with and without a default; 'ping <any("me"):user>'
\* in chats of one sender; 'say <string:what> to <user>'; a rule for presences;
\* 'ping <int(fixed_digits=2, max_=9):n>'.
MCDeclared ==
  [r \in Rules |->
     CASE r = "hello" -> Rule(<<TextPart(<<Plain("hello")>>, 5)>>, FALSE)
       [] r = "hello world" ->
            Rule(<<TextPart(<<Plain("hello"), Plain("world")>>, 11)>>, FALSE)
       [] r = "ping user" -> Rule(<<Ping, Variable("default", "user")>>, TRUE)
       [] r = "ping n" -> Rule(<<Ping, IntPart("n", 0, None, None)>>, TRUE)
       [] r = "ping fixed" -> Rule(<<Ping, IntPart("n", 2, None, 9)>>, TRUE)
       [] r = "ping any" ->
            [Rule(<<Ping, AnyPart("user", {<<Plain("me")>>})>>, TRUE) EXCEPT
               !.type = "chat", !.senders = {j2}]
       [] r = "ping" -> Rule(<<TextPart(<<Plain("ping")>>, 4)>>, TRUE)
       [] r = "ping default" ->
            [Rule(<<TextPart(<<Plain("ping")>>, 4)>>, TRUE)
               EXCEPT !.defaults = [user |-> Text(<<Plain("me")>>)]]
       [] r = "say" ->
            Rule(<<TextPart(<<Plain("say")>>, 4), Variable("string", "what"),
                   TextPart(<<Plain("to")>>, 4), Variable("default", "user")>>, TRUE)
       [] r = "presence" ->
            [Rule(<<>>, TRUE) EXCEPT !.event = "presence"]]

Stanza(message, event, type, sender) ==
  [message |-> message, event |-> event, type |-> type, sender |-> sender]

MCRequest ==
  [q \in Requests |->
     CASE q = "hello world" ->
            Stanza(<<Plain("hello"), Plain("world")>>, "message", "chat", j1)
       [] q = "ping 7" -> Stanza(<<Plain("ping"), Digits(1, 7)>>, "message", "chat", j1)
       [] q = "ping 07" -> Stanza(<<Plain("ping"), Digits(2, 7)>>, "message", "chat", j1)
       [] q = "ping" -> Stanza(<<Plain("ping")>>, "message", None, j2)
       [] q = "ping me" -> Stanza(<<Plain("ping"), Plain("me")>>, "message", "chat", j2)
       [] q = "say" ->
            Stanza(<<Plain("say"), Plain("a"), Plain("to"), Plain("b"),
                     Plain("to"), Plain("me")>>, None, "chat", j1)
       [] q = "presence" -> Stanza(<<>>, "presence", "available", j1)]
=============================================================================
