---------------------------- MODULE RequestScope ----------------------------
(***************************************************************************)
(* What xmppflask/ctx.py promises of request contexts, without application *)
(* contexts, reference counts or implicit stacks: scopes nest, the current *)
(* request is the one of the innermost scope, and a request is alive from  *)
(* its first scope until its last one is left, when it is torn down.       *)
(***************************************************************************)
EXTENDS SequencesExt

CONSTANT Requests

VARIABLES
  scopes,   \* the requests whose scope is open, innermost last
  alive     \* requests entered and not torn down since

vars == <<scopes, alive>>

Init == scopes = <<>> /\ alive = {}

Enter(r) ==
  /\ scopes' = Append(scopes, r)
  /\ alive' = alive \cup {r}

Leave ==
  /\ scopes # <<>>
  /\ scopes' = Front(scopes)
  /\ alive' = IF \E i \in DOMAIN scopes' : scopes'[i] = Last(scopes)
              THEN alive
              ELSE alive \ {Last(scopes)}

Next == Leave \/ \E r \in Requests : Enter(r)

Spec == Init /\ [][Next]_vars
=============================================================================
