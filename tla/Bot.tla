-------------------------------- MODULE Bot --------------------------------
(***************************************************************************)
(* A bot that has been started: the client calls its handlers for each     *)
(* stanza, handle() makes an environ with the sender's JID and skips the   *)
(* bot's own stanzas, and the view may edit that JID before commands of    *)
(* the capability 'std' and of the chat rooms address what they send.      *)
(***************************************************************************)
EXTENDS Startup, Jid

CONSTANTS
  Stanzas,    \* [from, type, empty] of each stanza that may arrive; empty: a message
              \* without a body
  Typed,      \* the JID the bot was started with
  Addresses,  \* payload['to'] and payload['room']
  Words,      \* values assigned to node, domain, resource and nick
  Bares,      \* values assigned to bare
  Nobody,     \* no stanza, no address, no JID: None
  MaxArrivals,  \* bound: stanzas of a behaviour
  MaxEdits    \* bound: assignments of a view

ASSUME NobodyIsNothing == Nobody \notin Stanzas
ASSUME BoundsAreNatural == MaxArrivals \in Nat /\ MaxEdits \in Nat

VARIABLES
  appJid,     \* base_environ['app.jid']
  arrived,    \* stanzas that have arrived
  now,        \* the stanza the client hands on, the calls left for it, and if one is
              \* in the view
  jid,        \* environ['xmpp.jid'] of the view that is running
  edits,      \* how often the view has assigned to it
  handled,    \* history: how often a view was run for each stanza
  wanted,     \* history: the parts the view has asked for
  sound,      \* history: the parts can be told apart in the text
  pending,    \* history: a domain was assigned and nothing else since
  sent        \* history: the stanza sent since, and the recipient asked for

viewVars == <<jid, edits, wanted, sound, pending, sent>>
botVars == <<startVars, appJid, arrived, now, handled, viewVars>>

Idle == [stanza |-> Nobody, calls |-> 0, view |-> FALSE]

\* The parts of a text after RFC 6120: the resource begins at the first "/".
Parts(text) ==
  LET bare == Before(text, "/") IN
  [node |-> IF Has(bare, "@") THEN Before(bare, "@") ELSE <<>>,
   domain |-> After(bare, "@"),
   resource |-> IF Has(text, "/") THEN After(text, "/") ELSE <<>>]
FullOf(parts) == Join(parts.node, parts.domain, parts.resource)
BareOf(parts) == Join(parts.node, parts.domain, <<>>)

\* The text has these parts.  Without a node, "@" in the resource is taken for the one
\* after a node.
Regular(parts) ==
  Parts(FullOf(parts)) = parts /\ (parts.node # <<>> \/ ~Has(parts.resource, "@"))

\* JIDs have neither an empty node nor an empty resource, and bare ones no resource.
Texts == Seq({"@", "/"} \cup STRING)
Jids == Addresses \cup {s.from : s \in Stanzas}
ASSUME JidsAreWellFormed ==
  /\ Unset \notin Texts
  /\ Words \subseteq Texts /\ Jids \subseteq Texts /\ Bares \subseteq Texts
  /\ \A a \in Jids : FullOf(Parts(a)) = a
  /\ \A b \in Bares : ~Has(b, "/")

TypeOK ==
  /\ StartTypeOK
  /\ appJid \in {Nobody, Typed}
  /\ arrived \subseteq Stanzas /\ handled \in [Stanzas -> Nat]
  /\ now \in [stanza : arrived \cup {Nobody}, calls : Nat, view : BOOLEAN]
  /\ edits \in 0..MaxEdits

BotInit ==
  /\ StartInit
  /\ appJid = Nobody
  /\ arrived = {} /\ now = Idle /\ handled = [s \in Stanzas |-> 0]
  /\ jid = Nobody /\ edits = 0 /\ wanted = Nobody
  /\ sound = TRUE /\ pending = FALSE /\ sent = Nobody

\* app.jid is what was typed: xmpppy assigns it after session_start, SleekXMPP before
\* the server has bound a resource.  A new server object has none.
AppJid ==
  IF phase' = "serving" /\ phase # "serving" THEN Typed
  ELSE IF phase' = "connect" THEN Nobody ELSE appJid

Start ==
  /\ Starting /\ appJid' = AppJid
  /\ UNCHANGED <<arrived, now, handled, viewVars>>

\* The events of SleekXMPP are handled one after the other.
StartAgain ==
  /\ now = Idle /\ SessionStarted
  /\ UNCHANGED <<appJid, arrived, now, handled, viewVars>>

Lose ==
  /\ now = Idle \/ lib = "sleekxmpp"
  /\ StreamLost
  /\ UNCHANGED <<appJid, arrived, now, handled, viewVars>>

-----------------------------------------------------------------------------
\* The client calls every handler it has for a stanza.
Arrive(s) ==
  /\ phase = "serving" /\ stream /\ now = Idle
  /\ s \notin arrived /\ Cardinality(arrived) < MaxArrivals
  /\ arrived' = arrived \cup {s}
  /\ now' = [stanza |-> s, calls |-> handlers, view |-> FALSE]
  /\ UNCHANGED <<startVars, appJid, handled, viewVars>>

Called ==
  IF now.calls > 1 THEN [now EXCEPT !.calls = @ - 1, !.view = FALSE] ELSE Idle

\* handle: "we don't want handle our own stanzas", nor messages without a body.
Ignored(s) == (appJid # Nobody /\ Same(Jid(appJid), Jid(s.from))) \/ s.empty

Skip ==
  /\ now # Idle /\ ~now.view
  /\ now.calls = 0 \/ Ignored(now.stanza)
  /\ now' = Called
  /\ UNCHANGED <<startVars, appJid, arrived, handled, viewVars>>

RunView ==
  /\ now.calls > 0 /\ ~now.view /\ ~Ignored(now.stanza)
  /\ now' = [now EXCEPT !.view = TRUE]
  /\ jid' = Jid(now.stanza.from) /\ edits' = 0
  /\ wanted' = Parts(now.stanza.from)
  /\ sound' = Regular(Parts(now.stanza.from)) /\ pending' = FALSE /\ sent' = Nobody
  /\ handled' = [handled EXCEPT ![now.stanza] = @ + 1]
  /\ UNCHANGED <<startVars, appJid, arrived>>

-----------------------------------------------------------------------------
(* The view: request.jid.resource = ..., request.username, require_capability. *)

InView == now.view

Edit(edited, parts, late) ==
  /\ InView /\ edits < MaxEdits
  /\ edits' = edits + 1
  /\ jid' = edited /\ wanted' = parts
  /\ sound' = (sound /\ Regular(parts))
  /\ pending' = late /\ sent' = Nobody
  /\ UNCHANGED <<startVars, appJid, arrived, now, handled>>

EditJid ==
  \/ \E w \in Words \cup {<<>>} : Edit(SetNode(jid, w), [wanted EXCEPT !.node = w], FALSE)
  \/ \E w \in Words : Edit(SetDomain(jid, w), [wanted EXCEPT !.domain = w], TRUE)
  \/ \E w \in Words \cup {<<>>} : Edit(SetResource(jid, w), [wanted EXCEPT !.resource = w], FALSE)
  \/ \E b \in Bares :
       Edit(SetBare(jid, b), [Parts(b) EXCEPT !.resource = wanted.resource], FALSE)
  \/ \E a \in Addresses : Edit(SetFull(jid, a), Parts(a), FALSE)

ReadJid ==
  /\ InView /\ jid' = ReadParts(jid)
  /\ UNCHANGED <<startVars, appJid, arrived, now, handled, edits, wanted, sound,
                 pending, sent>>

\* Request.username
Username == IF now.stanza.type = "groupchat" THEN Resource(jid) ELSE Node(jid)

Send(to, asked, exact) ==
  /\ InView /\ sent' = [to |-> to, asked |-> asked, exact |-> exact]
  /\ UNCHANGED <<startVars, appJid, arrived, now, handled, jid, edits, wanted,
                 sound, pending>>

\* To the bare JID in a chat room, else to the full one.
Recipient(address) ==
  IF now.stanza.type = "groupchat" THEN Bare(Jid(address)) ELSE address

CmdMessage ==
  LET Asked(parts) == IF now.stanza.type = "groupchat" THEN BareOf(parts) ELSE FullOf(parts)
  IN
  \/ Send(Recipient(jid.text), Asked(wanted), sound /\ ~pending)
  \/ \E a \in Addresses : Send(Recipient(a), Asked(Parts(a)), TRUE)

\* cmd_presence: to the sender, or to 'all'.
CmdPresence ==
  \/ Send(jid.text, FullOf(wanted), sound /\ ~pending)
  \/ Send(Nobody, Nobody, TRUE)

\* cmd_join_room of xmpppy: the nick becomes the resource.  The plugin of SleekXMPP is
\* given the two as they are.
CmdJoinRoom ==
  /\ lib = "xmpppy"
  /\ \E a \in Addresses, w \in Words :
       LET parts == [Parts(a) EXCEPT !.resource = w] IN
       Send(SetResource(Jid(a), w).text, FullOf(parts), Regular(Parts(a)) /\ Regular(parts))

\* The environ is gone, and the histories with it.
NoView ==
  /\ jid' = Nobody /\ edits' = 0 /\ wanted' = Nobody
  /\ sound' = TRUE /\ pending' = FALSE /\ sent' = Nobody

ViewEnds ==
  /\ InView /\ NoView /\ now' = Called
  /\ UNCHANGED <<startVars, appJid, arrived, handled>>

ViewRequires ==
  /\ InView /\ \E name \in Requirable : Require(name)
  /\ UNCHANGED <<appJid, arrived, now, handled, viewVars>>

\* An exception of the view: SleekXMPP logs it, xmpppy's loop ends, and an ImportError
\* starts the other library's server.  KeyboardInterrupt ends the loop too.
ViewRaises ==
  /\ InView /\ NoView
  /\ \/ /\ lib = "xmpppy" /\ (End \/ ImportFails) /\ now' = Idle
        /\ UNCHANGED <<options, required, starts>>
     \/ lib = "sleekxmpp" /\ now' = Called /\ UNCHANGED startVars
  /\ appJid' = AppJid
  /\ UNCHANGED <<arrived, handled>>

View ==
  EditJid \/ ReadJid \/ CmdMessage \/ CmdPresence \/ CmdJoinRoom
    \/ ViewEnds \/ ViewRequires \/ ViewRaises

Next == Start \/ StartAgain \/ Lose \/ (\E s \in Stanzas : Arrive(s)) \/ Skip \/ RunView \/ View

\* run_server and session_start go on: nothing in them waits.
Spec == BotInit /\ [][Next]_botVars /\ WF_botVars(Start)

-----------------------------------------------------------------------------
\* A stanza is handled once, after any number of reconnects, session_starts that failed
\* halfway, and a change of the library.
HandledOnce == \A s \in Stanzas : handled[s] <= 1

\* After any assignments the parts of the sender's JID and the addresses of what is sent
\* are what the view has asked for.  Excepted are a domain assigned last, which takes
\* effect with the next assignment, and JIDs without a node and "@" in the resource.
RepliesFollowEdits ==
  /\ InView /\ sound /\ ~pending =>
       /\ jid.text = FullOf(wanted) /\ Bare(jid) = BareOf(wanted) /\ Domain(jid) = wanted.domain
       /\ Username = IF now.stanza.type = "groupchat" THEN wanted.resource ELSE wanted.node
  /\ sent # Nobody => (sent.exact => sent.to = sent.asked)
=============================================================================
