-------------------------------- MODULE Jid --------------------------------
(***************************************************************************)
(* The JID of xmppflask/jid.py: a text with its parts cached, and setters  *)
(* that change the parts.  A text is a sequence of words, "@" and "/".  A  *)
(* JID is a record of the text (_jid) and the cached parts, Unset where    *)
(* nothing is cached (None).                                               *)
(***************************************************************************)
EXTENDS Naturals, Sequences, SequencesExt, FiniteSetsExt

CONSTANT Unset  \* a part that is not cached

\* text.split(mark, 1)[0] and text.split(mark, 1)[-1]
Has(text, mark) == \E i \in DOMAIN text : text[i] = mark
Place(text, mark) == Min({i \in DOMAIN text : text[i] = mark})
Before(text, mark) ==
  IF Has(text, mark) THEN SubSeq(text, 1, Place(text, mark) - 1) ELSE text
After(text, mark) ==
  IF Has(text, mark) THEN SubSeq(text, Place(text, mark) + 1, Len(text)) ELSE text

\* reset
Jid(text) ==
  [text |-> text, node |-> Unset, domain |-> Unset, resource |-> Unset, bare |-> Unset]

\* The getters: what is cached, or what the text has.
Node(jid) ==
  IF jid.node # Unset THEN jid.node
  ELSE IF Has(jid.text, "@") THEN Before(jid.text, "@") ELSE <<>>
Domain(jid) ==
  IF jid.domain # Unset THEN jid.domain ELSE Before(After(jid.text, "@"), "/")
Resource(jid) ==
  IF jid.resource # Unset THEN jid.resource
  ELSE IF Has(jid.text, "/") THEN After(jid.text, "/") ELSE <<>>
Bare(jid) == IF jid.bare # Unset THEN jid.bare ELSE Before(jid.text, "/")

\* They cache what they return; that of the resource caches the bare JID too.
ReadParts(jid) ==
  [jid EXCEPT !.node = IF Has(jid.text, "@") THEN Node(jid) ELSE @,
              !.domain = Domain(jid),
              !.resource = IF Has(jid.text, "/") THEN Resource(jid) ELSE @,
              !.bare = Bare(jid)]

Join(node, domain, resource) ==
  (IF node # <<>> THEN node \o <<"@">> ELSE <<>>) \o domain
    \o (IF resource # <<>> THEN <<"/">> \o resource ELSE <<>>)

\* Mutation of Regenerate: the cached parts stay.
RegenerateText(jid) == [jid EXCEPT !.text = Join(Node(jid), Domain(jid), Resource(jid))]

\* regenerate: the text is made of the parts, and the cache emptied.
Regenerate(jid) == Jid(Join(Node(jid), Domain(jid), Resource(jid)))

\* The setters.  That of the domain changes the cached part and nothing else.
SetNode(jid, value) == Regenerate([jid EXCEPT !.node = value])
SetResource(jid, value) == Regenerate([jid EXCEPT !.resource = value])
SetDomain(jid, value) == [jid EXCEPT !.domain = value]
SetBare(jid, value) ==
  Regenerate(IF Has(value, "@")
             THEN [jid EXCEPT !.node = Before(value, "@"), !.domain = After(value, "@")]
             ELSE [jid EXCEPT !.node = <<>>, !.domain = value])
SetFull(jid, value) == Regenerate(Jid(value))

\* __eq__
Same(jid, other) == jid.text = other.text
=============================================================================
