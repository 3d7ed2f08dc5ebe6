----------------------------- MODULE Responses -----------------------------
(***************************************************************************)
(* The Response of xmppflask/wrappers.py: an iterator of items, and a      *)
(* queue of further ones that after_request hooks have appended.  An item  *)
(* is a sequence: <<text>>, or <<command, payload>>.  What a function      *)
(* returns is [lazy |-> it is a generator, items |-> its items].           *)
(***************************************************************************)
EXTENDS Naturals, Sequences

\* _wrap.  A list or tuple of two is taken for a command and its payload, also
\* where it was meant for two texts.
Wrap(value) ==
  IF ~value.lazy /\ Len(value.items) = 2
  THEN <<value.items[1] \o value.items[2]>> ELSE value.items

\* Iterators are numbered in the order they were appended.
ResponseOf(value) ==
  [current |-> [gen |-> 1, items |-> Wrap(value)], queue |-> <<>>]

\* response(other)
Called(response, value) ==
  [response EXCEPT !.queue =
     Append(@, [gen |-> Len(@) + 2, items |-> Wrap(value)])]

\* StopIteration of the current one: the next is started.
NextIterator(response) ==
  [current |-> Head(response.queue), queue |-> Tail(response.queue)]

\* The item the current iterator yields next, and the rest.
HasItem(response) == response.current.items # <<>>
Item(response) == Head(response.current.items)
AfterItem(response) == [response EXCEPT !.current.items = Tail(@)]
=============================================================================
