-------------------------- MODULE MCMemorySessions --------------------------
(***************************************************************************)
(* MemorySessions on small instances: one or two threads, two senders, and *)
(* two or three session objects.                                           *)
(***************************************************************************)
EXTENDS MemorySessions, TLC

CONSTANTS t1, t2, s1, s2, s3, j1, j2

\* Threads, senders and session objects are interchangeable; only safety
\* properties are checked with this.
Interchangeable ==
  Permutations(Threads) \cup Permutations(Jids) \cup Permutations(Sessions)
=============================================================================
