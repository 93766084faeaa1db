------------------------------- MODULE Listing ------------------------------
(***************************************************************************)
(* A table of hashtable.c as its users see it: it lists values, and counts *)
(* for each of them the packets observed since it was put.  A value that   *)
(* is put twice is listed twice; the oldest listing is the one that counts *)
(* and is removed.                                                         *)
(*                                                                         *)
(* A listing c maps every value to the counts of its listings, the oldest  *)
(* first.                                                                  *)
(***************************************************************************)
EXTENDS Integers, Sequences

Unlisted(Value) == [v \in Value |-> <<>>]

Listed(c, v) == c[v] # <<>>

WithPut(c, v) == [c EXCEPT ![v] = Append(@, 0)]

WithIncrement(c, v) == IF Listed(c, v) THEN [c EXCEPT ![v][1] = @ + 1] ELSE c

WithRemove(c, v) == IF Listed(c, v) THEN [c EXCEPT ![v] = Tail(@)] ELSE c
=============================================================================
