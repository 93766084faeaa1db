---------------------------- MODULE MCHashtable -----------------------------
(* Hashtable for TLC: the size and the bucket size are those of the tests  *)
(* at the end of hashtable.c, and the three values share a bucket until    *)
(* the table has been doubled once (99) or twice (2001).                   *)
EXTENDS Hashtable

MCHash(v) == CASE v = 13 -> 0 [] v = 99 -> 2 [] v = 2001 -> 4
=============================================================================
