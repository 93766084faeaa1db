----------------------------- MODULE CountTable -----------------------------
(***************************************************************************)
(* What a table of hashtable.c promises: a listing of values, with the     *)
(* result of every call.                                                   *)
(***************************************************************************)
EXTENDS Listing

CONSTANTS Value

VARIABLES
  counts,   \* the listing
  result    \* what the last call returned; 0 for hashtable_put()

vars == <<counts, result>>

Init ==
  /\ counts = Unlisted(Value)
  /\ result = 0

Found(v) == IF Listed(counts, v) THEN 1 ELSE 0

Put(v) ==
  /\ counts' = WithPut(counts, v)
  /\ result' = 0

Increment(v) ==
  /\ counts' = WithIncrement(counts, v)
  /\ result' = Found(v)

Get(v) ==
  /\ result' = IF Listed(counts, v) THEN counts[v][1] ELSE -1
  /\ UNCHANGED counts

Remove(v) ==
  /\ counts' = WithRemove(counts, v)
  /\ result' = Found(v)

Next == \E v \in Value : Put(v) \/ Increment(v) \/ Get(v) \/ Remove(v)

Spec == Init /\ [][Next]_vars
=============================================================================
