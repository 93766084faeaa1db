------------------------------ MODULE MCMemory ------------------------------
(* Memory for TLC: pages of 8 bytes, with three pieces of 2 or one of 4.    *)
(* One clear block rounded up to 4 bytes, and a big one that fills a page.  *)
EXTENDS Memory

MCCalloc == {<<1, 3>>}
=============================================================================
