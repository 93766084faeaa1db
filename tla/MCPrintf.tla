------------------------------ MODULE MCPrintf ------------------------------
(* Printf for TLC: int has 8 bits and long long 16, so that numbers of one  *)
(* to five figures occur and those of two words are divided in all ways.    *)
(* Both buffers are as small as numbers of these sizes allow.               *)
EXTENDS Printf

MCInt    == {0, 10, 128, 255}
MCLong   == {0, 256, 32768, 43210, 65535}
MCDouble == {-33, 0, 1, 31, 79}
MCString == {<<>>, <<LowerA, LowerA>>}
=============================================================================
