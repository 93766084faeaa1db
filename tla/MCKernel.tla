------------------------------ MODULE MCKernel ------------------------------
(* Kernel for TLC: a byte has two values.  The packets of one sender list  *)
(* and unlist it, list the port and the hash of all packets, print, or are *)
(* plain ones.                                                             *)
EXTENDS Kernel

Msg(op, table, data) ==
  [source |-> <<1, 0, 0, 0>>, port |-> <<1, 0>>, hash |-> 5, length |-> 1,
   command |-> [op |-> op, table |-> table], data |-> data]

Plain    == Msg("none", "spam", <<0, 0, 0, 0>>)
Spammer  == Msg("add", "spam", <<1, 0, 0, 0>>)
Forgiven == Msg("del", "spam", <<1, 0, 0, 0>>)
Port     == Msg("add", "vulnerable", <<0, 0, 1, 0>>)
Evil     == Msg("add", "evil", <<0, 1, 0, 1>>)
AllPrint == Msg("print", "spam", <<0, 0, 0, 0>>)

Traffic == {Plain, Spammer, Forgiven, Port, Evil, AllPrint}
Aimed   == {Plain, Port}
=============================================================================
