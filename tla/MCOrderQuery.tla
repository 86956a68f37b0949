---------------------------- MODULE MCOrderQuery ----------------------------
(***************************************************************************)
(* A small instance of OrderQuery.  Its amount is 10000, for which the two *)
(* notations of std::to_chars are equally long.                            *)
(***************************************************************************)
EXTENDS OrderQuery

MCAmount == {<<1, 4>>}
=============================================================================
