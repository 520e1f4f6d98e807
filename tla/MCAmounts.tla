------------------------------ MODULE MCAmounts -----------------------------
(***************************************************************************)
(* Two payments of any two values from nothing to beyond the column.  The  *)
(* digits are coarser than in the code, both roundings are met on either   *)
(* side of their ties.                                                     *)
(***************************************************************************)
EXTENDS Amounts

CONSTANT MaxWei  \* bound: the largest payment

MCWei == 0..MaxWei
=============================================================================
