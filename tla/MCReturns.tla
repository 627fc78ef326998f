----------------------------- MODULE MCReturns -----------------------------
(***************************************************************************)
(* An instance of Returns for TLC: two lines at different prices, and      *)
(* advances below, at and above the delivery charge.                       *)
(***************************************************************************)
EXTENDS Returns

MCLines == {1, 2}
MCQuantity == <<2, 1>>
MCPrice == <<1, 2>>
MCAdvances == {1, 2, 4}
=============================================================================
