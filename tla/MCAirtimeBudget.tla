--------------------------- MODULE MCAirtimeBudget ---------------------------
(* TLC instance of AirtimeBudget: a window of 12 milliseconds. *)
EXTENDS AirtimeBudget

MCPercents == {30, 50, 100}
MCAirtimes == {1, 2, 3}
==============================================================================
