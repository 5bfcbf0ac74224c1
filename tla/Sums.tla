-------------------------------- MODULE Sums --------------------------------
(***************************************************************************)
(* Sums over a finite set of rows, tasks or days, as sum() in a query and  *)
(* reduce() over its rows give them: in no order that matters.             *)
(***************************************************************************)
EXTENDS Integers, Functions

SumOver(f, S) == FoldFunctionOnSet(+, 0, f, S)
=============================================================================
