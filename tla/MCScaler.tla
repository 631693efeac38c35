------------------------------ MODULE MCScaler ------------------------------
(***************************************************************************)
(* Small instances of Scaler: two ticks per second, a lead time of one and *)
(* a half seconds, so that its double is not aligned with the clock of     *)
(* RFC3339, steps of zero seconds and of one.                              *)
(***************************************************************************)
EXTENDS Scaler

MCPlans == {<< >>, <<2, 1>>, <<1, 2, 4>>}
=============================================================================
