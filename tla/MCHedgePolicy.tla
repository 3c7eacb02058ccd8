--------------------------- MODULE MCHedgePolicy ---------------------------
(***************************************************************************)
(* An instance of HedgePolicy for TLC: successes and exceeded timeouts end *)
(* hedging.                                                                *)
(***************************************************************************)
EXTENDS HedgePolicy

Cancels == {CancelOnResult("ok"), CancelOnErrors({"timeout.ErrExceeded"})}
=============================================================================
