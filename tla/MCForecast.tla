----------------------------- MODULE MCForecast -----------------------------
(* Instances of Forecast for TLC. *)
EXTENDS Forecast

CONSTANTS r1, r2, x1, x2

TwoRequests == {r1, r2}

TwoPairs == {x1, x2}
OnePair == {x1}
=============================================================================
