-------------------------- MODULE MCFiltrationPlan --------------------------
(* The plans for 10, 24, 29 and 32 degrees: a winter night, a daytime       *)
(* window, one that ends after midnight and a continuous one.              *)
EXTENDS FiltrationPlan, FiltrationWindow

FourPlans == UNION {WindowsAt(temp) : temp \in {10000, 24000, 29000, 32000}}
=============================================================================
