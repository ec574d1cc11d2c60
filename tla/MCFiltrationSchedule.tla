------------------------ MODULE MCFiltrationSchedule ------------------------
(* A day of four minutes, a window inside it, one over midnight, and the   *)
(* continuous plan.                                                        *)
EXTENDS FiltrationSchedule

Noon == [from |-> 1, to |-> 3, continuous |-> FALSE]
Winter == [from |-> 3, to |-> 1, continuous |-> FALSE]
AllDay == [from |-> 0, to |-> 0, continuous |-> TRUE]

MCPlans == {Noon, Winter, AllDay}
MildPlans == {Noon, Winter}
=============================================================================
