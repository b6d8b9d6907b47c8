------------------------------- MODULE MCKernel -------------------------------
EXTENDS OpenKernel

CONSTANTS m1, m2, t1, t2, e1, e2, e3, any_change, rise, s1, s2

(* Events with one or two processes, registered in different orders.       *)
MCStatic == [e \in Events |->
  CASE e = e1      -> <<m1>>
    [] e = e2      -> <<m2, t1>>
    [] e = e3      -> <<m1, t2>>
    [] e = any_change -> <<t1, m1>>
    [] e = rise    -> <<m2>>]

MCInitialValue == [s \in Signals |-> FALSE]

(* s1 has a rising-edge event of its own, next to that of any change.      *)
MCAnnounced ==
  [s \in Signals |->
     [v \in BOOLEAN |-> IF s = s1 THEN IF v THEN <<any_change, rise>> ELSE <<any_change>>
                                  ELSE << >>]]
=============================================================================
