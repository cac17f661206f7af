------------------------------ MODULE MCAjaxForm ------------------------------
(***************************************************************************)
(* A small instance of AjaxForm for TLC: a dependent that needs an input   *)
(* and not the other, one that needs just one of the two, one that needs   *)
(* any; a control replaces both controls, an input and a dependent, the    *)
(* other the first control, all inputs and two dependents.                 *)
(***************************************************************************)
EXTENDS AjaxForm

CONSTANTS i1, i2, d1, d2, d3, c1, c2

Checked(i, v) == [input |-> i, value |-> v, invert |-> FALSE]
Unchecked(i) == [input |-> i, value |-> TRUE, invert |-> TRUE]
MCConstraint ==
    [d \in Dependents |->
       CASE d = d1 -> [kind |-> "and", terms |-> {Checked(i1, TRUE), Unchecked(i2)}]
         [] d = d2 -> [kind |-> "xor", terms |-> {Checked(i1, TRUE), Checked(i2, TRUE)}]
         [] d = d3 -> [kind |-> "or", terms |-> {Checked(i1, FALSE), Checked(i2, TRUE)}]]

MCWrapper ==
    [c \in Controls |-> IF c = c1 THEN {c1, c2, i1, d1} ELSE {c1, i1, i2, d1, d2}]
=============================================================================
