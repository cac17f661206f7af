------------------------- MODULE MCEventAddressForm -------------------------
(***************************************************************************)
(* A small instance of EventAddressForm for TLC.  Projects are             *)
(* interchangeable, and so are places.                                     *)
(***************************************************************************)
EXTENDS EventAddressForm, TLC

CONSTANT a

\* One string to search for, with and without a blank after it, and no text.
MCTyped == {[query |-> a, exact |-> exact] : exact \in BOOLEAN} \cup {Empty}

Symmetry == Permutations(Projects) \cup Permutations(Places)
=============================================================================
