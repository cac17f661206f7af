---------------------------- MODULE MCAutocomplete ----------------------------
(***************************************************************************)
(* A small instance of Autocomplete for TLC: two strings to search for, a  *)
(* blank typed after one of them, and an input that is emptied.            *)
(***************************************************************************)
EXTENDS Autocomplete

CONSTANTS a, b

MCTyped == {[query |-> a, exact |-> TRUE], [query |-> a, exact |-> FALSE],
            [query |-> b, exact |-> TRUE], Empty}

\* The keys of the field, with fairness.
FairSpec == BoxSpec /\ BoxFairness
=============================================================================
