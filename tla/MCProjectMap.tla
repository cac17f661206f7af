---------------------------- MODULE MCProjectMap ----------------------------
(***************************************************************************)
(* Small instances of ProjectMap for TLC: two neighborhoods, of which one  *)
(* can be asked for by name, and one project type.                         *)
(***************************************************************************)
EXTENDS ProjectMap

\* The keys of the instance are as the proofs need them.
ASSUME MCKeysAssumption == KeysDistinct

MCTermName == [t \in Terms |-> IF t = "4" THEN "Ivanhoe" ELSE "Westside"]

\* Every node, for the run about the search.
AllNodes == Node

\* The page, and both parameters.
SomeFilters == {[nh |-> "", pt |-> ""], [nh |-> "Ivanhoe", pt |-> "456"]}

\* A project in Ivanhoe, the same one unpublished, in Westside, and without a
\* neighborhood before it is geocoded.
Shown == [published |-> TRUE,
          fields |-> [geo |-> [lon |-> 1, lat |-> 1],
                      nhs |-> {"4"}, types |-> {"456"}]]

SomeNodes == {Shown, [Shown EXCEPT !.published = FALSE],
              [Shown EXCEPT !.fields.nhs = {"5"}],
              [Shown EXCEPT !.fields.nhs = {}, !.fields.geo.lon = 0]}
=============================================================================
