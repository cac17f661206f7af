----------------------- MODULE MCProjectNotifications -----------------------
(***************************************************************************)
(* Small instances of ProjectNotifications for TLC.  Users, projects and   *)
(* forms are interchangeable.                                              *)
(***************************************************************************)
EXTENDS ProjectNotifications, TLC

Symmetry ==
    Permutations(Users) \cup Permutations(Projects) \cup Permutations(Forms)

\* No test sets a number: what is chosen is chosen with the form.
KeptNext ==
    /\ Next
    /\ chosen' # chosen => \E f \in Forms : form[f] # NoForm /\ form'[f] = NoForm

KeptSpec == Init /\ [][KeptNext]_vars
=============================================================================
