------------------------------ MODULE FormStates ------------------------------
(***************************************************************************)
(* Form elements that depend on others: misc/states.js.  Attaching the     *)
(* behaviors makes a states.Dependent, here a watcher, for each dependent; *)
(* it knows of its dependees what their events have told it, and tells the *)
(* dependent when what follows from that has changed.                      *)
(***************************************************************************)
EXTENDS Naturals, Sequences, FiniteSets

CONSTANTS
    Inputs,       \* dependees, which are checked or not
    Dependents,   \* elements that are visible or not
    Constraint    \* Drupal.settings.states: for each dependent, the terms and
                  \* how they are combined

\* checked: value, or !checked: value, which unchecked is an alias of.
Term == [input : Inputs, value : BOOLEAN, invert : BOOLEAN]

ASSUME StatesAssumption ==
    Constraint \in [Dependents -> [kind : {"and", "or", "xor"}, terms : SUBSET Term]]

VARIABLES
    checked,      \* the inputs that are checked
    watchers,     \* watchers[d]: the watchers of the element d that is in the
                  \* page, in the order in which they were bound
    shown         \* shown[d]: whether the element d is visible

statesVars == <<checked, watchers, shown>>

\* What a watcher knows: values, of the inputs in seen; the inputs that have
\* left the page; oldValue, which is no value at first.
Watcher == [seen : SUBSET Inputs, on : SUBSET Inputs, lost : SUBSET Inputs,
            told : SUBSET BOOLEAN]

StatesTypeOK ==
    /\ checked \subseteq Inputs
    /\ watchers \in [Dependents -> Seq(Watcher)]
    /\ \A d \in Dependents : \A j \in DOMAIN watchers[d] :
         watchers[d][j].on \subseteq watchers[d][j].seen
    /\ shown \in [Dependents -> BOOLEAN]

-----------------------------------------------------------------------------
Dependees(d) == {t.input : t \in Constraint[d].terms}

\* compare() and invert(), when it is known of the inputs in seen that those in
\* on are checked.  An input of which nothing is known is equal to no value.
Met(d, seen, on) ==
    {t \in Constraint[d].terms :
       (t.input \in seen /\ t.value = (t.input \in on)) # t.invert}

VerifyConstraints(d, seen, on) ==
    \/ Constraint[d].kind = "and" /\ Met(d, seen, on) = Constraint[d].terms
    \/ Constraint[d].kind = "or" /\ Met(d, seen, on) # {}
    \/ Constraint[d].kind = "xor" /\ Cardinality(Met(d, seen, on)) = 1

Unaware == [seen |-> {}, on |-> {}, lost |-> {}, told |-> {}]

\* A watcher whose triggers are new: the postponed functions tell it at once.
Aware(d, new) ==
    LET on == checked' \cap new
    IN  [seen |-> new, on |-> on, lost |-> {},
         told |-> IF new = {} THEN {} ELSE {VerifyConstraints(d, new, on)}]

\* Mistake: what is known is not noted.
UpdateUnseen(d, w, i, v) ==
    LET on == IF v THEN w.on \cup {i} ELSE w.on \ {i}
    IN  [w EXCEPT !.on = on, !.told = {VerifyConstraints(d, w.seen, on)}]

\* Mistake: only the first value is evaluated.
UpdateOnce(d, w, i, v) ==
    LET on == IF v THEN w.on \cup {i} ELSE w.on \ {i}
    IN  [w EXCEPT !.seen = @ \cup {i}, !.on = on,
                  !.told = IF @ = {} THEN {VerifyConstraints(d, w.seen \cup {i}, on)}
                             ELSE @]

\* update() and reevaluate(): only a value that is new is evaluated.
Update(d, w, i, v) ==
    LET on == IF v THEN w.on \cup {i} ELSE w.on \ {i}
    IN  IF i \in w.seen /\ on = w.on
          THEN w
          ELSE [w EXCEPT !.seen = @ \cup {i}, !.on = on,
                         !.told = {VerifyConstraints(d, w.seen \cup {i}, on)}]

\* The event of an input reaches the watchers that are bound to it ...
Hear(d, i, v) ==
    [j \in DOMAIN watchers[d] |->
       LET w == watchers[d][j]
       IN  IF i \in Dependees(d) \ w.lost THEN Update(d, w, i, v) ELSE w]

\* ... and the last of those with another result than before has the last word.
Fired(d) == {j \in DOMAIN watchers[d] : watchers'[d][j].told # watchers[d][j].told}
LastWord(d, v) ==
    \/ Fired(d) = {} /\ v = shown[d]
    \/ \E j \in Fired(d) : /\ \A k \in Fired(d) : k <= j
                           /\ watchers'[d][j].told = {v}

\* The visitor checks or unchecks an input.
Change(i) ==
    /\ checked' = IF i \in checked THEN checked \ {i} ELSE checked \cup {i}
    /\ watchers' = [d \in Dependents |-> Hear(d, i, i \notin checked)]
    /\ shown' \in [Dependents -> BOOLEAN]
    /\ \A d \in Dependents : LastWord(d, shown'[d])

\* attach() for the whole form, whose triggers are bound already: watchers that
\* nothing tells what is checked now.
AttachForm ==
    /\ watchers' = [d \in Dependents |-> Append(watchers[d], Unaware)]
    /\ UNCHANGED <<checked, shown>>

\* New elements R take the place of the old ones, as the server sees them; then
\* attach() for them, and for the whole form.
Insert(R) ==
    /\ checked' \in SUBSET Inputs
    /\ \A i \in Inputs \ R : i \in checked' <=> i \in checked
    /\ watchers' = [d \in Dependents |->
         IF d \in R
           THEN <<Aware(d, Dependees(d) \cap R), Unaware>>
           ELSE Append([j \in DOMAIN watchers[d] |->
                          [watchers[d][j] EXCEPT !.lost = @ \cup (Inputs \cap R)]],
                       Unaware)]
    /\ shown' = [d \in Dependents |->
         IF d \in R
           THEN Dependees(d) \cap R = {}
                  \/ VerifyConstraints(d, Dependees(d) \cap R,
                                       checked' \cap Dependees(d) \cap R)
           ELSE shown[d]]

\* The page has loaded: every trigger is new.
StatesInit ==
    /\ checked \in SUBSET Inputs
    /\ watchers = [d \in Dependents |->
         <<[seen |-> Dependees(d), on |-> checked \cap Dependees(d), lost |-> {},
            told |-> IF Dependees(d) = {} THEN {}
                       ELSE {VerifyConstraints(d, Dependees(d), checked)}]>>]
    /\ shown = [d \in Dependents |->
         Dependees(d) = {} \/ VerifyConstraints(d, Dependees(d), checked)]

-----------------------------------------------------------------------------
\* A watcher that was told of all dependees or of none, all in the page still.
WellInformed(d, w) == w.seen \in {{}, Dependees(d)} /\ w.lost = {}

\* A dependent is visible when its constraints hold: "Make sure the event we
\* just bound ourselves to is actually fired." (states.js:113).  It is fired
\* for the first watcher only, so this is claimed while no later one of the
\* same element was told of some dependees but not of all.
ShownRight ==
    \A d \in Dependents :
      /\ \A j \in DOMAIN watchers[d] : WellInformed(d, watchers[d][j])
      /\ \E j \in DOMAIN watchers[d] : watchers[d][j].seen # {}
      => (shown[d] <=> VerifyConstraints(d, Dependees(d), checked))
=============================================================================
