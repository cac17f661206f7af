---------------------- MODULE ProjectNotifications_proof ----------------------
(***************************************************************************)
(* Proofs about the notification preferences, for any users, projects and  *)
(* open forms.                                                             *)
(***************************************************************************)
EXTENDS ProjectNotifications, TLAPS

USE PrefsAssumption

-----------------------------------------------------------------------------
\* The number and the boxes.

\* A box is ticked exactly if its binary digit is 1.
LEMMA DefaultBoxesDigits ==
  ASSUME NEW d \in 0..7
  PROVE  /\ DefaultBoxes(d) \subseteq Box
         /\ 1 \in DefaultBoxes(d) <=> d % 2 = 1
         /\ 2 \in DefaultBoxes(d) <=> (d \div 2) % 2 = 1
         /\ 4 \in DefaultBoxes(d) <=> d \div 4 = 1
<1>1. BitArray(d)[1] = d \div 4 /\ BitArray(d)[2] = (d \div 2) % 2 /\ BitArray(d)[3] = d % 2
  BY DEF BitArray
<1> QED
  BY <1>1 DEF DefaultBoxes, Box

\* The sum of a set of boxes, by its members.
LEMMA PrefsSumDigits ==
  ASSUME NEW boxes
  PROVE  /\ PrefsSum(boxes) = (IF 1 \in boxes THEN 1 ELSE 0)
                              + (IF 2 \in boxes THEN 2 ELSE 0)
                              + (IF 4 \in boxes THEN 4 ELSE 0)
         /\ PrefsSum(boxes) \in 0..7
BY DEF PrefsSum

\* Storing a choice and reading it back shows the same boxes.
LEMMA BoxesReadBack ==
  ASSUME NEW boxes \in SUBSET Box
  PROVE  DefaultBoxes(PrefsSum(boxes)) = boxes
<1> DEFINE d == PrefsSum(boxes)
<1>1. d \in 0..7
  BY PrefsSumDigits
<1>2. /\ 1 \in boxes <=> d % 2 = 1
      /\ 2 \in boxes <=> (d \div 2) % 2 = 1
      /\ 4 \in boxes <=> d \div 4 = 1
  BY PrefsSumDigits
<1> HIDE DEF d
<1>3. \A b \in Box : b \in DefaultBoxes(d) <=> b \in boxes
  BY <1>1, <1>2, DefaultBoxesDigits DEF Box
<1>4. DefaultBoxes(d) \subseteq Box
  BY <1>1, DefaultBoxesDigits
<1>5. DefaultBoxes(d) = boxes
  BY <1>3, <1>4
<1> QED
  BY <1>5 DEF d

\* Reading a number and storing what it stands for keeps the number.
LEMMA NumberReadBack ==
  ASSUME NEW d \in 0..7
  PROVE  PrefsSum(DefaultBoxes(d)) = d
BY PrefsSumDigits, DefaultBoxesDigits

\* No boxes are the number 0.
LEMMA NoBoxesZero == PrefsSum({}) = 0 /\ DefaultBoxes(0) = {}
<1>1. PrefsSum({}) = 0
  BY PrefsSumDigits
<1>2. {} \in SUBSET Box
  OBVIOUS
<1> QED
  BY <1>1, <1>2, BoxesReadBack

-----------------------------------------------------------------------------
\* Types.

LEMMA InitTyped == Init => TypeOK
BY DEF Init, TypeOK, Accounts

\* A save stores a number below 8 for its user, and leaves the others alone.
LEMMA UserSaveTyped ==
  ASSUME TypeOK, NEW u \in Users, NEW boxes, UserSave(u, boxes)
  PROVE  /\ Accounts' = Accounts \cup {u} /\ Accounts' \subseteq Users
         /\ prefs' \in [Accounts' -> 0..7]
         /\ prefs'[u] = PrefsSum(boxes)
         /\ \A v \in Accounts : v # u => prefs'[v] = prefs[v]
BY PrefsSumDigits DEF UserSave, TypeOK, Accounts

\* What a form submits is a set of boxes.
LEMMA SubmittedBoxes ==
  ASSUME TypeOK, NEW f \in Forms, form[f] # NoForm
  PROVE  Submitted(f) \in SUBSET Box
<1>1. form[f] \in Form /\ form[f].user \in Accounts
  BY DEF TypeOK
<1>2. prefs[form[f].user] \in 0..7
  BY <1>1 DEF TypeOK
<1>3. form[f].boxes \in (SUBSET Box) \cup {NoBoxes}
  BY <1>1 DEF Form
<1>4. DefaultBoxes(prefs[form[f].user]) \subseteq Box
  BY <1>2, DefaultBoxesDigits
<1>5. {} \in SUBSET Box /\ DefaultBoxes(prefs[form[f].user]) \in SUBSET Box
  BY <1>4
<1>6. form[f].boxes = NoBoxes \/ form[f].boxes \in SUBSET Box
  BY <1>3
<1> QED
  BY <1>5, <1>6 DEF Submitted

LEMMA NextTyped == TypeOK /\ [Next]_vars => TypeOK'
<1> SUFFICES ASSUME TypeOK, [Next]_vars PROVE TypeOK'
  OBVIOUS
<1>1. CASE UNCHANGED vars
  BY <1>1 DEF vars, TypeOK, Accounts
<1>2. ASSUME NEW u \in Users, Register(u) \/ SaveElsewhere(u) PROVE TypeOK'
  <2>1. UserSave(u, {}) /\ UNCHANGED <<projects, form, chosen>>
    BY <1>2 DEF Register, SaveElsewhere
  <2>2. /\ Accounts \subseteq Accounts' /\ Accounts' \subseteq Users
        /\ prefs' \in [Accounts' -> 0..7]
    BY <2>1, UserSaveTyped
  <2> QED
    BY <2>1, <2>2 DEF TypeOK
<1>3. ASSUME NEW f \in Forms, NEW u \in Users, OpenForm(f, u) PROVE TypeOK'
  <2> DEFINE new == [user |-> u, boxes |-> IF IsAuthor(u)
                                             THEN DefaultBoxes(prefs[u])
                                             ELSE NoBoxes]
  <2>1. u \in Accounts /\ prefs[u] \in 0..7
    BY <1>3 DEF OpenForm, TypeOK
  <2>2. new \in Form
    <3>1. DefaultBoxes(prefs[u]) \in SUBSET Box
      BY <2>1, DefaultBoxesDigits
    <3>2. new.boxes \in (SUBSET Box) \cup {NoBoxes}
      BY <3>1
    <3> QED
      BY <3>2 DEF Form
  <2>3. form' = [form EXCEPT ![f] = new] /\ UNCHANGED <<prefs, projects, chosen>>
    BY <1>3 DEF OpenForm
  <2>4. new.user = u
    OBVIOUS
  <2> HIDE DEF new
  <2>5. \A g \in Forms : form'[g] = IF g = f THEN new ELSE form[g]
    BY <2>3 DEF TypeOK
  <2> QED
    BY <2>1, <2>2, <2>3, <2>4, <2>5 DEF TypeOK, Accounts
<1>4. ASSUME NEW f \in Forms, NEW b \in Box, Toggle(f, b) PROVE TypeOK'
  <2>0. form[f] \in Form /\ form[f].boxes # NoBoxes
    BY <1>4 DEF Toggle, TypeOK
  <2>1. form[f] \in Form /\ form[f].boxes \in SUBSET Box
    <3>1. form[f].boxes \in (SUBSET Box) \cup {NoBoxes}
      BY <2>0 DEF Form
    <3> QED
      BY <2>0, <3>1
  <2> DEFINE ticked == IF b \in form[f].boxes THEN form[f].boxes \ {b}
                                             ELSE form[f].boxes \cup {b}
             new == [form[f] EXCEPT !.boxes = ticked]
  <2>2. ticked \in SUBSET Box
    BY <2>1
  <2>3. new \in Form /\ new.user = form[f].user
    BY <2>1, <2>2 DEF Form
  <2>4. form' = [form EXCEPT ![f] = new] /\ UNCHANGED <<prefs, projects, chosen>>
    BY <1>4 DEF Toggle
  <2> HIDE DEF new
  <2>5. \A g \in Forms : form'[g] = IF g = f THEN new ELSE form[g]
    BY <2>4 DEF TypeOK
  <2> QED
    BY <1>4, <2>3, <2>4, <2>5 DEF TypeOK, Accounts, Toggle
<1>5. ASSUME NEW f \in Forms, SubmitForm(f) PROVE TypeOK'
  <2>1. form[f] # NoForm /\ form[f].user \in Accounts /\ form[f].user \in Users
    BY <1>5 DEF SubmitForm, TypeOK
  <2>2. /\ Accounts \subseteq Accounts' /\ Accounts' \subseteq Users
        /\ prefs' \in [Accounts' -> 0..7]
    BY <1>5, <2>1, UserSaveTyped DEF SubmitForm
  <2>3. chosen' \in [Users -> SUBSET Box]
    BY <1>5, <2>1, SubmittedBoxes DEF SubmitForm, TypeOK
  <2>4. /\ form' \in [Forms -> Form \cup {NoForm}]
        /\ \A g \in Forms : form'[g] # NoForm => form'[g] = form[g]
    BY <1>5 DEF SubmitForm, TypeOK
  <2> QED
    BY <1>5, <2>2, <2>3, <2>4 DEF SubmitForm, TypeOK
<1>6. ASSUME NEW p \in Projects, NEW u \in Users, CreateProject(p, u) PROVE TypeOK'
  BY <1>6 DEF CreateProject, TypeOK, Accounts
<1>7. ASSUME NEW p \in Projects, DeleteProject(p) PROVE TypeOK'
  BY <1>7 DEF DeleteProject, TypeOK, Accounts
<1>8. ASSUME NEW u \in Users, NEW d \in 0..7, SetForTest(u, d) PROVE TypeOK'
  <2>1. DefaultBoxes(d) \in SUBSET Box
    BY DefaultBoxesDigits
  <2> QED
    BY <1>8, <2>1 DEF SetForTest, TypeOK, Accounts
<1> QED
  BY <1>1, <1>2, <1>3, <1>4, <1>5, <1>6, <1>7, <1>8 DEF Next

\* Forms and projects are about accounts that exist, and the number that
\* custom_user_presave() stores never exceeds its three bits.
THEOREM TypeCorrect == Spec => []TypeOK
BY InitTyped, NextTyped, PTL DEF Spec

-----------------------------------------------------------------------------
\* Properties.

LEMMA NextChoice == TypeOK /\ PrefsAreChoice /\ [Next]_vars => PrefsAreChoice'
<1> SUFFICES ASSUME TypeOK, PrefsAreChoice, [Next]_vars, NEW v \in Accounts'
             PROVE  DefaultBoxes(prefs'[v]) \in {chosen'[v], {}}
  BY DEF PrefsAreChoice
<1>1. ASSUME UNCHANGED <<prefs, chosen>>
      PROVE  DefaultBoxes(prefs'[v]) \in {chosen'[v], {}}
  BY <1>1 DEF PrefsAreChoice, Accounts
<1>2. ASSUME NEW u \in Users, Register(u) \/ SaveElsewhere(u)
      PROVE  DefaultBoxes(prefs'[v]) \in {chosen'[v], {}}
  <2>1. UserSave(u, {}) /\ chosen' = chosen
    BY <1>2 DEF Register, SaveElsewhere
  <2>2. CASE v = u
    BY <2>1, <2>2, UserSaveTyped, NoBoxesZero
  <2>3. CASE v # u
    <3>1. v \in Accounts /\ prefs'[v] = prefs[v]
      BY <2>1, <2>3, UserSaveTyped
    <3> QED
      BY <2>1, <3>1 DEF PrefsAreChoice
  <2> QED
    BY <2>2, <2>3
<1>3. ASSUME NEW f \in Forms, SubmitForm(f)
      PROVE  DefaultBoxes(prefs'[v]) \in {chosen'[v], {}}
  <2> DEFINE u == form[f].user
  <2>1. u \in Accounts /\ u \in Users /\ form[f] # NoForm
    BY <1>3 DEF SubmitForm, TypeOK
  <2>2. UserSave(u, Submitted(f))
    BY <1>3 DEF SubmitForm
  <2>3. Submitted(f) \in SUBSET Box
    BY <2>1, SubmittedBoxes
  <2>4. CASE v = u
    <3>1. DefaultBoxes(prefs'[v]) = Submitted(f)
      BY <2>1, <2>2, <2>3, <2>4, UserSaveTyped, BoxesReadBack
    <3>2. CASE IsAuthor(u)
      <4>1. chosen'[u] = Submitted(f)
        BY <1>3, <2>1, <3>2 DEF SubmitForm, TypeOK
      <4> QED
        BY <2>4, <3>1, <4>1
    <3>3. CASE ~IsAuthor(u)
      <4>1. chosen' = chosen /\ Submitted(f) = DefaultBoxes(prefs[u])
        BY <1>3, <3>3 DEF SubmitForm, Submitted
      <4> QED
        BY <2>1, <2>4, <3>1, <4>1 DEF PrefsAreChoice
    <3> QED
      BY <3>2, <3>3
  <2>5. CASE v # u
    <3>1. v \in Accounts /\ prefs'[v] = prefs[v]
      BY <2>1, <2>2, <2>5, UserSaveTyped
    <3>2. chosen'[v] = chosen[v]
      BY <1>3, <2>1, <2>5 DEF SubmitForm, TypeOK
    <3> QED
      BY <3>1, <3>2 DEF PrefsAreChoice
  <2> QED
    BY <2>4, <2>5
<1>4. ASSUME NEW u \in Users, NEW d \in 0..7, SetForTest(u, d)
      PROVE  DefaultBoxes(prefs'[v]) \in {chosen'[v], {}}
  BY <1>4 DEF SetForTest, PrefsAreChoice, TypeOK, Accounts
<1> QED
  BY <1>1, <1>2, <1>3, <1>4 DEF Next, vars, OpenForm, Toggle, CreateProject, DeleteProject

\* The number that is stored stands for the last choice or for none, whatever
\* saves, forms and deletions come in between.
THEOREM ChoiceStored == Spec => []PrefsAreChoice
<1>1. Init => PrefsAreChoice
  BY DEF Init, PrefsAreChoice, Accounts
<1> QED
  BY <1>1, TypeCorrect, NextChoice, PTL DEF Spec

LEMMA ClosingForm ==
  ASSUME TypeOK, [Next]_vars, NEW f \in Forms, form[f] # NoForm, form'[f] = NoForm
  PROVE  SubmitForm(f)
<1>1. ASSUME NEW g \in Forms, NEW u \in Users, OpenForm(g, u) PROVE FALSE
  BY <1>1 DEF OpenForm, TypeOK
<1>2. ASSUME NEW g \in Forms, NEW b \in Box, Toggle(g, b) PROVE FALSE
  <2>1. form[g] \in Form
    BY <1>2 DEF Toggle, TypeOK
  <2>2. form'[g] \in Form
    BY <1>2, <2>1 DEF Toggle, TypeOK, Form
  <2> QED
    BY <1>2, <2>2 DEF Toggle, TypeOK
<1>3. ASSUME NEW g \in Forms, SubmitForm(g) PROVE g = f
  BY <1>3 DEF SubmitForm, TypeOK
<1> QED
  BY <1>1, <1>2, <1>3
  DEF Next, vars, Register, SaveElsewhere, SetForTest, CreateProject, DeleteProject

\* Saving a profile stores the boxes it shows, keeps the number behind boxes
\* the user may not see, and clears it only if they were hidden when the form
\* was opened and are not any more.
THEOREM FormsHonest == Spec => FormsStoreWhatTheyShow
<1> DEFINE Honest ==
      \A f \in Forms :
         (form[f] # NoForm /\ form'[f] = NoForm) =>
           LET u == form[f].user
           IN  \/ DefaultBoxes(prefs'[u]) = form[f].boxes
               \/ ~IsAuthor(u) /\ prefs'[u] = prefs[u]
               \/ IsAuthor(u) /\ form[f].boxes = NoBoxes /\ prefs'[u] = 0
<1>1. TypeOK /\ [Next]_vars => Honest
  <2> SUFFICES ASSUME TypeOK, [Next]_vars, NEW f \in Forms,
                      form[f] # NoForm, form'[f] = NoForm
               PROVE  LET u == form[f].user
                      IN  \/ DefaultBoxes(prefs'[u]) = form[f].boxes
                          \/ ~IsAuthor(u) /\ prefs'[u] = prefs[u]
                          \/ IsAuthor(u) /\ form[f].boxes = NoBoxes /\ prefs'[u] = 0
    OBVIOUS
  <2> DEFINE u == form[f].user
  <2>1. SubmitForm(f)
    BY ClosingForm
  <2>2. u \in Accounts /\ u \in Users /\ prefs[u] \in 0..7
        /\ form[f].boxes \in (SUBSET Box) \cup {NoBoxes}
    BY DEF TypeOK, Form
  <2>3. prefs'[u] = PrefsSum(Submitted(f))
    BY <2>1, <2>2, UserSaveTyped DEF SubmitForm
  <2>4. CASE ~IsAuthor(u)
    BY <2>2, <2>3, <2>4, NumberReadBack DEF Submitted
  <2>5. CASE IsAuthor(u) /\ form[f].boxes = NoBoxes
    BY <2>3, <2>5, NoBoxesZero DEF Submitted
  <2>6. CASE IsAuthor(u) /\ form[f].boxes # NoBoxes
    <3>1. form[f].boxes \in SUBSET Box /\ Submitted(f) = form[f].boxes
      BY <2>2, <2>6 DEF Submitted
    <3> QED
      BY <2>3, <3>1, BoxesReadBack
  <2> QED
    BY <2>4, <2>5, <2>6
<1> QED
  BY <1>1, TypeCorrect, PTL DEF Spec, FormsStoreWhatTheyShow
=============================================================================
