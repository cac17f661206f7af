------------------------- MODULE ProjectNotifications -------------------------
(***************************************************************************)
(* Notification preferences: the check boxes on the profile form and the   *)
(* number they are stored as with every user_save().  Only authors of      *)
(* projects see the boxes; forms are shown long before they are submitted, *)
(* and rebuilt when they are.                                              *)
(***************************************************************************)
EXTENDS Integers

CONSTANTS
    Users,       \* uids, but for the anonymous one
    Admins,      \* those with the role "admin"
    Projects,    \* nids of project nodes
    Forms,       \* profile forms that are open in some browser
    NoForm,      \* a browser without one
    NoBoxes      \* a form that shows no boxes

Box == {1, 2, 4}  \* same neighborhood, same type, both

\* What a browser shows: whose profile it is, and which boxes are ticked.
Form == [user : Users, boxes : (SUBSET Box) \cup {NoBoxes}]

ASSUME PrefsAssumption ==
    /\ NoForm \notin Form
    /\ \A boxes \in SUBSET Box : NoBoxes # boxes

VARIABLES
    prefs,       \* field_project_notification_prefs, 0..7, of the accounts there are
    projects,    \* nid -> author of the project nodes there are
    form,        \* form[f]: the user and the ticked boxes a browser shows
    chosen       \* history: the boxes last chosen, with the profile form or by
                 \* a test

vars == <<prefs, projects, form, chosen>>

Accounts == DOMAIN prefs

\* Forms are about accounts that exist, projects are by such accounts, and a
\* number never exceeds three bits.
TypeOK ==
    /\ Accounts \subseteq Users
    /\ prefs \in [Accounts -> 0..7]
    /\ DOMAIN projects \subseteq Projects
    /\ projects \in [DOMAIN projects -> Accounts]
    /\ form \in [Forms -> Form \cup {NoForm}]
    /\ \A f \in Forms : form[f] # NoForm => form[f].user \in Accounts
    /\ chosen \in [Users -> SUBSET Box]

Init ==
    /\ prefs = [u \in {} |-> 0]
    /\ projects = [p \in {} |-> NoForm]
    /\ form = [f \in Forms |-> NoForm]
    /\ chosen = [u \in Users |-> {}]

\* Mistake: element 0 is taken for the lowest digit.
BitArrayMirrored(d) == << d % 2, (d \div 2) % 2, d \div 4 >>

\* _custom_decimal_prefs_to_bit_array() of a number below 8: element 0 of the
\* PHP array, the highest binary digit, is <<...>>[1] here.
BitArray(d) == << d \div 4, (d \div 2) % 2, d % 2 >>

\* _custom_project_notify_field_default_value(): the boxes a number stands for.
DefaultBoxes(d) ==
    {b \in Box : BitArray(d)[CASE b = 1 -> 3 [] b = 2 -> 2 [] b = 4 -> 1] = 1}

\* custom_user_presave(): the sum of the values; boxes that are not ticked have
\* the value 0.
PrefsSum(boxes) ==
    LET value(b) == IF b \in boxes THEN b ELSE 0
    IN  value(1) + value(2) + value(4)

\* _custom_user_is_author(): administrators always count.
IsAuthor(u) ==
    u \in Admins \/ \E p \in DOMAIN projects : projects[p] = u

\* user_save(): every save stores a number, that of the boxes in $edit.
UserSave(u, boxes) ==
    prefs' = [v \in Accounts \cup {u} |->
                IF v = u THEN PrefsSum(boxes) ELSE prefs[v]]

-----------------------------------------------------------------------------
\* The registration form has no boxes.
Register(u) ==
    /\ u \notin Accounts
    /\ UserSave(u, {})
    /\ UNCHANGED <<projects, form, chosen>>

\* Users are saved without a form: blocked and unblocked, validated, moved to
\* another role, given an email address by custom_map_user_to_project().
SaveElsewhere(u) ==
    /\ u \in Accounts
    /\ UserSave(u, {})
    /\ UNCHANGED <<projects, form, chosen>>

\* _custom_max_notification_settings() and its like "for testing": a number for
\* the author in $edit, which user_save() takes after the presave hook.
SetForTest(u, d) ==
    /\ u \in Accounts
    /\ IsAuthor(u)
    /\ prefs' = [prefs EXCEPT ![u] = d]
    /\ chosen' = [chosen EXCEPT ![u] = DefaultBoxes(d)]
    /\ UNCHANGED <<projects, form>>

\* The profile form shows the boxes to authors of projects only.
OpenForm(f, u) ==
    /\ form[f] = NoForm
    /\ u \in Accounts
    /\ form' = [form EXCEPT ![f] =
                  [user |-> u, boxes |-> IF IsAuthor(u)
                                           THEN DefaultBoxes(prefs[u])
                                           ELSE NoBoxes]]
    /\ UNCHANGED <<prefs, projects, chosen>>

\* Ticking or clearing a box.
Toggle(f, b) ==
    /\ form[f] # NoForm
    /\ form[f].boxes # NoBoxes
    /\ form' = [form EXCEPT ![f].boxes =
                  IF b \in @ THEN @ \ {b} ELSE @ \cup {b}]
    /\ UNCHANGED <<prefs, projects, chosen>>

\* Mistake: boxes without access are read from the browser too.
SubmittedUnchecked(f) == IF form[f].boxes = NoBoxes THEN {} ELSE form[f].boxes

\* The form is built again from the account and then reads what the browser
\* sends.  Boxes that are not accessible keep their default value; accessible
\* ones of which the browser knows nothing are empty.
Submitted(f) ==
    LET u == form[f].user
    IN  IF ~IsAuthor(u) THEN DefaultBoxes(prefs[u])
        ELSE IF form[f].boxes = NoBoxes THEN {}
        ELSE form[f].boxes

SubmitForm(f) ==
    /\ form[f] # NoForm
    /\ UserSave(form[f].user, Submitted(f))
    /\ chosen' = IF IsAuthor(form[f].user)
                   THEN [chosen EXCEPT ![form[f].user] = Submitted(f)]
                   ELSE chosen
    /\ form' = [form EXCEPT ![f] = NoForm]
    /\ UNCHANGED projects

\* node_save() of a new project.  The presave hook of this module queues no
\* notice: the query for those who want one is commented out, and the loop
\* over its result runs for nobody.
CreateProject(p, u) ==
    /\ p \notin DOMAIN projects
    /\ u \in Accounts
    /\ projects' = [q \in DOMAIN projects \cup {p} |->
                      IF q = p THEN u ELSE projects[q]]
    /\ UNCHANGED <<prefs, form, chosen>>

DeleteProject(p) ==
    /\ p \in DOMAIN projects
    /\ projects' = [q \in DOMAIN projects \ {p} |-> projects[q]]
    /\ UNCHANGED <<prefs, form, chosen>>

Next ==
    \/ \E u \in Users :
         \/ Register(u)
         \/ SaveElsewhere(u)
         \/ \E d \in 0..7 : SetForTest(u, d)
         \/ \E f \in Forms : OpenForm(f, u)
    \/ \E f \in Forms :
         \/ \E b \in Box : Toggle(f, b)
         \/ SubmitForm(f)
    \/ \E p \in Projects :
         \/ \E u \in Users : CreateProject(p, u)
         \/ DeleteProject(p)

Spec == Init /\ [][Next]_vars

-----------------------------------------------------------------------------
\* What is stored stands for the boxes of the last choice, or for none: the
\* number, the bit string, the form's default and the form's values agree on
\* which box is which, whatever saves, forms and deletions come in between.
PrefsAreChoice ==
    \A u \in Accounts : DefaultBoxes(prefs[u]) \in {chosen[u], {}}

\* A form never changes what it does not show: saving the profile stores the
\* boxes the browser shows, keeps the number when the boxes are hidden from
\* the user, and clears it only if they were hidden when the form was opened.
FormsStoreWhatTheyShow ==
    [][\A f \in Forms :
         (form[f] # NoForm /\ form'[f] = NoForm) =>
           LET u == form[f].user
           IN  \/ DefaultBoxes(prefs'[u]) = form[f].boxes
               \/ ~IsAuthor(u) /\ prefs'[u] = prefs[u]
               \/ IsAuthor(u) /\ form[f].boxes = NoBoxes /\ prefs'[u] = 0]_vars

\* "Saves the user preferences data added to the user profile form"
\* (custom.user.inc:101): what a user chose there is kept until the user
\* chooses again.
ChoiceKept ==
    \A u \in Accounts : DefaultBoxes(prefs[u]) = chosen[u]
=============================================================================
