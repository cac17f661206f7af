--------------------------- MODULE EventAddressForm ---------------------------
(***************************************************************************)
(* The address of an event.  A visitor picks a project in an autocomplete  *)
(* field; event_add_form.js asks the server for its address and writes     *)
(* that into the form.  Every pick sends a lookup of its own; answers come *)
(* in any order or not at all, while editors publish, unpublish and move   *)
(* the projects.  The server loads a project through the field cache,      *)
(* which it fills after reading and which editors clear.                   *)
(***************************************************************************)
EXTENDS Autocomplete

CONSTANTS
    Places,      \* addresses
    MaxLookups,  \* bound: the picks of a visitor
    MaxEdits     \* bound: the changes of projects

ASSUME AddressAssumption ==
    /\ {MaxLookups, MaxEdits} \subseteq Nat
    /\ Nothing \notin Places
    /\ "404" \notin Places

VARIABLES
    place,       \* place[p]: field_address of project p in the database
    viewable,    \* the projects the visitor may view
    fieldCache,  \* fieldCache[p]: its address in {cache_field}, or Nothing
    selected,    \* the project that was picked last
    lookups,     \* the lookups under way, numbered as they were sent
    sent,        \* how many were sent
    fields,      \* what the address fields of the form show
    edits,       \* how often projects have changed
    last,        \* history: the number of the lookup that was written last
    had,         \* history: the addresses the selected project has had since
    seen,        \* history: could it be viewed at some time since
    raced        \* history: the projects that were changed while a lookup had
                 \* read them from the database and not cached them yet

dbVars == <<place, viewable, fieldCache, edits>>
formVars == <<selected, lookups, sent, fields, last>>
history == <<had, seen, raced>>
vars == <<boxVars, dbVars, formVars, history>>

\* A lookup: what the server knows of the node, and the answer.
Stages == {"sent", "node", "read", "answered"}
Lookup == [id : 1..MaxLookups, project : Projects, stage : Stages,
           access : BOOLEAN, answer : Places \cup {Nothing, "404"}]

\* The fields: street, city, zip code and country come together; the state of
\* the country is a field of its own, which has a value or not.
Fields == [address : Places \cup {Nothing}, state : BOOLEAN]

TypeOK ==
    /\ BoxTypeOK
    /\ place \in [Projects -> Places]
    /\ viewable \subseteq Projects
    /\ fieldCache \in [Projects -> Places \cup {Nothing}]
    /\ selected \in Projects \cup {Nothing}
    /\ lookups \subseteq Lookup
    /\ sent \in 0..MaxLookups
    /\ fields \in Fields
    /\ edits \in 0..MaxEdits
    /\ last \in 0..sent
    /\ had \subseteq Places
    /\ seen \in BOOLEAN
    /\ raced \subseteq Projects

Init ==
    /\ BoxInit
    /\ place \in [Projects -> Places]
    /\ viewable \in SUBSET Projects
    /\ fieldCache = [p \in Projects |-> Nothing]
    /\ selected = Nothing
    /\ lookups = {}
    /\ sent = 0
    /\ fields = [address |-> Nothing, state |-> FALSE]
    /\ edits = 0
    /\ last = 0
    /\ had = {}
    /\ seen = FALSE
    /\ raced = {}

-----------------------------------------------------------------------------
\* autocompleteSelect: $.get() of the lookup of the project.
Select(p) ==
    /\ sent < MaxLookups
    /\ selected' = p
    /\ sent' = sent + 1
    /\ lookups' = lookups \cup {[id |-> sent', project |-> p, stage |-> "sent",
                                 access |-> FALSE, answer |-> Nothing]}
    /\ had' = {place[q] : q \in {p}}
    /\ seen' = (p \in viewable)
    /\ UNCHANGED <<dbVars, fields, last, raced>>

\* The field at work, and with every choice the handler of autocompleteSelect.
Box ==
    /\ BoxNext
    /\ \/ picks' = picks /\ UNCHANGED <<dbVars, formVars, history>>
       \/ picks' # picks /\ Select(text'.query)

\* A step of a lookup on the server.
Advance(l, m) ==
    /\ lookups' = (lookups \ {l}) \cup {m}
    /\ UNCHANGED <<boxVars, place, viewable, edits, selected, sent, fields,
                   last, history>>

\* _custom_event_address_lookup(), node_load(): the row of the node, which tells
\* whether the visitor may view it.  The other alternative of the condition
\* compares $node->status, which is a string, with === 1, and never holds.
LoadNode(l) ==
    /\ l.stage = "sent"
    /\ Advance(l, [l EXCEPT !.stage = "node", !.access = l.project \in viewable])
    /\ UNCHANGED fieldCache

Response(l, a) == IF l.access THEN a ELSE "404"

\* field_attach_load(): the fields are in the cache.
CacheHit(l) ==
    /\ l.stage = "node"
    /\ fieldCache[l.project] # Nothing
    /\ Advance(l, [l EXCEPT !.stage = "answered",
                            !.answer = Response(l, fieldCache[l.project])])
    /\ UNCHANGED fieldCache

\* They are not, and are read from the database.
ReadFields(l) ==
    /\ l.stage = "node"
    /\ fieldCache[l.project] = Nothing
    /\ Advance(l, [l EXCEPT !.stage = "read", !.answer = place[l.project]])
    /\ UNCHANGED fieldCache

\* They are cached, and the lookup answers.
CacheSet(l) ==
    /\ l.stage = "read"
    /\ fieldCache' = [fieldCache EXCEPT ![l.project] = l.answer]
    /\ Advance(l, [l EXCEPT !.stage = "answered",
                            !.answer = Response(l, l.answer)])

\* Mistake: the callback also takes the 404 page for an address.
FillFailed(l) ==
    /\ l.stage = "answered"
    /\ fields' = [address |-> l.answer, state |-> FALSE]
    /\ lookups' = lookups \ {l}
    /\ last' = l.id
    /\ UNCHANGED <<boxVars, dbVars, selected, sent, history>>

\* Mistake: the callback leaves fields alone that have a value.
FillEmpty(l) ==
    /\ l.stage = "answered" /\ l.answer # "404"
    /\ fields' = IF fields.address = Nothing
                   THEN [address |-> l.answer, state |-> FALSE] ELSE fields
    /\ lookups' = lookups \ {l}
    /\ last' = l.id
    /\ UNCHANGED <<boxVars, dbVars, selected, sent, history>>

\* The callback writes all fields at once.  It reads the state of the country
\* from response.adminisrtative_area, which is undefined: the field is emptied.
Fill(l) ==
    /\ l.stage = "answered" /\ l.answer # "404"
    /\ fields' = [address |-> l.answer, state |-> FALSE]
    /\ lookups' = lookups \ {l}
    /\ last' = l.id
    /\ UNCHANGED <<boxVars, dbVars, selected, sent, history>>

\* There is no callback for a failure, of the network or of the server.
Lose(l) ==
    /\ lookups' = lookups \ {l}
    /\ UNCHANGED <<boxVars, dbVars, selected, sent, fields, last, history>>

\* The visitor chooses the state of the country by hand.
ChooseState ==
    /\ fields.address # Nothing
    /\ fields' = [fields EXCEPT !.state = TRUE]
    /\ UNCHANGED <<boxVars, dbVars, selected, lookups, sent, last, history>>

\* Mistake: the fields of a node that is saved stay in the cache.
EditUncleared(p) ==
    /\ edits < MaxEdits
    /\ edits' = edits + 1
    /\ \/ /\ \E a \in Places : place' = [place EXCEPT ![p] = a]
          /\ UNCHANGED viewable
       \/ /\ viewable' = IF p \in viewable THEN viewable \ {p} ELSE viewable \cup {p}
          /\ UNCHANGED place
    /\ had' = had \cup {place'[q] : q \in {selected} \cap {p}}
    /\ seen' = (seen \/ selected \in viewable')
    /\ raced' = raced \cup {q \in {p} : \E l \in lookups : l.stage = "read"
                                                           /\ l.project = q}
    /\ UNCHANGED <<boxVars, fieldCache, formVars>>

\* Editors move a project, publish or unpublish it: node_save(), which writes
\* the node and its fields and clears the cache in one transaction.
Edit(p) ==
    /\ edits < MaxEdits
    /\ edits' = edits + 1
    /\ \/ /\ \E a \in Places : place' = [place EXCEPT ![p] = a]
          /\ UNCHANGED viewable
       \/ /\ viewable' = IF p \in viewable THEN viewable \ {p} ELSE viewable \cup {p}
          /\ UNCHANGED place
    /\ fieldCache' = [fieldCache EXCEPT ![p] = Nothing]
    /\ had' = had \cup {place'[q] : q \in {selected} \cap {p}}
    /\ seen' = (seen \/ selected \in viewable')
    /\ raced' = raced \cup {q \in {p} : \E l \in lookups : l.stage = "read"
                                                           /\ l.project = q}
    /\ UNCHANGED <<boxVars, formVars>>

\* All caches are flushed.
Flush ==
    /\ fieldCache' = [p \in Projects |-> Nothing]
    /\ UNCHANGED <<boxVars, place, viewable, edits, formVars, history>>

Next ==
    \/ Box
    \/ \E l \in lookups : \/ LoadNode(l) \/ CacheHit(l) \/ ReadFields(l)
                          \/ CacheSet(l) \/ Fill(l) \/ Lose(l)
    \/ \E p \in Projects : Edit(p)
    \/ ChooseState \/ Flush

Spec == Init /\ [][Next]_vars

-----------------------------------------------------------------------------
\* cache_set() of a load and cache_clear_all() of a save come in any order
\* (field.attach.inc:730, 1029): a row of {cache_field} differs from the
\* database only after a save between the read and the store of a load.
CacheStale == \A p \in Projects : fieldCache[p] \in {Nothing, place[p]} \/ p \in raced

\* However lookups overtake each other or get lost, and whatever editors do:
\* if the project picked last is also the one written last, the form shows an
\* address that this project has had since and it could be viewed at some time
\* since; only the race above lets an older address through.
LastSelectionFills ==
    (sent > 0 /\ last = sent) =>
        seen /\ (fields.address \in had \/ selected \in raced)
=============================================================================
