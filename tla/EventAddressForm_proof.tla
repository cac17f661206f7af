----------------------- MODULE EventAddressForm_proof -----------------------
(***************************************************************************)
(* Proofs about the autocomplete field, for any strings, suggestions and   *)
(* number of keys, and about the lookups of the event form that contains   *)
(* one, for any projects, places, picks and changes by editors.            *)
(***************************************************************************)
EXTENDS EventAddressForm, TLAPS

USE BoxAssumption

\* An input that has been emptied while the popup is there: a keyup is due.
Attended == (popup # Nothing /\ text = Empty) => due

BoxInv == BoxTypeOK /\ SearchShown /\ SearchUnderWay /\ Attended

LEMMA EmptyText == Empty \in Text
  BY DEF Empty, Text

LEMMA BoxInitInv == BoxInit => BoxInv
<1> SUFFICES ASSUME BoxInit PROVE BoxInv
  OBVIOUS
<1>1. BoxTypeOK
  <2>1. /\ asked \in [Strings -> Nat]
        /\ cache \in [Strings -> (SUBSET Projects) \cup {Nothing}]
    BY DEF BoxInit
  <2>2. {text, searched} \subseteq Text /\ keys \in Nat
    BY EmptyText DEF BoxInit
  <2>3. /\ due \in BOOLEAN /\ popup = Nothing /\ chosen = Nothing
        /\ timer = Nothing /\ failed = {} /\ fading = {} /\ picks = 0
    BY DEF BoxInit
  <2> QED
    BY <2>1, <2>2, <2>3 DEF BoxTypeOK
<1>2. SearchShown /\ SearchUnderWay /\ Attended
  BY DEF BoxInit, SearchShown, SearchUnderWay, Attended, Waiting
<1> QED
  BY <1>1, <1>2 DEF BoxInv

\* What closes the popup leaves nothing shown, highlighted or waited for.
LEMMA HidePopupInv ==
  ASSUME BoxInv, NEW select \in BOOLEAN, NEW visible \in BOOLEAN,
         HidePopup(select, visible)
  PROVE  /\ text' \in Text /\ popup' = Nothing /\ chosen' = Nothing
         /\ picks' \in 0..1 /\ fading' \subseteq List
         /\ SearchShown' /\ SearchUnderWay' /\ Attended'
<1>1. chosen # Nothing => chosen.item \in Projects
  BY DEF BoxInv, BoxTypeOK, Highlighted
<1>2. text' \in Text /\ picks' \in 0..1
  <2>1. text \in Text /\ picks \in 0..1
    BY DEF BoxInv, BoxTypeOK
  <2>2. CASE select /\ chosen # Nothing
    <3>1. [query |-> chosen.item, exact |-> TRUE] \in Text
      BY <1>1, <2>2 DEF Text, Strings
    <3>2. text' = [query |-> chosen.item, exact |-> TRUE] /\ picks' = 1 - picks
      BY <2>2, Zenon DEF HidePopup
    <3> QED
      BY <2>1, <3>1, <3>2
  <2>3. CASE ~(select /\ chosen # Nothing)
    BY <2>1, <2>3 DEF HidePopup
  <2> QED
    BY <2>2, <2>3
<1>3. popup' = Nothing /\ chosen' = Nothing
  BY DEF HidePopup
<1>4. fading' \subseteq List
  BY DEF HidePopup, BoxInv, BoxTypeOK
<1> QED
  BY <1>2, <1>3, <1>4 DEF SearchShown, SearchUnderWay, Attended, Waiting

\* A popup for the text of the input: an answer from the cache, or a timer.
LEMMA PopulatePopupInv ==
  ASSUME BoxInv, PopulatePopup, text # Empty
  PROVE  /\ popup' \in List \cup {Hidden, Nothing} /\ chosen' = Nothing
         /\ timer' \in Strings \cup {Nothing} /\ searched' \in Text
         /\ UNCHANGED <<text, fading, picks>>
         /\ SearchShown' /\ SearchUnderWay' /\ Attended'
<1>1. /\ searched' = text /\ chosen' = Nothing /\ text' = text /\ picks' = picks
      /\ fading' = fading
      /\ text \in Text /\ text.query \in Strings \cup {Nothing}
  BY DEF PopulatePopup, BoxInv, BoxTypeOK, Text
<1>2. CASE text.query = Nothing
  <2>1. popup' = Hidden /\ timer' = timer
    BY <1>2 DEF PopulatePopup
  <2>2. popup' \notin List
    BY <2>1 DEF List, Hidden
  <2>3. \A q \in Strings : searched' # [query |-> q, exact |-> TRUE]
    BY <1>1, <1>2
  <2> QED
    BY <1>1, <2>1, <2>2, <2>3
    DEF BoxInv, BoxTypeOK, SearchShown, SearchUnderWay, Attended, Waiting
<1>3. CASE text.query # Nothing /\ cache[text.query] = Nothing
  <2>1. popup' = Hidden /\ timer' = text.query
    BY <1>3 DEF PopulatePopup
  <2>2. popup' \notin List
    BY <2>1 DEF List, Hidden
  <2>3. \A q \in Strings : searched' = [query |-> q, exact |-> TRUE] => timer' = q
    BY <1>1, <2>1
  <2> QED
    BY <1>1, <1>3, <2>1, <2>2, <2>3
    DEF SearchShown, SearchUnderWay, Attended, Waiting
<1>4. CASE text.query # Nothing /\ cache[text.query] # Nothing
  <2> DEFINE list == [query |-> text.query, items |-> cache[text.query]]
  <2>1. popup' \in {Nothing, list} /\ timer' = timer
    BY <1>4 DEF PopulatePopup
  <2>2. cache[text.query] \subseteq Projects
    BY <1>1, <1>4 DEF BoxInv, BoxTypeOK
  <2>3. list \in List /\ list # Hidden /\ list.query = searched'.query
    BY <1>1, <1>4, <2>2 DEF List, Hidden
  <2>4. popup' # Hidden
    BY <2>1, <2>3
  <2> QED
    BY <1>1, <2>1, <2>3, <2>4
    DEF BoxInv, BoxTypeOK, SearchShown, SearchUnderWay, Attended, Waiting
<1> QED
  BY <1>2, <1>3, <1>4

LEMMA PressInv == ASSUME BoxInv, NEW t \in Typed, Press(t) PROVE BoxInv'
  BY DEF Press, BoxInv, BoxTypeOK, SearchShown, SearchUnderWay, Attended, Waiting

LEMMA KeyUpInv == ASSUME BoxInv, NEW d \in BOOLEAN, KeyUp(d) PROVE BoxInv'
<1>0. due' = FALSE /\ UNCHANGED <<asked, cache, keys, failed>>
  BY DEF KeyUp
<1>1. CASE text # Empty /\ PopulatePopup
  BY <1>0, <1>1, PopulatePopupInv DEF BoxInv, BoxTypeOK
<1>2. CASE HidePopup(~d, TRUE) /\ UNCHANGED <<searched, timer>>
  BY <1>0, <1>2, HidePopupInv DEF BoxInv, BoxTypeOK
<1> QED
  BY <1>1, <1>2 DEF KeyUp

LEMMA CloseInv == ASSUME BoxInv, Escape \/ Commit \/ Blur PROVE BoxInv'
<1>1. PICK select \in BOOLEAN : HidePopup(select, TRUE)
  BY DEF Escape, Commit, Blur
<1>2. UNCHANGED <<asked, cache, keys, failed>> /\ due' \in BOOLEAN
  BY DEF Escape, Commit, Blur, BoxInv, BoxTypeOK
<1>3. timer' \in Strings \cup {Nothing} /\ searched' \in Text
  BY EmptyText DEF Escape, Commit, Blur, BoxInv, BoxTypeOK
<1> QED
  BY <1>1, <1>2, <1>3, HidePopupInv DEF BoxInv, BoxTypeOK

LEMMA HighlightInv == ASSUME BoxInv, NEW p \in Projects, Highlight(p) PROVE BoxInv'
<1>1. CASE popup # Nothing /\ p \in popup.items
           /\ chosen' = [item |-> p, list |-> popup, faded |-> FALSE]
  <2>1. popup \in List
    BY <1>1 DEF BoxInv, BoxTypeOK, Hidden
  <2>2. chosen' \in Highlighted /\ chosen'.list = popup
    BY <1>1, <2>1 DEF Highlighted
  <2> QED
    BY <1>1, <2>1, <2>2 DEF Highlight, BoxInv, BoxTypeOK, SearchShown,
                            SearchUnderWay, Attended, Waiting
<1>2. CASE chosen # Nothing /\ p \in chosen.list.items /\ chosen' = [chosen EXCEPT !.item = p]
  <2>1. chosen \in Highlighted
    BY <1>2 DEF BoxInv, BoxTypeOK
  <2>2. /\ chosen' \in Highlighted
        /\ chosen'.list = chosen.list /\ chosen'.faded = chosen.faded
    BY <1>2, <2>1 DEF Highlighted
  <2> QED
    BY <1>2, <2>2 DEF Highlight, BoxInv, BoxTypeOK, SearchShown, SearchUnderWay,
                      Attended, Waiting
<1>3. CASE \E list \in fading : chosen' = [item |-> p, list |-> list, faded |-> TRUE]
  <2>1. PICK list \in fading : chosen' = [item |-> p, list |-> list, faded |-> TRUE]
    BY <1>3
  <2>2. chosen' \in Highlighted /\ chosen'.faded = TRUE
    BY <2>1 DEF BoxInv, BoxTypeOK, Highlighted
  <2> QED
    BY <2>2 DEF Highlight, BoxInv, BoxTypeOK, SearchShown, SearchUnderWay,
                Attended, Waiting
<1> QED
  BY <1>1, <1>2, <1>3 DEF Highlight

LEMMA FadeOutInv == ASSUME BoxInv, NEW list \in fading, FadeOut(list) PROVE BoxInv'
  BY DEF FadeOut, BoxInv, BoxTypeOK, SearchShown, SearchUnderWay, Attended, Waiting

LEMMA FireInv == ASSUME BoxInv, Fire PROVE BoxInv'
<1>1. /\ timer \in Strings /\ asked \in [Strings -> Nat]
      /\ asked' = [asked EXCEPT ![timer] = @ + 1]
  BY DEF Fire, BoxInv, BoxTypeOK
<1>2. /\ asked' \in [Strings -> Nat]
      /\ \A q \in Strings : asked[q] > 0 \/ q = timer => asked'[q] > 0
  BY <1>1
<1>3. BoxTypeOK'
  BY <1>2 DEF Fire, BoxInv, BoxTypeOK
<1>4. SearchUnderWay'
  BY <1>2 DEF Fire, BoxInv, SearchUnderWay, Waiting
<1> QED
  BY <1>3, <1>4 DEF Fire, BoxInv, SearchShown, Attended

LEMMA ArriveInv ==
  ASSUME BoxInv, NEW q \in Strings, NEW items \in SUBSET Projects, Arrive(q, items)
  PROVE  BoxInv'
<1>1. asked \in [Strings -> Nat] /\ asked[q] > 0 /\ asked' = [asked EXCEPT ![q] = @ - 1]
  BY DEF Arrive, BoxInv, BoxTypeOK
<1>2. /\ asked' \in [Strings -> Nat]
      /\ \A r \in Strings : asked[r] > 0 /\ r # q => asked'[r] > 0
  BY <1>1
<1>3. cache' \in [Strings -> (SUBSET Projects) \cup {Nothing}]
  BY DEF Arrive, BoxInv, BoxTypeOK
<1>4. UNCHANGED <<due, searched, timer, keys, failed>>
  BY DEF Arrive
<1>5. CASE searched # [query |-> q, exact |-> TRUE]
  <2>1. UNCHANGED <<popup, fading, chosen, text, picks>>
    BY <1>5 DEF Arrive
  <2>2. SearchUnderWay'
    BY <1>2, <1>4, <1>5, <2>1 DEF BoxInv, SearchUnderWay, Waiting
  <2> QED
    BY <1>2, <1>3, <1>4, <2>1, <2>2 DEF BoxInv, BoxTypeOK, SearchShown, Attended
<1>6. CASE searched = [query |-> q, exact |-> TRUE]
  <2>1. Found(q, items)
    BY <1>6 DEF Arrive
  <2>2. \A r \in Strings : r # q => ~Waiting(r)'
    BY <1>4, <1>6 DEF Waiting
  <2>3. CASE /\ text # Empty /\ popup' = [query |-> q, items |-> items]
             /\ UNCHANGED <<fading, chosen, text, picks>>
    <3>1. popup' \in List /\ popup'.query = searched'.query
      BY <1>4, <1>6, <2>3 DEF List
    <3>2. popup' # Hidden
      BY <2>3 DEF Hidden, Strings
    <3> QED
      BY <1>2, <1>3, <1>4, <2>3, <3>1, <3>2
      DEF BoxInv, BoxTypeOK, SearchShown, SearchUnderWay, Attended, Waiting
  <2>4. CASE HidePopup(TRUE, FALSE)
    BY <1>2, <1>3, <1>4, <2>4, HidePopupInv DEF BoxInv, BoxTypeOK
  <2>5. CASE /\ text = Empty \/ popup = Nothing
             /\ UNCHANGED <<popup, fading, chosen, text, picks>>
    <3>1. Waiting(q)' => due'
      BY <1>4, <2>5 DEF BoxInv, Attended, Waiting
    <3>2. SearchUnderWay'
      BY <2>2, <3>1 DEF SearchUnderWay
    <3> QED
      BY <1>2, <1>3, <1>4, <2>5, <3>2 DEF BoxInv, BoxTypeOK, SearchShown, Attended
  <2> QED
    BY <2>1, <2>3, <2>4, <2>5 DEF Found
<1> QED
  BY <1>5, <1>6

LEMMA FailInv == ASSUME BoxInv, NEW q \in Strings, Fail(q) PROVE BoxInv'
<1>1. asked \in [Strings -> Nat] /\ asked[q] > 0 /\ asked' = [asked EXCEPT ![q] = @ - 1]
  BY DEF Fail, BoxInv, BoxTypeOK
<1>2. /\ asked' \in [Strings -> Nat]
      /\ \A r \in Strings : asked[r] > 0 /\ r # q => asked'[r] > 0
  BY <1>1
<1>3. SearchUnderWay'
  BY <1>2 DEF Fail, BoxInv, SearchUnderWay, Waiting
<1> QED
  BY <1>2, <1>3 DEF Fail, BoxInv, BoxTypeOK, SearchShown, Attended

LEMMA BoxNextInv == BoxInv /\ [BoxNext]_boxVars => BoxInv'
<1> SUFFICES ASSUME BoxInv, [BoxNext]_boxVars PROVE BoxInv'
  OBVIOUS
<1>1. CASE UNCHANGED boxVars
  BY <1>1 DEF boxVars, BoxInv, BoxTypeOK, SearchShown, SearchUnderWay, Attended,
              Waiting
<1>2. CASE Unhighlight
  BY <1>2 DEF Unhighlight, BoxInv, BoxTypeOK, SearchShown, SearchUnderWay,
              Attended, Waiting
<1> QED
  BY <1>1, <1>2, PressInv, KeyUpInv, CloseInv, HighlightInv, FadeOutInv, FireInv,
     ArriveInv, FailInv DEF BoxNext

\* The variables of the field keep their types.
THEOREM BoxTypeCorrect == BoxSpec => []BoxTypeOK
<1>1. BoxInv => BoxTypeOK
  BY DEF BoxInv
<1> QED
  BY <1>1, BoxInitInv, BoxNextInv, PTL DEF BoxSpec

\* Whatever order answers come in, what is shown answers the latest search, and
\* so does what is highlighted unless the mouse met it in a closed list.
THEOREM ShownIsSearched == BoxSpec => []SearchShown
<1>1. BoxInv => SearchShown
  BY DEF BoxInv
<1> QED
  BY <1>1, BoxInitInv, BoxNextInv, PTL DEF BoxSpec

\* A popup that waits for an answer is never left without a timer or a request,
\* unless one has failed or a key is down.
THEOREM SearchNeverForgotten == BoxSpec => []SearchUnderWay
<1>1. BoxInv => SearchUnderWay
  BY DEF BoxInv
<1> QED
  BY <1>1, BoxInitInv, BoxNextInv, PTL DEF BoxSpec

-----------------------------------------------------------------------------
USE AddressAssumption

\* What a lookup knows: the address that was read is in the database, or the
\* project was changed in between; the lookup that was sent last is about the
\* selected project and answers an address that this project has had since.
LookupOK(l) ==
    /\ l.id <= sent
    /\ l.stage = "read" => /\ l.answer \in Places
                           /\ l.answer = place[l.project] \/ l.project \in raced
    /\ l.id = sent =>
         /\ l.project = selected
         /\ l.access => seen
         /\ l.stage = "read" => l.answer \in had \/ selected \in raced
         /\ l.stage = "answered" /\ l.answer # "404" =>
              seen /\ (l.answer \in had \/ selected \in raced)

SelectedOK ==
    /\ selected # Nothing => place[selected] \in had
    /\ selected \in viewable => seen
    /\ sent > 0 => selected # Nothing
    /\ \A l \in lookups : LookupOK(l)

Inv == BoxInv /\ TypeOK /\ SelectedOK /\ CacheStale /\ LastSelectionFills

LEMMA InitInv == Init => Inv
<1> SUFFICES ASSUME Init PROVE Inv
  OBVIOUS
<1>1. BoxInv
  BY BoxInitInv DEF Init
<1>2. /\ place \in [Projects -> Places] /\ fieldCache \in [Projects -> Places \cup {Nothing}]
      /\ fields \in Fields
  BY DEF Init, Fields
<1>3. BoxTypeOK
  BY <1>1 DEF BoxInv
<1>4. sent \in 0..MaxLookups /\ edits \in 0..MaxEdits /\ last \in 0..sent
  BY DEF Init
<1>5. /\ viewable \subseteq Projects /\ selected = Nothing /\ lookups = {}
      /\ had = {} /\ seen = FALSE /\ raced = {}
  BY DEF Init
<1>6. TypeOK
  BY <1>2, <1>3, <1>4, <1>5 DEF TypeOK
<1>7. SelectedOK
  BY <1>5, BoxAssumption DEF Init, SelectedOK, Strings
<1>8. CacheStale /\ LastSelectionFills
  BY DEF Init, CacheStale, LastSelectionFills
<1> QED
  BY <1>1, <1>6, <1>7, <1>8 DEF Inv

\* A choice puts a project into the input.
LEMMA PickIsProject ==
  ASSUME BoxInv, BoxNext, picks' # picks PROVE text'.query \in Projects
<1>1. ASSUME NEW select \in BOOLEAN, NEW visible \in BOOLEAN,
             HidePopup(select, visible)
      PROVE  text'.query \in Projects
  <2>1. chosen # Nothing /\ text' = [query |-> chosen.item, exact |-> TRUE]
    BY <1>1, Zenon DEF HidePopup
  <2> QED
    BY <2>1 DEF BoxInv, BoxTypeOK, Highlighted
<1>2. ASSUME NEW d \in BOOLEAN, KeyUp(d) PROVE text'.query \in Projects
  BY <1>1, <1>2 DEF KeyUp, PopulatePopup
<1>3. ASSUME NEW q \in Strings, NEW items \in SUBSET Projects, Arrive(q, items)
      PROVE  text'.query \in Projects
  BY <1>1, <1>3 DEF Arrive, Found
<1>4. Escape \/ Commit \/ Blur => text'.query \in Projects
  BY <1>1 DEF Escape, Commit, Blur
<1> QED
  BY <1>2, <1>3, <1>4 DEF BoxNext, Press, Unhighlight, Highlight, FadeOut, Fire, Fail

LEMMA SelectInv ==
  ASSUME Inv, BoxInv', NEW p \in Projects, Select(p) PROVE Inv'
<1> DEFINE new == [id |-> sent', project |-> p, stage |-> "sent",
                   access |-> FALSE, answer |-> Nothing]
<1>0. sent \in Nat /\ sent' = sent + 1 /\ sent' \in 0..MaxLookups /\ sent' \in 1..MaxLookups
  BY DEF Inv, TypeOK, Select
<1>1. new \in Lookup
  BY <1>0 DEF Lookup, Stages
<1>2. /\ had' = {place[p]} /\ had' \subseteq Places /\ seen' = (p \in viewable)
      /\ selected' = p /\ lookups' = lookups \cup {new} /\ p # Nothing
  BY BoxAssumption DEF Inv, TypeOK, Select, Strings
<1>3. TypeOK'
  <2>1. BoxTypeOK'
    BY DEF BoxInv
  <2>2. seen' \in BOOLEAN
    BY <1>2
  <2>3. last' \in 0..sent'
    BY <1>0 DEF Inv, TypeOK, Select
  <2>4. lookups \subseteq Lookup
    BY DEF Inv, TypeOK
  <2>5. lookups' \subseteq Lookup
    BY <1>1, <1>2, <2>4
  <2> QED
    BY <1>0, <1>2, <2>1, <2>2, <2>3, <2>5 DEF Inv, TypeOK, Select, dbVars
<1>4. SelectedOK'
  <2>1. ASSUME NEW l \in lookups PROVE LookupOK(l)'
    <3>1. l.id \in Nat /\ l.id <= sent
      BY DEF Inv, TypeOK, Lookup, SelectedOK, LookupOK
    <3> QED
      BY <1>0, <3>1 DEF Inv, SelectedOK, LookupOK, Select, dbVars
  <2>2. ASSUME NEW m \in Lookup, m = new PROVE LookupOK(m)'
    <3>1. /\ m.id = sent' /\ m.project = selected' /\ m.stage = "sent"
          /\ m.access = FALSE
      BY <1>2, <2>2
    <3> QED
      BY <1>0, <3>1 DEF LookupOK
  <2>3. \A l \in lookups' : LookupOK(l)'
    BY <1>1, <1>2, <2>1, <2>2
  <2>4. selected' # Nothing /\ place'[selected'] \in had'
    BY <1>2 DEF Select, dbVars
  <2>5. selected' \in viewable' => seen'
    BY <1>2 DEF Select, dbVars
  <2> QED
    BY <2>3, <2>4, <2>5 DEF SelectedOK
<1>5. LastSelectionFills' /\ CacheStale'
  BY <1>0 DEF Inv, TypeOK, Select, LastSelectionFills, CacheStale, dbVars
<1> QED
  BY <1>3, <1>4, <1>5 DEF Inv

LEMMA BoxStepInv == ASSUME Inv, Box PROVE Inv'
<1>1. BoxInv'
  BY BoxNextInv DEF Box, Inv
<1>2. CASE UNCHANGED <<dbVars, formVars, history>>
  BY <1>1, <1>2 DEF dbVars, formVars, history, Inv, TypeOK, BoxInv, SelectedOK,
                    LookupOK, CacheStale, LastSelectionFills
<1>3. CASE picks' # picks /\ Select(text'.query)
  BY <1>1, <1>3, PickIsProject, SelectInv DEF Box, Inv
<1> QED
  BY <1>2, <1>3 DEF Box

\* A lookup moves on: what is left to show is the lookup itself and the cache.
LEMMA AdvanceInv ==
  ASSUME Inv, NEW l \in lookups, NEW m \in Lookup, Advance(l, m),
         LookupOK(m), fieldCache' \in [Projects -> Places \cup {Nothing}], CacheStale'
  PROVE  Inv'
<1>1. BoxInv'
  BY BoxNextInv DEF Advance, Inv
<1>2. TypeOK'
  BY <1>1 DEF Inv, TypeOK, Advance, BoxInv, history
<1>3. SelectedOK'
  BY DEF Inv, SelectedOK, LookupOK, Advance, history
<1> QED
  BY <1>1, <1>2, <1>3 DEF Inv, LastSelectionFills, Advance, history

LEMMA ServerInv ==
  ASSUME Inv, NEW l \in lookups,
         LoadNode(l) \/ CacheHit(l) \/ ReadFields(l) \/ CacheSet(l)
  PROVE  Inv'
<1>0. /\ l \in Lookup /\ LookupOK(l)
      /\ fieldCache \in [Projects -> Places \cup {Nothing}]
      /\ place[l.project] \in Places
      /\ fieldCache[l.project] \in {Nothing, place[l.project]} \/ l.project \in raced
  BY DEF Inv, TypeOK, SelectedOK, CacheStale, Lookup
<1>1. CASE LoadNode(l)
  <2> DEFINE m == [l EXCEPT !.stage = "node", !.access = l.project \in viewable]
  <2>1. /\ m \in Lookup /\ m.id = l.id /\ m.project = l.project /\ m.stage = "node"
        /\ m.access => l.project \in viewable
    <3> DEFINE b == l.project \in viewable
    <3>1. b \in BOOLEAN /\ (b => l.project \in viewable)
      OBVIOUS
    <3> HIDE DEF b
    <3>2. m = [l EXCEPT !.stage = "node", !.access = b]
      BY DEF b
    <3> QED
      BY <1>0, <3>1, <3>2 DEF Lookup, Stages
  <2>2. LookupOK(m)
    BY <1>0, <2>1 DEF LookupOK, Inv, SelectedOK
  <2>3. CacheStale'
    BY <1>1 DEF LoadNode, Advance, Inv, CacheStale, history
  <2> QED
    BY <1>0, <1>1, <2>1, <2>2, <2>3, AdvanceInv DEF LoadNode
<1>2. CASE CacheHit(l)
  <2> DEFINE r == Response(l, fieldCache[l.project])
             m == [l EXCEPT !.stage = "answered", !.answer = r]
  <2>1. r \in Places \cup {"404"} /\ (r # "404" => l.access /\ r = fieldCache[l.project])
    BY <1>0, <1>2 DEF Response, CacheHit, Lookup
  <2>2. /\ m \in Lookup /\ m.id = l.id /\ m.project = l.project
        /\ m.stage = "answered" /\ m.access = l.access /\ m.answer = r
    BY <1>0, <2>1 DEF Lookup, Stages
  <2>3. fieldCache[l.project] = place[l.project] \/ l.project \in raced
    BY <1>0, <1>2 DEF CacheHit
  <2>4. l.project # Nothing
    BY <1>0, BoxAssumption DEF Lookup, Strings
  <2>5. LookupOK(m)
    BY <1>0, <2>1, <2>2, <2>3, <2>4 DEF LookupOK, Inv, SelectedOK
  <2>6. CacheStale'
    BY <1>2 DEF CacheHit, Advance, Inv, CacheStale, history
  <2> QED
    BY <1>0, <1>2, <2>2, <2>5, <2>6, AdvanceInv DEF CacheHit
<1>3. CASE ReadFields(l)
  <2> DEFINE m == [l EXCEPT !.stage = "read", !.answer = place[l.project]]
  <2>1. /\ m \in Lookup /\ m.id = l.id /\ m.project = l.project
        /\ m.stage = "read" /\ m.access = l.access /\ m.answer = place[l.project]
    BY <1>0 DEF Lookup, Stages
  <2>2. l.project # Nothing
    BY <1>0, BoxAssumption DEF Lookup, Strings
  <2>3. LookupOK(m)
    BY <1>0, <2>1, <2>2 DEF LookupOK, Inv, SelectedOK
  <2>4. CacheStale'
    BY <1>3 DEF ReadFields, Advance, Inv, CacheStale, history
  <2> QED
    BY <1>0, <1>3, <2>1, <2>3, <2>4, AdvanceInv DEF ReadFields
<1>4. CASE CacheSet(l)
  <2> DEFINE r == Response(l, l.answer)
             m == [l EXCEPT !.stage = "answered", !.answer = r]
  <2>0. l.stage = "read" /\ l.answer \in Places
    BY <1>0, <1>4 DEF CacheSet, LookupOK
  <2>1. r \in Places \cup {"404"} /\ (r # "404" => l.access /\ r = l.answer)
    BY <2>0 DEF Response
  <2>2. /\ m \in Lookup /\ m.id = l.id /\ m.project = l.project
        /\ m.stage = "answered" /\ m.access = l.access /\ m.answer = r
    BY <1>0, <2>1 DEF Lookup, Stages
  <2>3. LookupOK(m)
    BY <1>0, <2>0, <2>1, <2>2 DEF LookupOK
  <2>4. fieldCache' = [fieldCache EXCEPT ![l.project] = l.answer]
    BY <1>4 DEF CacheSet
  <2>5. fieldCache' \in [Projects -> Places \cup {Nothing}]
    BY <1>0, <2>0, <2>4
  <2>6. CacheStale'
    BY <1>0, <1>4, <2>0, <2>4 DEF CacheSet, Advance, Inv, CacheStale, LookupOK, history
  <2> QED
    BY <1>4, <2>2, <2>3, <2>5, <2>6, AdvanceInv DEF CacheSet
<1> QED
  BY <1>1, <1>2, <1>3, <1>4

LEMMA FillInv ==
  ASSUME Inv, NEW l \in lookups, Fill(l) \/ Lose(l) PROVE Inv'
<1>1. BoxInv'
  BY BoxNextInv DEF Fill, Lose, Inv
<1>2. l \in Lookup /\ LookupOK(l) /\ l.id \in Nat /\ sent \in Nat
  BY DEF Inv, TypeOK, SelectedOK, Lookup
<1>3. CASE Fill(l)
  <2>1. fields' = [address |-> l.answer, state |-> FALSE] /\ l.answer # "404"
    BY <1>3 DEF Fill
  <2>2. fields' \in Fields
    BY <1>2, <2>1 DEF Lookup, Fields
  <2>3. l.id \in 0..sent
    BY <1>2 DEF LookupOK
  <2>4. TypeOK'
    BY <1>1, <1>3, <2>2, <2>3 DEF Inv, TypeOK, Fill, BoxInv, dbVars, history
  <2>5. LastSelectionFills'
    BY <1>2, <1>3, <2>1 DEF LookupOK, LastSelectionFills, Fill, history
  <2> QED
    BY <1>1, <1>3, <2>4, <2>5
    DEF Inv, Fill, SelectedOK, LookupOK, CacheStale, dbVars, history
<1>4. CASE Lose(l)
  BY <1>1, <1>4 DEF Inv, TypeOK, Lose, BoxInv, SelectedOK, LookupOK, CacheStale,
                    LastSelectionFills, dbVars, history
<1> QED
  BY <1>3, <1>4

LEMMA EditInv == ASSUME Inv, NEW p \in Projects, Edit(p) PROVE Inv'
<1>1. BoxInv'
  BY BoxNextInv DEF Edit, Inv
<1>2. /\ place' \in [Projects -> Places] /\ viewable' \subseteq Projects
      /\ edits' \in 0..MaxEdits
      /\ \A q \in Projects : q # p => place'[q] = place[q]
  BY DEF Inv, TypeOK, Edit
<1>3. /\ fieldCache' \in [Projects -> Places \cup {Nothing}]
      /\ fieldCache'[p] = Nothing
      /\ \A q \in Projects : q # p => fieldCache'[q] = fieldCache[q]
  BY DEF Inv, TypeOK, Edit
<1>4. /\ had' = had \cup {place'[q] : q \in {selected} \cap {p}}
      /\ seen' = (seen \/ selected \in viewable')
      /\ raced' \subseteq Projects /\ raced \subseteq raced'
      /\ \A l \in lookups : l.stage = "read" /\ l.project = p => p \in raced'
      /\ UNCHANGED <<boxVars, formVars>>
  BY DEF Edit, Inv, TypeOK
<1>5. had' \subseteq Places /\ had \subseteq had'
  BY <1>2, <1>4 DEF Inv, TypeOK
<1>6. TypeOK'
  BY <1>1, <1>2, <1>3, <1>4, <1>5 DEF Inv, TypeOK, BoxInv, formVars
<1>7. SelectedOK'
  <2>1. ASSUME NEW l \in lookups PROVE LookupOK(l)'
    <3>1. LookupOK(l) /\ l.project \in Projects
      BY DEF Inv, TypeOK, SelectedOK, Lookup
    <3> QED
      BY <1>2, <1>4, <1>5, <3>1 DEF LookupOK, formVars
  <2>2. selected # Nothing => place'[selected] \in had'
    BY <1>2, <1>4 DEF Inv, TypeOK, SelectedOK
  <2> QED
    BY <1>4, <2>1, <2>2 DEF Inv, SelectedOK, formVars
<1>8. CacheStale' /\ LastSelectionFills'
  BY <1>2, <1>3, <1>4, <1>5 DEF Inv, CacheStale, LastSelectionFills, formVars
<1> QED
  BY <1>1, <1>6, <1>7, <1>8 DEF Inv

LEMMA NextInv == Inv /\ [Next]_vars => Inv'
<1> SUFFICES ASSUME Inv, [Next]_vars PROVE Inv'
  OBVIOUS
<1>1. CASE UNCHANGED vars
  <2>1. BoxInv'
    BY <1>1, BoxNextInv DEF vars, Inv
  <2> QED
    BY <1>1, <2>1 DEF vars, dbVars, formVars, history, Inv, TypeOK, BoxInv,
                      SelectedOK, LookupOK, CacheStale, LastSelectionFills
<1>2. CASE ChooseState
  <2>1. BoxInv'
    BY <1>2, BoxNextInv DEF ChooseState, Inv
  <2>2. fields' \in Fields /\ fields'.address = fields.address
    BY <1>2 DEF ChooseState, Inv, TypeOK, Fields
  <2> QED
    BY <1>2, <2>1, <2>2 DEF ChooseState, dbVars, history, Inv, TypeOK, BoxInv,
                            SelectedOK, LookupOK, CacheStale, LastSelectionFills
<1>3. CASE Flush
  <2>1. BoxInv'
    BY <1>3, BoxNextInv DEF Flush, Inv
  <2>2. fieldCache' = [p \in Projects |-> Nothing]
    BY <1>3 DEF Flush
  <2> QED
    BY <1>3, <2>1, <2>2 DEF Flush, formVars, history, Inv, TypeOK, BoxInv,
                            SelectedOK, LookupOK, CacheStale, LastSelectionFills
<1> QED
  BY <1>1, <1>2, <1>3, BoxStepInv, ServerInv, FillInv, EditInv DEF Next

\* The variables of the form, the lookups and the cache keep their types.
THEOREM TypeCorrect == Spec => []TypeOK
<1>1. Inv => TypeOK
  BY DEF Inv
<1> QED
  BY <1>1, InitInv, NextInv, PTL DEF Spec

\* A row of the field cache is stale only after a save within a load.
THEOREM StaleOnlyByRace == Spec => []CacheStale
<1>1. Inv => CacheStale
  BY DEF Inv
<1> QED
  BY <1>1, InitInv, NextInv, PTL DEF Spec

\* Whatever order answers come in: if the last pick is written last, the form
\* has an address its project has had since.
THEOREM LastSelectionWins == Spec => []LastSelectionFills
<1>1. Inv => LastSelectionFills
  BY DEF Inv
<1> QED
  BY <1>1, InitInv, NextInv, PTL DEF Spec
=============================================================================
