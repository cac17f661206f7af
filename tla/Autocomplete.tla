----------------------------- MODULE Autocomplete -----------------------------
(***************************************************************************)
(* An autocomplete field: misc/autocomplete.js, a Drupal.jsAC with its     *)
(* Drupal.ACDB.  Keys start delayed searches, answers are cached and come  *)
(* in any order, and whatever closes the popup may pick a suggestion.      *)
(***************************************************************************)
EXTENDS Naturals, FiniteSets

CONSTANTS
    Projects,    \* the suggestions: nids of project nodes
    Queries,     \* the strings that are searched for, trimmed
    Typed,       \* the texts a visitor types, a subset of Text
    MaxKeys,     \* bound: the keys that are pressed
    Nothing      \* no project, no string, no popup, an empty field

\* What the input may hold: a string to search for, exactly or with blanks
\* around it, or nothing to search for: blanks, or terms that end in a comma.
\* The value of a suggestion is such a string as well.
Strings == Queries \cup Projects
Text == [query : Strings \cup {Nothing}, exact : BOOLEAN]
Empty == [query |-> Nothing, exact |-> TRUE]

\* A popup holds the suggestions of a search; it is hidden while it has none.
List == [query : Strings, items : SUBSET Projects]
Hidden == [query |-> Nothing, items |-> {}]
Highlighted == [item : Projects, list : List \cup {Hidden}, faded : BOOLEAN]

ASSUME BoxAssumption ==
    /\ Typed \subseteq Text
    /\ Nothing \notin Strings \cup List \cup {Hidden}

VARIABLES
    text,        \* input.value
    due,         \* a key is down, its keyup event is still to come
    popup,       \* this.popup: Nothing or the list it shows
    fading,      \* the lists that were closed and still fade out
    chosen,      \* this.selected: Nothing or an item and the list it is of;
                 \* history: whether that list was fading under the mouse
    searched,    \* db.searchString, as it was typed
    timer,       \* db.timer: what it will search for, or Nothing
    asked,       \* asked[q]: the requests for q under way
    cache,       \* db.cache
    keys,        \* how many keys were pressed
    picks,       \* history: how often autocompleteSelect was triggered, modulo 2
    failed       \* history: the strings a request has failed for

boxVars == <<text, due, popup, fading, chosen, searched, timer, asked, cache,
             keys, picks, failed>>

BoxTypeOK ==
    /\ {text, searched} \subseteq Text
    /\ due \in BOOLEAN
    /\ popup \in List \cup {Hidden, Nothing}
    /\ fading \subseteq List
    /\ chosen \in Highlighted \cup {Nothing}
    /\ timer \in Strings \cup {Nothing}
    /\ asked \in [Strings -> Nat]
    /\ cache \in [Strings -> (SUBSET Projects) \cup {Nothing}]
    /\ keys \in Nat
    /\ picks \in 0..1
    /\ failed \subseteq Strings

BoxInit ==
    /\ text = Empty
    /\ due = FALSE
    /\ popup = Nothing
    /\ fading = {}
    /\ chosen = Nothing
    /\ searched = Empty
    /\ timer = Nothing
    /\ asked = [q \in Strings |-> 0]
    /\ cache = [q \in Strings |-> Nothing]
    /\ keys = 0
    /\ picks = 0
    /\ failed = {}

-----------------------------------------------------------------------------
\* hidePopup(): closes the popup, which fades out if it is visible and shows
\* something, and select() puts the highlighted suggestion into the input unless
\* the key says otherwise.
HidePopup(select, visible) ==
    /\ popup' = Nothing
    /\ fading' = fading \cup {list \in {popup} \cap List : visible}
    /\ chosen' = Nothing
    /\ IF select /\ chosen # Nothing
         THEN /\ text' = [query |-> chosen.item, exact |-> TRUE]
              /\ picks' = 1 - picks
         ELSE UNCHANGED <<text, picks>>

\* Mistake: a search that finds the timer running does not reset it.
PopulateOnce ==
    /\ searched' = text
    /\ chosen' = Nothing
    /\ \/ /\ text.query = Nothing
          /\ popup' = Hidden
          /\ UNCHANGED timer
       \/ /\ text.query # Nothing /\ cache[text.query] = Nothing
          /\ popup' = Hidden
          /\ timer' = IF timer = Nothing THEN text.query ELSE timer
       \/ /\ text.query # Nothing /\ cache[text.query] # Nothing
          /\ popup' = IF cache[text.query] = {} THEN Nothing
                      ELSE [query |-> text.query, items |-> cache[text.query]]
          /\ UNCHANGED timer
    /\ UNCHANGED <<text, fading, picks>>

\* populatePopup(): a new popup, and search().  Nothing to search for leaves it
\* hidden; a string with an answer in the cache is found() at once; any other
\* one takes the place of the search that the timer holds.
PopulatePopup ==
    /\ searched' = text
    /\ chosen' = Nothing
    /\ \/ /\ text.query = Nothing
          /\ popup' = Hidden
          /\ UNCHANGED timer
       \/ /\ text.query # Nothing /\ cache[text.query] = Nothing
          /\ popup' = Hidden
          /\ timer' = text.query
       \/ /\ text.query # Nothing /\ cache[text.query] # Nothing
          /\ popup' = IF cache[text.query] = {} THEN Nothing
                      ELSE [query |-> text.query, items |-> cache[text.query]]
          /\ UNCHANGED timer
    /\ UNCHANGED <<text, fading, picks>>

\* A key goes down and the text of the input changes.
Press(t) ==
    /\ keys < MaxKeys
    /\ keys' = keys + 1
    /\ text' = t
    /\ due' = TRUE
    /\ UNCHANGED <<popup, fading, chosen, searched, timer, asked, cache, picks,
                   failed>>

\* onkeyup(), for the keys that are not listed there.  Backspace and Delete
\* close the popup of an input that is empty without a choice, others with it.
KeyUp(deletes) ==
    /\ due
    /\ due' = FALSE
    /\ \/ text # Empty /\ PopulatePopup
       \/ text = Empty /\ HidePopup(~deletes, TRUE) /\ UNCHANGED <<searched, timer>>
    /\ UNCHANGED <<asked, cache, keys, failed>>

\* The Esc key.
Escape ==
    /\ HidePopup(FALSE, TRUE)
    /\ UNCHANGED <<due, searched, timer, asked, cache, keys, failed>>

\* The Tab or Enter key, a click on the list, or submission of the form.
Commit ==
    /\ HidePopup(TRUE, TRUE)
    /\ UNCHANGED <<due, searched, timer, asked, cache, keys, failed>>

\* The input loses the focus: hidePopup(), and cancel() of the search.
Blur ==
    /\ HidePopup(TRUE, TRUE)
    /\ due' = FALSE
    /\ timer' = Nothing
    /\ searched' = Empty
    /\ UNCHANGED <<asked, cache, keys, failed>>

\* The mouse is over an item of the popup, or an arrow key moves to one; the
\* items of a list that fades out keep their handlers.  From an item that is
\* highlighted the arrows move within the list it is of, which may have been
\* replaced or removed.
Highlight(p) ==
    /\ \/ /\ popup # Nothing
          /\ p \in popup.items
          /\ chosen' = [item |-> p, list |-> popup, faded |-> FALSE]
       \/ \E list \in fading :
            /\ p \in list.items
            /\ chosen' = [item |-> p, list |-> list, faded |-> TRUE]
       \/ /\ chosen # Nothing
          /\ p \in chosen.list.items
          /\ chosen' = [chosen EXCEPT !.item = p]
    /\ UNCHANGED <<text, due, popup, fading, searched, timer, asked, cache, keys,
                   picks, failed>>

\* The mouse leaves the item.
Unhighlight ==
    /\ chosen' = Nothing
    /\ UNCHANGED <<text, due, popup, fading, searched, timer, asked, cache, keys,
                   picks, failed>>

\* The animation is over: the list is removed, and this.selected is not touched.
FadeOut(list) ==
    /\ fading' = fading \ {list}
    /\ UNCHANGED <<text, due, popup, chosen, searched, timer, asked, cache, keys,
                   picks, failed>>

\* The timer of search(): the request is sent.
Fire ==
    /\ timer # Nothing
    /\ timer' = Nothing
    /\ asked' = [asked EXCEPT ![timer] = @ + 1]
    /\ UNCHANGED <<text, due, popup, fading, chosen, searched, cache, keys, picks,
                   failed>>

\* found(): suggestions fill the popup, if there is one; the highlighted item
\* stays this.selected.  No suggestions close it, which selects that item; the
\* popup is made invisible before it fades out.
Found(q, items) ==
    \/ /\ text # Empty /\ popup # Nothing /\ items # {}
       /\ popup' = [query |-> q, items |-> items]
       /\ UNCHANGED <<fading, chosen, text, picks>>
    \/ /\ text # Empty /\ popup # Nothing /\ items = {}
       /\ HidePopup(TRUE, FALSE)
    \/ /\ text = Empty \/ popup = Nothing
       /\ UNCHANGED <<popup, fading, chosen, text, picks>>

\* Mistake: an answer is shown whatever has been searched for since.
ArriveLate(q, items) ==
    /\ asked[q] > 0
    /\ asked' = [asked EXCEPT ![q] = @ - 1]
    /\ cache' = [cache EXCEPT ![q] = items]
    /\ Found(q, items)
    /\ UNCHANGED <<due, searched, timer, keys, failed>>

\* The answer to a request is cached, and shown if the string searched for last
\* is still this one; that string is not trimmed.
Arrive(q, items) ==
    /\ asked[q] > 0
    /\ asked' = [asked EXCEPT ![q] = @ - 1]
    /\ cache' = [cache EXCEPT ![q] = items]
    /\ IF searched = [query |-> q, exact |-> TRUE]
         THEN Found(q, items)
         ELSE UNCHANGED <<popup, fading, chosen, text, picks>>
    /\ UNCHANGED <<due, searched, timer, keys, failed>>

\* The request fails: a message, and nothing else.
Fail(q) ==
    /\ asked[q] > 0
    /\ asked' = [asked EXCEPT ![q] = @ - 1]
    /\ failed' = failed \cup {q}
    /\ UNCHANGED <<text, due, popup, fading, chosen, searched, timer, cache, keys,
                   picks>>

BoxNext ==
    \/ \E t \in Typed : Press(t)
    \/ \E deletes \in BOOLEAN : KeyUp(deletes)
    \/ Escape \/ Commit \/ Blur \/ Unhighlight
    \/ \E p \in Projects : Highlight(p)
    \/ \E list \in fading : FadeOut(list)
    \/ Fire
    \/ \E q \in Strings : Fail(q) \/ \E items \in SUBSET Projects : Arrive(q, items)

\* Keys that go down come up, timers fire, and requests are answered or fail.
BoxFairness ==
    /\ WF_boxVars(\E deletes \in BOOLEAN : KeyUp(deletes))
    /\ WF_boxVars(Fire)
    /\ \A q \in Queries :
         WF_boxVars(Fail(q) \/ \E items \in SUBSET Projects : Arrive(q, items))

BoxSpec == BoxInit /\ [][BoxNext]_boxVars

-----------------------------------------------------------------------------
\* "Verify if these are still the matches the user wants to see."
\* (autocomplete.js:305): however answers overtake each other, the suggestions
\* in the popup answer the latest search, and so does the one that leaving the
\* field would pick.  The exception is one that the mouse met in a list that was
\* closed and had not faded out: that outlasts the list and the next search.
SearchShown ==
    /\ popup \in List => popup.query = searched.query
    /\ chosen # Nothing => chosen.list.query = searched.query \/ chosen.faded

\* A popup that is open and hidden because the answer to q is still to come.
Waiting(q) == popup = Hidden /\ searched = [query |-> q, exact |-> TRUE]

\* Such a popup is not forgotten by the timer that is reset, the cache and the
\* requests for other strings: something is under way that ends the wait.
SearchUnderWay ==
    \A q \in Strings :
      Waiting(q) => timer = q \/ asked[q] > 0 \/ q \in failed \/ due

\* So a search does end, with suggestions, without, or with a failure.
SearchEnds == \A q \in Queries : Waiting(q) ~> (~Waiting(q) \/ q \in failed)
=============================================================================
