------------------------------- MODULE AjaxForm -------------------------------
(***************************************************************************)
(* A form that is updated in place: the controls of misc/ajax.js send      *)
(* requests, the answers replace parts of the form, with dependents and    *)
(* controls in them, in any order, and behaviors are attached again.       *)
(***************************************************************************)
EXTENDS FormStates

CONSTANTS
    Controls,     \* elements with an Ajax behavior
    Wrapper,      \* Wrapper[c]: the elements that an answer to c may replace
    MaxRequests   \* bound: how many requests are sent

ASSUME AjaxAssumption ==
    /\ Wrapper \in [Controls -> SUBSET (Inputs \cup Dependents \cup Controls)]
    /\ MaxRequests \in Nat

VARIABLES
    gen,          \* gen[c]: how often c was replaced: its Drupal.ajax object
    ajaxing,      \* the controls in the page whose ajax.ajaxing is set
    disabled,     \* the controls in the page that are disabled, with a throbber
    requests,     \* the requests that are not answered yet
    sent          \* how many were sent

ajaxVars == <<gen, ajaxing, disabled, requests, sent>>
vars == <<statesVars, ajaxVars>>

Request == [id : 1..MaxRequests, control : Controls, gen : Nat]

TypeOK ==
    /\ StatesTypeOK
    /\ gen \in [Controls -> Nat]
    /\ ajaxing \subseteq Controls
    /\ disabled \subseteq Controls
    /\ requests \subseteq Request
    /\ sent \in 0..MaxRequests

Init ==
    /\ StatesInit
    /\ gen = [c \in Controls |-> 0]
    /\ ajaxing = {}
    /\ disabled = {}
    /\ requests = {}
    /\ sent = 0

-----------------------------------------------------------------------------
\* Mistake: an event is answered while a request is under way.
PressAgain(c) ==
    /\ sent < MaxRequests
    /\ sent' = sent + 1
    /\ requests' = requests \cup {[id |-> sent', control |-> c, gen |-> gen[c]]}
    /\ ajaxing' = ajaxing \cup {c}
    /\ disabled' = disabled \cup {c}
    /\ UNCHANGED <<statesVars, gen>>

\* eventResponse(), beforeSubmit(), beforeSend().  What is thrown before the
\* element is disabled, and caught, leaves all as it was.
Press(c) ==
    /\ c \notin disabled
    /\ c \notin ajaxing
    /\ sent < MaxRequests
    /\ sent' = sent + 1
    /\ requests' = requests \cup {[id |-> sent', control |-> c, gen |-> gen[c]]}
    /\ ajaxing' = ajaxing \cup {c}
    /\ disabled' = disabled \cup {c}
    /\ UNCHANGED <<statesVars, gen>>

\* The control of a request, if its element is in the page still.
Own(r) == {c \in Controls : c = r.control /\ gen[c] = r.gen}

\* success() and complete(): the element is released, the commands of the
\* answer replace R, and behaviors are attached.
Answer(r, R) ==
    /\ requests' = requests \ {r}
    /\ disabled' = (disabled \ Own(r)) \ R
    /\ ajaxing' = (ajaxing \ Own(r)) \ R
    /\ gen' = [c \in Controls |-> IF c \in R THEN gen[c] + 1 ELSE gen[c]]
    /\ Insert(R)
    /\ UNCHANGED sent

\* Mistake: the element stays disabled.
FailStuck(r) ==
    /\ requests' = requests \ {r}
    /\ ajaxing' = ajaxing \ Own(r)
    /\ AttachForm
    /\ UNCHANGED <<gen, disabled, sent>>

\* error() and complete(): the request has failed, or the answer is not JSON or
\* is not verified.
Fail(r) ==
    /\ requests' = requests \ {r}
    /\ disabled' = disabled \ Own(r)
    /\ ajaxing' = ajaxing \ Own(r)
    /\ AttachForm
    /\ UNCHANGED <<gen, sent>>

\* An answer replaces the wrapper, or nothing: a message, a setting.
End(r) == Fail(r) \/ \E R \in {{}, Wrapper[r.control]} : Answer(r, R)

Next ==
    \/ \E i \in Inputs : Change(i) /\ UNCHANGED ajaxVars
    \/ \E c \in Controls : Press(c)
    \/ \E r \in requests : End(r)

\* The browser ends every request.
Fairness == \A c \in Controls : WF_vars(\E r \in requests : r.control = c /\ End(r))

Spec == Init /\ [][Next]_vars /\ Fairness

-----------------------------------------------------------------------------
\* "Do not perform another ajax command if one is already in progress."
\* (ajax.js:262): an element is disabled as long as its own request is under
\* way, of which there is one; answers to a control that was replaced meanwhile
\* neither release nor disable the one in its place.
Usable ==
    \A c \in Controls :
      LET mine == {r \in requests : r.control = c /\ r.gen = gen[c]}
      IN  /\ Cardinality(mine) <= 1
          /\ c \in disabled <=> mine # {}
          /\ c \in ajaxing <=> c \in disabled

\* A control can be used again in the end, whatever becomes of its requests.
Released == \A c \in Controls : c \in disabled ~> c \notin disabled
=============================================================================
