---------------------------- MODULE AjaxForm_proof ----------------------------
(***************************************************************************)
(* Proofs about forms that are updated in place, for any dependents,       *)
(* constraints, controls and wrappers.                                     *)
(***************************************************************************)
EXTENDS AjaxForm, FiniteSetTheorems, TLAPS

\* A watcher knows what is checked, as far as it was told and can still know,
\* and has told what follows from what it knows.
WatcherOK(d, w, now) ==
    /\ w.seen \subseteq Dependees(d)
    /\ w.on \subseteq w.seen
    /\ \A i \in w.seen \ w.lost : i \in w.on <=> i \in now
    /\ w.seen = {} => w.told = {}
    /\ w.seen # {} => w.told = {VerifyConstraints(d, w.seen, w.on)}

\* The dependent is as one of its watchers said, once one has.
Said(d) ==
    \/ \A j \in DOMAIN watchers[d] : watchers[d][j].told = {}
    \/ \E j \in DOMAIN watchers[d] : watchers[d][j].told = {shown[d]}

ShownInv ==
    \A d \in Dependents :
      /\ \A j \in DOMAIN watchers[d] : WatcherOK(d, watchers[d][j], checked)
      /\ Said(d)

Mine(c) == {r \in requests : r.control = c /\ r.gen = gen[c]}

\* One request of an element at most, none of an element that is to come.
RequestInv ==
    /\ \A r \in requests : r.gen <= gen[r.control]
    /\ \A c \in Controls :
         /\ \A r, q \in Mine(c) : r = q
         /\ c \in disabled <=> Mine(c) # {}
         /\ c \in ajaxing <=> c \in disabled

Inv == TypeOK /\ ShownInv /\ RequestInv

-----------------------------------------------------------------------------
LEMMA DependeesAreInputs == \A d \in Dependents : Dependees(d) \subseteq Inputs
  BY StatesAssumption DEF Dependees, Term

\* What a constraint says depends on its dependees only.
LEMMA SameVerdict ==
  ASSUME NEW d \in Dependents, NEW seen, NEW S, NEW T,
         \A i \in Dependees(d) : i \in S <=> i \in T
  PROVE  VerifyConstraints(d, seen, S) <=> VerifyConstraints(d, seen, T)
<1>1. Met(d, seen, S) = Met(d, seen, T)
  BY DEF Met, Dependees
<1> QED
  BY <1>1 DEF VerifyConstraints

LEMMA VerdictBoolean ==
  \A d \in Dependents : \A seen, on : VerifyConstraints(d, seen, on) \in BOOLEAN
  BY DEF VerifyConstraints

\* A dependent whose watchers are well informed is shown as its constraints say.
LEMMA InformedRight == ASSUME TypeOK, ShownInv PROVE ShownRight
<1> SUFFICES ASSUME NEW d \in Dependents,
                    \A j \in DOMAIN watchers[d] : WellInformed(d, watchers[d][j]),
                    NEW m \in DOMAIN watchers[d], watchers[d][m].seen # {}
             PROVE  shown[d] <=> VerifyConstraints(d, Dependees(d), checked)
  BY DEF ShownRight
<1>1. PICK j \in DOMAIN watchers[d] : watchers[d][j].told = {shown[d]}
  BY DEF ShownInv, WatcherOK, Said
<1> DEFINE w == watchers[d][j]
<1>2. w.seen = Dependees(d) /\ w.lost = {}
      /\ w.told = {VerifyConstraints(d, Dependees(d), w.on)}
      /\ w.on \subseteq w.seen /\ \A i \in w.seen \ w.lost : i \in w.on <=> i \in checked
  <2>1. WatcherOK(d, w, checked) /\ WellInformed(d, w) /\ w.told # {}
    BY <1>1 DEF ShownInv
  <2> HIDE DEF w
  <2> QED
    BY <2>1 DEF WatcherOK, WellInformed
<1>3. shown[d] = VerifyConstraints(d, Dependees(d), w.on)
  BY <1>1, <1>2
<1>4. VerifyConstraints(d, Dependees(d), w.on)
        <=> VerifyConstraints(d, Dependees(d), checked)
  BY <1>2, SameVerdict
<1>5. shown[d] \in BOOLEAN
  BY DEF TypeOK, StatesTypeOK
<1> QED
  BY <1>3, <1>4, <1>5

LEMMA InitInv == Init => Inv
<1> SUFFICES ASSUME Init PROVE Inv
  OBVIOUS
<1> DEFINE W(d) == [seen |-> Dependees(d), on |-> checked \cap Dependees(d), lost |-> {},
                    told |-> IF Dependees(d) = {} THEN {}
                               ELSE {VerifyConstraints(d, Dependees(d), checked)}]
<1>1. \A d \in Dependents : watchers[d] = <<W(d)>>
  BY DEF Init, StatesInit
<1>2. \A d \in Dependents : W(d) \in Watcher
  BY DependeesAreInputs, VerdictBoolean DEF Watcher
<1>3. \A d \in Dependents : shown[d] \in BOOLEAN
  BY VerdictBoolean DEF Init, StatesInit
<1>4. \A d \in Dependents : DOMAIN watchers[d] = {1} /\ watchers[d][1] = W(d)
  <2> HIDE DEF W
  <2> QED
    BY <1>1
<1>5. TypeOK
  <2>1. watchers \in [Dependents -> Seq(Watcher)]
    <3>1. watchers = [d \in Dependents |-> <<W(d)>>]
      BY DEF Init, StatesInit
    <3> HIDE DEF W
    <3> QED
      BY <1>2, <3>1
  <2>2. \A d \in Dependents : \A j \in DOMAIN watchers[d] :
          watchers[d][j].on \subseteq watchers[d][j].seen
    <3>1. \A d \in Dependents : W(d).on \subseteq W(d).seen
      OBVIOUS
    <3> HIDE DEF W
    <3> QED
      BY <1>4, <3>1
  <2>3. shown \in [Dependents -> BOOLEAN]
    BY <1>3 DEF Init, StatesInit
  <2>4. checked \subseteq Inputs
    BY DEF Init, StatesInit
  <2>5. gen \in [Controls -> Nat] /\ sent \in 0..MaxRequests
    BY AjaxAssumption DEF Init
  <2> QED
    BY <2>1, <2>2, <2>3, <2>4, <2>5 DEF Init, TypeOK, StatesTypeOK
<1>6. ShownInv
  <2> SUFFICES ASSUME NEW d \in Dependents
               PROVE  WatcherOK(d, W(d), checked) /\ (W(d).told = {} \/ W(d).told = {shown[d]})
    <3>1. \A d \in Dependents : DOMAIN watchers[d] = {1} /\ watchers[d][1] = W(d)
      BY <1>4
    <3> HIDE DEF W
    <3> QED
      BY <3>1 DEF ShownInv, Said
  <2>1. WatcherOK(d, W(d), checked)
    <3>1. VerifyConstraints(d, Dependees(d), checked)
            = VerifyConstraints(d, Dependees(d), checked \cap Dependees(d))
      BY SameVerdict, VerdictBoolean
    <3> QED
      BY <3>1 DEF WatcherOK
  <2>2. CASE Dependees(d) = {}
    <3>1. W(d).told = {}
      BY <2>2
    <3> QED
      BY <2>1, <3>1
  <2>3. CASE Dependees(d) # {}
    <3>1. shown[d] = VerifyConstraints(d, Dependees(d), checked)
      BY <2>3, VerdictBoolean DEF Init, StatesInit
    <3>2. W(d).told = {shown[d]}
      BY <2>3, <3>1
    <3> QED
      BY <2>1, <3>2
  <2> QED
    BY <2>1, <2>2, <2>3
<1>7. RequestInv
  BY DEF Init, RequestInv, Mine
<1> QED
  BY <1>5, <1>6, <1>7 DEF Inv

-----------------------------------------------------------------------------
\* What an event makes of a watcher.
LEMMA UpdateOK ==
  ASSUME TypeOK, NEW d \in Dependents, NEW i \in Dependees(d), NEW w \in Watcher,
         WatcherOK(d, w, checked), i \notin w.lost,
         checked' = IF i \in checked THEN checked \ {i} ELSE checked \cup {i},
         NEW u, u = Update(d, w, i, i \notin checked)
  PROVE  u \in Watcher /\ WatcherOK(d, u, checked') /\ u.told # {}
<1> DEFINE v == i \notin checked
           on == IF v THEN w.on \cup {i} ELSE w.on \ {i}
<1>1. i \in Inputs
  BY DependeesAreInputs
<1>2. i \in checked' <=> v
  BY <1>1
<1>3. CASE i \in w.seen /\ on = w.on
  BY <1>3 DEF WatcherOK
<1>4. CASE ~(i \in w.seen /\ on = w.on)
  <2>1. u = [w EXCEPT !.seen = @ \cup {i}, !.on = on,
                      !.told = {VerifyConstraints(d, w.seen \cup {i}, on)}]
    BY <1>4 DEF Update
  <2>2. /\ u.seen = w.seen \cup {i} /\ u.on = on /\ u.lost = w.lost
        /\ u.told = {VerifyConstraints(d, u.seen, on)}
    BY <2>1 DEF Watcher
  <2>3. on \subseteq Inputs /\ w.seen \subseteq Inputs
    BY <1>1 DEF Watcher
  <2>4. u.on \subseteq u.seen /\ \A k \in u.seen \ u.lost : k \in u.on <=> k \in checked'
    BY <1>2, <2>2 DEF WatcherOK
  <2> HIDE DEF on
  <2>5. u \in Watcher
    <3> DEFINE T == {VerifyConstraints(d, w.seen \cup {i}, on)}
    <3>1. T \in SUBSET BOOLEAN
      BY VerdictBoolean
    <3>2. u = [w EXCEPT !.seen = @ \cup {i}, !.on = on, !.told = T]
      BY <2>1
    <3> HIDE DEF T
    <3> QED
      BY <1>1, <2>3, <3>1, <3>2 DEF Watcher
  <2>6. WatcherOK(d, u, checked')
    <3>1. u.seen \subseteq Dependees(d) /\ u.seen # {}
          /\ u.told = {VerifyConstraints(d, u.seen, u.on)}
      BY <2>2 DEF WatcherOK
    <3> QED
      BY <2>4, <3>1 DEF WatcherOK
  <2> QED
    BY <2>2, <2>5, <2>6
<1> QED
  BY <1>3, <1>4

\* The visitor changes an input: all that hear of it know it then.
LEMMA ChangeInv ==
  ASSUME Inv, NEW i \in Inputs, Change(i), UNCHANGED ajaxVars
  PROVE  Inv'
<1> DEFINE v == i \notin checked
<1>1. /\ checked' = IF v THEN checked \cup {i} ELSE checked \ {i}
      /\ \A d \in Dependents :
           /\ DOMAIN watchers'[d] = DOMAIN watchers[d]
           /\ \A j \in DOMAIN watchers[d] :
                watchers'[d][j] = LET w == watchers[d][j]
                                  IN  IF i \in Dependees(d) \ w.lost
                                        THEN Update(d, w, i, v) ELSE w
      /\ shown' \in [Dependents -> BOOLEAN]
      /\ \A d \in Dependents : LastWord(d, shown'[d])
  BY DEF Change, Hear
<1>2. \A d \in Dependents : \A j \in DOMAIN watchers[d] : watchers[d][j] \in Watcher
  BY DEF Inv, TypeOK, StatesTypeOK
<1>3. ASSUME NEW d \in Dependents, NEW j \in DOMAIN watchers[d]
      PROVE  watchers'[d][j] \in Watcher /\ WatcherOK(d, watchers'[d][j], checked')
  <2> DEFINE w == watchers[d][j]
  <2>1. w \in Watcher /\ WatcherOK(d, w, checked)
    BY <1>2 DEF Inv, ShownInv
  <2>2. CASE i \in Dependees(d) \ w.lost
    <3>1. PICK u : u = watchers'[d][j]
      OBVIOUS
    <3>2. u = Update(d, w, i, v)
      BY <1>1, <2>2, <3>1
    <3> QED
      BY <1>1, <2>1, <2>2, <3>1, <3>2, UpdateOK DEF Inv
  <2>3. CASE i \notin Dependees(d) \ w.lost
    <3>1. PICK u : u = w
      OBVIOUS
    <3>2. watchers'[d][j] = u
      BY <1>1, <2>3, <3>1
    <3>3. \A k \in u.seen \ u.lost : k \in checked' <=> k \in checked
      BY <1>1, <2>1, <2>3, <3>1 DEF WatcherOK
    <3>4. WatcherOK(d, u, checked')
      BY <2>1, <3>1, <3>3 DEF WatcherOK
    <3> QED
      BY <2>1, <3>1, <3>2, <3>4
  <2> QED
    BY <2>2, <2>3
<1>4. TypeOK'
  <2>1. watchers' \in [Dependents -> Seq(Watcher)]
    <3>1. \A d \in Dependents : watchers[d] \in Seq(Watcher)
      BY DEF Inv, TypeOK, StatesTypeOK
    <3>2. watchers' = [d \in Dependents |-> Hear(d, i, v)]
      BY DEF Change
    <3>3. ASSUME NEW d \in Dependents PROVE Hear(d, i, v) \in Seq(Watcher)
      <4>1. Hear(d, i, v) = watchers'[d]
        BY <3>2
      <4>2. Hear(d, i, v) = [j \in 1..Len(watchers[d]) |-> watchers'[d][j]]
        BY <3>1, <4>1 DEF Hear
      <4>3. Len(watchers[d]) \in Nat
        BY <3>1
      <4>4. \A j \in 1..Len(watchers[d]) : watchers'[d][j] \in Watcher
        BY <1>3, <3>1
      <4> QED
        BY <4>2, <4>3, <4>4
    <3> QED
      BY <3>2, <3>3
  <2>2. \A d \in Dependents : \A j \in DOMAIN watchers'[d] :
          watchers'[d][j].on \subseteq watchers'[d][j].seen
    BY <1>1, <1>3 DEF WatcherOK
  <2>3. checked' \subseteq Inputs
    BY <1>1 DEF Inv, TypeOK, StatesTypeOK
  <2> QED
    BY <1>1, <2>1, <2>2, <2>3 DEF Inv, TypeOK, StatesTypeOK, ajaxVars
<1>5. ShownInv'
  <2> SUFFICES ASSUME NEW d \in Dependents PROVE Said(d)'
    BY <1>1, <1>3 DEF ShownInv
  <2>1. CASE Fired(d) = {}
    <3>1. shown'[d] = shown[d]
      BY <1>1, <2>1 DEF LastWord
    <3>2. \A j \in DOMAIN watchers[d] : watchers'[d][j].told = watchers[d][j].told
      BY <2>1 DEF Fired
    <3>3. Said(d)
      BY DEF Inv, ShownInv
    <3> QED
      BY <1>1, <3>1, <3>2, <3>3 DEF Said
  <2>2. CASE Fired(d) # {}
    <3>1. PICK j \in Fired(d) : watchers'[d][j].told = {shown'[d]}
      BY <1>1, <2>2 DEF LastWord
    <3> QED
      BY <1>1, <3>1 DEF Said, Fired
  <2> QED
    BY <2>1, <2>2
<1>6. RequestInv'
  BY DEF Inv, RequestInv, Mine, ajaxVars
<1> QED
  BY <1>4, <1>5, <1>6 DEF Inv

-----------------------------------------------------------------------------
LEMMA UnawareOK ==
  /\ Unaware \in Watcher
  /\ \A d \in Dependents : \A now : WatcherOK(d, Unaware, now)
  BY DEF Unaware, Watcher, WatcherOK

\* A further watcher that knows nothing and has told nothing.
LEMMA AttachInv ==
  ASSUME TypeOK, ShownInv, AttachForm
  PROVE  StatesTypeOK' /\ ShownInv'
<1> DEFINE ws(d) == Append(watchers[d], Unaware)
<1>1. \A d \in Dependents : watchers[d] \in Seq(Watcher) /\ watchers'[d] = ws(d)
  BY DEF TypeOK, StatesTypeOK, AttachForm
<1>2. ASSUME NEW d \in Dependents
      PROVE  /\ DOMAIN watchers[d] \subseteq DOMAIN watchers'[d]
             /\ watchers'[d] \in Seq(Watcher)
             /\ \A j \in DOMAIN watchers[d] : watchers'[d][j] = watchers[d][j]
             /\ \A j \in DOMAIN watchers'[d] :
                  watchers'[d][j] = Unaware \/ j \in DOMAIN watchers[d]
  BY <1>1, UnawareOK
<1>3. StatesTypeOK'
  <2>1. watchers' \in [Dependents -> Seq(Watcher)]
    BY <1>2 DEF AttachForm
  <2>2. \A d \in Dependents : \A j \in DOMAIN watchers'[d] :
          watchers'[d][j].on \subseteq watchers'[d][j].seen
    BY <1>2, UnawareOK DEF WatcherOK, TypeOK, StatesTypeOK
  <2> QED
    BY <2>1, <2>2 DEF TypeOK, StatesTypeOK, AttachForm
<1>4. ShownInv'
  <2> SUFFICES ASSUME NEW d \in Dependents
               PROVE  /\ \A j \in DOMAIN watchers'[d] : WatcherOK(d, watchers'[d][j], checked')
                      /\ Said(d)'
    BY DEF ShownInv
  <2>1. checked' = checked /\ shown' = shown
    BY DEF AttachForm
  <2>2. \A j \in DOMAIN watchers'[d] : WatcherOK(d, watchers'[d][j], checked')
    BY <1>2, <2>1, UnawareOK DEF ShownInv
  <2>3. Said(d)'
    <3>1. Said(d) /\ Unaware.told = {}
      BY DEF ShownInv, Unaware
    <3> QED
      BY <1>2, <2>1, <3>1 DEF Said
  <2> QED
    BY <2>2, <2>3
<1> QED
  BY <1>3, <1>4

\* New elements have new watchers; those of the others learn nothing, and may
\* lose an input.
LEMMA InsertInv ==
  ASSUME TypeOK, ShownInv, NEW R, Insert(R)
  PROVE  StatesTypeOK' /\ ShownInv'
<1> DEFINE aware(d) == Aware(d, Dependees(d) \cap R)
           left(w) == [w EXCEPT !.lost = @ \cup (Inputs \cap R)]
<1>1. \A i \in Inputs \ R : i \in checked' <=> i \in checked
  BY DEF Insert
<1>2. ASSUME NEW d \in Dependents, d \in R
      PROVE  watchers'[d] = <<aware(d), Unaware>>
  BY <1>2 DEF Insert
<1>3. ASSUME NEW d \in Dependents, d \notin R
      PROVE  /\ watchers'[d] = Append([j \in DOMAIN watchers[d] |-> left(watchers[d][j])], Unaware)
             /\ shown'[d] = shown[d]
  BY <1>3 DEF Insert
<1>4. ASSUME NEW d \in Dependents
      PROVE  /\ aware(d) \in Watcher
             /\ WatcherOK(d, aware(d), checked')
             /\ d \in R => aware(d).told = {} \/ aware(d).told = {shown'[d]}
  <2> DEFINE new == Dependees(d) \cap R
             T == IF new = {} THEN {} ELSE {VerifyConstraints(d, new, checked' \cap new)}
  <2>1. aware(d) = [seen |-> new, on |-> checked' \cap new, lost |-> {}, told |-> T]
    BY DEF Aware
  <2>2. T \in SUBSET BOOLEAN
    BY VerdictBoolean
  <2>3. new \subseteq Inputs /\ new \subseteq Dependees(d)
    BY DependeesAreInputs
  <2>4. d \in R => T = {} \/ T = {shown'[d]}
    <3> SUFFICES ASSUME d \in R, new # {} PROVE T = {shown'[d]}
      OBVIOUS
    <3>1. shown'[d] = (\/ new = {}
                       \/ VerifyConstraints(d, new, checked' \cap Dependees(d) \cap R))
      BY DEF Insert
    <3>2. checked' \cap Dependees(d) \cap R = checked' \cap new
      OBVIOUS
    <3>3. shown'[d] = VerifyConstraints(d, new, checked' \cap new)
      BY <3>1, <3>2, VerdictBoolean
    <3> QED
      BY <3>3
  <2>5. /\ new = {} => T = {}
        /\ new # {} => T = {VerifyConstraints(d, new, checked' \cap new)}
    OBVIOUS
  <2> HIDE DEF T, new
  <2>6. aware(d) \in Watcher
    BY <2>1, <2>2, <2>3 DEF Watcher
  <2>7. WatcherOK(d, aware(d), checked')
    BY <2>1, <2>3, <2>5 DEF WatcherOK
  <2> QED
    BY <2>1, <2>4, <2>6, <2>7
<1>5. ASSUME NEW d \in Dependents, NEW w \in Watcher, WatcherOK(d, w, checked)
      PROVE  /\ left(w) \in Watcher
             /\ WatcherOK(d, left(w), checked')
             /\ left(w).told = w.told
  <2> DEFINE l == left(w)
  <2>1. /\ l.seen = w.seen /\ l.on = w.on /\ l.told = w.told
        /\ l.lost = w.lost \cup (Inputs \cap R) /\ w.seen \subseteq Inputs
    BY DEF Watcher
  <2>2. l \in Watcher
    BY DEF Watcher
  <2> HIDE DEF l
  <2>3. WatcherOK(d, l, checked')
    BY <1>1, <1>5, <2>1 DEF WatcherOK
  <2> QED
    BY <2>1, <2>2, <2>3 DEF l
<1> HIDE DEF aware, left
<1>6. ASSUME NEW d \in Dependents
      PROVE  /\ watchers'[d] \in Seq(Watcher)
             /\ \A j \in DOMAIN watchers'[d] : WatcherOK(d, watchers'[d][j], checked')
             /\ Said(d)'
  <2>1. Unaware.told = {}
    BY DEF Unaware
  <2>2. CASE d \in R
    <3>1. watchers'[d] = <<aware(d), Unaware>>
      BY <1>2, <2>2
    <3>2. /\ watchers'[d] \in Seq(Watcher)
          /\ DOMAIN watchers'[d] = {1, 2}
          /\ watchers'[d][1] = aware(d) /\ watchers'[d][2] = Unaware
      BY <1>4, <3>1, UnawareOK
    <3> QED
      BY <1>4, <2>1, <2>2, <3>2, UnawareOK DEF Said
  <2>3. CASE d \notin R
    <3> DEFINE s == [j \in DOMAIN watchers[d] |-> left(watchers[d][j])]
    <3>1. watchers[d] \in Seq(Watcher) /\ watchers'[d] = Append(s, Unaware)
          /\ shown'[d] = shown[d]
      BY <1>3, <2>3 DEF TypeOK, StatesTypeOK
    <3>2. \A j \in DOMAIN watchers[d] :
            /\ watchers[d][j] \in Watcher /\ WatcherOK(d, watchers[d][j], checked)
      BY <3>1 DEF ShownInv
    <3>3. s \in Seq(Watcher) /\ DOMAIN s = DOMAIN watchers[d]
          /\ \A j \in DOMAIN s : s[j] = left(watchers[d][j])
      BY <1>5, <3>1, <3>2
    <3> HIDE DEF s
    <3>4. /\ watchers'[d] \in Seq(Watcher)
          /\ DOMAIN watchers[d] \subseteq DOMAIN watchers'[d]
          /\ \A j \in DOMAIN watchers[d] : watchers'[d][j] = left(watchers[d][j])
          /\ \A j \in DOMAIN watchers'[d] :
               watchers'[d][j] = Unaware \/ j \in DOMAIN watchers[d]
      BY <3>1, <3>3, UnawareOK
    <3>5. \A j \in DOMAIN watchers'[d] : WatcherOK(d, watchers'[d][j], checked')
      BY <1>5, <3>2, <3>4, UnawareOK
    <3>6. \A j \in DOMAIN watchers[d] : watchers'[d][j].told = watchers[d][j].told
      BY <1>5, <3>2, <3>4
    <3>7. Said(d)'
      <4>1. Said(d)
        BY DEF ShownInv
      <4> QED
        BY <2>1, <3>1, <3>4, <3>6, <4>1 DEF Said
    <3> QED
      BY <3>4, <3>5, <3>7
  <2> QED
    BY <2>2, <2>3
<1>7. StatesTypeOK'
  <2>1. watchers' \in [Dependents -> Seq(Watcher)]
    BY <1>6 DEF Insert
  <2>2. shown' \in [Dependents -> BOOLEAN]
    <3>1. \A d \in Dependents : shown'[d] \in BOOLEAN
      BY DEF Insert, TypeOK, StatesTypeOK
    <3> QED
      BY <3>1 DEF Insert
  <2>3. \A d \in Dependents : \A j \in DOMAIN watchers'[d] :
          watchers'[d][j].on \subseteq watchers'[d][j].seen
    BY <1>6 DEF WatcherOK
  <2> QED
    BY <2>1, <2>2, <2>3 DEF StatesTypeOK, Insert
<1> QED
  BY <1>6, <1>7 DEF ShownInv

-----------------------------------------------------------------------------
LEMMA SaidSame ==
  ASSUME TypeOK, ShownInv, UNCHANGED statesVars
  PROVE  StatesTypeOK' /\ ShownInv'
  BY DEF TypeOK, StatesTypeOK, ShownInv, Said, statesVars

LEMMA PressInv == ASSUME Inv, NEW c \in Controls, Press(c) PROVE Inv'
<1> DEFINE r == [id |-> sent + 1, control |-> c, gen |-> gen[c]]
<1>1. /\ requests' = requests \cup {r} /\ gen' = gen /\ c \notin disabled
      /\ ajaxing' = ajaxing \cup {c} /\ disabled' = disabled \cup {c}
      /\ sent' = sent + 1 /\ sent < MaxRequests /\ UNCHANGED statesVars
  BY DEF Press
<1>2. r \in Request /\ r.control = c /\ r.gen = gen[c] /\ gen[c] \in Nat
      /\ sent + 1 \in 0..MaxRequests
  BY <1>1, AjaxAssumption DEF Inv, TypeOK, Request
<1> HIDE DEF r
<1>3. TypeOK'
  BY <1>1, <1>2, SaidSame DEF Inv, TypeOK
<1>4. RequestInv'
  <2>1. \A q \in requests' : q.gen <= gen'[q.control]
    BY <1>1, <1>2 DEF Inv, RequestInv
  <2>2. Mine(c) = {}
    BY <1>1 DEF Inv, RequestInv
  <2>3. Mine(c)' = {r}
    BY <1>1, <1>2, <2>2 DEF Mine
  <2>4. \A b \in Controls \ {c} : Mine(b)' = Mine(b)
    BY <1>1, <1>2 DEF Mine
  <2>5. ASSUME NEW b \in Controls
        PROVE  /\ \A q, p \in Mine(b)' : q = p
               /\ b \in disabled' <=> Mine(b)' # {}
               /\ b \in ajaxing' <=> b \in disabled'
    <3>1. CASE b = c
      BY <1>1, <2>3, <3>1
    <3>2. CASE b # c
      BY <1>1, <2>4, <3>2 DEF Inv, RequestInv
    <3> QED
      BY <3>1, <3>2
  <2> QED
    BY <2>1, <2>5 DEF RequestInv
<1> QED
  BY <1>1, <1>3, <1>4, SaidSame DEF Inv

\* A request is over; its element is released, unless it was replaced, and a new
\* element has no request.
LEMMA OverInv ==
  ASSUME Inv, NEW r \in requests, NEW R,
         requests' = requests \ {r},
         disabled' = (disabled \ Own(r)) \ R,
         ajaxing' = (ajaxing \ Own(r)) \ R,
         gen' = [c \in Controls |-> IF c \in R THEN gen[c] + 1 ELSE gen[c]],
         UNCHANGED sent
  PROVE  /\ RequestInv'
         /\ StatesTypeOK' => TypeOK'
<1>1. /\ gen \in [Controls -> Nat]
      /\ \A q \in requests : q.control \in Controls /\ q.gen \in Nat
      /\ \A c \in Controls : gen[c] \in Nat
      /\ \A c \in Controls : gen'[c] = IF c \in R THEN gen[c] + 1 ELSE gen[c]
  BY DEF Inv, TypeOK, Request
<1>2. gen' \in [Controls -> Nat]
  BY <1>1
<1>3. StatesTypeOK' => TypeOK'
  BY <1>2 DEF Inv, TypeOK
<1>4. \A q \in requests' : q.gen <= gen'[q.control]
  <2> SUFFICES ASSUME NEW q \in requests PROVE q.gen <= gen'[q.control]
    OBVIOUS
  <2>1. q.gen <= gen[q.control]
    BY DEF Inv, RequestInv
  <2> QED
    BY <1>1, <2>1
<1>5. ASSUME NEW c \in Controls
      PROVE  /\ \A q, p \in Mine(c)' : q = p
             /\ c \in disabled' <=> Mine(c)' # {}
             /\ c \in ajaxing' <=> c \in disabled'
  <2>1. /\ \A q, p \in Mine(c) : q = p
        /\ c \in disabled <=> Mine(c) # {}
        /\ c \in ajaxing <=> c \in disabled
    BY DEF Inv, RequestInv
  <2>2. CASE c \in R
    <3>1. \A q \in requests : q.control = c => q.gen # gen'[c]
      <4> SUFFICES ASSUME NEW q \in requests, q.control = c PROVE q.gen # gen'[c]
        OBVIOUS
      <4>1. q.gen <= gen[c]
        BY DEF Inv, RequestInv
      <4> QED
        BY <1>1, <2>2, <4>1
    <3>2. Mine(c)' = {}
      BY <3>1 DEF Mine
    <3> QED
      BY <2>2, <3>2
  <2>3. CASE c \notin R
    <3>1. gen'[c] = gen[c]
      BY <1>1, <2>3
    <3>2. Mine(c)' = Mine(c) \ {r}
      BY <3>1 DEF Mine
    <3>3. c \in Own(r) <=> r \in Mine(c)
      BY DEF Own, Mine
    <3>4. c \in disabled' <=> c \in disabled /\ c \notin Own(r)
      BY <2>3
    <3>5. c \in ajaxing' <=> c \in ajaxing /\ c \notin Own(r)
      BY <2>3
    <3> QED
      BY <2>1, <3>2, <3>3, <3>4, <3>5
  <2> QED
    BY <2>2, <2>3
<1> QED
  BY <1>3, <1>4, <1>5 DEF RequestInv

LEMMA EndInv == ASSUME Inv, NEW r \in requests, End(r) PROVE Inv'
<1>1. ASSUME NEW R, Answer(r, R) PROVE Inv'
  <2>1. StatesTypeOK' /\ ShownInv'
    BY <1>1, InsertInv DEF Answer, Inv
  <2>2. RequestInv' /\ TypeOK'
    BY <1>1, <2>1, OverInv DEF Answer
  <2> QED
    BY <2>1, <2>2 DEF Inv
<1>2. CASE Fail(r)
  <2>1. StatesTypeOK' /\ ShownInv'
    BY <1>2, AttachInv DEF Fail, Inv
  <2>2. PICK none : none = {}
    OBVIOUS
  <2>3. /\ gen' = [c \in Controls |-> IF c \in none THEN gen[c] + 1 ELSE gen[c]]
        /\ disabled' = (disabled \ Own(r)) \ none /\ ajaxing' = (ajaxing \ Own(r)) \ none
        /\ requests' = requests \ {r} /\ UNCHANGED sent
    BY <1>2, <2>2 DEF Fail, Inv, TypeOK
  <2>4. RequestInv' /\ TypeOK'
    BY <2>1, <2>3, OverInv
  <2> QED
    BY <2>1, <2>4 DEF Inv
<1> QED
  BY <1>1, <1>2 DEF End

LEMMA NextInv == Inv /\ [Next]_vars => Inv'
<1> SUFFICES ASSUME Inv, [Next]_vars PROVE Inv'
  OBVIOUS
<1>1. CASE \E i \in Inputs : Change(i) /\ UNCHANGED ajaxVars
  BY <1>1, ChangeInv
<1>2. CASE \E c \in Controls : Press(c)
  BY <1>2, PressInv
<1>3. CASE \E r \in requests : End(r)
  BY <1>3, EndInv
<1>4. CASE UNCHANGED vars
  <2>1. StatesTypeOK' /\ ShownInv'
    BY <1>4, SaidSame DEF Inv, vars
  <2>2. UNCHANGED ajaxVars
    BY <1>4 DEF vars
  <2>3. RequestInv'
    BY <2>2 DEF Inv, RequestInv, Mine, ajaxVars
  <2> QED
    BY <2>1, <2>2, <2>3 DEF Inv, TypeOK, ajaxVars
<1> QED
  BY <1>1, <1>2, <1>3, <1>4 DEF Next

\* The invariant that the theorems below rest on holds however the visitor and
\* the answers of the server take turns.
THEOREM InvHolds == Spec => []Inv
<1>1. Init => Inv
  BY InitInv
<1>2. Inv /\ [Next]_vars => Inv'
  BY NextInv
<1> QED
  BY <1>1, <1>2, PTL DEF Spec

\* Every variable has its type, and a watcher no value that it was not told.
THEOREM TypeCorrect == Spec => []TypeOK
<1>1. Inv => TypeOK
  BY DEF Inv
<1> QED
  BY <1>1, InvHolds, PTL

\* Whatever is replaced and attached again: a dependent is visible just when its
\* constraints hold, as long as no watcher of it was told of some dependees only.
THEOREM InformedDependentsRight == Spec => []ShownRight
<1>1. Inv => ShownRight
  BY InformedRight DEF Inv
<1> QED
  BY <1>1, InvHolds, PTL

\* An element is disabled just while its own request is under way, and it has
\* one at most; late answers to an element it has replaced do not disturb it.
THEOREM ControlsUsable == Spec => []Usable
<1>1. ASSUME Inv, NEW c \in Controls
      PROVE  /\ Cardinality(Mine(c)) <= 1
             /\ c \in disabled <=> Mine(c) # {}
             /\ c \in ajaxing <=> c \in disabled
  <2>1. \A r, q \in Mine(c) : r = q
    BY <1>1 DEF Inv, RequestInv
  <2>2. CASE Mine(c) = {}
    <3>1. Cardinality(Mine(c)) = 0
      BY <2>2, FS_EmptySet
    <3> QED
      BY <1>1, <3>1 DEF Inv, RequestInv
  <2>3. CASE Mine(c) # {}
    <3>1. PICK r : Mine(c) = {r}
      BY <2>1, <2>3
    <3>2. Cardinality(Mine(c)) = 1
      BY <3>1, FS_Singleton
    <3> QED
      BY <1>1, <3>2 DEF Inv, RequestInv
  <2> QED
    BY <2>2, <2>3
<1>2. Inv => Usable
  BY <1>1 DEF Usable, Mine
<1> QED
  BY <1>2, InvHolds, PTL
=============================================================================
