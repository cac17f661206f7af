-------------------------- MODULE DrupalLock_proof --------------------------
(***************************************************************************)
(* Proofs about the locks of includes/lock.inc, for any requests, names,   *)
(* timeouts and clock.                                                     *)
(***************************************************************************)
EXTENDS DrupalLock, TLAPS

USE LockAssumption

\* Where a request is inside lock.inc and what it knows stays well typed, and
\* a request only deletes a row it has read.
Typed == TypeOK /\ CallOK

LEMMA InitTyped == Init => Typed
  BY DEF Init, Typed, TypeOK, CallOK, Calling, Row

\* Forgetting locks keeps the request's own records well typed.
LEMMA ForgetTyped ==
  ASSUME TypeOK, NEW r \in Requests, NEW S \in SUBSET Names, Forget(r, S)
  PROVE  /\ locks' \in [Requests -> SUBSET Names]
         /\ lease' \in [Requests -> [Names -> Nat]]
  BY DEF TypeOK, Forget

\* The calls a request may go on to: it knows the row it is about to delete,
\* and has delay left for the sleep it starts.
Ready == {c \in Call : /\ (c.step = "break" => c.seen # NoRow)
                       /\ (c.step = "sleep" => c.polls > 0)}

\* A step that moves one call on keeps every call well typed.
LEMMA GotoTyped ==
  ASSUME Typed, NEW r \in Requests, NEW c \in Ready \cup {NoCall}, Goto(r, c),
         now' \in Nat, semaphore' \in [Names -> Row \cup {NoRow}],
         locks' \in [Requests -> SUBSET Names],
         lease' \in [Requests -> [Names -> Nat]], active' \subseteq active
  PROVE  Typed'
<1>1. /\ call' \in [Requests -> Call \cup {NoCall}]
      /\ call'[r] = c
      /\ \A q \in Requests \ {r} : call'[q] = call[q]
  BY DEF Typed, TypeOK, Goto, Ready
<1>2. TypeOK'
  BY <1>1 DEF Typed, TypeOK
<1>3. CallOK'
  BY <1>1 DEF Typed, CallOK, Calling, Ready
<1> QED
  BY <1>2, <1>3 DEF Typed

\* What the caller of lock_may_be_available() does next is a ready call.
LEMMA AnswerTyped ==
  ASSUME Typed, NEW r \in Requests, call[r] \in Call,
         NEW available \in BOOLEAN, Answer(r, available)
  PROVE  \E c \in Ready \cup {NoCall} : Goto(r, c)
<1> DEFINE again == [call[r] EXCEPT !.step = "insert", !.retry = TRUE,
                                    !.seen = NoRow]
           sleep == [call[r] EXCEPT !.step = "sleep", !.seen = NoRow]
<1>1. again \in Call /\ again.step = "insert"
  BY DEF Call
<1>2. sleep \in Call /\ sleep.step = "sleep" /\ sleep.polls = call[r].polls
  BY DEF Call
<1>3. call[r].polls # 0 => sleep.polls > 0
  BY <1>2 DEF Call
<1>4. again \in Ready /\ (call[r].polls # 0 => sleep \in Ready)
  BY <1>1, <1>2, <1>3 DEF Ready
<1>5. Goto(r, again) \/ (call[r].polls # 0 /\ Goto(r, sleep)) \/ Goto(r, NoCall)
  BY DEF Answer, Return
<1> QED
  BY <1>4, <1>5

LEMMA NextTyped == Typed /\ [Next]_vars => Typed'
<1> SUFFICES ASSUME Typed, [Next]_vars PROVE Typed'
  OBVIOUS
<1>0. TypeOK /\ CallOK
  BY DEF Typed
<1>1. CASE UNCHANGED vars
  BY <1>0, <1>1 DEF vars, Typed, TypeOK, CallOK, Calling
<1>2. CASE Tick
  BY <1>0, <1>2 DEF Tick, Typed, TypeOK, CallOK, Calling
<1>3. ASSUME NEW r \in Requests, Step(r) PROVE Typed'
  <2>0. call[r] \in Call
    BY <1>0, <1>3 DEF Step, Renew, Insert, Select, Break, WakeUp, Calling,
                      TypeOK
  <2>1. CASE Renew(r)
    <3>1. semaphore' \in [Names -> Row \cup {NoRow}]
      BY <1>0, <2>0, <2>1 DEF Renew, Owns, TypeOK, Call, Row
    <3>2. /\ locks' \in [Requests -> SUBSET Names]
          /\ lease' \in [Requests -> [Names -> Nat]]
      BY <1>0, <2>0, <2>1, ForgetTyped DEF Renew, TypeOK, Call
    <3> QED
      BY <1>0, <2>1, <3>1, <3>2, GotoTyped DEF Renew, Return, TypeOK
  <2>2. CASE Insert(r)
    <3>1. semaphore' \in [Names -> Row \cup {NoRow}]
      BY <1>0, <2>0, <2>2 DEF Insert, TypeOK, Call, Row
    <3>2. /\ locks' \in [Requests -> SUBSET Names]
          /\ lease' \in [Requests -> [Names -> Nat]]
      <4>1. call[r].name \in Names /\ call[r].expire \in Nat
        BY <2>0 DEF Call
      <4>2. CASE semaphore[call[r].name] = NoRow
        <5>1. /\ locks' = [locks EXCEPT ![r] = @ \cup {call[r].name}]
              /\ lease' = [lease EXCEPT ![r][call[r].name] = call[r].expire]
          BY <2>2, <4>2 DEF Insert
        <5> QED
          BY <1>0, <4>1, <5>1 DEF TypeOK
      <4>3. CASE semaphore[call[r].name] # NoRow
        BY <1>0, <2>2, <4>3 DEF Insert, TypeOK
      <4> QED
        BY <4>2, <4>3
    <3>3. \E c \in Ready \cup {NoCall} : Goto(r, c)
      BY <2>0, <2>2 DEF Insert, Return, Ready, Call
    <3> QED
      BY <1>0, <2>2, <3>1, <3>2, <3>3, GotoTyped DEF Insert, TypeOK
  <2>3. CASE Select(r)
    <3>1. \E c \in Ready \cup {NoCall} : Goto(r, c)
      <4>1. CASE semaphore[call[r].name] = NoRow
        BY <2>0, <2>3, <4>1, AnswerTyped DEF Select
      <4>2. CASE semaphore[call[r].name] # NoRow
        BY <1>0, <2>0, <2>3, <4>2 DEF Select, Ready, Call, TypeOK
      <4> QED
        BY <4>1, <4>2
    <3> QED
      BY <1>0, <2>3, <3>1, GotoTyped DEF Select, TypeOK
  <2>4. CASE Break(r)
    <3>1. \E c \in Ready \cup {NoCall} : Goto(r, c)
      BY <2>0, <2>4, AnswerTyped DEF Break
    <3>2. semaphore' \in [Names -> Row \cup {NoRow}]
      BY <1>0, <2>4 DEF Break, TypeOK
    <3> QED
      BY <1>0, <2>4, <3>1, <3>2, GotoTyped DEF Break, TypeOK
  <2>5. CASE WakeUp(r)
    <3>1. call[r].polls > 0
      BY <1>0, <2>5 DEF WakeUp, CallOK
    <3> DEFINE c == [call[r] EXCEPT !.step = "select", !.polls = @ - 1]
    <3>2. call[r].polls - 1 \in Nat
      BY <2>0, <3>1 DEF Call
    <3>3. c \in Call /\ c.step = "select"
      BY <2>0, <3>2 DEF Call
    <3>4. c \in Ready
      BY <3>3 DEF Ready
    <3> QED
      BY <1>0, <2>5, <3>4, GotoTyped DEF WakeUp, TypeOK
  <2> QED
    BY <1>3, <2>1, <2>2, <2>3, <2>4, <2>5 DEF Step
<1>4. ASSUME NEW r \in Requests, Request(r) PROVE Typed'
  <2>1. ASSUME NEW n \in Names, NEW t \in Timeouts, Acquire(r, n, t)
        PROVE  Typed'
    <3> DEFINE s == IF n \in locks[r] THEN "renew" ELSE "insert"
               e == now + (IF t < MinTimeout THEN MinTimeout ELSE t)
               c == [step |-> s, kind |-> "acquire", name |-> n, expire |-> e,
                     retry |-> FALSE, seen |-> NoRow, polls |-> 0]
    <3>1. e \in Nat
      BY <1>0 DEF TypeOK
    <3>2. c \in Ready
      BY <3>1 DEF Ready, Call
    <3>3. Goto(r, c)
      BY <2>1 DEF Acquire
    <3> QED
      BY <1>0, <2>1, <3>2, <3>3, GotoTyped DEF Acquire, TypeOK
  <2>2. ASSUME NEW n \in Names, NEW p \in 1..MaxPolls, Wait(r, n, p)
        PROVE  Typed'
    <3> DEFINE c == [step |-> "sleep", kind |-> "wait", name |-> n,
                     expire |-> 0, retry |-> FALSE, seen |-> NoRow,
                     polls |-> p]
    <3>1. c \in Ready /\ Goto(r, c)
      BY <2>2 DEF Wait, Ready, Call
    <3> QED
      BY <1>0, <2>2, <3>1, GotoTyped DEF Wait, TypeOK
  <2>3. ASSUME NEW n \in Names, Release(r, n) PROVE Typed'
    BY <1>0, <2>3, ForgetTyped
       DEF Release, Typed, TypeOK, CallOK, Calling
  <2>4. CASE End(r)
    BY <1>0, <2>4, ForgetTyped, GotoTyped DEF End, Return, TypeOK
  <2>5. CASE Crash(r)
    BY <1>0, <2>5, ForgetTyped, GotoTyped DEF Crash, Return, TypeOK
  <2> QED
    BY <1>4, <2>1, <2>2, <2>3, <2>4, <2>5 DEF Request
<1> QED
  BY <1>1, <1>2, <1>3, <1>4 DEF Next

\* The types of TypeOK hold in every reachable state.
THEOREM TypeCorrect == Spec => []TypeOK
<1>1. Typed => TypeOK
  BY DEF Typed
<1> QED
  BY <1>1, InitTyped, NextTyped, PTL DEF Spec

-----------------------------------------------------------------------------
\* Nobody can take a lease away before it is over: the DELETE that breaks a
\* lock finds either the row that was read, whose lease was over then and is
\* over now, or a row with another value or a later lease, which it leaves.
\* The INSERT succeeds only where nobody has a row.
LEMMA NextBacked == Typed /\ LeaseBacked /\ [Next]_vars => LeaseBacked'
<1> SUFFICES ASSUME Typed, LeaseBacked, [Next]_vars,
                    NEW n \in Names, NEW q \in Requests, Guaranteed(q, n)'
             PROVE  semaphore'[n] = [value |-> q, expire |-> lease'[q][n]]
  BY DEF LeaseBacked
<1> USE DEF Guaranteed
<1>0. TypeOK /\ CallOK
  BY DEF Typed
<1>a. ASSUME Guaranteed(q, n)
      PROVE  semaphore[n] = [value |-> q, expire |-> lease[q][n]]
  BY <1>a DEF LeaseBacked
<1>1. CASE UNCHANGED vars
  BY <1>1, <1>a DEF vars
<1>2. CASE Tick
  BY <1>0, <1>2, <1>a DEF Tick, TypeOK
<1>3. ASSUME NEW r \in Requests, Renew(r)
      PROVE  semaphore'[n] = [value |-> q, expire |-> lease'[q][n]]
  <2> DEFINE m == call[r].name
             e == call[r].expire
  <2>0. call[r] \in Call /\ m \in Names /\ e \in Nat
    BY <1>0, <1>3 DEF Renew, Calling, TypeOK, Call
  <2>1. CASE Owns(r, m)
    <3>1. /\ semaphore' = [semaphore EXCEPT ![m].expire = e]
          /\ lease' = [lease EXCEPT ![r][m] = e]
          /\ UNCHANGED <<locks, now>>
      BY <1>3, <2>1 DEF Renew
    <3>2. semaphore[m] \in Row /\ semaphore[m].value = r
      BY <1>0, <2>0, <2>1 DEF Owns, TypeOK
    <3>3. semaphore'[m] = [value |-> r, expire |-> e]
      BY <1>0, <2>0, <3>1, <3>2 DEF TypeOK, Row
    <3>4. CASE n = m
      <4>1. q = r
        BY <1>0, <1>a, <2>0, <3>1, <3>2, <3>4 DEF TypeOK
      <4> QED
        BY <1>0, <2>0, <3>1, <3>3, <3>4, <4>1 DEF TypeOK
    <3>5. CASE n # m
      BY <1>0, <1>a, <2>0, <3>1, <3>5 DEF TypeOK
    <3> QED
      BY <3>4, <3>5
  <2>2. CASE ~Owns(r, m)
    BY <1>0, <1>3, <1>a, <2>0, <2>2 DEF Renew, Forget, TypeOK
  <2> QED
    BY <2>1, <2>2
<1>4. ASSUME NEW r \in Requests, Insert(r)
      PROVE  semaphore'[n] = [value |-> q, expire |-> lease'[q][n]]
  <2> DEFINE m == call[r].name
             e == call[r].expire
  <2>0. m \in Names /\ e \in Nat
    BY <1>0, <1>4 DEF Insert, Calling, TypeOK, Call
  <2>1. CASE semaphore[m] = NoRow
    <3>1. /\ semaphore' = [semaphore EXCEPT
                             ![m] = [value |-> r, expire |-> e]]
          /\ locks' = [locks EXCEPT ![r] = @ \cup {m}]
          /\ lease' = [lease EXCEPT ![r][m] = e]
          /\ UNCHANGED now
      BY <1>4, <2>1 DEF Insert
    <3>2. CASE n = m /\ q = r
      BY <1>0, <2>0, <3>1, <3>2 DEF TypeOK
    <3>3. CASE n = m /\ q # r
      <4>1. Guaranteed(q, n)
        BY <1>0, <2>0, <3>1, <3>3 DEF TypeOK
      <4>2. semaphore[n] \in Row
        BY <1>0, <1>a, <4>1 DEF TypeOK, Row
      <4> QED
        BY <2>1, <3>3, <4>2
    <3>4. CASE n # m
      BY <1>0, <1>a, <2>0, <3>1, <3>4 DEF TypeOK
    <3> QED
      BY <3>2, <3>3, <3>4
  <2>2. CASE semaphore[m] # NoRow
    BY <1>4, <1>a, <2>2 DEF Insert
  <2> QED
    BY <2>1, <2>2
<1>5. ASSUME NEW r \in Requests, Select(r) \/ WakeUp(r)
      PROVE  semaphore'[n] = [value |-> q, expire |-> lease'[q][n]]
  BY <1>5, <1>a DEF Select, WakeUp
<1>6. ASSUME NEW r \in Requests, Break(r)
      PROVE  semaphore'[n] = [value |-> q, expire |-> lease'[q][n]]
  <2>1. Guaranteed(q, n) /\ lease' = lease
    BY <1>6 DEF Break
  <2>2. semaphore[n] = [value |-> q, expire |-> lease[q][n]]
    BY <1>a, <2>1
  <2>3. call[r].seen.expire \in Nat
    BY <1>0, <1>6 DEF Break, Calling, TypeOK, CallOK, Call, Row
  <2>4. ~(now > call[r].seen.expire /\ Breakable(n, call[r].seen))
    BY <1>0, <2>1, <2>2, <2>3 DEF Breakable, TypeOK
  <2> QED
    BY <1>0, <1>6, <2>1, <2>2, <2>4 DEF Break, TypeOK
<1>7. ASSUME NEW r \in Requests, NEW m \in Names, NEW t \in Timeouts,
             Acquire(r, m, t)
      PROVE  semaphore'[n] = [value |-> q, expire |-> lease'[q][n]]
  BY <1>7, <1>a DEF Acquire
<1>8. ASSUME NEW r \in Requests, NEW m \in Names, NEW p \in 1..MaxPolls,
             Wait(r, m, p)
      PROVE  semaphore'[n] = [value |-> q, expire |-> lease'[q][n]]
  BY <1>8, <1>a DEF Wait
<1>9. ASSUME NEW r \in Requests, NEW m \in Names, Release(r, m)
      PROVE  semaphore'[n] = [value |-> q, expire |-> lease'[q][n]]
  BY <1>0, <1>9, <1>a DEF Release, Forget, Owns, TypeOK
<1>10. ASSUME NEW r \in Requests, End(r) \/ Crash(r)
       PROVE  semaphore'[n] = [value |-> q, expire |-> lease'[q][n]]
  BY <1>0, <1>10, <1>a DEF End, Crash, Forget, Owns, TypeOK
<1> QED
  BY <1>1, <1>2, <1>3, <1>4, <1>5, <1>6, <1>7, <1>8, <1>9, <1>10
     DEF Next, Step, Request

\* A lease that is relied on is backed by its row, for any number of
\* requests, whatever they do in parallel.
THEOREM LeasesAreBacked == Spec => []LeaseBacked
<1>1. Init => LeaseBacked
  BY DEF Init, LeaseBacked, Guaranteed
<1> QED
  BY <1>1, InitTyped, NextTyped, NextBacked, PTL DEF Spec

\* Mutual exclusion of the leases: a row names one request only.
THEOREM LeasesExclude == Spec => []LeaseExclusion
<1>1. ASSUME LeaseBacked, NEW n \in Names, NEW r1 \in Requests,
             NEW r2 \in Requests, Guaranteed(r1, n), Guaranteed(r2, n)
      PROVE  r1 = r2
  <2>1. /\ semaphore[n] = [value |-> r1, expire |-> lease[r1][n]]
        /\ semaphore[n] = [value |-> r2, expire |-> lease[r2][n]]
    BY <1>1 DEF LeaseBacked
  <2>2. semaphore[n].value = r1 /\ semaphore[n].value = r2
    BY <2>1
  <2> QED
    BY <2>2
<1>2. LeaseBacked => LeaseExclusion
  BY <1>1 DEF LeaseExclusion
<1> QED
  BY <1>2, LeasesAreBacked, PTL

-----------------------------------------------------------------------------
\* A row comes to name a request only by its own INSERT, which notes the lock;
\* a request forgets a lock only when the row is not its own or is deleted.
LEMMA NextRemembers ==
  TypeOK /\ NoForgottenRow /\ [Next]_vars => NoForgottenRow'
<1> SUFFICES ASSUME TypeOK, NoForgottenRow, [Next]_vars,
                    NEW n \in Names, NEW q \in active', Owns(q, n)'
             PROVE  n \in locks'[q]
  BY DEF NoForgottenRow
<1>0. active' \subseteq active /\ q \in Requests
  BY DEF TypeOK, Next, vars, Tick, Step, Renew, Insert, Select, Break, WakeUp,
         Request, Acquire, Wait, Release, End, Crash
<1>a. Owns(q, n) => n \in locks[q]
  BY <1>0 DEF NoForgottenRow
<1>1. CASE UNCHANGED vars
  BY <1>1, <1>a DEF vars, Owns
<1>2. CASE Tick
  BY <1>2, <1>a DEF Tick, Owns
<1>3. ASSUME NEW r \in Requests, Renew(r) PROVE n \in locks'[q]
  <2> DEFINE m == call[r].name
             e == call[r].expire
  <2>0. m \in Names
    BY <1>3 DEF Renew, Calling, TypeOK, Call
  <2>1. CASE Owns(r, m)
    <3>1. semaphore' = [semaphore EXCEPT ![m].expire = e] /\ UNCHANGED locks
      BY <1>3, <2>1 DEF Renew
    <3>2. semaphore[m] \in Row
      BY <2>0, <2>1 DEF Owns, TypeOK
    <3>3. semaphore'[m].value = semaphore[m].value
      BY <2>0, <3>1, <3>2 DEF TypeOK, Row
    <3>4. Owns(q, n)
      BY <2>0, <2>1, <3>1, <3>3 DEF Owns, TypeOK
    <3> QED
      BY <1>a, <3>1, <3>4
  <2>2. CASE ~Owns(r, m)
    <3>1. semaphore' = semaphore /\ locks' = [locks EXCEPT ![r] = @ \ {m}]
      BY <1>3, <2>2 DEF Renew, Forget
    <3> QED
      BY <1>0, <1>a, <2>2, <3>1 DEF Owns, TypeOK
  <2> QED
    BY <2>1, <2>2
<1>4. ASSUME NEW r \in Requests, Insert(r) PROVE n \in locks'[q]
  <2> DEFINE m == call[r].name
             e == call[r].expire
  <2>0. m \in Names
    BY <1>4 DEF Insert, Calling, TypeOK, Call
  <2>1. CASE semaphore[m] = NoRow
    <3>1. /\ semaphore' = [semaphore EXCEPT
                             ![m] = [value |-> r, expire |-> e]]
          /\ locks' = [locks EXCEPT ![r] = @ \cup {m}]
      BY <1>4, <2>1 DEF Insert
    <3>2. CASE n = m
      BY <1>0, <2>0, <3>1, <3>2 DEF Owns, TypeOK
    <3>3. CASE n # m
      BY <1>0, <1>a, <2>0, <3>1, <3>3 DEF Owns, TypeOK
    <3> QED
      BY <3>2, <3>3
  <2>2. CASE semaphore[m] # NoRow
    BY <1>4, <1>a, <2>2 DEF Insert, Owns
  <2> QED
    BY <2>1, <2>2
<1>5. ASSUME NEW r \in Requests, Select(r) \/ WakeUp(r) PROVE n \in locks'[q]
  BY <1>5, <1>a DEF Select, WakeUp, Owns
<1>6. ASSUME NEW r \in Requests, Break(r) PROVE n \in locks'[q]
  <2>1. /\ UNCHANGED locks
        /\ \/ semaphore' = [semaphore EXCEPT ![call[r].name] = NoRow]
           \/ semaphore' = semaphore
    BY <1>6 DEF Break
  <2>2. semaphore' # semaphore => n # call[r].name
    BY <2>1 DEF Owns, TypeOK
  <2>3. Owns(q, n)
    BY <2>1, <2>2 DEF Owns, TypeOK
  <2> QED
    BY <1>a, <2>1, <2>3
<1>7. ASSUME NEW r \in Requests, NEW m \in Names, NEW t \in Timeouts,
             Acquire(r, m, t)
      PROVE  n \in locks'[q]
  BY <1>7, <1>a DEF Acquire, Owns
<1>8. ASSUME NEW r \in Requests, NEW m \in Names, NEW p \in 1..MaxPolls,
             Wait(r, m, p)
      PROVE  n \in locks'[q]
  BY <1>8, <1>a DEF Wait, Owns
<1>9. ASSUME NEW r \in Requests, NEW m \in Names, Release(r, m)
      PROVE  n \in locks'[q]
  BY <1>0, <1>9, <1>a DEF Release, Forget, Owns, TypeOK
<1>10. ASSUME NEW r \in Requests, End(r) \/ Crash(r) PROVE n \in locks'[q]
  BY <1>0, <1>10, <1>a DEF End, Crash, Forget, Owns, TypeOK
<1> QED
  BY <1>1, <1>2, <1>3, <1>4, <1>5, <1>6, <1>7, <1>8, <1>9, <1>10
     DEF Next, Step, Request

\* A request that goes on knows every row that names it, so that it will
\* release what it holds.
THEOREM RowsAreRemembered == Spec => []NoForgottenRow
<1>1. Init => NoForgottenRow
  BY DEF Init, NoForgottenRow, Owns
<1>2. Typed => TypeOK
  BY DEF Typed
<1> QED
  BY <1>1, <1>2, InitTyped, NextTyped, NextRemembers, PTL DEF Spec

-----------------------------------------------------------------------------
\* Every statement of lock.inc is a step of the abstract lease lock or leaves
\* its variables alone.
LEMMA NextImplements == Typed /\ [Next]_vars => [Lease!Next]_Lease!vars
<1> SUFFICES ASSUME Typed, [Next]_vars PROVE [Lease!Next]_Lease!vars
  OBVIOUS
<1>0. TypeOK /\ CallOK
  BY DEF Typed
<1>1. CASE UNCHANGED vars
  BY <1>1 DEF vars, Lease!vars
<1>2. CASE Tick
  BY <1>2 DEF Tick, Lease!Next, Lease!Pass
<1>3. ASSUME NEW r \in Requests, Renew(r) PROVE [Lease!Next]_Lease!vars
  <2> DEFINE m == call[r].name
             e == call[r].expire
  <2>0. m \in Names /\ e \in Nat /\ r \in active
    BY <1>0, <1>3 DEF Renew, Calling, TypeOK, Call
  <2>1. CASE Owns(r, m)
    <3>1. semaphore' = [semaphore EXCEPT ![m].expire = e] /\ UNCHANGED <<now, active>>
      BY <1>3, <2>1 DEF Renew
    <3>2. semaphore[m] \in Row /\ semaphore[m].value = r /\ semaphore[m] # NoRow
      BY <1>0, <2>0, <2>1 DEF Owns, TypeOK
    <3>3. semaphore'[m] = [value |-> r, expire |-> e]
      BY <1>0, <2>0, <3>1, <3>2 DEF TypeOK, Row
    <3>4. semaphore' = [semaphore EXCEPT ![m] = semaphore'[m]]
      BY <1>0, <2>0, <3>1 DEF TypeOK
    <3>5. semaphore'[m] \in [value : {r}, expire : Nat]
      BY <2>0, <3>3
    <3>6. Lease!Extend(r, m)
      BY <2>0, <3>1, <3>2, <3>4, <3>5 DEF Lease!Extend
    <3> QED
      BY <2>0, <3>6 DEF Lease!Next
  <2>2. CASE ~Owns(r, m)
    BY <1>3, <2>2 DEF Renew, Lease!vars
  <2> QED
    BY <2>1, <2>2
<1>4. ASSUME NEW r \in Requests, Insert(r) PROVE [Lease!Next]_Lease!vars
  <2> DEFINE m == call[r].name
             e == call[r].expire
  <2>0. m \in Names /\ e \in Nat /\ r \in active
    BY <1>0, <1>4 DEF Insert, Calling, TypeOK, Call
  <2>1. CASE semaphore[m] = NoRow
    <3>1. /\ semaphore' = [semaphore EXCEPT
                             ![m] = [value |-> r, expire |-> e]]
          /\ UNCHANGED <<now, active>>
      BY <1>4, <2>1 DEF Insert
    <3>2. semaphore'[m] = [value |-> r, expire |-> e]
      BY <1>0, <2>0, <3>1 DEF TypeOK
    <3>3. semaphore'[m] \in [value : {r}, expire : Nat]
      BY <2>0, <3>2
    <3>4. semaphore' = [semaphore EXCEPT ![m] = semaphore'[m]]
      BY <3>1, <3>2
    <3>5. Lease!Grant(r, m)
      BY <2>0, <2>1, <3>1, <3>3, <3>4 DEF Lease!Grant
    <3> QED
      BY <2>0, <3>5 DEF Lease!Next
  <2>2. CASE semaphore[m] # NoRow
    BY <1>4, <2>2 DEF Insert, Lease!vars
  <2> QED
    BY <2>1, <2>2
<1>5. ASSUME NEW r \in Requests, Select(r) \/ WakeUp(r)
      PROVE  [Lease!Next]_Lease!vars
  BY <1>5 DEF Select, WakeUp, Lease!vars
<1>6. ASSUME NEW r \in Requests, Break(r) PROVE [Lease!Next]_Lease!vars
  <2> DEFINE m == call[r].name
             seen == call[r].seen
  <2>0. m \in Names /\ seen.expire \in Nat
    BY <1>0, <1>6 DEF Break, Calling, TypeOK, CallOK, Call, Row
  <2>1. CASE /\ now > seen.expire
             /\ Breakable(m, seen)
             /\ semaphore' = [semaphore EXCEPT ![m] = NoRow]
    <3>1. semaphore[m] \in Row /\ semaphore[m].expire \in Nat
      BY <1>0, <2>0, <2>1 DEF Breakable, TypeOK, Row
    <3>2. semaphore[m].expire < now + Tolerance
      BY <1>0, <2>0, <2>1, <3>1 DEF Breakable, TypeOK
    <3>3. Lease!Expire(m)
      BY <1>6, <2>1, <3>2 DEF Break, Breakable, Lease!Expire
    <3> QED
      BY <2>0, <3>3 DEF Lease!Next
  <2>2. CASE UNCHANGED semaphore
    BY <1>6, <2>2 DEF Break, Lease!vars
  <2> QED
    BY <1>6, <2>1, <2>2 DEF Break
<1>7. ASSUME NEW r \in Requests, NEW m \in Names, NEW t \in Timeouts,
             Acquire(r, m, t)
      PROVE  [Lease!Next]_Lease!vars
  BY <1>7 DEF Acquire, Lease!vars
<1>8. ASSUME NEW r \in Requests, NEW m \in Names, NEW p \in 1..MaxPolls,
             Wait(r, m, p)
      PROVE  [Lease!Next]_Lease!vars
  BY <1>8 DEF Wait, Lease!vars
<1>9. ASSUME NEW r \in Requests, NEW m \in Names, Release(r, m)
      PROVE  [Lease!Next]_Lease!vars
  <2>1. CASE Owns(r, m)
    <3>1. semaphore' = [k \in Names |-> IF k \in {m} THEN NoRow
                                                     ELSE semaphore[k]]
      BY <1>0, <1>9, <2>1 DEF Release, TypeOK
    <3>2. Lease!GiveUp(r, {m})
      BY <1>9, <2>1, <3>1 DEF Release, Idle, Owns, Lease!GiveUp
    <3> QED
      BY <3>2 DEF Lease!Next
  <2>2. CASE ~Owns(r, m)
    BY <1>9, <2>2 DEF Release, Lease!vars
  <2> QED
    BY <2>1, <2>2
<1>10. ASSUME NEW r \in Requests, End(r) PROVE [Lease!Next]_Lease!vars
  <2> DEFINE S == {k \in Names : Owns(r, k)}
  <2>1. semaphore' = [k \in Names |-> IF k \in S THEN NoRow
                                                 ELSE semaphore[k]]
    BY <1>10 DEF End
  <2>2. Lease!GiveUp(r, S)
    BY <1>10, <2>1 DEF End, Owns, Lease!GiveUp
  <2> QED
    BY <2>2 DEF Lease!Next
<1>11. ASSUME NEW r \in Requests, Crash(r) PROVE [Lease!Next]_Lease!vars
  BY <1>11 DEF Crash, Lease!Next, Lease!Die
<1> QED
  BY <1>1, <1>2, <1>3, <1>4, <1>5, <1>6, <1>7, <1>8, <1>9, <1>10, <1>11
     DEF Next, Step, Request

\* The locks of lock.inc implement the leases that its header promises.
THEOREM LocksAreLeases == Spec => ImplementsLease
<1>1. Init => Lease!Init
  BY DEF Init, Lease!Init
<1> QED
  BY <1>1, InitTyped, NextTyped, NextImplements, PTL
     DEF Spec, ImplementsLease, Lease!Spec

\* What a step may do to the row n of holder h that is not to be broken yet.
KeepsRow(n) ==
    /\ semaphore[n] # NoRow /\ semaphore'[n] # semaphore[n]
    /\ now + Tolerance <= semaphore[n].expire
    => /\ semaphore[n].value \in active /\ Acts(semaphore[n].value)
       /\ semaphore'[n] # NoRow => semaphore'[n].value = semaphore[n].value

\* Statements that write a row are the holder's own, apart from the DELETE of
\* lock_may_be_available(), which finds the lease over.
LEMMA NextKeepsRows ==
  ASSUME Typed, NoForgottenRow, Next, NEW n \in Names PROVE KeepsRow(n)
<1> SUFFICES ASSUME semaphore[n] # NoRow, semaphore'[n] # semaphore[n],
                    now + Tolerance <= semaphore[n].expire
             PROVE  /\ semaphore[n].value \in active
                    /\ Acts(semaphore[n].value)
                    /\ semaphore'[n] # NoRow =>
                         semaphore'[n].value = semaphore[n].value
  BY DEF KeepsRow
<1>0. TypeOK /\ CallOK /\ semaphore[n] \in Row
  BY DEF Typed, TypeOK
<1>1. ASSUME NEW r \in Requests, Renew(r)
      PROVE  /\ r = semaphore[n].value /\ r \in active /\ Acts(r)
             /\ semaphore'[n].value = semaphore[n].value
  <2>1. call[r] # NoCall /\ call'[r] = NoCall /\ r \in active
    BY <1>0, <1>1 DEF Renew, Calling, Return, Goto, TypeOK
  <2>2. /\ Owns(r, call[r].name) /\ n = call[r].name
        /\ semaphore' = [semaphore EXCEPT ![n].expire = call[r].expire]
    BY <1>0, <1>1 DEF Renew, TypeOK
  <2>3. semaphore'[n].value = semaphore[n].value
    BY <1>0, <2>2 DEF TypeOK, Row
  <2> QED
    BY <2>1, <2>2, <2>3 DEF Owns, Acts
<1>2. ASSUME NEW r \in Requests, Insert(r) PROVE FALSE
  BY <1>0, <1>2 DEF Insert, TypeOK
<1>3. ASSUME NEW r \in Requests, Break(r) PROVE FALSE
  <2>1. /\ call[r].name = n /\ now > call[r].seen.expire
        /\ Breakable(n, call[r].seen) /\ call[r].seen.expire \in Nat
    BY <1>0, <1>3 DEF Break, Calling, TypeOK, CallOK, Call, Row
  <2> QED
    BY <1>0, <2>1 DEF Breakable, TypeOK, Row
<1>4. ASSUME NEW r \in Requests, NEW m \in Names, Release(r, m)
      PROVE  /\ r = semaphore[n].value /\ r \in active /\ Acts(r)
             /\ semaphore'[n] = NoRow
  <2>1. Owns(r, n) /\ m = n /\ semaphore'[n] = NoRow /\ r \in active
    BY <1>0, <1>4 DEF Release, Idle, TypeOK
  <2>2. n \in locks[r] /\ n \notin locks'[r]
    BY <1>0, <1>4, <2>1 DEF Release, Forget, NoForgottenRow, TypeOK
  <2> QED
    BY <2>1, <2>2 DEF Owns, Acts
<1>5. ASSUME NEW r \in Requests, End(r)
      PROVE  /\ r = semaphore[n].value /\ r \in active /\ Acts(r)
             /\ semaphore'[n] = NoRow
  <2>1. Owns(r, n) /\ semaphore'[n] = NoRow /\ r \in active /\ r \notin active'
    BY <1>0, <1>5 DEF End, TypeOK
  <2> QED
    BY <2>1 DEF Owns, Acts
<1>6. ASSUME NEW r \in Requests, Select(r) \/ WakeUp(r) \/ Crash(r) PROVE FALSE
  BY <1>6 DEF Select, WakeUp, Crash
<1>7. ASSUME NEW r \in Requests, NEW m \in Names,
             \/ \E t \in Timeouts : Acquire(r, m, t)
             \/ \E p \in 1..MaxPolls : Wait(r, m, p)
      PROVE  FALSE
  BY <1>7 DEF Acquire, Wait
<1>8. ASSUME Tick PROVE FALSE
  BY <1>8 DEF Tick
<1> QED
  BY <1>1, <1>2, <1>3, <1>4, <1>5, <1>6, <1>7, <1>8 DEF Next, Step, Request

\* A row whose lease is not over changes only by a step of its holder: a break
\* by others, from an older reading of the row, fails, and the row of a dead
\* holder stays.
THEOREM LeasesAreKept == Spec => LeaseKept
<1>1. Typed /\ NoForgottenRow /\ [Next]_vars =>
        [\A n \in Names : KeepsRow(n)]_vars
  BY NextKeepsRows
<1>2. (\A n \in Names : KeepsRow(n)) =>
        \A n \in Names :
          /\ semaphore[n] # NoRow /\ semaphore'[n] # semaphore[n]
          /\ now + Tolerance <= semaphore[n].expire
          => /\ semaphore[n].value \in active /\ Acts(semaphore[n].value)
             /\ semaphore'[n] # NoRow => semaphore'[n].value = semaphore[n].value
  BY DEF KeepsRow
<1> QED
  BY <1>1, <1>2, InitTyped, NextTyped, RowsAreRemembered, PTL DEF Spec, LeaseKept

-----------------------------------------------------------------------------
\* lock_acquire() never sleeps, and lock_wait() neither renews nor inserts.
Fits(c) == IF c.kind = "wait" THEN c.step \in {"sleep", "select", "break"}
                              ELSE c.step # "sleep"

Fitting == \A r \in Requests : call[r] # NoCall => Fits(call[r])

\* The calls after which fewer statements are left than after call c.
Below(c) == {d \in Call \cup {NoCall} :
               /\ d # NoCall => Fits(d)
               /\ StatementsLeft(d) < StatementsLeft(c)}

\* StatementsLeft, case by case.
LEMMA LeftByStep ==
  ASSUME NEW c \in Call, c # NoCall, Fits(c)
  PROVE  /\ c.kind = "wait" =>
              /\ c.step = "sleep" => StatementsLeft(c) = 3 * c.polls
              /\ c.step = "select" => StatementsLeft(c) = 3 * c.polls + 2
              /\ c.step = "break" => StatementsLeft(c) = 3 * c.polls + 1
         /\ c.kind = "acquire" =>
              /\ c.step = "insert" /\ ~c.retry => StatementsLeft(c) = 4
              /\ c.step = "select" => StatementsLeft(c) = 3
              /\ c.step = "break" => StatementsLeft(c) = 2
              /\ c.step = "renew" => StatementsLeft(c) = 1
              /\ c.step = "insert" /\ c.retry => StatementsLeft(c) = 1
<1>1. ASSUME c.kind = "wait"
      PROVE  StatementsLeft(c) = 3 * c.polls + (IF c.step = "select" THEN 2
                                          ELSE IF c.step = "break" THEN 1
                                          ELSE 0)
  BY <1>1 DEF StatementsLeft
<1>2. ASSUME c.kind = "acquire"
      PROVE  StatementsLeft(c) = IF c.step = "insert" /\ ~c.retry THEN 4
                            ELSE IF c.step = "select" THEN 3
                            ELSE IF c.step = "break" THEN 2
                            ELSE 1
  BY <1>2 DEF StatementsLeft
<1>3. c.polls \in Nat
  BY DEF Call
<1> QED
  BY <1>1, <1>2, <1>3

\* A call that is under way has a statement left to make.
LEMMA NotDone ==
  ASSUME NEW c \in Ready, c # NoCall, Fits(c)
  PROVE  NoCall \in Below(c)
<1>1. c \in Call /\ c.polls \in Nat /\ c.kind \in {"wait", "acquire"}
  BY DEF Ready, Call
<1>2. /\ c.step \in {"renew", "insert", "select", "break", "sleep"}
      /\ c.retry \in BOOLEAN
  BY DEF Ready, Call
<1>3. c.step = "sleep" => c.polls > 0
  BY DEF Ready
<1>4. CASE c.kind = "wait"
  <2>1. 0 < StatementsLeft(c)
    BY <1>1, <1>3, <1>4, LeftByStep DEF Fits
  <2> QED
    BY <2>1 DEF Below, StatementsLeft
<1>5. CASE c.kind = "acquire"
  <2>1. c.step # "sleep"
    BY <1>5 DEF Fits
  <2>2. 0 < StatementsLeft(c)
    BY <1>1, <1>2, <1>5, <2>1, LeftByStep
  <2> QED
    BY <2>2 DEF Below, StatementsLeft
<1> QED
  BY <1>1, <1>4, <1>5

\* Whatever lock_may_be_available() answers, its caller is nearer to its end.
LEMMA AnswerShrinks ==
  ASSUME NEW r \in Requests, NEW c \in Ready, call[r] = c, c # NoCall, Fits(c),
         call \in [Requests -> Call \cup {NoCall}],
         c.step \in {"select", "break"}, NEW available \in BOOLEAN,
         Answer(r, available)
  PROVE  \E d \in Below(c) : Goto(r, d)
<1> DEFINE again == [c EXCEPT !.step = "insert", !.retry = TRUE,
                              !.seen = NoRow]
           sleep == [c EXCEPT !.step = "sleep", !.seen = NoRow]
<1>0. c \in Call /\ c.polls \in Nat
  BY DEF Ready, Call
<1>1. /\ again \in Call /\ again.step = "insert" /\ again.kind = c.kind
      /\ again.retry = TRUE
      /\ sleep \in Call /\ sleep.step = "sleep" /\ sleep.kind = c.kind
      /\ sleep.polls = c.polls
  BY <1>0 DEF Call
<1>2. CASE Return(r)
  BY <1>2, NotDone DEF Return
<1>3. CASE c.kind = "acquire" /\ Goto(r, again)
  <2>1. Fits(again) /\ StatementsLeft(c) \in {2, 3}
    BY <1>0, <1>1, <1>3, LeftByStep DEF Fits
  <2>2. again # NoCall => StatementsLeft(again) = 1
    BY <1>1, <1>3, <2>1, LeftByStep
  <2>3. again = NoCall => StatementsLeft(again) = 0
    BY DEF StatementsLeft
  <2>4. again \in Below(c)
    <3> HIDE DEF again
    <3> QED
      BY <1>1, <2>1, <2>2, <2>3 DEF Below
  <2> QED
    BY <1>3, <2>4
<1>4. CASE c.kind = "wait" /\ Goto(r, sleep)
  <2>1. Fits(sleep)
    BY <1>1, <1>4 DEF Fits
  <2>2. StatementsLeft(c) \in {3 * c.polls + 1, 3 * c.polls + 2}
    BY <1>0, <1>4, LeftByStep
  <2>3. StatementsLeft(sleep) \in {0, 3 * c.polls}
    <3>1. sleep = NoCall => StatementsLeft(sleep) = 0
      BY DEF StatementsLeft
    <3>2. sleep # NoCall => StatementsLeft(sleep) = 3 * c.polls
      <4> HIDE DEF sleep
      <4> QED
        BY <1>1, <1>4, <2>1, LeftByStep
    <3> QED
      BY <3>1, <3>2
  <2>4. sleep \in Below(c)
    <3> HIDE DEF sleep
    <3> QED
      BY <1>0, <1>1, <2>1, <2>2, <2>3 DEF Below
  <2> QED
    BY <1>4, <2>4
<1>5. \/ Return(r)
      \/ c.kind = "acquire" /\ Goto(r, again)
      \/ c.kind = "wait" /\ Goto(r, sleep)
  BY <1>0 DEF Answer, Call
<1> QED
  BY <1>2, <1>3, <1>4, <1>5

\* Every statement leaves fewer behind it.
LEMMA StepShrinks ==
  ASSUME Typed, Fitting, NEW r \in Requests, Step(r)
  PROVE  \E d \in Below(call[r]) : Goto(r, d)
<1> DEFINE c == call[r]
<1>0. c # NoCall
  BY DEF Step, Renew, Insert, Select, Break, WakeUp, Calling
<1>1. c \in Call /\ call \in [Requests -> Call \cup {NoCall}]
  BY <1>0 DEF Typed, TypeOK
<1>2. r \in active
  BY DEF Step, Renew, Insert, Select, Break, WakeUp, Calling
<1>3. c \in Ready
  BY <1>0, <1>1, <1>2 DEF Typed, CallOK, Calling, Ready
<1>4. Fits(c)
  BY <1>0 DEF Fitting
<1>5. NoCall \in Below(c)
  BY <1>0, <1>3, <1>4, NotDone
<1>6. CASE Return(r)
  BY <1>5, <1>6 DEF Return
<1>7. CASE Renew(r)
  BY <1>6, <1>7 DEF Renew
<1>8. CASE Insert(r)
  <2> DEFINE d == [c EXCEPT !.step = "select"]
  <2>1. CASE ~c.retry /\ Goto(r, d)
    <3>1. d \in Call /\ d.step = "select" /\ d.kind = c.kind
      BY <1>1 DEF Call
    <3>2. c.step = "insert" /\ c.kind = "acquire"
      BY <1>1, <1>4, <1>8 DEF Insert, Calling, Fits, Call
    <3>3. StatementsLeft(c) = 4
      BY <1>0, <1>1, <1>4, <2>1, <3>2, LeftByStep
    <3>4. Fits(d)
      BY <3>1, <3>2 DEF Fits
    <3>5. d = NoCall => StatementsLeft(d) = 0
      BY DEF StatementsLeft
    <3>6. d \in Below(c)
      <4> HIDE DEF d
      <4> QED
        BY <3>1, <3>2, <3>3, <3>4, <3>5, LeftByStep DEF Below
    <3> QED
      BY <2>1, <3>6
  <2> QED
    BY <1>6, <1>8, <2>1 DEF Insert
<1>9. CASE Select(r)
  <2> DEFINE d == [c EXCEPT !.step = "break", !.seen = semaphore[c.name]]
  <2>0. c.step = "select"
    BY <1>9 DEF Select, Calling
  <2>1. CASE Answer(r, TRUE)
    BY <1>0, <1>1, <1>3, <1>4, <2>0, <2>1, AnswerShrinks
  <2>2. CASE Goto(r, d)
    <3>1. d \in Call /\ d.step = "break" /\ d.kind = c.kind /\ d.polls = c.polls
      BY <1>1 DEF Call, Typed, TypeOK
    <3>2. Fits(d) /\ c.polls \in Nat /\ c.kind \in {"wait", "acquire"}
      BY <1>1, <3>1 DEF Fits, Call
    <3>3. /\ c.kind = "wait" => StatementsLeft(c) = 3 * c.polls + 2
          /\ c.kind = "acquire" => StatementsLeft(c) = 3
      BY <1>0, <1>1, <1>4, <2>0, LeftByStep
    <3>4. d = NoCall => StatementsLeft(d) = 0
      BY DEF StatementsLeft
    <3>5. d \in Below(c)
      <4> HIDE DEF d
      <4> QED
        BY <3>1, <3>2, <3>3, <3>4, LeftByStep DEF Below
    <3> QED
      BY <2>2, <3>5
  <2> QED
    BY <1>9, <2>1, <2>2 DEF Select
<1>10. CASE Break(r)
  <2>1. c.step = "break"
    BY <1>10 DEF Break, Calling
  <2>2. Answer(r, TRUE) \/ Answer(r, FALSE)
    BY <1>10 DEF Break
  <2> QED
    BY <1>0, <1>1, <1>3, <1>4, <2>1, <2>2, AnswerShrinks
<1>11. CASE WakeUp(r)
  <2> DEFINE d == [c EXCEPT !.step = "select", !.polls = @ - 1]
  <2>1. c.step = "sleep" /\ c.kind = "wait" /\ c.polls \in Nat /\ c.polls > 0
    BY <1>1, <1>3, <1>4, <1>11 DEF WakeUp, Calling, Fits, Call, Ready
  <2>2. c.polls - 1 \in Nat
    BY <2>1
  <2>3. /\ d \in Call /\ d.step = "select" /\ d.kind = "wait"
        /\ d.polls = c.polls - 1
    BY <1>1, <2>1, <2>2 DEF Call
  <2>4. Fits(d)
    BY <2>3 DEF Fits
  <2>5. StatementsLeft(c) = 3 * c.polls
    BY <1>0, <1>1, <1>4, <2>1, LeftByStep
  <2>6. d = NoCall => StatementsLeft(d) = 0
    BY DEF StatementsLeft
  <2>7. d \in Below(c)
    <3> HIDE DEF d
    <3> QED
      BY <2>1, <2>3, <2>4, <2>5, <2>6, LeftByStep DEF Below
  <2> QED
    BY <1>11, <2>7 DEF WakeUp
<1> QED
  BY <1>7, <1>8, <1>9, <1>10, <1>11 DEF Step

\* A call starts on the statements of its own function, and goes on along them.
LEMMA NextShrinks ==
  ASSUME Typed, Fitting, Next
  PROVE  /\ Fitting'
         /\ \A r \in Requests : call[r] # NoCall /\ call'[r] # call[r] =>
              StatementsLeft(call'[r]) < StatementsLeft(call[r])
<1> DEFINE Shrinks ==
      \A q \in Requests : call[q] # NoCall /\ call'[q] # call[q] =>
                            StatementsLeft(call'[q]) < StatementsLeft(call[q])
<1>0. call \in [Requests -> Call \cup {NoCall}]
  BY DEF Typed, TypeOK
<1>1. CASE UNCHANGED call
  BY <1>1 DEF Fitting
<1>2. ASSUME NEW r \in Requests, NEW d, Goto(r, d), d = NoCall \/ Fits(d),
             call[r] # NoCall => StatementsLeft(d) < StatementsLeft(call[r])
      PROVE  Fitting' /\ Shrinks
  <2>1. call'[r] = d /\ \A q \in Requests \ {r} : call'[q] = call[q]
    BY <1>0, <1>2 DEF Goto
  <2> QED
    BY <1>2, <2>1 DEF Fitting
<1>3. ASSUME NEW r \in Requests, Step(r) PROVE Fitting' /\ Shrinks
  BY <1>2, <1>3, StepShrinks DEF Below
<1>4. ASSUME NEW r \in Requests, Request(r) PROVE Fitting' /\ Shrinks
  <2>1. ASSUME NEW n \in Names, NEW t \in Timeouts, Acquire(r, n, t)
        PROVE  Fitting' /\ Shrinks
    <3> DEFINE d == [step |-> IF n \in locks[r] THEN "renew" ELSE "insert",
                     kind |-> "acquire", name |-> n,
                     expire |-> now + (IF t < MinTimeout THEN MinTimeout
                                                         ELSE t),
                     retry |-> FALSE, seen |-> NoRow, polls |-> 0]
    <3>1. call[r] = NoCall /\ Goto(r, d) /\ Fits(d)
      BY <2>1 DEF Acquire, Idle, Fits
    <3> QED
      BY <1>2, <3>1
  <2>2. ASSUME NEW n \in Names, NEW p \in 1..MaxPolls, Wait(r, n, p)
        PROVE  Fitting' /\ Shrinks
    <3> DEFINE d == [step |-> "sleep", kind |-> "wait", name |-> n,
                     expire |-> 0, retry |-> FALSE, seen |-> NoRow,
                     polls |-> p]
    <3>1. call[r] = NoCall /\ Goto(r, d) /\ Fits(d)
      BY <2>2 DEF Wait, Idle, Fits
    <3> QED
      BY <1>2, <3>1
  <2>3. ASSUME NEW n \in Names, Release(r, n) PROVE Fitting' /\ Shrinks
    BY <1>1, <2>3 DEF Release
  <2>4. CASE End(r) \/ Crash(r)
    <3>1. r \in active /\ Goto(r, NoCall)
      BY <2>4 DEF End, Crash, Return
    <3>2. call[r] # NoCall => call[r] \in Ready /\ Fits(call[r])
      BY <1>0, <3>1 DEF Typed, CallOK, Calling, Fitting, Ready
    <3>3. call[r] # NoCall => StatementsLeft(NoCall) < StatementsLeft(call[r])
      BY <3>2, NotDone DEF Below
    <3> QED
      BY <1>2, <3>1, <3>3
  <2> QED
    BY <1>4, <2>1, <2>2, <2>3, <2>4 DEF Request
<1>5. CASE Tick
  BY <1>1, <1>5 DEF Tick
<1> QED
  BY <1>3, <1>4, <1>5 DEF Next

\* No call of lock.inc can be kept going round by what others do to the row:
\* each statement leaves fewer for the rest, so that lock_acquire() makes at
\* most four and lock_wait() three for each poll.
THEOREM CallsEnd == Spec => CallsShrink
<1>1. Init => Fitting
  BY DEF Init, Fitting
<1>2. Typed /\ Fitting /\ [Next]_vars => Fitting'
  <2>1. UNCHANGED vars /\ Fitting => Fitting'
    BY DEF vars, Fitting
  <2> QED
    BY <2>1, NextShrinks
<1> DEFINE Shrinks ==
      \A r \in Requests : call[r] # NoCall /\ call'[r] # call[r] =>
                            StatementsLeft(call'[r]) < StatementsLeft(call[r])
<1>3. Typed /\ Fitting /\ [Next]_vars => [Shrinks]_vars
  BY NextShrinks
<1> QED
  BY <1>1, <1>2, <1>3, InitTyped, NextTyped, PTL DEF Spec, CallsShrink
=============================================================================
