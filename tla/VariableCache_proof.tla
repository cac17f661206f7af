------------------------ MODULE VariableCache_proof ------------------------
(***************************************************************************)
(* Proofs about the cached variables, for any number of requests, calls of *)
(* variable_set() and any lease.                                           *)
(***************************************************************************)
EXTENDS VariableCache, TLAPS

Rows == [value : Requests, expire : Nat] \cup {NoRow}

\* What TypeOK asks of everything but the requests.
Tables == /\ now \in Nat
          /\ semaphore \in [{"variable_init"} -> Rows]
          /\ active \subseteq Requests
          /\ table \in 0..MaxSets
          /\ cache \in [data : 0..table, late : BOOLEAN] \cup {NoRow}
          /\ cut \in BOOLEAN

LEMMA InitTyped == Init => TypeOK
<1> SUFFICES ASSUME Init PROVE TypeOK
  OBVIOUS
<1>1. /\ now = 0 /\ active = Requests
      /\ semaphore = [n \in {"variable_init"} |-> NoRow]
  BY DEF Init, Lock!Init
<1>2. table = 0 /\ table \in 0..MaxSets /\ cut = FALSE
  BY VariableAssumption DEF Init
<1>3. Start \in Request /\ Start.variables <= table
  BY <1>2 DEF Start, Request
<1> QED
  BY <1>1, <1>2, <1>3 DEF Init, TypeOK

\* The lock operations of LeaseLock keep the lock row well typed.
LEMMA LockTyped ==
  ASSUME TypeOK, NEW r \in Requests,
         \/ Lock!Grant(r, "variable_init") \/ Lock!Expire("variable_init")
         \/ Lock!GiveUp(r, Owned(r)) \/ Lock!Die(r) \/ Lock!Pass
  PROVE  /\ semaphore' \in [{"variable_init"} -> Rows]
         /\ active' \subseteq active
         /\ now' \in Nat
<1> USE DEF TypeOK, Rows
<1>1. CASE Lock!Grant(r, "variable_init")
  <2>1. semaphore'["variable_init"] \in Rows
    BY <1>1 DEF Lock!Grant
  <2> QED
    BY <1>1, <2>1 DEF Lock!Grant
<1>2. CASE Lock!Expire("variable_init")
  BY <1>2 DEF Lock!Expire
<1>3. CASE Lock!GiveUp(r, Owned(r))
  BY <1>3 DEF Lock!GiveUp
<1>4. CASE Lock!Die(r) \/ Lock!Pass
  BY <1>4 DEF Lock!Die, Lock!Pass
<1> QED
  BY <1>1, <1>2, <1>3, <1>4

\* A step that moves one request on, and leaves the table alone.
LEMMA GotoTyped ==
  ASSUME TypeOK, NEW r \in Requests, NEW c \in Request, c.variables <= table',
         Goto(r, c), Tables', table <= table'
  PROVE  TypeOK'
<1>1. ASSUME NEW q \in Requests PROVE req'[q].variables <= table'
  <2>1. CASE q = r
    BY <2>1 DEF Goto, TypeOK
  <2>2. CASE q # r
    <3>1. req'[q] = req[q] /\ req[q].variables <= table
      BY <2>2 DEF Goto, TypeOK
    <3>2. req[q].variables \in Nat /\ table \in Nat /\ table' \in Nat
      BY DEF TypeOK, Request, Tables
    <3> QED
      BY <3>1, <3>2
  <2> QED
    BY <2>1, <2>2
<1> QED
  BY <1>1 DEF Goto, TypeOK, Tables, Rows

\* The statements of lock_acquire(), and lock_wait(), move the request on and
\* touch nothing but the row of the lock.
LockCall(r) == \/ LockAcquire(r) \/ LockGranted(r) \/ LockTaken(r)
               \/ LockLooked(r) \/ LockBroken(r) \/ LockRefused(r)
               \/ Wait(r) \/ WaitBreaks(r)

LockMove(r, d) ==
    /\ Goto(r, d)
    /\ d.variables \in {0, req[r].variables}
    /\ d.step \in {"insert", "look", "break", "again", "wait", "get", "read"}
    /\ d.step = "read" => LockGranted(r)

LEMMA LockCallMoves ==
  ASSUME TypeOK, NEW r \in Requests, LockCall(r)
  PROVE  /\ \E d \in Request : LockMove(r, d)
         /\ req[r].step # "clear"
         /\ UNCHANGED <<now, active, table, cache, cut>>
         /\ semaphore' \in [{"variable_init"} -> Rows]
<1> DEFINE c == req[r]
<1>0. /\ c \in Request /\ now + LeaseTime \in Nat
      /\ semaphore["variable_init"] \in Rows
      /\ semaphore \in [{"variable_init"} -> Rows]
  BY VariableAssumption DEF TypeOK, Rows
<1>1. CASE LockAcquire(r)
  <2> DEFINE d == [c EXCEPT !.step = "insert", !.lease = now + LeaseTime]
  <2>1. d \in Request /\ d.step = "insert" /\ d.variables = c.variables
    BY <1>0 DEF Request
  <2> QED
    BY <1>0, <1>1, <2>1 DEF LockAcquire, LockMove, At
<1>2. CASE LockGranted(r)
  <2> DEFINE d == [c EXCEPT !.step = "read"]
  <2>1. /\ d \in Request /\ d.variables = c.variables /\ d.step = "read"
        /\ Goto(r, d) /\ c.step # "clear"
    BY <1>0, <1>2 DEF Request, LockGranted, At
  <2>2. UNCHANGED <<now, active, table, cache, cut>>
    BY <1>2 DEF LockGranted, Lock!Grant
  <2> QED
    BY <1>2, <2>1, <2>2, LockTyped DEF LockGranted, LockMove
<1>3. CASE LockTaken(r)
  <2> DEFINE d == [c EXCEPT !.step = "look"]
  <2>1. d \in Request /\ d.step = "look" /\ d.variables = c.variables
    BY <1>0 DEF Request
  <2> QED
    BY <1>0, <1>3, <2>1 DEF LockTaken, LockMove, At
<1>4. CASE LockLooked(r)
  <2>1. PICK step \in {"again", "break"} :
          Goto(r, [c EXCEPT !.step = step, !.seen = semaphore["variable_init"]])
    BY <1>4 DEF LockLooked
  <2> DEFINE d == [c EXCEPT !.step = step, !.seen = semaphore["variable_init"]]
  <2>2. d \in Request /\ d.step = step /\ d.variables = c.variables
    BY <1>0 DEF Request, Rows
  <2> QED
    BY <1>0, <1>4, <2>1, <2>2 DEF LockLooked, LockMove, At
<1>5. CASE LockBroken(r)
  <2> DEFINE d == [c EXCEPT !.step = "again", !.seen = NoRow]
  <2>1. /\ d \in Request /\ d.step = "again" /\ d.variables = c.variables
        /\ Goto(r, d) /\ c.step # "clear"
    BY <1>0, <1>5 DEF Request, LockBroken, At
  <2>2. UNCHANGED <<now, active, table, cache, cut>>
    BY <1>5 DEF LockBroken, Lock!Expire
  <2> QED
    BY <1>5, <2>1, <2>2, LockTyped DEF LockBroken, LockMove
<1>6. CASE LockRefused(r)
  <2> DEFINE d == [Start EXCEPT !.step = "wait"]
  <2>1. d \in Request /\ d.step = "wait" /\ d.variables = 0
    BY DEF Request, Start
  <2> QED
    BY <1>0, <1>6, <2>1 DEF LockRefused, Refused, LockMove, At
<1>7. CASE Wait(r) \/ WaitBreaks(r)
  <2>1. Start \in Request /\ Start.step = "get" /\ Start.variables = 0
    BY DEF Request, Start
  <2>2. UNCHANGED <<now, active, table, cache, cut>> /\ Goto(r, Start)
        /\ c.step # "clear"
    BY <1>7 DEF Wait, WaitBreaks, Lock!Expire, At
  <2>3. semaphore' \in [{"variable_init"} -> Rows]
    BY <1>0, <1>7, LockTyped DEF Wait, WaitBreaks
  <2> QED
    BY <2>1, <2>2, <2>3 DEF LockMove
<1> QED
  BY <1>1, <1>2, <1>3, <1>4, <1>5, <1>6, <1>7 DEF LockCall

LEMMA NextTyped == TypeOK /\ [Next]_vars => TypeOK'
<1> SUFFICES ASSUME TypeOK, [Next]_vars PROVE TypeOK'
  OBVIOUS
<1>0. Tables /\ table \in Nat
  BY DEF TypeOK, Tables, Rows
<1>1. CASE UNCHANGED vars
  BY <1>1 DEF vars, TypeOK
<1>2. CASE Tick
  BY <1>2 DEF Tick, Lock!Pass, TypeOK
<1>3. ASSUME NEW r \in Requests, Step(r) \/ Merge(r) \/ Abort(r) \/ Kill(r)
      PROVE  TypeOK'
  <2> DEFINE c == req[r]
  <2>0. /\ c \in Request /\ c.variables \in Nat /\ c.variables <= table
        /\ now + LeaseTime \in Nat
    BY <1>0, VariableAssumption DEF TypeOK, Tables, Request
  <2>1. CASE Get(r) /\ cache = NoRow
    <3> DEFINE d == [c EXCEPT !.step = "acquire"]
    <3>1. d \in Request /\ d.variables = c.variables
      BY <2>0 DEF Request
    <3>2. Goto(r, d)
      BY <2>1 DEF Get
    <3>3. Tables' /\ table' = table
      BY <1>0, <2>1 DEF Get, Tables
    <3>4. d.variables <= table' /\ table <= table'
      BY <1>0, <2>0, <3>1, <3>3
    <3> QED
      BY <3>1, <3>2, <3>3, <3>4, GotoTyped
  <2>2. CASE Get(r) /\ cache # NoRow
    <3> DEFINE d == [c EXCEPT !.step = "ready", !.variables = cache.data]
    <3>0. cache.data \in 0..table
      BY <1>0, <2>2 DEF Tables
    <3>1. cache.data \in Nat /\ cache.data <= table
      BY <1>0, <3>0
    <3>2. d \in Request /\ d.variables = cache.data
      BY <2>0, <3>1 DEF Request
    <3>3. Goto(r, d)
      BY <2>2 DEF Get
    <3>4. Tables' /\ table' = table
      BY <1>0, <2>2 DEF Get, Tables
    <3>5. d.variables <= table' /\ table <= table'
      BY <1>0, <3>1, <3>2, <3>4
    <3> QED
      BY <3>2, <3>3, <3>4, <3>5, GotoTyped
  <2>3. CASE LockCall(r)
    <3>1. PICK d \in Request : LockMove(r, d)
      BY <2>3, LockCallMoves
    <3>2. /\ UNCHANGED <<now, active, table, cache, cut>>
          /\ semaphore' \in [{"variable_init"} -> Rows]
      BY <2>3, LockCallMoves
    <3>3. Tables'
      BY <1>0, <3>2 DEF Tables
    <3>4. d.variables <= table' /\ table <= table'
      BY <1>0, <2>0, <3>1, <3>2 DEF LockMove
    <3> QED
      BY <3>1, <3>3, <3>4, GotoTyped DEF LockMove
  <2>6. Start \in Request /\ Start.variables <= table
    BY <1>0 DEF Start, Request
  <2>8. CASE Read(r)
    <3> DEFINE d == [c EXCEPT !.step = "store", !.variables = table]
    <3>1. d \in Request /\ d.variables = table
      BY <1>0, <2>0 DEF Request
    <3>2. Goto(r, d)
      BY <2>8 DEF Read
    <3>3. Tables' /\ table' = table
      BY <1>0, <2>0, <2>8 DEF Read, Tables
    <3>4. d.variables <= table' /\ table <= table'
      BY <1>0, <2>0, <3>1, <3>3
    <3> QED
      BY <3>1, <3>2, <3>3, <3>4, GotoTyped
  <2>9. CASE Store(r)
    <3> DEFINE d == [c EXCEPT !.step = "unlock", !.late = FALSE]
    <3>1. d \in Request /\ d.variables = c.variables
      BY <1>0, <2>0 DEF Request
    <3>2. Goto(r, d)
      BY <2>9 DEF Store
    <3>3. [data |-> c.variables, late |-> c.late]
            \in [data : 0..table, late : BOOLEAN]
      BY <1>0, <2>0 DEF Request
    <3>4. Tables' /\ table' = table
      BY <1>0, <2>9, <3>3 DEF Store, Tables
    <3>5. d.variables <= table' /\ table <= table'
      BY <1>0, <2>0, <3>1, <3>4
    <3> QED
      BY <3>1, <3>2, <3>4, <3>5, GotoTyped
  <2>10. CASE Unlock(r)
    <3> DEFINE d == [c EXCEPT !.step = "ready", !.lease = 0]
    <3>1. d \in Request /\ d.variables = c.variables
      BY <1>0, <2>0 DEF Request
    <3>2. Goto(r, d)
      BY <2>10 DEF Unlock
    <3>3. Tables' /\ table' = table
      BY <1>0, <2>0, <2>10, LockTyped DEF Unlock, Tables
    <3>4. d.variables <= table' /\ table <= table'
      BY <1>0, <2>0, <3>1, <3>3
    <3> QED
      BY <3>1, <3>2, <3>3, <3>4, GotoTyped
  <2>11. CASE Merge(r)
    <3> DEFINE d == [c EXCEPT !.step = "clear"]
    <3>1. d \in Request /\ d.variables = c.variables
      BY <2>0 DEF Request
    <3>2. Goto(r, d)
      BY <2>11 DEF Merge
    <3>3. table' = table + 1 /\ table' \in 0..MaxSets
      BY <1>0, <2>11, VariableAssumption DEF Merge, Tables
    <3>4. 0..table \subseteq 0..table'
      BY <1>0, <3>3
    <3>5. Tables'
      BY <1>0, <2>11, <3>3, <3>4 DEF Merge, Tables
    <3>6. c.variables <= table' /\ table <= table'
      BY <1>0, <2>0, <3>3
    <3> QED
      BY <3>1, <3>2, <3>5, <3>6, GotoTyped
  <2>12. CASE Clear(r)
    <3>1. ASSUME NEW q \in Requests
          PROVE  req'[q] \in Request /\ req'[q].variables = req[q].variables
      <4>1. req[q] \in Request
        BY DEF TypeOK
      <4>2. req'[q] \in {[req[q] EXCEPT !.step = "ready"],
                         [req[q] EXCEPT !.late = TRUE], req[q]}
        BY <2>12 DEF Clear
      <4> QED
        BY <4>1, <4>2 DEF Request
    <3>2. req' \in [Requests -> Request]
      BY <2>12, <3>1 DEF Clear
    <3> QED
      BY <2>12, <3>1, <3>2 DEF Clear, TypeOK
  <2>13. CASE End(r) \/ Abort(r) \/ Kill(r)
    <3>1. Tables' /\ table' = table
      BY <1>0, <2>13, LockTyped DEF End, Abort, Kill, Leave, Tables
    <3> QED
      BY <1>0, <2>6, <2>13, <3>1, GotoTyped DEF End, Abort, Kill, Leave
  <2> QED
    BY <1>3, <2>1, <2>2, <2>3, <2>8, <2>9, <2>10, <2>11, <2>12, <2>13
       DEF Step, LockCall
<1> QED
  BY <1>1, <1>2, <1>3 DEF Next

\* The variables of the variable cache keep their types; no request has seen
\* more changes than were made.
THEOREM TypeCorrect == Spec => []TypeOK
  BY InitTyped, NextTyped, PTL DEF Spec

-----------------------------------------------------------------------------
\* Why no two requests rebuild the row at once: the lease of each is in the
\* lock table, which has one row for the lock.
Backed ==
    \A r \in Requests :
        Rebuilding(r) => semaphore["variable_init"]
                           = [value |-> r, expire |-> req[r].lease]

LEMMA InitBacked == Init => Backed
  BY DEF Init, Start, Backed, Rebuilding, At

LEMMA BackedExcludes == Backed => NoStampede
<1> SUFFICES ASSUME Backed, NEW r1 \in Requests, NEW r2 \in Requests,
                    Rebuilding(r1), Rebuilding(r2)
             PROVE  r1 = r2
  BY DEF NoStampede
<1>1. [value |-> r1, expire |-> req[r1].lease]
        = [value |-> r2, expire |-> req[r2].lease]
  BY DEF Backed
<1> QED
  BY <1>1

\* A request that rebuilds the row after a step did so before, or it was
\* granted the lock by that step; and the row of the lock is still its own.
LEMMA NextBacked == TypeOK /\ Backed /\ [Next]_vars => Backed'
<1> SUFFICES ASSUME TypeOK, Backed, [Next]_vars, NEW q \in Requests,
                    Rebuilding(q)'
             PROVE  semaphore'["variable_init"]
                      = [value |-> q, expire |-> req'[q].lease]
  BY DEF Backed
<1>0. Rebuilding(q) => semaphore["variable_init"]
                         = [value |-> q, expire |-> req[q].lease]
  BY DEF Backed
<1>1. CASE UNCHANGED vars
  BY <1>0, <1>1 DEF vars, Rebuilding, At
<1>2. CASE Tick
  <2>1. now' = now + 1 /\ UNCHANGED <<semaphore, active, req>> /\ now \in Nat
    BY <1>2 DEF Tick, Lock!Pass, TypeOK
  <2>2. req[q].lease \in Nat
    BY DEF TypeOK, Request
  <2> QED
    BY <1>0, <2>1, <2>2 DEF Rebuilding, At
<1>3. ASSUME NEW r \in Requests, Step(r) \/ Merge(r) \/ Abort(r) \/ Kill(r)
      PROVE  semaphore'["variable_init"]
               = [value |-> q, expire |-> req'[q].lease]
  <2>1. CASE Get(r) \/ LockAcquire(r) \/ LockTaken(r) \/ LockLooked(r)
             \/ LockRefused(r) \/ Wait(r) \/ Read(r) \/ Store(r) \/ Merge(r)
    <3>1. UNCHANGED <<now, semaphore, active>>
      BY <2>1 DEF Get, LockAcquire, LockTaken, LockLooked, LockRefused, Wait,
                  Read, Store, Merge
    <3>2. CASE q = r
      <4>1. req[r] \in Request
        BY DEF TypeOK
      <4>2. \/ req[r].step \in {"read", "store"} /\ r \in active
              /\ req'[r].lease = req[r].lease
            \/ req'[r].step \notin {"read", "store", "unlock"}
        <5>1. CASE Get(r)
          BY <4>1, <5>1 DEF Get, Goto, TypeOK, Request
        <5>2. CASE Merge(r)
          BY <4>1, <5>2 DEF Merge, Goto, TypeOK, Request
        <5>3. CASE LockAcquire(r) \/ LockTaken(r) \/ LockLooked(r)
                   \/ LockRefused(r) \/ Wait(r)
          <6>1. PICK d \in Request : LockMove(r, d)
            BY <5>3, LockCallMoves DEF LockCall
          <6>2. ~LockGranted(r)
            <7> SUFFICES ASSUME LockGranted(r) PROVE FALSE
              OBVIOUS
            <7>1. /\ semaphore["variable_init"] = NoRow
                  /\ semaphore'["variable_init"]
                       = [value |-> r, expire |-> req[r].lease]
              BY DEF LockGranted, Lock!Grant, TypeOK
            <7>2. semaphore'["variable_init"] \in [value : Requests, expire : Nat]
              BY <4>1, <7>1 DEF Request
            <7> QED
              BY <3>1, <7>1, <7>2, VariableAssumption
          <6>3. req'[r] = d
            BY <6>1 DEF LockMove, Goto, TypeOK
          <6> QED
            BY <6>1, <6>2, <6>3 DEF LockMove
        <5>4. CASE Read(r)
          BY <4>1, <5>4 DEF Read, At, Goto, TypeOK, Request
        <5>5. CASE Store(r)
          BY <4>1, <5>5 DEF Store, At, Goto, TypeOK, Request
        <5> QED
          BY <2>1, <5>1, <5>2, <5>3, <5>4, <5>5
      <4> QED
        BY <1>0, <3>1, <3>2, <4>2 DEF Rebuilding, At
    <3>3. CASE q # r
      <4>1. req'[q] = req[q]
        BY <2>1, <3>3 DEF Get, LockAcquire, LockTaken, LockLooked, LockRefused,
                          Wait, Read, Store, Merge, Goto, TypeOK
      <4> QED
        BY <1>0, <3>1, <4>1 DEF Rebuilding, At
    <3> QED
      BY <3>2, <3>3
  <2>2. CASE LockGranted(r)
    <3>1. /\ semaphore["variable_init"] = NoRow /\ UNCHANGED <<now, active>>
          /\ semaphore'["variable_init"]
               = [value |-> r, expire |-> req[r].lease]
          /\ req' = [req EXCEPT ![r] = [req[r] EXCEPT !.step = "read"]]
      BY <2>2 DEF LockGranted, Lock!Grant, Goto, TypeOK
    <3>2. CASE q = r
      BY <3>1, <3>2 DEF TypeOK, Request
    <3>3. CASE q # r
      <4>1. Rebuilding(q) /\ req[q].lease \in Nat
        BY <3>1, <3>3 DEF Rebuilding, At, TypeOK, Request
      <4>2. semaphore["variable_init"] \in [value : Requests, expire : Nat]
        BY <1>0, <4>1
      <4> QED
        BY <3>1, <4>2, VariableAssumption
    <3> QED
      BY <3>2, <3>3
  <2>3. CASE LockBroken(r) \/ WaitBreaks(r)
    <3>1. /\ semaphore["variable_init"].expire < now + 0
          /\ UNCHANGED <<now, active>>
      BY <2>3 DEF LockBroken, WaitBreaks, Lock!Expire
    <3>2. q # r /\ req'[q] = req[q]
      <4> SUFFICES ASSUME Rebuilding(q)' PROVE q # r /\ req'[q] = req[q]
        BY <1>0
      <4>1. ASSUME q = r PROVE FALSE
        <5>1. req[r] \in Request /\ r \in DOMAIN req
          BY DEF TypeOK
        <5>2. CASE LockBroken(r)
          <6>1. req'[r].step = "again"
            BY <5>1, <5>2 DEF LockBroken, Goto, Request
          <6> QED
            BY <4>1, <6>1 DEF Rebuilding, At
        <5>3. CASE WaitBreaks(r)
          <6>1. req'[r].step = "get"
            BY <5>1, <5>3 DEF WaitBreaks, Start, Goto, Request
          <6> QED
            BY <4>1, <6>1 DEF Rebuilding, At
        <5> QED
          BY <2>3, <5>2, <5>3
      <4>2. req'[q] = req[q]
        <5>1. CASE LockBroken(r)
          BY <4>1, <5>1 DEF LockBroken, Goto, TypeOK
        <5>2. CASE WaitBreaks(r)
          BY <4>1, <5>2 DEF WaitBreaks, Goto, Start, TypeOK
        <5> QED
          BY <2>3, <5>1, <5>2
      <4> QED
        BY <4>1, <4>2
    <3>3. Rebuilding(q) /\ now <= req[q].lease
      BY <3>1, <3>2 DEF Rebuilding, At
    <3>4. req[q].lease \in Nat /\ now \in Nat
      BY DEF TypeOK, Request
    <3>5. semaphore["variable_init"].expire = req[q].lease
      BY <1>0, <3>3
    <3> QED
      BY <3>1, <3>3, <3>4, <3>5
  <2>4. CASE Clear(r)
    <3>1. UNCHANGED <<now, semaphore, active>>
      BY <2>4 DEF Clear
    <3>2. req'[q].lease = req[q].lease /\ (q # r => req'[q].step = req[q].step)
          /\ (q = r => req'[q].step = "ready")
      BY <2>4 DEF Clear, TypeOK, Request
    <3> QED
      BY <1>0, <3>1, <3>2 DEF Rebuilding, At
  <2>5. CASE Unlock(r) \/ End(r) \/ Abort(r) \/ Kill(r)
    <3>1. /\ now' = now /\ active' \subseteq active
          /\ semaphore' \in {semaphore,
                              [n \in {"variable_init"} |->
                                 IF n \in Owned(r) THEN NoRow ELSE semaphore[n]]}
      BY <2>5 DEF Unlock, End, Abort, Kill, Lock!GiveUp, Lock!Die, Leave
    <3>2. req'[r].step \in {"ready", "get"} /\ (q # r => req'[q] = req[q])
      <4>1. CASE Unlock(r)
        BY <4>1 DEF Unlock, Goto, TypeOK, Request
      <4>2. CASE End(r) \/ Abort(r) \/ Kill(r)
        BY <4>2 DEF End, Abort, Kill, Leave, Goto, Start, TypeOK
      <4> QED
        BY <2>5, <4>1, <4>2
    <3>3. q # r /\ Rebuilding(q) /\ req'[q] = req[q]
      BY <3>1, <3>2 DEF Rebuilding, At
    <3>4. semaphore["variable_init"].value = q
      BY <1>0, <3>3
    <3>5. "variable_init" \notin Owned(r)
      BY <3>3, <3>4 DEF Owned
    <3> QED
      BY <1>0, <3>1, <3>3, <3>5
  <2> QED
    BY <1>3, <2>1, <2>2, <2>3, <2>4, <2>5 DEF Step
<1> QED
  BY <1>1, <1>2, <1>3 DEF Next

\* No two requests rebuild the variables within their leases of the lock.
THEOREM StampedeAvoided == Spec => []NoStampede
  BY InitTyped, NextTyped, InitBacked, NextBacked, BackedExcludes, PTL DEF Spec

-----------------------------------------------------------------------------
\* Somebody is, or died, between the two statements of variable_set().
Half == cut \/ \E r \in Requests : At(r, "clear")

\* What a request is about to store is stale for the same reasons as a row.
ReadStaleOnlyByRace ==
    \A r \in Requests :
        (At(r, "store") /\ req[r].variables # table) => req[r].late \/ Half

RaceInv == StaleOnlyByRace /\ ReadStaleOnlyByRace

LEMMA InitRace == Init => RaceInv
  BY DEF Init, Start, RaceInv, StaleOnlyByRace, ReadStaleOnlyByRace, At

LEMMA NextRace == TypeOK /\ RaceInv /\ [Next]_vars => RaceInv'
<1> SUFFICES ASSUME TypeOK, RaceInv, [Next]_vars PROVE RaceInv'
  OBVIOUS
<1> USE DEF RaceInv, StaleOnlyByRace, ReadStaleOnlyByRace, Half, At
<1>1. CASE UNCHANGED vars
  BY <1>1 DEF vars
<1>2. CASE Tick
  BY <1>2 DEF Tick, Lock!Pass
<1>3. ASSUME NEW r \in Requests, Step(r) \/ Merge(r) \/ Abort(r) \/ Kill(r)
      PROVE  RaceInv'
  <2>2. CASE Merge(r)
    <3>1. r \in active' /\ req'[r].step = "clear"
      BY <2>2 DEF Merge, Goto, TypeOK, Request
    <3> QED
      BY <3>1
  <2>3. CASE Clear(r)
    <3>1. cache' = NoRow /\ UNCHANGED <<active, table>>
      BY <2>3 DEF Clear
    <3>2. ASSUME NEW q \in Requests, At(q, "store")' PROVE req'[q].late
      <4>1. q # r
        BY <2>3, <3>2 DEF Clear, TypeOK, Request
      <4>2. At(q, "store")
        BY <2>3, <3>1, <3>2, <4>1 DEF Clear, TypeOK, Request
      <4> QED
        BY <2>3, <4>1, <4>2 DEF Clear, TypeOK, Request
    <3> QED
      BY <3>1, <3>2
  <2>4. CASE Read(r)
    BY <2>4 DEF Read, Goto, TypeOK, Request
  <2>5. CASE Store(r)
    BY <2>5 DEF Store, Goto, TypeOK, Request
  <2>6. CASE Get(r) \/ LockCall(r) \/ Unlock(r)
    <3>1. UNCHANGED <<active, table, cache, cut>>
      BY <2>6, LockCallMoves DEF Get, Unlock
    <3>2. /\ req[r].step # "clear" /\ req'[r].step # "store"
          /\ \A q \in Requests \ {r} : req'[q] = req[q]
      <4>0. req[r] \in Request
        BY DEF TypeOK
      <4>1. CASE Get(r)
        BY <4>0, <4>1 DEF Get, Goto, TypeOK, Request
      <4>2. CASE LockCall(r)
        <5>1. PICK d \in Request : LockMove(r, d)
          BY <4>2, LockCallMoves
        <5>2. req[r].step # "clear"
          BY <4>2, LockCallMoves
        <5> QED
          BY <5>1, <5>2 DEF LockMove, Goto, TypeOK
      <4>3. CASE Unlock(r)
        BY <4>0, <4>3 DEF Unlock, Goto, TypeOK, Request
      <4> QED
        BY <2>6, <4>1, <4>2, <4>3
    <3> QED
      BY <3>1, <3>2
  <2>7. CASE End(r) \/ Abort(r) \/ Kill(r)
    <3>1. /\ active' = active \ {r} /\ UNCHANGED <<table, cache>>
          /\ cut' = (cut \/ At(r, "clear"))
          /\ \A q \in Requests \ {r} : req'[q] = req[q]
      BY <2>7 DEF End, Abort, Kill, Leave, Goto, TypeOK
    <3> QED
      BY <3>1
  <2> QED
    BY <1>3, <2>2, <2>3, <2>4, <2>5, <2>6, <2>7 DEF Step, LockCall
<1> QED
  BY <1>1, <1>2, <1>3 DEF Next

\* A row of the cache is stale only through one of the three races.
THEOREM StaleExplained == Spec => []StaleOnlyByRace
<1>1. RaceInv => StaleOnlyByRace
  BY DEF RaceInv
<1> QED
  BY <1>1, InitTyped, NextTyped, InitRace, NextRace, PTL DEF Spec
=============================================================================
