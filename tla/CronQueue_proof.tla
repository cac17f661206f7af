-------------------------- MODULE CronQueue_proof --------------------------
(***************************************************************************)
(* Proofs about the cron queue, for any number of runs and items, any      *)
(* lease times and any clock.                                              *)
(***************************************************************************)
EXTENDS CronQueue, TLAPS

USE QueueAssumption

Typed == TypeOK /\ RunOK

\* What RunOK asks of the locals c of one run, at time t, when the items 1..k
\* have been created and those of S are done.
Good(c, t, k, S) ==
    /\ c.request <= t
    /\ c.step \in {"update", "work", "delete"} => c.item \in 1..k
    /\ c.step \in {"work", "delete"} => c.lease > 0
    /\ c.step = "delete" => c.item \in S

\* What TypeOK asks of everything but the runs.
Tables == /\ now \in Nat
          /\ semaphore \in [{"cron"} -> [value : Runs, expire : Nat] \cup {NoRow}]
          /\ active \subseteq Runs
          /\ created \in 0..MaxItems
          /\ DOMAIN queue \subseteq 1..created
          /\ queue \in [DOMAIN queue -> Nat]
          /\ done \subseteq 1..created

LEMMA InitTyped == Init => Typed
  BY DEF Init, Idle, Lock!Init, Typed, TypeOK, RunOK, Run

\* A step that moves one run on keeps what is known of the others.
LEMMA GotoTyped ==
  ASSUME Typed, NEW r \in Runs, NEW c \in Run, Goto(r, c), Tables', Good(c, now', created', done'),
         now <= now', created <= created', done \subseteq done'
  PROVE  Typed'
<1>1. /\ run' \in [Runs -> Run]
      /\ run'[r] = c
      /\ \A q \in Runs \ {r} : run'[q] = run[q]
  BY DEF Goto, Typed, TypeOK
<1>2. TypeOK'
  BY <1>1 DEF Tables, TypeOK
<1>3. ASSUME NEW q \in Runs PROVE Good(run'[q], now', created', done')
  <2>1. CASE q = r
    BY <1>1, <2>1 DEF Good
  <2>2. CASE q # r
    <3>1. run'[q] = run[q] /\ run[q] \in Run /\ Good(run[q], now, created, done)
      BY <1>1, <2>2 DEF Typed, TypeOK, RunOK, Good
    <3>2. run[q].request \in Nat /\ now \in Nat /\ now' \in Nat
      BY <3>1 DEF Run, Typed, TypeOK, Tables
    <3>3. created \in Nat /\ created' \in Nat
      BY DEF Typed, TypeOK, Tables
    <3> QED
      BY <3>1, <3>2, <3>3 DEF Good
  <2> QED
    BY <2>1, <2>2
<1>4. RunOK'
  BY <1>3 DEF RunOK, Good
<1> QED
  BY <1>2, <1>4 DEF Typed

\* The lock operations of LeaseLock keep the lock row well typed.
LEMMA LockTyped ==
  ASSUME TypeOK, NEW r \in Runs,
         \/ Lock!Grant(r, "cron") \/ Lock!Expire("cron")
         \/ \E S \in SUBSET {"cron"} : Lock!GiveUp(r, S)
         \/ Lock!Die(r) \/ Lock!Pass
  PROVE  /\ semaphore' \in [{"cron"} -> [value : Runs, expire : Nat] \cup {NoRow}]
         /\ active' \subseteq active
         /\ now' \in Nat /\ now <= now'
<1> USE DEF TypeOK
<1>1. CASE Lock!Grant(r, "cron")
  <2>1. semaphore'["cron"] \in [value : Runs, expire : Nat]
    BY <1>1 DEF Lock!Grant
  <2> QED
    BY <1>1, <2>1 DEF Lock!Grant
<1>2. CASE Lock!Expire("cron")
  BY <1>2 DEF Lock!Expire
<1>3. ASSUME NEW S \in SUBSET {"cron"}, Lock!GiveUp(r, S)
      PROVE  /\ semaphore' \in [{"cron"} -> [value : Runs, expire : Nat] \cup {NoRow}]
             /\ active' \subseteq active
             /\ now' \in Nat /\ now <= now'
  BY <1>3 DEF Lock!GiveUp
<1>4. CASE Lock!Die(r) \/ Lock!Pass
  BY <1>4 DEF Lock!Die, Lock!Pass
<1> QED
  BY <1>1, <1>2, <1>3, <1>4

\* The statements of lock_acquire() move the run on, up to its hooks or past
\* them, and touch nothing but the row of the lock.
LockCall(r) == \/ LockAcquire(r) \/ LockGranted(r) \/ LockTaken(r)
               \/ LockLooked(r) \/ LockBroken(r) \/ LockRefused(r)

LockMove(r, d) ==
    /\ Goto(r, d)
    /\ d.request \in {0, run[r].request}
    /\ d.step \in {"insert", "look", "break", "again", "queue", "hooks"}
    /\ d.step = "hooks" => LockGranted(r)

LEMMA LockCallMoves ==
  ASSUME TypeOK, NEW r \in Runs, LockCall(r)
  PROVE  /\ \E d \in Run : LockMove(r, d)
         /\ UNCHANGED <<now, active, queue, created, done>>
         /\ semaphore' \in [{"cron"} -> [value : Runs, expire : Nat] \cup {NoRow}]
<1> DEFINE c == run[r]
<1>0. /\ c \in Run /\ now + CronTime \in Nat /\ now + QueueTime \in Nat
      /\ semaphore["cron"] \in [value : Runs, expire : Nat] \cup {NoRow}
  BY DEF TypeOK
<1>1. CASE LockAcquire(r)
  <2> DEFINE d == [c EXCEPT !.step = "insert", !.lock = now + CronTime]
  <2>1. d \in Run /\ d.step = "insert" /\ d.request = c.request
    BY <1>0 DEF Run
  <2> QED
    BY <1>1, <2>1 DEF LockAcquire, LockMove, TypeOK
<1>2. CASE LockGranted(r)
  <2> DEFINE d == [c EXCEPT !.step = "hooks"]
  <2>1. d \in Run /\ d.request = c.request /\ d.step = "hooks" /\ Goto(r, d)
    BY <1>0, <1>2 DEF Run, LockGranted
  <2>2. UNCHANGED <<now, active, queue, created, done>>
    BY <1>2 DEF LockGranted, Lock!Grant
  <2> QED
    BY <1>2, <2>1, <2>2, LockTyped DEF LockGranted, LockMove
<1>3. CASE LockTaken(r)
  <2> DEFINE d == [c EXCEPT !.step = "look"]
  <2>1. d \in Run /\ d.step = "look" /\ d.request = c.request
    BY <1>0 DEF Run
  <2> QED
    BY <1>3, <2>1 DEF LockTaken, LockMove, TypeOK
<1>4. CASE LockLooked(r)
  <2>1. PICK step \in {"again", "break"} :
          Goto(r, [c EXCEPT !.step = step, !.seen = semaphore["cron"]])
    BY <1>4 DEF LockLooked
  <2> DEFINE d == [c EXCEPT !.step = step, !.seen = semaphore["cron"]]
  <2>2. d \in Run /\ d.step = step /\ d.request = c.request
    BY <1>0 DEF Run
  <2> QED
    BY <1>4, <2>1, <2>2 DEF LockLooked, LockMove, TypeOK
<1>5. CASE LockBroken(r)
  <2> DEFINE d == [c EXCEPT !.step = "again", !.seen = NoRow]
  <2>1. d \in Run /\ d.step = "again" /\ d.request = c.request /\ Goto(r, d)
    BY <1>0, <1>5 DEF Run, LockBroken
  <2>2. UNCHANGED <<now, active, queue, created, done>>
    BY <1>5 DEF LockBroken, Lock!Expire
  <2> QED
    BY <1>5, <2>1, <2>2, LockTyped DEF LockBroken, LockMove
<1>6. CASE LockRefused(r)
  <2> DEFINE d == [c EXCEPT !.step = "queue", !.request = 0, !.lock = 0,
                            !.seen = NoRow, !.end = now + QueueTime]
  <2>1. d \in Run /\ d.step = "queue" /\ d.request = 0
    BY <1>0 DEF Run
  <2> QED
    BY <1>6, <2>1 DEF LockRefused, LockMove, TypeOK
<1> QED
  BY <1>1, <1>2, <1>3, <1>4, <1>5, <1>6 DEF LockCall

LEMMA NextTyped == Typed /\ [Next]_vars => Typed'
<1> SUFFICES ASSUME Typed, [Next]_vars PROVE Typed'
  OBVIOUS
<1>0. TypeOK /\ RunOK /\ Tables
  BY DEF Typed, TypeOK, Tables
<1>1. CASE UNCHANGED vars
  BY <1>0, <1>1 DEF vars, Typed, TypeOK, RunOK
<1>2. CASE CreateItem
  BY <1>0, <1>2 DEF CreateItem, Typed, TypeOK, RunOK, Run
<1>3. CASE Tick
  BY <1>0, <1>3 DEF Tick, Lock!Pass, Typed, TypeOK, RunOK, Run
<1>4. ASSUME NEW r \in Runs, Step(r) \/ Abort(r) \/ Kill(r) PROVE Typed'
  <2> DEFINE c == run[r]
  <2>0. c \in Run /\ Good(c, now, created, done)
    BY <1>0 DEF TypeOK, RunOK, Good
  <2>1. CASE Begin(r)
    <3> DEFINE d == [c EXCEPT !.step = "acquire", !.request = now]
    <3>0. now \in Nat
      BY <1>0 DEF Tables
    <3>1. d \in Run /\ d.step = "acquire" /\ d.request = now
      BY <2>0, <3>0 DEF Run
    <3>2. Good(d, now', created', done')
      BY <1>0, <2>0, <2>1, <3>1 DEF Begin, At, Good, Tables
    <3>3. Tables' /\ now <= now' /\ created <= created' /\ done \subseteq done'
      BY <1>0, <2>0, <2>1, <3>1, <3>0 DEF Begin, At, Good, Tables
    <3>4. Goto(r, d)
      BY <2>1 DEF Begin
    <3> QED
      BY <3>1, <3>2, <3>3, <3>4, GotoTyped
  <2>2. CASE LockCall(r)
    <3>1. PICK d \in Run : LockMove(r, d)
      BY <1>0, <2>2, LockCallMoves
    <3>2. /\ UNCHANGED <<now, active, queue, created, done>>
          /\ semaphore' \in [{"cron"} ->
                                [value : Runs, expire : Nat] \cup {NoRow}]
      BY <1>0, <2>2, LockCallMoves
    <3>3. Tables' /\ now <= now' /\ created <= created' /\ done \subseteq done'
      BY <1>0, <3>2 DEF Tables
    <3>4. Good(d, now', created', done')
      BY <1>0, <2>0, <3>1, <3>2 DEF LockMove, Good, Tables
    <3> QED
      BY <3>1, <3>3, <3>4, GotoTyped DEF LockMove
  <2>5. CASE Hooks(r)
    <3> DEFINE d == [c EXCEPT !.step = "unlock", !.request = 0]
    <3>0. DOMAIN queue' \subseteq 1..created /\ queue' \in [DOMAIN queue' -> Nat]
      BY <1>0, <2>5 DEF Hooks, Tables
    <3>1. d \in Run /\ d.step = "unlock" /\ d.request = 0
      BY <2>0 DEF Run
    <3>2. Good(d, now', created', done')
      BY <1>0, <2>0, <2>5, <3>1 DEF Hooks, At, Good, Tables
    <3>3. Tables' /\ now <= now' /\ created <= created' /\ done \subseteq done'
      BY <1>0, <2>0, <2>5, <3>1, <3>0 DEF Hooks, At, Good, Tables
    <3>4. Goto(r, d)
      BY <2>5 DEF Hooks
    <3> QED
      BY <3>1, <3>2, <3>3, <3>4, GotoTyped
  <2>6. CASE Unlock(r)
    <3> DEFINE d == [c EXCEPT !.step = "queue", !.lock = 0,
                              !.end = now + QueueTime]
    <3>0. now + QueueTime \in Nat
      BY <1>0 DEF Tables
    <3>1. d \in Run /\ d.step = "queue" /\ d.request = c.request
      BY <2>0, <3>0 DEF Run
    <3>2. Good(d, now', created', done')
      BY <1>0, <2>0, <2>6, <3>1 DEF Unlock, At, Good, Tables, Lock!GiveUp
    <3>3. Tables' /\ now <= now' /\ created <= created' /\ done \subseteq done'
      BY <1>0, <2>0, <2>6, <3>1, <3>0, LockTyped DEF Unlock, Owned, At, Good, Tables
    <3>4. Goto(r, d)
      BY <2>6 DEF Unlock
    <3> QED
      BY <3>1, <3>2, <3>3, <3>4, GotoTyped
  <2>7. CASE Loop(r)
    <3> DEFINE d == [c EXCEPT !.step = "select"]
    <3>1. d \in Run /\ d.step = "select" /\ d.request = c.request
      BY <2>0 DEF Run
    <3>2. Good(d, now', created', done')
      BY <1>0, <2>0, <2>7, <3>1 DEF Loop, At, Good, Tables
    <3>3. Tables' /\ now <= now' /\ created <= created' /\ done \subseteq done'
      BY <1>0, <2>0, <2>7, <3>1 DEF Loop, At, Good, Tables
    <3>4. Goto(r, d)
      BY <2>7 DEF Loop
    <3> QED
      BY <3>1, <3>2, <3>3, <3>4, GotoTyped
  <2>8. CASE Select(r)
    <3>1. PICK i \in Free : Goto(r, [c EXCEPT !.step = "update", !.item = i])
      BY <2>8 DEF Select
    <3> DEFINE d == [c EXCEPT !.step = "update", !.item = i]
    <3>2. i \in 1..created /\ i \in Items
      BY <1>0 DEF Free, Tables, Items
    <3>3. d \in Run /\ d.step = "update" /\ d.request = c.request /\ d.item = i
      BY <2>0, <3>2 DEF Run
    <3>4. Good(d, now', created', done')
      BY <2>0, <2>8, <3>2, <3>3 DEF Select, Good
    <3>5. Tables' /\ now <= now' /\ created <= created' /\ done \subseteq done'
      BY <1>0, <2>8 DEF Select, Tables
    <3> QED
      BY <3>1, <3>3, <3>4, <3>5, GotoTyped
  <2>9. CASE Update(r)
    <3>0. now + LeaseTime \in Nat /\ now + LeaseTime > 0
      BY <1>0 DEF Tables
    <3>1. CASE c.item \in Free
      <4> DEFINE d == [c EXCEPT !.step = "work", !.lease = now + LeaseTime]
      <4>1. /\ d \in Run /\ d.step = "work" /\ d.request = c.request
            /\ d.item = c.item /\ d.lease = now + LeaseTime
        BY <2>0, <3>0 DEF Run
      <4>2. c.item \in 1..created
        BY <2>0, <2>9 DEF Update, At, Good
      <4>3. Good(d, now', created', done')
        BY <2>0, <2>9, <3>0, <4>1, <4>2 DEF Update, Good
      <4>4. DOMAIN queue' \subseteq 1..created /\ queue' \in [DOMAIN queue' -> Nat]
        BY <1>0, <2>9, <3>0, <3>1 DEF Update, Put, Tables
      <4>5. Tables' /\ now <= now' /\ created <= created' /\ done \subseteq done'
        BY <1>0, <2>9, <4>4 DEF Update, Tables
      <4>6. Goto(r, d)
        BY <2>9, <3>1 DEF Update
      <4> QED
        BY <4>1, <4>3, <4>5, <4>6, GotoTyped
    <3>2. CASE c.item \notin Free
      <4> DEFINE d == [c EXCEPT !.step = "select", !.item = NoItem]
      <4>1. d \in Run /\ d.step = "select" /\ d.request = c.request
        BY <2>0 DEF Run
      <4>2. Good(d, now', created', done')
        BY <2>0, <2>9, <4>1 DEF Update, Good
      <4>3. Tables' /\ now <= now' /\ created <= created' /\ done \subseteq done'
        BY <1>0, <2>9, <3>2 DEF Update, Tables
      <4>4. Goto(r, d)
        BY <2>9, <3>2 DEF Update
      <4> QED
        BY <4>1, <4>2, <4>3, <4>4, GotoTyped
    <3> QED
      BY <3>1, <3>2
  <2>10. CASE Work(r)
    <3> DEFINE d == [c EXCEPT !.step = "delete"]
    <3>0. c.item \in 1..created /\ c.lease > 0
      BY <2>0, <2>10 DEF Work, At, Good
    <3>1. /\ d \in Run /\ d.step = "delete" /\ d.request = c.request
          /\ d.item = c.item /\ d.lease = c.lease
      BY <2>0 DEF Run
    <3>2. Good(d, now', created', done')
      BY <1>0, <2>0, <2>10, <3>0, <3>1 DEF Work, At, Good, Tables
    <3>3. Tables' /\ now <= now' /\ created <= created' /\ done \subseteq done'
      BY <1>0, <2>0, <2>10, <3>1, <3>0 DEF Work, At, Good, Tables
    <3>4. Goto(r, d)
      BY <2>10 DEF Work
    <3> QED
      BY <3>1, <3>2, <3>3, <3>4, GotoTyped
  <2>11. CASE Fail(r)
    <3> DEFINE d == [c EXCEPT !.step = "queue", !.item = NoItem, !.lease = 0]
    <3>1. d \in Run /\ d.step = "queue" /\ d.request = c.request
      BY <2>0 DEF Run
    <3>2. Good(d, now', created', done')
      BY <1>0, <2>0, <2>11, <3>1 DEF Fail, At, Good, Tables
    <3>3. Tables' /\ now <= now' /\ created <= created' /\ done \subseteq done'
      BY <1>0, <2>0, <2>11, <3>1 DEF Fail, At, Good, Tables
    <3>4. Goto(r, d)
      BY <2>11 DEF Fail
    <3> QED
      BY <3>1, <3>2, <3>3, <3>4, GotoTyped
  <2>12. CASE DeleteItem(r)
    <3> DEFINE d == [c EXCEPT !.step = "queue", !.item = NoItem, !.lease = 0]
    <3>0. DOMAIN queue' \subseteq 1..created /\ queue' \in [DOMAIN queue' -> Nat]
      BY <1>0, <2>12 DEF DeleteItem, Tables
    <3>1. d \in Run /\ d.step = "queue" /\ d.request = c.request
      BY <2>0 DEF Run
    <3>2. Good(d, now', created', done')
      BY <1>0, <2>0, <2>12, <3>1 DEF DeleteItem, At, Good, Tables
    <3>3. Tables' /\ now <= now' /\ created <= created' /\ done \subseteq done'
      BY <1>0, <2>0, <2>12, <3>1, <3>0 DEF DeleteItem, At, Good, Tables
    <3>4. Goto(r, d)
      BY <2>12 DEF DeleteItem
    <3> QED
      BY <3>1, <3>2, <3>3, <3>4, GotoTyped
  <2>13. CASE Gone(r) /\ (Lock!Die(r) \/ Lock!GiveUp(r, Owned(r)))
    <3>1. Idle \in Run /\ Idle.step = "start" /\ Idle.request = 0
      BY DEF Idle, Run
    <3>2. Tables' /\ now <= now' /\ created <= created' /\ done \subseteq done'
      BY <1>0, <2>13, LockTyped DEF Gone, Owned, Tables
    <3>3. Good(Idle, now', created', done')
      BY <1>0, <3>1, <3>2 DEF Good, Tables
    <3> QED
      BY <2>13, <3>1, <3>2, <3>3, GotoTyped DEF Gone
  <2> QED
    BY <1>4, <2>1, <2>2, <2>5, <2>6, <2>7, <2>8, <2>9, <2>10,
       <2>11, <2>12, <2>13 DEF Step, LockCall, Finish, Abort, Kill
<1> QED
  BY <1>1, <1>2, <1>3, <1>4 DEF Next

\* The types of TypeOK hold in every reachable state.
THEOREM TypeCorrect == Spec => []TypeOK
<1>1. Typed => TypeOK
  BY DEF Typed
<1> QED
  BY <1>1, InitTyped, NextTyped, PTL DEF Spec

-----------------------------------------------------------------------------
\* An item leaves the table with deleteItem() only, when its callback is done.
LEMMA NextLost == Typed /\ NoLostItem /\ [Next]_vars => NoLostItem'
<1> SUFFICES ASSUME Typed, NoLostItem, [Next]_vars PROVE NoLostItem'
  OBVIOUS
<1>0. TypeOK /\ RunOK
  BY DEF Typed
<1>1. CASE UNCHANGED <<queue, created, done>>
  BY <1>1 DEF NoLostItem
<1>2. CASE CreateItem
  BY <1>0, <1>2 DEF CreateItem, NoLostItem, TypeOK
<1>3. ASSUME NEW r \in Runs, Hooks(r) \/ Update(r) PROVE NoLostItem'
  BY <1>0, <1>3 DEF Hooks, Update, Put, NoLostItem, TypeOK
<1>4. ASSUME NEW r \in Runs, Work(r) PROVE NoLostItem'
  BY <1>4 DEF Work, NoLostItem
<1>5. ASSUME NEW r \in Runs, DeleteItem(r) PROVE NoLostItem'
  <2>1. run[r].item \in done
    BY <1>0, <1>5 DEF DeleteItem, At, RunOK
  <2> QED
    BY <1>5, <2>1 DEF DeleteItem, NoLostItem
<1> QED
  BY <1>1, <1>2, <1>3, <1>4, <1>5
     DEF Next, Step, Begin, LockAcquire, LockGranted, LockTaken, LockLooked,
         LockBroken, LockRefused, Unlock, Loop, Select, Fail, Finish, Abort, Kill, Gone, Tick, vars

\* At least once: whatever runs crash, throw or overrun their leases, an item
\* is in the table or its callback has returned.
THEOREM NothingLost == Spec => []NoLostItem
<1>1. Init => NoLostItem
  BY DEF Init, NoLostItem
<1> QED
  BY <1>1, InitTyped, NextTyped, NextLost, PTL DEF Spec

-----------------------------------------------------------------------------
\* Exclusive claims are inductive together with the rows that back them: the
\* UPDATE of claimItem() asks for a row that is free, so for one that carries
\* nobody's lease.
Claims == ExclusiveClaim /\ ClaimBacked

\* A run that starts no work, and the others, gain no lease.
LEMMA NoNewLease ==
  ASSUME Typed, NEW r \in Runs, NEW c \in Run, Goto(r, c),
         c.step \notin {"work", "delete"},
         now' \in Nat, now <= now', active' \subseteq active
  PROVE  \A q \in Runs, i \in Items :
           Leased(q, i)' => Leased(q, i) /\ run'[q] = run[q]
<1> SUFFICES ASSUME NEW q \in Runs, NEW i \in Items, Leased(q, i)'
             PROVE  Leased(q, i) /\ run'[q] = run[q]
  OBVIOUS
<1>1. q # r
  BY DEF Leased, Goto, Typed, TypeOK
<1>2. run'[q] = run[q] /\ run[q].lease \in Nat /\ now \in Nat
  BY <1>1 DEF Goto, Typed, TypeOK, Run
<1> QED
  BY <1>2 DEF Leased

\* The statements that neither start nor go on with work on an item.
LEMMA RunsGoOn ==
  ASSUME TypeOK, NEW r \in Runs,
         \/ Begin(r) \/ LockCall(r) \/ Unlock(r) \/ Loop(r)
         \/ Select(r) \/ Fail(r) \/ (Update(r) /\ run[r].item \notin Free)
         \/ Hooks(r) \/ DeleteItem(r)
  PROVE  \E d \in Run : Goto(r, d) /\ d.step \notin {"work", "delete"}
<1> DEFINE c == run[r]
<1>0. /\ c \in Run /\ now \in Nat
      /\ now + CronTime \in Nat /\ now + QueueTime \in Nat
      /\ \A i \in Free : i \in Items
  BY DEF TypeOK, Free, Items
<1>1. CASE Begin(r)
  <2> DEFINE d == [c EXCEPT !.step = "acquire", !.request = now]
  <2>1. d \in Run /\ d.step = "acquire"
    BY <1>0 DEF Run
  <2> QED
    BY <1>1, <2>1 DEF Begin
<1>2. CASE LockCall(r)
  <2>1. PICK d \in Run : LockMove(r, d)
    BY <1>2, LockCallMoves
  <2> QED
    BY <2>1 DEF LockMove
<1>4. CASE Unlock(r)
  <2> DEFINE d == [c EXCEPT !.step = "queue", !.lock = 0,
                            !.end = now + QueueTime]
  <2>1. d \in Run /\ d.step = "queue"
    BY <1>0 DEF Run
  <2> QED
    BY <1>4, <2>1 DEF Unlock
<1>5. CASE Loop(r)
  <2> DEFINE d == [c EXCEPT !.step = "select"]
  <2>1. d \in Run /\ d.step = "select"
    BY <1>0 DEF Run
  <2> QED
    BY <1>5, <2>1 DEF Loop
<1>6. CASE Select(r)
  <2>1. PICK i \in Free : Goto(r, [c EXCEPT !.step = "update", !.item = i])
    BY <1>6 DEF Select
  <2> DEFINE d == [c EXCEPT !.step = "update", !.item = i]
  <2>2. d \in Run /\ d.step = "update"
    BY <1>0 DEF Run
  <2> QED
    BY <2>1, <2>2
<1>7. CASE Fail(r) \/ DeleteItem(r)
  <2> DEFINE d == [c EXCEPT !.step = "queue", !.item = NoItem, !.lease = 0]
  <2>1. d \in Run /\ d.step = "queue"
    BY <1>0 DEF Run
  <2> QED
    BY <1>7, <2>1 DEF Fail, DeleteItem
<1>8. CASE Update(r) /\ c.item \notin Free
  <2> DEFINE d == [c EXCEPT !.step = "select", !.item = NoItem]
  <2>1. d \in Run /\ d.step = "select"
    BY <1>0 DEF Run
  <2> QED
    BY <1>8, <2>1 DEF Update
<1>9. CASE Hooks(r)
  <2> DEFINE d == [c EXCEPT !.step = "unlock", !.request = 0]
  <2>1. d \in Run /\ d.step = "unlock"
    BY <1>0 DEF Run
  <2> QED
    BY <1>9, <2>1 DEF Hooks
<1> QED
  BY <1>1, <1>2, <1>4, <1>5, <1>6, <1>7, <1>8, <1>9

\* The claims survive a step that grants no lease and leaves the rows alone.
LEMMA QuietClaims ==
  ASSUME Claims, UNCHANGED <<queue, done>>,
         \A q \in Runs, i \in Items :
           Leased(q, i)' => Leased(q, i) /\ run'[q] = run[q]
  PROVE  Claims'
  BY DEF Claims, ExclusiveClaim, ClaimBacked

LEMMA NextClaims == Typed /\ Claims /\ [Next]_vars => Claims'
<1> SUFFICES ASSUME Typed, Claims, [Next]_vars PROVE Claims'
  OBVIOUS
<1>0. TypeOK /\ RunOK /\ ExclusiveClaim /\ ClaimBacked
  BY DEF Typed, Claims
<1> DEFINE NoNew == \A q \in Runs, i \in Items :
                      Leased(q, i)' => Leased(q, i) /\ run'[q] = run[q]
<1>1. CASE UNCHANGED vars
  BY <1>0, <1>1 DEF vars, Claims, ExclusiveClaim, ClaimBacked, Leased
<1>2. CASE CreateItem
  <2>1. UNCHANGED <<run, now, active, done>>
    BY <1>2 DEF CreateItem
  <2>2. \A i \in Items : i # created + 1 =>
          /\ i \in DOMAIN queue' <=> i \in DOMAIN queue
          /\ i \in DOMAIN queue => queue'[i] = queue[i]
    BY <1>2 DEF CreateItem
  <2>3. \A q \in Runs, i \in Items : Leased(q, i) => i # created + 1
    BY <1>0 DEF RunOK, Leased, TypeOK
  <2> QED
    BY <1>0, <2>1, <2>2, <2>3 DEF Claims, ExclusiveClaim, ClaimBacked, Leased
<1>3. CASE Tick
  <2>1. \A q \in Runs : run[q].lease \in Nat
    BY <1>0 DEF TypeOK, Run
  <2>2. NoNew
    BY <1>0, <1>3, <2>1 DEF Tick, Lock!Pass, Leased, TypeOK
  <2> QED
    BY <1>3, <2>2, QuietClaims DEF Tick
<1>4. ASSUME NEW r \in Runs, Step(r) \/ Abort(r) \/ Kill(r) PROVE Claims'
  <2> DEFINE c == run[r]
  <2>0. c \in Run /\ now \in Nat
    BY <1>0 DEF TypeOK
  <2>1. CASE Begin(r) \/ LockCall(r) \/ Unlock(r) \/ Loop(r)
             \/ Select(r) \/ Fail(r) \/ (Update(r) /\ c.item \notin Free)
    <3>1. PICK d \in Run : Goto(r, d) /\ d.step \notin {"work", "delete"}
      BY <1>0, <2>1, RunsGoOn
    <3>2. UNCHANGED <<queue, done, now, active>>
      BY <1>0, <2>1, LockCallMoves DEF Begin, Unlock, Loop, Select, Fail, Update,
                                       Lock!GiveUp
    <3> QED
      BY <2>0, <3>1, <3>2, NoNewLease, QuietClaims
  <2>3. CASE Gone(r) /\ (Lock!Die(r) \/ Lock!GiveUp(r, Owned(r)))
    <3>1. Idle \in Run /\ Idle.step = "start" /\ Goto(r, Idle)
      BY <2>3 DEF Idle, Run, Gone
    <3>2. UNCHANGED <<queue, done, now>> /\ active' \subseteq active
      BY <2>3 DEF Gone, Lock!Die, Lock!GiveUp
    <3> QED
      BY <2>0, <3>1, <3>2, NoNewLease, QuietClaims
  <2>4. CASE Hooks(r)
    <3>1. PICK d \in Run : Goto(r, d) /\ d.step \notin {"work", "delete"}
      BY <1>0, <2>4, RunsGoOn
    <3>2. UNCHANGED <<done, now, active>>
      BY <2>4 DEF Hooks
    <3>3. NoNew
      BY <2>0, <3>1, <3>2, NoNewLease
    <3>4. /\ DOMAIN queue' = DOMAIN queue
          /\ \A i \in DOMAIN queue : queue[i] >= now => queue'[i] = queue[i]
      BY <1>0, <2>0, <2>4 DEF Hooks, RunOK, Run, TypeOK
    <3>5. \A q \in Runs, i \in Items : Leased(q, i) => run[q].lease >= now
      BY <1>0, <2>0 DEF Leased, TypeOK, Run
    <3> QED
      BY <1>0, <3>2, <3>3, <3>4, <3>5 DEF Claims, ExclusiveClaim, ClaimBacked
  <2>5. CASE Update(r) /\ c.item \in Free
    <3> DEFINE d == [c EXCEPT !.step = "work", !.lease = now + LeaseTime]
    <3>1. /\ queue' = [queue EXCEPT ![c.item] = now + LeaseTime]
          /\ Goto(r, d) /\ UNCHANGED <<done, now, active>>
      BY <2>5 DEF Update, Put
    <3>2. /\ \A q \in Runs \ {r} : run'[q] = run[q]
          /\ run'[r].item = c.item /\ run'[r].lease = now + LeaseTime
      BY <1>0, <2>0, <3>1 DEF Goto, TypeOK, Run
    <3>3. c.item \in DOMAIN queue /\ queue[c.item] = 0
      BY <2>5 DEF Free
    <3>4. \A q \in Runs : ~Leased(q, c.item)
      BY <1>0, <2>0, <3>3 DEF Leased, RunOK, ClaimBacked, Run
    <3>5. \A q \in Runs \ {r}, i \in Items : Leased(q, i)' =>
             Leased(q, i) /\ i # c.item
      BY <3>1, <3>2, <3>4 DEF Leased
    <3>6. \A i \in Items : Leased(r, i)' => i = c.item
      BY <3>2 DEF Leased
    <3>7. /\ DOMAIN queue' = DOMAIN queue
          /\ queue'[c.item] = now + LeaseTime
          /\ \A i \in DOMAIN queue \ {c.item} : queue'[i] = queue[i]
      BY <3>1, <3>3
    <3>8. ExclusiveClaim'
      BY <1>0, <3>5, <3>6 DEF ExclusiveClaim
    <3>9. ClaimBacked'
      <4> SUFFICES ASSUME NEW q \in Runs, NEW i \in Items, Leased(q, i)'
                   PROVE  \/ i \in DOMAIN queue' /\ queue'[i] = run'[q].lease
                          \/ i \notin DOMAIN queue' /\ i \in done'
        BY DEF ClaimBacked
      <4>1. CASE q = r
        BY <3>2, <3>3, <3>6, <3>7, <4>1
      <4>2. CASE q # r
        BY <1>0, <3>1, <3>2, <3>5, <3>7, <4>2 DEF ClaimBacked
      <4> QED
        BY <4>1, <4>2
    <3> QED
      BY <3>8, <3>9 DEF Claims
  <2>6. CASE Work(r)
    <3>1. /\ run' = [run EXCEPT ![r] = [c EXCEPT !.step = "delete"]]
          /\ done \subseteq done' /\ UNCHANGED <<queue, now, active>>
      BY <2>6 DEF Work, Goto
    <3>2. /\ \A q \in Runs \ {r} : run'[q] = run[q]
          /\ run'[r].item = c.item /\ run'[r].lease = c.lease
      BY <1>0, <2>0, <3>1 DEF TypeOK, Run
    <3>3. \A q \in Runs, i \in Items : Leased(q, i)' =>
             Leased(q, i) /\ run'[q].lease = run[q].lease
      BY <2>6, <3>1, <3>2 DEF Leased, Work, At
    <3> QED
      BY <1>0, <3>1, <3>3 DEF Claims, ExclusiveClaim, ClaimBacked
  <2>7. CASE DeleteItem(r)
    <3>1. PICK d \in Run : Goto(r, d) /\ d.step \notin {"work", "delete"}
      BY <1>0, <2>7, RunsGoOn
    <3>2. UNCHANGED <<done, now, active>>
      BY <2>7 DEF DeleteItem
    <3>3. NoNew
      BY <2>0, <3>1, <3>2, NoNewLease
    <3>4. /\ DOMAIN queue' = DOMAIN queue \ {c.item}
          /\ \A i \in DOMAIN queue' : queue'[i] = queue[i]
      BY <2>7 DEF DeleteItem
    <3>5. c.item \in done
      BY <1>0, <2>7 DEF DeleteItem, At, RunOK
    <3> QED
      BY <1>0, <3>2, <3>3, <3>4, <3>5 DEF Claims, ExclusiveClaim, ClaimBacked
  <2> QED
    BY <1>4, <2>1, <2>3, <2>4, <2>5, <2>6, <2>7
       DEF Step, LockCall, Finish, Abort, Kill
<1> QED
  BY <1>1, <1>2, <1>3, <1>4 DEF Next

\* Two runs never work on an item within their leases at the same time, for
\* any number of runs that crash, throw, overrun and reset leases.
THEOREM ClaimsExclude == Spec => []ExclusiveClaim
<1>1. Init => Claims
  BY DEF Init, Lock!Init, Idle, Claims, ExclusiveClaim, ClaimBacked, Leased
<1>2. Claims => ExclusiveClaim
  BY DEF Claims
<1> QED
  BY <1>1, <1>2, InitTyped, NextTyped, NextClaims, PTL DEF Spec

\* The row of an item carries the lease of its worker.
THEOREM ClaimsAreBacked == Spec => []ClaimBacked
<1>1. Init => Claims
  BY DEF Init, Lock!Init, Idle, Claims, ExclusiveClaim, ClaimBacked, Leased
<1>2. Claims => ClaimBacked
  BY DEF Claims
<1> QED
  BY <1>1, <1>2, InitTyped, NextTyped, NextClaims, PTL DEF Spec

-----------------------------------------------------------------------------
\* The cron lock as its holder sees it: within the 240 seconds the row is
\* there.  LeaseLock lets others break it only when they are over.
LockBacked ==
    \A r \in Runs : InHooks(r) =>
        semaphore["cron"] = [value |-> r, expire |-> run[r].lock]

\* No other statement brings a run to the hooks.
LEMMA NotToHooks ==
  ASSUME TypeOK, NEW r \in Runs,
         \/ Begin(r) \/ (LockCall(r) /\ ~LockGranted(r)) \/ Hooks(r) \/ Loop(r)
         \/ Select(r) \/ Update(r) \/ Work(r) \/ Fail(r) \/ DeleteItem(r)
  PROVE  run'[r].step # "hooks" /\ \A q \in Runs \ {r} : run'[q] = run[q]
<1> USE DEF TypeOK, Goto, Run
<1>1. CASE Begin(r)
  BY <1>1 DEF Begin
<1>2. CASE LockCall(r) /\ ~LockGranted(r)
  <2>1. PICK d \in Run : LockMove(r, d)
    BY <1>2, LockCallMoves
  <2> QED
    BY <1>2, <2>1 DEF LockMove
<1>3. CASE Hooks(r)
  BY <1>3 DEF Hooks
<1>4. CASE Loop(r)
  BY <1>4 DEF Loop
<1>5. CASE Select(r)
  <2>1. PICK i \in Free : Goto(r, [run[r] EXCEPT !.step = "update", !.item = i])
    BY <1>5 DEF Select
  <2> QED
    BY <2>1
<1>6. CASE Update(r)
  <2>1. CASE run[r].item \in Free
    BY <1>6, <2>1 DEF Update
  <2>2. CASE run[r].item \notin Free
    BY <1>6, <2>2 DEF Update
  <2> QED
    BY <2>1, <2>2
<1>7. CASE Work(r)
  BY <1>7 DEF Work
<1>8. CASE Fail(r)
  BY <1>8 DEF Fail
<1>9. CASE DeleteItem(r)
  BY <1>9 DEF DeleteItem
<1> QED
  BY <1>1, <1>2, <1>3, <1>4, <1>5, <1>6, <1>7, <1>8, <1>9

LEMMA NextLocked == Typed /\ LockBacked /\ [Next]_vars => LockBacked'
<1> SUFFICES ASSUME Typed, LockBacked, [Next]_vars,
                    NEW q \in Runs, InHooks(q)'
             PROVE  semaphore'["cron"] = [value |-> q, expire |-> run'[q].lock]
  BY DEF LockBacked
<1> DEFINE Held == semaphore'["cron"] = [value |-> q, expire |-> run'[q].lock]
<1>0. /\ TypeOK /\ RunOK
      /\ run[q].lock \in Nat /\ now \in Nat
  BY DEF Typed, TypeOK, Run
<1>a. ASSUME InHooks(q)
      PROVE  semaphore["cron"] = [value |-> q, expire |-> run[q].lock]
  BY <1>a DEF LockBacked
<1>1. CASE UNCHANGED <<now, semaphore, active, run>>
  BY <1>1, <1>a DEF InHooks, At
<1>2. CASE Tick
  BY <1>0, <1>2, <1>a DEF Tick, Lock!Pass, InHooks, At
<1>3. ASSUME NEW r \in Runs, Step(r) \/ Abort(r) \/ Kill(r) PROVE Held
  <2>1. CASE LockGranted(r)
    <3>1. /\ semaphore["cron"] = NoRow
          /\ semaphore' = [semaphore EXCEPT
                             !["cron"] = [value |-> r, expire |-> run[r].lock]]
          /\ run' = [run EXCEPT ![r] = [run[r] EXCEPT !.step = "hooks"]]
          /\ UNCHANGED <<now, active>>
      BY <2>1 DEF LockGranted, Goto, Lock!Grant
    <3>2. CASE q = r
      <4>1. run'[q].lock = run[q].lock
        BY <1>0, <3>1, <3>2 DEF TypeOK, Run
      <4> QED
        BY <1>0, <3>1, <3>2, <4>1 DEF TypeOK
    <3>3. CASE q # r
      <4>1. InHooks(q)
        BY <1>0, <3>1, <3>3 DEF InHooks, At, TypeOK
      <4>2. semaphore["cron"] \in [value : Runs, expire : Nat]
        BY <1>0, <1>a, <4>1
      <4> QED
        BY <3>1, <4>2
    <3> QED
      BY <3>2, <3>3
  <2>2. CASE LockBroken(r)
    <3>1. /\ semaphore["cron"].expire < now /\ UNCHANGED <<now, active>>
      BY <1>0, <2>2 DEF LockBroken, Lock!Expire
    <3>2. q # r /\ run'[q] = run[q]
      BY <1>0, <2>2 DEF LockBroken, Goto, InHooks, At, TypeOK, Run
    <3>3. InHooks(q) /\ run[q].lock >= now
      BY <1>0, <3>1, <3>2 DEF InHooks, At
    <3> QED
      BY <1>0, <1>a, <3>1, <3>3
  <2>3. CASE Unlock(r) \/ Finish(r) \/ Abort(r) \/ Kill(r)
    <3>1. CASE q = r
      <4>1. CASE Unlock(r)
        <5>1. run'[r].step = "queue"
          BY <1>0, <4>1 DEF Unlock, Goto, TypeOK, Run
        <5> QED
          BY <3>1, <5>1 DEF InHooks, At
      <4>2. CASE Finish(r) \/ Abort(r) \/ Kill(r)
        BY <3>1, <4>2 DEF Finish, Abort, Kill, Gone, InHooks, At
      <4> QED
        BY <2>3, <4>1, <4>2
    <3>2. CASE q # r
      <4>1. run'[q] = run[q] /\ UNCHANGED now /\ active' \subseteq active
        BY <1>0, <2>3, <3>2 DEF Unlock, Finish, Abort, Kill, Gone, Goto,
                                Lock!GiveUp, Lock!Die, TypeOK
      <4>2. InHooks(q)
        BY <4>1 DEF InHooks, At
      <4>3. semaphore'["cron"] = semaphore["cron"]
        BY <1>a, <2>3, <3>2, <4>2 DEF Unlock, Finish, Abort, Kill, Gone,
                                Owned, Lock!GiveUp, Lock!Die
      <4> QED
        BY <1>a, <4>1, <4>2, <4>3
    <3> QED
      BY <3>1, <3>2
  <2>4. CASE \/ Begin(r) \/ LockAcquire(r) \/ LockTaken(r) \/ LockLooked(r)
             \/ LockRefused(r) \/ Hooks(r) \/ Loop(r) \/ Select(r)
             \/ Update(r) \/ Work(r) \/ Fail(r) \/ DeleteItem(r)
    <3>1. UNCHANGED <<now, semaphore, active>>
      BY <2>4 DEF Begin, LockAcquire, LockTaken, LockLooked, LockRefused, Hooks,
                  Loop, Select, Update, Work, Fail, DeleteItem
    <3>2. q # r /\ run'[q] = run[q]
      <4>1. LockCall(r) => ~LockGranted(r)
        BY <1>0, <2>4, <3>1, <2>1 DEF LockGranted, Lock!Grant, TypeOK
      <4> QED
        BY <1>0, <2>4, <4>1, NotToHooks DEF InHooks, At, LockCall
    <3> QED
      BY <1>a, <3>1, <3>2 DEF InHooks, At
  <2> QED
    BY <1>3, <2>1, <2>2, <2>3, <2>4 DEF Step
<1>4. CASE CreateItem
  BY <1>1, <1>4 DEF CreateItem
<1> QED
  BY <1>1, <1>2, <1>3, <1>4 DEF Next, vars

\* The hooks of two cron runs overlap only when a run overran the cron lock.
THEOREM HooksExclude == Spec => []HooksExclusive
<1>1. Init => LockBacked
  BY DEF Init, Idle, LockBacked, InHooks, At
<1>2. ASSUME LockBacked, NEW r1 \in Runs, NEW r2 \in Runs,
             InHooks(r1), InHooks(r2)
      PROVE  r1 = r2
  <2>1. /\ semaphore["cron"] = [value |-> r1, expire |-> run[r1].lock]
        /\ semaphore["cron"] = [value |-> r2, expire |-> run[r2].lock]
    BY <1>2 DEF LockBacked
  <2>2. semaphore["cron"].value = r1 /\ semaphore["cron"].value = r2
    BY <2>1
  <2> QED
    BY <2>2
<1>3. LockBacked => HooksExclusive
  BY <1>2 DEF HooksExclusive
<1> QED
  BY <1>1, <1>3, InitTyped, NextTyped, NextLocked, PTL DEF Spec
-----------------------------------------------------------------------------
\* The promises.

\* The locals of a run say what it has claimed.
LEMMA ClaimOf ==
  ASSUME NEW r \in Runs
  PROVE  /\ r \in active /\ run[r].step \in {"work", "delete"} =>
              Claim(r) = [item |-> run[r].item, until |-> run[r].lease]
         /\ ~(r \in active /\ run[r].step \in {"work", "delete"}) =>
              Claim(r) = Queue!NoClaim
BY DEF Claim, Queue!NoClaim

\* A step of one run leaves the claims of the others alone.
LEMMA OtherClaims ==
  ASSUME TypeOK, NEW r \in Runs, NEW c, Goto(r, c),
         active' = active \/ active' = active \ {r}
  PROVE  /\ run'[r] = c
         /\ \A q \in Runs \ {r} : Claim(q)' = Claim(q)
BY DEF Goto, TypeOK, Claim

\* What a step looks like that no user of the queue notices ...
LEMMA NothingPromised ==
  ASSUME UNCHANGED <<now, created, done>>, DOMAIN queue' = DOMAIN queue,
         \A q \in Runs : Claim(q)' = Claim(q)
  PROVE  UNCHANGED Queue!vars
<1>1. [q \in Runs |-> Claim(q)]' = [q \in Runs |-> Claim(q)]
  OBVIOUS
<1> QED
  BY <1>1 DEF Queue!vars

\* ... and one that ends a claim and does nothing else.
LEMMA ClaimDropped ==
  ASSUME UNCHANGED <<now, created, done>>, DOMAIN queue' = DOMAIN queue,
         NEW r \in Runs, Claim(r)' = Queue!NoClaim,
         \A q \in Runs \ {r} : Claim(q)' = Claim(q)
  PROVE  Queue!Next \/ UNCHANGED Queue!vars
<1>1. CASE Claim(r) = Queue!NoClaim
  BY <1>1, NothingPromised
<1>2. CASE Claim(r) # Queue!NoClaim
  <2> DEFINE claim == [q \in Runs |-> Claim(q)]
  <2>1. claim' = [claim EXCEPT ![r] = Queue!NoClaim]
    OBVIOUS
  <2>2. Queue!Drop(r)
    BY <1>2, <2>1 DEF Queue!Drop
  <2> QED
    BY <2>2 DEF Queue!Next
<1> QED
  BY <1>1, <1>2

\* The UPDATE that claims an item finds it free, so that nobody is working on
\* it within a lease, or somebody's claim would be backed by another row.
LEMMA UpdateClaims ==
  ASSUME Typed, Claims, NEW r \in Runs, Update(r), run[r].item \in Free
  PROVE  Queue!ClaimItem(r, run[r].item) /\ run[r].item \in Items
<1> DEFINE i == run[r].item
           c == [run[r] EXCEPT !.step = "work", !.lease = now + LeaseTime]
           claim == [q \in Runs |-> Claim(q)]
<1>0. TypeOK /\ RunOK /\ run[r] \in Run /\ now \in Nat /\ now + LeaseTime \in Nat
  BY DEF Typed, TypeOK
<1>1. i \in DOMAIN queue /\ queue[i] = 0 /\ i \in Items
  BY <1>0 DEF Free, TypeOK, Items
<1>2. /\ Goto(r, c) /\ At(r, "update") /\ DOMAIN queue' = DOMAIN queue
      /\ UNCHANGED <<now, active, created, done>>
  BY DEF Update, Put
<1>3. Claim(r) = Queue!NoClaim
  BY <1>2, ClaimOf DEF At
<1>4. run'[r] = c /\ \A q \in Runs \ {r} : Claim(q)' = Claim(q)
  BY <1>0, <1>2, OtherClaims
<1>5. Claim(r)' = [item |-> i, until |-> now + LeaseTime]
  <2>1. c.step = "work" /\ c.item = i /\ c.lease = now + LeaseTime
    BY <1>0 DEF Run
  <2> QED
    BY <1>2, <1>4, <2>1 DEF Claim, At
<1>6. ASSUME NEW q \in Runs, Claim(q).item = i PROVE Claim(q).until < now
  <2>1. /\ q \in active /\ run[q].step \in {"work", "delete"}
        /\ run[q].item = i /\ Claim(q).until = run[q].lease
    <3>1. i # NoItem
      BY <1>1 DEF Items
    <3> QED
      BY <1>6, <3>1, ClaimOf DEF Queue!NoClaim
  <2>2. run[q].lease \in Nat /\ run[q].lease > 0
    BY <1>0, <2>1 DEF RunOK, TypeOK, Run
  <2>3. ~Leased(q, i)
    BY <1>1, <2>2 DEF Claims, ClaimBacked
  <2> QED
    BY <1>0, <2>1, <2>2, <2>3 DEF Leased
<1>7. claim'[r] \in [item : {i}, until : Nat]
  BY <1>0, <1>5
<1>8. claim' = [claim EXCEPT ![r] = claim'[r]]
  BY <1>4
<1> QED
  BY <1>1, <1>2, <1>3, <1>6, <1>7, <1>8 DEF Queue!ClaimItem

LEMMA NextPromise ==
  Typed /\ Claims /\ [Next]_vars => [Queue!Next]_Queue!vars
<1> SUFFICES ASSUME Typed, Claims, [Next]_vars
             PROVE  Queue!Next \/ UNCHANGED Queue!vars
  OBVIOUS
<1> DEFINE claim == [q \in Runs |-> Claim(q)]
<1>0. TypeOK /\ RunOK
  BY DEF Typed
<1>1. CASE UNCHANGED vars
  BY <1>1, NothingPromised DEF vars, Claim
<1>2. CASE CreateItem
  <2>1. created + 1 \in Items /\ created \in Nat
    BY <1>0, <1>2 DEF CreateItem, TypeOK, Items
  <2>2. /\ created + 1 \notin 1..created
        /\ 1..created' = (1..created) \cup {created + 1}
    BY <1>2, <2>1 DEF CreateItem
  <2>3. DOMAIN queue' = DOMAIN queue \cup {created + 1}
    BY <1>2 DEF CreateItem
  <2>4. claim' = claim
    BY <1>2 DEF CreateItem, Claim
  <2>5. Queue!CreateItem(created + 1)
    BY <1>2, <2>2, <2>3, <2>4 DEF CreateItem, Queue!CreateItem
  <2> QED
    BY <2>1, <2>5 DEF Queue!Next
<1>3. CASE Tick
  <2>1. claim' = claim
    BY <1>3 DEF Tick, Lock!Pass, Claim
  <2>2. Queue!Pass
    BY <1>3, <2>1 DEF Tick, Lock!Pass, Queue!Pass
  <2> QED
    BY <2>2 DEF Queue!Next
<1>4. ASSUME NEW r \in Runs, Step(r) \/ Abort(r) \/ Kill(r)
      PROVE  Queue!Next \/ UNCHANGED Queue!vars
  <2> DEFINE c == run[r]
  <2>0. c \in Run /\ now \in Nat
    BY <1>0 DEF TypeOK
  <2>1. CASE Begin(r) \/ LockCall(r) \/ Unlock(r) \/ Loop(r)
             \/ Select(r) \/ Fail(r) \/ Hooks(r)
             \/ (Update(r) /\ c.item \notin Free)
    <3>1. PICK d \in Run : Goto(r, d) /\ d.step \notin {"work", "delete"}
      BY <1>0, <2>1, RunsGoOn
    <3>2. /\ UNCHANGED <<now, created, done, active>>
          /\ DOMAIN queue' = DOMAIN queue
      BY <1>0, <2>1, LockCallMoves DEF Begin, Unlock, Loop, Select, Fail, Hooks,
                                       Update, Lock!GiveUp
    <3>3. Claim(r)' = Queue!NoClaim /\ \A q \in Runs \ {r} : Claim(q)' = Claim(q)
      BY <1>0, <3>1, <3>2, OtherClaims DEF Claim, Queue!NoClaim
    <3> QED
      BY <3>2, <3>3, ClaimDropped
  <2>3. CASE Gone(r) /\ (Lock!Die(r) \/ Lock!GiveUp(r, Owned(r)))
    <3>1. Goto(r, Idle) /\ active' = active \ {r} /\ UNCHANGED <<now, queue, created, done>>
      BY <2>3 DEF Gone, Lock!Die, Lock!GiveUp
    <3>2. Claim(r)' = Queue!NoClaim /\ \A q \in Runs \ {r} : Claim(q)' = Claim(q)
      BY <1>0, <3>1, OtherClaims DEF Claim, Queue!NoClaim
    <3> QED
      BY <3>1, <3>2, ClaimDropped
  <2>4. CASE Update(r) /\ c.item \in Free
    BY <2>4, UpdateClaims DEF Queue!Next
  <2>5. CASE Work(r)
    <3> DEFINE d == [c EXCEPT !.step = "delete"]
    <3>1. d.step = "delete" /\ d.item = c.item /\ d.lease = c.lease
      BY <2>0 DEF Run
    <3>2. Goto(r, d) /\ At(r, "work") /\ done' = done \cup {c.item}
          /\ UNCHANGED <<now, active, queue, created>>
      BY <2>5 DEF Work
    <3>3. run'[r] = d /\ \A q \in Runs \ {r} : Claim(q)' = Claim(q)
      BY <1>0, <3>2, OtherClaims
    <3>4. Claim(r) = [item |-> c.item, until |-> c.lease] /\ Claim(r)' = Claim(r)
      BY <3>1, <3>2, <3>3 DEF Claim, At
    <3>5. c.item # NoItem
      BY <1>0, <3>2 DEF At, RunOK, TypeOK
    <3>6. claim[r] # Queue!NoClaim /\ claim[r].item = c.item /\ claim' = claim
      BY <3>3, <3>4, <3>5 DEF Queue!NoClaim
    <3>7. Queue!Finish(r)
      BY <3>2, <3>6 DEF Queue!Finish
    <3> QED
      BY <3>7 DEF Queue!Next
  <2>6. CASE DeleteItem(r)
    <3> DEFINE d == [c EXCEPT !.step = "queue", !.item = NoItem, !.lease = 0]
    <3>1. d.step = "queue"
      BY <2>0 DEF Run
    <3>2. Goto(r, d) /\ At(r, "delete") /\ DOMAIN queue' = DOMAIN queue \ {c.item}
          /\ UNCHANGED <<now, active, created, done>>
      BY <2>6 DEF DeleteItem
    <3>3. run'[r] = d /\ \A q \in Runs \ {r} : Claim(q)' = Claim(q)
      BY <1>0, <3>2, OtherClaims
    <3>4. Claim(r).item = c.item /\ Claim(r)' = Queue!NoClaim
      BY <3>1, <3>2, <3>3 DEF Claim, At, Queue!NoClaim
    <3>5. c.item \in done
      BY <1>0, <3>2 DEF At, RunOK
    <3>6. claim' = [claim EXCEPT ![r] = Queue!NoClaim]
      BY <3>3, <3>4
    <3>7. Queue!DeleteItem(r)
      BY <3>2, <3>4, <3>5, <3>6 DEF Queue!DeleteItem
    <3> QED
      BY <3>7 DEF Queue!Next
  <2> QED
    BY <1>4, <2>1, <2>3, <2>4, <2>5, <2>6
       DEF Step, LockCall, Finish, Abort, Kill
<1> QED
  BY <1>1, <1>2, <1>3, <1>4 DEF Next

\* The {queue} table keeps the promise of the queue API: an item is handed to
\* one run at a time within its lease, and leaves the queue only when a worker
\* has returned from it.
THEOREM QueuePromiseKept == Spec => ImplementsQueue
<1>1. Init => Queue!Init
  <2> SUFFICES ASSUME Init PROVE Queue!Init
    OBVIOUS
  <2>1. now = 0 /\ 1..created = {} /\ DOMAIN queue = {} /\ done = {}
    BY DEF Init, Lock!Init
  <2>2. [q \in Runs |-> Claim(q)] = [q \in Runs |-> Queue!NoClaim]
    BY DEF Init, Claim, Idle, Queue!NoClaim
  <2> QED
    BY <2>1, <2>2 DEF Queue!Init
<1>2. Init => Claims
  BY DEF Init, Lock!Init, Idle, Claims, ExclusiveClaim, ClaimBacked, Leased
<1> QED
  BY <1>1, <1>2, InitTyped, NextTyped, NextClaims, NextPromise, PTL
     DEF Spec, ImplementsQueue, Queue!Spec
=============================================================================
