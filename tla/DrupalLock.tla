----------------------------- MODULE DrupalLock -----------------------------
(***************************************************************************)
(* includes/lock.inc: named locks with a lease, kept as rows of the        *)
(* {semaphore} table.  Every SQL statement is a step of its own, since     *)
(* requests run in parallel and share nothing but the database.            *)
(***************************************************************************)
EXTENDS Naturals, FiniteSets

CONSTANTS
    Requests,    \* page requests; each one has a lock id nobody else has
    Names,       \* lock names
    Timeouts,    \* the durations callers ask for, in clock ticks
    MinTimeout,  \* 0.001 s, the least lease lock_acquire() grants
    Tolerance,   \* 0.0001 s, the float slack of lock_may_be_available()
    MaxPolls,    \* bound: the polls one lock_wait() makes
    MaxTime,     \* bound: where the clock stops
    NoRow,       \* no {semaphore} row
    NoCall       \* not inside a function of lock.inc

Row == [value : Requests, expire : Nat]

ASSUME LockAssumption ==
    /\ Timeouts \subseteq Nat
    /\ {MinTimeout, Tolerance, MaxPolls, MaxTime} \subseteq Nat
    /\ NoRow \notin Row

VARIABLES
    now,         \* microtime(TRUE)
    semaphore,   \* semaphore[n]: the row with primary key n, or NoRow
    locks,       \* locks[r]: the global $locks of request r
    lease,       \* history: the expiry r was granted for a lock of locks[r]
    call,        \* call[r]: where r is inside lock.inc, with its locals
    active       \* requests that have neither ended nor crashed

vars == <<now, semaphore, locks, lease, call, active>>

\* The local variables of lock_acquire(), lock_may_be_available() and
\* lock_wait(), and the SQL statement that comes next.
Call == [step : {"renew", "insert", "select", "break", "sleep"},
         kind : {"acquire", "wait"}, name : Names, expire : Nat,
         retry : BOOLEAN, seen : Row \cup {NoRow}, polls : Nat]

TypeOK ==
    /\ now \in Nat
    /\ semaphore \in [Names -> Row \cup {NoRow}]
    /\ locks \in [Requests -> SUBSET Names]
    /\ lease \in [Requests -> [Names -> Nat]]
    /\ call \in [Requests -> Call \cup {NoCall}]
    /\ active \subseteq Requests

Init ==
    /\ now = 0
    /\ semaphore = [n \in Names |-> NoRow]
    /\ locks = [r \in Requests |-> {}]
    /\ lease = [r \in Requests |-> [n \in Names |-> 0]]
    /\ call = [r \in Requests |-> NoCall]
    /\ active = Requests

Owns(r, n) == semaphore[n] # NoRow /\ semaphore[n].value = r

Calling(r, step) == /\ r \in active
                    /\ call[r] # NoCall
                    /\ call[r].step = step

Idle(r) == r \in active /\ call[r] = NoCall

\* Request r goes on to the statement, and with the locals, of c.
Goto(r, c) == call' = [call EXCEPT ![r] = c]

Return(r) == Goto(r, NoCall)

\* Request r no longer counts the locks of S as its own.
Forget(r, S) ==
    /\ locks' = [locks EXCEPT ![r] = @ \ S]
    /\ lease' = [lease EXCEPT ![r] = [n \in Names |-> IF n \in S THEN 0
                                                            ELSE @[n]]]

-----------------------------------------------------------------------------
\* lock_acquire() fixes the expiry when it is called, and renews rather than
\* inserts when $locks says that the request holds the lock already.
Acquire(r, n, t) ==
    /\ Idle(r)
    /\ Goto(r,
         [step |-> IF n \in locks[r] THEN "renew" ELSE "insert",
          kind |-> "acquire", name |-> n,
          expire |-> now + (IF t < MinTimeout THEN MinTimeout ELSE t),
          retry |-> FALSE, seen |-> NoRow, polls |-> 0])
    /\ UNCHANGED <<now, semaphore, locks, lease, active>>

\* UPDATE ... WHERE name AND value: no row matches when the lock was broken.
Renew(r) ==
    /\ Calling(r, "renew")
    /\ LET n == call[r].name
           e == call[r].expire
       IN  \/ /\ Owns(r, n)
              /\ semaphore' = [semaphore EXCEPT ![n].expire = e]
              /\ lease' = [lease EXCEPT ![r][n] = e]
              /\ UNCHANGED locks
           \/ /\ ~Owns(r, n)
              /\ Forget(r, {n})
              /\ UNCHANGED semaphore
    /\ Return(r)
    /\ UNCHANGED <<now, active>>

\* INSERT fails on the primary key when somebody has a row; the first failure
\* goes on to lock_may_be_available(), the second returns FALSE.
Insert(r) ==
    /\ Calling(r, "insert")
    /\ LET n == call[r].name
           e == call[r].expire
       IN  \/ /\ semaphore[n] = NoRow
              /\ semaphore' = [semaphore EXCEPT
                                 ![n] = [value |-> r, expire |-> e]]
              /\ locks' = [locks EXCEPT ![r] = @ \cup {n}]
              /\ lease' = [lease EXCEPT ![r][n] = e]
              /\ Return(r)
           \/ /\ semaphore[n] # NoRow
              /\ IF call[r].retry
                   THEN Return(r)
                   ELSE Goto(r, [call[r] EXCEPT !.step = "select"])
              /\ UNCHANGED <<semaphore, locks, lease>>
    /\ UNCHANGED <<now, active>>

\* Mistake: lock_wait() goes on polling when its delay is used up.
AnswerForever(r, available) ==
    IF call[r].kind = "acquire"
      THEN IF available
             THEN Goto(r, [call[r] EXCEPT !.step = "insert", !.retry = TRUE,
                                          !.seen = NoRow])
             ELSE Return(r)
      ELSE IF available
             THEN Return(r)
             ELSE Goto(r, [call[r] EXCEPT !.step = "sleep", !.seen = NoRow])

\* What the caller of lock_may_be_available() does with the answer.
Answer(r, available) ==
    IF call[r].kind = "acquire"
      THEN IF available
             THEN Goto(r, [call[r] EXCEPT !.step = "insert", !.retry = TRUE,
                                          !.seen = NoRow])
             ELSE Return(r)
      ELSE IF available \/ call[r].polls = 0
             THEN Return(r)
             ELSE Goto(r, [call[r] EXCEPT !.step = "sleep", !.seen = NoRow])

\* SELECT expire, value: a missing row makes the lock available at once.
Select(r) ==
    /\ Calling(r, "select")
    /\ \/ /\ semaphore[call[r].name] = NoRow
          /\ Answer(r, TRUE)
       \/ /\ semaphore[call[r].name] # NoRow
          /\ Goto(r, [call[r] EXCEPT !.step = "break",
                                    !.seen = semaphore[call[r].name]])
    /\ UNCHANGED <<now, semaphore, locks, lease, active>>

\* Mistake: the DELETE does not look at the expiry of the row.
BreakableRenewed(n, seen) == /\ semaphore[n] # NoRow
                             /\ semaphore[n].value = seen.value

\* The row that DELETE ... WHERE name, value, expire removes: still the one
\* that was read, and not renewed since.
Breakable(n, seen) ==
    /\ semaphore[n] # NoRow
    /\ semaphore[n].value = seen.value
    /\ semaphore[n].expire <= seen.expire + Tolerance

\* An expired row is deleted on those conditions; a live one is left alone.
Break(r) ==
    /\ Calling(r, "break")
    /\ LET n == call[r].name
           seen == call[r].seen
       IN  \/ /\ now > seen.expire
              /\ Breakable(n, seen)
              /\ semaphore' = [semaphore EXCEPT ![n] = NoRow]
              /\ Answer(r, TRUE)
           \/ /\ now <= seen.expire \/ ~Breakable(n, seen)
              /\ Answer(r, FALSE)
              /\ UNCHANGED semaphore
    /\ UNCHANGED <<now, locks, lease, active>>

\* lock_wait() sleeps, polls, and gives up when its delay is used up.  The
\* delay is counted in polls: it shrinks by the length of every sleep.
Wait(r, n, p) ==
    /\ Idle(r)
    /\ Goto(r,
         [step |-> "sleep", kind |-> "wait", name |-> n, expire |-> 0,
          retry |-> FALSE, seen |-> NoRow, polls |-> p])
    /\ UNCHANGED <<now, semaphore, locks, lease, active>>

\* Mistake: the sleep is not taken off the delay.
WakeUpForever(r) ==
    /\ Calling(r, "sleep")
    /\ Goto(r, [call[r] EXCEPT !.step = "select"])
    /\ UNCHANGED <<now, semaphore, locks, lease, active>>

WakeUp(r) ==
    /\ Calling(r, "sleep")
    /\ Goto(r, [call[r] EXCEPT !.step = "select", !.polls = @ - 1])
    /\ UNCHANGED <<now, semaphore, locks, lease, active>>

\* Mistake: the DELETE does not look at the owner of the row.
ReleaseAnyones(r, n) ==
    /\ Idle(r)
    /\ Forget(r, {n})
    /\ semaphore' = [semaphore EXCEPT ![n] = NoRow]
    /\ UNCHANGED <<now, call, active>>

\* Mistake: the lock is forgotten, but its row is not deleted.
ReleaseForgotten(r, n) ==
    /\ Idle(r)
    /\ Forget(r, {n})
    /\ UNCHANGED <<now, semaphore, call, active>>

\* lock_release() forgets the lock and deletes the row if it is still ours.
Release(r, n) ==
    /\ Idle(r)
    /\ Forget(r, {n})
    /\ semaphore' = IF Owns(r, n) THEN [semaphore EXCEPT ![n] = NoRow]
                                  ELSE semaphore
    /\ UNCHANGED <<now, call, active>>

\* lock_release_all(), the shutdown function: it runs however the request
\* ends, between any two of its statements.
End(r) ==
    /\ r \in active
    /\ active' = active \ {r}
    /\ Forget(r, Names)
    /\ semaphore' = [n \in Names |-> IF Owns(r, n) THEN NoRow
                                                   ELSE semaphore[n]]
    /\ Return(r)
    /\ UNCHANGED now

\* The process dies with no shutdown function: its rows stay in the table.
Crash(r) ==
    /\ r \in active
    /\ active' = active \ {r}
    /\ Forget(r, Names)
    /\ Return(r)
    /\ UNCHANGED <<now, semaphore>>

Tick ==
    /\ now < MaxTime
    /\ now' = now + 1
    /\ UNCHANGED <<semaphore, locks, lease, call, active>>

\* The steps of a request inside lock.inc, and those its caller chooses.
Step(r) == Renew(r) \/ Insert(r) \/ Select(r) \/ Break(r) \/ WakeUp(r)

Request(r) ==
    \/ \E n \in Names, t \in Timeouts : Acquire(r, n, t)
    \/ \E n \in Names, p \in 1..MaxPolls : Wait(r, n, p)
    \/ \E n \in Names : Release(r, n)
    \/ End(r)
    \/ Crash(r)

Next == Tick \/ \E r \in Requests : Step(r) \/ Request(r)

Spec == Init /\ [][Next]_vars

\* A request that is inside a function of lock.inc keeps executing it: PHP
\* runs the script to its end unless the process is killed.
FairSpec == Spec /\ \A r \in Requests : WF_vars(Step(r))

-----------------------------------------------------------------------------
\* A request about to break a lock has read the row it wants to delete, and
\* one that sleeps has delay left: the invariants below rest on it.
CallOK ==
    \A r \in Requests : /\ (Calling(r, "break") => call[r].seen # NoRow)
                         /\ (Calling(r, "sleep") => call[r].polls > 0)

\* Request r may rely on lock n: it was told that it has the lock, and the
\* lease it was granted is not over, but for the float slack.
Guaranteed(r, n) == /\ n \in locks[r]
                    /\ now + Tolerance <= lease[r][n]

\* Mutual exclusion: within their leases no two requests rely on the same
\* lock, whatever breaks, renewals, retries and crashes come between the
\* SELECT and the DELETE of lock_may_be_available().
LeaseExclusion ==
    \A n \in Names : \A r1, r2 \in Requests :
        Guaranteed(r1, n) /\ Guaranteed(r2, n) => r1 = r2

\* A lease that is relied on is backed by the row of the table: nobody
\* deleted it or put another request's row in its place.
LeaseBacked ==
    \A n \in Names, r \in Requests :
        Guaranteed(r, n) =>
            semaphore[n] = [value |-> r, expire |-> lease[r][n]]

\* Every row is known to the request it names, unless that request crashed:
\* a request that goes on or ended orderly leaves no lock behind by mistake.
NoForgottenRow ==
    \A n \in Names, r \in active : Owns(r, n) => n \in locks[r]

\* A step of request r: it moves in lock.inc, changes its $locks, or ends.
Acts(r) == call'[r] # call[r] \/ locks'[r] # locks[r] \/ r \in active \ active'

\* "We check two conditions to prevent a race condition" (lock.inc:161): a row
\* whose lease is not over, but for the float slack, is renewed or deleted by
\* its holder alone, and if that died by nobody, whatever others have read of
\* the row before.
LeaseKept ==
    [][\A n \in Names :
         /\ semaphore[n] # NoRow /\ semaphore'[n] # semaphore[n]
         /\ now + Tolerance <= semaphore[n].expire
         => /\ semaphore[n].value \in active /\ Acts(semaphore[n].value)
            /\ semaphore'[n] # NoRow => semaphore'[n].value = semaphore[n].value]_vars

\* Every call returns, lock_wait() too: even if others take and leave the lock
\* all the time, so that the polls never find it free.
CallReturns ==
    \A r \in Requests : (call[r] # NoCall) ~> (call[r] = NoCall)

\* The statements that a call may still make: one to renew, at most four to
\* acquire, and three for each poll that lock_wait() has left.
StatementsLeft(c) ==
    IF c = NoCall THEN 0
    ELSE IF c.kind = "wait"
      THEN 3 * c.polls + (CASE c.step = "select" -> 2
                            [] c.step = "break" -> 1
                            [] OTHER -> 0)
      ELSE CASE c.step = "insert" /\ ~c.retry -> 4
             [] c.step = "select" -> 3
             [] c.step = "break" -> 2
             [] OTHER -> 1

\* No retry goes round: whatever other requests do meanwhile, every statement
\* of a call of lock.inc brings that call nearer to its return.
CallsShrink ==
    [][\A r \in Requests :
         call[r] # NoCall /\ call'[r] # call[r] =>
             StatementsLeft(call'[r]) < StatementsLeft(call[r])]_vars

\* The statements of lock.inc implement the leases its header promises.
Lease == INSTANCE LeaseLock WITH row <- semaphore

ImplementsLease == Lease!Spec
=============================================================================
