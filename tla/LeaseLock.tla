------------------------------ MODULE LeaseLock ------------------------------
(***************************************************************************)
(* What the lock API of includes/lock.inc promises its callers, without    *)
(* the statements it is made of: a named lock is granted only while nobody *)
(* has a row for it, it is given up by its own holder, and it can be taken *)
(* from a holder only when the time it was granted for is over.  The       *)
(* header of lock.inc states this promise at lines 35-54.                  *)
(***************************************************************************)
EXTENDS Naturals

CONSTANTS
    Requests,   \* page requests, each with a lock id of its own
    Names,      \* lock names
    Tolerance,  \* how early a lease may be cut, in clock ticks
    NoRow       \* a name without a lock row

VARIABLES
    now,        \* the clock of the database and web servers
    row,        \* row[n]: who holds lock n and until when, or NoRow
    active      \* the requests that have not ended or crashed

vars == <<now, row, active>>

Init ==
    /\ now = 0
    /\ row = [n \in Names |-> NoRow]
    /\ active = Requests

\* A lock nobody has a row for is granted; the end of the lease was computed
\* before the grant, so it may be in the past already.
Grant(r, n) ==
    /\ r \in active
    /\ row[n] = NoRow
    /\ row'[n] \in [value : {r}, expire : Nat]
    /\ row' = [row EXCEPT ![n] = row'[n]]
    /\ UNCHANGED <<now, active>>

\* The holder renews its lease.
Extend(r, n) ==
    /\ r \in active
    /\ row[n] # NoRow
    /\ row[n].value = r
    /\ row'[n] \in [value : {r}, expire : Nat]
    /\ row' = [row EXCEPT ![n] = row'[n]]
    /\ UNCHANGED <<now, active>>

\* Somebody breaks a lock whose lease is over.
Expire(n) ==
    /\ row[n] # NoRow
    /\ row[n].expire < now + Tolerance
    /\ row' = [row EXCEPT ![n] = NoRow]
    /\ UNCHANGED <<now, active>>

\* A holder gives up some of its own locks, and no one else's.
GiveUp(r, S) ==
    /\ r \in active
    /\ \A n \in S : row[n] # NoRow /\ row[n].value = r
    /\ row' = [n \in Names |-> IF n \in S THEN NoRow ELSE row[n]]
    /\ active' \in {active, active \ {r}}
    /\ UNCHANGED now

\* A request dies without telling anyone: its rows stay behind.
Die(r) ==
    /\ active' = active \ {r}
    /\ UNCHANGED <<now, row>>

Pass == /\ now' = now + 1
        /\ UNCHANGED <<row, active>>

Next ==
    \/ \E r \in Requests, n \in Names : Grant(r, n) \/ Extend(r, n)
    \/ \E n \in Names : Expire(n)
    \/ \E r \in Requests, S \in SUBSET Names : GiveUp(r, S)
    \/ \E r \in Requests : Die(r)
    \/ Pass

Spec == Init /\ [][Next]_vars
=============================================================================
