----------------------------- MODULE VariableCache -----------------------------
(***************************************************************************)
(* variable_initialize() and variable_set() of includes/bootstrap.inc: the *)
(* {variable} table and the row of the bootstrap cache that is built from  *)
(* it.  A lock keeps requests from building the row all at once; nothing   *)
(* keeps a request from building it while another sets a variable.  The    *)
(* row of that lock is written by steps of LeaseLock.                      *)
(***************************************************************************)
EXTENDS Naturals, FiniteSets

CONSTANTS
    Requests,   \* page requests; each one boots once
    LeaseTime,  \* 1 s, the lease of lock "variable_init"
    MaxSets,    \* bound: the calls of variable_set()
    MaxTime,    \* bound: where the clock stops
    NoRow       \* no {semaphore} row, no {cache_bootstrap} row

ASSUME VariableAssumption ==
    /\ {LeaseTime, MaxSets, MaxTime} \subseteq Nat
    /\ NoRow \notin [value : Requests, expire : Nat]
    /\ NoRow \notin [data : Nat, late : BOOLEAN]

VARIABLES
    now,        \* the clock
    semaphore,  \* the {semaphore} row of lock "variable_init", or NoRow
    active,     \* requests that have neither ended nor died
    table,      \* the {variable} table, as the number of changes made to it
    cache,      \* the row "variables" of {cache_bootstrap}, or NoRow
    req,        \* req[r]: where request r is, with its locals
    cut         \* history: a request died inside variable_set(), and the
                \* cache has not been cleared since

vars == <<now, semaphore, active, table, cache, req, cut>>

Lock == INSTANCE LeaseLock
          WITH Names <- {"variable_init"}, Tolerance <- 0, row <- semaphore

\* The next statement of a request and its locals: the end of its lease, the
\* row of the lock that it has read, the $variables it has, and (history)
\* whether the row of the cache was cleared after they were read.  That row has
\* the same history flag.
Request == [step : {"get", "acquire", "insert", "look", "break", "again",
                    "wait", "read", "store", "unlock", "ready", "clear"},
            lease : Nat, seen : [value : Requests, expire : Nat] \cup {NoRow},
            variables : Nat, late : BOOLEAN]

TypeOK ==
    /\ now \in Nat
    /\ semaphore \in [{"variable_init"} ->
                        [value : Requests, expire : Nat] \cup {NoRow}]
    /\ active \subseteq Requests
    /\ table \in 0..MaxSets
    /\ cache \in [data : 0..table, late : BOOLEAN] \cup {NoRow}
    /\ req \in [Requests -> Request]
    /\ \A r \in Requests : req[r].variables <= table
    /\ cut \in BOOLEAN

Start == [step |-> "get", lease |-> 0, seen |-> NoRow, variables |-> 0,
          late |-> FALSE]

Init ==
    /\ Lock!Init
    /\ table = 0
    /\ cache = NoRow
    /\ req = [r \in Requests |-> Start]
    /\ cut = FALSE

At(r, step) == r \in active /\ req[r].step = step

Goto(r, c) == req' = [req EXCEPT ![r] = c]

-----------------------------------------------------------------------------
\* cache_get('variables', 'cache_bootstrap')
Get(r) ==
    /\ At(r, "get")
    /\ Goto(r, IF cache = NoRow
                 THEN [req[r] EXCEPT !.step = "acquire"]
                 ELSE [req[r] EXCEPT !.step = "ready",
                                     !.variables = cache.data])
    /\ UNCHANGED <<now, semaphore, active, table, cache, cut>>

\* lock_acquire('variable_init', 1) computes the end of the lease when it is
\* called.
LockAcquire(r) ==
    /\ At(r, "acquire")
    /\ Goto(r, [req[r] EXCEPT !.step = "insert", !.lease = now + LeaseTime])
    /\ UNCHANGED <<now, semaphore, active, table, cache, cut>>

\* The INSERT succeeds, the first time or after lock_may_be_available().
LockGranted(r) ==
    /\ At(r, "insert") \/ At(r, "again")
    /\ semaphore' = [semaphore EXCEPT !["variable_init"] =
                       [value |-> r, expire |-> req[r].lease]]
    /\ Lock!Grant(r, "variable_init")
    /\ Goto(r, [req[r] EXCEPT !.step = "read"])
    /\ UNCHANGED <<table, cache, cut>>

\* It fails the first time.
LockTaken(r) ==
    /\ At(r, "insert")
    /\ semaphore["variable_init"] # NoRow
    /\ Goto(r, [req[r] EXCEPT !.step = "look"])
    /\ UNCHANGED <<now, semaphore, active, table, cache, cut>>

\* The SELECT of lock_may_be_available(): without a row the lock is available.
LockLooked(r) ==
    /\ At(r, "look")
    /\ Goto(r, [req[r] EXCEPT
                  !.step = IF semaphore["variable_init"] = NoRow THEN "again"
                                                                ELSE "break",
                  !.seen = semaphore["variable_init"]])
    /\ UNCHANGED <<now, semaphore, active, table, cache, cut>>

\* Mistake: the DELETE looks for a row of the request itself, and finds none.
LockKept(r) ==
    /\ At(r, "break")
    /\ now > req[r].seen.expire /\ semaphore["variable_init"] = req[r].seen
    /\ Goto(r, [Start EXCEPT !.step = "wait"])
    /\ UNCHANGED <<now, semaphore, active, table, cache, cut>>

\* The DELETE: the row has expired and is still the one that was read.
LockBroken(r) ==
    /\ At(r, "break")
    /\ now > req[r].seen.expire /\ semaphore["variable_init"] = req[r].seen
    /\ Lock!Expire("variable_init")
    /\ Goto(r, [req[r] EXCEPT !.step = "again", !.seen = NoRow])
    /\ UNCHANGED <<table, cache, cut>>

\* The row is live, or the DELETE finds it gone, or the second INSERT fails.
Refused(r) ==
    \/ /\ At(r, "break")
       /\ \/ now <= req[r].seen.expire
          \/ semaphore["variable_init"] # req[r].seen
    \/ /\ At(r, "again")
       /\ semaphore["variable_init"] # NoRow

\* Mistake: the request rebuilds the row although it was refused the lock.
LockIgnored(r) ==
    /\ Refused(r)
    /\ Goto(r, [req[r] EXCEPT !.step = "read", !.seen = NoRow])
    /\ UNCHANGED <<now, semaphore, active, table, cache, cut>>

\* lock_acquire() returns FALSE.
LockRefused(r) ==
    /\ Refused(r)
    /\ Goto(r, [Start EXCEPT !.step = "wait"])
    /\ UNCHANGED <<now, semaphore, active, table, cache, cut>>

\* lock_wait() returns, sooner or later, and the function calls itself.
Wait(r) ==
    /\ At(r, "wait")
    /\ Goto(r, Start)
    /\ UNCHANGED <<now, semaphore, active, table, cache, cut>>

\* It returns because it has broken the lock.
WaitBreaks(r) ==
    /\ At(r, "wait")
    /\ Lock!Expire("variable_init")
    /\ Goto(r, Start)
    /\ UNCHANGED <<table, cache, cut>>

\* SELECT name, value FROM {variable}
Read(r) ==
    /\ At(r, "read")
    /\ Goto(r, [req[r] EXCEPT !.step = "store", !.variables = table])
    /\ UNCHANGED <<now, semaphore, active, table, cache, cut>>

\* cache_set('variables', ...), whatever has been cleared since.
Store(r) ==
    /\ At(r, "store")
    /\ cache' = [data |-> req[r].variables, late |-> req[r].late]
    /\ Goto(r, [req[r] EXCEPT !.step = "unlock", !.late = FALSE])
    /\ UNCHANGED <<now, semaphore, active, table, cut>>

Owned(r) == {n \in {"variable_init"} : semaphore[n] # NoRow
                                        /\ semaphore[n].value = r}

\* lock_release() leaves the lock alone when another request broke it.
Unlock(r) ==
    /\ At(r, "unlock")
    /\ UNCHANGED active
    /\ Lock!GiveUp(r, Owned(r))
    /\ Goto(r, [req[r] EXCEPT !.step = "ready", !.lease = 0])
    /\ UNCHANGED <<table, cache, cut>>

\* variable_set() merges the row of the variable ...
Merge(r) ==
    /\ At(r, "ready")
    /\ table < MaxSets
    /\ table' = table + 1
    /\ Goto(r, [req[r] EXCEPT !.step = "clear"])
    /\ UNCHANGED <<now, semaphore, active, cache, cut>>

\* Mistake: the row is emptied, not deleted.
ClearData(r) ==
    /\ At(r, "clear")
    /\ cache' = [data |-> NoRow, late |-> FALSE]
    /\ cut' = FALSE
    /\ Goto(r, [req[r] EXCEPT !.step = "ready"])
    /\ UNCHANGED <<now, semaphore, active, table>>

\* Mistake: the cache is not cleared.
ClearNothing(r) ==
    /\ At(r, "clear")
    /\ cut' = FALSE
    /\ Goto(r, [req[r] EXCEPT !.step = "ready"])
    /\ UNCHANGED <<now, semaphore, active, table, cache>>

\* ... and then clears the cache.  Those who have read the table but have not
\* stored what they read are late from now on.
Clear(r) ==
    /\ At(r, "clear")
    /\ cache' = NoRow
    /\ cut' = FALSE
    /\ req' = [q \in Requests |->
                 IF q = r THEN [req[r] EXCEPT !.step = "ready"]
                 ELSE IF At(q, "store") THEN [req[q] EXCEPT !.late = TRUE]
                 ELSE req[q]]
    /\ UNCHANGED <<now, semaphore, active, table>>

\* The request comes to its end or is stopped: the shutdown function releases
\* the lock.
Leave(r) ==
    /\ active' = active \ {r}
    /\ Goto(r, Start)
    /\ cut' = (cut \/ At(r, "clear"))
    /\ UNCHANGED <<table, cache>>

End(r) ==
    /\ At(r, "ready")
    /\ Leave(r)
    /\ Lock!GiveUp(r, Owned(r))

Abort(r) ==
    /\ r \in active
    /\ Leave(r)
    /\ Lock!GiveUp(r, Owned(r))

\* The process is killed; with the clock that is bounded, early enough for its
\* lease to end.
Kill(r) ==
    /\ r \in active
    /\ \A n \in Owned(r) : semaphore[n].expire < MaxTime
    /\ Leave(r)
    /\ Lock!Die(r)

Tick ==
    /\ now < MaxTime
    /\ Lock!Pass
    /\ UNCHANGED <<table, cache, req, cut>>

Step(r) ==
    \/ Get(r) \/ LockAcquire(r) \/ LockGranted(r) \/ LockTaken(r) \/ LockLooked(r)
    \/ LockBroken(r) \/ LockRefused(r) \/ Wait(r) \/ WaitBreaks(r)
    \/ Read(r) \/ Store(r) \/ Unlock(r) \/ Clear(r) \/ End(r)

Next == Tick \/ \E r \in Requests : Step(r) \/ Merge(r) \/ Abort(r) \/ Kill(r)

Spec == Init /\ [][Next]_vars

\* Requests execute their statements, and time passes.
FairSpec == Spec /\ WF_vars(Tick) /\ \A r \in Requests : WF_vars(Step(r))

-----------------------------------------------------------------------------
\* "Avoid a stampede" (bootstrap.inc:1192): two requests rebuild the row at the
\* same time only when one of them has overrun the second of its lease.
Rebuilding(r) == /\ \/ At(r, "read") \/ At(r, "store") \/ At(r, "unlock")
                 /\ now <= req[r].lease

NoStampede ==
    \A r1, r2 \in Requests : Rebuilding(r1) /\ Rebuilding(r2) => r1 = r2

\* A stale row has one of three causes: a request read the table before a
\* variable was set and stored the row after it was cleared; somebody is
\* between the two statements of variable_set(); or somebody died there.
StaleOnlyByRace ==
    (cache # NoRow /\ cache.data # table) =>
        cache.late \/ cut \/ \E r \in Requests : At(r, "clear")

\* Every request gets its variables or ends, although the lock is taken and
\* broken, its holders die, and the row it waits for is cleared again.
RequestsBoot ==
    \A r \in Requests : <>(At(r, "ready") \/ r \notin active)
=============================================================================
