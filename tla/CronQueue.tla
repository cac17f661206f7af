------------------------------ MODULE CronQueue ------------------------------
(***************************************************************************)
(* drupal_cron_run() of includes/common.inc and the {queue} table of       *)
(* SystemQueue.  Cron runs are started by visitors, by a crontab and by    *)
(* administrators, so several may be under way; the cron lock keeps their  *)
(* hooks apart, but every run processes the queue, also one that was       *)
(* refused the lock.  The row of the lock is written by steps of LeaseLock. *)
(***************************************************************************)
EXTENDS Naturals, FiniteSets

CONSTANTS
    Runs,       \* page requests that call drupal_cron_run(), once each
    MaxItems,   \* bound: the items producers create
    CronTime,   \* 240 s, the lease of the cron lock
    LeaseTime,  \* 30 s, the lease of claimItem()
    QueueTime,  \* 15 s, the time a run spends claiming items
    MaxTime,    \* bound: where the clock stops
    NoRow,      \* no {semaphore} row
    NoItem      \* not working on an item

ASSUME QueueAssumption ==
    /\ {MaxItems, CronTime, LeaseTime, QueueTime, MaxTime} \subseteq Nat
    /\ LeaseTime > 0
    /\ NoItem \notin Nat
    /\ NoRow \notin [value : Runs, expire : Nat]

VARIABLES
    now,        \* time(), the clock of every process
    semaphore,  \* the {semaphore} row of lock "cron", or NoRow
    active,     \* runs that have neither ended nor died
    queue,      \* {queue}: item_id -> expire of the rows of one queue
    created,    \* item_ids 1..created have been handed out
    run,        \* run[r]: where run r is, with its locals
    done        \* history: the items a worker callback returned from

vars == <<now, semaphore, active, queue, created, run, done>>

Lock == INSTANCE LeaseLock
          WITH Requests <- Runs, Names <- {"cron"}, Tolerance <- 0,
               row <- semaphore

Items == 1..MaxItems

\* The next statement of a run and its locals: REQUEST_TIME, the end of its
\* lease on the cron lock, the row of the lock that it has read, $end, $item and
\* the end of its lease on $item.
Run == [step : {"start", "acquire", "insert", "look", "break", "again",
                "hooks", "unlock", "queue", "select", "update", "work",
                "delete"},
        request : Nat, lock : Nat,
        seen : [value : Runs, expire : Nat] \cup {NoRow}, end : Nat,
        item : Items \cup {NoItem}, lease : Nat]

Idle == [step |-> "start", request |-> 0, lock |-> 0, seen |-> NoRow, end |-> 0,
         item |-> NoItem, lease |-> 0]

TypeOK ==
    /\ now \in Nat
    /\ semaphore \in [{"cron"} -> [value : Runs, expire : Nat] \cup {NoRow}]
    /\ active \subseteq Runs
    /\ created \in 0..MaxItems
    /\ DOMAIN queue \subseteq 1..created
    /\ queue \in [DOMAIN queue -> Nat]
    /\ run \in [Runs -> Run]
    /\ done \subseteq 1..created

Init ==
    /\ Lock!Init
    /\ queue = [i \in {} |-> 0]
    /\ created = 0
    /\ run = [r \in Runs |-> Idle]
    /\ done = {}

At(r, step) == r \in active /\ run[r].step = step

Goto(r, c) == run' = [run EXCEPT ![r] = c]

\* The items claimItem() may return: SELECT ... WHERE expire = 0.
Free == {i \in DOMAIN queue : queue[i] = 0}

Put(i, expire) == queue' = [queue EXCEPT ![i] = expire]

-----------------------------------------------------------------------------
\* createItem(), called by hook_cron implementations and by page requests.
CreateItem ==
    /\ created < MaxItems
    /\ created' = created + 1
    /\ queue' = [i \in DOMAIN queue \cup {created'} |->
                   IF i = created' THEN 0 ELSE queue[i]]
    /\ UNCHANGED <<now, semaphore, active, run, done>>

\* The request of a cron run begins, and fixes REQUEST_TIME.
Begin(r) ==
    /\ At(r, "start")
    /\ Goto(r, [run[r] EXCEPT !.step = "acquire", !.request = now])
    /\ UNCHANGED <<now, semaphore, active, queue, created, done>>

\* lock_acquire('cron', 240.0) computes the end of the lease when it is called.
LockAcquire(r) ==
    /\ At(r, "acquire")
    /\ Goto(r, [run[r] EXCEPT !.step = "insert", !.lock = now + CronTime])
    /\ UNCHANGED <<now, semaphore, active, queue, created, done>>

\* The INSERT succeeds, the first time or after lock_may_be_available().
LockGranted(r) ==
    /\ At(r, "insert") \/ At(r, "again")
    /\ semaphore' = [semaphore EXCEPT
                       !["cron"] = [value |-> r, expire |-> run[r].lock]]
    /\ Lock!Grant(r, "cron")
    /\ Goto(r, [run[r] EXCEPT !.step = "hooks"])
    /\ UNCHANGED <<queue, created, done>>

\* It fails the first time.
LockTaken(r) ==
    /\ At(r, "insert")
    /\ semaphore["cron"] # NoRow
    /\ Goto(r, [run[r] EXCEPT !.step = "look"])
    /\ UNCHANGED <<now, semaphore, active, queue, created, done>>

\* The SELECT of lock_may_be_available(): without a row the lock is available.
LockLooked(r) ==
    /\ At(r, "look")
    /\ Goto(r, [run[r] EXCEPT
                  !.step = IF semaphore["cron"] = NoRow THEN "again" ELSE "break",
                  !.seen = semaphore["cron"]])
    /\ UNCHANGED <<now, semaphore, active, queue, created, done>>

\* The DELETE: the row has expired and is still the one that was read.
LockBroken(r) ==
    /\ At(r, "break")
    /\ now > run[r].seen.expire /\ semaphore["cron"] = run[r].seen
    /\ Lock!Expire("cron")
    /\ Goto(r, [run[r] EXCEPT !.step = "again", !.seen = NoRow])
    /\ UNCHANGED <<queue, created, done>>

\* The row is live, or the DELETE finds it gone, or the second INSERT fails.
Refused(r) ==
    \/ /\ At(r, "break")
       /\ now <= run[r].seen.expire \/ semaphore["cron"] # run[r].seen
    \/ /\ At(r, "again")
       /\ semaphore["cron"] # NoRow

\* Mistake: the run ignores that it was refused the lock.
LockIgnored(r) ==
    /\ Refused(r)
    /\ Goto(r, [run[r] EXCEPT !.step = "hooks", !.seen = NoRow])
    /\ UNCHANGED <<now, semaphore, active, queue, created, done>>

\* lock_acquire() returns FALSE, and the run goes on to the queues.
LockRefused(r) ==
    /\ Refused(r)
    /\ Goto(r, [run[r] EXCEPT !.step = "queue", !.request = 0, !.lock = 0,
                              !.seen = NoRow, !.end = now + QueueTime])
    /\ UNCHANGED <<now, semaphore, active, queue, created, done>>

\* Mistake: the reset takes every lease for an expired one.
HooksResetAll(r) ==
    /\ At(r, "hooks")
    /\ queue' = [i \in DOMAIN queue |-> 0]
    /\ Goto(r, [run[r] EXCEPT !.step = "unlock", !.request = 0])
    /\ UNCHANGED <<now, semaphore, active, created, done>>

\* The cron hooks: system_cron() resets the expired leases with its last
\* statement, unless one before it throws; drupal_cron_run() catches that.
Hooks(r) ==
    /\ At(r, "hooks")
    /\ \/ queue' = [i \in DOMAIN queue |->
                      IF queue[i] < run[r].request THEN 0 ELSE queue[i]]
       \/ UNCHANGED queue
    /\ Goto(r, [run[r] EXCEPT !.step = "unlock", !.request = 0])
    /\ UNCHANGED <<now, semaphore, active, created, done>>

\* The locks of the table that run r still owns.
Owned(r) == {n \in {"cron"} : semaphore[n] # NoRow /\ semaphore[n].value = r}

\* lock_release('cron') leaves the lock alone when another run broke it.
Unlock(r) ==
    /\ At(r, "unlock")
    /\ UNCHANGED active
    /\ Lock!GiveUp(r, Owned(r))
    /\ Goto(r, [run[r] EXCEPT !.step = "queue", !.lock = 0,
                              !.end = now + QueueTime])
    /\ UNCHANGED <<queue, created, done>>

\* while (time() < $end && ($item = $queue->claimItem()))
Loop(r) ==
    /\ At(r, "queue")
    /\ now < run[r].end
    /\ Goto(r, [run[r] EXCEPT !.step = "select"])
    /\ UNCHANGED <<now, semaphore, active, queue, created, done>>

\* Mistake: the SELECT finds items that others have claimed.
SelectClaimed(r) ==
    /\ At(r, "select")
    /\ \E i \in DOMAIN queue :
         /\ \A j \in DOMAIN queue : i <= j
         /\ Goto(r, [run[r] EXCEPT !.step = "update", !.item = i])
    /\ UNCHANGED <<now, semaphore, active, queue, created, done>>

\* The SELECT of claimItem() finds the oldest item nobody has claimed.
Select(r) ==
    /\ At(r, "select")
    /\ \E i \in Free :
         /\ \A j \in Free : i <= j
         /\ Goto(r, [run[r] EXCEPT !.step = "update", !.item = i])
    /\ UNCHANGED <<now, semaphore, active, queue, created, done>>

\* Mistake: the UPDATE is not conditional.
UpdateClaimed(r) ==
    /\ At(r, "update")
    /\ Put(run[r].item, now + LeaseTime)
    /\ Goto(r, [run[r] EXCEPT !.step = "work", !.lease = now + LeaseTime])
    /\ UNCHANGED <<now, semaphore, active, created, done>>

\* The conditional UPDATE of claimItem(); it starts again when another run
\* was faster.
Update(r) ==
    /\ At(r, "update")
    /\ LET i == run[r].item
       IN  \/ /\ i \in Free
              /\ Put(i, now + LeaseTime)
              /\ Goto(r, [run[r] EXCEPT !.step = "work",
                                        !.lease = now + LeaseTime])
           \/ /\ i \notin Free
              /\ Goto(r, [run[r] EXCEPT !.step = "select", !.item = NoItem])
              /\ UNCHANGED queue
    /\ UNCHANGED <<now, semaphore, active, created, done>>

\* The worker callback returns, however long it took.
Work(r) ==
    /\ At(r, "work")
    /\ done' = done \cup {run[r].item}
    /\ Goto(r, [run[r] EXCEPT !.step = "delete"])
    /\ UNCHANGED <<now, semaphore, active, queue, created>>

\* Mistake: the item is deleted although the callback threw.
FailAndDelete(r) ==
    /\ At(r, "work")
    /\ queue' = [i \in DOMAIN queue \ {run[r].item} |-> queue[i]]
    /\ Goto(r, [run[r] EXCEPT !.step = "queue", !.item = NoItem, !.lease = 0])
    /\ UNCHANGED <<now, semaphore, active, created, done>>

\* It throws instead: the item stays in the table, leased.
Fail(r) ==
    /\ At(r, "work")
    /\ Goto(r, [run[r] EXCEPT !.step = "queue", !.item = NoItem, !.lease = 0])
    /\ UNCHANGED <<now, semaphore, active, queue, created, done>>

\* deleteItem() deletes the row whoever has claimed it by now.
DeleteItem(r) ==
    /\ At(r, "delete")
    /\ queue' = [i \in DOMAIN queue \ {run[r].item} |-> queue[i]]
    /\ Goto(r, [run[r] EXCEPT !.step = "queue", !.item = NoItem, !.lease = 0])
    /\ UNCHANGED <<now, semaphore, active, created, done>>

\* What lock_release_all() and the death of the process leave of a run.
Gone(r) ==
    /\ active' = active \ {r}
    /\ Goto(r, Idle)
    /\ UNCHANGED <<queue, created, done>>

\* The loop ends when its time is over or nothing is left to claim.
Finish(r) ==
    /\ \/ At(r, "queue") /\ now >= run[r].end
       \/ At(r, "select") /\ Free = {}
    /\ Gone(r)
    /\ Lock!GiveUp(r, Owned(r))

\* PHP stops the run between two statements, out of time or memory: the
\* shutdown function releases the lock.
Abort(r) ==
    /\ r \in active
    /\ Gone(r)
    /\ Lock!GiveUp(r, Owned(r))

\* The process is killed.
Kill(r) ==
    /\ r \in active
    /\ Gone(r)
    /\ Lock!Die(r)

Tick ==
    /\ now < MaxTime
    /\ Lock!Pass
    /\ UNCHANGED <<queue, created, run, done>>

\* The statements of a run.
Step(r) ==
    \/ Begin(r) \/ LockAcquire(r) \/ LockGranted(r) \/ LockTaken(r)
    \/ LockLooked(r) \/ LockBroken(r) \/ LockRefused(r)
    \/ Hooks(r) \/ Unlock(r)
    \/ Loop(r) \/ Select(r) \/ Update(r) \/ Work(r) \/ Fail(r)
    \/ DeleteItem(r) \/ Finish(r)

Next == \/ CreateItem
        \/ Tick
        \/ \E r \in Runs : Step(r) \/ Abort(r) \/ Kill(r)

Spec == Init /\ [][Next]_vars

\* A run that was started executes its statements: PHP keeps running the
\* script, also when the browser goes away (ignore_user_abort).
FairSpec == Spec /\ \A r \in Runs : WF_vars(Step(r))

-----------------------------------------------------------------------------
\* The locals of a run make sense: the item it is about to claim, works on or
\* deletes exists, its callback has returned before it is deleted, and
\* REQUEST_TIME is not in the future.  The invariants below rest on it.
RunOK ==
    \A r \in Runs :
        /\ run[r].request <= now
        /\ run[r].step \in {"update", "work", "delete"} =>
              run[r].item \in 1..created
        /\ run[r].step \in {"work", "delete"} => run[r].lease > 0
        /\ run[r].step = "delete" => run[r].item \in done

\* Run r is working on item i within the lease it claimed it for.
Leased(r, i) ==
    /\ r \in active
    /\ run[r].step \in {"work", "delete"}
    /\ run[r].item = i
    /\ now <= run[r].lease

\* At least once: an item leaves the table only after a worker callback has
\* returned from it, whichever runs crashed, threw, overran their leases or
\* deleted an item that another run has claimed again since.
NoLostItem ==
    \A i \in 1..created : i \in DOMAIN queue \/ i \in done

\* Until its lease is over an item is the worker's own: no other run works on
\* it within a lease, although the SELECT, the UPDATE and the reset of expired
\* leases in other runs come between its own statements.
ExclusiveClaim ==
    \A r1, r2 \in Runs, i \in Items :
        Leased(r1, i) /\ Leased(r2, i) => r1 = r2

\* What keeps the others away is the row: it carries the lease, unless an
\* earlier worker overran its own lease and deleted the item when it was done.
ClaimBacked ==
    \A r \in Runs, i \in Items :
        Leased(r, i) => (i \in DOMAIN queue /\ queue[i] = run[r].lease)
                        \/ (i \notin DOMAIN queue /\ i \in done)

\* The hooks of two runs overlap only when one of them has overrun the 240
\* seconds of the cron lock.
InHooks(r) == At(r, "hooks") /\ now <= run[r].lock

HooksExclusive == \A r1, r2 \in Runs : InHooks(r1) /\ InHooks(r2) => r1 = r2

\* The claim a run has, as one who knows the queue API only would see it.
Claim(r) ==
    IF r \in active /\ run[r].step \in {"work", "delete"}
      THEN [item |-> run[r].item, until |-> run[r].lease]
      ELSE [item |-> NoItem, until |-> 0]

\* The statements of cron runs and of SystemQueue implement the promise of the
\* queue API: items go to one run at a time within its lease, and leave the
\* table only when they are finished.
Queue == INSTANCE LeaseQueue
           WITH Consumers <- Runs, created <- 1..created,
                waiting <- DOMAIN queue, claim <- [r \in Runs |-> Claim(r)]

ImplementsQueue == Queue!Spec

\* claimItem() returns: its while (TRUE) loop starts again only because
\* another run claimed the item that was selected.
ClaimReturns ==
    \A r \in Runs : At(r, "select") ~> ~(At(r, "select") \/ At(r, "update"))
=============================================================================
