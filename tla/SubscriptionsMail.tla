--------------------------- MODULE SubscriptionsMail ---------------------------
(***************************************************************************)
(* Mail about content: saving a node queues a row for every subscription   *)
(* of every subscriber, and cron mails what is ready, alone or in digests. *)
(* Nodes are saved, settings change and rights are lost while it runs, a   *)
(* mail may fail, and the run, or the submission of a form that suspends   *)
(* notifications, may die between any two statements.                      *)
(***************************************************************************)
EXTENDS Naturals, FiniteSets

CONSTANTS
    Users,          \* subscribers
    Nodes,          \* nodes they are notified of
    Subscriptions,  \* rows of {subscriptions}: the user, the field and the set
                    \* of the nodes that match
    MaxEvents,      \* bound: how often nodes are saved
    MaxUpsets,      \* bound: changes of settings and rights, failures, deaths
    MaxSubmits,     \* bound: submissions of the form that suspends
    Nothing         \* no queue item

VARIABLES
    events,         \* how often a node was saved; numbers the events
    content,        \* content[n]: the event that wrote what node n says
    queue,          \* {subscriptions_queue}
    digest,         \* digest[u]: what the user asked for, {subscriptions_user}
    default,        \* whether the site default is to send digests
    suspended,      \* the users with suspended notifications, likewise
    viewable,       \* the pairs of a user and a node the user may view
    submitted,      \* how many submissions of the form that suspends
    submits,        \* those that are under way
    torn,           \* history: users for whom a submission was cut between its
                    \* two UPDATEs or crossed another
    upsets,         \* how many changes, failures and deaths
    pc,             \* what cron does next
    item,           \* $queue_item
    inDigest,       \* $digest, which outlives the item it was set for
    standing,       \* $defaults: the site default, once it was read by this run
    items,          \* $digest_data: what the digest says of which nodes
    loaded,         \* $loaded_objects; content 0 says that access was denied
    caught,         \* history: rows of $user were suspended after it was picked
    mails,          \* history: how often a user was told of some content
    owed,           \* history: what was queued for whom
    excused         \* history: what happened that may lose or repeat mails

queueVars == <<events, content, queue>>
settings == <<digest, default, suspended, viewable>>
formVars == <<submitted, submits, torn>>
cronVars == <<pc, item, inDigest, standing, items, loaded, caught>>
vars == <<queueVars, settings, formVars, cronVars, upsets, mails, owed, excused>>

Events == 1..MaxEvents

\* 1, 0 and -1 in the column digest.
Digest == {"digests", "mails", "default"}

\* A row: whom it is for, by which subscription, and about what; the settings
\* of the user as they were then, of which suspended is written later as well;
\* whether last_sent + send_interval is past.
Row == [user : Users, field : {s.field : s \in Subscriptions}, node : Nodes,
        event : Events, digest : Digest, suspended : BOOLEAN, ready : BOOLEAN]

\* A submission: its number, whom it is about, what to store, its next statement.
Submission == [id : 1..MaxSubmits, user : Users, to : BOOLEAN,
               step : {"drop", "user", "queue"}]

ASSUME MailAssumption ==
    /\ {MaxEvents, MaxUpsets, MaxSubmits} \subseteq Nat
    /\ \A s \in Subscriptions : s.user \in Users /\ s.nodes \subseteq Nodes
    /\ Nothing \notin Row

Object == [user : Users, node : Nodes, content : 0..MaxEvents]
Notice == [user : Users, node : Nodes, event : Events]

\* What may lose a mail: one that failed, a run that died, a digest setting
\* that changed, rows that were dropped (of a user); access that was denied, a
\* save after a run had loaded the node (for a user and a node).
Excuses == [why : {"failed", "died", "switched", "dropped"}, user : Users]
             \cup [why : {"denied", "overtaken"}, user : Users, node : Nodes]

Steps == {"off", "scan", "load", "mail", "delete", "next", "digest"}

TypeOK ==
    /\ events \in 0..MaxEvents
    /\ content \in [Nodes -> 0..MaxEvents]
    /\ queue \subseteq Row
    /\ digest \in [Users -> Digest]
    /\ default \in BOOLEAN
    /\ suspended \subseteq Users
    /\ viewable \subseteq Users \X Nodes
    /\ submitted \in 0..MaxSubmits
    /\ submits \subseteq Submission
    /\ torn \subseteq Users
    /\ upsets \in 0..MaxUpsets
    /\ pc \in Steps
    /\ item \in Row \cup {Nothing}
    /\ inDigest \in BOOLEAN
    /\ standing \subseteq BOOLEAN
    /\ items \subseteq Nodes \X Events
    /\ loaded \subseteq Object
    /\ caught \in BOOLEAN
    /\ mails \in [Users \X Nodes \X Events -> Nat]
    /\ owed \subseteq Notice
    /\ excused \subseteq Excuses

Init ==
    /\ events = 0
    /\ content = [n \in Nodes |-> 0]
    /\ queue = {}
    /\ digest \in [Users -> Digest]
    /\ default \in BOOLEAN
    /\ suspended \in SUBSET Users
    /\ viewable = Users \X Nodes
    /\ submitted = 0
    /\ submits = {}
    /\ torn = {}
    /\ upsets = 0
    /\ pc = "off"
    /\ item = Nothing
    /\ inDigest = FALSE
    /\ standing = {}
    /\ items = {}
    /\ loaded = {}
    /\ caught = FALSE
    /\ mails = [m \in Users \X Nodes \X Events |-> 0]
    /\ owed = {}
    /\ excused = {}

-----------------------------------------------------------------------------
Matching(n) == {s \in Subscriptions : n \in s.nodes}

\* subscriptions_content_node_insert() and _update(), subscriptions_queue():
\* a row for each subscription, with the settings of its user.  The INSERTs of
\* the fields are in the transaction of node_save().
Save(n) ==
    /\ events < MaxEvents
    /\ events' = events + 1
    /\ content' = [content EXCEPT ![n] = events']
    /\ queue' = queue \cup
         {[user |-> s.user, field |-> s.field, node |-> n, event |-> events',
           digest |-> digest[s.user], suspended |-> s.user \in suspended,
           ready |-> FALSE] : s \in Matching(n)}
    /\ owed' = owed \cup
         {[user |-> s.user, node |-> n, event |-> events'] : s \in Matching(n)}
    /\ excused' = excused \cup
         {[why |-> "overtaken", user |-> o.user, node |-> n] :
            o \in {m \in loaded : m.node = n}}
    /\ UNCHANGED <<settings, formVars, cronVars, upsets, mails>>

\* q was queued before r by a subscription that r may be from as well.
Before(q, r) ==
    /\ q.event < r.event
    /\ \E s \in Subscriptions : /\ s.user = r.user /\ s.user = q.user
                              /\ s.field = r.field /\ s.field = q.field
                              /\ {q.node, r.node} \subseteq s.nodes

\* The send interval of a row has passed since the mail before it.  last_sent is
\* never set back, so the rows of a subscription are ready in their order.
Ripen(r) ==
    /\ ~r.ready
    /\ \A q \in queue : Before(q, r) => q.ready
    /\ queue' = (queue \ {r}) \cup {[r EXCEPT !.ready = TRUE]}
    /\ UNCHANGED <<events, content, settings, formVars, cronVars, upsets, mails, owed,
                   excused>>

Upset == upsets < MaxUpsets /\ upsets' = upsets + 1

\* Cron is at work on $user.
Working == pc \notin {"off", "scan"}

Change ==
    /\ Upset
    /\ UNCHANGED <<events, content, pc, item, inDigest, standing, items, loaded, mails,
                   owed>>

\* A user asks for digests, for single mails, or for what is the default.
SwitchDigest(u, d) ==
    /\ Change
    /\ d # digest[u]
    /\ digest' = [digest EXCEPT ![u] = d]
    /\ excused' = excused \cup {[why |-> "switched", user |-> u]}
    /\ UNCHANGED <<queue, default, suspended, viewable, formVars, caught>>

\* An administrator changes the site default.
SwitchDefault ==
    /\ Change
    /\ default' = ~default
    /\ excused' = excused \cup [why : {"switched"}, user : Users]
    /\ UNCHANGED <<queue, digest, suspended, viewable, formVars, caught>>

\* subscriptions_purge_queue().
Purge ==
    /\ Change
    /\ queue' = {}
    /\ excused' = excused \cup [why : {"dropped"}, user : Users]
    /\ UNCHANGED <<settings, formVars, caught>>

\* A user may no longer view a node.
Revoke(u, n) ==
    /\ Change
    /\ viewable' = viewable \ {<<u, n>>}
    /\ UNCHANGED <<queue, digest, default, suspended, formVars, caught, excused>>

\* The submission of the form: its statements are no transaction, so cron, saves
\* and other submissions come between.
Handler ==
    UNCHANGED <<events, content, digest, default, viewable, upsets, pc, item,
                inDigest, standing, items, loaded, mails, owed>>

\* Notifications are to be suspended or resumed, by the user or an administrator.
\* "Yes, but drop the queued items" is offered where there are some.
Submit(u, to, drop) ==
    /\ submitted < MaxSubmits /\ submitted' = submitted + 1
    /\ drop => /\ ~to /\ u \in suspended
               /\ \E r \in queue : r.user = u /\ r.suspended
    /\ submits' = submits \cup
         {[id |-> submitted', user |-> u, to |-> to,
           step |-> IF drop THEN "drop" ELSE "user"]}
    /\ Handler /\ UNCHANGED <<queue, suspended, torn, caught, excused>>

\* The suspended rows of the user are deleted,
DropRows(x) ==
    /\ x.step = "drop"
    /\ queue' = {r \in queue : r.user # x.user \/ ~r.suspended}
    /\ submits' = (submits \ {x}) \cup {[x EXCEPT !.step = "user"]}
    /\ excused' = excused \cup {[why |-> "dropped", user |-> x.user]}
    /\ Handler /\ UNCHANGED <<submitted, suspended, torn, caught>>

\* Submissions for a user that have stored the setting and not yet the rows.
Storing(u) == {x \in submits : x.user = u /\ x.step = "queue"}

\* the setting is stored,
StoreUser(x) ==
    /\ x.step = "user"
    /\ suspended' = IF x.to THEN suspended \cup {x.user} ELSE suspended \ {x.user}
    /\ submits' = (submits \ {x}) \cup {[x EXCEPT !.step = "queue"]}
    /\ torn' = IF Storing(x.user) = {} THEN torn \ {x.user} ELSE torn \cup {x.user}
    /\ Handler /\ UNCHANGED <<submitted, queue, caught, excused>>

\* Mistake: the rows keep their setting.
RowsForgotten(x) ==
    /\ x.step = "queue"
    /\ submits' = submits \ {x}
    /\ caught' = (caught \/ (Working /\ x.user = item.user /\ x.to))
    /\ Handler /\ UNCHANGED <<submitted, queue, suspended, torn, excused>>

\* and then that of the rows.
StoreRows(x) ==
    /\ x.step = "queue"
    /\ queue' = {IF r.user = x.user THEN [r EXCEPT !.suspended = x.to] ELSE r :
                    r \in queue}
    /\ submits' = submits \ {x}
    /\ caught' = (caught \/ (Working /\ x.user = item.user /\ x.to))
    /\ Handler /\ UNCHANGED <<submitted, suspended, torn, excused>>

Proceed(x) == DropRows(x) \/ StoreUser(x) \/ StoreRows(x)

\* The request dies between two of them.
Cut(x) ==
    /\ submits' = submits \ {x}
    /\ torn' = IF x.step = "queue" THEN torn \cup {x.user} ELSE torn
    /\ Handler /\ UNCHANGED <<submitted, queue, suspended, caught, excused>>

-----------------------------------------------------------------------------
\* _subscriptions_mail_cron().
CronStep == UNCHANGED <<events, content, settings, formVars, owed>>

Begin ==
    /\ pc = "off"
    /\ pc' = "scan"
    /\ CronStep
    /\ UNCHANGED <<queue, item, inDigest, standing, items, loaded, caught, upsets, mails,
                   excused>>

\* Mistake: the first row that is ready is read, then whether it is suspended.
PickFirst(r) ==
    /\ pc = "scan"
    /\ r.ready /\ ~r.suspended
    /\ \A q \in queue : q.ready => q.event >= r.event
    /\ pc' = "load"
    /\ item' = r
    /\ items' = {}
    /\ caught' = FALSE
    /\ CronStep
    /\ UNCHANGED <<queue, inDigest, standing, loaded, upsets, mails, excused>>

\* The first row that is ready and not suspended, ORDER BY sqid; the order of
\* the rows of one event is left open.
Pick(r) ==
    /\ pc = "scan"
    /\ r.ready /\ ~r.suspended
    /\ \A q \in queue : q.ready /\ ~q.suspended => q.event >= r.event
    /\ pc' = "load"
    /\ item' = r
    /\ items' = {}
    /\ caught' = FALSE
    /\ CronStep
    /\ UNCHANGED <<queue, inDigest, standing, loaded, upsets, mails, excused>>

\* No row is ready, or the time or the number of mails of this run is used up.
Stop ==
    /\ pc = "scan"
    /\ pc' = "off"
    /\ item' = Nothing
    /\ standing' = {}
    /\ items' = {}
    /\ loaded' = {}
    /\ CronStep
    /\ UNCHANGED <<queue, inDigest, caught, upsets, mails, excused>>

\* The objects that this run has loaded for the node and the user of the item.
Loaded == {o \in loaded : o.user = item.user /\ o.node = item.node}

\* Mistake: whether access was denied is not tested.
LoadDenied ==
    /\ pc = "load"
    /\ LET may == <<item.user, item.node>> \in viewable
           object == [user |-> item.user, node |-> item.node,
                      content |-> IF may THEN content[item.node] ELSE 0]
       IN  loaded' = IF Loaded = {} THEN loaded \cup {object} ELSE loaded
    /\ pc' = "mail"
    /\ CronStep
    /\ UNCHANGED <<queue, item, inDigest, standing, items, caught, upsets, mails, excused>>

\* What is loaded is loaded once in a run, and access checked then.  Whom it is
\* denied to gets no mail.
Load ==
    /\ pc = "load"
    /\ LET may == <<item.user, item.node>> \in viewable
           object == [user |-> item.user, node |-> item.node,
                      content |-> IF may THEN content[item.node] ELSE 0]
       IN  loaded' = IF Loaded = {} THEN loaded \cup {object} ELSE loaded
    /\ LET denied == \E o \in loaded' : /\ o.user = item.user /\ o.node = item.node
                                        /\ o.content = 0
       IN  /\ pc' = IF denied THEN "delete" ELSE "mail"
           /\ excused' = excused \cup
                (IF denied
                   THEN {[why |-> "denied", user |-> item.user, node |-> item.node]}
                   ELSE {})
    /\ CronStep
    /\ UNCHANGED <<queue, item, inDigest, standing, items, caught, upsets, mails>>

\* A mail is sent about what C says of nodes, or fails.
Send(C) ==
    \/ /\ mails' = [m \in DOMAIN mails |->
                      IF m[1] = item.user /\ <<m[2], m[3]>> \in C
                        THEN mails[m] + 1 ELSE mails[m]]
       /\ UNCHANGED <<upsets, excused>>
    \/ /\ Upset
       /\ excused' = excused \cup {[why |-> "failed", user |-> item.user]}
       /\ UNCHANGED mails

\* _subscriptions_get_setting('digest', 0) is asked for a row that says -1 only,
\* and reads the default once in a run.
ReadDefault ==
    standing' = IF item.digest = "default" /\ standing = {} THEN {default} ELSE standing

\* The object becomes an item of the digest, or a mail of its own.
Mail ==
    /\ pc = "mail"
    /\ pc' = "delete"
    /\ ReadDefault
    /\ inDigest' = (\/ item.digest = "digests"
                    \/ item.digest = "default" /\ TRUE \in standing')
    /\ LET C == {<<o.node, o.content>> : o \in Loaded}
       IN  \/ /\ inDigest'
              /\ items' = items \cup C
              /\ UNCHANGED <<upsets, mails, excused>>
           \/ /\ ~inDigest'
              /\ Send(C)
              /\ UNCHANGED items
    /\ CronStep
    /\ UNCHANGED <<queue, item, loaded, caught>>

\* Mistake: only the row that was taken is deleted.
DeleteOne ==
    /\ pc = "delete"
    /\ queue' = queue \ {item}
    /\ pc' = IF inDigest THEN "next" ELSE "scan"
    /\ CronStep
    /\ UNCHANGED <<item, inDigest, standing, items, loaded, caught, upsets, mails, excused>>

\* Mistake: the rows of all users about the node are deleted.
DeleteAll ==
    /\ pc = "delete"
    /\ queue' = {r \in queue : r.node # item.node}
    /\ pc' = IF inDigest THEN "next" ELSE "scan"
    /\ CronStep
    /\ UNCHANGED <<item, inDigest, standing, items, loaded, caught, upsets, mails, excused>>

\* All rows about the object for the user are deleted, sent or not.
Delete ==
    /\ pc = "delete"
    /\ queue' = {r \in queue : r.user # item.user \/ r.node # item.node}
    /\ pc' = IF inDigest THEN "next" ELSE "scan"
    /\ CronStep
    /\ UNCHANGED <<item, inDigest, standing, items, loaded, caught, upsets, mails, excused>>

\* The next row of this user for the digest, suspended or not ...
NextItem(r) ==
    /\ pc = "next"
    /\ r.user = item.user /\ r.ready
    /\ \A q \in queue : q.user = item.user /\ q.ready => q.event >= r.event
    /\ pc' = "load"
    /\ item' = r
    /\ CronStep
    /\ UNCHANGED <<queue, inDigest, standing, items, loaded, caught, upsets, mails,
                   excused>>

\* ... or there is none,
NoItem ==
    /\ pc = "next"
    /\ \A q \in queue : q.user = item.user => ~q.ready
    /\ pc' = "digest"
    /\ CronStep
    /\ UNCHANGED <<queue, item, inDigest, standing, items, loaded, caught, upsets, mails,
                   excused>>

\* and the digest is sent.
SendDigest ==
    /\ pc = "digest"
    /\ Send(items)
    /\ inDigest' = FALSE
    /\ items' = {}
    /\ pc' = "scan"
    /\ CronStep
    /\ UNCHANGED <<queue, item, standing, loaded, caught>>

\* The run dies: out of memory, out of time, or the server is stopped.
Die ==
    /\ Upset
    /\ pc # "off"
    /\ pc' = "off"
    /\ item' = Nothing
    /\ inDigest' = FALSE
    /\ standing' = {}
    /\ items' = {}
    /\ loaded' = {}
    /\ excused' = excused \cup
         (IF Working THEN {[why |-> "died", user |-> item.user]} ELSE {})
    /\ CronStep
    /\ UNCHANGED <<queue, caught, mails>>

Cron == Load \/ Mail \/ Delete \/ NoItem \/ SendDigest \/ \E r \in queue : NextItem(r)

Next ==
    \/ \E n \in Nodes : Save(n)
    \/ \E r \in queue : Ripen(r) \/ Pick(r)
    \/ \E u \in Users, d \in Digest : SwitchDigest(u, d)
    \/ \E u \in Users, n \in Nodes : Revoke(u, n)
    \/ \E u \in Users : \E to, drop \in BOOLEAN : Submit(u, to, drop)
    \/ \E x \in submits : Proceed(x) \/ Cut(x)
    \/ SwitchDefault \/ Purge \/ Begin \/ Stop \/ Cron \/ Die

\* Cron is started again and again and has time for one user each time; what is
\* submitted is executed, or cut.
Fairness ==
    /\ WF_vars(\E r \in queue : Ripen(r))
    /\ WF_vars(Begin)
    /\ SF_vars(\E r \in queue : Pick(r))
    /\ WF_vars(Cron)
    /\ WF_vars(\E x \in submits : Proceed(x))

Spec == Init /\ [][Next]_vars /\ Fairness

-----------------------------------------------------------------------------
Excused(u, n) ==
    \E x \in excused : x.user = u /\ (x.why \in {"denied", "overtaken"} => x.node = n)

\* What is queued stays in the queue or in the digest that is being put
\* together until the user was told of the node as it was then, or later;
\* nothing else loses it than the things listed in Excuses.
Delivered ==
    \A o \in owed :
      \/ \E r \in queue : r.user = o.user /\ r.node = o.node /\ r.event = o.event
      \/ \E c \in o.event..MaxEvents :
           \/ mails[o.user, o.node, c] > 0
           \/ item # Nothing /\ item.user = o.user /\ <<o.node, c>> \in items
      \/ Excused(o.user, o.node)

\* "When a notification is sent, possible duplicates for the same node are
\* removed, so that no duplicate notifications are sent" (README.txt:184): but
\* for a run that died, or a node that was saved after the run had loaded it.
NoDuplicate ==
    \A u \in Users, n \in Nodes, c \in Events :
      \/ mails[u, n, c] <= 1
      \/ [why |-> "died", user |-> u] \in excused
      \/ [why |-> "overtaken", user |-> u, node |-> n] \in excused

\* A row that is in the queue no more, whatever its columns.
Lost == {r \in queue : \A q \in queue' : \/ q.user # r.user \/ q.field # r.field
                                         \/ q.node # r.node \/ q.event # r.event}

\* The rows are as the setting: no submission is between its UPDATEs, and none
\* that was cut there or crossed another has left them different.
Settled(u) == u \notin torn /\ Storing(u) = {}

\* "They will be retained and sent after you reenable notifications."
\* (subscriptions.admin.inc:479): rows of a user whose notifications are
\* suspended stay until they are dropped, by a submission or for all users,
\* unless cron was at work on this user when they were suspended.
SuspendedKept ==
    [][\A r \in Lost : r.user \in suspended /\ Settled(r.user) =>
         \/ Working /\ caught /\ r.user = item.user
         \/ \E x \in submits \ submits' : x.user = r.user /\ x.step = "drop"
         \/ upsets' > upsets]_vars

\* The queue is worked off: no one is passed over for ever, by rows that are
\* suspended or keep coming back; but for rows that a submission left suspended.
Drained ==
    \A u \in Users :
      (\E r \in queue : r.user = u)
        ~> (u \in suspended \/ u \in torn \/ \A r \in queue : r.user # u)

\* "a digest is sent whenever at least one notification is ready to be sent, and
\* it includes all the notifications that are ready" (README.txt:191): a digest
\* that was begun is sent before cron turns to another row.
DigestSent == pc = "scan" => items = {}
=============================================================================
