# CommunityKC: a TLA+ model of the site

CommunityKC is a Drupal 7 site on which neighborhoods of Kansas City publish
projects, show them on a map, announce events and ask to hear of new projects.
The repository holds the whole site: Drupal core (`includes/`, `modules/`), about
seventy contributed modules and libraries, and the site's own code, about two
thousand lines under `sites/all/modules/custom/`. Paths below are relative to
`src/`.

This directory models the site's own code, the parts of core in which requests
that run in parallel meet (locks, cron and its queue, the cached variables, the field
cache), the mail that subscribers get, and the browser scripts in which answers meet
(autocomplete, Ajax forms). The modules are checked with TLC on small instances, and
for nine of them (the locks, the queue, the cached variables, the project map, the
notification preferences, the autocomplete field, the address lookup, the subscription
mail, the Ajax form) the safety properties are proved with TLAPS for every value of the
constants. The two abstract specifications, of a named lock and of the queue, are proved
to be implemented by the statements that stand for them.

## The system

PHP requests run in parallel, share nothing but the database, and may end between
any two statements: orderly, with shutdown functions, or by the death of the
process. There are no transactions around the code modelled here, apart from those
inside `node_save()` and `user_save()`. Everything hard in this system comes from
this: what a request has read is stale by the time it uses it, and what it meant to
do next may never be done. In the browser there is one thread, but answers come in any
order, or not at all, to a page that has changed since the question.

| Part | State | Operations | Talks to | Hard | Correct when |
|---|---|---|---|---|---|
| Named locks, `includes/lock.inc` | table `{semaphore}`; `$locks` and the lock id of a request | `lock_acquire`, `lock_may_be_available`, `lock_wait`, `lock_release`, `lock_release_all` | database; used by cron, variables and others | SELECT and DELETE of a break interleave with renewals, other breaks and new holders; holders die | no two requests rely on a lock within their leases; nobody waits for ever |
| Cron and queue, `includes/common.inc`, `modules/system/system.queue.inc`, `system_cron()` | table `{queue}`; the cron lock; `$end`, `$item` of a run | `drupal_cron_run`, `createItem`, `claimItem`, `deleteItem`, reset of expired leases | locks, hooks, workers | parallel runs, workers that throw or overrun their lease, `REQUEST_TIME` that is older than the claims | no item is lost; no two runs work on one within their leases |
| Variables, `includes/bootstrap.inc` | table `{variable}`; its row in `{cache_bootstrap}`; `$conf` | `variable_initialize`, `variable_set` | locks, cache | the row is rebuilt from an old read; merge and clear are two statements | no stampede; the row is stale only by a known race; every request boots |
| Project map, `custom/class/GeoJsonService.php`, `project.resource.inc`, `custom.pages.inc` | project nodes; rows of `{cache}` | page, resource, search, load, cron's clear | cache, node API, field cache, geocoder, browser | nothing invalidates the rows; search and load are many statements; fields come from another cache that may be old; four queries | an answer is an answer to the filter asked for; stale answers die out; the search is exact |
| Notification preferences, `custom.user.inc`, `custom.helpers.inc`, `custom.module` | `field_project_notification_prefs`; open forms | profile form, presave hook, other saves of users and projects | user and node API, Forms API | a form is submitted long after it was shown; a hook that runs for every save | the number stands for the boxes chosen; a form stores what it shows |
| Event lists, `custom/event/event.module` | dates of event nodes | `custom_events_get_list` for block and page | database | page arithmetic, order of repeated events | a page shows the rows it should, all of them |
| Autocomplete field, `misc/autocomplete.js` | input, popup, lists that fade out, highlighted item, timer, cache, requests | keys, mouse, search, answers, selection | browser, server | answers overtake each other and later searches; a timer that is reset; a closed list that still reacts to the mouse | what is shown answers the latest search; no search is forgotten |
| Event address, `event_add_form.js`, `event.module` | fields of the form, lookups under way | selection, lookup, callback | autocomplete field, field cache | answers overtake each other or do not come; editors change the project | the form has the address of the project selected |
| Field cache, `modules/field/field.attach.inc` | `{cache_field}` | load, update | node load, node save | a load is many statements, and its fill, from old reads, is cleared by nothing | the row is stale only by that race |
| Subscriptions, `subscriptions/` | `{subscriptions_queue}`, settings; `$digest`, `$loaded_objects` of a run | queueing, settings, purge, mail cron | cron, node API, mail | rows are deleted whether or not the mail was sent; digests; saves and settings that change during a run; a submission of two UPDATEs | no notice lost or sent twice, but for named reasons; nobody waits for ever |
| Page updates, `misc/ajax.js`, `misc/states.js`, `misc/drupal.js` | `ajax.ajaxing`, disabled elements, requests; what each `states.Dependent` knows | event, answer, failure, replacement, attaching behaviors, change of an input | browser, server | answers replace elements whose own request is under way; behaviors attached again and again | dependents are shown as their constraints say; a control is disabled exactly as long as its request |
| Map script, theme, other contributed modules, moderation, job scheduler, feeds, sessions, batches | | | | | not modelled, see the end |

## The modules

| Module | Models | Rests on |
|---|---|---|
| `LeaseLock` | what a named lock promises: the abstract specification | |
| `DrupalLock` | `lock.inc`, one action per SQL statement | implements `LeaseLock` |
| `DrupalLock_proof` | theorems about `DrupalLock` | |
| `LeaseQueue` | what the queue API promises: the abstract specification | |
| `CronQueue` | cron runs with the statements of their lock, and the queue, one action per statement | implements `LeaseQueue`; writes the row of the lock "cron" by steps of `LeaseLock` |
| `CronQueue_proof` | theorems about `CronQueue` | |
| `VariableCache` | variables, their cached row, the statements of its lock | writes the row of the lock "variable_init" by steps of `LeaseLock` |
| `VariableCache_proof` | theorems about `VariableCache` | |
| `ProjectSearch` | the tables, the search, the features and the cache key of the map as operators | |
| `ProjectMap` | the requests, statement by statement, both caches, editors and cron around them | extends `ProjectSearch` |
| `ProjectMap_proof` | theorems about `ProjectSearch` and `ProjectMap` | |
| `ProjectNotifications` | preferences, forms and saves | |
| `ProjectNotifications_proof` | theorems about `ProjectNotifications` | |
| `EventList` | the lists as a function of dates and time | |
| `Autocomplete` | the autocomplete field, one action per handler | |
| `EventAddressForm` | the lookups of the event form, and the field cache behind them | extends `Autocomplete`, of which every pick is a lookup |
| `EventAddressForm_proof` | theorems about `Autocomplete`, then about `EventAddressForm` | |
| `SubscriptionsMail` | queue rows, settings and the mail cron, one action per query | |
| `SubscriptionsMail_proof` | theorems about `SubscriptionsMail` | |
| `FormStates` | elements that depend on others, and attaching behaviors | |
| `AjaxForm` | controls, requests and replacement of parts of a form | extends `FormStates` |
| `AjaxForm_proof` | theorems about `AjaxForm` and `FormStates` | |
| `MC...` | instances with data that does not fit a `.cfg` | |

How state and actions correspond to the code:

* **DrupalLock.** `semaphore` is the table (one row per name, its primary key),
  `locks` the global `$locks`, `call` the locals of the function a request is in.
  `Acquire` is the entry of `lock_acquire()`, which fixes the expiry; `Renew` its
  UPDATE, `Insert` its INSERT, with the retry; `Select` and `Break` the two
  statements of `lock_may_be_available()`; `Wait` and `WakeUp` the loop of
  `lock_wait()`; `Release` and `End` the release functions. `Crash` is a request
  whose shutdown function does not run. The delay of a wait is counted in polls.
  `lease` is history: the expiry that was granted.
* **CronQueue.** `run` holds the locals of `drupal_cron_run()` and `claimItem()`.
  `LockAcquire` fixes the end of the lease, `LockGranted` and `LockTaken` are the INSERT,
  `LockLooked` and `LockBroken` the SELECT and the DELETE of a break, `LockRefused` an
  answer of FALSE, also when the row vanished between these two. What they do to the row
  is a step of `LeaseLock`, the promise that `DrupalLock` is proved to keep; the DELETE,
  which allows for a float slack there, is exact here. A refused run goes on to the queue,
  as in the code. `Hooks` is the reset in `system_cron()`, with the
  `REQUEST_TIME` of the run. `Fail` is a worker that throws; `Abort` ends a run with
  its shutdown function, `Kill` without. `done` is history. A consumer of `LeaseQueue` is a
  run with the item it works on or is about to delete (`Claim`); the reset of expired leases
  is a stutter there, because an item whose lease is over may be claimed anyway.
* **VariableCache.** Values of variables are abstracted to the number of changes made
  to the table: a row is stale when it has another number. `Merge` and `Clear` are the
  two statements of `variable_set()`. The lock is taken as in `CronQueue`; `Wait` is a
  `lock_wait()` that returns, `WaitBreaks` one that has broken the lock. `late` and `cut` are
  history: a row stored from a read made before the last clear, and a request that died inside
  `variable_set()`.
* **ProjectMap.** A node is its status and its fields: coordinates, neighborhoods and types,
  each with field tables of its own. The page and the unfiltered service share a key and are
  the same request here. A request that finds no row goes through `Search` (the query for
  nids), `LoadNodes` (`node_load_multiple()` reads `{node}`, whatever the status),
  `ReadFieldCache` (what `{cache_field}` has), `LoadField` (one query for each field of the
  other projects, in any order), `StoreFields` (their rows of `{cache_field}`, one by one) and
  `Store` (the features, and the row of `{cache}`). `Visit` is any other page that loads a
  project and fills `{cache_field}` in the same way. `Edited` is the transaction of a save or a
  deletion, which deletes the row of `{cache_field}` and leaves `{cache}` alone; that it is one step rests on
  InnoDB, MySQL's default engine, which keeps others from writing a row that was deleted, or
  the gap where it would be, until the commit. So a load that
  overlaps a save stores old fields, or some old and some new, for good: `raced` is history, the
  projects this may have happened to, and the only ones whose fields an answer may have from
  before its search. `log` is history: all contents of the tables. The cache key is built
  character by character as in the code, because whether two filters can share a key
  depends on it.
* **ProjectNotifications.** `form` is what a browser shows, which the server does not
  know; `Submitted` is how the Forms API, after building the form again, gets values
  for boxes with and without access. `SaveElsewhere` stands for every `user_save()`
  without the form; `SetForTest` for the two functions "for testing"
  (`custom.module:412`), whose `$edit` carries the field and so overrides the hook. Nothing
  in the repository calls them. The notice queue is not a variable: the query in
  `_custom_project_node_presave()` is commented out and the loop over its undefined
  result (`custom.module:139`) never runs, so saving a project queues nothing.
* **EventList.** The order of ties, which SQL leaves open, is fixed by the key.
* **Autocomplete.** A text is what `ACDB.search()` makes of it: a string to search for,
  typed exactly or with blanks around it, or nothing to search for. `PopulatePopup` is
  `populatePopup()` with the search it makes, `Fire` the function of the timer, `Arrive`
  and `Fail` the callbacks; `HidePopup` is also what selects. A list that is closed while it
  is visible fades out (`fading`, `FadeOut`) and its items keep their handlers: `Highlight`
  takes an item of the open list, of one that fades, or one beside the item that is
  highlighted. `chosen` keeps the list that `this.selected` is an item of, because the
  arrow keys move within it after it left the page, and, as history, whether the mouse met
  it while it was fading. A page with the status 0 counts as a failure.
* **EventAddressForm.** `Box` is a step of the field; when it picks a project, `Select`
  happens with it, as the handler is called by `trigger()`. `LoadNode`, `CacheHit`,
  `ReadFields` and `CacheSet` are the server's lookup, statement by statement. Street,
  city, code and country are written together; the state of the country is a field of its
  own because the callback reads it from a misspelt property (`event_add_form.js:37`) and
  empties it. `raced` is history: the projects that were saved while a lookup was between
  the read and the store.
* **SubscriptionsMail.** `pc`, `item`, `inDigest`, `standing`, `items` and `loaded` are the
  locals of `_subscriptions_mail_cron()`; `Pick`, `Load`, `Mail`, `Delete`, `NextItem`, `NoItem`
  and `SendDigest` its statements in their order. `content` numbers what a node says by the save
  that wrote it, so that "told of the node as it was then or later" can be said. A row carries
  the settings of its user as they were when it was queued: `digest`, which may be "default"
  (-1) and then follows the site default at mail time, read once in a run (`standing`); and
  `suspended`, the column that cron asks for. `Submit` starts a submission of the form that
  suspends; `DropRows`, `StoreUser` and `StoreRows` are its three statements, with cron, saves and
  other submissions between them, and `Cut` its death. Rows of one subscription become ready in
  their order (`Before`), since `last_sent` is never set back and all rows of a subscription
  are taken to have one send interval; rows of different
  subscriptions become ready in any order. `mails`, `owed`, `excused`, `caught` and `torn`
  are history; `torn` are the users for whom a submission was cut between its two UPDATEs or
  crossed another.
* **FormStates, AjaxForm.** A watcher is a `states.Dependent`: what it has been told of
  which inputs (`seen`, `on`), which inputs have been replaced since it was bound (`lost`)
  and its `oldValue` (`told`). `Insert` is `attachBehaviors()` for new content and then for
  the form: the first makes aware watchers, since triggers of new elements are new, the
  second makes watchers that nothing tells the present values. An input a
  watcher knows nothing of equals no value, so that "unchecked", an alias of "not checked", is met
  by it and "checked: false" is not (`Met`). `gen` tells a control from
  the one that took its place. `Answer` is `success()` with its commands and
  `complete()`; `Fail` is `error()` with `complete()`. What `eventResponse()` catches
  (`ajax.js:286`) is thrown before the element is disabled, and leaves all as it was; what
  `beforeSend()` might throw after that is not modelled.

## The runs

`locks`, `cron`, `variables`, `map`, `autocomplete`, `mail` and `page` check liveness
or refinement in the same run, so without symmetry; `address_fill`, which has
invariants only, uses symmetry of projects and of places, `prefs`, without liveness, that of users,
projects and forms.

| Run | Shows | Bounds and why they are enough |
|---|---|---|
| `locks` | `LeaseExclusion`, `LeaseBacked`, `NoForgottenRow`, `CallReturns`, `LeaseKept`, `ImplementsLease` | three requests: an owner, one that breaks, one that takes the lock in between; two clock ticks, so that a lease is over and another is under way; tolerance as long as a tick |
| `cron` | `NoLostItem`, `ExclusiveClaim`, `ClaimBacked`, `HooksExclusive`, `ClaimReturns`, `ImplementsQueue` | two runs, two items, three ticks with leases of one: a worker overruns its lease, the other resets it, claims the item and works on it when the first deletes it |
| `variables` | `NoStampede`, `StaleOnlyByRace`, `RequestsBoot` | three requests, two sets: one rebuilds, one sets, one waits |
| `map` | `AnswersExplained`, `RowsExplained`, `SearchExact`, `SearchNarrows`, `EventuallyFresh` | two requests, of which the second may also be for another page; the empty filter and one with both parameters (the search properties range over all four); one project, whose initial state and whose one change are any of four nodes (shown, unpublished, in another neighborhood, without one and not geocoded) or its absence: one request reads some fields before the change and stores after it, the other fills and reads both caches in between |
| `prefs` | `PrefsAreChoice`, `FormsStoreWhatTheyShow` | two users, forms and projects; all eight sets of boxes; the state space is finite without a bound |
| `prefs_kept` | violates `ChoiceKept` | one user |
| `events_full` | violates `PageFull` | every calendar of three events with up to two dates, pages of up to three rows |
| `autocomplete` | `SearchShown`, `SearchUnderWay`, `SearchEnds` | two strings, one of them also with a blank, and an emptied input; two suggestions; three keys: type, search again while an answer is under way or a list fades out, go back to what is in the cache or empty |
| `address_fill` | `LastSelectionFills`, `CacheStale` | one key, two projects and places, two lookups that overtake each other, two changes by editors: one between read and store, one more before the next load |
| `mail` | `Delivered`, `NoDuplicate`, `SuspendedKept`, `Drained` | two users, one with two subscriptions that overlap at one of two nodes; one with digests, asked for or by default, one without; the first may be suspended from the start; two saves, of one node or of both, with one upset of any kind or one submission of the form that suspends, at any time; or one save with two submissions, which may cross or be cut. More of them only combine excuses, which `SubscriptionsMail_proof` covers for any number |
| `mail_lost` | violates `DigestSent` | two saves and one upset, for the user with digests |
| `page` | `ShownRight`, `Usable`, `Released` | three requests, so that one control is replaced with its request under way, used again and answered twice; three dependents, one for each connective, of two inputs, one of which can be replaced without the other |

`MaxTime`, `MaxPolls`, `MaxItems`, `MaxSets`, `MaxEdits`, `MaxLookups`, `MaxKeys`,
`MaxEvents`, `MaxUpsets`, `MaxSubmits`, `MaxRequests`, `MaxDates` and `MaxMax` are the bounds. Where the
clock stops at `MaxTime`, or visitors and editors stop, runs turn deadlock checking
off. `Kill` in `VariableCache` is limited to leases that end before the clock stops:
a lease that can never run out is an artefact of the bound.

**Fairness.** Weak fairness of the statements of each request: PHP runs a script to its
end unless it is killed (which is an action without fairness), and a browser that goes
away does not stop it (`ignore_user_abort`, `common.inc:5399`). `VariableCache` also
assumes that time passes, since waiters depend on a dead holder's lease to end;
`ProjectMap` that a request that computes an answer goes on, and that cron is run again and
again, which the site does from page requests.
`Autocomplete` assumes that keys that are down come up, that timers fire and that the
browser ends every request, `AjaxForm` the last of these: an XMLHttpRequest ends with an
answer or an error. `SubscriptionsMail` assumes that cron is run again and again, that a
row becomes ready when its interval has passed, that what is submitted is executed or cut, and, strongly, that a run has time for a
row whenever runs begin again and again: settings that allow no mail at all are excluded.
Nothing is assumed of visitors, editors, or of the order of statements of different
requests.

## What the runs found

* `prefs_kept`: `custom_user_presave()` stores 0 whenever the form data are missing, so
  blocking, unblocking or changing the roles of a user clears the preferences.
* `events_full`: `limit {lower},{upper}` gives MySQL the index of the last row as a
  count. Page 1 is one row short; a page of one row is empty; later pages overlap.
* `mail_lost`: rows carry the digest setting of the moment they were queued. A user has a row
  for digests, then leaves digests. Cron takes that row and puts its node into a digest; a second
  node is saved meanwhile, and its row carries the new setting. It is the next row of the loop,
  its mail is sent singly, `$digest` is FALSE now and ends the loop
  (`subscriptions_mail.cron.inc:133`): the digest, whose row is deleted already, is never sent.
  `Delivered` names this as the excuse "switched".

Met while modelling, with no run of their own: two selections whose lookups are answered in
the other order leave the address of the project that is no longer selected
(`event_add_form.js:14`; `LastSelectionFills` claims nothing then); a filter by type joins the
neighborhood table as well, so projects without a neighborhood are left out although the
neighborhood was left at its default (`GeoJsonService.php:229`; a precondition of
`SearchExact`); an address in the field cache may be old until the next save or flush
(`CacheStale`), and reaches the map, where cron clears the answer but not the fields it is
computed from (`raced` in `ProjectMap`); a suggestion that the mouse meets in a closed list that is
fading out stays highlighted through the next search, and Tab picks it (`autocomplete.js:177`; the
exception in `SearchShown`); a search typed with a blank at its end never shows an answer that was not in
the cache, because the trimmed string is compared with the untrimmed one
(`autocomplete.js:306`), and its empty, hidden popup makes `autocompleteSubmit()` swallow the
next submission of the form; attaching behaviors again after an Ajax answer gives each dependent one more
watcher, and when some of its inputs were replaced and others not, the new watcher knows
some values only and may show the dependent wrongly (`states.js:114` fires the first event for
new elements only; a precondition of `ShownRight`); rows of a user whose notifications were
suspended while cron was putting together a digest for this user go into it
(`subscriptions_mail.cron.inc:123`; the exception in `SuspendedKept`); a submission that resumes
notifications and dies between its two UPDATEs, or two submissions that cross, leave rows suspended
for ever though the user is not (`subscriptions.admin.inc:515`; `torn`, an exception in
`SuspendedKept` and `Drained`); rows of users without access to
a node are deleted, not kept for the time when they have it. The notice queue is never filled
(`custom.module:137`) although the profile form promises emails (`custom.user.inc:60`); the
state of an address is always emptied (`event_add_form.js:37`); the argument documented as
"neighborhood tid" (`custom.resources.inc:25`) is looked up as a name; an item whose worker
throws is passed by later ones, although `system.queue.inc:39` says a reliable queue
preserves the order; the page of past events asks for the oldest 15 and has no pager.

What is right and was not obvious: the expiry condition on the DELETE protects a lock
that is renewed between the two statements of a break; a request that was granted a lock
late, with an expiry in the past, is the only one that does not hold what it was told it
holds; a refused cron run shares the queue safely; a late `deleteItem()` removes a row that
another run works on, but only of an item that is done; filters have distinct cache keys as long as no
neighborhood has a name that ends like the key of a type ("Xp456" beside "X" and 456);
late answers never get into an autocomplete popup that is about another search; the answer to a control that was replaced releases the
element that is gone and leaves its successor alone; deleting all rows about a node for a
user, sent or not, loses nothing but what a failed mail, a denied access or a save during
the run explains.

## What is proved

`DrupalLock_proof`, for any requests, names, timeouts, bounds:

* `TypeCorrect`; then `LeasesAreBacked` by the inductive invariant
  `TypeOK /\ CallOK /\ LeaseBacked`. `CallOK` says that a request about to break a lock has read
  a row, without which the condition of the DELETE means nothing.
* `LeasesExclude` follows: two leases backed by one row are one request's.
* `RowsAreRemembered`: a row comes to name a request only by its own INSERT, which notes it.
* `LocksAreLeases`: initial states map to initial states, and every statement to a step of
  `LeaseLock` or to a stutter; the break step needs `CallOK`.
* `LeasesAreKept`, a property of steps: a row whose lease is not over, within the float slack,
  changes only by a step of its holder, and then is deleted or stays the holder's. The DELETE of a
  break compares what was read before with the row as it is, so an older reading takes
  nothing that is live; that a release deletes only the row of the request itself needs
  `RowsAreRemembered`. This is what the users of a lock rely on.
* `CallsEnd`: each statement of a call leaves fewer for the rest of it (`StatementsLeft`: four
  for `lock_acquire()`, three for each poll of `lock_wait()`), whatever others do to the row
  meanwhile, by `Fitting`: `lock_acquire()` never sleeps and `lock_wait()` never inserts. Under
  the fairness of the statements this is why `CallReturns` holds for any number of requests.

`CronQueue_proof`, for any runs, items and durations (a lease longer than 0):

* `TypeCorrect`; `NothingLost` with `RunOK` (an item is deleted only in the step after its
  worker returned, and is then in `done`).
* `ClaimsAreBacked`: the row carries the lease while it lasts. `RunOK` adds that
  `REQUEST_TIME` is not in the future, so that the reset of expired leases spares those
  that are not over, and that leases are not 0, the mark of a free item.
* `ClaimsExclude` and `HooksExclude`: two runs within their leases are backed by one row
  (of the queue; of the lock table), or came after one another.
* `QueuePromiseKept`: every statement maps to a step of `LeaseQueue` or to a stutter. The UPDATE
  of `claimItem()` may claim only what nobody works on within a lease, which is `ClaimBacked`
  seen from the other side, and `deleteItem()` follows a worker that returned (`RunOK`).

`VariableCache_proof`, for any requests, sets, lease:

* `TypeCorrect`, which includes that nobody has seen more changes than were made.
* `StampedeAvoided` by `Backed`: the lease of a request that rebuilds the row is the one in
  the lock table, which has a single row for the lock. Breaking needs a lease that is over,
  granting needs that there is no row.
* `StaleExplained` by `RaceInv`, which says of what a request has read and not yet stored
  what the property says of the row: it is stale only if it was cleared since (`late`), or
  if `variable_set()` is or was cut between its statements.

`ProjectMap_proof`, for any projects, neighborhoods, types, requests, edits:

* `SearchIsExact` and `SearchOnlyNarrows`, for all tables and filters, from a lemma for each
  of the four queries. The preconditions are those of `SearchExact`: a name without a term
  beside a type is ignored, a name that terms share finds one of them only, and projects
  without one of the fields are missed.
* `TypeCorrect`; `AnswersAreExplained` and `RowsAreExplained` by
  `FieldRowsGood /\ LocalsGood /\ RowsGood`: a row of `{cache_field}` has the fields its project
  has now, or each of them from some moment if the project was saved within a load;
  a load has read so far what is so now, field by field, or likewise (`PartlyRead`); what a request
  has found was found by a search at one moment and still existed at a later one, and fields
  taken from either source are no older than that (`LoadedSince`). Explanations last because the
  history only grows. The point is that a save deletes the row, so that a row that is there
  and not raced is current, however the requests that fill it overlap.
* `CurrentUntilEdited`: when no row is stale and no request is about to store a stale answer
  (`Current`), up to the fields of projects that were saved within a load, it stays so until the
  next edit. It is the safety half of `EventuallyFresh`: the
  run checks that cron and the ends of requests make the map current, the theorem that requests,
  loads through the field cache and cron, however they overlap, cannot undo it.
* The last three have the hypothesis `KeysDistinct`, that no two filters share a cache key. TLC
  evaluates it for the names of the run `map`, which checks the invariants without assuming it.

`ProjectNotifications_proof`, for any users, administrators, projects, forms:

* `TypeCorrect`: the number has three bits, forms and projects are about accounts that exist.
* `ChoiceStored`, by a lemma that the boxes can be read back from their sum: the digits of a
  number below 8, counted from the left by `_custom_decimal_prefs_to_bit_array()` and from the
  right by the hook, agree.
* `FormsHonest`, a property of steps: a form closes by storing what it shows, also when the right
  to see the boxes came or went since it was opened.

`EventAddressForm_proof`, first on the autocomplete field, for any suggestions, strings,
texts, keys:

* `BoxTypeCorrect`; `ShownIsSearched` (but for what the mouse met in a list that was fading) and `SearchNeverForgotten` by one invariant, the two
  properties with `Attended`: when the input was emptied with the popup open, a keyup is due
  that closes it. Without it an answer that `found()` ignores, because the input is empty,
  would leave a hidden popup behind that nothing ends.

and then on the form, for any projects, places, lookups, edits:

* `TypeCorrect`; `StaleOnlyByRace` and `LastSelectionWins` by `LookupOK` for every lookup: an
  address that was read is the one in the database, or the project was saved since (`raced`);
  the lookup with the highest number asks for the project that is selected, and its answer is
  an address that project has had since, or comes through that race.

`SubscriptionsMail_proof`, for any users, nodes, subscriptions, saves, upsets:

* `TypeCorrect`, `NothingLost` and `NobodyToldTwice` by one invariant. `RowsOK` says of the rows
  that cron may still mail that the node says what they announce, or something newer, and that
  they carry the digest setting of their user unless it was switched; `LoadedOK` that an object
  of the run is the node as it is now, or access was denied, or a save has overtaken the run;
  `HandledOK` that rows are deleted only after what they announce was sent, put into the digest,
  denied or failed; `DigestOK` that a digest is left behind only by a user who switched, or whose
  default was changed since the run read it; and `ToldOK` that who was told of some content, or
  will be by the digest, has no older row left.
* `SuspendedRowsKept`, a property of steps, for settled users, those with no submission between
  its UPDATEs and none that was cut there or crossed another: by `MarkedOK` (the rows of a user
  say what the setting says, and a single submission in between stores what the setting says)
  and `CaughtOK` (cron is at work on a suspended user only if the user was suspended after
  being picked); then only the DELETE of cron, `DropRows` and the upsets take rows out.

`AjaxForm_proof` (with `FormStates`), for any form, constraints, wrappers, requests:

* `TypeCorrect`; `InformedDependentsRight` by `ShownInv`: a watcher knows the truth about every
  input it was told of and that was not replaced, it has told what follows from what it knows,
  and the dependent is as one of its watchers said. With well informed watchers all of them
  say the same.
* `ControlsUsable` by `RequestInv`: requests with the present `gen` of a control, its `ajaxing`
  and its disabled element stand for each other; no request has a `gen` that is still to
  come, so a new element starts with none.

Apart from `KeysDistinct` they assume the `ASSUME`s of the modules only: durations and bounds are natural
numbers, the placeholders `NoRow`, `NoItem`, `NoForm`, `NoBoxes`, `Nothing` and "404" are nothing
else, terms have names and the empty string is no type. TLC evaluates these assumptions in the runs.

Only model-checked: all liveness (`CallReturns`, `ClaimReturns`, `RequestsBoot`,
`EventuallyFresh`, `SearchEnds`, `Drained`, `Released`), since the prover handles neither
liveness under fairness nor ENABLED; of the first and the fourth the safety half is proved. Every
safety property that a passing run checks is proved. `PageFull`, the property of `EventList`,
is one the code violates; its lists are sorted by a recursive definition, and what such a
definition computes for every input is out of the prover's reach (its provers take no
induction schema over an operator). No module that has theorems uses RECURSIVE operators.
The measure of `CallsEnd` is a number for each step of a call, so that no induction is needed.

## Plan

In the order of importance to the site; all of it is done but the last point:

1. Core: `LeaseLock`, `DrupalLock`, `CronQueue`, `VariableCache`, with theorems.
2. The site: `ProjectSearch`, `ProjectMap`, `ProjectNotifications`, `EventList`, with theorems
   about the first two.
3. `SubscriptionsMail`, with theorems.
4. The browser: `Autocomplete`; `EventAddressForm` on top of it, with the field cache;
   `FormStates` and `AjaxForm`; with theorems.
5. The promise of the queue, `LeaseQueue`, implemented by `CronQueue`; theorems about
   `ProjectNotifications`; cron and the variables with the statements of their locks; the map
   through the field cache; the statements of the form that suspends notifications.
6. Left: comments in `SubscriptionsMail`; dependents of dependents in `FormStates`; an abstract
   mailbox that `SubscriptionsMail` implements; measures like that of `CallsEnd` for the loop of
   a cron run.

## Not modelled

* The map script, theme and templates: presentation; `ckc-map.js` builds a map anew for each
  load and keeps nothing that answers could race for.
* `MemoryQueue`, `releaseItem()` and `deleteQueue()`: no caller in this site, or at module
  removal only. `variable_del()` is `variable_set()` with another first statement.
* `custom_map_user_to_project()` and `custom.install`: run once by an administrator; the
  former counts among `SaveElsewhere`.
* `_custom_notification_query()` and the loop over its result: nothing calls the one, and the
  other never runs.
* Contributed modules such as Views, Rules, Webform, Feeds, Workflow: third-party code,
  configured in a database that is not in the repository.
* In the mail cron: comments and their rows, which are queued and mailed like those of nodes;
  blocked accounts, whose rows are deleted as those of users without access are; two mail
  crons at once, which the cron lock keeps apart up to its lease; the order of the rows of one
  event, which is left open; `node_save()` with its queueing is one transaction.
* In the browser: the throbber and screen reader texts of `autocomplete.js`; the commands of
  `ajax.js` other than replacement, progress bars, forms sent through an IFRAME; in `states.js`
  nested constraints, states other than "visible", dependents that others depend on.
* `field_attach_load()` for single fields and revisions; field caches of other entities; what an
  address lookup reads field by field is one read there, since it uses one field.
* Sessions, flood control, batches, forms beyond check boxes: core as released.
* The country selector of the address form, which has the server build its fields again.
