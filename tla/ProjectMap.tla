------------------------------ MODULE ProjectMap ------------------------------
(***************************************************************************)
(* The GeoJSON answers behind the map: the page callback and the project   *)
(* resource of the API fill the {cache} table with answers computed from   *)
(* the project tables, editors change these tables without telling that    *)
(* cache, and only cron clears it.  The projects themselves come through   *)
(* {cache_field}, whose rows are permanent: a load stores what it has read *)
(* by several queries, and a save deletes the row.  Nothing locks anything.*)
(* The page is the request with an empty filter: it uses the same key and  *)
(* service.                                                                *)
(***************************************************************************)
EXTENDS Naturals, ProjectSearch

CONSTANTS
    Requests,   \* requests under way at a time
    Others,     \* those among them that may ask for another page
    Asked,      \* the filters visitors ask for, a subset of Filter
    Edits,      \* the nodes editors save, a subset of Node
    MaxEdits,   \* bound: the saves and deletions
    NoRow       \* no row in a cache, no filter

ASSUME MapAssumption == /\ Others \subseteq Requests
                        /\ Asked \subseteq Filter
                        /\ Edits \subseteq Node
                        /\ MaxEdits \in Nat
                        /\ "" \in Args
                        /\ NoRow \notin Loaded \cup Fields \cup Filter

VARIABLES
    db,         \* the project tables
    fieldCache, \* fieldCache[p]: the row of project p in {cache_field}
    cache,      \* cache[k]: the data of the temporary row with cid k
    req,        \* req[r]: where request r is, with its locals
    log,        \* history: the contents of db, from the first to the last
    raced       \* history: the projects that were saved or deleted while a load
                \* had read some of their fields and not stored them yet

dbVars == <<db, log, raced>>
vars == <<dbVars, fieldCache, cache, req>>

\* The locals of custom_project_resource_index(), the service and the load of
\* its nodes: the nids to load, the fields loaded so far, of which projects and
\* which fields are still to be read from the tables; or the answer that was
\* sent.  A page about one project has no filter.
Idle == [step |-> "idle", filter |-> NoRow, found |-> {}, loaded |-> <<>>,
         ask |-> {}, unread |-> {}]

Request == [step : {"idle", "search", "nodes", "cached", "fields", "done"},
            filter : Filter \cup {NoRow}, found : SUBSET Projects,
            loaded : Loaded, ask : SUBSET Projects,
            unread : SUBSET FieldNames]

TypeOK ==
    /\ db \in Tables
    /\ fieldCache \in [Projects -> Fields \cup {NoRow}]
    /\ cache \in [Keys -> Loaded \cup {NoRow}]
    /\ req \in [Requests -> Request]
    /\ \A r \in Requests :
         /\ req[r].step \in {"search", "done"} => req[r].filter # NoRow
         /\ req[r].step = "fields" => req[r].ask \subseteq DOMAIN req[r].loaded
    /\ log \in Seq(Tables) /\ log # <<>> /\ db = log[Len(log)]
    /\ raced \subseteq Projects

Init ==
    /\ db \in UNION {[S -> Edits] : S \in SUBSET Projects}
    /\ fieldCache = [p \in Projects |-> NoRow]
    /\ cache = [k \in Keys |-> NoRow]
    /\ req = [r \in Requests |-> Idle]
    /\ log = <<db>>
    /\ raced = {}

Goto(r, c) == req' = [req EXCEPT ![r] = c]

At(r, step) == req[r].step = step

Finished(r) == req[r].step \in {"idle", "done"}

-----------------------------------------------------------------------------
\* cache_get() finds a row: it is the answer, however old it is.
Hit(r, f) ==
    /\ Finished(r)
    /\ cache[CacheKey(f)] # NoRow
    /\ Goto(r, [Idle EXCEPT !.step = "done", !.filter = f,
                            !.loaded = cache[CacheKey(f)]])
    /\ UNCHANGED <<dbVars, fieldCache, cache>>

\* cache_get() returns FALSE: the request computes the answer itself.
Miss(r, f) ==
    /\ Finished(r)
    /\ cache[CacheKey(f)] = NoRow
    /\ Goto(r, [Idle EXCEPT !.step = "search", !.filter = f])
    /\ UNCHANGED <<dbVars, fieldCache, cache>>

\* Any other page loads a project, published or not, in the same way.
Visit(r, p) ==
    /\ Finished(r) /\ r \in Others
    /\ Goto(r, [Idle EXCEPT !.step = "nodes", !.found = {p}])
    /\ UNCHANGED <<dbVars, fieldCache, cache>>

\* One query finds the nids ...
Search(r) ==
    /\ At(r, "search")
    /\ Goto(r, [req[r] EXCEPT !.step = "nodes",
                              !.found = ProjectNodeSearch(db, req[r].filter)])
    /\ UNCHANGED <<dbVars, fieldCache, cache>>

\* ... node_load_multiple() reads their rows of {node}, those that exist ...
LoadNodes(r) ==
    /\ At(r, "nodes")
    /\ Goto(r, [req[r] EXCEPT !.step = "cached", !.found = @ \cap DOMAIN db])
    /\ UNCHANGED <<dbVars, fieldCache, cache>>

Cached(nids) == {p \in nids : fieldCache[p] # NoRow}

\* Mistake: what is not in {cache_field} is not read elsewhere.
ReadRowsOnly(r) ==
    /\ At(r, "cached")
    /\ Goto(r, [req[r] EXCEPT
             !.step = "fields", !.found = {},
             !.loaded = [p \in req[r].found |-> fieldCache[p]]])
    /\ UNCHANGED <<dbVars, fieldCache, cache>>

\* ... field_attach_load() takes the fields of some from {cache_field} ...
ReadFieldCache(r) ==
    /\ At(r, "cached")
    /\ LET nids == req[r].found
           rows == Cached(nids)
       IN Goto(r, [req[r] EXCEPT
             !.step = "fields", !.found = {},
             !.loaded = [p \in nids |-> IF p \in rows THEN fieldCache[p]
                                                      ELSE NoFields],
             !.ask = nids \ rows,
             !.unread = IF nids = rows THEN {} ELSE FieldNames])
    /\ UNCHANGED <<dbVars, fieldCache, cache>>

\* ... reads those of the others, field by field, from the table of the field,
\* whatever has become of the projects in between ...
LoadField(r, name) ==
    /\ At(r, "fields") /\ name \in req[r].unread
    /\ Goto(r, [req[r] EXCEPT
          !.loaded = [p \in DOMAIN @ |->
              IF p \in req[r].ask
                THEN [@[p] EXCEPT ![name] = FieldsOf(db, p)[name]] ELSE @[p]],
          !.unread = @ \ {name}])
    /\ UNCHANGED <<dbVars, fieldCache, cache>>

\* ... and stores them, project by project.
StoreFields(r, p) ==
    /\ At(r, "fields") /\ req[r].unread = {} /\ p \in req[r].ask
    /\ fieldCache' = [fieldCache EXCEPT ![p] = req[r].loaded[p]]
    /\ Goto(r, [req[r] EXCEPT !.ask = @ \ {p}])
    /\ UNCHANGED <<dbVars, cache>>

\* Mistake: every answer is stored under the key of the page.
StoreUnfiltered(r) ==
    /\ At(r, "fields") /\ req[r].ask = {} /\ req[r].filter # NoRow
    /\ LET data == Features(req[r].loaded)
       IN /\ cache' = [cache EXCEPT !["projects_geojson"] = data]
          /\ Goto(r, [req[r] EXCEPT !.step = "done", !.loaded = data])
    /\ UNCHANGED <<dbVars, fieldCache>>

\* The features are built, and cache_set() merges the row, over one that another
\* request has set.
Store(r) ==
    /\ At(r, "fields") /\ req[r].ask = {} /\ req[r].filter # NoRow
    /\ LET data == Features(req[r].loaded)
       IN /\ cache' = [cache EXCEPT ![CacheKey(req[r].filter)] = data]
          /\ Goto(r, [req[r] EXCEPT !.step = "done", !.loaded = data])
    /\ UNCHANGED <<dbVars, fieldCache>>

\* The request is stopped, or its visitor is done with the answer.
Leave(r) ==
    /\ ~At(r, "idle")
    /\ Goto(r, Idle)
    /\ UNCHANGED <<dbVars, fieldCache, cache>>

\* Mistake: cron deletes the row of the page only.
CronClearPage ==
    /\ cache' = [cache EXCEPT !["projects_geojson"] = NoRow]
    /\ UNCHANGED <<dbVars, fieldCache, req>>

\* cache_clear_all(NULL, 'cache') of system_cron() deletes temporary rows; those
\* of {cache_field} are permanent.
CronClear ==
    /\ cache' = [k \in Keys |-> NoRow]
    /\ UNCHANGED <<dbVars, fieldCache, req>>

\* All caches are flushed, one table after the other: this is {cache_field}.
FlushFields ==
    /\ fieldCache' = [p \in Projects |-> NoRow]
    /\ UNCHANGED <<dbVars, cache, req>>

\* Request r has read some fields of p and has not stored them.
Reading(r, p) ==
    At(r, "fields") /\ p \in req[r].ask /\ req[r].unread # FieldNames

\* Mistake: the row of {cache_field} is kept.
EditedUncleared(p, db2) ==
    /\ Len(log) <= MaxEdits
    /\ db' = db2
    /\ log' = Append(log, db2)
    /\ raced' = raced \cup {q \in {p} : \E r \in Requests : Reading(r, q)}
    /\ UNCHANGED <<fieldCache, cache, req>>

\* node_save() and node_delete() are transactions, which delete the row of
\* {cache_field} within them; both leave {cache} alone.
Edited(p, db2) ==
    /\ Len(log) <= MaxEdits
    /\ db' = db2
    /\ log' = Append(log, db2)
    /\ raced' = raced \cup {q \in {p} : \E r \in Requests : Reading(r, q)}
    /\ fieldCache' = [fieldCache EXCEPT ![p] = NoRow]
    /\ UNCHANGED <<cache, req>>

\* {node} gives out no nid twice.
Unused(p) == \A i \in DOMAIN log : p \notin DOMAIN log[i]

Save(p, node) ==
    /\ p \in DOMAIN db \/ Unused(p)
    /\ Edited(p, [q \in DOMAIN db \cup {p} |-> IF q = p THEN node ELSE db[q]])

Delete(p) ==
    /\ p \in DOMAIN db
    /\ Edited(p, [q \in DOMAIN db \ {p} |-> db[q]])

Fill(r) ==
    \/ Search(r) \/ LoadNodes(r) \/ ReadFieldCache(r) \/ Store(r)
    \/ \E name \in FieldNames : LoadField(r, name)
    \/ \E p \in Projects : StoreFields(r, p)

Next ==
    \/ \E r \in Requests :
         \/ \E f \in Asked : Hit(r, f) \/ Miss(r, f)
         \/ \E p \in Projects : Visit(r, p)
         \/ Fill(r)
         \/ Leave(r)
    \/ CronClear \/ FlushFields
    \/ \E p \in Projects : Delete(p) \/ \E node \in Edits : Save(p, node)

Spec == Init /\ [][Next]_vars

\* A request that has begun goes on, and cron runs again and again: the site
\* starts it from page requests when it is due.
FairSpec == /\ Spec
            /\ WF_vars(CronClear)
            /\ \A r \in Requests : WF_vars(Fill(r))

-----------------------------------------------------------------------------
\* The fields of p, as the tables had them at one moment from the i-th on; only
\* a save within a load of p, which leaves a row of {cache_field} that no one
\* clears, lets older ones through, and mixes them.
Had(p, fields, i) ==
    \/ \E k \in i..Len(log) : fields = FieldsOf(log[k], p)
    \/ /\ p \in raced
       /\ \A name \in FieldNames : \E k \in DOMAIN log :
            fields[name] = FieldsOf(log[k], p)[name]

\* The answer data shows project p with these fields, if it can be shown.
Shows(data, p, fields) ==
    IF HasGeocode(fields) THEN p \in DOMAIN data /\ data[p] = fields
                          ELSE p \notin DOMAIN data

\* What a search found at moment i, and still existed at moment j.
FoundThen(f, i, j) == ProjectNodeSearch(log[i], f) \cap DOMAIN log[j]

\* An answer to f: the projects that a search found at some moment and that
\* still existed at a later one, each with the fields it had after that.
Explained(f, data) ==
    \E i \in DOMAIN log : \E j \in i..Len(log) :
        /\ DOMAIN data \subseteq FoundThen(f, i, j)
        /\ \A p \in FoundThen(f, i, j) :
             \E fields \in Fields : Had(p, fields, j) /\ Shows(data, p, fields)

\* Every visitor gets an answer to the question asked, of projects that were
\* published when it was computed and with fields no older than that: also when
\* another visitor's request, under the same key, put it into the cache, raced
\* with editors or overwrote a newer row.
AnswersExplained ==
    \A r \in Requests :
        At(r, "done") => Explained(req[r].filter, req[r].loaded)

\* A row never explains less than the answers read from it will need: it is an
\* answer to every filter that has its key.
RowsExplained ==
    \A f \in Filter :
        cache[CacheKey(f)] # NoRow => Explained(f, cache[CacheKey(f)])

\* The answer to f is what the tables hold now, up to the fields of projects
\* that were saved within a load.
UpToDate(f, data) ==
    /\ DOMAIN data \subseteq ProjectNodeSearch(db, f)
    /\ \A p \in ProjectNodeSearch(db, f) \ raced :
         Shows(data, p, db[p].fields)

Fresh(f) == cache[CacheKey(f)] = NoRow \/ UpToDate(f, cache[CacheKey(f)])

\* Once editors stop, stale rows of the map die out, and with them the projects
\* that were unpublished or deleted: cron deletes the rows, and the requests
\* that might still store an old answer come to their end.
EventuallyFresh == <>[](\A f \in Filter : Fresh(f))

\* What a request for an answer has found and loaded is what the tables hold.
CurrentLoad(r) ==
    LET found == ProjectNodeSearch(db, req[r].filter)
    IN /\ At(r, "nodes") \/ At(r, "cached") => req[r].found = found
       /\ At(r, "fields") =>
            /\ DOMAIN req[r].loaded = found
            /\ \A p \in found \ (req[r].ask \cup raced) :
                 req[r].loaded[p] = db[p].fields

\* No row is stale, and no request under way is about to store a stale one.
Current ==
    /\ \A f \in Filter : Fresh(f)
    /\ \A r \in Requests : req[r].filter # NoRow => CurrentLoad(r)

\* Only an edit makes the map stale: as long as editors rest, requests that
\* overlap, are stopped or share rows, loads that fill the field cache, and
\* cron, cannot bring an old answer back, up to the projects that were saved
\* within a load.
StaysCurrent == [][Current /\ UNCHANGED db => Current']_vars

\* What the filters mean: published, and of the type and in a neighborhood of
\* the name that were asked for.
Matches(p, f) ==
    /\ p \in Published(db)
    /\ f.pt = "" \/ p \in OfType(db, f.pt)
    /\ f.nh = "" \/ db[p].fields.nhs \cap TermsNamed(f.nh) # {}

\* Beyond the ways in which the queries deviate, a name without a term beside a
\* type, names that terms share and projects that lack a field, the search is
\* exact: each of its four queries finds every match and nothing else.
SearchExact ==
    \A f \in Filter :
        (/\ f.nh = "" \/ f.pt = "" \/ TermsNamed(f.nh) # {}
         /\ \A s, t \in TermsNamed(f.nh) : s = t) =>
            \A p \in Classified(db) :
                p \in ProjectNodeSearch(db, f) <=> Matches(p, f)

\* A narrower filter never finds more: choosing a type or a neighborhood that
\* exists beside the present filter only takes projects off the map.
SearchNarrows ==
    \A f, g \in Filter :
        (/\ f.nh \in {"", g.nh} /\ f.pt \in {"", g.pt}
         /\ g.nh = "" \/ TermsNamed(g.nh) # {})
            => ProjectNodeSearch(db, g) \subseteq ProjectNodeSearch(db, f)
=============================================================================
