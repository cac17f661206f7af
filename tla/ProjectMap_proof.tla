-------------------------- MODULE ProjectMap_proof --------------------------
(***************************************************************************)
(* Proofs about the project map: the search over all tables, and the       *)
(* answers of any number of requests, for any projects, neighborhoods,     *)
(* types, editors and cron runs.                                           *)
(***************************************************************************)
EXTENDS ProjectMap, SequenceTheorems, TLAPS

\* What the proofs use of sequences.
LEMMA SeqFacts ==
  ASSUME NEW S, NEW l \in Seq(S)
  PROVE  /\ Len(l) \in Nat /\ DOMAIN l = 1..Len(l)
         /\ l # <<>> => Len(l) \in DOMAIN l
<1>1. Len(l) \in Nat /\ DOMAIN l = 1..Len(l)
  BY LenProperties
<1>2. l # <<>> => Len(l) # 0
  BY EmptySeq
<1> QED
  BY <1>1, <1>2

LEMMA AppendFacts ==
  ASSUME NEW S, NEW l \in Seq(S), NEW t \in S
  PROVE  /\ Append(l, t) \in Seq(S) /\ Append(l, t) # <<>>
         /\ Append(l, t)[Len(Append(l, t))] = t
         /\ \A i \in DOMAIN l : /\ i \in DOMAIN Append(l, t)
                               /\ Append(l, t)[i] = l[i]
<1>1. /\ Append(l, t) \in Seq(S) /\ Append(l, t) # <<>>
      /\ Len(Append(l, t)) = Len(l) + 1
      /\ \A i \in 1..Len(l) : Append(l, t)[i] = l[i]
      /\ Append(l, t)[Len(l) + 1] = t
  BY AppendProperties
<1>2. /\ Len(l) \in Nat /\ DOMAIN l = 1..Len(l)
      /\ DOMAIN Append(l, t) = 1..Len(Append(l, t))
  BY <1>1, LenProperties
<1> QED
  BY <1>1, <1>2

LEMMA OneElement ==
  ASSUME NEW S, NEW t \in S
  PROVE  <<t>> \in Seq(S) /\ <<t>> # <<>> /\ t = <<t>>[Len(<<t>>)]
  OBVIOUS

-----------------------------------------------------------------------------
\* What projectNodeSearch() finds for each combination of its two parameters.
LEMMA SearchCases ==
  ASSUME NEW t, NEW f \in Filter
  PROVE  /\ f.nh = "" /\ f.pt = "" => ProjectNodeSearch(t, f) = Published(t)
         /\ f.nh # "" /\ f.pt = "" =>
              ProjectNodeSearch(t, f) = Joined(t) \cap InTerm(t, f.nh)
         /\ f.pt # "" /\ NeighborhoodTid(f.nh) = {} =>
              ProjectNodeSearch(t, f) = Joined(t) \cap OfType(t, f.pt)
         /\ f.pt # "" /\ NeighborhoodTid(f.nh) # {} =>
              ProjectNodeSearch(t, f)
                = Joined(t) \cap InTerm(t, f.nh) \cap OfType(t, f.pt)
  BY DEF ProjectNodeSearch

\* The tid of a name is the only term with that name, if there is one only.
LEMMA TidOfName ==
  ASSUME NEW nh, \A s, t \in TermsNamed(nh) : s = t
  PROVE  NeighborhoodTid(nh) = TermsNamed(nh)
<1>1. CASE TermsNamed(nh) = {}
  BY <1>1 DEF NeighborhoodTid
<1>2. ASSUME NEW t \in TermsNamed(nh) PROVE NeighborhoodTid(nh) = TermsNamed(nh)
  <2>1. TermsNamed(nh) = {t}
    BY <1>2
  <2>2. (CHOOSE s \in TermsNamed(nh) : TRUE) \in TermsNamed(nh)
    BY <1>2
  <2> QED
    BY <2>1, <2>2 DEF NeighborhoodTid
<1> QED
  BY <1>1, <1>2

\* There is a tid exactly if there is a term, and a parameter left at its
\* default names none.
LEMMA NoName == /\ \A nh : NeighborhoodTid(nh) = {} <=> TermsNamed(nh) = {}
                /\ TermsNamed("") = {}
  BY SearchAssumption DEF NeighborhoodTid, TermsNamed

LEMMA Exact == SearchExact
<1> SUFFICES ASSUME NEW f \in Filter,
                    f.nh = "" \/ f.pt = "" \/ TermsNamed(f.nh) # {},
                    \A s, t \in TermsNamed(f.nh) : s = t,
                    NEW p \in Classified(db)
             PROVE  p \in ProjectNodeSearch(db, f) <=> Matches(p, f)
  BY DEF SearchExact
<1>1. p \in DOMAIN db /\ (p \in Joined(db) <=> p \in Published(db))
  BY DEF Joined, Classified
<1>2. p \in InTerm(db, f.nh) <=> db[p].fields.nhs \cap TermsNamed(f.nh) # {}
  BY <1>1, TidOfName DEF InTerm
<1>3. CASE f.pt = ""
  BY <1>1, <1>2, <1>3, SearchCases DEF Matches
<1>4. CASE f.pt # "" /\ TermsNamed(f.nh) # {}
  <2>1. f.nh # ""
    BY <1>4, NoName
  <2>2. NeighborhoodTid(f.nh) # {}
    BY <1>4, NoName
  <2>3. ProjectNodeSearch(db, f)
          = Joined(db) \cap InTerm(db, f.nh) \cap OfType(db, f.pt)
    BY <1>4, <2>2, SearchCases
  <2> QED
    BY <1>1, <1>2, <1>4, <2>1, <2>3 DEF Matches
<1>5. CASE f.pt # "" /\ TermsNamed(f.nh) = {}
  BY <1>1, <1>5, SearchCases, NoName DEF Matches
<1> QED
  BY <1>3, <1>4, <1>5

\* Each of the four queries finds the published projects that match, for all
\* tables, as long as projects have both fields, a name beside a type exists and
\* names are not shared.
THEOREM SearchIsExact == Spec => []SearchExact
  BY Exact, PTL

LEMMA Narrows == SearchNarrows
<1> SUFFICES ASSUME NEW f \in Filter, NEW g \in Filter,
                    f.nh \in {"", g.nh}, f.pt \in {"", g.pt},
                    g.nh = "" \/ TermsNamed(g.nh) # {}
             PROVE  ProjectNodeSearch(db, g) \subseteq ProjectNodeSearch(db, f)
  BY DEF SearchNarrows
<1>1. Joined(db) \subseteq Published(db)
  BY DEF Joined
<1>2. CASE f.nh = "" /\ f.pt = ""
  BY <1>1, <1>2, SearchCases
<1>3. CASE f.nh # "" /\ f.pt = ""
  <2>1. g.nh = f.nh /\ NeighborhoodTid(g.nh) # {} /\ g.nh # ""
    BY <1>3, NoName
  <2> QED
    BY <1>3, <2>1, SearchCases
<1>4. CASE f.nh = "" /\ f.pt # ""
  BY <1>4, SearchCases, NoName
<1>5. CASE f.nh # "" /\ f.pt # ""
  BY <1>5, SearchCases, NoName
<1> QED
  BY <1>2, <1>3, <1>4, <1>5

\* A narrower filter never finds more, for all tables.
THEOREM SearchOnlyNarrows == Spec => []SearchNarrows
  BY Narrows, PTL

-----------------------------------------------------------------------------
\* Tables, loaded fields, and what they hold of a project.
LEMMA TablesDef ==
  ASSUME NEW t
  PROVE  t \in Tables <=> DOMAIN t \subseteq Projects /\ t \in [DOMAIN t -> Node]
  BY DEF Tables

LEMMA LoadedDef ==
  ASSUME NEW l
  PROVE  l \in Loaded <=> DOMAIN l \subseteq Projects /\ l \in [DOMAIN l -> Fields]
  BY DEF Loaded

LEMMA NoFieldsTyped == NoFields \in Fields
  BY DEF NoFields, Fields

LEMMA FieldsOfTyped ==
  ASSUME NEW t \in Tables, NEW p PROVE FieldsOf(t, p) \in Fields
<1>1. CASE p \in DOMAIN t
  <2>1. t[p] \in Node
    BY <1>1, TablesDef
  <2> QED
    BY <1>1, <2>1 DEF FieldsOf, Node
<1>2. CASE p \notin DOMAIN t
  BY <1>2, NoFieldsTyped DEF FieldsOf
<1> QED
  BY <1>1, <1>2

\* Fields are equal if each of them is.
LEMMA SameFields ==
  ASSUME NEW v \in Fields, NEW w \in Fields,
         \A name \in FieldNames : v[name] = w[name]
  PROVE  v = w
  BY DEF Fields, FieldNames

\* One field taken from other fields.
LEMMA OneField ==
  ASSUME NEW v \in Fields, NEW w \in Fields, NEW name \in FieldNames
  PROVE  /\ [v EXCEPT ![name] = w[name]] \in Fields
         /\ [v EXCEPT ![name] = w[name]][name] = w[name]
         /\ \A other \in FieldNames \ {name} :
              [v EXCEPT ![name] = w[name]][other] = v[other]
  BY DEF Fields, FieldNames

LEMMA FeaturesTyped ==
  ASSUME NEW l \in Loaded
  PROVE  /\ Features(l) \in Loaded /\ DOMAIN Features(l) \subseteq DOMAIN l
         /\ \A p \in DOMAIN l : Shows(Features(l), p, l[p])
<1> DEFINE S == {q \in DOMAIN l : HasGeocode(l[q])}
<1>1. S \subseteq Projects /\ \A q \in S : l[q] \in Fields
  BY LoadedDef
<1>2. Features(l) = [p \in S |-> l[p]]
  BY DEF Features
<1>3. DOMAIN Features(l) = S /\ Features(l) \in [S -> Fields]
  BY <1>1, <1>2
<1>4. Features(l) \in Loaded
  BY <1>1, <1>3 DEF Loaded
<1>5. ASSUME NEW p \in DOMAIN l PROVE Shows(Features(l), p, l[p])
  BY <1>2, <1>3 DEF Shows
<1> QED
  BY <1>3, <1>4, <1>5

LEMMA SearchTyped ==
  ASSUME NEW t \in Tables, NEW f \in Filter
  PROVE  ProjectNodeSearch(t, f) \subseteq DOMAIN t
<1>1. Published(t) \subseteq DOMAIN t /\ Joined(t) \subseteq DOMAIN t
  BY DEF Published, Joined
<1> QED
  BY <1>1, SearchCases

LEMMA KeyTyped == ASSUME NEW f \in Filter PROVE CacheKey(f) \in Keys
  BY DEF Keys

LEMMA NoRowFacts == /\ NoRow \notin Filter /\ NoRow \notin Loaded
                    /\ NoRow \notin Fields
  BY MapAssumption

-----------------------------------------------------------------------------
LEMMA IdleTyped == Idle \in Request /\ Idle.step = "idle" /\ Idle.filter = NoRow
<1>1. <<>> \in [{} -> Fields] /\ DOMAIN <<>> = {}
  OBVIOUS
<1>2. <<>> \in Loaded
  BY <1>1 DEF Loaded
<1> QED
  BY <1>2 DEF Idle, Request

LEMMA InitTyped == Init => TypeOK
<1> SUFFICES ASSUME Init PROVE TypeOK
  OBVIOUS
<1>1. db \in Tables
  <2>1. PICK S \in SUBSET Projects : db \in [S -> Edits]
    BY DEF Init
  <2>2. db \in [S -> Node]
    BY <2>1, MapAssumption
  <2> QED
    BY <2>1, <2>2 DEF Tables
<1>2. log \in Seq(Tables) /\ log # <<>> /\ db = log[Len(log)]
  BY <1>1, OneElement DEF Init
<1> QED
  BY <1>1, <1>2, IdleTyped DEF Init, TypeOK

\* What TypeOK says of the locals of one request.
LocalsTyped(c) ==
    /\ c \in Request
    /\ c.step \in {"search", "done"} => c.filter # NoRow
    /\ c.step = "fields" => c.ask \subseteq DOMAIN c.loaded

\* A step that moves one request on, and nothing else but maybe the caches.
LEMMA GotoTyped ==
  ASSUME TypeOK, NEW r \in Requests, NEW c, Goto(r, c), LocalsTyped(c),
         cache' \in [Keys -> Loaded \cup {NoRow}],
         fieldCache' \in [Projects -> Fields \cup {NoRow}], UNCHANGED dbVars
  PROVE  TypeOK'
  BY DEF TypeOK, Goto, LocalsTyped, dbVars

\* Editors leave a table, and the history ends with it.
LEMMA EditedTyped ==
  ASSUME TypeOK, NEW p \in Projects, NEW t \in Tables, Edited(p, t)
  PROVE  TypeOK'
<1>1. log' \in Seq(Tables) /\ log' # <<>> /\ log'[Len(log')] = t
  BY AppendFacts DEF TypeOK, Edited
<1>2. fieldCache' \in [Projects -> Fields \cup {NoRow}] /\ raced' \subseteq Projects
  BY DEF TypeOK, Edited
<1> QED
  BY <1>1, <1>2 DEF TypeOK, Edited

\* A save and a deletion leave all other projects as they are.
Spares(p, t) == /\ t \in Tables
                /\ \A q \in Projects : q # p => FieldsOf(t, q) = FieldsOf(db, q)

LEMMA SaveIsEdit ==
  ASSUME TypeOK, NEW p \in Projects, NEW node \in Edits, Save(p, node)
  PROVE  \E t : Spares(p, t) /\ Edited(p, t)
<1> DEFINE t == [q \in DOMAIN db \cup {p} |-> IF q = p THEN node ELSE db[q]]
<1>1. DOMAIN db \subseteq Projects /\ db \in [DOMAIN db -> Node] /\ node \in Node
  BY TablesDef, MapAssumption DEF TypeOK
<1>2. t \in [DOMAIN db \cup {p} -> Node] /\ DOMAIN t = DOMAIN db \cup {p}
  BY <1>1
<1>3. t \in Tables
  BY <1>1, <1>2, TablesDef
<1>4. \A q \in Projects : q # p => FieldsOf(t, q) = FieldsOf(db, q)
  BY <1>2 DEF FieldsOf
<1> QED
  BY <1>3, <1>4 DEF Save, Spares

LEMMA DeleteIsEdit ==
  ASSUME TypeOK, NEW p \in Projects, Delete(p)
  PROVE  \E t : Spares(p, t) /\ Edited(p, t)
<1> DEFINE t == [q \in DOMAIN db \ {p} |-> db[q]]
<1>1. DOMAIN db \subseteq Projects /\ db \in [DOMAIN db -> Node]
  BY TablesDef DEF TypeOK
<1>2. t \in [DOMAIN db \ {p} -> Node] /\ DOMAIN t = DOMAIN db \ {p}
  BY <1>1
<1>3. t \in Tables
  BY <1>1, <1>2, TablesDef
<1>4. \A q \in Projects : q # p => FieldsOf(t, q) = FieldsOf(db, q)
  BY <1>2 DEF FieldsOf
<1> QED
  BY <1>3, <1>4 DEF Delete, Spares

\* What a load of the field tables does to the fields loaded so far.
LEMMA LoadFieldLoads ==
  ASSUME TypeOK, NEW r \in Requests, NEW name, LoadField(r, name)
  PROVE  \E c : /\ Goto(r, c) /\ LocalsTyped(c) /\ c.step = "fields"
                /\ c.filter = req[r].filter /\ c.ask = req[r].ask
                /\ c.unread = req[r].unread \ {name} /\ name \in FieldNames
                /\ DOMAIN c.loaded = DOMAIN req[r].loaded
                /\ \A p \in DOMAIN c.loaded \ c.ask : c.loaded[p] = req[r].loaded[p]
                /\ \A p \in c.ask :
                     /\ c.loaded[p][name] = FieldsOf(db, p)[name]
                     /\ \A other \in FieldNames \ {name} :
                          c.loaded[p][other] = req[r].loaded[p][other]
<1> DEFINE old == req[r].loaded
           new == [p \in DOMAIN old |->
                     IF p \in req[r].ask
                       THEN [old[p] EXCEPT ![name] = FieldsOf(db, p)[name]]
                       ELSE old[p]]
           c == [req[r] EXCEPT !.loaded = new, !.unread = @ \ {name}]
<1>1. /\ req[r] \in Request /\ req[r].step = "fields" /\ name \in FieldNames
      /\ req[r].ask \subseteq DOMAIN old /\ old \in Loaded /\ db \in Tables
  BY DEF LoadField, At, TypeOK, Request
<1>2. Goto(r, c)
  BY Zenon DEF LoadField
<1>3. DOMAIN old \subseteq Projects /\ \A p \in DOMAIN old : old[p] \in Fields
  BY <1>1, LoadedDef
<1>4. \A p \in req[r].ask :
        /\ new[p] \in Fields /\ new[p][name] = FieldsOf(db, p)[name]
        /\ \A other \in FieldNames \ {name} : new[p][other] = old[p][other]
  <2> TAKE p \in req[r].ask
  <2>1. new[p] = [old[p] EXCEPT ![name] = FieldsOf(db, p)[name]]
    BY <1>1
  <2>2. old[p] \in Fields /\ FieldsOf(db, p) \in Fields
    BY <1>1, <1>3, FieldsOfTyped
  <2> DEFINE v == old[p]
             w == FieldsOf(db, p)
  <2> HIDE DEF new, v, w
  <2>3. v \in Fields /\ w \in Fields /\ new[p] = [v EXCEPT ![name] = w[name]]
    BY <2>1, <2>2 DEF v, w
  <2>4. /\ new[p] \in Fields /\ new[p][name] = w[name]
        /\ \A other \in FieldNames \ {name} : new[p][other] = v[other]
    BY <1>1, <2>3, OneField
  <2> QED
    BY <2>4 DEF v, w
<1>5. \A p \in DOMAIN old : new[p] \in Fields
  BY <1>3, <1>4
<1>6. new \in Loaded /\ DOMAIN new = DOMAIN old
  <2>1. DOMAIN new = DOMAIN old /\ new \in [DOMAIN old -> Fields]
    BY <1>5
  <2> QED
    BY <1>3, <2>1, LoadedDef
<1>7. \A p \in DOMAIN old \ req[r].ask : new[p] = old[p]
  OBVIOUS
<1> HIDE DEF new
<1>8. /\ c \in Request /\ c.step = "fields" /\ c.filter = req[r].filter
      /\ c.ask = req[r].ask /\ c.unread = req[r].unread \ {name} /\ c.loaded = new
  BY <1>1, <1>6 DEF Request
<1> HIDE DEF c
<1> QED
  BY <1>1, <1>2, <1>4, <1>6, <1>7, <1>8 DEF LocalsTyped

\* What is found in {cache_field}, and left to be read.
LEMMA ReadFieldCacheLoads ==
  ASSUME TypeOK, NEW r \in Requests, ReadFieldCache(r)
  PROVE  \E c : /\ Goto(r, c) /\ LocalsTyped(c) /\ c.step = "fields"
                /\ c.filter = req[r].filter
                /\ DOMAIN c.loaded = req[r].found
                /\ c.ask # {} => c.unread = FieldNames
                /\ \A p \in DOMAIN c.loaded \ c.ask :
                     fieldCache[p] # NoRow /\ c.loaded[p] = fieldCache[p]
<1> DEFINE nids == req[r].found
           rows == Cached(nids)
           new == [p \in nids |-> IF p \in rows THEN fieldCache[p] ELSE NoFields]
           more == IF nids = rows THEN {} ELSE FieldNames
           c == [req[r] EXCEPT !.step = "fields", !.found = {}, !.loaded = new,
                               !.ask = nids \ rows, !.unread = more]
<1>1. req[r] \in Request /\ nids \subseteq Projects
  BY DEF TypeOK, Request
<1>2. Goto(r, c)
  BY Zenon DEF ReadFieldCache
<1>3. /\ rows \subseteq nids
      /\ \A p \in rows : fieldCache[p] # NoRow /\ fieldCache[p] \in Fields
  BY <1>1 DEF Cached, TypeOK
<1>4. \A p \in nids : new[p] \in Fields
  BY <1>3, NoFieldsTyped
<1>5. new \in Loaded /\ DOMAIN new = nids
  <2>1. DOMAIN new = nids /\ new \in [nids -> Fields]
    BY <1>4
  <2> QED
    BY <1>1, <2>1, LoadedDef
<1>6. \A p \in rows : new[p] = fieldCache[p]
  BY <1>3
<1>7. more \subseteq FieldNames /\ (nids \ rows # {} => more = FieldNames)
  BY <1>3
<1> HIDE DEF new, more, rows
<1>8. /\ c \in Request /\ c.step = "fields" /\ c.filter = req[r].filter
      /\ c.ask = nids \ rows /\ c.unread = more /\ c.loaded = new
  BY <1>1, <1>5, <1>7 DEF Request
<1> HIDE DEF c
<1> QED
  BY <1>2, <1>3, <1>5, <1>6, <1>7, <1>8 DEF LocalsTyped

LEMMA NextTyped == TypeOK /\ [Next]_vars => TypeOK'
<1> SUFFICES ASSUME TypeOK, [Next]_vars PROVE TypeOK'
  OBVIOUS
<1>1. CASE UNCHANGED vars
  BY <1>1 DEF vars, dbVars, TypeOK
<1>2. ASSUME NEW r \in Requests, NEW f \in Asked, Hit(r, f) PROVE TypeOK'
  <2> DEFINE c == [Idle EXCEPT !.step = "done", !.filter = f,
                               !.loaded = cache[CacheKey(f)]]
  <2>1. /\ f \in Filter /\ f # NoRow
        /\ cache[CacheKey(f)] \in Loaded
    BY <1>2, KeyTyped, MapAssumption, NoRowFacts DEF Hit, TypeOK
  <2>2. LocalsTyped(c)
    BY <2>1, IdleTyped DEF Request, LocalsTyped
  <2> QED
    BY <1>2, <2>2, GotoTyped DEF Hit, TypeOK
<1>3. ASSUME NEW r \in Requests, NEW f \in Asked, Miss(r, f) PROVE TypeOK'
  <2> DEFINE c == [Idle EXCEPT !.step = "search", !.filter = f]
  <2>1. f \in Filter /\ f # NoRow
    BY MapAssumption, NoRowFacts
  <2>2. LocalsTyped(c)
    BY <2>1, IdleTyped DEF Request, LocalsTyped
  <2> QED
    BY <1>3, <2>2, GotoTyped DEF Miss, TypeOK
<1>4. ASSUME NEW r \in Requests, NEW p \in Projects, Visit(r, p) PROVE TypeOK'
  <2>1. LocalsTyped([Idle EXCEPT !.step = "nodes", !.found = {p}])
    BY IdleTyped DEF Request, LocalsTyped
  <2> QED
    BY <1>4, <2>1, GotoTyped DEF Visit, TypeOK
<1>5. ASSUME NEW r \in Requests, Search(r) PROVE TypeOK'
  <2> DEFINE c == [req[r] EXCEPT !.step = "nodes",
                           !.found = ProjectNodeSearch(db, req[r].filter)]
  <2>1. req[r] \in Request /\ req[r].filter \in Filter
    BY <1>5 DEF Search, At, TypeOK, Request
  <2>2. ProjectNodeSearch(db, req[r].filter) \subseteq Projects
    BY <2>1, SearchTyped, TablesDef DEF TypeOK
  <2>3. LocalsTyped(c)
    BY <2>1, <2>2 DEF Request, LocalsTyped
  <2> QED
    BY <1>5, <2>3, GotoTyped DEF Search, TypeOK
<1>6. ASSUME NEW r \in Requests, LoadNodes(r) PROVE TypeOK'
  <2>1. req[r] \in Request
    BY DEF TypeOK
  <2>2. LocalsTyped([req[r] EXCEPT !.step = "cached", !.found = @ \cap DOMAIN db])
    BY <2>1 DEF Request, LocalsTyped
  <2> QED
    BY <1>6, <2>2, GotoTyped DEF LoadNodes, TypeOK
<1>7. ASSUME NEW r \in Requests, ReadFieldCache(r) PROVE TypeOK'
  BY <1>7, ReadFieldCacheLoads, GotoTyped DEF ReadFieldCache, TypeOK
<1>8. ASSUME NEW r \in Requests, NEW name, LoadField(r, name) PROVE TypeOK'
  BY <1>8, LoadFieldLoads, GotoTyped DEF LoadField, TypeOK
<1>9. ASSUME NEW r \in Requests, NEW p \in Projects, StoreFields(r, p) PROVE TypeOK'
  <2>1. /\ req[r] \in Request /\ req[r].loaded \in Loaded
        /\ req[r].step = "fields" /\ p \in DOMAIN req[r].loaded
    BY <1>9 DEF StoreFields, At, TypeOK, Request
  <2>2. req[r].loaded[p] \in Fields
    BY <2>1, LoadedDef
  <2>3. fieldCache' \in [Projects -> Fields \cup {NoRow}]
    BY <1>9, <2>2 DEF StoreFields, TypeOK
  <2>4. LocalsTyped([req[r] EXCEPT !.ask = @ \ {p}])
    BY <2>1 DEF Request, LocalsTyped, TypeOK
  <2> QED
    BY <1>9, <2>3, <2>4, GotoTyped DEF StoreFields, TypeOK
<1>10. ASSUME NEW r \in Requests, Store(r) PROVE TypeOK'
  <2> DEFINE data == Features(req[r].loaded)
             c == [req[r] EXCEPT !.step = "done", !.loaded = data]
  <2>1. /\ req[r] \in Request /\ req[r].loaded \in Loaded
        /\ req[r].filter \in Filter /\ req[r].filter # NoRow
    BY <1>10 DEF Store, TypeOK, Request
  <2>2. data \in Loaded
    BY <2>1, FeaturesTyped
  <2>3. Goto(r, c) /\ cache' = [cache EXCEPT ![CacheKey(req[r].filter)] = data]
    BY <1>10, Zenon DEF Store
  <2> HIDE DEF data
  <2>4. LocalsTyped(c)
    BY <2>1, <2>2 DEF Request, LocalsTyped
  <2>5. cache' \in [Keys -> Loaded \cup {NoRow}]
    BY <2>2, <2>3 DEF TypeOK
  <2> QED
    BY <1>10, <2>3, <2>4, <2>5, GotoTyped DEF Store, TypeOK
<1>11. ASSUME NEW r \in Requests, Leave(r) PROVE TypeOK'
  BY <1>11, IdleTyped, GotoTyped DEF Leave, LocalsTyped, TypeOK
<1>12. CASE CronClear \/ FlushFields
  BY <1>12 DEF CronClear, FlushFields, TypeOK, dbVars
<1>13. ASSUME NEW p \in Projects, NEW t, Spares(p, t), Edited(p, t) PROVE TypeOK'
  BY <1>13, EditedTyped DEF Spares
<1>14. ASSUME NEW p \in Projects, NEW node \in Edits, Save(p, node) PROVE TypeOK'
  BY <1>13, <1>14, SaveIsEdit
<1>15. ASSUME NEW p \in Projects, Delete(p) PROVE TypeOK'
  BY <1>13, <1>15, DeleteIsEdit
<1> QED
  BY <1>1, <1>2, <1>3, <1>4, <1>5, <1>6, <1>7, <1>8, <1>9, <1>10, <1>11, <1>12,
     <1>14, <1>15 DEF Next, Fill

\* The variables of the map keep their types.
THEOREM TypeCorrect == Spec => []TypeOK
  BY InitTyped, NextTyped, PTL DEF Spec

-----------------------------------------------------------------------------
\* A row of {cache_field} has the fields its project has now, or mixes old ones
\* after a save within a load.
FieldRowsGood ==
    \A p \in Projects :
        fieldCache[p] # NoRow => Had(p, fieldCache[p], Len(log))

\* The fields that a load at c has read of p so far: those p has now, or each
\* of them from some moment, if p was saved meanwhile.
PartlyRead(c, p) ==
    \A name \in FieldNames \ c.unread :
        IF p \in raced
          THEN \E k \in DOMAIN log :
                 c.loaded[p][name] = FieldsOf(log[k], p)[name]
          ELSE c.loaded[p][name] = FieldsOf(db, p)[name]

\* A request at c works for an answer that is explained by moments i and j.
LoadedSince(c, i, j) ==
    /\ DOMAIN c.loaded = FoundThen(c.filter, i, j)
    /\ \A p \in DOMAIN c.loaded \ c.ask : Had(p, c.loaded[p], j)

\* What a request at c has in its locals.
Good(c) ==
    /\ c.step = "nodes" /\ c.filter # NoRow =>
         \E i \in DOMAIN log : c.found = ProjectNodeSearch(log[i], c.filter)
    /\ c.step = "cached" /\ c.filter # NoRow =>
         \E i, j \in DOMAIN log : i <= j /\ c.found = FoundThen(c.filter, i, j)
    /\ c.step = "fields" => \A p \in c.ask : PartlyRead(c, p)
    /\ c.step = "fields" /\ c.filter # NoRow =>
         \E i, j \in DOMAIN log : i <= j /\ LoadedSince(c, i, j)
    /\ c.step = "done" => Explained(c.filter, c.loaded)

LocalsGood == \A r \in Requests : Good(req[r])

RowsGood ==
    \A f \in Filter :
        cache[CacheKey(f)] # NoRow => Explained(f, cache[CacheKey(f)])

Inv == TypeOK /\ FieldRowsGood /\ LocalsGood /\ RowsGood

\* What the proofs use of the history.
LEMMA LogFacts ==
  ASSUME TypeOK
  PROVE  /\ log \in Seq(Tables) /\ Len(log) \in Nat /\ Len(log) \in DOMAIN log
         /\ DOMAIN log = 1..Len(log) /\ db = log[Len(log)] /\ db \in Tables
  BY SeqFacts DEF TypeOK

\* The fields a project has now are fields it has had since any moment.
LEMMA HadNow ==
  ASSUME TypeOK, NEW p, NEW j \in DOMAIN log
  PROVE  Had(p, FieldsOf(db, p), j)
<1>1. Len(log) \in j..Len(log) /\ db = log[Len(log)]
  BY LogFacts
<1> QED
  BY <1>1 DEF Had

LEMMA HadSince ==
  ASSUME TypeOK, NEW p, NEW fields, NEW j \in DOMAIN log, Had(p, fields, Len(log))
  PROVE  Had(p, fields, j)
<1>1. \A k \in Len(log)..Len(log) : k \in j..Len(log)
  BY LogFacts
<1> QED
  BY <1>1 DEF Had

\* A load that has read all fields of a project has fields that it has had.
LEMMA ReadIsHad ==
  ASSUME TypeOK, NEW c, NEW p, c.loaded[p] \in Fields, c.unread = {},
         PartlyRead(c, p), NEW j \in DOMAIN log
  PROVE  Had(p, c.loaded[p], j)
<1>1. CASE p \in raced
  BY <1>1 DEF PartlyRead, Had
<1>2. CASE p \notin raced
  <2>1. FieldsOf(db, p) \in Fields
    BY LogFacts, FieldsOfTyped
  <2>2. c.loaded[p] = FieldsOf(db, p)
    BY <1>2, <2>1, SameFields DEF PartlyRead
  <2> QED
    BY <2>2, HadNow
<1> QED
  BY <1>1, <1>2

\* An answer made of what a request has loaded is explained.
LEMMA LoadedExplains ==
  ASSUME TypeOK, NEW f, NEW l \in Loaded,
         NEW i \in DOMAIN log, NEW j \in DOMAIN log, i <= j,
         DOMAIN l = FoundThen(f, i, j), \A p \in DOMAIN l : Had(p, l[p], j)
  PROVE  Explained(f, Features(l))
<1>1. j \in i..Len(log)
  BY LogFacts
<1>2. /\ DOMAIN Features(l) \subseteq DOMAIN l
      /\ \A p \in DOMAIN l : l[p] \in Fields /\ Shows(Features(l), p, l[p])
  BY FeaturesTyped, LoadedDef
<1> QED
  BY <1>1, <1>2 DEF Explained

-----------------------------------------------------------------------------
\* What an edit of project e does to the history.
Grows(e, t) ==
    /\ Spares(e, t) /\ log' = Append(log, t) /\ db' = t
    /\ raced \subseteq raced'

LEMMA GrowsFacts ==
  ASSUME TypeOK, NEW e \in Projects, NEW t, Grows(e, t)
  PROVE  /\ t \in Tables /\ log' \in Seq(Tables) /\ Len(log') = Len(log) + 1
         /\ DOMAIN log' = 1..Len(log') /\ Len(log') \in DOMAIN log'
         /\ log'[Len(log')] = t
         /\ \A k \in DOMAIN log : k \in DOMAIN log' /\ log'[k] = log[k]
<1>1. t \in Tables /\ log \in Seq(Tables)
  BY DEF Grows, Spares, TypeOK
<1>2. log' = Append(log, t)
  BY DEF Grows
<1>3. Len(log') = Len(log) + 1 /\ log' \in Seq(Tables)
  BY <1>1, <1>2, AppendProperties
<1>4. DOMAIN log' = 1..Len(log')
  BY <1>3, LenProperties
<1>5. Len(log') \in DOMAIN log'
  BY <1>3, <1>4, LogFacts
<1> QED
  BY <1>1, <1>2, <1>3, <1>4, <1>5, AppendFacts

\* What was had and what was explained stay so.
LEMMA HadGrows ==
  ASSUME TypeOK, NEW e \in Projects, NEW t, Grows(e, t),
         NEW p, NEW fields, NEW j \in DOMAIN log, Had(p, fields, j)
  PROVE  Had(p, fields, j)'
<1>1. \A k \in j..Len(log) : k \in j..Len(log') /\ log'[k] = log[k]
  BY LogFacts, GrowsFacts
<1>2. CASE \E k \in j..Len(log) : fields = FieldsOf(log[k], p)
  BY <1>1, <1>2 DEF Had
<1>3. CASE /\ p \in raced
           /\ \A name \in FieldNames : \E k \in DOMAIN log :
                fields[name] = FieldsOf(log[k], p)[name]
  BY <1>3, GrowsFacts DEF Had, Grows
<1> QED
  BY <1>2, <1>3 DEF Had

LEMMA FoundGrows ==
  ASSUME TypeOK, NEW e \in Projects, NEW t, Grows(e, t),
         NEW f, NEW i \in DOMAIN log, NEW j \in DOMAIN log
  PROVE  FoundThen(f, i, j)' = FoundThen(f, i, j)
  BY GrowsFacts DEF FoundThen

LEMMA ExplainedGrows ==
  ASSUME TypeOK, NEW e \in Projects, NEW t, Grows(e, t),
         NEW f, NEW data, Explained(f, data)
  PROVE  Explained(f, data)'
<1>1. PICK i \in DOMAIN log : \E j \in i..Len(log) :
        /\ DOMAIN data \subseteq FoundThen(f, i, j)
        /\ \A p \in FoundThen(f, i, j) :
             \E fields \in Fields : Had(p, fields, j) /\ Shows(data, p, fields)
  BY DEF Explained
<1>2. PICK j \in i..Len(log) :
        /\ DOMAIN data \subseteq FoundThen(f, i, j)
        /\ \A p \in FoundThen(f, i, j) :
             \E fields \in Fields : Had(p, fields, j) /\ Shows(data, p, fields)
  BY <1>1
<1>3. j \in DOMAIN log /\ j \in i..Len(log') /\ i \in DOMAIN log'
  BY LogFacts, GrowsFacts
<1>4. FoundThen(f, i, j)' = FoundThen(f, i, j)
  BY <1>3, FoundGrows
<1>5. \A p \in FoundThen(f, i, j) :
        \E fields \in Fields : Had(p, fields, j)' /\ Shows(data, p, fields)
  BY <1>2, <1>3, HadGrows
<1> QED
  BY <1>2, <1>3, <1>4, <1>5 DEF Explained

LEMMA GoodGrows ==
  ASSUME TypeOK, NEW e \in Projects, NEW t, Grows(e, t), NEW c,
         LocalsTyped(c), Good(c),
         c.step = "fields" /\ e \in c.ask /\ c.unread # FieldNames => e \in raced'
  PROVE  Good(c)'
<1>1. c.step = "nodes" /\ c.filter # NoRow =>
        \E i \in DOMAIN log' : c.found = ProjectNodeSearch(log'[i], c.filter)
  BY GrowsFacts DEF Good
<1>2. c.step = "cached" /\ c.filter # NoRow =>
        \E i, j \in DOMAIN log' : i <= j /\ c.found = FoundThen(c.filter, i, j)'
  BY GrowsFacts, FoundGrows DEF Good
<1>3. ASSUME c.step = "fields", NEW p \in c.ask PROVE PartlyRead(c, p)'
  <2>1. PartlyRead(c, p) /\ p \in Projects /\ c.unread \subseteq FieldNames
    BY <1>3 DEF Good, LocalsTyped, Request
  <2>2. CASE c.unread = FieldNames
    BY <2>2 DEF PartlyRead
  <2>3. CASE p \in raced
    <3>1. p \in raced'
      BY <2>3 DEF Grows
    <3>2. \A name \in FieldNames \ c.unread : \E k \in DOMAIN log :
            c.loaded[p][name] = FieldsOf(log[k], p)[name]
      BY <2>1, <2>3 DEF PartlyRead
    <3> QED
      BY <3>1, <3>2, GrowsFacts DEF PartlyRead
  <2>4. CASE p \notin raced /\ p = e /\ c.unread # FieldNames
    <3>1. p \in raced'
      BY <1>3, <2>4
    <3>2. \A name \in FieldNames \ c.unread :
            c.loaded[p][name] = FieldsOf(log[Len(log)], p)[name]
      BY <2>1, <2>4, LogFacts DEF PartlyRead
    <3> QED
      BY <3>1, <3>2, LogFacts, GrowsFacts DEF PartlyRead
  <2>5. CASE p \notin raced /\ p # e
    <3>1. FieldsOf(t, p) = FieldsOf(db, p) /\ db' = t
      BY <2>1, <2>5 DEF Grows, Spares
    <3>2. \A name \in FieldNames \ c.unread :
            c.loaded[p][name] = FieldsOf(t, p)[name]
      BY <2>1, <2>5, <3>1 DEF PartlyRead
    <3> QED
      BY <3>1, <3>2, GrowsFacts DEF PartlyRead
  <2> QED
    BY <2>2, <2>3, <2>4, <2>5
<1>4. ASSUME c.step = "fields", c.filter # NoRow
      PROVE  \E i, j \in DOMAIN log' : i <= j /\ LoadedSince(c, i, j)'
  <2>1. PICK i \in DOMAIN log, j \in DOMAIN log : i <= j /\ LoadedSince(c, i, j)
    BY <1>4 DEF Good
  <2>2. LoadedSince(c, i, j)'
    BY <2>1, FoundGrows, HadGrows DEF LoadedSince
  <2> QED
    BY <2>1, <2>2, GrowsFacts
<1>5. c.step = "done" => Explained(c.filter, c.loaded)'
  BY ExplainedGrows DEF Good
<1> QED
  BY <1>1, <1>2, <1>3, <1>4, <1>5 DEF Good

\* Each edit of a project e, whatever requests are under way.
LEMMA EditedInv ==
  ASSUME Inv, NEW e \in Projects, NEW t, Spares(e, t), Edited(e, t)
  PROVE  FieldRowsGood' /\ LocalsGood' /\ RowsGood'
<1>0. TypeOK /\ Grows(e, t)
  BY DEF Inv, Edited, Grows
<1>1. FieldRowsGood'
  <2> SUFFICES ASSUME NEW p \in Projects, fieldCache'[p] # NoRow
               PROVE  Had(p, fieldCache[p], Len(log))'
    BY DEF FieldRowsGood
  <2>1. p # e /\ fieldCache'[p] = fieldCache[p] /\ fieldCache[p] # NoRow
    BY DEF Edited, Inv, TypeOK
  <2>2. Had(p, fieldCache[p], Len(log))
    BY <2>1 DEF Inv, FieldRowsGood
  <2>3. FieldsOf(t, p) = FieldsOf(log[Len(log)], p)
    BY <1>0, <2>1, LogFacts DEF Spares
  <2>4. CASE fieldCache[p] = FieldsOf(t, p)
    <3>1. Len(log') \in Len(log')..Len(log') /\ log'[Len(log')] = t
      <4>1. Len(log) \in Nat /\ Len(log') = Len(log) + 1 /\ log'[Len(log')] = t
        BY <1>0, GrowsFacts, LogFacts
      <4> QED
        BY <4>1
    <3> QED
      BY <2>1, <2>4, <3>1 DEF Had
  <2>5. CASE fieldCache[p] # FieldsOf(t, p)
    <3>1. \A k \in Len(log)..Len(log) : k = Len(log)
      <4>1. Len(log) \in Nat
        BY <1>0, LogFacts
      <4> QED
        BY <4>1
    <3>2. /\ p \in raced
          /\ \A name \in FieldNames : \E k \in DOMAIN log :
               fieldCache[p][name] = FieldsOf(log[k], p)[name]
      BY <2>2, <2>3, <2>5, <3>1 DEF Had
    <3>3. p \in raced'
      BY <1>0, <3>2 DEF Grows
    <3> QED
      BY <1>0, <2>1, <3>2, <3>3, GrowsFacts DEF Had
  <2> QED
    BY <2>4, <2>5
<1>2. LocalsGood'
  <2> SUFFICES ASSUME NEW r \in Requests PROVE Good(req[r])'
    BY DEF LocalsGood
  <2>1. LocalsTyped(req[r]) /\ Good(req[r]) /\ req' = req
    BY DEF Edited, Inv, TypeOK, LocalsTyped, LocalsGood
  <2>2. req[r].step = "fields" /\ e \in req[r].ask /\ req[r].unread # FieldNames
          => e \in raced'
    BY DEF Edited, Reading, At
  <2> QED
    BY <1>0, <2>1, <2>2, GoodGrows
<1>3. RowsGood'
  <2>1. UNCHANGED cache
    BY DEF Edited
  <2> QED
    BY <1>0, <2>1, ExplainedGrows DEF Inv, RowsGood
<1> QED
  BY <1>1, <1>2, <1>3

\* What requests hold depends on the tables and the history only.
LEMMA GoodStays ==
  ASSUME NEW c, Good(c), UNCHANGED dbVars PROVE Good(c)'
  BY DEF Good, PartlyRead, LoadedSince, Explained, Had, FoundThen, dbVars

LEMMA GotoGood ==
  ASSUME Inv, NEW r \in Requests, NEW c, Goto(r, c), Good(c), UNCHANGED dbVars
  PROVE  LocalsGood'
<1> SUFFICES ASSUME NEW q \in Requests PROVE Good(req[q])'
  BY DEF LocalsGood
<1>1. PICK d : d = req'[q] /\ (d = c \/ d = req[q])
  BY DEF Goto, Inv, TypeOK
<1>2. Good(d)
  BY <1>1 DEF Inv, LocalsGood
<1>3. Good(d)'
  BY <1>2, GoodStays
<1> QED
  BY <1>1, <1>3

LEMMA RowsStay ==
  ASSUME Inv, UNCHANGED dbVars
  PROVE  /\ UNCHANGED cache => RowsGood'
         /\ UNCHANGED fieldCache => FieldRowsGood'
<1>1. UNCHANGED cache => RowsGood'
  BY DEF Inv, RowsGood, Explained, Had, FoundThen, dbVars
<1>2. UNCHANGED fieldCache => FieldRowsGood'
  BY DEF Inv, FieldRowsGood, Had, dbVars
<1> QED
  BY <1>1, <1>2

LEMMA SearchGood ==
  ASSUME Inv, NEW r \in Requests, Search(r) PROVE LocalsGood'
<1> DEFINE c == [req[r] EXCEPT !.step = "nodes",
                         !.found = ProjectNodeSearch(db, req[r].filter)]
<1>1. /\ c.step = "nodes" /\ c.filter = req[r].filter
      /\ c.found = ProjectNodeSearch(db, c.filter)
  BY DEF Inv, TypeOK, Request
<1>2. Good(c)
  BY <1>1, LogFacts DEF Inv, Good
<1> QED
  BY <1>2, GotoGood DEF Search

LEMMA LoadNodesGood ==
  ASSUME Inv, NEW r \in Requests, LoadNodes(r) PROVE LocalsGood'
<1> DEFINE c == [req[r] EXCEPT !.step = "cached", !.found = @ \cap DOMAIN db]
<1>1. /\ c.step = "cached" /\ c.filter = req[r].filter
      /\ c.found = req[r].found \cap DOMAIN db
  BY DEF Inv, TypeOK, Request
<1>2. ASSUME c.filter # NoRow
      PROVE  \E i, j \in DOMAIN log : i <= j /\ c.found = FoundThen(c.filter, i, j)
  <2>1. PICK i \in DOMAIN log : req[r].found = ProjectNodeSearch(log[i], c.filter)
    BY <1>1, <1>2 DEF LoadNodes, At, Inv, LocalsGood, Good
  <2>2. i <= Len(log) /\ Len(log) \in DOMAIN log /\ db = log[Len(log)]
    BY LogFacts DEF Inv
  <2> QED
    BY <1>1, <2>1, <2>2 DEF FoundThen
<1> HIDE DEF c
<1>3. Good(c)
  BY <1>1, <1>2 DEF Good
<1>4. Goto(r, c) /\ UNCHANGED dbVars
  BY DEF LoadNodes, c
<1> QED
  BY <1>3, <1>4, GotoGood

LEMMA ReadFieldCacheGood ==
  ASSUME Inv, NEW r \in Requests, ReadFieldCache(r) PROVE LocalsGood'
<1>1. TypeOK /\ req[r].step = "cached" /\ UNCHANGED dbVars
  BY DEF Inv, ReadFieldCache, At
<1>2. PICK c : /\ Goto(r, c) /\ LocalsTyped(c) /\ c.step = "fields"
               /\ c.filter = req[r].filter
               /\ DOMAIN c.loaded = req[r].found
               /\ c.ask # {} => c.unread = FieldNames
               /\ \A p \in DOMAIN c.loaded \ c.ask :
                    fieldCache[p] # NoRow /\ c.loaded[p] = fieldCache[p]
  BY <1>1, ReadFieldCacheLoads
<1>3. \A p \in c.ask : PartlyRead(c, p)
  BY <1>2 DEF PartlyRead
<1>4. ASSUME c.filter # NoRow
      PROVE  \E i, j \in DOMAIN log : i <= j /\ LoadedSince(c, i, j)
  <2>1. PICK i \in DOMAIN log, j \in DOMAIN log :
                i <= j /\ req[r].found = FoundThen(c.filter, i, j)
    BY <1>1, <1>2, <1>4 DEF Inv, LocalsGood, Good
  <2>2. ASSUME NEW p \in DOMAIN c.loaded \ c.ask PROVE Had(p, c.loaded[p], j)
    <3>1. p \in Projects
      BY <1>2, LoadedDef DEF LocalsTyped, Request
    <3>2. Had(p, c.loaded[p], Len(log))
      BY <1>2, <2>2, <3>1 DEF Inv, FieldRowsGood
    <3> QED
      BY <1>1, <2>1, <3>2, HadSince
  <2> QED
    BY <1>2, <2>1, <2>2 DEF LoadedSince
<1>5. Good(c)
  BY <1>2, <1>3, <1>4 DEF Good
<1> QED
  BY <1>1, <1>2, <1>5, GotoGood

LEMMA LoadFieldGood ==
  ASSUME Inv, NEW r \in Requests, NEW name, LoadField(r, name) PROVE LocalsGood'
<1>1. /\ TypeOK /\ req[r].step = "fields" /\ UNCHANGED dbVars /\ Good(req[r])
      /\ name \in req[r].unread /\ db = log[Len(log)] /\ Len(log) \in DOMAIN log
  BY LogFacts DEF Inv, LoadField, At, LocalsGood
<1>2. PICK c : /\ Goto(r, c) /\ LocalsTyped(c) /\ c.step = "fields"
               /\ c.filter = req[r].filter /\ c.ask = req[r].ask
               /\ c.unread = req[r].unread \ {name} /\ name \in FieldNames
               /\ DOMAIN c.loaded = DOMAIN req[r].loaded
               /\ \A p \in DOMAIN c.loaded \ c.ask : c.loaded[p] = req[r].loaded[p]
               /\ \A p \in c.ask :
                    /\ c.loaded[p][name] = FieldsOf(db, p)[name]
                    /\ \A other \in FieldNames \ {name} :
                         c.loaded[p][other] = req[r].loaded[p][other]
  BY <1>1, LoadFieldLoads
<1>3. ASSUME NEW p \in c.ask PROVE PartlyRead(c, p)
  <2>1. PartlyRead(req[r], p)
    BY <1>1, <1>2 DEF Good
  <2> SUFFICES ASSUME NEW other \in FieldNames \ c.unread
               PROVE  IF p \in raced
                        THEN \E k \in DOMAIN log :
                               c.loaded[p][other] = FieldsOf(log[k], p)[other]
                        ELSE c.loaded[p][other] = FieldsOf(db, p)[other]
    BY DEF PartlyRead
  <2>2. CASE other = name
    BY <1>1, <1>2, <2>2
  <2>3. CASE other # name
    <3>1. other \in FieldNames \ req[r].unread
      BY <1>2, <2>3
    <3>2. c.loaded[p][other] = req[r].loaded[p][other]
      BY <1>2, <2>3
    <3> QED
      BY <2>1, <3>1, <3>2 DEF PartlyRead
  <2> QED
    BY <2>2, <2>3
<1>4. c.filter # NoRow => \E i, j \in DOMAIN log : i <= j /\ LoadedSince(c, i, j)
  BY <1>1, <1>2 DEF Good, LoadedSince
<1>5. Good(c)
  BY <1>2, <1>3, <1>4 DEF Good
<1> QED
  BY <1>1, <1>2, <1>5, GotoGood

LEMMA StoreFieldsGood ==
  ASSUME Inv, NEW r \in Requests, NEW p \in Projects, StoreFields(r, p)
  PROVE  LocalsGood' /\ FieldRowsGood'
<1> DEFINE c == [req[r] EXCEPT !.ask = @ \ {p}]
<1>1. /\ TypeOK /\ req[r].step = "fields" /\ UNCHANGED dbVars /\ Good(req[r])
      /\ p \in req[r].ask /\ req[r].unread = {} /\ Len(log) \in DOMAIN log
      /\ fieldCache' = [fieldCache EXCEPT ![p] = req[r].loaded[p]]
      /\ Goto(r, c)
  BY LogFacts DEF Inv, StoreFields, At, LocalsGood
<1>2. /\ c.step = "fields" /\ c.filter = req[r].filter /\ c.loaded = req[r].loaded
      /\ c.ask = req[r].ask \ {p} /\ c.unread = req[r].unread
      /\ req[r].loaded \in Loaded /\ req[r].ask \subseteq DOMAIN req[r].loaded
  BY <1>1 DEF TypeOK, Request
<1> HIDE DEF c
<1>3. \A j \in DOMAIN log : Had(p, req[r].loaded[p], j)
  <2>1. req[r].loaded[p] \in Fields
    BY <1>1, <1>2, LoadedDef
  <2>2. PartlyRead(req[r], p)
    BY <1>1 DEF Good
  <2> QED
    BY <1>1, <2>1, <2>2, ReadIsHad
<1>4. FieldRowsGood'
  <2> SUFFICES ASSUME NEW q \in Projects, fieldCache'[q] # NoRow
               PROVE  Had(q, fieldCache'[q], Len(log))
    BY <1>1 DEF FieldRowsGood, Had, dbVars
  <2>1. CASE q = p
    BY <1>1, <1>3, <2>1 DEF TypeOK
  <2>2. CASE q # p
    BY <1>1, <2>2 DEF TypeOK, Inv, FieldRowsGood
  <2> QED
    BY <2>1, <2>2
<1>5. \A q \in c.ask : PartlyRead(c, q)
  BY <1>1, <1>2 DEF Good, PartlyRead
<1>6. c.filter # NoRow => \E i, j \in DOMAIN log : i <= j /\ LoadedSince(c, i, j)
  BY <1>1, <1>2, <1>3 DEF Good, LoadedSince
<1>7. Good(c)
  BY <1>2, <1>5, <1>6 DEF Good
<1> QED
  BY <1>1, <1>4, <1>7, GotoGood

LEMMA StoreGood ==
  ASSUME KeysDistinct, Inv, NEW r \in Requests, Store(r)
  PROVE  LocalsGood' /\ RowsGood'
<1> DEFINE data == Features(req[r].loaded)
           c == [req[r] EXCEPT !.step = "done", !.loaded = data]
<1>1. /\ TypeOK /\ req[r].step = "fields" /\ UNCHANGED dbVars /\ Good(req[r])
      /\ req[r].ask = {} /\ req[r].filter # NoRow
      /\ cache' = [cache EXCEPT ![CacheKey(req[r].filter)] = data]
      /\ Goto(r, c)
  BY DEF Inv, Store, At, LocalsGood
<1>2. req[r] \in Request /\ req[r].filter \in Filter /\ req[r].loaded \in Loaded
  BY <1>1 DEF TypeOK, Request
<1>3. Explained(req[r].filter, data)
  <2>1. PICK i \in DOMAIN log, j \in DOMAIN log :
                i <= j /\ LoadedSince(req[r], i, j)
    BY <1>1 DEF Good
  <2> QED
    BY <1>1, <1>2, <2>1, LoadedExplains DEF LoadedSince
<1> HIDE DEF data
<1>4. c.step = "done" /\ c.filter = req[r].filter /\ c.loaded = data
  BY <1>2 DEF Request
<1> HIDE DEF c
<1>5. LocalsGood'
  <2>1. Good(c)
    BY <1>3, <1>4 DEF Good
  <2> QED
    BY <1>1, <2>1, GotoGood
<1>6. RowsGood'
  <2> SUFFICES ASSUME NEW f \in Filter, cache'[CacheKey(f)] # NoRow
               PROVE  Explained(f, cache'[CacheKey(f)])
    BY <1>1 DEF RowsGood, Explained, Had, FoundThen, dbVars
  <2>1. CASE CacheKey(f) = CacheKey(req[r].filter)
    <3>1. f = req[r].filter
      BY <1>2, <2>1 DEF KeysDistinct
    <3>2. cache'[CacheKey(f)] = data
      BY <1>1, <2>1, KeyTyped DEF TypeOK
    <3> QED
      BY <1>3, <3>1, <3>2
  <2>2. CASE CacheKey(f) # CacheKey(req[r].filter)
    <3>1. cache'[CacheKey(f)] = cache[CacheKey(f)]
      BY <1>1, <2>2, KeyTyped DEF TypeOK
    <3> QED
      BY <3>1 DEF Inv, RowsGood
  <2> QED
    BY <2>1, <2>2
<1> QED
  BY <1>5, <1>6

LEMMA InitGood == Init => Inv
<1> SUFFICES ASSUME Init PROVE Inv
  OBVIOUS
<1>1. LocalsGood
  BY IdleTyped DEF Init, LocalsGood, Good
<1>2. RowsGood
  BY KeyTyped DEF Init, RowsGood
<1>3. FieldRowsGood
  BY DEF Init, FieldRowsGood
<1> QED
  BY <1>1, <1>2, <1>3, InitTyped DEF Inv

LEMMA NextInv ==
  ASSUME KeysDistinct, Inv, [Next]_vars PROVE Inv'
<1>0. TypeOK'
  BY NextTyped DEF Inv
<1>1. CASE UNCHANGED vars
  <2>1. UNCHANGED dbVars /\ UNCHANGED <<fieldCache, cache>> /\ req' = req
    BY <1>1 DEF vars
  <2>2. LocalsGood'
    BY <2>1, GoodStays DEF Inv, LocalsGood
  <2> QED
    BY <1>0, <2>1, <2>2, RowsStay DEF Inv
<1>2. ASSUME NEW r \in Requests, NEW f \in Asked, Hit(r, f) PROVE Inv'
  <2> DEFINE c == [Idle EXCEPT !.step = "done", !.filter = f,
                               !.loaded = cache[CacheKey(f)]]
  <2>1. c.step = "done" /\ c.filter = f /\ c.loaded = cache[CacheKey(f)]
    BY DEF Idle
  <2>2. Explained(f, cache[CacheKey(f)])
    BY <1>2, MapAssumption DEF Hit, Inv, RowsGood
  <2>3. Good(c)
    BY <2>1, <2>2 DEF Good
  <2>4. Goto(r, c) /\ UNCHANGED dbVars /\ UNCHANGED <<fieldCache, cache>>
    BY <1>2 DEF Hit
  <2> QED
    BY <1>0, <2>3, <2>4, GotoGood, RowsStay DEF Inv
<1>3. ASSUME NEW r \in Requests, NEW f \in Asked, Miss(r, f) PROVE Inv'
  <2> DEFINE c == [Idle EXCEPT !.step = "search", !.filter = f]
  <2>1. Good(c)
    BY DEF Idle, Good
  <2>2. Goto(r, c) /\ UNCHANGED dbVars /\ UNCHANGED <<fieldCache, cache>>
    BY <1>3 DEF Miss
  <2> QED
    BY <1>0, <2>1, <2>2, GotoGood, RowsStay DEF Inv
<1>4. ASSUME NEW r \in Requests, NEW p \in Projects, Visit(r, p) PROVE Inv'
  <2> DEFINE c == [Idle EXCEPT !.step = "nodes", !.found = {p}]
  <2>1. Good(c)
    BY DEF Idle, Good
  <2>2. Goto(r, c) /\ UNCHANGED dbVars /\ UNCHANGED <<fieldCache, cache>>
    BY <1>4 DEF Visit
  <2> QED
    BY <1>0, <2>1, <2>2, GotoGood, RowsStay DEF Inv
<1>5. ASSUME NEW r \in Requests,
             \/ Search(r) \/ LoadNodes(r) \/ ReadFieldCache(r)
             \/ \E name \in FieldNames : LoadField(r, name)
      PROVE  Inv'
  <2>1. LocalsGood'
    BY <1>5, SearchGood, LoadNodesGood, ReadFieldCacheGood, LoadFieldGood
  <2>2. UNCHANGED dbVars /\ UNCHANGED <<fieldCache, cache>>
    BY <1>5 DEF Search, LoadNodes, ReadFieldCache, LoadField
  <2> QED
    BY <1>0, <2>1, <2>2, RowsStay DEF Inv
<1>6. ASSUME NEW r \in Requests, NEW p \in Projects, StoreFields(r, p) PROVE Inv'
  <2>1. UNCHANGED dbVars /\ UNCHANGED cache
    BY <1>6 DEF StoreFields
  <2> QED
    BY <1>0, <1>6, <2>1, StoreFieldsGood, RowsStay DEF Inv
<1>7. ASSUME NEW r \in Requests, Store(r) PROVE Inv'
  <2>1. UNCHANGED dbVars /\ UNCHANGED fieldCache
    BY <1>7 DEF Store
  <2> QED
    BY <1>0, <1>7, <2>1, StoreGood, RowsStay DEF Inv
<1>8. ASSUME NEW r \in Requests, Leave(r) PROVE Inv'
  <2>1. Good(Idle)
    BY IdleTyped DEF Good
  <2>2. Goto(r, Idle) /\ UNCHANGED dbVars /\ UNCHANGED <<fieldCache, cache>>
    BY <1>8 DEF Leave
  <2> QED
    BY <1>0, <2>1, <2>2, GotoGood, RowsStay DEF Inv
<1>9. CASE CronClear
  <2>1. /\ UNCHANGED dbVars /\ UNCHANGED fieldCache /\ req' = req
        /\ \A f \in Filter : cache'[CacheKey(f)] = NoRow
    BY <1>9, KeyTyped DEF CronClear
  <2>2. LocalsGood'
    BY <2>1, GoodStays DEF Inv, LocalsGood
  <2>3. RowsGood'
    BY <2>1 DEF RowsGood
  <2> QED
    BY <1>0, <2>1, <2>2, <2>3, RowsStay DEF Inv
<1>10. CASE FlushFields
  <2>1. /\ UNCHANGED dbVars /\ UNCHANGED cache /\ req' = req
        /\ \A p \in Projects : fieldCache'[p] = NoRow
    BY <1>10 DEF FlushFields
  <2>2. LocalsGood'
    BY <2>1, GoodStays DEF Inv, LocalsGood
  <2>3. FieldRowsGood'
    BY <2>1 DEF FieldRowsGood
  <2> QED
    BY <1>0, <2>1, <2>2, <2>3, RowsStay DEF Inv
<1>11. ASSUME NEW p \in Projects, NEW t, Spares(p, t), Edited(p, t) PROVE Inv'
  BY <1>0, <1>11, EditedInv DEF Inv
<1>12. ASSUME NEW p \in Projects, Delete(p) PROVE Inv'
  BY <1>11, <1>12, DeleteIsEdit DEF Inv
<1>13. ASSUME NEW p \in Projects, NEW node \in Edits, Save(p, node) PROVE Inv'
  BY <1>11, <1>13, SaveIsEdit DEF Inv
<1> QED
  BY <1>1, <1>2, <1>3, <1>4, <1>5, <1>6, <1>7, <1>8, <1>9, <1>10, <1>12, <1>13
     DEF Next, Fill

\* Every visitor gets an answer to the filter asked for: projects that were
\* published at its search, with fields they have had since or, after a save
\* within a load, older ones; for any number of visitors whose requests share
\* both caches, as long as no two filters share a key.
THEOREM AnswersAreExplained ==
  ASSUME KeysDistinct PROVE Spec => []AnswersExplained
<1>1. Inv => AnswersExplained
  BY DEF Inv, AnswersExplained, LocalsGood, Good, At
<1>2. Inv /\ [Next]_vars => Inv'
  BY NextInv
<1> QED
  BY <1>1, <1>2, InitGood, PTL DEF Spec

\* The same of the rows of the cache.
THEOREM RowsAreExplained ==
  ASSUME KeysDistinct PROVE Spec => []RowsExplained
<1>1. Inv => RowsExplained
  BY DEF Inv, RowsExplained, RowsGood
<1>2. Inv /\ [Next]_vars => Inv'
  BY NextInv
<1> QED
  BY <1>1, <1>2, InitGood, PTL DEF Spec

-----------------------------------------------------------------------------
\* What a request at c has found and loaded is what the tables hold.
CurrentLocals(c) ==
    LET found == ProjectNodeSearch(db, c.filter)
    IN /\ c.step \in {"nodes", "cached"} => c.found = found
       /\ c.step = "fields" =>
            /\ DOMAIN c.loaded = found
            /\ \A p \in found \ (c.ask \cup raced) : c.loaded[p] = db[p].fields

\* Current, with the conditions on one request in one place.
LEMMA CurrentDef ==
  Current <=> /\ \A f \in Filter : Fresh(f)
              /\ \A r \in Requests :
                   req[r].filter # NoRow => CurrentLocals(req[r])
  BY DEF Current, CurrentLoad, CurrentLocals, At

\* Being current depends on the tables and, the more there are the less, on the
\* projects that were saved within a load.
LEMMA CurrentStays ==
  ASSUME UNCHANGED db, raced \subseteq raced'
  PROVE  /\ \A c : CurrentLocals(c) => CurrentLocals(c)'
         /\ \A f, data : UpToDate(f, data) => UpToDate(f, data)'
<1>1. ASSUME NEW c, CurrentLocals(c) PROVE CurrentLocals(c)'
  BY <1>1 DEF CurrentLocals
<1>2. ASSUME NEW f, NEW data, UpToDate(f, data) PROVE UpToDate(f, data)'
  BY <1>2 DEF UpToDate
<1> QED
  BY <1>1, <1>2

\* A step of one request that leaves the cache and the tables alone.
LEMMA GotoCurrent ==
  ASSUME TypeOK, Current, NEW r \in Requests, NEW c, Goto(r, c),
         c.filter # NoRow => CurrentLocals(c), UNCHANGED dbVars, UNCHANGED cache
  PROVE  Current'
<1>0. UNCHANGED db /\ raced \subseteq raced'
  BY DEF dbVars
<1>1. ASSUME NEW q \in Requests, req'[q].filter # NoRow
      PROVE  CurrentLocals(req[q])'
  <2>1. PICK d : d = req'[q] /\ (d = c \/ d = req[q])
    BY DEF Goto, TypeOK
  <2>2. CurrentLocals(d)
    BY <1>1, <2>1, CurrentDef
  <2>3. CurrentLocals(d)'
    BY <1>0, <2>2, CurrentStays
  <2> QED
    BY <2>1, <2>3
<1>2. ASSUME NEW f \in Filter PROVE Fresh(f)'
  BY <1>0, CurrentDef, CurrentStays DEF Fresh
<1> QED
  BY <1>1, <1>2 DEF Current, CurrentLoad, CurrentLocals, At

\* Fields read by a load that no save has met are those of now.
LEMMA NowOrRaced ==
  ASSUME Inv, NEW p \in Projects, p \in DOMAIN db, p \notin raced
  PROVE  /\ FieldsOf(db, p) = db[p].fields
         /\ fieldCache[p] # NoRow => fieldCache[p] = db[p].fields
         /\ \A r \in Requests :
              (/\ At(r, "fields") /\ p \in req[r].ask
               /\ req[r].unread = {}) => req[r].loaded[p] = db[p].fields
<1>1. FieldsOf(db, p) = db[p].fields /\ FieldsOf(db, p) \in Fields
  BY LogFacts, FieldsOfTyped DEF Inv, FieldsOf
<1>2. fieldCache[p] # NoRow => fieldCache[p] = db[p].fields
  <2>1. \A k \in Len(log)..Len(log) : log[k] = db
    <3>1. Len(log) \in Nat /\ db = log[Len(log)]
      BY LogFacts DEF Inv
    <3> QED
      BY <3>1
  <2> QED
    BY <1>1, <2>1 DEF Inv, FieldRowsGood, Had
<1>3. ASSUME NEW r \in Requests, At(r, "fields"), p \in req[r].ask,
             req[r].unread = {}
      PROVE  req[r].loaded[p] = db[p].fields
  <2>1. req[r].loaded \in Loaded /\ p \in DOMAIN req[r].loaded
    BY <1>3 DEF Inv, TypeOK, Request, At
  <2>2. req[r].loaded[p] \in Fields
    BY <2>1, LoadedDef
  <2>3. \A name \in FieldNames : req[r].loaded[p][name] = FieldsOf(db, p)[name]
    BY <1>3 DEF Inv, LocalsGood, Good, PartlyRead, At
  <2> QED
    BY <1>1, <2>2, <2>3, SameFields
<1> QED
  BY <1>1, <1>2, <1>3

LEMMA FoundExist ==
  ASSUME TypeOK, NEW f \in Filter
  PROVE  /\ ProjectNodeSearch(db, f) \subseteq DOMAIN db
         /\ ProjectNodeSearch(db, f) \subseteq Projects
  BY SearchTyped, TablesDef DEF TypeOK

LEMMA ReadFieldCacheCurrent ==
  ASSUME Inv, Current, NEW r \in Requests, ReadFieldCache(r) PROVE Current'
<1>1. TypeOK /\ req[r].step = "cached"
  BY DEF Inv, ReadFieldCache, At
<1>2. PICK c : /\ Goto(r, c) /\ LocalsTyped(c) /\ c.step = "fields"
               /\ c.filter = req[r].filter
               /\ DOMAIN c.loaded = req[r].found
               /\ c.ask # {} => c.unread = FieldNames
               /\ \A p \in DOMAIN c.loaded \ c.ask :
                    fieldCache[p] # NoRow /\ c.loaded[p] = fieldCache[p]
  BY <1>1, ReadFieldCacheLoads
<1>3. ASSUME c.filter # NoRow PROVE CurrentLocals(c)
  <2> DEFINE found == ProjectNodeSearch(db, c.filter)
  <2>1. c.filter \in Filter
    BY <1>2, <1>3 DEF LocalsTyped, Request
  <2>2. DOMAIN c.loaded = found
    BY <1>1, <1>2, <1>3, CurrentDef DEF CurrentLocals
  <2>3. ASSUME NEW p \in found \ (c.ask \cup raced)
        PROVE  c.loaded[p] = db[p].fields
    BY <1>1, <1>2, <2>1, <2>2, <2>3, FoundExist, NowOrRaced
  <2> QED
    BY <1>2, <2>2, <2>3 DEF CurrentLocals
<1> QED
  BY <1>1, <1>2, <1>3, GotoCurrent DEF ReadFieldCache

LEMMA LoadFieldCurrent ==
  ASSUME Inv, Current, NEW r \in Requests, NEW name, LoadField(r, name)
  PROVE  Current'
<1>1. TypeOK /\ req[r].step = "fields"
  BY DEF Inv, LoadField, At
<1>2. PICK c : /\ Goto(r, c) /\ LocalsTyped(c) /\ c.step = "fields"
               /\ c.filter = req[r].filter /\ c.ask = req[r].ask
               /\ c.unread = req[r].unread \ {name} /\ name \in FieldNames
               /\ DOMAIN c.loaded = DOMAIN req[r].loaded
               /\ \A p \in DOMAIN c.loaded \ c.ask : c.loaded[p] = req[r].loaded[p]
               /\ \A p \in c.ask :
                    /\ c.loaded[p][name] = FieldsOf(db, p)[name]
                    /\ \A other \in FieldNames \ {name} :
                         c.loaded[p][other] = req[r].loaded[p][other]
  BY <1>1, LoadFieldLoads
<1>3. c.filter # NoRow => CurrentLocals(c)
  BY <1>1, <1>2, CurrentDef DEF CurrentLocals
<1> QED
  BY <1>1, <1>2, <1>3, GotoCurrent DEF LoadField

LEMMA StoreFieldsCurrent ==
  ASSUME Inv, Current, NEW r \in Requests, NEW p \in Projects, StoreFields(r, p)
  PROVE  Current'
<1> DEFINE c == [req[r] EXCEPT !.ask = @ \ {p}]
<1>1. /\ TypeOK /\ At(r, "fields") /\ p \in req[r].ask /\ req[r].unread = {}
      /\ Goto(r, c) /\ UNCHANGED dbVars /\ UNCHANGED cache
  BY DEF Inv, StoreFields
<1>2. /\ c.step = "fields" /\ c.filter = req[r].filter
      /\ c.loaded = req[r].loaded /\ c.ask = req[r].ask \ {p}
      /\ req[r].filter \in Filter \cup {NoRow}
  BY <1>1 DEF TypeOK, Request, At
<1> HIDE DEF c
<1>3. ASSUME c.filter # NoRow PROVE CurrentLocals(c)
  <2> DEFINE found == ProjectNodeSearch(db, c.filter)
  <2>1. DOMAIN c.loaded = found
        /\ \A q \in found \ (req[r].ask \cup raced) : c.loaded[q] = db[q].fields
    BY <1>1, <1>2, <1>3, CurrentDef DEF CurrentLocals, At
  <2>2. found \subseteq DOMAIN db
    BY <1>1, <1>2, <1>3, FoundExist
  <2>3. p \in found \ raced => c.loaded[p] = db[p].fields
    BY <1>1, <1>2, <2>2, NowOrRaced
  <2>4. \A q \in found \ (c.ask \cup raced) : c.loaded[q] = db[q].fields
    BY <1>2, <2>1, <2>3
  <2> QED
    BY <1>2, <2>1, <2>4 DEF CurrentLocals
<1> QED
  BY <1>1, <1>3, GotoCurrent

LEMMA StoreCurrent ==
  ASSUME KeysDistinct, Inv, Current, NEW r \in Requests, Store(r)
  PROVE  Current'
<1> DEFINE data == Features(req[r].loaded)
           c == [req[r] EXCEPT !.step = "done", !.loaded = data]
<1>1. /\ TypeOK /\ req[r].step = "fields" /\ UNCHANGED dbVars
      /\ req[r].ask = {} /\ req[r].filter # NoRow
      /\ cache' = [cache EXCEPT ![CacheKey(req[r].filter)] = data]
      /\ Goto(r, c)
  BY DEF Inv, Store, At
<1>2. req[r] \in Request /\ req[r].filter \in Filter /\ req[r].loaded \in Loaded
  BY <1>1 DEF TypeOK, Request
<1>3. UpToDate(req[r].filter, data)
  <2> DEFINE found == ProjectNodeSearch(db, req[r].filter)
  <2>1. /\ DOMAIN req[r].loaded = found
        /\ \A p \in found \ raced : req[r].loaded[p] = db[p].fields
    BY <1>1, CurrentDef DEF CurrentLocals
  <2>2. /\ DOMAIN data \subseteq found
        /\ \A p \in found : Shows(data, p, req[r].loaded[p])
    BY <1>2, <2>1, FeaturesTyped
  <2> QED
    BY <2>1, <2>2 DEF UpToDate
<1> HIDE DEF data
<1>4. c.step = "done" /\ c.filter = req[r].filter
  BY <1>2 DEF Request
<1> HIDE DEF c
<1>5. ASSUME NEW q \in Requests, req'[q].filter # NoRow
      PROVE  CurrentLocals(req[q])'
  <2>1. PICK d : d = req'[q] /\ (d = c \/ d = req[q])
    BY <1>1 DEF Goto, TypeOK
  <2>2. CurrentLocals(d)
    BY <1>4, <1>5, <2>1, CurrentDef DEF CurrentLocals
  <2> QED
    BY <1>1, <2>1, <2>2, CurrentStays DEF dbVars
<1>6. ASSUME NEW f \in Filter PROVE Fresh(f)'
  <2>1. CASE CacheKey(f) = CacheKey(req[r].filter)
    <3>1. f = req[r].filter
      BY <1>2, <2>1 DEF KeysDistinct
    <3>2. cache'[CacheKey(f)] = data
      BY <1>1, <2>1, KeyTyped DEF TypeOK
    <3>3. PICK v : v = data /\ UpToDate(f, v)
      BY <1>3, <3>1
    <3>4. UpToDate(f, v)'
      BY <1>1, <3>3, CurrentStays DEF dbVars
    <3> QED
      BY <3>2, <3>3, <3>4 DEF Fresh
  <2>2. CASE CacheKey(f) # CacheKey(req[r].filter)
    <3>1. cache'[CacheKey(f)] = cache[CacheKey(f)]
      BY <1>1, <2>2, KeyTyped DEF TypeOK
    <3>2. Fresh(f)
      BY DEF Current
    <3> QED
      BY <1>1, <3>1, <3>2, CurrentStays DEF Fresh, dbVars
  <2> QED
    BY <2>1, <2>2
<1> QED
  BY <1>5, <1>6 DEF Current, CurrentLoad, CurrentLocals, At

\* A step that moves no request and leaves rows of the cache as they are or
\* deletes them.
LEMMA RestCurrent ==
  ASSUME Current, UNCHANGED <<db, req>>, raced \subseteq raced',
         \A f \in Filter : cache'[CacheKey(f)] \in {NoRow, cache[CacheKey(f)]}
  PROVE  Current'
<1>1. \A r \in Requests : req[r].filter # NoRow => CurrentLocals(req[r])'
  <2> SUFFICES ASSUME NEW r \in Requests, req[r].filter # NoRow
               PROVE  CurrentLocals(req[r])'
    OBVIOUS
  <2>1. PICK d : d = req[r] /\ d = req'[r] /\ CurrentLocals(d)
    BY CurrentDef
  <2> QED
    BY <2>1, CurrentStays
<1>2. ASSUME NEW f \in Filter PROVE Fresh(f)'
  BY CurrentStays DEF Fresh, Current
<1> QED
  BY <1>1, <1>2 DEF Current, CurrentLoad, CurrentLocals, At

LEMMA NextCurrent ==
  ASSUME KeysDistinct, Inv, Current, Next, UNCHANGED db PROVE Current'
<1>0. TypeOK
  BY DEF Inv
<1>1. ASSUME NEW r \in Requests, NEW f \in Asked, Hit(r, f) PROVE Current'
  <2>1. CurrentLocals([Idle EXCEPT !.step = "done", !.filter = f,
                                   !.loaded = cache[CacheKey(f)]])
    BY DEF Idle, CurrentLocals
  <2> QED
    BY <1>0, <1>1, <2>1, GotoCurrent DEF Hit
<1>2. ASSUME NEW r \in Requests, NEW f \in Asked, Miss(r, f) PROVE Current'
  <2>1. CurrentLocals([Idle EXCEPT !.step = "search", !.filter = f])
    BY DEF Idle, CurrentLocals
  <2> QED
    BY <1>0, <1>2, <2>1, GotoCurrent DEF Miss
<1>3. ASSUME NEW r \in Requests, NEW p \in Projects, Visit(r, p) PROVE Current'
  <2>1. [Idle EXCEPT !.step = "nodes", !.found = {p}].filter = NoRow
    BY DEF Idle
  <2> QED
    BY <1>0, <1>3, <2>1, GotoCurrent DEF Visit
<1>4. ASSUME NEW r \in Requests, Search(r) PROVE Current'
  <2>1. CurrentLocals([req[r] EXCEPT !.step = "nodes",
                               !.found = ProjectNodeSearch(db, req[r].filter)])
    BY <1>0 DEF TypeOK, Request, CurrentLocals
  <2> QED
    BY <1>0, <1>4, <2>1, GotoCurrent DEF Search
<1>5. ASSUME NEW r \in Requests, LoadNodes(r) PROVE Current'
  <2> DEFINE c == [req[r] EXCEPT !.step = "cached", !.found = @ \cap DOMAIN db]
  <2>1. /\ c.step = "cached" /\ c.filter = req[r].filter
        /\ c.found = req[r].found \cap DOMAIN db
        /\ req[r].filter \in Filter \cup {NoRow}
    BY <1>0 DEF TypeOK, Request
  <2>2. Goto(r, c) /\ UNCHANGED dbVars /\ UNCHANGED cache /\ req[r].step = "nodes"
    BY <1>5 DEF LoadNodes, At
  <2> HIDE DEF c
  <2>3. c.filter # NoRow => CurrentLocals(c)
    BY <1>0, <2>1, <2>2, CurrentDef, FoundExist DEF CurrentLocals
  <2> QED
    BY <1>0, <2>2, <2>3, GotoCurrent
<1>6. ASSUME NEW r \in Requests, Leave(r) PROVE Current'
  BY <1>0, <1>6, IdleTyped, GotoCurrent DEF Leave
<1>7. CASE CronClear \/ FlushFields
  BY <1>7, KeyTyped, RestCurrent DEF CronClear, FlushFields, dbVars
<1>8. ASSUME NEW p \in Projects, NEW t, Edited(p, t) PROVE Current'
  BY <1>8, RestCurrent DEF Edited
<1>9. ASSUME NEW p \in Projects, Delete(p) PROVE Current'
  BY <1>8, <1>9 DEF Delete
<1>10. ASSUME NEW p \in Projects, NEW node \in Edits, Save(p, node) PROVE Current'
  BY <1>8, <1>10 DEF Save
<1> QED
  BY <1>1, <1>2, <1>3, <1>4, <1>5, <1>6, <1>7, <1>9, <1>10,
     ReadFieldCacheCurrent, LoadFieldCurrent, StoreFieldsCurrent, StoreCurrent
     DEF Next, Fill

\* Once cron has caught up with the editors, the map is right until the next
\* edit, up to the projects that were saved within a load: no request, however
\* old or however it overlaps with others, brings an old answer back, as long as
\* no two filters share a key.
THEOREM CurrentUntilEdited ==
  ASSUME KeysDistinct PROVE Spec => StaysCurrent
<1>1. Inv /\ [Next]_vars => [Current /\ UNCHANGED db => Current']_vars
  BY NextCurrent
<1>2. Inv /\ [Next]_vars => Inv'
  BY NextInv
<1> QED
  BY <1>1, <1>2, InitGood, PTL DEF Spec, StaysCurrent
=============================================================================
