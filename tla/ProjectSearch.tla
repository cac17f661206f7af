---------------------------- MODULE ProjectSearch ----------------------------
(***************************************************************************)
(* GeoJsonService: which projects the map shows for a neighborhood and a   *)
(* project type, as functions of the {node} and field tables.              *)
(***************************************************************************)
EXTENDS Sequences, FiniteSets

CONSTANTS
    Projects,   \* nids of project nodes
    Terms,      \* tids of the neighborhood vocabulary
    TermName,   \* TermName[t]: the name of term t
    Types,      \* tids of the project type vocabulary
    Args        \* what requests pass as neighborhood; "" stands for none

ASSUME SearchAssumption ==
    /\ "" \notin Types
    /\ \A t \in Terms : TermName[t] # ""

\* The fields of a project that the map uses, each with tables of its own; a
\* coordinate is 0 while the geocoder has not filled it.
FieldNames == {"geo", "nhs", "types"}
Fields == [geo : [lon : {0, 1}, lat : {0, 1}],
           nhs : SUBSET Terms, types : SUBSET Types]
NoFields == [geo |-> [lon |-> 0, lat |-> 0], nhs |-> {}, types |-> {}]

Node == [published : BOOLEAN, fields : Fields]

\* The tables: the projects that exist and their nodes.
Tables == UNION {[S -> Node] : S \in SUBSET Projects}

\* The fields of some projects, as a load or an answer holds them.
Loaded == UNION {[S -> Fields] : S \in SUBSET Projects}

\* What the field tables hold of p: no rows once the node is deleted.
FieldsOf(db, p) == IF p \in DOMAIN db THEN db[p].fields ELSE NoFields

Filter == [nh : Args, pt : Types \cup {""}]

TermsNamed(nh) == {t \in Terms : TermName[t] = nh}

\* findNeighborhoodTid(): the first of the terms with that name, or none.
NeighborhoodTid(nh) ==
    IF TermsNamed(nh) = {} THEN {} ELSE {CHOOSE t \in TermsNamed(nh) : TRUE}

Published(db) == {p \in DOMAIN db : db[p].published}

\* Projects with a row in both of the field tables that the queries join.
Classified(db) ==
    {p \in DOMAIN db : db[p].fields.nhs # {} /\ db[p].fields.types # {}}

\* Mistake: the filtered queries do not look at the status.
JoinedDrafts(db) == Classified(db)

\* The inner joins of the filtered queries drop a project that has no row in
\* one of the two field tables, also in the table the filter is not about.
Joined(db) == Published(db) \cap Classified(db)

InTerm(db, nh) ==
    {p \in DOMAIN db : db[p].fields.nhs \cap NeighborhoodTid(nh) # {}}
OfType(db, pt) == {p \in DOMAIN db : pt \in db[p].fields.types}

\* Mistake: the query for both parameters leaves the neighborhood out.
SearchTypeOnly(db, f) ==
    CASE f.pt = "" /\ f.nh = "" -> Published(db)
      [] f.pt # ""              -> Joined(db) \cap OfType(db, f.pt)
      [] f.pt = "" /\ f.nh # "" -> Joined(db) \cap InTerm(db, f.nh)

\* projectNodeSearch(): a name that no term has is ignored beside a type, and
\* finds nothing when it stands alone.
ProjectNodeSearch(db, f) ==
    IF f.pt = ""
      THEN IF f.nh = "" THEN Published(db)
                        ELSE Joined(db) \cap InTerm(db, f.nh)
      ELSE IF NeighborhoodTid(f.nh) = {}
             THEN Joined(db) \cap OfType(db, f.pt)
             ELSE Joined(db) \cap InTerm(db, f.nh) \cap OfType(db, f.pt)

\* projectHasGeocode(): one zero coordinate is enough to hide a project.
HasGeocode(fields) == ~(fields.geo.lon = 0 \/ fields.geo.lat = 0)

\* The features built from the nodes that node_load_multiple() returned; the
\* status of a node is not looked at again.
Features(loaded) ==
    [p \in {q \in DOMAIN loaded : HasGeocode(loaded[q])} |-> loaded[p]]

\* custom_project_get_cache_key(): a concatenation, each part only if given.
CacheKey(f) ==
    "projects_geojson" \o (IF f.nh = "" THEN "" ELSE "n" \o f.nh)
                       \o (IF f.pt = "" THEN "" ELSE "p" \o f.pt)

Keys == {CacheKey(f) : f \in Filter}

\* Different filters have different keys.  A neighborhood whose name ends like
\* the key of a type would share it; those of the site do not.
KeysDistinct == \A f, g \in Filter : CacheKey(f) = CacheKey(g) => f = g
=============================================================================
