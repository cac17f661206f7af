------------------------------ MODULE EventList ------------------------------
(***************************************************************************)
(* custom_events_get_list(): the upcoming and the past events, page by     *)
(* page, as a function of the event dates and the time of the request.     *)
(***************************************************************************)
EXTENDS Naturals, Sequences, FiniteSets, SequencesExt

CONSTANTS
    Times,      \* start times of events, in seconds
    Titles,     \* titles, numbered in their alphabetical order
    Nids,       \* nids of event nodes
    MaxDates,   \* bound: the dates of a repeated event, at most 10: the rows are
                \* keyed by concat(nid, delta)
    MaxMax      \* bound: the page lengths asked for

VARIABLES
    events,     \* nid -> title and start times of the published events
    now         \* REQUEST_TIME

vars == <<events, now>>

Event == [title : Titles, starts : BoundedSeq(Times, MaxDates)]

\* Whatever the editors entered, and the moment of the first request.
Init == /\ events \in [Nids -> Event]
        /\ now = 0

\* Time passes between requests.
Tick == /\ \E t \in Times : now <= t
        /\ now' = now + 1
        /\ UNCHANGED events

Next == Tick

Spec == Init /\ [][Next]_vars

-----------------------------------------------------------------------------
\* The join of an event with its date field: a row for each of its dates.
Dates == UNION {{[nid |-> n, delta |-> i - 1, title |-> events[n].title,
                  start |-> events[n].starts[i]] :
                   i \in DOMAIN events[n].starts} : n \in Nids}

\* WHERE start > :request_time, or < for past events.
Selected(upcoming) ==
    {d \in Dates : IF upcoming THEN d.start > now ELSE d.start < now}

\* ORDER BY start_time, title; the database may put ties in any order, and
\* takes the key here.
Before(d, e) ==
    \/ d.start < e.start
    \/ d.start = e.start /\ d.title < e.title
    \/ d.start = e.start /\ d.title = e.title
         /\ (d.nid < e.nid \/ (d.nid = e.nid /\ d.delta < e.delta))

Sorted(rows) == SetToSortSeq(rows, Before)

\* LIMIT offset,count of MySQL, and LIMIT count.
Limit(s, offset, count) ==
    SubSeq(s, offset + 1,
           IF offset + count < Len(s) THEN offset + count ELSE Len(s))

\* custom_events_query_paging_helper(): "limit lower,upper".
Paged(s, max, page) ==
    LET upper == page * max - 1
        lower == upper - (max - 1)
    IN  CASE max = 0             -> s
          [] max # 0 /\ page = 0 -> Limit(s, 0, max)
          [] max # 0 /\ page # 0 -> Limit(s, lower, upper)

GetList(upcoming, max, page) == Paged(Sorted(Selected(upcoming)), max, page)

-----------------------------------------------------------------------------
\* The doc of $max_results is "number of results to return"
\* (event.module:197): the page the site shows, page 1, has that many if there
\* are that many.
PageFull ==
    \A max \in 2..MaxMax :
        max <= Cardinality(Selected(TRUE)) => Len(GetList(TRUE, max, 1)) = max
=============================================================================
