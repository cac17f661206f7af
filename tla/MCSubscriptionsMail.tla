------------------------- MODULE MCSubscriptionsMail -------------------------
(***************************************************************************)
(* A small instance of SubscriptionsMail for TLC.                          *)
(***************************************************************************)
EXTENDS SubscriptionsMail

CONSTANTS u1, u2, n1, n2

\* u1 has two subscriptions that overlap at n1, u2 has one.
MCSubscriptions == {[user |-> u1, field |-> "nid", nodes |-> {n1}],
                    [user |-> u1, field |-> "type", nodes |-> {n1, n2}],
                    [user |-> u2, field |-> "nid", nodes |-> {n1}]}

\* u1 asked for digests or has them by default, u2 asked for single mails;
\* notifications of u1 may be suspended from the start, those of u2 later.
MCInit ==
    /\ Init
    /\ digest[u1] # "mails" /\ digest[u2] = "mails"
    /\ default <=> digest[u1] = "default"
    /\ suspended \subseteq {u1}

\* Two saves and one upset or one submission, or one save and two submissions.
MCNext == Next /\ 2 * upsets' + submitted' <= 2 /\ events' + submitted' <= 3

MCSpec == MCInit /\ [][MCNext]_vars /\ Fairness

\* u1 has digests, and may leave them.
LostInit ==
    /\ Init
    /\ digest = [u \in Users |-> IF u = u1 THEN "digests" ELSE "mails"]
    /\ ~default /\ suspended = {}

LostSpec == LostInit /\ [][Next]_vars
=============================================================================
