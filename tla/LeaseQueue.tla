------------------------------ MODULE LeaseQueue ------------------------------
(***************************************************************************)
(* What the queue API of modules/system/system.queue.inc promises those    *)
(* who work on its items, without the statements it is made of: an item is *)
(* given to one consumer for the length of a lease, it may be given to     *)
(* another when the lease is over, and it is gone only when somebody has   *)
(* finished it.  The doc of the queue states this at lines 13-30.          *)
(***************************************************************************)
EXTENDS Naturals

CONSTANTS
    Consumers,  \* processes that claim items
    Items,      \* the items there may be
    NoItem      \* a consumer without a claim

VARIABLES
    now,        \* the clock
    created,    \* the items that were ever put into the queue
    waiting,    \* those that are in the queue, claimed or not
    claim,      \* claim[c]: the item consumer c is working on and until when
    done        \* the items somebody has finished, at least once

vars == <<now, created, waiting, claim, done>>

NoClaim == [item |-> NoItem, until |-> 0]

Init ==
    /\ now = 0
    /\ created = {}
    /\ waiting = {}
    /\ claim = [c \in Consumers |-> NoClaim]
    /\ done = {}

CreateItem(i) ==
    /\ i \notin created
    /\ created' = created \cup {i}
    /\ waiting' = waiting \cup {i}
    /\ UNCHANGED <<now, claim, done>>

\* An item is claimed while nobody is working on it within a lease.
ClaimItem(c, i) ==
    /\ claim[c] = NoClaim
    /\ i \in waiting
    /\ \A d \in Consumers : claim[d].item = i => claim[d].until < now
    /\ claim'[c] \in [item : {i}, until : Nat]
    /\ claim' = [claim EXCEPT ![c] = claim'[c]]
    /\ UNCHANGED <<now, created, waiting, done>>

\* The consumer has finished its item, within its lease or too late.
Finish(c) ==
    /\ claim[c] # NoClaim
    /\ done' = done \cup {claim[c].item}
    /\ UNCHANGED <<now, created, waiting, claim>>

\* A finished item leaves the queue.
DeleteItem(c) ==
    /\ claim[c].item \in done
    /\ waiting' = waiting \ {claim[c].item}
    /\ claim' = [claim EXCEPT ![c] = NoClaim]
    /\ UNCHANGED <<now, created, done>>

\* The consumer gives up its item, or dies; the item stays in the queue.
Drop(c) ==
    /\ claim[c] # NoClaim
    /\ claim' = [claim EXCEPT ![c] = NoClaim]
    /\ UNCHANGED <<now, created, waiting, done>>

Pass == /\ now' = now + 1
        /\ UNCHANGED <<created, waiting, claim, done>>

Next ==
    \/ \E i \in Items : CreateItem(i)
    \/ \E c \in Consumers, i \in Items : ClaimItem(c, i)
    \/ \E c \in Consumers : Finish(c) \/ DeleteItem(c) \/ Drop(c)
    \/ Pass

Spec == Init /\ [][Next]_vars
=============================================================================
