---------------------------- MODULE ForwardQueue -----------------------------
(***************************************************************************)
(* What the SIEM outbox promises of the events it accepts: a bounded queue *)
(* that delivers at least once or gives up in public.  An event enters the *)
(* queue once, from the hands of the thread that logs it, while there is   *)
(* room.  It leaves it because it was delivered, or into the hands of a    *)
(* thread that drops it and reports the drop.  Only what is in somebody's  *)
(* hands can be lost.                                                      *)
(***************************************************************************)
EXTENDS Naturals, FiniteSets

CONSTANTS
    Events,
    Limit        \* the most rows there ever are

VARIABLES
    accepted,    \* events accepted for forwarding
    entered,     \* events that have been queued, ever
    queue,
    hands,       \* events a thread is holding
    delivered,
    reported,    \* events with a report that they were dropped
    lost

vars == <<accepted, entered, queue, hands, delivered, reported, lost>>

Init ==
    /\ accepted = {} /\ entered = {} /\ queue = {} /\ hands = {}
    /\ delivered = {} /\ reported = {} /\ lost = {}

Accept(v) ==
    /\ v \notin accepted
    /\ accepted' = accepted \cup {v}
    /\ hands' = hands \cup {v}
    /\ UNCHANGED <<entered, queue, delivered, reported, lost>>

Put(v) ==
    /\ v \in hands \ entered /\ Cardinality(queue) < Limit
    /\ queue' = queue \cup {v}
    /\ entered' = entered \cup {v}
    /\ hands' = hands \ {v}
    /\ UNCHANGED <<accepted, delivered, reported, lost>>

(* Dropped, by one thread or by several that have chosen the same row; the  *)
(* row may have been delivered or dropped in the meantime.                  *)
Take(v) ==
    /\ v \in entered
    /\ queue' = queue \ {v}
    /\ hands' = hands \cup {v}
    /\ UNCHANGED <<accepted, entered, delivered, reported, lost>>

Deliver(v) ==
    /\ v \in entered
    /\ delivered' = delivered \cup {v}
    /\ UNCHANGED <<accepted, entered, queue, hands, reported, lost>>

(* A delivered row leaves the queue.                                        *)
Settle(v) ==
    /\ v \in delivered
    /\ queue' = queue \ {v}
    /\ UNCHANGED <<accepted, entered, hands, delivered, reported, lost>>

(* Another thread may be holding the event as well.                         *)
Report(v) ==
    /\ v \in hands \cap entered
    /\ reported' = reported \cup {v}
    /\ hands' \in {hands, hands \ {v}}
    /\ UNCHANGED <<accepted, entered, queue, delivered, lost>>

Lose(s) ==
    /\ s \subseteq hands
    /\ lost' = lost \cup s
    /\ hands \ s \subseteq hands' /\ hands' \subseteq hands
    /\ UNCHANGED <<accepted, entered, queue, delivered, reported>>

Next ==
    \/ \E v \in Events :
          \/ Accept(v) \/ Put(v) \/ Take(v) \/ Deliver(v) \/ Settle(v) \/ Report(v)
    \/ \E s \in SUBSET Events : Lose(s)

Spec == Init /\ [][Next]_vars

(* The promise in one line: an accepted event is never just gone.           *)
Traceable == accepted \subseteq queue \cup hands \cup delivered \cup reported \cup lost
=============================================================================
