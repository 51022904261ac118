------------------------------- MODULE Devices -------------------------------
(***************************************************************************)
(* The ActiveSync inventory (app/subdomain/activesync_device_service.py)    *)
(* of one application, for one phone, and the gate that asks it             *)
(* (app/subdomain/activesync_auth.py).                                      *)
(*                                                                         *)
(* One phone should be one row, but older versions wrote DOMAIN\user next   *)
(* to the address, and two mailboxes of one phone may be inserted at the    *)
(* same time; twins are merged when they are met.  Requests, pages and      *)
(* decisions run in threads that interleave between two statements.  An     *)
(* object stays as it was loaded until its session commits or rolls back,   *)
(* and a flush writes only the columns whose value was changed.             *)
(***************************************************************************)
EXTENDS Integers, FiniteSetsExt

CONSTANTS
    Mailboxes,     \* identities that sync with the phone (clean keys)
    Legacy,        \* the old key DOMAIN\user ...
    LegacyOwner,   \* ... of this mailbox
    SyncThreads,   \* threads that serve a sync request or a page
    Deciders,      \* routes that take one decision
    MaxRows,       \* bound on the identifiers of the phone's rows
    MaxSightings,  \* bound on the requests of the phone
    MaxDevFaults   \* bound on the statements that fail

ASSUME DevicesAssumption ==
    /\ LegacyOwner \in Mailboxes /\ Legacy \notin Mailboxes
    /\ MaxRows \in Nat \ {0} /\ MaxSightings \in Nat /\ MaxDevFaults \in Nat

VARIABLES
    inventory,  \* activesync_devices of the phone
    gate,       \* apps.activesync_device_control
    heldHits,   \* _pending_sightings: hits not written yet, per mailbox
    syncAt, sloc,   \* the sync and page threads
    decideAt, dloc, \* the deciding routes
    sightings,  \* history: requests so far, with those of the first rows
    reborn,     \* history: a row has taken an identifier that a session still goes by
    slipped,    \* history: threads that a lock should have stopped
    devFaults   \* statements that have failed

devVars == <<inventory, gate, heldHits, syncAt, sloc, decideAt, dloc, sightings, reborn,
             slipped, devFaults>>

Ids == 1..MaxRows
Keys == Mailboxes \cup {Legacy}
Statuses == {"pending", "rejected", "approved", "blocked"}
DeviceRow == [key: Keys, st: Statuses, lock: BOOLEAN, n: Nat]
NoRow == [key |-> Legacy, st |-> "pending", lock |-> FALSE, n |-> 0]
NoRows == [i \in Ids |-> NoRow]
Absent == -1

(* A thread's request: its mailbox, the gate as read, whether it came after *)
(* a lock; its session: the objects loaded (NoRow: expired), the object in  *)
(* hand, where the collapse goes on, hits to write.                         *)
Session == [m: Mailboxes, gate: BOOLEAN, late: BOOLEAN, seen: [Ids -> DeviceRow],
            dev: Ids, after: {"seen", "sibling", "last", "page"}, hits: Nat]
NoSession == [m |-> LegacyOwner, gate |-> FALSE, late |-> FALSE, seen |-> NoRows, dev |-> 1,
              after |-> "page", hits |-> 0]
Decisions == {"block", "unblock", "admin_approve", "approve", "reject", "revoke", "enable",
              "disable"}
NoDecision == [what |-> "disable", dev |-> 1, seen |-> NoRows]

DevTypeOK ==
    /\ inventory \in [Ids -> DeviceRow]
    /\ gate \in BOOLEAN
    /\ heldHits \in [Mailboxes -> Nat \cup {Absent}]
    /\ syncAt \in [SyncThreads -> {"idle", "look", "create", "insert", "collapse", "merge",
                                   "claim", "write", "judge"}]
    /\ sloc \in [SyncThreads -> Session]
    /\ decideAt \in [Deciders -> {"idle", "read", "done"}]
    /\ dloc \in [Deciders -> [what: Decisions, dev: Ids, seen: [Ids -> DeviceRow]]]
    /\ sightings \in Nat
    /\ reborn \in BOOLEAN
    /\ slipped \subseteq SyncThreads
    /\ devFaults \in 0..MaxDevFaults

Row(k, st) == [key |-> k, st |-> st, lock |-> FALSE, n |-> 1]
Rows == {i \in Ids : inventory[i] # NoRow}

(* The phone is new, has one row under a legacy key, or twins: rows that    *)
(* the code has written so far, at most one of them per key.                *)
DevInit ==
    /\ \E st \in {"pending", "approved"} :
          inventory \in {NoRows,
                         [NoRows EXCEPT ![1] = Row(Legacy, st)],
                         [NoRows EXCEPT ![1] = Row(Legacy, st),
                                        ![2] = Row(LegacyOwner, "pending")]}
    /\ gate = FALSE
    /\ heldHits = [m \in Mailboxes |-> Absent]
    /\ syncAt = [t \in SyncThreads |-> "idle"]
    /\ sloc = [t \in SyncThreads |-> NoSession]
    /\ decideAt = [d \in Deciders |-> "idle"]
    /\ dloc = [d \in Deciders |-> NoDecision]
    /\ sightings = Cardinality(Rows)
    /\ reborn = FALSE
    /\ slipped = {}
    /\ devFaults = 0

-----------------------------------------------------------------------------
(* The ORM session.                                                         *)

(* What a query returns: the phone's rows, an object in hand as it was.     *)
Loaded(s) == [i \in Ids |->
    IF i \in Rows /\ s.seen[i] # NoRow THEN s.seen[i] ELSE inventory[i]]

OnlySeen(rows, i) == [NoRows EXCEPT ![i] = rows[i]]

(* An UPDATE sets the columns that differ from what was loaded.             *)
Updated(r, old, new) == [f \in DOMAIN r |-> IF new[f] # old[f] THEN new[f] ELSE r[f]]

(* It fails when the row is gone, and on the unique (application, key,      *)
(* device id).                                                              *)
CanUpdate(i, old, new) ==
    /\ inventory[i] # NoRow
    /\ \A j \in Rows \ {i} : inventory[j].key # Updated(inventory[i], old, new).key

DevFault == devFaults < MaxDevFaults /\ devFaults' = devFaults + 1

-----------------------------------------------------------------------------
(* Merging twins.                                                           *)

StatusRank(st) ==
    CASE st = "blocked" -> 4 [] st = "approved" -> 3 [] st = "rejected" -> 2
      [] st = "pending" -> 1

(* _device_merge_score: the lock, the stronger status, the clean key, more  *)
(* hits, the older row.                                                     *)
Outranks(r, i, q, j) ==
    LET Score(x, k) == <<IF x.lock THEN 1 ELSE 0, StatusRank(x.st),
                         IF x.key # Legacy THEN 1 ELSE 0, x.n, MaxRows - k>>
    IN \E p \in 1..5 : /\ Score(r, i)[p] > Score(q, j)[p]
                       /\ \A o \in 1..(p - 1) : Score(r, i)[o] = Score(q, j)[o]

Group(rows) == {i \in Ids : rows[i] # NoRow}
Winner(rows) ==
    CHOOSE i \in Group(rows) : \A j \in Group(rows) \ {i} : Outranks(rows[i], i, rows[j], j)

CleanKey(k) == IF k = Legacy THEN LegacyOwner ELSE k

(* The hits of the rows up to each identifier.                              *)
HitsUpTo(rows) ==
    LET hits[i \in 0..MaxRows] == IF i = 0 THEN 0 ELSE hits[i - 1] + rows[i].n
    IN  hits

(* _absorb_device_into, for every loser in turn.                            *)
Absorbed(rows) ==
    LET G == Group(rows)
        strongest == CHOOSE i \in G : \A j \in G : StatusRank(rows[i].st) >= StatusRank(rows[j].st)
    IN [key |-> CleanKey(rows[Winner(rows)].key),
        st |-> rows[strongest].st,
        lock |-> \E i \in G : rows[i].lock,
        n |-> HitsUpTo(rows)[MaxRows]]

-----------------------------------------------------------------------------
(* A sync request: activesync_auth, _evaluate_device, record_sighting.      *)

At(t, p) == syncAt[t] = p
Goes(t, p) == syncAt' = [syncAt EXCEPT ![t] = p]
Has(t, f) == sloc' = [sloc EXCEPT ![t] = f]

(* A session of a merge goes on with a copy of row i.                       *)
Copied(i) == {s \in SyncThreads : syncAt[s] \in {"collapse", "merge"} /\ sloc[s].seen[i] # NoRow}

(* Some row is locked, and nobody is merging twins with a copy of a row     *)
(* from before its last decision.                                           *)
Locked == \E i \in Ids : inventory[i].lock
LockSettled ==
    Locked /\ \A i \in Ids : \A s \in Copied(i) : sloc[s].seen[i].lock = inventory[i].lock

SyncArrives(t, m) ==
    /\ At(t, "idle") /\ sightings < MaxSightings
    /\ sightings' = sightings + 1
    /\ Has(t, [NoSession EXCEPT !.m = m, !.gate = gate, !.late = LockSettled])
    /\ Goes(t, "look")
    /\ UNCHANGED <<inventory, gate, heldHits, decideAt, dloc, reborn, slipped, devFaults>>

Over(t) == Goes(t, "idle") /\ Has(t, NoSession)

(* Whatever fails in the inventory lets the request through.                *)
FailsOpen(t) == Over(t)

(* get_device: by the clean key, then by the legacy one.                    *)
Matching(m) ==
    LET exact == {i \in Rows : inventory[i].key = m}
        legacy == {i \in Rows : m = LegacyOwner /\ inventory[i].key = Legacy}
    IN IF exact # {} THEN exact ELSE legacy

LooksUp(t) ==
    LET found == Matching(sloc[t].m)
        dev == Winner([i \in Ids |-> IF i \in found THEN inventory[i] ELSE NoRow])
    IN /\ At(t, "look")
       /\ IF found = {}
          THEN /\ heldHits' = [heldHits EXCEPT ![sloc[t].m] = Absent]
               /\ Goes(t, "create") /\ UNCHANGED sloc
          ELSE /\ Goes(t, "collapse")
               /\ Has(t, [sloc[t] EXCEPT !.seen = OnlySeen(inventory, dev), !.dev = dev,
                                               !.after = "seen"])
               /\ UNCHANGED heldHits
       /\ UNCHANGED <<inventory, gate, decideAt, dloc, sightings, reborn, slipped, devFaults>>

(* _create_device: the row may be there under another key.  The caps on     *)
(* pending rows count those of other phones too.                            *)
FindsSibling(t) ==
    /\ At(t, "create") /\ Rows # {}
    /\ LET first == CHOOSE i \in Rows : \A j \in Rows : i <= j
       IN Has(t, [sloc[t] EXCEPT !.seen = OnlySeen(inventory, first), !.dev = first,
                                      !.after = "sibling"])
    /\ Goes(t, "collapse")
    /\ UNCHANGED <<inventory, gate, heldHits, decideAt, dloc, sightings, reborn, slipped,
                   devFaults>>

HitsCap(t) ==
    /\ At(t, "create") /\ Rows = {}
    /\ Over(t)
    /\ UNCHANGED <<inventory, gate, heldHits, decideAt, dloc, sightings, reborn, slipped,
                   devFaults>>

HasRoom(t) ==
    /\ At(t, "create") /\ Rows = {}
    /\ Goes(t, "insert")
    /\ UNCHANGED <<inventory, gate, heldHits, sloc, decideAt, dloc, sightings, reborn,
                   slipped, devFaults>>

(* A session still goes by the row that had this identifier.                *)
Holding(i) ==
    Copied(i) \cup {s \in SyncThreads : syncAt[s] \in {"claim", "write", "judge"}
                                       /\ sloc[s].dev = i}

(* The identifier is one above the largest; a conflict means that somebody  *)
(* was first, whose row is then taken.                                      *)
Inserts(t) ==
    LET largest == CHOOSE k \in Rows \cup {0} : \A j \in Rows : j <= k
        i == 1 + largest
    IN /\ At(t, "insert") /\ i \in Ids
       /\ \A j \in Rows : inventory[j].key # sloc[t].m
       /\ inventory' = [inventory EXCEPT ![i] = Row(sloc[t].m, "pending")]
       /\ sloc' = [s \in SyncThreads |->
             [(IF s = t THEN [sloc[t] EXCEPT !.dev = i] ELSE sloc[s])
                 EXCEPT !.late = @ /\ Holding(i) = {}]]
       /\ reborn' = (reborn \/ Holding(i) # {})
       /\ Goes(t, "judge")
       /\ UNCHANGED <<gate, heldHits, decideAt, dloc, sightings, slipped, devFaults>>

InsertFails(t) ==
    /\ At(t, "insert")
    /\ \/ /\ \E j \in Rows : inventory[j].key = sloc[t].m
          /\ UNCHANGED devFaults
       \/ DevFault
    /\ LET found == Matching(sloc[t].m)
           first == IF found # {} THEN found ELSE Rows
       IN IF Rows = {}
          THEN FailsOpen(t)
          ELSE \E keep \in first :
                 /\ Has(t, [sloc[t] EXCEPT !.seen = OnlySeen(inventory, keep), !.dev = keep,
                                           !.after = "last"])
                 /\ Goes(t, "collapse")
    /\ UNCHANGED <<inventory, gate, heldHits, decideAt, dloc, sightings, reborn, slipped>>

-----------------------------------------------------------------------------
(* collapse_siblings_for_device, merge_device_duplicates.                   *)

NextPlace(after) ==
    CASE after \in {"seen", "sibling"} -> "claim"
      [] after = "last" -> "judge"
      [] after = "page" -> "idle"

(* The collapse returns the row of dev, with what is loaded of it.          *)
Returns(t, dev, seen) ==
    /\ Goes(t, NextPlace(sloc[t].after))
    /\ IF sloc[t].after = "page"
       THEN Has(t, NoSession)
       ELSE Has(t, [sloc[t] EXCEPT !.dev = dev, !.seen = seen])

(* The siblings are read again.  A single row is only given its clean key;  *)
(* without any row the object in hand is used, if it is loaded.             *)
Collapses(t) ==
    LET s == sloc[t]
        rows == IF Rows = {} THEN OnlySeen(s.seen, s.dev) ELSE Loaded(s)
        G == Group(rows)
        only == CHOOSE i \in G : TRUE
    IN /\ At(t, "collapse")
       /\ \/ /\ G = {} /\ FailsOpen(t)
          \/ /\ Cardinality(G) = 1 /\ rows[only].key # Legacy
             /\ Returns(t, only, rows)
          \/ /\ Cardinality(G) > 1 \/ \E i \in G : rows[i].key = Legacy
             /\ Has(t, [s EXCEPT !.seen = rows])
             /\ Goes(t, "merge")
       /\ UNCHANGED <<inventory, gate, heldHits, decideAt, dloc, sightings, reborn, slipped,
                      devFaults>>

(* One commit: the UPDATE of the winner, then the DELETEs.  A loser that is *)
(* already gone is no error.                                                *)
MergeCommits(t) ==
    LET rows == sloc[t].seen
        w == Winner(rows)
    IN /\ At(t, "merge") /\ CanUpdate(w, rows[w], Absorbed(rows))
       /\ inventory' = [i \in Ids |->
             IF i = w THEN Updated(inventory[w], rows[w], Absorbed(rows))
             ELSE IF i \in Group(rows) THEN NoRow ELSE inventory[i]]
       /\ Returns(t, w, NoRows)
       /\ UNCHANGED <<gate, heldHits, decideAt, dloc, sightings, reborn, slipped, devFaults>>

(* Rolled back: the twins are ranked by what their rows say now, which      *)
(* raises when one of them is gone.                                         *)
MergeFails(t) ==
    LET rows == sloc[t].seen
        G == Group(rows)
        now == [i \in Ids |-> IF i \in G THEN inventory[i] ELSE NoRow]
    IN /\ At(t, "merge")
       /\ \/ ~CanUpdate(Winner(rows), rows[Winner(rows)], Absorbed(rows)) /\ UNCHANGED devFaults
          \/ DevFault
       /\ IF Cardinality(G) = 1
          THEN Returns(t, Winner(rows), NoRows)
          ELSE IF G \subseteq Rows THEN Returns(t, Winner(now), now) ELSE FailsOpen(t)
       /\ UNCHANGED <<inventory, gate, heldHits, decideAt, dloc, sightings, reborn, slipped>>

(* A page merges the twins it shows: the fiche and the portal those of one  *)
(* identity, the pending queue all of them.                                 *)
PageOpens(t) ==
    /\ At(t, "idle")
    /\ \E K \in {Keys} \cup {{m} \cup (IF m = LegacyOwner THEN {Legacy} ELSE {}) : m \in Mailboxes} :
         LET G == {i \in Rows : inventory[i].key \in K}
         IN /\ Cardinality(G) > 1 \/ \E i \in G : inventory[i].key = Legacy
            /\ Has(t, [NoSession EXCEPT !.seen = [i \in Ids |-> IF i \in G THEN inventory[i]
                                                                ELSE NoRow]])
    /\ Goes(t, "merge")
    /\ UNCHANGED <<inventory, gate, heldHits, decideAt, dloc, sightings, reborn, slipped,
                   devFaults>>

-----------------------------------------------------------------------------
(* Counting, and the verdict.                                               *)

(* Mutant: the held hits are handed out and kept.                           *)
SightingClaimedKept(t) ==
    LET m == sloc[t].m
    IN /\ heldHits' = [heldHits EXCEPT ![m] = IF @ = Absent THEN 0 ELSE @ + 1]
       /\ sloc' = [sloc EXCEPT ![t].hits = IF heldHits[m] = Absent THEN 1 ELSE heldHits[m] + 1]

(* _claim_sighting, when the row is due to be written.                      *)
SightingClaimed(t) ==
    LET m == sloc[t].m
    IN /\ heldHits' = [heldHits EXCEPT ![m] = 0]
       /\ sloc' = [sloc EXCEPT ![t].hits = IF heldHits[m] = Absent THEN 1 ELSE heldHits[m] + 1]

Claims(t) ==
    /\ At(t, "claim") /\ sloc[t].after = "seen"
    /\ SightingClaimed(t)
    /\ Goes(t, "write")
    /\ UNCHANGED <<inventory, gate, decideAt, dloc, sightings, reborn, slipped, devFaults>>

(* Less than a minute after the last write: only the memory counts.         *)
OnlyHeld(t) ==
    /\ At(t, "claim") /\ sloc[t].after = "seen" /\ heldHits[sloc[t].m] # Absent
    /\ heldHits' = [heldHits EXCEPT ![sloc[t].m] = @ + 1]
    /\ Goes(t, "judge")
    /\ UNCHANGED <<inventory, gate, sloc, decideAt, dloc, sightings, reborn, slipped,
                   devFaults>>

CountsSibling(t) ==
    /\ At(t, "claim") /\ sloc[t].after = "sibling"
    /\ Has(t, [sloc[t] EXCEPT !.hits = 1])
    /\ Goes(t, "write")
    /\ UNCHANGED <<inventory, gate, heldHits, decideAt, dloc, sightings, reborn, slipped,
                   devFaults>>

(* An expired object is loaded when its attributes are read ...             *)
InHand(t) ==
    LET s == sloc[t] IN IF s.seen[s.dev] # NoRow THEN s.seen[s.dev] ELSE inventory[s.dev]

Reloads(t) ==
    /\ At(t, "write") /\ sloc[t].seen[sloc[t].dev] = NoRow /\ InHand(t) # NoRow
    /\ Has(t, [sloc[t] EXCEPT !.seen = OnlySeen(inventory, sloc[t].dev)])
    /\ UNCHANGED <<inventory, gate, heldHits, syncAt, decideAt, dloc, sightings, reborn,
                   slipped, devFaults>>

Recounted(t) == [InHand(t) EXCEPT !.key = sloc[t].m, !.n = @ + sloc[t].hits]

(* ... and the count is written as an absolute value, onto the clean key.   *)
Writes(t) ==
    LET s == sloc[t]
    IN /\ At(t, "write") /\ s.seen[s.dev] # NoRow
       /\ CanUpdate(s.dev, InHand(t), Recounted(t))
       /\ inventory' = [inventory EXCEPT ![s.dev] = Updated(@, InHand(t), Recounted(t))]
       /\ Has(t, [s EXCEPT !.seen = NoRows, !.hits = 0])
       /\ Goes(t, "judge")
       /\ UNCHANGED <<gate, heldHits, decideAt, dloc, sightings, reborn, slipped, devFaults>>

(* Rolled back; the hits are lost and the siblings are looked at again.     *)
WriteFails(t) ==
    LET s == sloc[t]
    IN /\ At(t, "write")
       /\ \/ /\ \/ InHand(t) = NoRow
                \/ s.seen[s.dev] # NoRow /\ ~CanUpdate(s.dev, InHand(t), Recounted(t))
             /\ UNCHANGED devFaults
          \/ DevFault
       /\ Has(t, [s EXCEPT !.seen = NoRows, !.hits = 0, !.after = "last"])
       /\ Goes(t, "collapse")
       /\ UNCHANGED <<inventory, gate, heldHits, decideAt, dloc, sightings, reborn, slipped>>

(* Mutant: the lock is only looked at when the gate is on.                  *)
PassesUngated(t) == ~sloc[t].gate \/ (~InHand(t).lock /\ InHand(t).st = "approved")

(* The lock always bites, the status only when the gate is on.              *)
Passes(t) == ~InHand(t).lock /\ (~sloc[t].gate \/ InHand(t).st = "approved")

Lets(t) ==
    /\ At(t, "judge") /\ InHand(t) # NoRow /\ Passes(t)
    /\ slipped' = IF sloc[t].late THEN slipped \cup {t} ELSE slipped
    /\ Over(t)
    /\ UNCHANGED <<inventory, gate, heldHits, decideAt, dloc, sightings, reborn, devFaults>>

(* 403; a row that is gone when its attributes are read is an error, which  *)
(* nginx takes for a refusal.  A break-glass session is only inventoried.   *)
Ends(t) ==
    /\ At(t, "judge")
    /\ Over(t)
    /\ UNCHANGED <<inventory, gate, heldHits, decideAt, dloc, sightings, reborn, slipped,
                   devFaults>>

-----------------------------------------------------------------------------
(* Decisions.                                                               *)

Ruling(what) ==
    CASE what = "block" -> [st |-> "blocked", lock |-> TRUE]
      [] what \in {"admin_approve", "approve"} -> [st |-> "approved", lock |-> FALSE]
      [] what = "reject" -> [st |-> "rejected", lock |-> FALSE]
      [] what \in {"unblock", "revoke"} -> [st |-> "pending", lock |-> FALSE]

ByOwner == {"approve", "reject", "revoke"}

(* The row is loaded; its owner cannot lift an administrator's lock.        *)
DecisionReads(d, what, i) ==
    /\ decideAt[d] = "idle" /\ i \in Rows
    /\ what \in Decisions \ {"enable", "disable"}
    /\ what \in ByOwner => ~inventory[i].lock
    /\ decideAt' = [decideAt EXCEPT ![d] = "read"]
    /\ dloc' = [dloc EXCEPT ![d] = [what |-> what, dev |-> i, seen |-> OnlySeen(inventory, i)]]
    /\ UNCHANGED <<inventory, gate, heldHits, syncAt, sloc, sightings, reborn, slipped,
                   devFaults>>

(* preview_device_control: the pending rows are loaded.                     *)
EnableReads(d) ==
    /\ decideAt[d] = "idle"
    /\ decideAt' = [decideAt EXCEPT ![d] = "read"]
    /\ dloc' = [dloc EXCEPT ![d] =
          [what |-> "enable", dev |-> 1,
           seen |-> [i \in Ids |-> IF inventory[i].st = "pending" /\ ~inventory[i].lock
                                   THEN inventory[i] ELSE NoRow]]]
    /\ UNCHANGED <<inventory, gate, heldHits, syncAt, sloc, sightings, reborn, slipped,
                   devFaults>>

(* The objects as the route has changed them.                               *)
Ruled(d) ==
    LET q == dloc[d]
    IN [i \in Ids |->
          IF q.seen[i] = NoRow THEN NoRow
          ELSE IF q.what = "enable" THEN [q.seen[i] EXCEPT !.st = "approved"]
          ELSE [q.seen[i] EXCEPT !.st = Ruling(q.what).st, !.lock = Ruling(q.what).lock]]

(* The decision lifts a lock, or some merge goes on with a copy of its row. *)
Unsettles(G) ==
    \E i \in G : Copied(i) # {} \/ (inventory[i].lock /\ ~inventory'[i].lock)

(* The commit; without its row it fails, whole.                             *)
DecisionCommits(d) ==
    LET q == dloc[d]
        G == Group(q.seen)
    IN /\ decideAt[d] = "read"
       /\ IF G \subseteq Rows
          THEN /\ inventory' = [i \in Ids |-> IF i \in G
                                  THEN Updated(inventory[i], q.seen[i], Ruled(d)[i])
                                  ELSE inventory[i]]
               /\ gate' = (gate \/ q.what = "enable")
          ELSE UNCHANGED <<inventory, gate>>
       /\ sloc' = [t \in SyncThreads |->
             [sloc[t] EXCEPT !.late = @ /\ ~Unsettles(G)]]
       /\ decideAt' = [decideAt EXCEPT ![d] = "done"]
       /\ dloc' = [dloc EXCEPT ![d] = NoDecision]
       /\ UNCHANGED <<heldHits, syncAt, sightings, reborn, slipped, devFaults>>

(* disable_device_control: only the gate.                                   *)
Disables(d) ==
    /\ decideAt[d] = "idle" /\ gate
    /\ gate' = FALSE
    /\ decideAt' = [decideAt EXCEPT ![d] = "done"]
    /\ UNCHANGED <<inventory, heldHits, syncAt, sloc, dloc, sightings, reborn, slipped,
                   devFaults>>

-----------------------------------------------------------------------------
SyncStep(t) ==
    \/ \E m \in Mailboxes : SyncArrives(t, m)
    \/ PageOpens(t)
    \/ LooksUp(t) \/ FindsSibling(t) \/ HitsCap(t) \/ HasRoom(t) \/ Inserts(t) \/ InsertFails(t)
    \/ Collapses(t) \/ MergeCommits(t) \/ MergeFails(t)
    \/ Claims(t) \/ OnlyHeld(t) \/ CountsSibling(t) \/ Reloads(t) \/ Writes(t) \/ WriteFails(t)
    \/ Lets(t) \/ Ends(t)

DecisionStep(d) ==
    \/ \E what \in Decisions, i \in Ids : DecisionReads(d, what, i)
    \/ EnableReads(d) \/ DecisionCommits(d) \/ Disables(d)

DevNext == (\E t \in SyncThreads : SyncStep(t)) \/ (\E d \in Deciders : DecisionStep(d))

DevSpec == DevInit /\ [][DevNext]_devVars

-----------------------------------------------------------------------------
(* Properties.                                                              *)

(* Stolen-phone lock: a request that arrives while a row of the phone is    *)
(* locked, and no merge under way has an older copy, is not let through by  *)
(* a verdict unless an administrator lifts a lock or decides about a row    *)
(* that a merge has copied, or a new row takes the identifier of a deleted  *)
(* one by which a session still goes: whatever twins, races of insertions,  *)
(* failed merges and owner's decisions come in between.                     *)
LockBites == slipped = {}

(* The throttled counter never invents hits: what is written, held in       *)
(* memory and on its way adds up to at most the requests made, although     *)
(* counts are written as absolute values and twins are added up.  A row     *)
(* that takes the identifier of a deleted one, by which a session still     *)
(* goes, is given the hits of that one a second time.                       *)
CountHonest ==
    LET Held(m) == IF heldHits[m] = Absent THEN 0 ELSE heldHits[m]
    IN ~reborn =>
         MapThenSumSet(LAMBDA i : inventory[i].n, Ids)
       + MapThenSumSet(Held, Mailboxes)
       + MapThenSumSet(LAMBDA t : sloc[t].hits, SyncThreads) <= sightings

(* models.py: "Admin lock: the owner can never lift this one (stolen phone)": a locked *)
(* phone is unlocked only by an administrator's decision.                   *)
LockKept ==
    [][Locked /\ ~Locked' =>
         \E d \in Deciders : dloc[d].what \in {"unblock", "admin_approve"}]_devVars
=============================================================================
