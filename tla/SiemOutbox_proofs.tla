-------------------------- MODULE SiemOutbox_proofs ---------------------------
(***************************************************************************)
(* Proofs about SiemOutbox, for any number of events and of threads that   *)
(* enqueue: the types, the bound on the queue, that no event accepted for  *)
(* forwarding vanishes without a trace, that none is delivered twice but   *)
(* by a fault, and that the outbox implements ForwardQueue.                *)
(***************************************************************************)
EXTENDS SiemOutbox, FiniteSetTheorems, TLAPS

(* Whatever the threads and the drain have in hand was accepted for         *)
(* forwarding, and the drain deletes as sent what it has sent.              *)
Custody ==
    /\ outbox \subseteq wanted
    /\ \A e \in Enqueuers :
         /\ epc[e] # "idle" => eev[e] \in audited
         /\ epc[e] \in {"check", "full", "drop", "report", "room"} => eev[e] \in wanted
         /\ epc[e] \in {"drop", "report"} => evictim[e] \in wanted
    /\ dlist \subseteq wanted
    /\ dpc \in {"purged", "sending", "sent"} => dcur \in wanted
    /\ dpc = "sent" => sent[dcur] > 0

SafeHands == TypeOK /\ Custody

(* Nothing is queued or in hand at first.                                   *)
LEMMA SafeHandsInit == Init => SafeHands
<1> SUFFICES ASSUME Init PROVE SafeHands
  OBVIOUS
<1> USE OutboxAssumption DEF OutboxAssumption
<1>1. Custody
  BY DEF Init, Custody
<1>2. enabled \in BOOLEAN /\ dexp \in BOOLEAN
  BY Zenon DEF Init
<1>3. TypeOK
  BY <1>2 DEF Init, TypeOK
<1> QED BY <1>1, <1>3 DEF SafeHands

(* Each step of try_enqueue_audit keeps every event in somebody's hands.    *)
LEMMA EnqueueSafe == ASSUME SafeHands, NEW e \in Enqueuers, Enqueue(e) PROVE SafeHands'
<1> USE OutboxAssumption DEF OutboxAssumption, SafeHands, TypeOK, queueVars, enqVars, drainVars,
        siemVars, history
<1>1. ASSUME NEW v \in Events, LogAction(e, v) PROVE SafeHands'
  BY <1>1 DEF LogAction, Custody
<1>2. CASE EnqueueSkip(e)
  BY <1>2 DEF EnqueueSkip, EndEnqueue, Custody
<1>3. CASE EnqueueAccept(e)
  BY <1>3 DEF EnqueueAccept, Custody
<1>4. CASE CheckCapacity(e)
  BY <1>4 DEF CheckCapacity, Custody
<1>5. CASE PickOldest(e)
  BY <1>5 DEF PickOldest, Custody
<1>6. CASE DropDelete(e)
  BY <1>6 DEF DropDelete, RemoveRow, Custody
<1>7. CASE DropReport(e)
  BY <1>7 DEF DropReport, Custody
<1>8. CASE DropReportFails(e)
  BY <1>8 DEF DropReportFails, Custody
<1>9. CASE Insert(e)
  BY <1>9 DEF Insert, EndEnqueue, Custody
<1>10. CASE EnqueueFails(e)
  BY <1>10 DEF EnqueueFails, EnqueuerHolds, EndEnqueue, Custody
<1> QED BY <1>1, <1>2, <1>3, <1>4, <1>5, <1>6, <1>7, <1>8, <1>9, <1>10 DEF Enqueue

(* So does each step of process_outbox_once.                                *)
LEMMA DrainSafe == ASSUME SafeHands, DrainStep PROVE SafeHands'
<1> USE OutboxAssumption DEF OutboxAssumption, SafeHands, TypeOK, queueVars, enqVars, drainVars,
        siemVars, history
<1>1. CASE DrainBegin
  BY <1>1 DEF DrainBegin, Custody
<1>2. CASE DrainRaises
  BY <1>2 DEF DrainRaises, EndDrain, Custody
<1>3. CASE PurgeReport
  BY <1>3 DEF PurgeReport, Custody
<1>4. CASE PurgeReportFails
  BY <1>4 DEF PurgeReportFails, Custody
<1>5. CASE PurgeDone
  BY <1>5 DEF PurgeDone, Custody
<1>6. CASE SelectDue
  BY <1>6 DEF SelectDue, Custody
<1>7. CASE Deliver
  BY <1>7 DEF Deliver, Custody
<1>8. CASE DeliverFails
  BY <1>8 DEF DeliverFails, ItemDone, EndDrain, Custody
<1>9. CASE DeleteSent
  BY <1>9 DEF DeleteSent, RemoveRow, ItemDone, Custody
<1>10. CASE DrainFails
  <2>1. dexp' \in BOOLEAN
    BY <1>10, Zenon DEF DrainFails, EndDrain
  <2>2. TypeOK'
    BY <1>10, <2>1 DEF DrainFails, EndDrain
  <2>3. Custody'
    BY <1>10 DEF DrainFails, EndDrain, Custody
  <2> QED BY <2>2, <2>3
<1>11. CASE BatchDone
  BY <1>11 DEF BatchDone, EndDrain, Custody
<1>12. ASSUME NEW v \in Events, PurgeDelete(v) PROVE SafeHands'
  BY <1>12 DEF PurgeDelete, RemoveRow, Custody
<1>13. ASSUME NEW v \in Events, ItemStart(v) PROVE SafeHands'
  BY <1>13 DEF ItemStart, Custody
<1> QED
  BY <1>1, <1>2, <1>3, <1>4, <1>5, <1>6, <1>7, <1>8, <1>9, <1>10, <1>11, <1>12, <1>13
     DEF DrainStep

(* The invariant is inductive.                                              *)
LEMMA SafeHandsStep == SafeHands /\ [Next]_vars => SafeHands'
<1> SUFFICES ASSUME SafeHands, [Next]_vars PROVE SafeHands'
  OBVIOUS
<1> USE OutboxAssumption DEF OutboxAssumption, queueVars, enqVars, drainVars, siemVars, history
<1>1. ASSUME NEW v \in Events, BackoffElapses(v) \/ GrowsStale(v) PROVE SafeHands'
  BY <1>1 DEF SafeHands, TypeOK, BackoffElapses, GrowsStale, Custody
<1>2. CASE ToggleForwarding
  BY <1>2 DEF SafeHands, TypeOK, ToggleForwarding, Custody
<1>3. CASE Crash
  <2>1. Held \subseteq wanted
    BY DEF SafeHands, Custody, Held, DrainHolds, EnqueuerHolds
  <2>2. dexp' \in BOOLEAN
    BY <1>3, Zenon DEF Crash, EndDrain
  <2>3. TypeOK'
    BY <1>3, <2>1, <2>2 DEF SafeHands, TypeOK, Crash, EndDrain
  <2>4. Custody'
    BY <1>3 DEF SafeHands, TypeOK, Crash, EndDrain, Custody
  <2> QED BY <2>3, <2>4 DEF SafeHands
<1>4. CASE UNCHANGED vars
  BY <1>4 DEF SafeHands, TypeOK, vars, Custody
<1> QED BY <1>1, <1>2, <1>3, <1>4, EnqueueSafe, DrainSafe DEF Next

(* The queue's variables always have their types.                           *)
THEOREM OutboxTypeCorrect == Spec => []TypeOK
<1>1. SafeHands => TypeOK
  BY DEF SafeHands
<1> QED BY <1>1, SafeHandsInit, SafeHandsStep, PTL DEF Spec

-----------------------------------------------------------------------------
(* Nothing vanishes.                                                        *)

InHand(v) == v \in DrainHolds \/ \E e \in Enqueuers : v \in EnqueuerHolds(e)

(* Held, element by element.                                                *)
LEMMA HeldIsInHand == \A v : v \in Held <=> InHand(v)
  BY DEF Held, InHand

Traced(v) == v \in outbox \/ sent[v] > 0 \/ v \in dropAudit \/ InHand(v) \/ v \in lost

(* Accounted, event by event.                                               *)
LEMMA AccountedIsTraced ==
  ASSUME TypeOK PROVE Accounted <=> \A v \in wanted : Traced(v)
<1>1. wanted \subseteq Events
  BY DEF TypeOK
<1> QED BY <1>1, HeldIsInHand DEF Accounted, Traced

(* A step of a thread that enqueues: what leaves its hands is queued,       *)
(* reported or lost.                                                        *)
LEMMA EnqueueTraces ==
  ASSUME SafeHands, SafeHands', NEW e \in Enqueuers, Enqueue(e), \A v \in wanted : Traced(v)
  PROVE  \A v \in wanted' : Traced(v)'
<1> SUFFICES ASSUME NEW v \in wanted' PROVE Traced(v)'
  OBVIOUS
<1> USE DEF SafeHands, TypeOK, queueVars, drainVars, siemVars, history, Traced, InHand, DrainHolds,
        EnqueuerHolds
<1>1. ASSUME NEW u \in Events, LogAction(e, u) PROVE Traced(v)'
  BY <1>1 DEF LogAction
<1>2. CASE EnqueueSkip(e)
  BY <1>2 DEF EnqueueSkip, EndEnqueue
<1>3. CASE EnqueueAccept(e)
  BY <1>3 DEF EnqueueAccept
<1>4. CASE CheckCapacity(e)
  BY <1>4 DEF CheckCapacity
<1>5. CASE PickOldest(e)
  BY <1>5 DEF PickOldest
<1>6. CASE DropDelete(e)
  BY <1>6 DEF DropDelete, RemoveRow
<1>7. CASE DropReport(e)
  BY <1>7 DEF DropReport
<1>8. CASE DropReportFails(e)
  BY <1>8 DEF DropReportFails
<1>9. CASE Insert(e)
  BY <1>9 DEF Insert, EndEnqueue
<1>10. CASE EnqueueFails(e)
  BY <1>10 DEF EnqueueFails, EndEnqueue
<1> QED BY <1>1, <1>2, <1>3, <1>4, <1>5, <1>6, <1>7, <1>8, <1>9, <1>10,
           Enqueue(e) DEF Enqueue

(* A step of the drain, the clock, the switch, or a crash.                  *)
LEMMA DrainTraces ==
  ASSUME SafeHands, SafeHands', DrainStep, \A v \in wanted : Traced(v)
  PROVE  \A v \in wanted' : Traced(v)'
<1> SUFFICES ASSUME NEW v \in wanted' PROVE Traced(v)'
  OBVIOUS
<1> USE DEF SafeHands, TypeOK, queueVars, enqVars, siemVars, history, Traced, InHand, DrainHolds,
        EnqueuerHolds
<1>1. CASE DrainBegin \/ DrainRaises \/ PurgeDone \/ SelectDue \/ BatchDone
  BY <1>1 DEF DrainBegin, DrainRaises, PurgeDone, SelectDue, BatchDone, EndDrain
<1>2. CASE PurgeReport \/ PurgeReportFails
  BY <1>2 DEF PurgeReport, PurgeReportFails
<1>3. CASE Deliver
  BY <1>3 DEF Deliver
<1>4. CASE DeliverFails \/ DrainFails
  BY <1>4 DEF DeliverFails, DrainFails, ItemDone, EndDrain
<1>5. CASE DeleteSent
  BY <1>5 DEF DeleteSent, RemoveRow, ItemDone, Custody
<1>6. ASSUME NEW u \in Events, PurgeDelete(u) \/ ItemStart(u) PROVE Traced(v)'
  BY <1>6 DEF PurgeDelete, ItemStart, RemoveRow
<1> QED BY <1>1, <1>2, <1>3, <1>4, <1>5, <1>6 DEF DrainStep

(* The switch, the ageing of rows and a crash, which loses what is in hand. *)
LEMMA OutsideTraces ==
  ASSUME SafeHands, SafeHands', \A v \in wanted : Traced(v),
         ToggleForwarding \/ Crash \/ UNCHANGED vars
             \/ \E u \in Events : BackoffElapses(u) \/ GrowsStale(u)
  PROVE  \A v \in wanted' : Traced(v)'
<1> SUFFICES ASSUME NEW v \in wanted' PROVE Traced(v)'
  OBVIOUS
<1>1. CASE Crash
  <2>1. wanted' = wanted /\ outbox' = outbox /\ sent' = sent /\ dropAudit' = dropAudit
        /\ lost' = lost \cup Held
    BY <1>1 DEF Crash, queueVars, siemVars
  <2> QED BY <2>1, HeldIsInHand DEF Traced
<1>2. CASE ~Crash
  BY <1>2 DEF ToggleForwarding, BackoffElapses, GrowsStale, vars, queueVars, enqVars, drainVars,
     siemVars, history, Traced, InHand, DrainHolds, EnqueuerHolds
<1> QED BY <1>1, <1>2

(* Every event accepted for forwarding is delivered, queued, reported as    *)
(* dropped or held by a thread, unless a crash or a failed commit took it   *)
(* out of a thread's hands: try_enqueue_audit and the drain never lose one  *)
(* between them, however their steps interleave.                            *)
THEOREM NothingVanishes == Spec => []Accounted
<1>1. Init => SafeHands /\ Accounted
  <2>1. Init => Accounted
    BY DEF Init, Accounted
  <2> QED BY <2>1, SafeHandsInit
<1>2. SafeHands /\ Accounted /\ [Next]_vars => SafeHands' /\ Accounted'
  <2> SUFFICES ASSUME SafeHands, Accounted, [Next]_vars PROVE SafeHands' /\ Accounted'
    OBVIOUS
  <2>1. SafeHands'
    BY SafeHandsStep
  <2>2. \A v \in wanted : Traced(v)
    BY AccountedIsTraced DEF SafeHands
  <2>3. \A v \in wanted' : Traced(v)'
    BY <2>1, <2>2, EnqueueTraces, DrainTraces, OutsideTraces DEF Next
  <2>4. Accounted' <=> \A v \in wanted' : Traced(v)'
    <3>1. wanted' \subseteq Events
      BY <2>1 DEF SafeHands, TypeOK
    <3>2. \A v : v \in Held' <=> InHand(v)'
      BY DEF Held, InHand
    <3> QED BY <3>1, <3>2 DEF Accounted, Traced
  <2> QED BY <2>1, <2>3, <2>4
<1> QED BY <1>1, <1>2, PTL DEF Spec

-----------------------------------------------------------------------------
(* The queue is bounded: a thread that found room holds a slot until it     *)
(* inserts, and rows and slots together stay below Capacity + the number of *)
(* threads.                                                                 *)

Room == {e \in Enqueuers : epc[e] = "room"}

SlotBound ==
    Cardinality(outbox) + Cardinality(Room) + 1 <= Capacity + Cardinality(Enqueuers)

(* The queue and the threads are finite sets, so they can be counted.       *)
LEMMA FiniteParts ==
  ASSUME TypeOK
  PROVE  /\ IsFiniteSet(outbox) /\ IsFiniteSet(Room)
         /\ Cardinality(outbox) \in Nat /\ Cardinality(Room) \in Nat
         /\ Cardinality(Enqueuers) \in Nat
         /\ Cardinality(Room) <= Cardinality(Enqueuers)
<1>1. outbox \subseteq Events /\ Room \subseteq Enqueuers
  BY DEF TypeOK, Room
<1> QED BY <1>1, OutboxAssumption, FS_Subset, FS_CardinalityType DEF OutboxAssumption

(* Neither a row nor a slot is added.                                       *)
LEMMA NothingAdded ==
  ASSUME TypeOK, TypeOK', SlotBound, outbox' \subseteq outbox, Room' \subseteq Room
  PROVE  SlotBound'
<1>1. Cardinality(outbox') <= Cardinality(outbox) /\ Cardinality(outbox') \in Nat
  BY FiniteParts, FS_Subset, FS_CardinalityType
<1>2. Cardinality(Room') <= Cardinality(Room) /\ Cardinality(Room') \in Nat
  BY FiniteParts, FS_Subset, FS_CardinalityType
<1> QED BY <1>1, <1>2, FiniteParts, OutboxAssumption DEF SlotBound, OutboxAssumption

(* The slot bound is inductive.                                             *)
LEMMA SlotBoundStep == SafeHands /\ SlotBound /\ [Next]_vars => SlotBound'
<1> SUFFICES ASSUME SafeHands, SlotBound, [Next]_vars PROVE SlotBound'
  OBVIOUS
<1>0. TypeOK /\ TypeOK'
  BY SafeHandsStep DEF SafeHands
<1>1. /\ IsFiniteSet(outbox') /\ IsFiniteSet(Room')
      /\ Cardinality(outbox') \in Nat /\ Cardinality(Room') \in Nat
      /\ Cardinality(Room') <= Cardinality(Enqueuers)
  <2>1. outbox' \subseteq Events /\ Room' \subseteq Enqueuers
    BY <1>0 DEF TypeOK, Room
  <2> QED BY <2>1, OutboxAssumption, FS_Subset, FS_CardinalityType DEF OutboxAssumption
<1> USE DEF queueVars, enqVars, drainVars, siemVars, history
<1>2. ASSUME NEW e \in Enqueuers, Enqueue(e) PROVE SlotBound'
  <2>1. CASE CheckCapacity(e)
    <3>1. CASE IsFull
      <4>1. outbox' = outbox /\ Room' \subseteq Room
        BY <2>1, <3>1, <1>0 DEF CheckCapacity, Room, TypeOK
      <4> QED BY <4>1, <1>0, NothingAdded
    <3>2. CASE ~IsFull
      <4>1. outbox' = outbox /\ Cardinality(outbox) + 1 <= Capacity
        BY <2>1, <3>2, <1>0, FiniteParts, OutboxAssumption
           DEF CheckCapacity, IsFull, OutboxAssumption
      <4> QED
        BY <4>1, <1>0, <1>1, FiniteParts, OutboxAssumption DEF SlotBound, OutboxAssumption
    <3> QED BY <3>1, <3>2
  <2>2. CASE PickOldest(e)
    <3>1. CASE outbox = {}
      <4>1. Cardinality(outbox') = 0
        BY <2>2, <3>1, FS_EmptySet DEF PickOldest
      <4> QED BY <4>1, <1>0, <1>1, FiniteParts, OutboxAssumption DEF SlotBound, OutboxAssumption
    <3>2. CASE outbox # {}
      <4>1. outbox' = outbox /\ Room' \subseteq Room
        BY <2>2, <3>2, <1>0 DEF PickOldest, Room, TypeOK
      <4> QED BY <4>1, <1>0, NothingAdded
    <3> QED BY <3>1, <3>2
  <2>3. CASE Insert(e)
    <3>1. e \in Room /\ Room' = Room \ {e} /\ outbox' = outbox \cup {eev[e]}
      BY <2>3, <1>0 DEF Insert, EndEnqueue, Room, TypeOK
    <3>2. Cardinality(Room') = Cardinality(Room) - 1
      BY <3>1, <1>0, FiniteParts, FS_RemoveElement
    <3>3. Cardinality(outbox') <= Cardinality(outbox) + 1
      <4>1. Cardinality(outbox \cup {eev[e]}) =
              IF eev[e] \in outbox THEN Cardinality(outbox) ELSE Cardinality(outbox) + 1
        BY <1>0, FiniteParts, FS_AddElement
      <4> QED BY <4>1, <3>1, <1>0, FiniteParts
    <3> QED
      BY <3>2, <3>3, <1>0, <1>1, FiniteParts, OutboxAssumption DEF SlotBound, OutboxAssumption
  <2>4. CASE (\E v \in Events : LogAction(e, v)) \/ EnqueueSkip(e) \/ EnqueueAccept(e)
    <3>1. outbox' = outbox /\ Room' \subseteq Room
      BY <1>0, <2>4 DEF LogAction, EnqueueSkip, EnqueueAccept, EndEnqueue, Room, TypeOK
    <3> QED BY <3>1, <1>0, NothingAdded
  <2>5. CASE DropDelete(e) \/ DropReport(e) \/ DropReportFails(e)
    <3>1. outbox' \subseteq outbox /\ Room' \subseteq Room
      BY <1>0, <2>5 DEF DropDelete, RemoveRow, DropReport, DropReportFails, Room, TypeOK
    <3> QED BY <3>1, <1>0, NothingAdded
  <2>6. CASE EnqueueFails(e)
    <3>1. outbox' = outbox /\ Room' \subseteq Room
      BY <1>0, <2>6 DEF EnqueueFails, EndEnqueue, Room, TypeOK
    <3> QED BY <3>1, <1>0, NothingAdded
  <2> QED BY <1>2, <2>1, <2>2, <2>3, <2>4, <2>5, <2>6 DEF Enqueue
<1>3. CASE DrainStep
  <2>1. outbox' \subseteq outbox /\ epc' = epc
    BY <1>3 DEF DrainStep, DrainBegin, DrainRaises, PurgeReport, PurgeReportFails, PurgeDone,
       SelectDue, Deliver, DeliverFails, DeleteSent, DrainFails, BatchDone, PurgeDelete,
       ItemStart, RemoveRow
  <2> QED BY <2>1, <1>0, NothingAdded DEF Room
<1>4. CASE Crash \/ ToggleForwarding \/ UNCHANGED vars
           \/ \E v \in Events : BackoffElapses(v) \/ GrowsStale(v)
  <2>1. outbox' = outbox /\ Room' \subseteq Room
    BY <1>4 DEF Crash, ToggleForwarding, vars, BackoffElapses, GrowsStale, Room
  <2> QED BY <2>1, <1>0, NothingAdded
<1> QED BY <1>2, <1>3, <1>4 DEF Next

(* Whatever the number of threads that enqueue at once, the queue exceeds   *)
(* retry_max_queue_size by less than that number: try_enqueue_audit's check *)
(* and insert are two statements, and each thread may slip in between.      *)
THEOREM QueueBounded == Spec => []QueueBound
<1>1. Init => SafeHands /\ SlotBound
  <2> SUFFICES ASSUME Init PROVE SlotBound
    BY SafeHandsInit
  <2>1. outbox = {} /\ Room = {}
    BY DEF Init, Room
  <2> QED BY <2>1, FS_EmptySet, FS_CardinalityType, OutboxAssumption DEF SlotBound, OutboxAssumption
<1>2. SafeHands /\ SlotBound /\ [Next]_vars => SafeHands' /\ SlotBound'
  BY SafeHandsStep, SlotBoundStep
<1>3. SafeHands /\ SlotBound => QueueBound
  BY FiniteParts, OutboxAssumption DEF SafeHands, SlotBound, QueueBound, OutboxAssumption
<1> QED BY <1>1, <1>2, <1>3, PTL DEF Spec

-----------------------------------------------------------------------------
(* SiemOutbox implements ForwardQueue: every step of the threads, of the   *)
(* drain and of their environment is a step of a bounded queue that        *)
(* delivers at least once or reports what it drops.                        *)

Entered == {v \in Events : stamp[v] > 0}

(* Where events come from: a row was inserted once, by the one thread that  *)
(* logged its event; what the drain and the evictions handle has been a row.*)
Origins ==
    /\ outbox \subseteq Entered /\ Entered \subseteq wanted
    /\ dlist \subseteq Entered
    /\ dpc \in {"purged", "sending", "sent"} => dcur \in Entered
    /\ \A e \in Enqueuers :
         /\ epc[e] \in {"drop", "report"} => evictim[e] \in Entered
         /\ epc[e] # "idle" => eev[e] \in audited \ Entered
         /\ epc[e] = "audited" => eev[e] \notin wanted
         /\ \A f \in Enqueuers :
              (epc[e] # "idle" /\ epc[f] # "idle" /\ eev[e] = eev[f]) => e = f

Inv == SafeHands /\ SlotBound /\ Origins

(* Nothing has been logged or queued at first.                              *)
LEMMA OriginsInit == Init => Origins
<1> SUFFICES ASSUME Init PROVE Origins
  OBVIOUS
<1>1. Entered = {}
  BY DEF Init, Entered
<1> QED BY <1>1 DEF Init, Origins

(* A step that inserts no row.                                              *)
LEMMA EnteredStill == stamp' = stamp => Entered' = Entered
  BY DEF Entered

(* A thread logs a new event and inserts it once.                           *)
LEMMA EnqueueOrigins ==
  ASSUME SafeHands, Origins, NEW e \in Enqueuers, Enqueue(e) PROVE Origins'
<1> USE OutboxAssumption DEF OutboxAssumption, SafeHands, TypeOK, queueVars, enqVars, drainVars,
        siemVars, history
<1>1. ASSUME NEW v \in Events, LogAction(e, v) PROVE Origins'
  BY <1>1, EnteredStill DEF LogAction, Origins
<1>2. CASE EnqueueSkip(e)
  BY <1>2, EnteredStill DEF EnqueueSkip, EndEnqueue, Origins
<1>3. CASE EnqueueAccept(e)
  BY <1>3, EnteredStill DEF EnqueueAccept, Origins
<1>4. CASE CheckCapacity(e)
  BY <1>4, EnteredStill DEF CheckCapacity, Origins
<1>5. CASE PickOldest(e)
  BY <1>5, EnteredStill DEF PickOldest, Origins
<1>6. CASE DropDelete(e)
  BY <1>6, EnteredStill DEF DropDelete, RemoveRow, Origins
<1>7. CASE DropReport(e)
  BY <1>7, EnteredStill DEF DropReport, Origins
<1>8. CASE DropReportFails(e)
  BY <1>8, EnteredStill DEF DropReportFails, Origins
<1>9. CASE Insert(e)
  <2>1. Entered' = Entered \cup {eev[e]} /\ eev[e] \in wanted
    BY <1>9 DEF Insert, Entered, Custody
  <2> QED BY <1>9, <2>1 DEF Insert, EndEnqueue, Origins
<1>10. CASE EnqueueFails(e)
  BY <1>10, EnteredStill DEF EnqueueFails, EndEnqueue, Origins
<1> QED BY <1>1, <1>2, <1>3, <1>4, <1>5, <1>6, <1>7, <1>8, <1>9, <1>10 DEF Enqueue

(* The drain handles rows only.                                             *)
LEMMA DrainOrigins == ASSUME SafeHands, Origins, DrainStep PROVE Origins'
<1> USE DEF SafeHands, TypeOK, queueVars, enqVars, drainVars, siemVars, history
<1>0. stamp' = stamp /\ epc' = epc /\ eev' = eev /\ evictim' = evictim /\ audited' = audited
      /\ wanted' = wanted
  BY DEF DrainStep, DrainBegin, DrainRaises, PurgeReport, PurgeReportFails, PurgeDone,
     SelectDue, Deliver, DeliverFails, DeleteSent, DrainFails, BatchDone, PurgeDelete, ItemStart
<1>1. CASE DrainBegin \/ DrainRaises \/ PurgeDone \/ SelectDue \/ DrainFails \/ BatchDone
  BY <1>0, <1>1, EnteredStill
     DEF DrainBegin, DrainRaises, PurgeDone, SelectDue, DrainFails, BatchDone, EndDrain, Origins
<1>2. CASE PurgeReport \/ PurgeReportFails
  BY <1>0, <1>2, EnteredStill DEF PurgeReport, PurgeReportFails, Origins
<1>3. CASE Deliver \/ DeliverFails \/ DeleteSent
  BY <1>0, <1>3, EnteredStill
     DEF Deliver, DeliverFails, DeleteSent, RemoveRow, ItemDone, EndDrain, Origins
<1>4. ASSUME NEW v \in Events, PurgeDelete(v) \/ ItemStart(v) PROVE Origins'
  BY <1>0, <1>4, EnteredStill DEF PurgeDelete, ItemStart, RemoveRow, Origins
<1> QED BY <1>1, <1>2, <1>3, <1>4 DEF DrainStep

(* Where events come from is inductive, given the types.                    *)
LEMMA OriginsStep == SafeHands /\ Origins /\ [Next]_vars => Origins'
<1> SUFFICES ASSUME SafeHands, Origins, [Next]_vars PROVE Origins'
  OBVIOUS
<1> USE DEF SafeHands, TypeOK, queueVars, enqVars, drainVars, siemVars, history
<1>1. CASE Crash
  BY <1>1, EnteredStill DEF Crash, EndDrain, Origins
<1>2. CASE ToggleForwarding \/ UNCHANGED vars
           \/ \E v \in Events : BackoffElapses(v) \/ GrowsStale(v)
  BY <1>2, EnteredStill DEF ToggleForwarding, vars, BackoffElapses, GrowsStale, Origins
<1> QED BY <1>1, <1>2, EnqueueOrigins, DrainOrigins DEF Next

(* The three invariants together hold for ever.                             *)
LEMMA InvAlways == Spec => []Inv
<1>1. Init => Inv
  <2> SUFFICES ASSUME Init PROVE SlotBound
    BY SafeHandsInit, OriginsInit DEF Inv
  <2>1. outbox = {} /\ Room = {}
    BY DEF Init, Room
  <2> QED BY <2>1, FS_EmptySet, FS_CardinalityType, OutboxAssumption DEF SlotBound, OutboxAssumption
<1>2. Inv /\ [Next]_vars => Inv'
  BY SafeHandsStep, SlotBoundStep, OriginsStep DEF Inv
<1> QED BY <1>1, <1>2, PTL DEF Spec

-----------------------------------------------------------------------------
(* Whose hands: a step of one thread, or of the drain, moves its own only.  *)

HeldByOthers(e) == DrainHolds \cup UNION {EnqueuerHolds(f) : f \in Enqueuers \ {e}}
HeldByThreads == UNION {EnqueuerHolds(f) : f \in Enqueuers}

(* What is held is held by this thread or by another.                       *)
LEMMA HeldSplit ==
  ASSUME NEW e \in Enqueuers
  PROVE  /\ Held = HeldByOthers(e) \cup EnqueuerHolds(e)
         /\ Held' = HeldByOthers(e)' \cup EnqueuerHolds(e)'
  BY DEF Held, HeldByOthers

(* A thread's step leaves the others' hands alone.                          *)
LEMMA OthersKeep ==
  ASSUME TypeOK, NEW e \in Enqueuers, Enqueue(e)
  PROVE  HeldByOthers(e)' = HeldByOthers(e)
<1>1. dpc' = dpc /\ dcur' = dcur
  BY DEF Enqueue, LogAction, EnqueueSkip, EnqueueAccept, CheckCapacity, PickOldest, DropDelete,
     DropReport, DropReportFails, Insert, EnqueueFails, drainVars
<1>2. \A f \in Enqueuers \ {e} :
        epc'[f] = epc[f] /\ eev'[f] = eev[f] /\ evictim'[f] = evictim[f]
  BY DEF Enqueue, LogAction, EnqueueSkip, EnqueueAccept, CheckCapacity, PickOldest, DropDelete,
     DropReport, DropReportFails, Insert, EnqueueFails, EndEnqueue, TypeOK
<1>3. \A f \in Enqueuers \ {e} : EnqueuerHolds(f)' = EnqueuerHolds(f)
  BY <1>2 DEF EnqueuerHolds
<1> QED BY <1>1, <1>3 DEF HeldByOthers, DrainHolds

(* The event that a thread is about to insert is in no other hands.         *)
LEMMA OthersLackMine ==
  ASSUME Origins, NEW e \in Enqueuers, epc[e] # "idle"
  PROVE  eev[e] \notin HeldByOthers(e)
<1>1. eev[e] \notin DrainHolds
  BY DEF Origins, DrainHolds
<1>2. ASSUME NEW f \in Enqueuers \ {e} PROVE eev[e] \notin EnqueuerHolds(f)
  BY DEF Origins, EnqueuerHolds
<1> QED BY <1>1, <1>2 DEF HeldByOthers

-----------------------------------------------------------------------------
(* Step by step.                                                            *)

Step == [Promised!Next]_(Promised!vars)

(* The variables of ForwardQueue that the threads' reads leave alone.       *)
LEMMA StutterStep ==
  ASSUME UNCHANGED <<wanted, stamp, outbox, sent, dropAudit, lost>>, Held' = Held
  PROVE  Step
  BY DEF Step, Promised!vars

(* A step of try_enqueue_audit.                                             *)
LEMMA EnqueueImplements ==
  ASSUME Inv, Inv', NEW e \in Enqueuers, Enqueue(e) PROVE Step
<1> DEFINE O == HeldByOthers(e)
<1>0. /\ Held = O \cup EnqueuerHolds(e) /\ Held' = O \cup EnqueuerHolds(e)'
      /\ SafeHands /\ TypeOK /\ Origins /\ Custody
  BY HeldSplit, OthersKeep DEF Inv, SafeHands
<1> HIDE DEF O
<1> USE DEF queueVars, drainVars, siemVars, history
<1>1. ASSUME NEW v \in Events, LogAction(e, v) PROVE Step
  <2>1. EnqueuerHolds(e)' = EnqueuerHolds(e)
    BY <1>0, <1>1 DEF LogAction, EnqueuerHolds, TypeOK
  <2> QED BY <1>0, <1>1, <2>1, StutterStep DEF LogAction
<1>2. CASE EnqueueSkip(e)
  <2>1. EnqueuerHolds(e)' = EnqueuerHolds(e)
    BY <1>0, <1>2 DEF EnqueueSkip, EndEnqueue, EnqueuerHolds, TypeOK
  <2> QED BY <1>0, <1>2, <2>1, StutterStep DEF EnqueueSkip
<1>3. CASE EnqueueAccept(e)
  <2>1. EnqueuerHolds(e) = {} /\ EnqueuerHolds(e)' = {eev[e]}
    BY <1>0, <1>3 DEF EnqueueAccept, EnqueuerHolds, TypeOK
  <2>2. eev[e] \in Events /\ eev[e] \notin wanted
    BY <1>0, <1>3 DEF EnqueueAccept, Origins, TypeOK
  <2>3. Promised!Accept(eev[e])
    BY <1>0, <1>3, <2>1, <2>2 DEF EnqueueAccept, Promised!Accept
  <2> QED BY <2>2, <2>3 DEF Step, Promised!Next
<1>4. CASE CheckCapacity(e) \/ PickOldest(e)
  <2>1. EnqueuerHolds(e)' = EnqueuerHolds(e)
    BY <1>0, <1>4 DEF CheckCapacity, PickOldest, EnqueuerHolds, TypeOK
  <2> QED BY <1>0, <1>4, <2>1, StutterStep DEF CheckCapacity, PickOldest
<1>5. CASE DropDelete(e)
  <2>1. EnqueuerHolds(e)' = EnqueuerHolds(e) \cup {evictim[e]}
    BY <1>0, <1>5 DEF DropDelete, EnqueuerHolds, TypeOK
  <2>2. evictim[e] \in Events /\ stamp[evictim[e]] > 0
    BY <1>0, <1>5 DEF DropDelete, Origins, Entered
  <2>3. Promised!Take(evictim[e])
    BY <1>0, <1>5, <2>1, <2>2 DEF DropDelete, RemoveRow, Promised!Take
  <2> QED BY <2>2, <2>3 DEF Step, Promised!Next
<1>6. CASE DropReport(e)
  <2>1. EnqueuerHolds(e) = {eev[e], evictim[e]} /\ EnqueuerHolds(e)' = {eev[e]}
    BY <1>0, <1>6 DEF DropReport, EnqueuerHolds, TypeOK
  <2>2. evictim[e] \in Events /\ stamp[evictim[e]] > 0 /\ eev[e] # evictim[e]
    BY <1>0, <1>6 DEF DropReport, Origins, Entered
  <2>3. Held' \in {Held, Held \ {evictim[e]}}
    BY <1>0, <2>1, <2>2
  <2>4. Promised!Report(evictim[e])
    BY <1>0, <1>6, <2>1, <2>2, <2>3 DEF DropReport, Promised!Report
  <2> QED BY <2>2, <2>4 DEF Step, Promised!Next
<1>7. CASE DropReportFails(e)
  <2>1. EnqueuerHolds(e) = {eev[e], evictim[e]} /\ EnqueuerHolds(e)' = {eev[e]}
    BY <1>0, <1>7 DEF DropReportFails, EnqueuerHolds, TypeOK
  <2>2. {evictim[e]} \in SUBSET Events
    BY <1>0, <1>7 DEF DropReportFails, Origins, Entered
  <2>3. Promised!Lose({evictim[e]})
    BY <1>0, <1>7, <2>1 DEF DropReportFails, Promised!Lose
  <2> QED BY <2>2, <2>3 DEF Step, Promised!Next
<1>8. CASE Insert(e)
  <2>1. EnqueuerHolds(e) = {eev[e]} /\ EnqueuerHolds(e)' = {}
    BY <1>0, <1>8 DEF Insert, EndEnqueue, EnqueuerHolds, TypeOK
  <2>2. eev[e] \in Events /\ ~(stamp[eev[e]] > 0) /\ eev[e] \notin O
    BY <1>0, <1>8, OthersLackMine DEF Insert, Origins, Entered, TypeOK, O
  <2>3. {v \in Events : stamp'[v] > 0} = {v \in Events : stamp[v] > 0} \cup {eev[e]}
    BY <1>0, <1>8, <2>2 DEF Insert, TypeOK
  <2>4. Cardinality(outbox) < Capacity + Cardinality(Enqueuers) - 1
    <3>1. e \in Room
      BY <1>8 DEF Insert, Room
    <3>2. Cardinality(Room) # 0
      BY <3>1, <1>0, FiniteParts, FS_EmptySet
    <3> QED
      BY <3>2, <1>0, FiniteParts, OutboxAssumption DEF Inv, SlotBound, OutboxAssumption
  <2>5. Held' = Held \ {eev[e]} /\ eev[e] \in Held
    BY <1>0, <2>1, <2>2
  <2>6. Promised!Cardinality(outbox) = Cardinality(outbox)
    BY Zenon DEF Cardinality, Promised!Cardinality
  <2>7. PICK u \in Events : u = eev[e]
    BY <2>2
  <2>8. Promised!Put(u)
    BY <1>8, <2>2, <2>3, <2>4, <2>5, <2>6, <2>7 DEF Insert, Promised!Put
  <2> QED BY <2>8 DEF Step, Promised!Next
<1>9. CASE EnqueueFails(e)
  <2>1. EnqueuerHolds(e)' = {} /\ EnqueuerHolds(e) \in SUBSET Events
    BY <1>0, <1>9 DEF EnqueueFails, EndEnqueue, EnqueuerHolds, Origins, TypeOK
  <2>2. Promised!Lose(EnqueuerHolds(e))
    BY <1>0, <1>9, <2>1 DEF EnqueueFails, Promised!Lose
  <2> QED BY <2>1, <2>2 DEF Step, Promised!Next
<1> QED BY <1>1, <1>2, <1>3, <1>4, <1>5, <1>6, <1>7, <1>8, <1>9 DEF Enqueue

(* A step of process_outbox_once.                                           *)
LEMMA DrainImplements ==
  ASSUME Inv, Inv', DrainStep PROVE Step
<1>0. /\ SafeHands /\ TypeOK /\ Origins /\ Custody
      /\ Held = DrainHolds \cup HeldByThreads /\ Held' = DrainHolds' \cup HeldByThreads
  <2>1. enqVars' = enqVars
    BY DEF DrainStep, DrainBegin, DrainRaises, PurgeReport, PurgeReportFails, PurgeDone,
       SelectDue, Deliver, DeliverFails, DeleteSent, DrainFails, BatchDone, PurgeDelete, ItemStart
  <2>2. HeldByThreads' = HeldByThreads
    BY <2>1 DEF HeldByThreads, EnqueuerHolds, enqVars
  <2> QED BY <2>2 DEF Inv, SafeHands, Held, HeldByThreads
<1> USE DEF queueVars, siemVars, history
<1>1. CASE DrainBegin \/ DrainRaises \/ PurgeDone \/ SelectDue \/ DrainFails \/ BatchDone
           \/ DeliverFails \/ \E v \in Events : ItemStart(v)
  <2>1. DrainHolds' = DrainHolds
    BY <1>0, <1>1 DEF DrainBegin, DrainRaises, PurgeDone, SelectDue, DrainFails, BatchDone,
       DeliverFails, ItemStart, ItemDone, EndDrain, DrainHolds
  <2> QED BY <1>0, <1>1, <2>1, StutterStep
          DEF DrainBegin, DrainRaises, PurgeDone, SelectDue, DrainFails, BatchDone,
              DeliverFails, ItemStart
<1>2. ASSUME NEW v \in Events, PurgeDelete(v) PROVE Step
  <2>1. DrainHolds = {} /\ DrainHolds' = {v} /\ stamp[v] > 0
    BY <1>0, <1>2 DEF PurgeDelete, DrainHolds, Origins, Entered
  <2>2. Promised!Take(v)
    BY <1>0, <1>2, <2>1 DEF PurgeDelete, RemoveRow, Promised!Take
  <2> QED BY <2>2 DEF Step, Promised!Next
<1>3. CASE PurgeReport
  <2>1. DrainHolds = {dcur} /\ DrainHolds' = {} /\ dcur \in Events /\ stamp[dcur] > 0
    BY <1>0, <1>3 DEF PurgeReport, DrainHolds, Origins, Entered
  <2>2. Held' \in {Held, Held \ {dcur}}
    BY <1>0, <2>1
  <2>3. Promised!Report(dcur)
    BY <1>0, <1>3, <2>1, <2>2 DEF PurgeReport, Promised!Report
  <2> QED BY <2>1, <2>3 DEF Step, Promised!Next
<1>4. CASE PurgeReportFails
  <2>1. DrainHolds = {dcur} /\ DrainHolds' = {} /\ {dcur} \in SUBSET Events
    BY <1>0, <1>4 DEF PurgeReportFails, DrainHolds, Origins, Entered
  <2>2. Promised!Lose({dcur})
    BY <1>0, <1>4, <2>1 DEF PurgeReportFails, Promised!Lose
  <2> QED BY <2>1, <2>2 DEF Step, Promised!Next
<1>5. CASE Deliver
  <2>1. DrainHolds' = DrainHolds
    BY <1>5 DEF Deliver, DrainHolds
  <2>2. PICK v \in Events : v = dcur /\ stamp[v] > 0
    BY <1>0, <1>5 DEF Deliver, Origins, Entered
  <2>3. {u \in Events : sent'[u] > 0} = {u \in Events : sent[u] > 0} \cup {v}
    BY <1>0, <1>5, <2>2 DEF Deliver, TypeOK
  <2>4. Promised!Deliver(v)
    BY <1>0, <1>5, <2>1, <2>2, <2>3 DEF Deliver, Promised!Deliver
  <2> QED BY <2>4 DEF Step, Promised!Next
<1>6. CASE DeleteSent
  <2>1. DrainHolds' = DrainHolds
    BY <1>6 DEF DeleteSent, ItemDone, DrainHolds
  <2>2. dcur \in Events /\ sent[dcur] > 0
    BY <1>0, <1>6 DEF DeleteSent, Custody, Origins, Entered
  <2>3. Promised!Settle(dcur)
    BY <1>0, <1>6, <2>1, <2>2 DEF DeleteSent, RemoveRow, Promised!Settle
  <2> QED BY <2>2, <2>3 DEF Step, Promised!Next
<1> QED BY <1>1, <1>2, <1>3, <1>4, <1>5, <1>6 DEF DrainStep

(* The clock, the switch and a crash.                                       *)
LEMMA OutsideImplements ==
  ASSUME Inv, ToggleForwarding \/ Crash \/ UNCHANGED vars
                 \/ \E v \in Events : BackoffElapses(v) \/ GrowsStale(v)
  PROVE  Step
<1>0. TypeOK /\ Custody
  BY DEF Inv, SafeHands
<1> USE DEF queueVars, siemVars, history
<1>1. CASE Crash
  <2>1. Held' = {}
    BY <1>1 DEF Crash, EndDrain, Held, DrainHolds, EnqueuerHolds
  <2>2. Held \in SUBSET Events
    BY <1>0 DEF Held, DrainHolds, EnqueuerHolds, Custody, TypeOK
  <2>3. Promised!Lose(Held)
    BY <1>1, <2>1 DEF Crash, Promised!Lose
  <2> QED BY <2>2, <2>3 DEF Step, Promised!Next
<1>2. CASE ToggleForwarding \/ UNCHANGED vars
           \/ \E v \in Events : BackoffElapses(v) \/ GrowsStale(v)
  <2>1. Held' = Held
    BY <1>2 DEF ToggleForwarding, vars, BackoffElapses, GrowsStale, enqVars, drainVars,
       Held, DrainHolds, EnqueuerHolds
  <2> QED BY <1>2, <2>1, StutterStep
          DEF ToggleForwarding, vars, BackoffElapses, GrowsStale
<1> QED BY <1>1, <1>2

(* The outbox, its enqueuing threads and its drain together are a bounded   *)
(* queue that delivers every accepted event at least once or says that it   *)
(* did not: for any number of events, threads and faults.                   *)
THEOREM OutboxImplementsQueue == Spec => ImplementsForwardQueue
<1>1. Init => Promised!Init
  BY DEF Init, Promised!Init, Held, DrainHolds, EnqueuerHolds
<1>2. Inv /\ Inv' /\ [Next]_vars => [Promised!Next]_(Promised!vars)
  BY EnqueueImplements, DrainImplements, OutsideImplements DEF Next, Step
<1> QED BY <1>1, <1>2, InvAlways, PTL DEF Spec, ImplementsForwardQueue, Promised!Spec

(* The promise itself: whatever implements this queue can say of every      *)
(* event it has accepted (try_enqueue_audit) where it is, or what became of *)
(* it.                                                                      *)
THEOREM QueueTraceable == Promised!Spec => []Promised!Traceable
<1>1. Promised!Init => Promised!Traceable
  BY DEF Promised!Init, Promised!Traceable
<1>2. Promised!Traceable /\ [Promised!Next]_(Promised!vars) => Promised!Traceable'
  BY DEF Promised!Traceable, Promised!Next, Promised!vars, Promised!Accept, Promised!Put,
         Promised!Take, Promised!Deliver, Promised!Settle, Promised!Report, Promised!Lose
<1> QED BY <1>1, <1>2, PTL DEF Promised!Spec

-----------------------------------------------------------------------------
(* Nothing is delivered twice.                                              *)

(* An event is in one place at a time: with the thread that audited it,     *)
(* among the rows that are queued or in the drain's list and still to send, *)
(* or sent, and then neither queued nor listed but for the row in hand.     *)
OnePlace ==
    /\ \A e \in Enqueuers : epc[e] # "idle" =>
          /\ eev[e] \in audited /\ eev[e] \notin outbox \cup dlist /\ sent[eev[e]] = 0
          /\ \A f \in Enqueuers : epc[f] # "idle" /\ eev[f] = eev[e] => f = e
    /\ dpc \in {"sending", "sent"} => dcur \in dlist
    /\ \A v \in Events : sent[v] > 0 =>
          /\ sent[v] = 1 /\ v \in audited
          /\ v \in outbox \cup dlist => dpc = "sent" /\ dcur = v

LEMMA EnqueueOnce ==
    ASSUME SafeHands, SafeHands', OnePlace, NEW e \in Enqueuers, Enqueue(e), faults' = 0
    PROVE  OnePlace'
<1> USE OutboxAssumption DEF OutboxAssumption, SafeHands, TypeOK, queueVars, drainVars, siemVars,
        history, OnePlace
<1>1. ASSUME NEW v \in Events, LogAction(e, v) PROVE OnePlace'
  BY <1>1 DEF LogAction
<1>2. CASE EnqueueSkip(e)
  BY <1>2 DEF EnqueueSkip, EndEnqueue
<1>3. CASE EnqueueAccept(e)
  BY <1>3 DEF EnqueueAccept
<1>4. CASE CheckCapacity(e)
  BY <1>4 DEF CheckCapacity
<1>5. CASE PickOldest(e)
  BY <1>5 DEF PickOldest
<1>6. CASE DropDelete(e)
  BY <1>6 DEF DropDelete, RemoveRow
<1>7. CASE DropReport(e)
  BY <1>7 DEF DropReport
<1>8. CASE Insert(e)
  BY <1>8 DEF Insert, EndEnqueue
<1>9. ~DropReportFails(e) /\ ~EnqueueFails(e)
  BY DEF DropReportFails, EnqueueFails
<1> QED BY <1>1, <1>2, <1>3, <1>4, <1>5, <1>6, <1>7, <1>8, <1>9 DEF Enqueue

LEMMA DrainOnce ==
    ASSUME SafeHands, SafeHands', OnePlace, DrainStep, faults' = 0
    PROVE  OnePlace'
<1> USE OutboxAssumption DEF OutboxAssumption, SafeHands, TypeOK, queueVars, enqVars, siemVars,
        history, OnePlace
<1>1. CASE DrainBegin \/ DrainRaises
  BY <1>1 DEF DrainBegin, DrainRaises, EndDrain
<1>2. CASE PurgeReport \/ PurgeDone
  BY <1>2 DEF PurgeReport, PurgeDone
<1>3. CASE SelectDue
  BY <1>3 DEF SelectDue
<1>4. CASE Deliver
  BY <1>4 DEF Deliver, Custody
<1>5. CASE DeliverFails
  BY <1>5 DEF DeliverFails, ItemDone, EndDrain
<1>6. CASE DeleteSent
  BY <1>6 DEF DeleteSent, RemoveRow, ItemDone
<1>7. CASE BatchDone
  BY <1>7 DEF BatchDone, EndDrain
<1>8. ASSUME NEW u \in Events, PurgeDelete(u) \/ ItemStart(u) PROVE OnePlace'
  BY <1>8 DEF PurgeDelete, ItemStart, RemoveRow
<1>9. ~PurgeReportFails /\ ~DrainFails
  BY DEF PurgeReportFails, DrainFails
<1> QED BY <1>1, <1>2, <1>3, <1>4, <1>5, <1>6, <1>7, <1>8, <1>9 DEF DrainStep

Once == faults = 0 => OnePlace

LEMMA OnceStep == SafeHands /\ SafeHands' /\ Once /\ [Next]_vars => Once'
<1> SUFFICES ASSUME SafeHands, SafeHands', Once, [Next]_vars, faults' = 0 PROVE OnePlace'
  BY DEF Once
<1>1. faults = 0 /\ OnePlace
  <2>1. faults \in Nat /\ faults' \in Nat
    BY OutboxAssumption DEF OutboxAssumption, SafeHands, TypeOK
  <2>2. faults' = faults \/ faults' = faults + 1
    BY DEF Next, Enqueue, DrainStep, LogAction, EnqueueSkip, EnqueueAccept, CheckCapacity,
       PickOldest, DropDelete, DropReport, DropReportFails, Insert, EnqueueFails, DrainBegin,
       DrainRaises, PurgeReport, PurgeReportFails, PurgeDone, SelectDue, Deliver, DeliverFails,
       DeleteSent, DrainFails, BatchDone, PurgeDelete, ItemStart, BackoffElapses, GrowsStale,
       ToggleForwarding, Crash, vars, history
  <2> QED BY <2>1, <2>2 DEF Once
<1>2. CASE ToggleForwarding \/ Crash \/ UNCHANGED vars
           \/ \E u \in Events : BackoffElapses(u) \/ GrowsStale(u)
  BY <1>1, <1>2 DEF ToggleForwarding, Crash, BackoffElapses, GrowsStale, vars, queueVars, enqVars,
     drainVars, siemVars, history, OnePlace, SafeHands, TypeOK
<1> QED BY <1>1, <1>2, EnqueueOnce, DrainOnce DEF Next

(* Without a crash or a failed commit no event reaches the SIEM twice,      *)
(* though threads drop rows that the drain is about to send, and forwarding *)
(* is switched on and off.                                                  *)
THEOREM DeliveredOnce == Spec => []NoDuplicate
<1>1. Init => Once
  BY OutboxAssumption DEF OutboxAssumption, Init, Once, OnePlace
<1>2. SafeHands /\ Once => NoDuplicate
  BY OutboxAssumption DEF OutboxAssumption, SafeHands, TypeOK, Once, OnePlace, NoDuplicate
<1> QED BY <1>1, <1>2, SafeHandsInit, SafeHandsStep, OnceStep, PTL DEF Spec
=============================================================================
