----------------------------- MODULE Gates_proofs -----------------------------
(***************************************************************************)
(* What is proved of the two gates that a request passes: the ban engine   *)
(* and the inventory of ActiveSync devices.                                *)
(*                                                                         *)
(* The ban engine, for any rules, threads, requests, addresses and         *)
(* clients.  First the concurrency counter of the request pre-check: it is *)
(* exact, and the limit is exceeded by less than the number of pre-check   *)
(* threads, whatever counters and bans are.  Then the types, and what a    *)
(* ban rests on: failures since the last unblock, or earlier bans that     *)
(* have ended.                                                             *)
(*                                                                         *)
(* The devices, for any mailboxes, threads, decisions, rows and faults:    *)
(* the types, and that an administrator's lock stops every request that    *)
(* comes after it, although twins are merged by what threads have loaded.  *)
(***************************************************************************)
EXTENDS BanEngine, Devices, FiniteSetTheorems, WellFoundedInduction, TLAPS

Stages == {"idle", "gated", "hammered", "counted", "admitted", "running", "untracked"}

(* A request whose thread is banning is refused when that is done.          *)
GateTypes ==
    /\ rpc \in [Requests -> Stages]
    /\ rwho \in [Requests -> Clients]
    /\ conc \in [Ips -> Nat]
    /\ pend = [x \in Threads |-> pend[x]]
    /\ \A q \in Requests : pend[q] # NoJob => rpc[q] = "idle"

(* Requests under the limit that are counted in or may still be.            *)
Pressing(i) ==
    {q \in Requests : /\ rpc[q] \in {"gated", "hammered", "counted", "admitted", "running"}
                      /\ rwho[q].ip = i /\ ~Listed(rwho[q])}

PressingBound ==
    ConcurrentLimit > 0 =>
        \A i \in Ips : Cardinality(Pressing(i)) + 1 <= ConcurrentLimit + PoolSize

GateInv ==
    /\ GateTypes
    /\ CounterExact
    /\ Cardinality(InPreCheck) <= PoolSize
    /\ PressingBound

(* The sets that are counted are finite.                                    *)
LEMMA FiniteRequests ==
    /\ \A S \in SUBSET Requests : IsFiniteSet(S) /\ Cardinality(S) \in Nat
    /\ \A S, T \in SUBSET Requests : S \subseteq T => Cardinality(S) <= Cardinality(T)
<1>1. IsFiniteSet(Requests)
  BY BanAssumption
<1>2. \A S \in SUBSET Requests : IsFiniteSet(S)
  BY <1>1, FS_Subset
<1>3. QED
  BY <1>2, FS_CardinalityType, FS_Subset

LEMMA LimitsAreNumbers == ConcurrentLimit \in Nat /\ PoolSize \in Nat
  BY BanAssumption

LEMMA ThreadsAre == /\ Requests \subseteq Threads /\ Banners \subseteq Threads
                     /\ Sensor \in Threads \ Requests /\ \A b \in Banners : b \notin Requests
  BY BanAssumption DEF Threads

LEMMA ClientAddress == \A c \in Clients : c.ip \in Ips
  BY BanAssumption

LEMMA GateInvInit == BanInit => GateInv
<1> SUFFICES ASSUME BanInit PROVE GateInv
  OBVIOUS
<1>1. GateTypes
  BY ThreadsAre DEF BanInit, GateTypes, Stages, NoJob
<1>2. /\ InPreCheck = {} /\ \A i \in Ips : Running(i) = {} /\ Pressing(i) = {}
  BY ThreadsAre DEF BanInit, InPreCheck, Running, Pressing, NoJob
<1>3. Cardinality({}) = 0
  BY FS_EmptySet
<1>4. CounterExact
  BY <1>2, <1>3 DEF BanInit, CounterExact
<1>5. PressingBound /\ Cardinality(InPreCheck) <= PoolSize
  <2>1. Cardinality(InPreCheck) <= PoolSize
    BY <1>2, <1>3, LimitsAreNumbers
  <2>2. PressingBound
    BY <1>2, <1>3, LimitsAreNumbers DEF PressingBound
  <2>3. QED
    BY <2>1, <2>2
<1>6. QED
  BY <1>1, <1>4, <1>5 DEF GateInv

(* A step that takes requests out of the pre-check, or moves them within    *)
(* it, and counts none in or out.                                           *)
LEMMA NoneAdded ==
    ASSUME GateInv, GateTypes', conc' = conc,
           InPreCheck' \subseteq InPreCheck,
           \A i \in Ips : Running(i)' = Running(i) /\ Pressing(i)' \subseteq Pressing(i)
    PROVE  GateInv'
<1>1. CounterExact'
  BY DEF GateInv, CounterExact
<1>2. InPreCheck \in SUBSET Requests /\ InPreCheck' \in SUBSET Requests
  BY DEF InPreCheck
<1>3. Cardinality(InPreCheck') <= PoolSize
  <2>1. Cardinality(InPreCheck') <= Cardinality(InPreCheck)
    BY <1>2, FiniteRequests
  <2>2. Cardinality(InPreCheck) \in Nat /\ Cardinality(InPreCheck') \in Nat
    BY <1>2, FiniteRequests
  <2>3. QED
    BY <2>1, <2>2, LimitsAreNumbers DEF GateInv
<1>4. PressingBound'
  <2> SUFFICES ASSUME ConcurrentLimit > 0, NEW i \in Ips
               PROVE  Cardinality(Pressing(i)') + 1 <= ConcurrentLimit + PoolSize
    BY DEF PressingBound
  <2>1. Pressing(i) \in SUBSET Requests /\ Pressing(i)' \in SUBSET Requests
    BY DEF Pressing
  <2>2. Cardinality(Pressing(i)') <= Cardinality(Pressing(i))
    BY <2>1, FiniteRequests
  <2>3. Cardinality(Pressing(i)) \in Nat /\ Cardinality(Pressing(i)') \in Nat
    BY <2>1, FiniteRequests
  <2>4. QED
    BY <2>2, <2>3, LimitsAreNumbers DEF GateInv, PressingBound
<1>5. QED
  BY <1>1, <1>3, <1>4 DEF GateInv

(* A request enters: a place is free in the pool, and its address is under  *)
(* the limit unless its account is allowlisted.                             *)
LEMMA GateKeepsBound ==
    ASSUME GateInv, NEW q \in Requests, NEW c \in Clients, Gate(q, c) \/ PassUnchecked(q, c)
    PROVE  GateInv'
<1>1. /\ rpc[q] = "idle" /\ pend[q] = NoJob /\ Cardinality(InPreCheck) < PoolSize
      /\ pend' = pend
  BY DEF Gate, PassUnchecked, Picked, banVars
<1>2. PICK s \in {"gated", "admitted"} : rpc' = [rpc EXCEPT ![q] = s]
  BY DEF Gate, PassUnchecked
<1>3. rwho' = [rwho EXCEPT ![q] = c] /\ conc' = conc
  BY DEF Gate, PassUnchecked
<1>4. ~Listed(c) => ~OverLimit(c.ip)
  BY DEF Gate, PassUnchecked
<1>5. GateTypes'
  BY <1>1, <1>2, <1>3 DEF GateInv, GateTypes, Stages
<1>6. InPreCheck' = InPreCheck \cup {q} /\ q \notin InPreCheck
  BY <1>1, <1>2 DEF GateInv, GateTypes, InPreCheck
<1>7. InPreCheck \in SUBSET Requests /\ InPreCheck' \in SUBSET Requests
  BY DEF InPreCheck
<1>8. Cardinality(InPreCheck') <= PoolSize
  <2>1. Cardinality(InPreCheck') = Cardinality(InPreCheck) + 1
    BY <1>6, <1>7, FiniteRequests, FS_AddElement
  <2>2. Cardinality(InPreCheck) \in Nat
    BY <1>7, FiniteRequests
  <2>3. QED
    BY <1>1, <2>1, <2>2, LimitsAreNumbers
<1>9. \A i \in Ips : Running(i)' = Running(i)
  BY <1>1, <1>2, <1>3 DEF GateInv, GateTypes, Running
<1>10. CounterExact'
  BY <1>3, <1>9 DEF GateInv, CounterExact
<1>11. PressingBound'
  <2> SUFFICES ASSUME ConcurrentLimit > 0, NEW i \in Ips
               PROVE  Cardinality(Pressing(i)') + 1 <= ConcurrentLimit + PoolSize
    BY DEF PressingBound
  <2>1. /\ Pressing(i) \in SUBSET Requests /\ Pressing(i)' \in SUBSET Requests
        /\ Running(i) \in SUBSET Requests
    BY DEF Pressing, Running
  <2>2. CASE Listed(c) \/ c.ip # i
    <3>1. Pressing(i)' = Pressing(i)
      BY <1>1, <1>2, <1>3, <2>2 DEF GateInv, GateTypes, Pressing, Listed
    <3>2. QED
      BY <3>1 DEF GateInv, PressingBound
  <2>3. CASE ~Listed(c) /\ c.ip = i
    <3>1. Pressing(i)' \subseteq Running(i) \cup InPreCheck'
      BY <1>1, <1>2, <1>3 DEF GateInv, GateTypes, Pressing, Running, InPreCheck, Listed
    <3>2. Cardinality(Running(i) \cup InPreCheck')
            <= Cardinality(Running(i)) + Cardinality(InPreCheck')
      <4>1. IsFiniteSet(Running(i)) /\ IsFiniteSet(InPreCheck')
        BY <1>7, <2>1, FiniteRequests
      <4>2. /\ Cardinality(Running(i) \cup InPreCheck') =
                 Cardinality(Running(i)) + Cardinality(InPreCheck')
                   - Cardinality(Running(i) \cap InPreCheck')
        BY <4>1, FS_Union
      <4>3. /\ Cardinality(Running(i)) \in Nat /\ Cardinality(InPreCheck') \in Nat
            /\ Cardinality(Running(i) \cap InPreCheck') \in Nat
        BY <1>7, <2>1, FiniteRequests
      <4>4. QED
        BY <4>2, <4>3
    <3>3. Cardinality(Pressing(i)') <= Cardinality(Running(i) \cup InPreCheck')
      BY <1>7, <2>1, <3>1, FiniteRequests
    <3>4. Cardinality(Running(i)) + 1 <= ConcurrentLimit
      <4>1. conc[i] = Cardinality(Running(i)) /\ conc[i] \in Nat
        BY DEF GateInv, GateTypes, CounterExact
      <4>2. ~(conc[i] >= ConcurrentLimit)
        BY <1>4, <2>3 DEF OverLimit
      <4>3. QED
        BY <4>1, <4>2, LimitsAreNumbers
    <3>5. /\ Cardinality(Running(i)) \in Nat /\ Cardinality(InPreCheck') \in Nat
          /\ Cardinality(Pressing(i)') \in Nat
          /\ Cardinality(Running(i) \cup InPreCheck') \in Nat
      BY <1>7, <2>1, FiniteRequests
    <3>6. QED
      BY <1>8, <3>2, <3>3, <3>4, <3>5, LimitsAreNumbers
  <2>4. QED
    BY <2>2, <2>3
<1>12. QED
  BY <1>5, <1>8, <1>10, <1>11 DEF GateInv

(* The pre-check goes on, ends in a refusal, begins to ban, or raises.      *)
LEMMA PreCheckKeepsBound ==
    ASSUME GateInv, NEW q \in Requests,
           RecordSensitive(q) \/ RecordLogin(q) \/ Throttle(q) \/ PreCheckFails(q)
    PROVE  GateInv'
<1>1. conc' = conc /\ rwho' = rwho
  BY DEF RecordSensitive, RecordLogin, Throttle, PreCheckFails
<1>2. /\ rpc[q] \in {"gated", "hammered", "counted"} \/ pend[q] # NoJob
      /\ pend[q] # NoJob => rpc[q] = "idle"
  BY DEF RecordSensitive, RecordLogin, Throttle, PreCheckFails, GateInv, GateTypes
<1>3. PICK s \in {"hammered", "counted", "admitted", "idle", "untracked"} :
         /\ rpc' = [rpc EXCEPT ![q] = s]
         /\ s \in {"idle", "untracked"} \/ rpc[q] \in {"gated", "hammered", "counted"}
         /\ \/ pend' = pend /\ pend[q] = NoJob
            \/ s = "idle" /\ \E S : pend' = [pend EXCEPT ![q] = S]
            \/ pend' = [pend EXCEPT ![q] = NoJob]
  <2>1. CASE RecordSensitive(q)
    <3>1. rpc[q] = "gated" /\ pend[q] = NoJob
      BY <1>2, <2>1 DEF RecordSensitive
    <3>2. \/ rpc' = [rpc EXCEPT ![q] = "counted"] /\ pend' = pend
          \/ rpc' = [rpc EXCEPT ![q] = "hammered"] /\ pend' = pend
          \/ /\ rpc' = [rpc EXCEPT ![q] = "idle"]
             /\ pend' = [pend EXCEPT ![q] = {ToBan(rwho[q].ip, "hammer", {}, "earned")}]
      BY <2>1 DEF RecordSensitive
    <3> QED BY <3>1, <3>2
  <2>2. CASE RecordLogin(q)
    <3>1. rpc[q] = "hammered" /\ pend[q] = NoJob
      BY <1>2, <2>2 DEF RecordLogin
    <3>2. \/ rpc' = [rpc EXCEPT ![q] = "counted"] /\ pend' = pend
          \/ /\ rpc' = [rpc EXCEPT ![q] = "idle"]
             /\ pend' = [pend EXCEPT ![q] = {ToBan(rwho[q].ip, "hammer_login", {}, "earned")}]
      BY <2>2 DEF RecordLogin
    <3> QED BY <3>1, <3>2
  <2>3. CASE Throttle(q)
    BY <1>2, <2>3 DEF Throttle, banVars
  <2>4. CASE PreCheckFails(q)
    BY <2>4 DEF PreCheckFails
  <2>5. QED
    BY <2>1, <2>2, <2>3, <2>4
<1>4. q \in Threads
  BY ThreadsAre
<1>5. /\ \A x \in Threads \ {q} : pend'[x] = pend[x]
      /\ pend' = [x \in Threads |-> pend'[x]]
      /\ s # "idle" => pend'[q] = NoJob
  BY <1>3, <1>4 DEF GateInv, GateTypes
<1>6. GateTypes'
  BY <1>1, <1>3, <1>5, ThreadsAre DEF GateInv, GateTypes, Stages
<1>7. InPreCheck' \subseteq InPreCheck
  BY <1>2, <1>3, <1>5, ThreadsAre DEF GateInv, GateTypes, InPreCheck
<1>8. \A i \in Ips : Running(i)' = Running(i) /\ Pressing(i)' \subseteq Pressing(i)
  BY <1>1, <1>2, <1>3 DEF GateInv, GateTypes, Running, Pressing, Listed
<1>9. QED
  BY <1>1, <1>6, <1>7, <1>8, NoneAdded

(* A request is counted in: it moves from the pre-check to the running ones.*)
LEMMA BeginKeepsBound ==
    ASSUME GateInv, NEW q \in Requests, begin_concurrent(q)
    PROVE  GateInv'
<1> DEFINE a == rwho[q].ip
<1>1. /\ rpc[q] = "admitted" /\ rpc' = [rpc EXCEPT ![q] = "running"] /\ rwho' = rwho
      /\ conc' = [conc EXCEPT ![a] = @ + 1] /\ pend' = pend
  BY DEF begin_concurrent, banVars
<1>2. a \in Ips
  BY ClientAddress DEF GateInv, GateTypes
<1>3. GateTypes'
  BY <1>1, <1>2 DEF GateInv, GateTypes, Stages
<1>4. InPreCheck' \subseteq InPreCheck
  BY <1>1 DEF GateInv, GateTypes, InPreCheck
<1>5. \A i \in Ips : Pressing(i)' = Pressing(i)
  BY <1>1 DEF GateInv, GateTypes, Pressing, Listed
<1>6. CounterExact'
  <2> SUFFICES ASSUME NEW i \in Ips PROVE conc'[i] = Cardinality(Running(i)')
    BY DEF CounterExact
  <2>1. conc[i] = Cardinality(Running(i))
    BY DEF GateInv, CounterExact
  <2>2. CASE i # a
    <3>1. Running(i)' = Running(i)
      BY <1>1, <2>2 DEF GateInv, GateTypes, Running
    <3>2. QED
      BY <1>1, <2>1, <2>2, <3>1 DEF GateInv, GateTypes
  <2>3. CASE i = a
    <3>1. Running(i)' = Running(i) \cup {q} /\ q \notin Running(i)
      BY <1>1, <2>3 DEF GateInv, GateTypes, Running
    <3>2. Running(i) \in SUBSET Requests
      BY DEF Running
    <3>3. Cardinality(Running(i)') = Cardinality(Running(i)) + 1
      BY <3>1, <3>2, FiniteRequests, FS_AddElement
    <3>4. conc'[i] = conc[i] + 1
      BY <1>1, <2>3 DEF GateInv, GateTypes
    <3>5. QED
      BY <2>1, <3>3, <3>4
  <2>4. QED
    BY <2>2, <2>3
<1>7. InPreCheck \in SUBSET Requests /\ InPreCheck' \in SUBSET Requests
  BY DEF InPreCheck
<1>8. Cardinality(InPreCheck') <= PoolSize
  <2>1. Cardinality(InPreCheck') <= Cardinality(InPreCheck)
    BY <1>4, <1>7, FiniteRequests
  <2>2. Cardinality(InPreCheck) \in Nat /\ Cardinality(InPreCheck') \in Nat
    BY <1>7, FiniteRequests
  <2>3. QED
    BY <2>1, <2>2, LimitsAreNumbers DEF GateInv
<1>9. PressingBound'
  BY <1>5 DEF GateInv, PressingBound
<1>10. QED
  BY <1>3, <1>6, <1>8, <1>9 DEF GateInv

(* A request is over: it leaves the running ones if it was among them.      *)
LEMMA EndKeepsBound ==
    ASSUME GateInv, NEW q \in Requests, end_concurrent(q)
    PROVE  GateInv'
<1>2. PICK a \in Ips : a = rwho[q].ip
  BY ClientAddress DEF GateInv, GateTypes
<1>1. /\ rpc[q] \in {"running", "untracked"} /\ rpc' = [rpc EXCEPT ![q] = "idle"]
      /\ rwho' = rwho /\ pend' = pend
  BY DEF end_concurrent, banVars
<1>3. InPreCheck' \subseteq InPreCheck
  BY <1>1 DEF GateInv, GateTypes, InPreCheck
<1>4. \A i \in Ips : Pressing(i)' \subseteq Pressing(i)
  BY <1>1 DEF GateInv, GateTypes, Pressing, Listed
<1>5. CASE rpc[q] = "untracked"
  <2>1. conc' = conc
    BY <1>5 DEF end_concurrent
  <2>2. GateTypes'
    BY <1>1, <2>1 DEF GateInv, GateTypes, Stages
  <2>3. \A i \in Ips : Running(i)' = Running(i)
    BY <1>1, <1>5 DEF GateInv, GateTypes, Running
  <2>4. QED
    BY <1>3, <1>4, <2>1, <2>2, <2>3, NoneAdded
<1>6. CASE rpc[q] = "running"
  <2>1. /\ q \in Running(a) /\ Running(a) \in SUBSET Requests
        /\ Cardinality(Running(a)) \in Nat /\ conc[a] = Cardinality(Running(a))
    BY <1>2, <1>6, FiniteRequests DEF GateInv, CounterExact, Running
  <2>2. /\ Running(a)' = Running(a) \ {q}
        /\ \A i \in Ips : i # a => Running(i)' = Running(i)
    BY <1>1, <1>2, <1>6 DEF GateInv, GateTypes, Running
  <2>3. /\ Cardinality(Running(a)') = Cardinality(Running(a)) - 1
        /\ Cardinality(Running(a)') \in Nat
    <3>1. Cardinality(Running(a)') = Cardinality(Running(a)) - 1
      BY <2>1, <2>2, FiniteRequests, FS_RemoveElement
    <3>2. Running(a)' \in SUBSET Requests
      BY <2>1, <2>2
    <3>3. QED
      BY <3>1, <3>2, FiniteRequests
  <2>4. conc' = [conc EXCEPT ![a] = @ - 1]
    BY <1>2, <1>6, <2>1, <2>3 DEF end_concurrent
  <2>5. GateTypes'
    BY <1>1, <1>2, <2>1, <2>3, <2>4 DEF GateInv, GateTypes, Stages
  <2>6. CounterExact'
    <3> SUFFICES ASSUME NEW i \in Ips PROVE conc'[i] = Cardinality(Running(i)')
      BY DEF CounterExact
    <3>1. CASE i = a
      BY <2>1, <2>3, <2>4, <3>1 DEF GateInv, GateTypes
    <3>2. CASE i # a
      BY <2>2, <2>4, <3>2 DEF GateInv, GateTypes, CounterExact
    <3>3. QED
      BY <3>1, <3>2
  <2>7. Cardinality(InPreCheck') <= PoolSize
    <3>1. InPreCheck \in SUBSET Requests /\ InPreCheck' \in SUBSET Requests
      BY DEF InPreCheck
    <3>2. Cardinality(InPreCheck') <= Cardinality(InPreCheck)
      BY <1>3, <3>1, FiniteRequests
    <3>3. Cardinality(InPreCheck) \in Nat /\ Cardinality(InPreCheck') \in Nat
      BY <3>1, FiniteRequests
    <3>4. QED
      BY <3>2, <3>3, LimitsAreNumbers DEF GateInv
  <2>8. PressingBound'
    <3> SUFFICES ASSUME ConcurrentLimit > 0, NEW i \in Ips
                 PROVE  Cardinality(Pressing(i)') + 1 <= ConcurrentLimit + PoolSize
      BY DEF PressingBound
    <3>1. Pressing(i) \in SUBSET Requests /\ Pressing(i)' \in SUBSET Requests
      BY DEF Pressing
    <3>2. Cardinality(Pressing(i)') <= Cardinality(Pressing(i))
      BY <1>4, <3>1, FiniteRequests
    <3>3. Cardinality(Pressing(i)) \in Nat /\ Cardinality(Pressing(i)') \in Nat
      BY <3>1, FiniteRequests
    <3>4. QED
      BY <3>2, <3>3, LimitsAreNumbers DEF GateInv, PressingBound
  <2>9. QED
    BY <2>5, <2>6, <2>7, <2>8 DEF GateInv
<1>7. QED
  BY <1>1, <1>5, <1>6

(* Everything else leaves the middleware's state alone, and begins nothing  *)
(* in the name of a request.                                                *)
LEMMA OthersKeepBound ==
    ASSUME GateInv, UNCHANGED requestVars, pend' = [x \in Threads |-> pend'[x]],
           \A q \in Requests : pend'[q] # NoJob => pend[q] # NoJob
    PROVE  GateInv'
<1>1. rpc' = rpc /\ rwho' = rwho /\ conc' = conc
  BY DEF requestVars
<1>2. GateTypes'
  BY <1>1 DEF GateInv, GateTypes
<1>3. InPreCheck' \subseteq InPreCheck
  BY <1>1 DEF InPreCheck
<1>4. \A i \in Ips : Running(i)' = Running(i) /\ Pressing(i)' = Pressing(i)
  BY <1>1 DEF Running, Pressing, Listed
<1>5. QED
  BY <1>1, <1>2, <1>3, <1>4, NoneAdded

(* One thread's job changes: not a request's, or one it had already.        *)
LEMMA JobsOfOthers ==
    ASSUME GateInv, NEW x \in Threads, x \notin Requests \/ pend[x] # NoJob,
           UNCHANGED requestVars, NEW S, pend' = [pend EXCEPT ![x] = S]
    PROVE  GateInv'
<1>1. pend' = [y \in Threads |-> IF y = x THEN S ELSE pend[y]]
  BY DEF GateInv, GateTypes
<1>2. pend' = [y \in Threads |-> pend'[y]]
  BY <1>1
<1>3. \A q \in Requests : pend'[q] # NoJob => pend[q] # NoJob
  BY <1>1, ThreadsAre
<1> QED BY <1>2, <1>3, OthersKeepBound

LEMMA GateInvStep == GateInv /\ [BanNext]_engineVars => GateInv'
<1> SUFFICES ASSUME GateInv, [BanNext]_engineVars PROVE GateInv'
  OBVIOUS
<1>0. ASSUME UNCHANGED requestVars, pend' = pend PROVE GateInv'
  BY <1>0, OthersKeepBound DEF GateInv, GateTypes
<1>1. ASSUME NEW l \in Lifters, Lift(l) PROVE GateInv'
  <2>1. UNCHANGED requestVars
    BY <1>1 DEF Lift, LiftExpired, ClearCounters, ClearFails, LiftBan
  <2>2. CASE pend' = pend
    BY <1>0, <2>1, <2>2
  <2>3. ASSUME NEW ts, pend' = MarkDecisions(ts) PROVE GateInv'
    <3>1. pend' = [x \in Threads |-> {Overtaken(j, ts) : j \in pend[x]}]
      BY <2>3 DEF MarkDecisions
    <3>2. pend' = [x \in Threads |-> pend'[x]]
      BY <3>1
    <3>3. \A q \in Requests : pend'[q] # NoJob => pend[q] # NoJob
      BY <3>1, ThreadsAre DEF NoJob
    <3> QED BY <2>1, <3>2, <3>3, OthersKeepBound
  <2>4. QED
    BY <1>1, <2>2, <2>3 DEF Lift, LiftExpired, ClearCounters, ClearFails, LiftBan
<1>2. ASSUME NEW x \in Threads, BanFind(x) \/ BanInsert(x) PROVE GateInv'
  <2>1. UNCHANGED requestVars /\ pend[x] # NoJob /\ \E S : pend' = [pend EXCEPT ![x] = S]
    BY <1>2 DEF BanFind, BanInsert, NoJob
  <2>2. QED
    BY <2>1, JobsOfOthers
<1>3. ASSUME NEW b \in Banners, Login(b) \/ Decide(b) PROVE GateInv'
  <2>1. UNCHANGED requestVars /\ \E S : pend' = [pend EXCEPT ![b] = S]
    BY <1>3 DEF Login, Decide, CountEvent, GiveUp, FailedLogin, SuccessfulLogin, UnknownHost,
                BanDirectly
  <2>2. QED
    BY <2>1, JobsOfOthers, ThreadsAre
<1>4. ASSUME NEW c \in Clients, SignedIn(c) PROVE GateInv'
  BY <1>0, <1>4 DEF SignedIn, banVars
<1>5. ASSUME NEW i \in Ips, NEW n \in 1..MaxLines, NginxTick(i, n) PROVE GateInv'
  <2>1. UNCHANGED requestVars /\ \E S : pend' = [pend EXCEPT ![Sensor] = S]
    BY <1>5 DEF NginxTick
  <2>2. QED
    BY <2>1, JobsOfOthers, ThreadsAre
<1>6. ASSUME NEW q \in Requests, Request(q) PROVE GateInv'
  <2>1. CASE \E c \in Clients : Gate(q, c) \/ PassUnchecked(q, c)
    BY <2>1, GateKeepsBound
  <2>2. CASE RecordSensitive(q) \/ RecordLogin(q) \/ Throttle(q) \/ PreCheckFails(q)
    BY <2>2, PreCheckKeepsBound
  <2>3. CASE begin_concurrent(q)
    BY <2>3, BeginKeepsBound
  <2>4. CASE end_concurrent(q)
    BY <2>4, EndKeepsBound
  <2>5. QED
    BY <1>6, <2>1, <2>2, <2>3, <2>4 DEF Request
<1>7. CASE Tick \/ UNCHANGED engineVars
  BY <1>0, <1>7 DEF Tick, engineVars, banVars
<1>8. QED
  BY <1>1, <1>2, <1>3, <1>4, <1>5, <1>6, <1>7 DEF BanNext

LEMMA GateInvAlways == BanSpec => []GateInv
<1>1. QED
  BY GateInvInit, GateInvStep, PTL DEF BanSpec

(* begin_concurrent and end_concurrent match on every path through the      *)
(* middleware: the counter of an address never leaks.                       *)
THEOREM CounterNeverLeaks == BanSpec => []CounterExact
<1>1. GateInv => CounterExact
  BY DEF GateInv
<1>2. QED
  BY <1>1, GateInvAlways, PTL

(* check_request_allowed enforces the limit up to one request per other     *)
(* pre-check thread, for every limit, pool size and number of requests.     *)
THEOREM LimitHolds == BanSpec => []ConcurrentBound
<1>1. GateInv => ConcurrentBound
  <2> SUFFICES ASSUME GateInv, ConcurrentLimit > 0, NEW i \in Ips
               PROVE  Cardinality({q \in Running(i) : ~Listed(rwho[q])}) + 1
                        <= ConcurrentLimit + PoolSize
    BY DEF ConcurrentBound
  <2> DEFINE S == {q \in Running(i) : ~Listed(rwho[q])}
  <2>1. S \subseteq Pressing(i) /\ S \in SUBSET Requests /\ Pressing(i) \in SUBSET Requests
    BY DEF Running, Pressing
  <2>2. Cardinality(S) <= Cardinality(Pressing(i))
    BY <2>1, FiniteRequests
  <2>3. Cardinality(S) \in Nat /\ Cardinality(Pressing(i)) \in Nat
    BY <2>1, FiniteRequests
  <2>4. Cardinality(Pressing(i)) + 1 <= ConcurrentLimit + PoolSize
    BY DEF GateInv, PressingBound
  <2>5. QED
    BY <2>2, <2>3, <2>4, LimitsAreNumbers
<1>2. QED
  BY <1>1, GateInvAlways, PTL

-----------------------------------------------------------------------------
(* Types.                                                                   *)

(* A function has finitely many values on a finite set.                     *)
LEMMA FiniteImage ==
    ASSUME NEW S, IsFiniteSet(S), NEW D, NEW f \in [S -> D]
    PROVE  IsFiniteSet({f[x] : x \in S})
<1> DEFINE T == {f[x] : x \in S}
<1>1. f \in [S -> T] /\ \A y \in T : \E x \in S : f[x] = y
  OBVIOUS
<1>2. f \in Surjection(S, T)
  BY <1>1 DEF Surjection
<1> QED BY <1>2, FS_Surjection

(* The rows in the window are some of the rows.                             *)
LEMMA WindowRows ==
    ASSUME NEW k \in Kinds, NEW s \in SUBSET Event, IsFiniteSet(s)
    PROVE  InWindow(k, s) \in SUBSET Event /\ IsFiniteSet(InWindow(k, s))
<1>1. InWindow(k, s) \in SUBSET s
  BY DEF InWindow
<1> QED BY <1>1, FS_Subset

(* The rows added are new.                                                  *)
LEMMA RowsAdded ==
    ASSUME NEW s \in SUBSET Event, IsFiniteSet(s), NEW n \in Nat, now \in Nat
    PROVE  /\ WithRows(s, n) \in SUBSET Event /\ IsFiniteSet(WithRows(s, n))
           /\ \A e \in WithRows(s, n) \ s : ~e.old
<1> DEFINE T == {e \in s : e.at = now}
<1>1. PICK c \in Nat : c = Cardinality(T)
  <2>1. T \in SUBSET s
    OBVIOUS
  <2> HIDE DEF T
  <2> QED BY <2>1, FS_Subset, FS_CardinalityType
<1> DEFINE row == [m \in 1..n |-> [at |-> now, no |-> c + m, old |-> FALSE]]
           Added == {row[m] : m \in 1..n}
<1>2. WithRows(s, n) = s \cup Added
  BY <1>1 DEF WithRows
<1>3. \A e \in Added : ~e.old
  OBVIOUS
<1>4. row \in [1..n -> Event]
  BY <1>1 DEF Event
<1>5. IsFiniteSet(1..n)
  <2>1. 1 \in Int /\ n \in Int
    OBVIOUS
  <2> QED BY <2>1, FS_Interval
<1> HIDE DEF row
<1>6. Added \subseteq Event /\ IsFiniteSet(Added)
  BY <1>4, <1>5, FiniteImage
<1> HIDE DEF Added
<1> QED BY <1>2, <1>3, <1>6, FS_Union

(* The counters of every kind and key as a value.                           *)
Counters(e) ==
    /\ e \in [Kinds -> [Targets -> SUBSET Event]]
    /\ \A k \in Kinds, t \in Targets : IsFiniteSet(e[k][t])

LEMMA RecordedCounters ==
    ASSUME NEW e, Counters(e), now \in Nat, NEW k \in Kinds, NEW key \in Targets
    PROVE  Counters(Recorded(e, k, key)) /\ Counters(Counted(e, k, key))
<1> DEFINE s == InWindow(k, e[k][key])
<1>1. s \in SUBSET Event /\ IsFiniteSet(s)
  BY WindowRows DEF Counters
<1> HIDE DEF s
<1>2. WithRows(s, 1) \in SUBSET Event /\ IsFiniteSet(WithRows(s, 1))
  BY <1>1, RowsAdded
<1>3. Counters(Recorded(e, k, key))
  BY <1>2 DEF Counters, Recorded, s
<1> QED BY <1>3 DEF Counted

(* Recording adds no old row, and none under another kind.                  *)
LEMMA RecordedRows ==
    ASSUME NEW e, Counters(e), now \in Nat, NEW k \in Kinds, NEW key \in Targets
    PROVE  /\ \A t \in Targets : \A r \in Recorded(e, k, key)[k][t] : r \in e[k][t] \/ ~r.old
           /\ \A j \in Kinds \ {k} : /\ Recorded(e, k, key)[j] = e[j]
                                     /\ Counted(e, k, key)[j] = e[j]
<1> DEFINE s == InWindow(k, e[k][key])
<1>1. s \in SUBSET Event /\ IsFiniteSet(s) /\ s \subseteq e[k][key]
  BY WindowRows DEF Counters, InWindow
<1> HIDE DEF s
<1>2. \A r \in WithRows(s, 1) : r \in e[k][key] \/ ~r.old
  BY <1>1, RowsAdded
<1>3. Recorded(e, k, key) = [e EXCEPT ![k][key] = WithRows(s, 1)]
  BY DEF Recorded, s
<1>4. \A t \in Targets : \A r \in Recorded(e, k, key)[k][t] : r \in e[k][t] \/ ~r.old
  BY <1>2, <1>3 DEF Counters
<1>5. \A j \in Kinds \ {k} : Recorded(e, k, key)[j] = e[j]
  BY <1>3 DEF Counters
<1> QED BY <1>4, <1>5 DEF Counted

(* The number of nginx bans an address has had.                             *)
LEMMA PriorBans ==
    ASSUME bans \in Seq(Ban), NEW t
    PROVE  Cardinality(NginxBans(t)) \in Nat
<1>1. IsFiniteSet(DOMAIN bans)
  <2>1. DOMAIN bans = 1..Len(bans) /\ 1 \in Int /\ Len(bans) \in Int
    OBVIOUS
  <2> QED BY <2>1, FS_Interval
<1>2. NginxBans(t) \in SUBSET DOMAIN bans
  BY DEF NginxBans
<1> QED BY <1>1, <1>2, FS_Subset, FS_CardinalityType

LEMMA NewBanTyped ==
    ASSUME NEW t \in Targets, NEW rule \in Rules, NEW perm \in BOOLEAN, NEW ttl \in Nat,
           now \in Nat
    PROVE  NewBan(t, rule, perm, ttl) \in Ban
BY DEF NewBan, Ban

(* The ban that a rule makes is one of that rule, on that target.           *)
LEMMA BanOfTyped ==
    ASSUME bans \in Seq(Ban), NEW t \in Targets, NEW rule \in Rules, now \in Nat
    PROVE  /\ BanOf(t, rule) \in Ban
           /\ BanOf(t, rule).rule = rule /\ BanOf(t, rule).target = t
           /\ rule = "nginx_429" =>
                BanOf(t, rule).perm = IsPermanent(Cardinality(NginxBans(t)))
<1>1. PICK prior \in Nat : prior = Cardinality(NginxBans(t))
  BY PriorBans
<1>2. LadderTtl(prior) \in Nat
  <2>1. Ladder \in Seq(Nat \ {0}) /\ Len(Ladder) \in Nat \ {0}
    BY BanAssumption
  <2>2. (IF prior < Len(Ladder) THEN prior + 1 ELSE Len(Ladder)) \in 1..Len(Ladder)
    BY <1>1, <2>1
  <2>3. \A m \in 1..Len(Ladder) : Ladder[m] \in Nat
    BY <2>1
  <2> QED BY <2>2, <2>3 DEF LadderTtl
<1>3. IsPermanent(prior) \in BOOLEAN /\ (rule \in PermanentRules) \in BOOLEAN
  BY DEF IsPermanent
<1>4. Ttl[rule] \in Nat
  BY BanAssumption
<1>5. CASE rule = "nginx_429"
  <2>1. BanOf(t, rule) = NewBan(t, rule, IsPermanent(prior), LadderTtl(prior))
    BY <1>1, <1>5 DEF BanOf
  <2>2. NewBan(t, rule, IsPermanent(prior), LadderTtl(prior)) \in Ban
    BY <1>2, <1>3, NewBanTyped
  <2> QED BY <1>1, <2>1, <2>2 DEF NewBan
<1>6. CASE rule # "nginx_429"
  <2>1. BanOf(t, rule) = NewBan(t, rule, rule \in PermanentRules, Ttl[rule])
    BY <1>6 DEF BanOf
  <2>2. NewBan(t, rule, rule \in PermanentRules, Ttl[rule]) \in Ban
    BY <1>3, <1>4, NewBanTyped
  <2> QED BY <1>6, <2>1, <2>2 DEF NewBan
<1> QED BY <1>5, <1>6

-----------------------------------------------------------------------------
(* What threads are about to do.                                            *)

(* The rules that count first, and may go on to a second target.            *)
Counting == {"fail", "success_ip", "unknown_host"}

(* A thread counts what its rule counts; only the sensor makes nginx bans.  *)
JobFits(x, j) ==
    /\ (j.at = "count" \/ j.then # {}) => j.ban.rule \in Counting
    /\ (j.at = "count" /\ j.ban.rule = "fail") => j.key = j.ban.target
    /\ j.ban.rule = "nginx_429" => x = Sensor
JobsFit == \A x \in Threads : \A j \in pend[x] : JobFits(x, j)

(* Every variable has its type, a counter has finitely many rows, and       *)
(* threads have fitting jobs.                                               *)
BanInv == BanTypeOK /\ Counters(ev) /\ JobsFit

LEMMA NowIsNat == BanTypeOK => now \in Nat
  BY BanAssumption DEF BanTypeOK

LEMMA CountingRules == Counting \subseteq Kinds /\ Counting \subseteq Rules
                       /\ "nginx_429" \notin Counting /\ Kinds \subseteq Rules
  BY DEF Counting, Kinds, Rules

LEMMA JobMade ==
    ASSUME NEW at \in {"count", "find", "insert"}, NEW key \in Targets, NEW t \in Targets,
           NEW rule \in Rules, NEW then \in SUBSET Users,
           NEW due \in {"earned", "unearned", "unblocked"}
    PROVE  LET j == JobFor(at, key, t, rule, then, due)
           IN  /\ j \in Job /\ j.at = at /\ j.key = key /\ j.then = then /\ j.due = due
               /\ j.ban.rule = rule /\ j.ban.target = t
BY DEF JobFor, Job, Ban

LEMMA CountMade ==
    ASSUME NEW key \in Targets, NEW t \in Targets, NEW rule \in Counting,
           NEW then \in SUBSET Users, NEW x, rule = "fail" => key = t
    PROVE  LET j == ToCount(key, t, rule, then)
           IN  j \in Job /\ JobFits(x, j) /\ j.due = "earned" /\ j.at = "count"
<1>1. rule \in Rules /\ rule # "nginx_429"
  BY CountingRules
<1> QED BY <1>1, JobMade DEF ToCount, JobFits

LEMMA BanToMake ==
    ASSUME NEW t \in Targets, NEW rule \in Rules, NEW then \in SUBSET Users,
           NEW due \in {"earned", "unearned", "unblocked"}, NEW x,
           then # {} => rule \in Counting, rule = "nginx_429" => x = Sensor
    PROVE  LET j == ToBan(t, rule, then, due)
           IN  j \in Job /\ JobFits(x, j) /\ j.due = due /\ j.at = "find"
<1> QED BY JobMade DEF ToBan, JobFits

LEMMA RestMade ==
    ASSUME NEW x, NEW j \in Job, JobFits(x, j), NEW y
    PROVE  \A r \in Rest(j) : r \in Job /\ JobFits(y, r) /\ r.due = "earned" /\ r.at = "count"
<1> SUFFICES ASSUME NEW u \in j.then
             PROVE  LET r == ToCount(u, u, j.ban.rule, {})
                    IN  r \in Job /\ JobFits(y, r) /\ r.due = "earned" /\ r.at = "count"
  BY DEF Rest
<1>1. u \in Targets /\ j.ban.rule \in Counting
  BY DEF Job, Targets, JobFits
<1>2. {} \in SUBSET Users
  OBVIOUS
<1> QED BY <1>1, <1>2, CountMade

(* The ban is settled.                                                      *)
LEMMA FoundMade ==
    ASSUME bans \in Seq(Ban), now \in Nat, NEW x, NEW j \in Job, JobFits(x, j)
    PROVE  LET f == [j EXCEPT !.at = "insert", !.ban = BanOf(j.ban.target, j.ban.rule)]
           IN  /\ f \in Job /\ JobFits(x, f) /\ f.due = j.due /\ f.at = "insert"
               /\ f.ban = BanOf(j.ban.target, j.ban.rule)
<1>1. j.ban.target \in Targets /\ j.ban.rule \in Rules
  BY DEF Job, Ban
<1>2. PICK b \in Ban : /\ b = BanOf(j.ban.target, j.ban.rule)
                       /\ b.rule = j.ban.rule /\ b.target = j.ban.target
  BY <1>1, BanOfTyped
<1>3. PICK f : f = [j EXCEPT !.at = "insert", !.ban = b]
  OBVIOUS
<1>4. f \in Job /\ f.at = "insert" /\ f.ban = b /\ f.then = j.then /\ f.due = j.due
  BY <1>3 DEF Job
<1>5. JobFits(x, f)
  BY <1>2, <1>4 DEF JobFits
<1> QED BY <1>2, <1>3, <1>4, <1>5

(* One thread's job changes.                                                *)
LEMMA JobPut ==
    ASSUME BanInv, NEW x \in Threads, NEW S, pend' = [pend EXCEPT ![x] = S],
           \A j \in S : j \in Job /\ JobFits(x, j)
    PROVE  pend' \in [Threads -> SUBSET Job] /\ JobsFit'
<1>1. pend \in [Threads -> SUBSET Job]
  BY DEF BanInv, BanTypeOK
<1>2. S \in SUBSET Job
  OBVIOUS
<1>3. pend' \in [Threads -> SUBSET Job]
  BY <1>1, <1>2
<1>4. JobsFit'
  BY <1>1 DEF BanInv, JobsFit, JobFits
<1> QED BY <1>3, <1>4

(* Decisions overtaken by an unblock are the same otherwise.                *)
LEMMA OvertakenJob ==
    ASSUME NEW j \in Job, NEW ts
    PROVE  LET o == Overtaken(j, ts)
           IN  /\ o \in Job /\ o.at = j.at /\ o.key = j.key /\ o.ban = j.ban
               /\ o.then = j.then /\ (o.due = j.due \/ o.due = "unblocked")
BY DEF Overtaken, Job

LEMMA DecisionsMarked ==
    ASSUME BanInv, NEW ts, pend' = MarkDecisions(ts)
    PROVE  pend' \in [Threads -> SUBSET Job] /\ JobsFit'
<1>1. pend \in [Threads -> SUBSET Job]
  BY DEF BanInv, BanTypeOK
<1>2. pend' = [x \in Threads |-> {Overtaken(j, ts) : j \in pend[x]}]
  BY DEF MarkDecisions
<1>3. \A x \in Threads : \A j \in pend[x] : Overtaken(j, ts) \in Job
  BY <1>1, OvertakenJob
<1>4. pend' \in [Threads -> SUBSET Job]
  BY <1>2, <1>3
<1>5. ASSUME NEW x \in Threads, NEW o \in pend'[x] PROVE JobFits(x, o)
  <2>1. PICK j \in pend[x] : o = Overtaken(j, ts)
    BY <1>2, <1>5
  <2>2. j \in Job /\ JobFits(x, j)
    BY <1>1, <2>1 DEF BanInv, JobsFit
  <2>3. o.at = j.at /\ o.key = j.key /\ o.ban = j.ban /\ o.then = j.then
    BY <2>1, <2>2, OvertakenJob
  <2> QED BY <2>2, <2>3 DEF JobFits
<1>6. JobsFit'
  BY <1>5 DEF JobsFit, JobFits
<1> QED BY <1>4, <1>6

LEMMA BanInvInit == BanInit => BanInv
<1> SUFFICES ASSUME BanInit PROVE BanInv
  OBVIOUS
<1>1. Counters(ev)
  BY FS_EmptySet DEF BanInit, Counters
<1>2. now \in 1..MaxTime
  BY BanAssumption DEF BanInit
<1>3. BanTypeOK
  BY <1>1, <1>2 DEF BanInit, BanTypeOK, Counters, NoJob
<1>4. JobsFit
  BY DEF BanInit, JobsFit, NoJob
<1> QED BY <1>1, <1>3, <1>4 DEF BanInv

(* A target is an address or a user; a client has one of each.              *)
LEMMA ClientTargets ==
    /\ \A c \in Clients : c.ip \in Targets /\ c.user \in Targets /\ c.ip \in Ips
    /\ \A i \in Ips : i \in Targets
  BY BanAssumption DEF Targets

LEMMA MarkOldTyped ==
    ASSUME BanInv, NEW ts
    PROVE  Counters(MarkOld(ts))
<1> SUFFICES ASSUME NEW k \in Kinds, NEW t \in Targets
             PROVE  MarkOld(ts)[k][t] \in SUBSET Event /\ IsFiniteSet(MarkOld(ts)[k][t])
  BY DEF Counters, MarkOld
<1> DEFINE s == ev[k][t]
           f == [e \in s |-> [e EXCEPT !.old = TRUE]]
<1>1. s \in SUBSET Event /\ IsFiniteSet(s)
  BY DEF BanInv, Counters
<1>2. f \in [s -> Event]
  BY <1>1 DEF Event
<1>3. {f[e] : e \in s} \in SUBSET Event /\ IsFiniteSet({f[e] : e \in s})
  <2> HIDE DEF f, s
  <2> QED BY <1>1, <1>2, FiniteImage
<1>4. MarkOld(ts)[k][t] = IF t \in ts THEN {f[e] : e \in s} ELSE s
  BY DEF MarkOld
<1> QED BY <1>1, <1>3, <1>4

(* The bans with some of their fields `active` changed.                     *)
LEMMA BansRewritten ==
    ASSUME NEW bs \in Seq(Ban), NEW new, DOMAIN new = DOMAIN bs,
           new = [i \in DOMAIN bs |-> new[i]], \A i \in DOMAIN bs : new[i] \in Ban
    PROVE  new \in Seq(Ban)
<1>1. DOMAIN bs = 1..Len(bs) /\ Len(bs) \in Nat
  OBVIOUS
<1>2. new \in [1..Len(bs) -> Ban]
  BY <1>1
<1> QED BY <1>1, <1>2

LEMMA BanRow ==
    ASSUME NEW bs \in Seq(Ban), NEW i \in DOMAIN bs
    PROVE  /\ bs[i] \in Ban /\ bs[i].target \in Targets
           /\ [bs[i] EXCEPT !.active = FALSE] \in Ban
<1>1. bs[i] \in Ban
  OBVIOUS
<1> QED BY <1>1 DEF Ban

LEMMA LiftTyped ==
    ASSUME BanInv, NEW l \in Lifters, Lift(l)
    PROVE  BanInv'
<1> USE DEF requestVars
<1>1. CASE LiftExpired(l)
  <2>1. PICK E \in SUBSET DOMAIN bans :
           /\ E = {i \in DOMAIN bans : Ended(bans[i])}
           /\ bans' = [i \in DOMAIN bans |->
                         IF i \in E THEN [bans[i] EXCEPT !.active = FALSE] ELSE bans[i]]
           /\ clearing' = [clearing EXCEPT ![l] = {bans[i].target : i \in E}]
           /\ ev' = MarkOld({bans[i].target : i \in E})
           /\ pend' = MarkDecisions({bans[i].target : i \in E})
    BY <1>1 DEF LiftExpired
  <2>2. Counters(ev')
    BY <2>1, MarkOldTyped
  <2>3. bans \in Seq(Ban) /\ \A i \in DOMAIN bans : bans[i] \in Ban
    BY DEF BanInv, BanTypeOK
  <2>4. bans' \in Seq(Ban)
    <3>1. \A i \in DOMAIN bans : bans'[i] \in Ban
      BY <2>1, <2>3, BanRow
    <3>2. DOMAIN bans' = DOMAIN bans /\ bans' = [i \in DOMAIN bans |-> bans'[i]]
      BY <2>1
    <3> QED BY <2>3, <3>1, <3>2, BansRewritten
  <2>6. {bans[i].target : i \in E} \in SUBSET Targets
    BY <2>3, BanRow
  <2>7. pend' \in [Threads -> SUBSET Job] /\ JobsFit'
    BY <2>1, DecisionsMarked
  <2>5. BanTypeOK'
    BY <1>1, <2>1, <2>2, <2>4, <2>6, <2>7 DEF LiftExpired, BanInv, BanTypeOK, Counters
  <2> QED BY <2>2, <2>5, <2>7 DEF BanInv
<1>2. ASSUME NEW i \in DOMAIN bans, LiftBan(l, i)
      PROVE  BanInv'
  <2>1. Counters(ev')
    BY <1>2, MarkOldTyped DEF LiftBan
  <2>5. bans \in Seq(Ban)
    BY DEF BanInv, BanTypeOK
  <2>2. bans[i].target \in Targets
    BY <2>5, BanRow
  <2>3. bans' \in Seq(Ban)
    <3>1. bans' = [bans EXCEPT ![i] = [bans[i] EXCEPT !.active = FALSE]]
      BY <1>2 DEF LiftBan
    <3>2. [bans[i] EXCEPT !.active = FALSE] \in Ban
      BY <2>5, BanRow
    <3> QED BY <2>5, <3>1, <3>2
  <2>6. pend' \in [Threads -> SUBSET Job] /\ JobsFit'
    BY <1>2, DecisionsMarked DEF LiftBan
  <2>4. BanTypeOK'
    BY <1>2, <2>1, <2>2, <2>3, <2>6 DEF LiftBan, BanInv, BanTypeOK, Counters
  <2> QED BY <2>1, <2>4, <2>6 DEF BanInv
<1>3. CASE ClearCounters(l)
  <2>1. Counters(ev')
    BY <1>3, FS_EmptySet DEF ClearCounters, BanInv, Counters, Kinds
  <2>2. BanTypeOK' /\ JobsFit'
    BY <1>3, <2>1 DEF ClearCounters, BanInv, BanTypeOK, Counters, JobsFit
  <2> QED BY <2>1, <2>2 DEF BanInv
<1>4. CASE ClearFails(l)
  BY <1>4 DEF ClearFails, BanInv, BanTypeOK, Counters, JobsFit
<1> QED BY <1>1, <1>2, <1>3, <1>4 DEF Lift

(* A step that gives one thread another job, counts and bans.               *)
LEMMA StepTyped ==
    ASSUME BanInv, UNCHANGED <<now, clearing, uncleared>>, UNCHANGED requestVars,
           Counters(ev'), bans' \in Seq(Ban), NEW x \in Threads, NEW S,
           pend' = [pend EXCEPT ![x] = S], \A j \in S : j \in Job /\ JobFits(x, j)
    PROVE  BanInv'
<1>1. pend' \in [Threads -> SUBSET Job] /\ JobsFit'
  BY JobPut
<1>2. BanTypeOK'
  BY <1>1 DEF requestVars, BanInv, BanTypeOK, Counters
<1> QED BY <1>1, <1>2 DEF BanInv

LEMMA BanInvFacts ==
    BanInv => /\ Counters(ev) /\ now \in Nat /\ bans \in Seq(Ban)
              /\ pend \in [Threads -> SUBSET Job] /\ rwho \in [Requests -> Clients]
              /\ clearing \in [Lifters -> SUBSET Targets]
              /\ \A x \in Threads : \A j \in pend[x] :
                    /\ j \in Job /\ JobFits(x, j) /\ j.ban \in Ban /\ j.key \in Targets
                    /\ j.ban.target \in Targets /\ j.ban.rule \in Rules
BY NowIsNat DEF BanInv, BanTypeOK, JobsFit, Job, Ban

LEMMA ApplyTyped ==
    ASSUME BanInv, NEW x \in Threads, BanFind(x) \/ BanInsert(x)
    PROVE  BanInv'
<1>1. CASE BanFind(x)
  <2>1. PICK j \in pend[x] :
           LET f == [j EXCEPT !.at = "insert", !.ban = BanOf(j.ban.target, j.ban.rule)]
           IN  pend' = [pend EXCEPT ![x] = IF ActiveOn(bans, j.ban.target) THEN Rest(j) ELSE {f}]
    BY <1>1 DEF BanFind
  <2>2. j \in Job /\ JobFits(x, j) /\ bans \in Seq(Ban) /\ now \in Nat /\ Counters(ev)
    BY BanInvFacts
  <2>3. PICK f : f = [j EXCEPT !.at = "insert", !.ban = BanOf(j.ban.target, j.ban.rule)]
    OBVIOUS
  <2>4. f \in Job /\ JobFits(x, f)
    BY <2>2, <2>3, FoundMade
  <2>5. PICK S : /\ pend' = [pend EXCEPT ![x] = S]
                 /\ S = IF ActiveOn(bans, j.ban.target) THEN Rest(j) ELSE {f}
    BY <2>1, <2>3
  <2>6. \A r \in S : r \in Job /\ JobFits(x, r)
    BY <2>2, <2>4, <2>5, RestMade
  <2>7. UNCHANGED <<now, clearing, uncleared, ev, bans>> /\ UNCHANGED requestVars
    BY <1>1 DEF BanFind
  <2>8. Counters(ev') /\ bans' \in Seq(Ban)
    BY <2>2, <2>7
  <2> QED BY <2>5, <2>6, <2>7, <2>8, StepTyped
<1>2. CASE BanInsert(x)
  <2>1. PICK j \in pend[x] : bans' = Append(bans, j.ban) /\ pend' = [pend EXCEPT ![x] = Rest(j)]
    BY <1>2 DEF BanInsert
  <2>2. j \in Job /\ JobFits(x, j) /\ bans \in Seq(Ban) /\ j.ban \in Ban /\ Counters(ev)
    BY BanInvFacts
  <2>3. \A r \in Rest(j) : r \in Job /\ JobFits(x, r)
    BY <2>2, RestMade
  <2>4. UNCHANGED <<now, clearing, uncleared, ev>> /\ UNCHANGED requestVars
    BY <1>2 DEF BanInsert
  <2>5. Counters(ev') /\ bans' \in Seq(Ban)
    BY <2>1, <2>2, <2>4
  <2> QED BY <2>1, <2>3, <2>4, <2>5, StepTyped
<1> QED BY <1>1, <1>2

(* What CountEvent does with the job it takes.                              *)
CountsJob(b, j) ==
    LET k == j.ban.rule
        t == j.ban.target
        reached == Reached(ev', k, j.key)
        later == t \in Ips \/ ~Swept
    IN  /\ j.at = "count"
        /\ ev' = Recorded(ev, k, j.key)
        /\ \/ bans' = bans
           \/ bans' = Append(bans, BanOf(t, k)) /\ reached
        /\ \/ pend' = [pend EXCEPT ![b] = {ToBan(t, k, j.then, Due(ev', k, t))}] /\ reached
           \/ pend' = [pend EXCEPT ![b] = Rest(j)]

LEMMA EventCounted ==
    ASSUME NEW b, CountEvent(b)
    PROVE  /\ \E j \in pend[b] : CountsJob(b, j)
           /\ UNCHANGED <<now, clearing, uncleared>> /\ UNCHANGED requestVars
<1>1. PICK j \in pend[b] :
          LET k == j.ban.rule
              t == j.ban.target
              reached == Reached(ev', k, j.key)
              later == t \in Ips \/ ~Swept
          IN  /\ j.at = "count"
              /\ ev' = Recorded(ev, k, j.key)
              /\ bans' = IF reached /\ ~later /\ ~ActiveOn(bans, t)
                         THEN Append(bans, BanOf(t, k)) ELSE bans
              /\ pend' = [pend EXCEPT ![b] =
                            IF reached /\ later THEN {ToBan(t, k, j.then, Due(ev', k, t))}
                            ELSE Rest(j)]
  BY DEF CountEvent
<1>2. CountsJob(b, j)
  BY <1>1 DEF CountsJob
<1> QED BY <1>2 DEF CountEvent

LEMMA EventTyped ==
    ASSUME BanInv, NEW b \in Banners, CountEvent(b)
    PROVE  BanInv'
<1>1. b \in Threads
  BY ThreadsAre
<1>2. PICK j \in pend[b] : CountsJob(b, j)
  BY EventCounted
<1>3. PICK k, t : k = j.ban.rule /\ t = j.ban.target
  OBVIOUS
<1>4. /\ j \in Job /\ JobFits(b, j) /\ bans \in Seq(Ban) /\ now \in Nat /\ Counters(ev)
      /\ j.key \in Targets /\ t \in Targets /\ j.then \in SUBSET Users
  BY <1>1, <1>3, BanInvFacts DEF Job
<1>5. j.at = "count" /\ k \in Counting /\ k \in Kinds /\ k \in Rules /\ k # "nginx_429"
  BY <1>2, <1>3, <1>4, CountingRules DEF CountsJob, JobFits
<1>6. ev' = Recorded(ev, k, j.key)
  BY <1>2, <1>3 DEF CountsJob
<1>7. Counters(ev')
  BY <1>4, <1>5, <1>6, RecordedCounters
<1>8. bans' \in Seq(Ban)
  <2>1. BanOf(t, k) \in Ban
    BY <1>4, <1>5, BanOfTyped
  <2>2. bans' = bans \/ bans' = Append(bans, BanOf(t, k))
    BY <1>2, <1>3 DEF CountsJob
  <2> QED BY <1>4, <2>1, <2>2
<1>9. PICK d : d = Due(ev', k, t) /\ d \in {"earned", "unearned", "unblocked"}
  BY DEF Due
<1>10. ToBan(t, k, j.then, d) \in Job /\ JobFits(b, ToBan(t, k, j.then, d))
  BY <1>4, <1>5, <1>9, BanToMake
<1>11. \A r \in Rest(j) : r \in Job /\ JobFits(b, r)
  BY <1>4, RestMade
<1>12. PICK S : pend' = [pend EXCEPT ![b] = S] /\ S \in {{ToBan(t, k, j.then, d)}, Rest(j)}
  BY <1>2, <1>3, <1>9 DEF CountsJob
<1>13. \A r \in S : r \in Job /\ JobFits(b, r)
  BY <1>10, <1>11, <1>12
<1> QED BY <1>1, <1>7, <1>8, <1>12, <1>13, EventCounted, StepTyped

(* The handlers that begin or end a job, and count nothing.                 *)
LEMMA BegunTyped ==
    ASSUME BanInv, NEW b \in Banners,
           \/ GiveUp(b) \/ Decide(b)
           \/ \E c \in Clients : FailedLogin(b, c) \/ SuccessfulLogin(b, c)
           \/ \E i \in Ips : UnknownHost(b, i)
    PROVE  /\ BanInv' /\ UNCHANGED <<now, ev, bans, clearing, uncleared>>
           /\ \E S : /\ pend' = [pend EXCEPT ![b] = S]
                     /\ \A j \in S : j.due = "earned" /\ j.at # "insert"
<1>1. b \in Threads /\ Counters(ev) /\ bans \in Seq(Ban)
  BY ThreadsAre, BanInvFacts
<1>2. UNCHANGED <<now, ev, bans, clearing, uncleared>> /\ UNCHANGED requestVars
  BY DEF GiveUp, Decide, FailedLogin, SuccessfulLogin, UnknownHost, BanDirectly
<1>3. Counters(ev') /\ bans' \in Seq(Ban)
  BY <1>1, <1>2
<1>4. \E S : /\ pend' = [pend EXCEPT ![b] = S]
             /\ \A j \in S : j \in Job /\ JobFits(b, j) /\ j.due = "earned" /\ j.at # "insert"
  <2>1. CASE GiveUp(b)
    <3>1. PICK S : S = {}
      OBVIOUS
    <3>2. pend' = [pend EXCEPT ![b] = S]
      BY <2>1, <3>1 DEF GiveUp, NoJob
    <3>3. \A j \in S : j \in Job /\ JobFits(b, j) /\ j.due = "earned" /\ j.at # "insert"
      BY <3>1
    <3> QED BY <3>2, <3>3
  <2>2. CASE Decide(b)
    <3>1. PICK t \in Targets, rule \in {"manual", "hack_username"} :
             pend' = [pend EXCEPT ![b] = {ToBan(t, rule, {}, "earned")}]
      BY <2>2 DEF Decide, BanDirectly
    <3>2. rule \in Rules /\ rule # "nginx_429" /\ {} \in SUBSET Users
      BY DEF Rules, Kinds
    <3>3. /\ ToBan(t, rule, {}, "earned") \in Job /\ JobFits(b, ToBan(t, rule, {}, "earned"))
          /\ ToBan(t, rule, {}, "earned").due = "earned"
          /\ ToBan(t, rule, {}, "earned").at = "find"
      BY <3>2, BanToMake
    <3>4. PICK S : S = {ToBan(t, rule, {}, "earned")}
      OBVIOUS
    <3>5. pend' = [pend EXCEPT ![b] = S]
      BY <3>1, <3>4
    <3>6. \A j \in S : j \in Job /\ JobFits(b, j) /\ j.due = "earned" /\ j.at # "insert"
      BY <3>3, <3>4
    <3> QED BY <3>5, <3>6
  <2>3. ASSUME NEW c \in Clients, FailedLogin(b, c) \/ SuccessfulLogin(b, c)
        PROVE  \E S : /\ pend' = [pend EXCEPT ![b] = S]
                      /\ \A j \in S : /\ j \in Job /\ JobFits(b, j) /\ j.due = "earned"
                                      /\ j.at # "insert"
    <3>1. c.ip \in Targets /\ c.user \in Targets /\ {c.user} \in SUBSET Users
          /\ {} \in SUBSET Users /\ "fail" \in Counting /\ "success_ip" \in Counting
      BY ClientTargets, BanAssumption DEF Counting
    <3>2. PICK j : /\ \/ j = ToCount(c.ip, c.ip, "fail", {c.user})
                      \/ j = ToCount(c.ip, c.user, "success_ip", {})
                   /\ pend' = [pend EXCEPT ![b] = {j}]
      BY <2>3 DEF FailedLogin, SuccessfulLogin
    <3>3. j \in Job /\ JobFits(b, j) /\ j.due = "earned" /\ j.at = "count"
      <4>1. CASE j = ToCount(c.ip, c.ip, "fail", {c.user})
        BY <3>1, <4>1, CountMade
      <4>2. CASE j = ToCount(c.ip, c.user, "success_ip", {})
        <5>1. "success_ip" # "fail"
          OBVIOUS
        <5> QED BY <3>1, <4>2, <5>1, CountMade
      <4> QED BY <3>2, <4>1, <4>2
    <3>4. PICK S : S = {j} /\ pend' = [pend EXCEPT ![b] = S]
      BY <3>2
    <3>5. \A r \in S : r \in Job /\ JobFits(b, r) /\ r.due = "earned" /\ r.at # "insert"
      BY <3>3, <3>4
    <3> QED BY <3>4, <3>5
  <2>4. ASSUME NEW i \in Ips, UnknownHost(b, i)
        PROVE  \E S : /\ pend' = [pend EXCEPT ![b] = S]
                      /\ \A j \in S : /\ j \in Job /\ JobFits(b, j) /\ j.due = "earned"
                                      /\ j.at # "insert"
    <3>1. i \in Targets /\ {} \in SUBSET Users /\ "unknown_host" \in Counting
      BY DEF Targets, Counting
    <3>2. PICK j : j = ToCount(i, i, "unknown_host", {}) /\ pend' = [pend EXCEPT ![b] = {j}]
      BY <2>4 DEF UnknownHost
    <3>3. j \in Job /\ JobFits(b, j) /\ j.due = "earned" /\ j.at = "count"
      BY <3>1, <3>2, CountMade
    <3>4. PICK S : S = {j} /\ pend' = [pend EXCEPT ![b] = S]
      BY <3>2
    <3>5. \A r \in S : r \in Job /\ JobFits(b, r) /\ r.due = "earned" /\ r.at # "insert"
      BY <3>3, <3>4
    <3> QED BY <3>4, <3>5
  <2> QED BY <2>1, <2>2, <2>3, <2>4
<1>5. BanInv'
  BY <1>1, <1>2, <1>3, <1>4, StepTyped
<1> QED BY <1>2, <1>4, <1>5

LEMMA SignedInTyped == ASSUME BanInv, NEW c \in Clients, SignedIn(c) PROVE BanInv'
<1>1. Counters(ev')
  BY FS_EmptySet DEF SignedIn, BanInv, Counters, Kinds
<1>2. BanTypeOK' /\ JobsFit'
  BY <1>1 DEF SignedIn, banVars, requestVars, BanInv, BanTypeOK, Counters, JobsFit
<1> QED BY <1>1, <1>2 DEF BanInv

(* The sensor counts, and may have a ban to make.                           *)
LEMMA SensorTyped ==
    ASSUME BanInv, NEW i \in Ips, NEW n \in 1..MaxLines, NginxTick(i, n)
    PROVE  /\ BanInv' /\ UNCHANGED <<now, bans, clearing, uncleared>>
           /\ \A k \in Kinds \ {"nginx_429"} : ev'[k] = ev[k]
           /\ \E S : /\ pend' = [pend EXCEPT ![Sensor] = S]
                     /\ \A j \in S : j.due = "earned" /\ j.at # "insert"
<1>1. Counters(ev) /\ now \in Nat /\ bans \in Seq(Ban) /\ Sensor \in Threads
  BY ThreadsAre, BanInvFacts
<1>2. "nginx_429" \in Kinds /\ "nginx_429" \in Rules /\ i \in Targets /\ {} \in SUBSET Users
  BY DEF Kinds, Rules, Targets
<1> DEFINE s == InWindow("nginx_429", ev["nginx_429"][i])
<1>3. s \in SUBSET Event /\ IsFiniteSet(s)
  BY <1>1, <1>2, WindowRows DEF Counters
<1>4. n \in Nat
  BY BanAssumption
<1> HIDE DEF s
<1>5. WithRows(s, n) \in SUBSET Event /\ IsFiniteSet(WithRows(s, n))
  BY <1>1, <1>3, <1>4, RowsAdded
<1>6. ev' = [ev EXCEPT !["nginx_429"][i] = WithRows(s, n)]
  BY DEF NginxTick, Recorded429, s
<1>7. Counters(ev') /\ \A k \in Kinds \ {"nginx_429"} : ev'[k] = ev[k]
  BY <1>1, <1>2, <1>5, <1>6 DEF Counters
<1>8. UNCHANGED <<now, bans, clearing, uncleared>> /\ UNCHANGED requestVars
  BY DEF NginxTick
<1>9. PICK S : /\ pend' = [pend EXCEPT ![Sensor] = S]
               /\ S \in {{ToBan(i, "nginx_429", {}, "earned")}, {}}
  BY DEF NginxTick, NoJob
<1>10. LET j == ToBan(i, "nginx_429", {}, "earned")
       IN  j \in Job /\ JobFits(Sensor, j) /\ j.due = "earned" /\ j.at = "find"
  BY <1>2, BanToMake
<1>11. \A j \in S : j \in Job /\ JobFits(Sensor, j) /\ j.due = "earned" /\ j.at # "insert"
  BY <1>9, <1>10
<1>12. bans' \in Seq(Ban)
  BY <1>1, <1>8
<1>13. BanInv'
  BY <1>1, <1>7, <1>8, <1>9, <1>11, <1>12, StepTyped
<1> QED BY <1>7, <1>8, <1>9, <1>11, <1>13

(* The middleware counts, and may have a ban to make.                       *)
LEMMA RequestTyped ==
    ASSUME BanInv, NEW q \in Requests, Request(q)
    PROVE  /\ BanInv' /\ UNCHANGED <<now, bans, clearing, uncleared>>
           /\ ev'["fail"] = ev["fail"]
           /\ \/ pend' = pend
              \/ \E S : /\ pend' = [pend EXCEPT ![q] = S]
                        /\ \A j \in S : j.due = "earned" /\ j.at # "insert"
<1> USE DEF banVars
<1>1. Counters(ev) /\ now \in Nat /\ bans \in Seq(Ban) /\ rwho[q] \in Clients /\ q \in Threads
  BY ThreadsAre, BanInvFacts
<1>2. /\ {"hammer", "hammer_login", "rate", "rate_login"} \subseteq Kinds \ {"fail"}
      /\ "fail" \in Kinds
  BY DEF Kinds
<1>3. rwho[q].ip \in Targets /\ rwho[q].ip \in Ips
  BY <1>1, ClientTargets
<1>0. UNCHANGED <<now, bans, clearing, uncleared>>
  BY DEF Request, Gate, PassUnchecked, RecordSensitive, RecordLogin, Throttle, begin_concurrent,
         PreCheckFails, end_concurrent
<1>4. CASE \/ \E c \in Clients : Gate(q, c) \/ PassUnchecked(q, c)
           \/ begin_concurrent(q) \/ end_concurrent(q)
  <2>1. pend' = pend /\ ev' = ev
    BY <1>4 DEF Gate, PassUnchecked, begin_concurrent, end_concurrent
  <2>2. conc' \in [Ips -> Nat]
    BY <1>3, <1>4 DEF begin_concurrent, end_concurrent, Gate, PassUnchecked, BanInv, BanTypeOK
  <2>3. rpc' \in [Requests -> Stages] /\ rwho' \in [Requests -> Clients]
    BY <1>4 DEF begin_concurrent, end_concurrent, Gate, PassUnchecked, BanInv, BanTypeOK, Stages
  <2>4. BanInv'
    BY <1>0, <2>1, <2>2, <2>3 DEF BanInv, BanTypeOK, Counters, JobsFit, Stages
  <2> QED BY <1>0, <2>1, <2>4
(* One thread's job, the counters and the stage of a request.               *)
<1>5. ASSUME Counters(ev'), NEW S, pend' = [pend EXCEPT ![q] = S],
             \A j \in S : j \in Job /\ JobFits(q, j), conc' = conc, rwho' = rwho,
             NEW s \in Stages, rpc' = [rpc EXCEPT ![q] = s]
      PROVE  BanInv'
  <2>1. pend' \in [Threads -> SUBSET Job] /\ JobsFit'
    BY <1>1, <1>5, JobPut
  <2>2. BanTypeOK'
    BY <1>0, <1>5, <2>1 DEF BanInv, BanTypeOK, Counters, Stages
  <2> QED BY <1>5, <2>1, <2>2 DEF BanInv
<1>6. ASSUME Counters(ev'), pend' = pend, conc' = conc, rwho' = rwho,
             NEW s \in Stages, rpc' = [rpc EXCEPT ![q] = s]
      PROVE  BanInv'
  BY <1>0, <1>6 DEF BanInv, BanTypeOK, Counters, JobsFit, Stages
<1>7. \A k \in {"hammer", "hammer_login"} :
         LET j == ToBan(rwho[q].ip, k, {}, "earned")
         IN  j \in Job /\ JobFits(q, j) /\ j.due = "earned" /\ j.at = "find"
  <2>1. \A k \in {"hammer", "hammer_login"} : k \in Rules /\ k # "nginx_429"
    BY DEF Rules, Kinds
  <2>2. {} \in SUBSET Users
    OBVIOUS
  <2> QED BY <1>3, <2>1, <2>2, BanToMake
<1>8. ASSUME NEW k \in Kinds \ {"fail"}, NEW e, Counters(e)
      PROVE  /\ Counters(Counted(e, k, rwho[q].ip))
             /\ Counted(e, k, rwho[q].ip)["fail"] = e["fail"]
  <2>1. k \in Kinds /\ "fail" \in Kinds \ {k}
    BY <1>2, <1>8
  <2>2. Counters(Counted(e, k, rwho[q].ip))
    BY <1>1, <1>3, <1>8, <2>1, RecordedCounters
  <2>3. Counted(e, k, rwho[q].ip)["fail"] = e["fail"]
    BY <1>1, <1>3, <1>8, <2>1, RecordedRows
  <2> QED BY <2>2, <2>3
<1>9. CASE RecordSensitive(q)
  <2>1. PICK e : e = Counted(ev, "hammer", rwho[q].ip)
    OBVIOUS
  <2>2. Counters(e) /\ e["fail"] = ev["fail"]
    BY <1>1, <1>2, <1>8, <2>1
  <2>3. /\ ev' \in {ev, e} /\ conc' = conc /\ rwho' = rwho
        /\ \/ pend' = pend /\ \E s \in {"counted", "hammered"} : rpc' = [rpc EXCEPT ![q] = s]
           \/ /\ pend' = [pend EXCEPT ![q] = {ToBan(rwho[q].ip, "hammer", {}, "earned")}]
              /\ rpc' = [rpc EXCEPT ![q] = "idle"]
    BY <1>9, <2>1 DEF RecordSensitive
  <2>4. Counters(ev') /\ ev'["fail"] = ev["fail"]
    BY <1>1, <2>2, <2>3
  <2>5. {"counted", "hammered", "idle"} \subseteq Stages
    BY DEF Stages
  <2>6. CASE pend' = pend /\ \E s \in {"counted", "hammered"} : rpc' = [rpc EXCEPT ![q] = s]
    BY <1>0, <1>6, <2>3, <2>4, <2>5, <2>6
  <2>7. CASE /\ pend' = [pend EXCEPT ![q] = {ToBan(rwho[q].ip, "hammer", {}, "earned")}]
             /\ rpc' = [rpc EXCEPT ![q] = "idle"]
    <3>1. PICK j : j = ToBan(rwho[q].ip, "hammer", {}, "earned")
      OBVIOUS
    <3>2. j \in Job /\ JobFits(q, j) /\ j.due = "earned" /\ j.at # "insert"
      BY <1>7, <3>1
    <3>3. pend' = [pend EXCEPT ![q] = {j}]
      BY <2>7, <3>1
    <3>4. BanInv'
      BY <1>5, <2>3, <2>4, <2>5, <2>7, <3>2, <3>3
    <3> QED BY <1>0, <2>4, <3>2, <3>3, <3>4
  <2> QED BY <2>3, <2>6, <2>7
<1>10. CASE RecordLogin(q)
  <2>1. PICK e : e = Counted(ev, "hammer_login", rwho[q].ip)
    OBVIOUS
  <2>2. Counters(e) /\ e["fail"] = ev["fail"]
    BY <1>1, <1>2, <1>8, <2>1
  <2>3. /\ ev' = e /\ conc' = conc /\ rwho' = rwho
        /\ \/ pend' = pend /\ rpc' = [rpc EXCEPT ![q] = "counted"]
           \/ /\ pend' = [pend EXCEPT ![q] = {ToBan(rwho[q].ip, "hammer_login", {}, "earned")}]
              /\ rpc' = [rpc EXCEPT ![q] = "idle"]
    BY <1>10, <2>1 DEF RecordLogin
  <2>4. Counters(ev') /\ ev'["fail"] = ev["fail"]
    BY <2>2, <2>3
  <2>5. {"counted", "idle"} \subseteq Stages
    BY DEF Stages
  <2>6. CASE pend' = pend /\ rpc' = [rpc EXCEPT ![q] = "counted"]
    BY <1>0, <1>6, <2>3, <2>4, <2>5, <2>6
  <2>7. CASE /\ pend' = [pend EXCEPT ![q] = {ToBan(rwho[q].ip, "hammer_login", {}, "earned")}]
             /\ rpc' = [rpc EXCEPT ![q] = "idle"]
    <3>1. PICK j : j = ToBan(rwho[q].ip, "hammer_login", {}, "earned")
      OBVIOUS
    <3>2. j \in Job /\ JobFits(q, j) /\ j.due = "earned" /\ j.at # "insert"
      BY <1>7, <3>1
    <3>3. pend' = [pend EXCEPT ![q] = {j}]
      BY <2>7, <3>1
    <3>4. BanInv'
      BY <1>5, <2>3, <2>4, <2>5, <2>7, <3>2, <3>3
    <3> QED BY <1>0, <2>4, <3>2, <3>3, <3>4
  <2> QED BY <2>3, <2>6, <2>7
<1>11. CASE Throttle(q)
  <2>1. PICK e : e = Counted(ev, "rate", rwho[q].ip)
    OBVIOUS
  <2>2. PICK f : f = IF rwho[q].login THEN Counted(e, "rate_login", rwho[q].ip) ELSE e
    OBVIOUS
  <2>3. Counters(e) /\ e["fail"] = ev["fail"]
    BY <1>1, <1>2, <1>8, <2>1
  <2>4. Counters(f) /\ f["fail"] = ev["fail"]
    BY <1>2, <1>8, <2>2, <2>3
  <2>5. /\ ev' \in {ev, f} /\ conc' = conc /\ rwho' = rwho /\ pend' = pend
        /\ \E s \in {"idle", "admitted"} : rpc' = [rpc EXCEPT ![q] = s]
    BY <1>11, <2>1, <2>2 DEF Throttle
  <2>6. Counters(ev') /\ ev'["fail"] = ev["fail"]
    BY <1>1, <2>4, <2>5
  <2>7. {"idle", "admitted"} \subseteq Stages
    BY DEF Stages
  <2> QED BY <1>0, <1>6, <2>5, <2>6, <2>7
<1>12. CASE PreCheckFails(q)
  <2>1. /\ ev' = ev /\ conc' = conc /\ rwho' = rwho /\ pend' = [pend EXCEPT ![q] = {}]
        /\ \E s \in {"idle", "untracked"} : rpc' = [rpc EXCEPT ![q] = s]
    BY <1>12 DEF PreCheckFails, NoJob
  <2>2. Counters(ev')
    BY <1>1, <2>1
  <2>3. {"idle", "untracked"} \subseteq Stages
    BY DEF Stages
  <2>5. PICK S : S = {} /\ pend' = [pend EXCEPT ![q] = S]
    BY <2>1
  <2>4. BanInv'
    BY <1>5, <2>1, <2>2, <2>3, <2>5
  <2>6. ev'["fail"] = ev["fail"] /\ \A j \in S : j.due = "earned" /\ j.at # "insert"
    BY <2>1, <2>5
  <2> QED BY <1>0, <2>4, <2>5, <2>6
<1> QED BY <1>4, <1>9, <1>10, <1>11, <1>12 DEF Request

LEMMA TickTyped == ASSUME BanInv, Tick PROVE BanInv'
<1>1. now' \in 1..MaxTime
  BY BanAssumption DEF Tick, BanInv, BanTypeOK
<1> QED BY <1>1 DEF Tick, banVars, requestVars, BanInv, BanTypeOK, Counters, JobsFit

LEMMA BanInvStep == BanInv /\ [BanNext]_engineVars => BanInv'
<1> SUFFICES ASSUME BanInv, [BanNext]_engineVars PROVE BanInv'
  OBVIOUS
<1>1. CASE UNCHANGED engineVars
  BY <1>1 DEF engineVars, banVars, requestVars, BanInv, BanTypeOK, Counters, JobsFit
<1>2. CASE \E l \in Lifters : Lift(l)
  BY <1>2, LiftTyped
<1>3. CASE \E x \in Threads : BanFind(x) \/ BanInsert(x)
  BY <1>3, ApplyTyped
<1>4. CASE \E b \in Banners : Login(b) \/ Decide(b)
  BY <1>4, EventTyped, BegunTyped DEF Login
<1>5. CASE \E c \in Clients : SignedIn(c)
  BY <1>5, SignedInTyped
<1>6. CASE \E i \in Ips, n \in 1..MaxLines : NginxTick(i, n)
  BY <1>6, SensorTyped
<1>7. CASE \E q \in Requests : Request(q)
  BY <1>7, RequestTyped
<1>8. CASE Tick
  BY <1>8, TickTyped
<1> QED BY <1>1, <1>2, <1>3, <1>4, <1>5, <1>6, <1>7, <1>8 DEF BanNext

(* Type correctness of the ban engine.                                      *)
THEOREM BansTypeCorrect == BanSpec => []BanTypeOK
<1>1. BanInv => BanTypeOK
  BY DEF BanInv
<1> QED BY <1>1, BanInvInit, BanInvStep, PTL DEF BanSpec

-----------------------------------------------------------------------------
(* What a ban rests on.                                                     *)

(* Targets whose counters are still to be cleared, or could not be.         *)
Unclear == uncleared \cup Lifting

(* A failure from before a target's last unblock is counted only when its   *)
(* counters are still to be cleared, or could not be.                       *)
FailsFresh == \A t \in Targets \ Unclear : \A e \in ev["fail"][t] : ~e.old

(* No thread is about to make a ban that was not earned when it was decided.*)
DecisionsEarned == \A x \in Threads : \A j \in pend[x] : j.due # "unearned"

FailsInv == BanInv /\ FailsFresh /\ DecisionsEarned

(* A step that adds no old failure and leaves the unblocks alone.           *)
LEMMA FreshKept ==
    ASSUME FailsFresh, UNCHANGED <<clearing, uncleared>>,
           \A t \in Targets : \A r \in ev'["fail"][t] : r \in ev["fail"][t] \/ ~r.old
    PROVE  FailsFresh'
BY DEF FailsFresh, Unclear, Lifting

(* A step that changes one thread's job.                                    *)
LEMMA DecisionsKept ==
    ASSUME BanInv, DecisionsEarned, NEW x \in Threads, NEW S, pend' = [pend EXCEPT ![x] = S],
           \A j \in S : j.due # "unearned"
    PROVE  DecisionsEarned'
BY BanInvFacts DEF DecisionsEarned

(* Full thresholds of fresh failures are earned.                            *)
LEMMA ReachedIsEarned ==
    ASSUME NEW e, NEW t, Reached(e, "fail", t),
           t \in Unclear \/ \A r \in e["fail"][t] : ~r.old
    PROVE  Earned(e, "fail", t)
<1>1. CASE t \in Unclear
  BY <1>1 DEF Earned, Unclear
<1>2. CASE \A r \in e["fail"][t] : ~r.old
  <2>1. NewEvents(e, "fail", t) = InWindow("fail", e["fail"][t])
    BY <1>2 DEF NewEvents, InWindow
  <2> QED BY <2>1 DEF Earned, Reached, Count
<1> QED BY <1>1, <1>2

LEMMA LiftKeepsFresh ==
    ASSUME FailsInv, NEW l \in Lifters, Lift(l)
    PROVE  FailsFresh' /\ DecisionsEarned'
<1>1. /\ BanInv /\ FailsFresh /\ DecisionsEarned /\ Counters(ev)
      /\ clearing \in [Lifters -> SUBSET Targets] /\ pend \in [Threads -> SUBSET Job]
      /\ "fail" \in Kinds
  BY BanInvFacts DEF FailsInv, Kinds
<1>2. CASE LiftExpired(l) \/ \E i \in DOMAIN bans : LiftBan(l, i)
  <2>1. PICK ts : /\ clearing[l] = {} /\ clearing' = [clearing EXCEPT ![l] = ts]
                  /\ ev' = MarkOld(ts) /\ uncleared' = uncleared /\ pend' = MarkDecisions(ts)
    BY <1>2 DEF LiftExpired, LiftBan
  <2>2. Unclear' = Unclear \cup ts
    BY <1>1, <2>1 DEF Unclear, Lifting
  <2>3. \A t \in Targets \ ts : ev'["fail"][t] = ev["fail"][t]
    BY <1>1, <2>1 DEF MarkOld
  <2>4. FailsFresh'
    BY <1>1, <2>2, <2>3 DEF FailsFresh
  <2>5. ASSUME NEW x \in Threads, NEW o \in pend'[x] PROVE o.due # "unearned"
    <3>1. PICK j \in pend[x] : o = Overtaken(j, ts)
      BY <2>1, <2>5 DEF MarkDecisions
    <3>2. j \in Job /\ j.due # "unearned"
      BY <1>1, <3>1 DEF DecisionsEarned
    <3> QED BY <3>1, <3>2, OvertakenJob
  <2>6. DecisionsEarned'
    BY <2>5 DEF DecisionsEarned
  <2> QED BY <2>4, <2>6
<1>3. CASE ClearCounters(l)
  <2>1. \A t \in Targets : ev'["fail"][t] = IF t \in clearing[l] THEN {} ELSE ev["fail"][t]
    BY <1>1, <1>3 DEF ClearCounters, Counters
  <2>2. clearing' = [clearing EXCEPT ![l] = {}] /\ uncleared' = uncleared /\ pend' = pend
    BY <1>3 DEF ClearCounters
  <2>3. Unclear \subseteq Unclear' \cup clearing[l]
    BY <1>1, <2>2 DEF Unclear, Lifting
  <2> QED BY <1>1, <2>1, <2>2, <2>3 DEF FailsFresh, DecisionsEarned
<1>4. CASE ClearFails(l)
  <2>1. /\ clearing' = [clearing EXCEPT ![l] = {}] /\ uncleared' = uncleared \cup clearing[l]
        /\ ev' = ev /\ pend' = pend
    BY <1>4 DEF ClearFails
  <2>2. Unclear \subseteq Unclear'
    BY <1>1, <2>1 DEF Unclear, Lifting
  <2> QED BY <1>1, <2>1, <2>2 DEF FailsFresh, DecisionsEarned
<1> QED BY <1>2, <1>3, <1>4 DEF Lift

LEMMA CountKeepsFresh ==
    ASSUME FailsInv, NEW b \in Banners, CountEvent(b)
    PROVE  FailsFresh' /\ DecisionsEarned'
<1>1. BanInv /\ FailsFresh /\ DecisionsEarned /\ Counters(ev) /\ now \in Nat /\ b \in Threads
  BY BanInvFacts, ThreadsAre DEF FailsInv
<1>2. PICK j \in pend[b] : CountsJob(b, j)
  BY EventCounted
<1>3. PICK k, t : k = j.ban.rule /\ t = j.ban.target
  OBVIOUS
<1>4. /\ j \in Job /\ JobFits(b, j) /\ j.key \in Targets /\ t \in Targets
      /\ j.then \in SUBSET Users
  BY <1>1, <1>3, BanInvFacts DEF Job
<1>5. /\ j.at = "count" /\ k \in Counting /\ k \in Kinds /\ k \in Rules /\ "fail" \in Kinds
      /\ k = "fail" => j.key = t
  BY <1>2, <1>3, <1>4, CountingRules DEF CountsJob, JobFits, Counting
<1>6. ev' = Recorded(ev, k, j.key)
  BY <1>2, <1>3 DEF CountsJob
<1>7. \A a \in Targets : \A r \in ev'["fail"][a] : r \in ev["fail"][a] \/ ~r.old
  BY <1>1, <1>4, <1>5, <1>6, RecordedRows
<1>8. UNCHANGED <<clearing, uncleared>>
  BY EventCounted
<1>9. FailsFresh'
  BY <1>1, <1>7, <1>8, FreshKept
<1>10. \A r \in Rest(j) : r.due = "earned"
  BY <1>4, RestMade
<1>11. Reached(ev', k, j.key) => Due(ev', k, t) = "earned"
  <2>1. CASE k # "fail"
    BY <2>1 DEF Due
  <2>2. CASE k = "fail" /\ Reached(ev', k, j.key)
    <3>1. Unclear' = Unclear
      BY <1>8 DEF Unclear, Lifting
    <3>2. t \in Unclear \/ \A r \in ev'["fail"][t] : ~r.old
      BY <1>4, <1>9, <3>1 DEF FailsFresh
    <3>3. Earned(ev', "fail", t)
      BY <1>5, <2>2, <3>2, ReachedIsEarned
    <3> QED BY <2>2, <3>3 DEF Due
  <2> QED BY <2>1, <2>2
<1>12. Reached(ev', k, j.key) => ToBan(t, k, j.then, Due(ev', k, t)).due = "earned"
  BY <1>11 DEF ToBan, JobFor
<1>13. PICK S : /\ pend' = [pend EXCEPT ![b] = S]
                /\ \/ S = {ToBan(t, k, j.then, Due(ev', k, t))} /\ Reached(ev', k, j.key)
                   \/ S = Rest(j)
  BY <1>2, <1>3 DEF CountsJob
<1>14. \A r \in S : r.due # "unearned"
  BY <1>10, <1>12, <1>13
<1> QED BY <1>1, <1>9, <1>13, <1>14, DecisionsKept

LEMMA ApplyKeepsFresh ==
    ASSUME FailsInv, NEW x \in Threads, BanFind(x) \/ BanInsert(x)
    PROVE  FailsFresh' /\ DecisionsEarned'
<1>1. BanInv /\ FailsFresh /\ DecisionsEarned /\ now \in Nat /\ bans \in Seq(Ban)
  BY BanInvFacts DEF FailsInv
<1>2. UNCHANGED <<ev, clearing, uncleared>>
  BY DEF BanFind, BanInsert
<1>3. FailsFresh'
  BY <1>1, <1>2, FreshKept
<1>4. PICK j \in pend[x] :
         LET f == [j EXCEPT !.at = "insert", !.ban = BanOf(j.ban.target, j.ban.rule)]
         IN  \/ pend' = [pend EXCEPT ![x] = Rest(j)]
             \/ pend' = [pend EXCEPT ![x] = {f}]
  BY DEF BanFind, BanInsert
<1>5. j \in Job /\ JobFits(x, j) /\ j.due # "unearned"
  BY <1>1, BanInvFacts DEF DecisionsEarned
<1>6. PICK f : f = [j EXCEPT !.at = "insert", !.ban = BanOf(j.ban.target, j.ban.rule)]
  OBVIOUS
<1>7. f.due = j.due
  BY <1>1, <1>5, <1>6, FoundMade
<1>8. \A r \in Rest(j) : r.due = "earned"
  BY <1>5, RestMade
<1>9. PICK S : pend' = [pend EXCEPT ![x] = S] /\ S \in {Rest(j), {f}}
  BY <1>4, <1>6
<1>10. \A r \in S : r.due # "unearned"
  BY <1>5, <1>7, <1>8, <1>9
<1> QED BY <1>1, <1>3, <1>9, <1>10, DecisionsKept

LEMMA FailsInvStep == FailsInv /\ [BanNext]_engineVars => FailsInv'
<1> SUFFICES ASSUME FailsInv, [BanNext]_engineVars PROVE FailsFresh' /\ DecisionsEarned'
  BY BanInvStep DEF FailsInv
<1>1. /\ BanInv /\ FailsFresh /\ DecisionsEarned /\ Counters(ev) /\ "fail" \in Kinds
      /\ \A b \in Banners : b \in Threads
  BY BanInvFacts, ThreadsAre DEF FailsInv, Kinds
<1>2. CASE UNCHANGED engineVars \/ Tick
  <2>1. UNCHANGED <<ev, clearing, uncleared, pend>>
    BY <1>2 DEF engineVars, banVars, Tick
  <2> QED BY <1>1, <2>1, FreshKept DEF DecisionsEarned
<1>3. CASE \E l \in Lifters : Lift(l)
  BY <1>3, LiftKeepsFresh
<1>4. CASE \E x \in Threads : BanFind(x) \/ BanInsert(x)
  BY <1>4, ApplyKeepsFresh
<1>5. ASSUME NEW b \in Banners, Login(b) \/ Decide(b) PROVE FailsFresh' /\ DecisionsEarned'
  <2>1. CASE CountEvent(b)
    BY <2>1, CountKeepsFresh
  <2>2. CASE ~CountEvent(b)
    <3>1. UNCHANGED <<ev, clearing, uncleared>>
      BY <1>1, <1>5, <2>2, BegunTyped DEF Login
    <3>2. PICK S : pend' = [pend EXCEPT ![b] = S] /\ \A j \in S : j.due = "earned"
      BY <1>1, <1>5, <2>2, BegunTyped DEF Login
    <3> QED BY <1>1, <3>1, <3>2, FreshKept, DecisionsKept
  <2> QED BY <2>1, <2>2
<1>6. ASSUME NEW c \in Clients, SignedIn(c) PROVE FailsFresh' /\ DecisionsEarned'
  <2>1. UNCHANGED <<clearing, uncleared, pend>>
    BY <1>6 DEF SignedIn, banVars
  <2>2. \A t \in Targets : ev'["fail"][t] = IF t \in {c.ip, c.user} THEN {} ELSE ev["fail"][t]
    BY <1>1, <1>6 DEF SignedIn, Counters
  <2> QED BY <1>1, <2>1, <2>2, FreshKept DEF DecisionsEarned
<1>7. ASSUME NEW i \in Ips, NEW n \in 1..MaxLines, NginxTick(i, n)
      PROVE  FailsFresh' /\ DecisionsEarned'
  <2>1. UNCHANGED <<clearing, uncleared>> /\ ev'["fail"] = ev["fail"]
    BY <1>1, <1>7, SensorTyped
  <2>2. PICK S : pend' = [pend EXCEPT ![Sensor] = S] /\ \A j \in S : j.due = "earned"
    BY <1>1, <1>7, SensorTyped
  <2> QED BY <1>1, <2>1, <2>2, FreshKept, DecisionsKept, ThreadsAre
<1>8. ASSUME NEW q \in Requests, Request(q) PROVE FailsFresh' /\ DecisionsEarned'
  <2>1. UNCHANGED <<clearing, uncleared>> /\ ev'["fail"] = ev["fail"]
    BY <1>1, <1>8, RequestTyped
  <2>2. CASE pend' = pend
    BY <1>1, <2>1, <2>2, FreshKept DEF DecisionsEarned
  <2>3. CASE \E S : pend' = [pend EXCEPT ![q] = S] /\ \A j \in S : j.due = "earned"
    BY <1>1, <2>1, <2>3, FreshKept, DecisionsKept, ThreadsAre
  <2> QED BY <1>1, <1>8, <2>2, <2>3, RequestTyped
<1> QED BY <1>2, <1>3, <1>4, <1>5, <1>6, <1>7, <1>8 DEF BanNext

LEMMA FailsInvAlways == BanSpec => []FailsInv
<1>1. BanInit => FailsInv
  <2> SUFFICES ASSUME BanInit PROVE FailsFresh /\ DecisionsEarned
    BY BanInvInit DEF FailsInv
  <2> QED BY DEF BanInit, FailsFresh, DecisionsEarned, NoJob, Kinds
<1> QED BY <1>1, FailsInvStep, PTL DEF BanSpec

(* Which bans a step makes: one that a thread has decided, or one on an     *)
(* account whose count has just reached the threshold.                      *)
MadeByJob(x, b) == BanInsert(x) /\ \E j \in pend[x] : j.at = "insert" /\ j.ban = b
MadeByCount(d, b) ==
    /\ CountEvent(d)
    /\ \E j \in pend[d] :
          /\ j.at = "count" /\ b.rule = j.ban.rule /\ b.target = j.ban.target
          /\ Reached(ev', j.ban.rule, j.key)

LEMMA RowsAppended ==
    ASSUME NEW bs \in Seq(Ban), NEW new \in Ban
    PROVE  \A n \in DOMAIN Append(bs, new) \ DOMAIN bs : Append(bs, new)[n] = new
OBVIOUS

LEMMA BansMade ==
    ASSUME BanInv, BanNext, NEW b \in Made
    PROVE  \/ \E x \in Threads : MadeByJob(x, b)
           \/ \E d \in Banners : MadeByCount(d, b)
<1>1. bans \in Seq(Ban) /\ now \in Nat
  BY BanInvFacts
<1>2. PICK n \in DOMAIN bans' \ DOMAIN bans : b = bans'[n]
  BY DEF Made
<1>3. ASSUME DOMAIN bans' = DOMAIN bans PROVE FALSE
  BY <1>2, <1>3
<1>4. ASSUME NEW x \in Threads, BanInsert(x) PROVE MadeByJob(x, b)
  <2>1. PICK j \in pend[x] : j.at = "insert" /\ bans' = Append(bans, j.ban)
    BY <1>4 DEF BanInsert
  <2>2. j.ban \in Ban
    BY BanInvFacts
  <2>3. b = j.ban
    BY <1>1, <1>2, <2>1, <2>2, RowsAppended
  <2> QED BY <1>4, <2>1, <2>3 DEF MadeByJob
<1>5. ASSUME NEW d \in Banners, CountEvent(d) PROVE MadeByCount(d, b)
  <2>1. PICK j \in pend[d] : CountsJob(d, j)
    BY <1>5, EventCounted
  <2>2. j.at = "count" /\ bans' = Append(bans, BanOf(j.ban.target, j.ban.rule))
        /\ Reached(ev', j.ban.rule, j.key)
    BY <1>3, <2>1 DEF CountsJob
  <2>3. j.ban.target \in Targets /\ j.ban.rule \in Rules
    BY BanInvFacts, ThreadsAre
  <2>4. PICK new \in Ban : /\ new = BanOf(j.ban.target, j.ban.rule)
                           /\ new.rule = j.ban.rule /\ new.target = j.ban.target
    BY <1>1, <2>3, BanOfTyped
  <2>5. b = new
    BY <1>1, <1>2, <2>2, <2>4, RowsAppended
  <2> QED BY <1>5, <2>2, <2>4, <2>5 DEF MadeByCount
<1>6. CASE \E l \in Lifters : Lift(l)
  <2>1. DOMAIN bans' = DOMAIN bans
    BY <1>1, <1>6 DEF Lift, LiftExpired, LiftBan, ClearCounters, ClearFails
  <2> QED BY <1>3, <2>1
<1>7. CASE \/ \E x \in Threads : BanFind(x)
           \/ \E d \in Banners : ~CountEvent(d) /\ (Login(d) \/ Decide(d))
           \/ \E c \in Clients : SignedIn(c)
           \/ \E i \in Ips, m \in 1..MaxLines : NginxTick(i, m)
           \/ \E q \in Requests : Request(q)
           \/ Tick
  <2>1. bans' = bans
    <3>1. CASE \E d \in Banners : ~CountEvent(d) /\ (Login(d) \/ Decide(d))
      BY <3>1, BegunTyped DEF Login
    <3>2. CASE \E i \in Ips, m \in 1..MaxLines : NginxTick(i, m)
      BY <3>2, SensorTyped
    <3>3. CASE \E q \in Requests : Request(q)
      BY <3>3, RequestTyped
    <3>4. CASE (\E x \in Threads : BanFind(x)) \/ (\E c \in Clients : SignedIn(c)) \/ Tick
      BY <3>4 DEF BanFind, SignedIn, Tick, banVars
    <3> QED BY <1>7, <3>1, <3>2, <3>3, <3>4
  <2> QED BY <1>3, <2>1
<1> QED BY <1>4, <1>5, <1>6, <1>7 DEF BanNext

(* Unblocking gives a fresh start: for any rules, threads and clients, a    *)
(* failed-login ban that is not was decided before the unblock.             *)
THEOREM FailBansAreEarned == BanSpec => FailBansEarned
<1>1. ASSUME FailsInv, FailsInv', BanNext, NEW b \in Made, b.rule = "fail"
      PROVE  \/ DecidedBy(b) # {} /\ \A j \in DecidedBy(b) : j.due # "unearned"
             \/ DecidedBy(b) = {} /\ Earned(ev', "fail", b.target)
  <2>1. \A j \in DecidedBy(b) : j.due # "unearned"
    BY <1>1 DEF DecidedBy, FailsInv, DecisionsEarned
  <2>2. ASSUME NEW x \in Threads, MadeByJob(x, b) PROVE DecidedBy(b) # {}
    BY <2>2 DEF MadeByJob, DecidedBy
  <2>3. ASSUME NEW d \in Banners, MadeByCount(d, b) PROVE Earned(ev', "fail", b.target)
    <3>1. PICK j \in pend[d] : /\ j.at = "count" /\ b.rule = j.ban.rule
                               /\ b.target = j.ban.target /\ Reached(ev', j.ban.rule, j.key)
      BY <2>3 DEF MadeByCount
    <3>2. JobFits(d, j) /\ j.ban.target \in Targets
      BY <1>1, BanInvFacts, ThreadsAre DEF FailsInv
    <3>3. Reached(ev', "fail", b.target) /\ b.target \in Targets
      BY <1>1, <3>1, <3>2 DEF JobFits
    <3>4. Unclear' = Unclear
      BY <2>3, EventCounted DEF MadeByCount, Unclear, Lifting
    <3>5. b.target \in Unclear \/ \A r \in ev'["fail"][b.target] : ~r.old
      BY <1>1, <3>3, <3>4 DEF FailsInv, FailsFresh
    <3> QED BY <3>3, <3>5, ReachedIsEarned
  <2>4. BanInv
    BY <1>1 DEF FailsInv
  <2> QED BY <1>1, <2>1, <2>2, <2>3, <2>4, BansMade
<1>2. FailsInv /\ FailsInv' /\ [BanNext]_engineVars =>
        [\A b \in Made : b.rule = "fail" =>
          \/ DecidedBy(b) # {} /\ \A j \in DecidedBy(b) : j.due # "unearned"
          \/ DecidedBy(b) = {} /\ Earned(ev', "fail", b.target)]_engineVars
  BY <1>1
<1> QED BY <1>2, FailsInvAlways, PTL DEF BanSpec, FailBansEarned

-----------------------------------------------------------------------------
(* The ladder.                                                              *)

(* An nginx ban on the target would be the next rung.                       *)
NextRung(b) ==
    /\ \A n \in NginxBans(b.target) : ~bans[n].active
    /\ b.perm => Cardinality(NginxBans(b.target)) + 1 >= PermanentAfter

(* It is so of a ban the sensor has decided, since only the sensor makes    *)
(* any.                                                                     *)
RungsDecided ==
    \A x \in Threads : \A j \in pend[x] :
        (j.at = "insert" /\ j.ban.rule = "nginx_429") => NextRung(j.ban)

LadderInv == BanInv /\ RungsDecided

(* The nginx bans stay, and none comes back to life.                        *)
RungsKept == \A t : /\ NginxBans(t)' = NginxBans(t)
                    /\ \A n \in NginxBans(t) : bans'[n].active => bans[n].active

LEMMA NextRungKept == ASSUME RungsKept, NEW b, NextRung(b) PROVE NextRung(b)'
BY DEF RungsKept, NextRung

(* Another ban is inserted.                                                 *)
LEMMA OtherBanInserted ==
    ASSUME bans \in Seq(Ban), NEW new \in Ban, new.rule # "nginx_429",
           bans' = Append(bans, new)
    PROVE  RungsKept
<1>1. /\ DOMAIN bans' = DOMAIN bans \cup {Len(bans) + 1} /\ bans'[Len(bans) + 1] = new
      /\ \A n \in DOMAIN bans : bans'[n] = bans[n]
  OBVIOUS
<1> QED BY <1>1 DEF RungsKept, NginxBans

LEMMA LiftKeepsRungs ==
    ASSUME BanInv, NEW l \in Lifters, Lift(l)
    PROVE  RungsKept
<1>1. bans \in Seq(Ban) /\ \A n \in DOMAIN bans : bans[n] \in Ban
  BY BanInvFacts
<1>2. /\ DOMAIN bans' = DOMAIN bans
      /\ \A n \in DOMAIN bans :
            bans'[n] = bans[n] \/ bans'[n] = [bans[n] EXCEPT !.active = FALSE]
  BY <1>1 DEF Lift, LiftExpired, LiftBan, ClearCounters, ClearFails
<1>3. \A n \in DOMAIN bans : /\ bans'[n].target = bans[n].target /\ bans'[n].rule = bans[n].rule
                             /\ bans'[n].active => bans[n].active
  BY <1>1, <1>2 DEF Ban
<1> QED BY <1>2, <1>3 DEF RungsKept, NginxBans

(* No ban is settled by the step, and the rungs stay.                       *)
LEMMA RungsStay ==
    ASSUME LadderInv, RungsKept, NEW x \in Threads, NEW S,
           pend' = [pend EXCEPT ![x] = S], \A j \in S : j.at # "insert"
    PROVE  RungsDecided'
<1> SUFFICES ASSUME NEW y \in Threads, NEW j \in pend'[y], j.at = "insert",
                    j.ban.rule = "nginx_429"
             PROVE  NextRung(j.ban)'
  BY DEF RungsDecided, NextRung
<1>1. y # x /\ j \in pend[y]
  BY BanInvFacts DEF LadderInv
<1> QED BY <1>1, NextRungKept DEF LadderInv, RungsDecided

LEMMA LadderInvStep == LadderInv /\ [BanNext]_engineVars => LadderInv'
<1> SUFFICES ASSUME LadderInv, [BanNext]_engineVars PROVE RungsDecided'
  BY BanInvStep DEF LadderInv
<1>1. BanInv /\ RungsDecided /\ bans \in Seq(Ban) /\ now \in Nat
      /\ pend \in [Threads -> SUBSET Job]
  BY BanInvFacts DEF LadderInv
<1>2. ASSUME bans' = bans PROVE RungsKept
  BY <1>2 DEF RungsKept, NginxBans
<1>3. ASSUME bans' = bans, pend' = pend PROVE RungsDecided'
  BY <1>1, <1>2, <1>3, NextRungKept DEF RungsDecided, NextRung, NginxBans
<1>4. ASSUME NEW l \in Lifters, Lift(l) PROVE RungsDecided'
  <2>1. RungsKept
    BY <1>1, <1>4, LiftKeepsRungs
  <2>2. \A y \in Threads : \A o \in pend'[y] :
           \E j \in pend[y] : o.at = j.at /\ o.ban = j.ban
    <3>1. CASE pend' = pend
      BY <3>1
    <3>2. ASSUME NEW ts, pend' = MarkDecisions(ts), NEW y \in Threads, NEW o \in pend'[y]
          PROVE  \E j \in pend[y] : o.at = j.at /\ o.ban = j.ban
      <4>1. PICK j \in pend[y] : o = Overtaken(j, ts)
        BY <3>2 DEF MarkDecisions
      <4>2. j \in Job
        BY <1>1
      <4> QED BY <4>1, <4>2, OvertakenJob
    <3> QED BY <1>4, <3>1, <3>2 DEF Lift, LiftExpired, LiftBan, ClearCounters, ClearFails
  <2>3. ASSUME NEW y \in Threads, NEW o \in pend'[y], o.at = "insert",
               o.ban.rule = "nginx_429"
        PROVE  NextRung(o.ban)'
    <3>1. PICK j \in pend[y] : o.at = j.at /\ o.ban = j.ban
      BY <2>2, <2>3
    <3>2. NextRung(o.ban)
      BY <1>1, <2>3, <3>1 DEF RungsDecided
    <3> QED BY <2>1, <3>2, NextRungKept
  <2> QED BY <2>3 DEF RungsDecided, NextRung
<1>5. ASSUME NEW x \in Threads, BanInsert(x) PROVE RungsDecided'
  <2>1. PICK j \in pend[x] : /\ j.at = "insert" /\ bans' = Append(bans, j.ban)
                             /\ pend' = [pend EXCEPT ![x] = Rest(j)]
    BY <1>5 DEF BanInsert
  <2>2. j \in Job /\ JobFits(x, j) /\ j.ban \in Ban
    BY <1>1, BanInvFacts
  <2>3. \A r \in Rest(j) : r.at # "insert"
    BY <2>2, RestMade
  <2>4. CASE j.ban.rule # "nginx_429"
    <3>1. RungsKept
      BY <1>1, <2>1, <2>2, <2>4, OtherBanInserted
    <3> QED BY <2>1, <2>3, <3>1, RungsStay
  <2>5. CASE j.ban.rule = "nginx_429"
    <3>1. x = Sensor
      BY <2>2, <2>5 DEF JobFits
    <3>2. ASSUME NEW y \in Threads, NEW o \in pend'[y], o.at = "insert",
                 o.ban.rule = "nginx_429"
          PROVE  FALSE
      <4>1. CASE y = x
        BY <1>1, <2>1, <2>3, <3>2, <4>1
      <4>2. CASE y # x
        <5>1. o \in pend[y] /\ JobFits(y, o)
          BY <1>1, <2>1, <3>2, <4>2, BanInvFacts
        <5> QED BY <3>1, <3>2, <4>2, <5>1 DEF JobFits
      <4> QED BY <4>1, <4>2
    <3> QED BY <3>2 DEF RungsDecided
  <2> QED BY <2>4, <2>5
<1>6. ASSUME NEW x \in Threads, BanFind(x) PROVE RungsDecided'
  <2>1. PICK j \in pend[x] :
           LET f == [j EXCEPT !.at = "insert", !.ban = BanOf(j.ban.target, j.ban.rule)]
           IN  pend' = [pend EXCEPT ![x] = IF ActiveOn(bans, j.ban.target) THEN Rest(j) ELSE {f}]
    BY <1>6 DEF BanFind
  <2>2. j \in Job /\ JobFits(x, j) /\ j.ban.target \in Targets /\ j.ban.rule \in Rules
    BY <1>1, BanInvFacts
  <2>3. bans' = bans /\ RungsKept
    BY <1>2, <1>6 DEF BanFind
  <2>4. CASE ActiveOn(bans, j.ban.target)
    <3>1. \A r \in Rest(j) : r.at # "insert"
      BY <2>2, RestMade
    <3> QED BY <2>1, <2>3, <2>4, <3>1, RungsStay
  <2>5. CASE ~ActiveOn(bans, j.ban.target)
    <3>1. PICK f : f = [j EXCEPT !.at = "insert", !.ban = BanOf(j.ban.target, j.ban.rule)]
      OBVIOUS
    <3>2. f.ban = BanOf(j.ban.target, j.ban.rule) /\ pend' = [pend EXCEPT ![x] = {f}]
      BY <1>1, <2>1, <2>2, <2>5, <3>1, FoundMade
    <3>3. f.ban.rule = "nginx_429" => NextRung(f.ban)
      <4>1. /\ f.ban.rule = j.ban.rule /\ f.ban.target = j.ban.target
            /\ f.ban.rule = "nginx_429" =>
                  f.ban.perm = IsPermanent(Cardinality(NginxBans(f.ban.target)))
        BY <1>1, <2>2, <3>2, BanOfTyped
      <4> QED BY <2>5, <4>1 DEF NextRung, ActiveOn, NginxBans, IsPermanent
    <3>4. ASSUME NEW y \in Threads, NEW o \in pend'[y], o.at = "insert",
                 o.ban.rule = "nginx_429"
          PROVE  NextRung(o.ban)
      <4>1. CASE y = x
        BY <1>1, <3>2, <3>3, <3>4, <4>1
      <4>2. CASE y # x
        BY <1>1, <3>2, <3>4, <4>2 DEF RungsDecided
      <4> QED BY <4>1, <4>2
    <3>5. ASSUME NEW y \in Threads, NEW o \in pend'[y], o.at = "insert",
                 o.ban.rule = "nginx_429"
          PROVE  NextRung(o.ban)'
      BY <2>3, <3>4, <3>5, NextRungKept
    <3> QED BY <3>5 DEF RungsDecided, NextRung
  <2> QED BY <2>4, <2>5
<1>7. ASSUME NEW b \in Banners, CountEvent(b) PROVE RungsDecided'
  <2>1. PICK j \in pend[b] : CountsJob(b, j)
    BY <1>7, EventCounted
  <2>2. /\ b \in Threads /\ j \in Job /\ JobFits(b, j) /\ j.at = "count"
        /\ j.ban.target \in Targets /\ j.ban.rule \in Rules
    BY <1>1, <2>1, BanInvFacts, ThreadsAre DEF CountsJob
  <2>3. j.ban.rule # "nginx_429"
    BY <2>2 DEF JobFits, Counting
  <2>4. RungsKept
    <3>1. PICK new \in Ban : /\ new = BanOf(j.ban.target, j.ban.rule)
                             /\ new.rule = j.ban.rule
      BY <1>1, <2>2, BanOfTyped
    <3>2. bans' = bans \/ bans' = Append(bans, new)
      BY <2>1, <3>1 DEF CountsJob
    <3> QED BY <1>1, <1>2, <2>3, <3>1, <3>2, OtherBanInserted
  <2>5. PICK S : pend' = [pend EXCEPT ![b] = S] /\ \A r \in S : r.at # "insert"
    <3>1. \A r \in Rest(j) : r.at # "insert"
      BY <2>2, RestMade
    <3>2. \A t, k, then, d : ToBan(t, k, then, d).at # "insert"
      BY DEF ToBan, JobFor
    <3> QED BY <2>1, <3>1, <3>2 DEF CountsJob
  <2> QED BY <2>2, <2>4, <2>5, RungsStay
<1>8. ASSUME NEW b \in Banners, ~CountEvent(b), Login(b) \/ Decide(b) PROVE RungsDecided'
  <2>1. bans' = bans /\ b \in Threads
    BY <1>1, <1>8, BegunTyped, ThreadsAre DEF Login
  <2>2. PICK S : pend' = [pend EXCEPT ![b] = S] /\ \A r \in S : r.at # "insert"
    BY <1>1, <1>8, BegunTyped DEF Login
  <2> QED BY <1>2, <2>1, <2>2, RungsStay
<1>9. CASE \E c \in Clients : SignedIn(c)
  BY <1>3, <1>9 DEF SignedIn, banVars
<1>10. ASSUME NEW i \in Ips, NEW n \in 1..MaxLines, NginxTick(i, n) PROVE RungsDecided'
  <2>1. bans' = bans /\ Sensor \in Threads
    BY <1>1, <1>10, SensorTyped, ThreadsAre
  <2>2. PICK S : pend' = [pend EXCEPT ![Sensor] = S] /\ \A r \in S : r.at # "insert"
    BY <1>1, <1>10, SensorTyped
  <2> QED BY <1>2, <2>1, <2>2, RungsStay
<1>11. ASSUME NEW q \in Requests, Request(q) PROVE RungsDecided'
  <2>1. bans' = bans /\ q \in Threads
    BY <1>1, <1>11, RequestTyped, ThreadsAre
  <2>2. CASE pend' = pend
    BY <1>3, <2>1, <2>2
  <2>3. CASE \E S : pend' = [pend EXCEPT ![q] = S] /\ \A r \in S : r.at # "insert"
    BY <1>2, <2>1, <2>3, RungsStay
  <2> QED BY <1>1, <1>11, <2>2, <2>3, RequestTyped
<1>12. CASE Tick \/ UNCHANGED engineVars
  BY <1>3, <1>12 DEF Tick, engineVars, banVars
<1> QED BY <1>4, <1>5, <1>6, <1>7, <1>8, <1>9, <1>10, <1>11, <1>12 DEF BanNext

LEMMA LadderInvAlways == BanSpec => []LadderInv
<1>1. BanInit => LadderInv
  BY BanInvInit DEF BanInit, LadderInv, RungsDecided, NoJob
<1> QED BY <1>1, LadderInvStep, PTL DEF BanSpec

(* One ended ban at a time up the ladder, although the ban is inserted some *)
(* steps after the ladder was read.                                         *)
THEOREM LadderIsClimbed == BanSpec => LadderClimbed
<1>1. ASSUME LadderInv, BanNext, NEW b \in Made, b.rule = "nginx_429"
      PROVE  NextRung(b)
  <2>1. BanInv /\ RungsDecided
    BY <1>1 DEF LadderInv
  <2>2. ASSUME NEW x \in Threads, MadeByJob(x, b) PROVE NextRung(b)
    BY <1>1, <2>1, <2>2 DEF MadeByJob, RungsDecided
  <2>3. ASSUME NEW d \in Banners, MadeByCount(d, b) PROVE FALSE
    <3>1. PICK j \in pend[d] : j.at = "count" /\ b.rule = j.ban.rule
      BY <2>3 DEF MadeByCount
    <3>2. JobFits(d, j)
      BY <2>1, BanInvFacts, ThreadsAre
    <3> QED BY <1>1, <3>1, <3>2 DEF JobFits, Counting
  <2> QED BY <1>1, <2>1, <2>2, <2>3, BansMade
<1>2. LadderInv /\ [BanNext]_engineVars =>
        [\A b \in Made : b.rule = "nginx_429" =>
          /\ \A n \in NginxBans(b.target) : ~bans[n].active
          /\ b.perm => Cardinality(NginxBans(b.target)) + 1 >= PermanentAfter]_engineVars
  BY <1>1 DEF NextRung
<1> QED BY <1>2, LadderInvAlways, PTL DEF BanSpec, LadderClimbed

-----------------------------------------------------------------------------
(* Devices: numbers, and functions defined from one number to the next.     *)

(* A set of naturals that is not empty has a least element ...              *)
LEMMA LeastOfSet ==
    ASSUME NEW S, S \subseteq Nat, S # {}
    PROVE  \E m \in S : \A n \in S : m <= n
<1>1. PICK m \in S : \A n \in S : <<n, m>> \notin OpToRel(<, Nat)
  BY WFMin, NatLessThanWellFounded, Zenon
<1>2. \A n \in S : ~(n < m)
  BY <1>1 DEF OpToRel
<1> QED BY <1>2

(* ... and, when it is bounded, a greatest one.                             *)
LEMMA GreatestOfSet ==
    ASSUME NEW S, S # {}, NEW N \in Nat, S \subseteq 0..N
    PROVE  \E m \in S : \A n \in S : n <= m
<1> DEFINE T == {k \in 0..N : N - k \in S}
<1>1. T \subseteq Nat /\ \A n \in S : N - n \in T
  <2>1. \A n \in S : n \in 0..N /\ N - n \in 0..N /\ N - (N - n) = n
    OBVIOUS
  <2> QED BY <2>1
<1>2. PICK k \in T : \A j \in T : k <= j
  <2> HIDE DEF T
  <2> QED BY <1>1, LeastOfSet
<1>3. \A n \in S : n <= N - k
  BY <1>1, <1>2
<1> QED BY <1>3

(* Identifiers are numbers, from 1.                                         *)
LEMMA IdsAreNumbers == MaxRows \in Nat \ {0} /\ Ids \subseteq Nat /\ 1 \in Ids
  BY DevicesAssumption DEF Ids

(* What the fields of a row hold; no row is a row without a lock or hits.   *)
LEMMA RowFields ==
    /\ \A r \in DeviceRow : /\ r.key \in Keys /\ r.st \in Statuses /\ r.lock \in BOOLEAN
                            /\ r.n \in Nat
    /\ NoRow \in DeviceRow /\ ~NoRow.lock /\ NoRow.n = 0
    /\ NoRows \in [Ids -> DeviceRow] /\ \A i \in Ids : NoRows[i] = NoRow
    /\ LegacyOwner \in Mailboxes /\ Legacy \in Keys /\ Mailboxes \subseteq Keys
  BY DevicesAssumption DEF DeviceRow, NoRow, NoRows, Keys, Statuses

(* A flush makes a row of a row, and takes the key and the lock from the    *)
(* new values only when they were changed.                                  *)
LEMMA UpdatedRow ==
    ASSUME NEW r \in DeviceRow, NEW old \in DeviceRow, NEW new \in DeviceRow
    PROVE  /\ Updated(r, old, new) \in DeviceRow
           /\ Updated(r, old, new).key = IF new.key # old.key THEN new.key ELSE r.key
           /\ Updated(r, old, new).lock = IF new.lock # old.lock THEN new.lock ELSE r.lock
<1>1. Updated(r, old, new) = [key |-> IF new.key # old.key THEN new.key ELSE r.key,
                              st |-> IF new.st # old.st THEN new.st ELSE r.st,
                              lock |-> IF new.lock # old.lock THEN new.lock ELSE r.lock,
                              n |-> IF new.n # old.n THEN new.n ELSE r.n]
  BY DEF Updated, DeviceRow
<1> QED BY <1>1, RowFields DEF DeviceRow

(* A row that is inserted is a row, and not locked.                         *)
LEMMA NewRow ==
    ASSUME NEW k \in Keys, NEW st \in Statuses
    PROVE  Row(k, st) \in DeviceRow /\ Row(k, st) # NoRow /\ ~Row(k, st).lock
  BY DEF Row, DeviceRow, NoRow

(* Statuses have ranks that can be compared.                                *)
LEMMA Ranked ==
    /\ \A st \in Statuses : StatusRank(st) \in 0..4
    /\ NoRow.st \in Statuses
  BY DEF StatusRank, Statuses, NoRow

(* Outranks compares scores lexicographically.                              *)
One(b) == IF b THEN 1 ELSE 0
Score(r, i) == <<One(r.lock), StatusRank(r.st), One(r.key # Legacy), r.n, MaxRows - i>>
Before(a, b) ==
    \/ a[1] > b[1]
    \/ a[1] = b[1] /\ a[2] > b[2]
    \/ a[1] = b[1] /\ a[2] = b[2] /\ a[3] > b[3]
    \/ a[1] = b[1] /\ a[2] = b[2] /\ a[3] = b[3] /\ a[4] > b[4]
    \/ a[1] = b[1] /\ a[2] = b[2] /\ a[3] = b[3] /\ a[4] = b[4] /\ a[5] > b[5]

(* ... which are the five parts of _device_merge_score.                     *)
LEMMA OutranksByScore ==
    ASSUME NEW r \in DeviceRow, NEW i \in Ids, NEW q \in DeviceRow, NEW j \in Ids
    PROVE  Outranks(r, i, q, j) <=> Before(Score(r, i), Score(q, j))
<1>1. Outranks(r, i, q, j) <=>
         \E p \in 1..5 : /\ Score(r, i)[p] > Score(q, j)[p]
                         /\ \A o \in 1..(p - 1) : Score(r, i)[o] = Score(q, j)[o]
  BY DEF Outranks, One, Score
<1>2. PICK a, b : a = Score(r, i) /\ b = Score(q, j)
  OBVIOUS
<1>3. (\E p \in 1..5 : a[p] > b[p] /\ \A o \in 1..(p - 1) : a[o] = b[o]) <=> Before(a, b)
  BY DEF Before
<1> QED BY <1>1, <1>2, <1>3

(* Scores are numbers, and no two rows have the same one.                   *)
LEMMA Scores ==
    ASSUME NEW r \in DeviceRow, NEW i \in Ids
    PROVE  /\ \A p \in 1..5 : Score(r, i)[p] \in Int
           /\ Score(r, i)[1] = IF r.lock THEN 1 ELSE 0
           /\ Score(r, i)[5] = MaxRows - i
<1>1. /\ One(r.lock) \in Int /\ StatusRank(r.st) \in Int /\ One(r.key # Legacy) \in Int
      /\ r.n \in Int /\ MaxRows - i \in Int
  BY RowFields, Ranked, IdsAreNumbers DEF One
<1>2. PICK a, b, c : a = One(r.lock) /\ b = StatusRank(r.st) /\ c = One(r.key # Legacy)
  OBVIOUS
<1>3. Score(r, i) = <<a, b, c, r.n, MaxRows - i>>
  BY <1>2 DEF Score
<1> QED BY <1>1, <1>2, <1>3 DEF One

(* The order of scores is irreflexive, transitive and total ...             *)
LEMMA BeforeIsOrder ==
    ASSUME NEW a, NEW b, NEW c, \A p \in 1..5 : a[p] \in Int /\ b[p] \in Int /\ c[p] \in Int
    PROVE  /\ a[5] # b[5] => Before(a, b) \/ Before(b, a)
           /\ Before(a, b) /\ Before(b, c) => Before(a, c)
           /\ Before(a, b) => a[1] >= b[1]
<1>1. /\ a[1] \in Int /\ a[2] \in Int /\ a[3] \in Int /\ a[4] \in Int /\ a[5] \in Int
      /\ b[1] \in Int /\ b[2] \in Int /\ b[3] \in Int /\ b[4] \in Int /\ b[5] \in Int
      /\ c[1] \in Int /\ c[2] \in Int /\ c[3] \in Int /\ c[4] \in Int /\ c[5] \in Int
  OBVIOUS
<1> QED BY <1>1 DEF Before

(* ... and so is that of the rows.                                          *)
LEMMA OutranksIsOrder ==
    ASSUME NEW r \in DeviceRow, NEW i \in Ids, NEW q \in DeviceRow, NEW j \in Ids,
           NEW p \in DeviceRow, NEW k \in Ids
    PROVE  /\ i # j => Outranks(r, i, q, j) \/ Outranks(q, j, r, i)
           /\ Outranks(r, i, q, j) /\ Outranks(q, j, p, k) => Outranks(r, i, p, k)
           /\ Outranks(r, i, q, j) => (q.lock => r.lock)
<1>1. PICK a, b, c : a = Score(r, i) /\ b = Score(q, j) /\ c = Score(p, k)
  OBVIOUS
<1>2. \A x \in 1..5 : a[x] \in Int /\ b[x] \in Int /\ c[x] \in Int
  BY <1>1, Scores
<1>3. /\ Outranks(r, i, q, j) <=> Before(a, b)
      /\ Outranks(q, j, r, i) <=> Before(b, a)
      /\ Outranks(q, j, p, k) <=> Before(b, c)
      /\ Outranks(r, i, p, k) <=> Before(a, c)
  BY <1>1, OutranksByScore
<1>4. /\ a[5] # b[5] => Before(a, b) \/ Before(b, a)
      /\ Before(a, b) /\ Before(b, c) => Before(a, c)
      /\ Before(a, b) => a[1] >= b[1]
  BY <1>2, BeforeIsOrder
<1>5. i # j => a[5] # b[5]
  <2>1. a[5] = MaxRows - i /\ b[5] = MaxRows - j
    BY <1>1, Scores
  <2> QED BY <2>1, IdsAreNumbers
<1>6. a[1] >= b[1] => (q.lock => r.lock)
  <2>1. a[1] = (IF r.lock THEN 1 ELSE 0) /\ b[1] = (IF q.lock THEN 1 ELSE 0)
    BY <1>1, Scores
  <2> QED BY <2>1
<1> QED BY <1>3, <1>4, <1>5, <1>6

(* Of any rows one outranks all others: the winner is one of them, and it   *)
(* is locked if any is.                                                     *)
LEMMA WinnerExists ==
    ASSUME NEW rows \in [Ids -> DeviceRow], Group(rows) # {}
    PROVE  /\ Winner(rows) \in Group(rows) /\ Winner(rows) \in Ids
           /\ \A j \in Group(rows) : rows[j].lock => rows[Winner(rows)].lock
<1> DEFINE G == Group(rows)
           Tops(n) == {i \in G : i <= n /\ \A j \in G \ {i} : j <= n => Outranks(rows[i], i, rows[j], j)}
           Bad == {n \in 0..MaxRows : (\E i \in G : i <= n) /\ Tops(n) = {}}
<1>1. G \subseteq Ids /\ \A i \in G : i \in Nat /\ i \in 1..MaxRows
  BY IdsAreNumbers DEF Group, Ids
<1>2. Bad = {}
  <2> SUFFICES ASSUME Bad # {} PROVE FALSE
    OBVIOUS
  <2>1. PICK n \in Bad : \A m \in Bad : n <= m
    <3>1. Bad \subseteq Nat
      BY IdsAreNumbers
    <3> HIDE DEF Bad
    <3> QED BY <3>1, LeastOfSet
  <2>2. n \in Nat /\ n >= 1 /\ n - 1 \in 0..MaxRows /\ n - 1 \notin Bad /\ n \in Ids
    <3>1. n \in 0..MaxRows /\ \E i \in G : i <= n
      BY <2>1
    <3>2. n \in Nat /\ n >= 1 /\ n - 1 \in 0..MaxRows /\ n \in Ids
      BY <3>1, <1>1, IdsAreNumbers DEF Ids
    <3>3. n - 1 \notin Bad
      <4> HIDE DEF Bad
      <4> QED BY <2>1, <3>2
    <3> QED BY <3>2, <3>3
  <2>3. CASE n \notin G
    <3>1. \A i \in G : i <= n <=> i <= n - 1
      <4> SUFFICES ASSUME NEW i \in G PROVE i <= n <=> i <= n - 1
        OBVIOUS
      <4>1. i \in Nat /\ i # n /\ n \in Nat
        BY <1>1, <2>2, <2>3
      <4> QED BY <4>1
    <3>2. Tops(n - 1) = Tops(n)
      BY <3>1
    <3>3. \E i \in G : i <= n - 1
      BY <2>1, <3>1
    <3> QED BY <2>1, <2>2, <3>2, <3>3
  <2>4. CASE n \in G
    <3>1. CASE \A i \in G : ~(i <= n - 1)
      <4>1. \A i \in G : i <= n => i = n
        BY <1>1, <2>2, <3>1
      <4>2. n \in Tops(n)
        BY <2>2, <2>4, <4>1
      <4> QED BY <2>1, <4>2
    <3>2. CASE \E i \in G : i <= n - 1
      <4>1. PICK t \in Tops(n - 1) : TRUE
        BY <2>2, <3>2
      <4>2. t \in G /\ t <= n - 1 /\ \A j \in G \ {t} : j <= n - 1 => Outranks(rows[t], t, rows[j], j)
        BY <4>1
      <4>3. t # n /\ t <= n /\ \A j \in G : j <= n => j = n \/ j <= n - 1
        <5>1. n \in Nat /\ \A j \in G : j \in Nat
          BY <1>1, <2>2
        <5>2. t \in Nat /\ t <= n - 1
          BY <1>1, <4>2
        <5>3. t # n /\ t <= n
          BY <5>1, <5>2
        <5>4. ASSUME NEW j \in G, j <= n PROVE j = n \/ j <= n - 1
          BY <5>1, <5>4
        <5> QED BY <5>3, <5>4
      <4>4. CASE Outranks(rows[t], t, rows[n], n)
        <5>1. t \in Tops(n)
          BY <4>2, <4>3, <4>4
        <5> QED BY <2>1, <5>1
      <4>5. CASE Outranks(rows[n], n, rows[t], t)
        <5>1. \A j \in G \ {n} : j <= n => Outranks(rows[n], n, rows[j], j)
          <6> SUFFICES ASSUME NEW j \in G \ {n}, j <= n, j # t
                       PROVE  Outranks(rows[n], n, rows[j], j)
            BY <4>5
          <6>1. Outranks(rows[t], t, rows[j], j)
            BY <4>2, <4>3
          <6>2. /\ rows[n] \in DeviceRow /\ rows[t] \in DeviceRow /\ rows[j] \in DeviceRow
                /\ n \in Ids /\ t \in Ids /\ j \in Ids
            BY <1>1, <2>2, <4>2
          <6> HIDE DEF G
          <6> QED BY <4>5, <6>1, <6>2, OutranksIsOrder
        <5>2. n \in Tops(n)
          BY <2>2, <2>4, <5>1
        <5> QED BY <2>1, <5>2
      <4>6. Outranks(rows[t], t, rows[n], n) \/ Outranks(rows[n], n, rows[t], t)
        <5>1. rows[n] \in DeviceRow /\ rows[t] \in DeviceRow /\ n \in Ids /\ t \in Ids
          BY <1>1, <2>2, <4>2
        <5> QED BY <5>1, <4>3, OutranksIsOrder
      <4> QED BY <4>4, <4>5, <4>6
    <3> QED BY <3>1, <3>2
  <2> QED BY <2>3, <2>4
<1>3. PICK w \in Tops(MaxRows) : TRUE
  <2>1. MaxRows \in 0..MaxRows /\ \E i \in G : i <= MaxRows
    BY <1>1, IdsAreNumbers
  <2> QED BY <1>2, <2>1
<1>4. w \in G /\ \A j \in G \ {w} : Outranks(rows[w], w, rows[j], j)
  BY <1>1, <1>3
<1>5. /\ Winner(rows) \in G
      /\ \A j \in G \ {Winner(rows)} : Outranks(rows[Winner(rows)], Winner(rows), rows[j], j)
  BY <1>4 DEF Winner
<1>6. PICK v : v = Winner(rows)
  OBVIOUS
<1>7. \A j \in G \ {v} : rows[j].lock => rows[v].lock
  <2> SUFFICES ASSUME NEW j \in G \ {v} PROVE rows[j].lock => rows[v].lock
    OBVIOUS
  <2>1. rows[v] \in DeviceRow /\ rows[j] \in DeviceRow /\ v \in Ids /\ j \in Ids
    BY <1>1, <1>5, <1>6
  <2>2. Outranks(rows[v], v, rows[j], j)
    BY <1>5, <1>6
  <2> QED BY <2>1, <2>2, OutranksIsOrder
<1> QED BY <1>1, <1>5, <1>6, <1>7

(* A value to start from and a step for each number up to N define the      *)
(* values up to N.                                                          *)
Chain(g, base, step, N) == g[0] = base /\ \A n \in 1..N : g[n] = step[n][g[n - 1]]

LEMMA Iterate ==
    ASSUME NEW T, NEW base \in T, NEW N \in Nat, NEW step \in [1..N -> [T -> T]]
    PROVE  \E g \in [0..N -> T] : Chain(g, base, step, N)
<1> DEFINE Runs(g, m) == g[0] = base /\ \A n \in 1..m : g[n] = step[n][g[n - 1]]
           Bad == {m \in 0..N : ~\E g \in [0..m -> T] : Runs(g, m)}
<1>1. Bad = {}
  <2> SUFFICES ASSUME Bad # {} PROVE FALSE
    OBVIOUS
  <2>1. PICK m \in Bad : \A k \in Bad : m <= k
    <3>1. Bad \subseteq Nat
      OBVIOUS
    <3> HIDE DEF Bad
    <3> QED BY <3>1, LeastOfSet
  <2>2. m \in 0..N /\ m \in Nat /\ ~\E g \in [0..m -> T] : Runs(g, m)
    BY <2>1
  <2>3. m # 0
    <3> SUFFICES ASSUME m = 0 PROVE FALSE
      OBVIOUS
    <3>1. [n \in 0..0 |-> base] \in [0..m -> T] /\ Runs([n \in 0..0 |-> base], m)
      OBVIOUS
    <3> QED BY <2>2, <3>1
  <2>4. m - 1 \in 0..N /\ m - 1 \notin Bad
    <3>1. m - 1 \in 0..N /\ ~(m <= m - 1)
      BY <2>2, <2>3
    <3> HIDE DEF Bad
    <3> QED BY <2>1, <3>1
  <2>5. PICK g \in [0..(m - 1) -> T] : Runs(g, m - 1)
    BY <2>4
  <2> DEFINE h == [n \in 0..m |-> IF n = m THEN step[m][g[m - 1]] ELSE g[n]]
  <2>6. m - 1 \in 0..(m - 1) /\ m \in 1..N /\ m # 0
    BY <2>2, <2>3
  <2>7. step[m][g[m - 1]] \in T
    BY <2>6
  <2>8. h \in [0..m -> T]
    <3>1. \A n \in 0..m : n = m \/ n \in 0..(m - 1)
      BY <2>2
    <3> QED BY <2>7, <3>1
  <2>9. h[0] = base
    BY <2>2, <2>5, <2>6
  <2>10. \A n \in 1..m : h[n] = step[n][h[n - 1]]
    <3> SUFFICES ASSUME NEW n \in 1..m PROVE h[n] = step[n][h[n - 1]]
      OBVIOUS
    <3>1. n - 1 \in 0..m /\ n - 1 # m /\ n \in 0..m /\ h[n - 1] = g[n - 1]
      BY <2>2
    <3>2. CASE n = m
      BY <3>1, <3>2
    <3>3. CASE n # m
      <4>1. n \in 1..(m - 1)
        BY <2>2, <3>3
      <4> QED BY <2>5, <3>1, <3>3, <4>1
    <3> QED BY <3>2, <3>3
  <2> HIDE DEF h
  <2> QED BY <2>2, <2>8, <2>9, <2>10
<1>2. N \in 0..N /\ N \notin Bad
  BY <1>1
<1> QED BY <1>2 DEF Chain

(* The hits of the rows of a phone add up to a number.                      *)
LEMMA HitsTyped ==
    ASSUME NEW rows \in [Ids -> DeviceRow]
    PROVE  HitsUpTo(rows)[MaxRows] \in Nat
<1> DEFINE step == [i \in 1..MaxRows |-> [x \in Nat |-> x + rows[i].n]]
           Hits(h) == h = [i \in 0..MaxRows |-> IF i = 0 THEN 0 ELSE h[i - 1] + rows[i].n]
<1>1. MaxRows \in Nat /\ \A i \in 1..MaxRows : rows[i].n \in Nat
  BY RowFields, IdsAreNumbers DEF Ids
<1>2. step \in [1..MaxRows -> [Nat -> Nat]]
  BY <1>1
<1>3. PICK g \in [0..MaxRows -> Nat] : g[0] = 0 /\ \A i \in 1..MaxRows : g[i] = step[i][g[i - 1]]
  <2>1. 0 \in Nat
    OBVIOUS
  <2> HIDE DEF step
  <2>2. \E g \in [0..MaxRows -> Nat] : Chain(g, 0, step, MaxRows)
    BY <1>1, <1>2, <2>1, Iterate
  <2> QED BY <2>2 DEF Chain
<1>4. Hits(g)
  <2>1. \A i \in 1..MaxRows : g[i] = g[i - 1] + rows[i].n
    <3> SUFFICES ASSUME NEW i \in 1..MaxRows PROVE g[i] = g[i - 1] + rows[i].n
      OBVIOUS
    <3>1. i - 1 \in 0..MaxRows
      BY <1>1
    <3>2. g[i - 1] \in Nat
      <4> HIDE DEF step
      <4> QED BY <1>3, <3>1
    <3>3. step[i][g[i - 1]] = g[i - 1] + rows[i].n
      BY <3>2
    <3> QED BY <1>3, <3>3
  <2>2. \A i \in 0..MaxRows : i = 0 \/ i \in 1..MaxRows
    BY <1>1
  <2> QED BY <1>3, <2>1, <2>2
<1>5. HitsUpTo(rows) = CHOOSE h : Hits(h)
  BY DEF HitsUpTo
<1>6. PICK h : h = HitsUpTo(rows) /\ Hits(h)
  BY <1>4, <1>5
<1> DEFINE Bad == {i \in 0..MaxRows : h[i] \notin Nat}
<1>7. Bad = {}
  <2> SUFFICES ASSUME Bad # {} PROVE FALSE
    OBVIOUS
  <2>1. PICK m \in Bad : \A k \in Bad : m <= k
    <3>1. Bad \subseteq Nat
      BY <1>1
    <3> HIDE DEF Bad
    <3> QED BY <3>1, LeastOfSet
  <2>2. m \in 0..MaxRows /\ h[m] \notin Nat
    BY <2>1
  <2>3. m # 0
    BY <1>1, <1>6, <2>2
  <2>4. m - 1 \in 0..MaxRows /\ m \in 1..MaxRows /\ m - 1 \notin Bad
    <3>1. m - 1 \in 0..MaxRows /\ m \in 1..MaxRows /\ ~(m <= m - 1)
      BY <1>1, <2>2, <2>3
    <3> HIDE DEF Bad
    <3> QED BY <2>1, <3>1
  <2>5. h[m - 1] \in Nat /\ h[m] = h[m - 1] + rows[m].n
    BY <1>6, <2>2, <2>3, <2>4
  <2> QED BY <1>1, <2>2, <2>4, <2>5
<1>8. h[MaxRows] \in Nat
  BY <1>1, <1>7
<1> QED BY <1>6, <1>8

(* The merged row is a row, locked exactly when the winner was: a lock      *)
(* decides the score before anything else.                                  *)
LEMMA AbsorbedTyped ==
    ASSUME NEW rows \in [Ids -> DeviceRow], Group(rows) # {}
    PROVE  /\ Absorbed(rows) \in DeviceRow
           /\ Absorbed(rows).lock = rows[Winner(rows)].lock
<1> DEFINE G == Group(rows)
           Strongest(i) == \A j \in G : StatusRank(rows[i].st) >= StatusRank(rows[j].st)
<1>1. G \subseteq Ids /\ \A i \in Ids : rows[i] \in DeviceRow /\ rows[i].st \in Statuses
  BY RowFields DEF Group
<1>2. PICK s \in G : Strongest(s)
  <2> DEFINE Rs == {StatusRank(rows[i].st) : i \in G}
  <2>1. Rs # {} /\ Rs \subseteq 0..4 /\ 4 \in Nat
    BY <1>1, Ranked
  <2>2. PICK m \in Rs : \A n \in Rs : n <= m
    <3> HIDE DEF Rs
    <3> QED BY <2>1, GreatestOfSet
  <2>3. PICK i \in G : m = StatusRank(rows[i].st)
    BY <2>2
  <2>4. Strongest(i)
    <3> SUFFICES ASSUME NEW j \in G PROVE StatusRank(rows[i].st) >= StatusRank(rows[j].st)
      OBVIOUS
    <3>1. StatusRank(rows[j].st) <= m
      BY <2>2
    <3> QED BY <1>1, <2>3, <3>1, Ranked
  <2> QED BY <2>4
<1>3. PICK t \in G : t = CHOOSE i \in G : Strongest(i)
  BY <1>2
<1>4. Winner(rows) \in Ids /\ Winner(rows) \in G
      /\ \A j \in G : rows[j].lock => rows[Winner(rows)].lock
  BY WinnerExists
<1>5. PICK w : w = Winner(rows)
  OBVIOUS
<1>6. PICK c : c = CleanKey(rows[w].key)
  OBVIOUS
<1>7. c \in Keys
  <2>1. rows[w].key \in Keys /\ LegacyOwner \in Keys
    BY <1>1, <1>4, <1>5, RowFields
  <2> QED BY <1>6, <2>1 DEF CleanKey
<1>8. PICK n \in Nat : n = HitsUpTo(rows)[MaxRows]
  BY HitsTyped
<1>9. PICK l \in BOOLEAN : l = \E i \in G : rows[i].lock
  OBVIOUS
<1>12. Absorbed(rows) = [key |-> c, st |-> rows[t].st, lock |-> l, n |-> n]
  BY <1>3, <1>5, <1>6, <1>8, <1>9 DEF Absorbed
<1>10. l = rows[w].lock
  <2>1. rows[w].lock \in BOOLEAN
    BY <1>1, <1>4, <1>5, RowFields
  <2> QED BY <1>4, <1>5, <1>9, <2>1
<1>11. rows[t].st \in Statuses
  BY <1>1, <1>3
<1> HIDE DEF G
<1> QED BY <1>5, <1>7, <1>8, <1>10, <1>11, <1>12 DEF DeviceRow

-----------------------------------------------------------------------------
(* Devices: types.                                                          *)

(* Types; a merge has rows to merge, and a decision that was taken has none *)
(* in hand.                                                                 *)
MergesRows == \A t \in SyncThreads : At(t, "merge") => Group(sloc[t].seen) # {}
DecisionsTaken == \A d \in Deciders : dloc[d].what = "disable" => dloc[d].seen = NoRows
DevInv == DevTypeOK /\ MergesRows /\ DecisionsTaken

Inventory == [Ids -> DeviceRow]

(* What a session holds.                                                    *)
LEMMA SessionFields ==
    /\ \A s \in Session : /\ s.m \in Mailboxes /\ s.gate \in BOOLEAN /\ s.late \in BOOLEAN
                          /\ s.seen \in Inventory /\ s.dev \in Ids /\ s.hits \in Nat
                          /\ s.after \in {"seen", "sibling", "last", "page"}
    /\ NoSession \in Session /\ ~NoSession.late /\ NoSession.seen = NoRows
<1>1. LegacyOwner \in Mailboxes /\ NoRows \in Inventory /\ 1 \in Ids
  BY RowFields, IdsAreNumbers DEF Inventory
<1> QED BY <1>1 DEF Session, NoSession, Inventory

(* ... and goes on holding, whatever the code sets in it.                   *)
LEMMA SessionEdits ==
    ASSUME NEW s \in Session, NEW seen \in Inventory, NEW i \in Ids, NEW n \in Nat,
           NEW late \in BOOLEAN
    PROVE  /\ \A a \in {"seen", "sibling", "last", "page"} :
                 [s EXCEPT !.seen = seen, !.dev = i, !.after = a] \in Session
           /\ [s EXCEPT !.dev = i, !.seen = seen] \in Session
           /\ [s EXCEPT !.seen = seen] \in Session
           /\ [s EXCEPT !.seen = seen, !.hits = 0] \in Session
           /\ [s EXCEPT !.seen = seen, !.hits = 0, !.after = "last"] \in Session
           /\ [s EXCEPT !.hits = n] \in Session
           /\ [s EXCEPT !.late = late] \in Session
           /\ [s EXCEPT !.dev = i] \in Session
  BY DEF Session, Inventory

(* Some rows of the inventory are an inventory.                             *)
LEMMA RowsKept ==
    ASSUME NEW rows \in Inventory
    PROVE  /\ \A i \in Ids : /\ OnlySeen(rows, i) \in Inventory
                             /\ OnlySeen(rows, i)[i] = rows[i]
                             /\ \A j \in Ids \ {i} : OnlySeen(rows, i)[j] = NoRow
           /\ \A G : [i \in Ids |-> IF i \in G THEN rows[i] ELSE NoRow] \in Inventory
           /\ Group(rows) \subseteq Ids /\ \A i \in Group(rows) : rows[i] # NoRow
  BY RowFields DEF OnlySeen, Inventory, Group

(* A query returns rows, loaded before or not.                              *)
LEMMA LoadedTyped ==
    ASSUME DevTypeOK, NEW s \in Session
    PROVE  Loaded(s) \in Inventory
  BY SessionFields DEF Loaded, DevTypeOK, Inventory

(* The winner of rows that were found is one of them.                       *)
LEMMA WinnerOfFound ==
    ASSUME DevTypeOK, NEW found \in SUBSET Rows, found # {}
    PROVE  Winner([i \in Ids |-> IF i \in found THEN inventory[i] ELSE NoRow]) \in found
<1> DEFINE r == [i \in Ids |-> IF i \in found THEN inventory[i] ELSE NoRow]
<1>1. r \in [Ids -> DeviceRow]
  BY RowFields DEF DevTypeOK
<1>2. Group(r) = found
  BY DEF Group, Rows
<1> HIDE DEF r
<1>3. Winner(r) \in Group(r)
  BY <1>1, <1>2, WinnerExists
<1> QED BY <1>2, <1>3 DEF r

Places == {"idle", "look", "create", "insert", "collapse", "merge", "claim", "write", "judge"}

(* A thread t goes to p with the session f.                                 *)
LEMMA ThreadMoves ==
    ASSUME DevInv, NEW t \in SyncThreads, NEW p \in Places, NEW f \in Session,
           Goes(t, p), Has(t, f), p = "merge" => Group(f.seen) # {}
    PROVE  /\ syncAt' \in [SyncThreads -> Places] /\ sloc' \in [SyncThreads -> Session]
           /\ MergesRows'
<1>1. syncAt' \in [SyncThreads -> Places] /\ sloc' \in [SyncThreads -> Session]
  BY DEF DevInv, DevTypeOK, Goes, Has, Places
<1>2. ASSUME NEW s \in SyncThreads, (At(s, "merge"))'
      PROVE  Group(sloc'[s].seen) # {}
  <2>1. CASE s = t
    <3>1. p = "merge" /\ sloc'[s] = f
      BY <1>2, <2>1 DEF DevInv, DevTypeOK, Goes, Has, At
    <3> QED BY <3>1
  <2>2. CASE s # t
    <3>1. At(s, "merge") /\ sloc'[s] = sloc[s]
      BY <1>2, <2>2 DEF DevInv, DevTypeOK, Goes, Has, At
    <3> QED BY <3>1 DEF DevInv, MergesRows
  <2> QED BY <2>1, <2>2
<1>3. MergesRows'
  BY <1>2 DEF MergesRows, At
<1> QED BY <1>1, <1>3

(* ... and the rest has its types.                                          *)
LEMMA ThreadStepTyped ==
    ASSUME DevInv, NEW t \in SyncThreads, NEW p \in Places, NEW f \in Session,
           Goes(t, p), Has(t, f), p = "merge" => Group(f.seen) # {},
           inventory' \in Inventory, heldHits' \in [Mailboxes -> Nat \cup {Absent}],
           sightings' \in Nat, slipped' \subseteq SyncThreads, devFaults' \in 0..MaxDevFaults,
           UNCHANGED <<gate, reborn, decideAt, dloc>>
    PROVE  DevInv'
<1>1. /\ syncAt' \in [SyncThreads -> Places] /\ sloc' \in [SyncThreads -> Session]
      /\ MergesRows'
  BY ThreadMoves
<1> QED BY <1>1 DEF DevInv, DevTypeOK, DecisionsTaken, Places, Inventory

(* The collapse returns to a place of the request with a session.           *)
LEMMA ReturnsTyped ==
    ASSUME DevInv, NEW t \in SyncThreads, NEW dev \in Ids, NEW seen \in Inventory,
           Returns(t, dev, seen)
    PROVE  \E p \in Places, f \in Session : Goes(t, p) /\ Has(t, f) /\ p # "merge"
<1>1. sloc[t] \in Session /\ sloc[t].after \in {"seen", "sibling", "last", "page"}
  BY SessionFields DEF DevInv, DevTypeOK
<1>2. NextPlace(sloc[t].after) \in Places \ {"merge"}
  BY <1>1 DEF NextPlace, Places
<1>3. NoSession \in Session /\ [sloc[t] EXCEPT !.dev = dev, !.seen = seen] \in Session
  BY <1>1, SessionFields, SessionEdits
<1> QED BY <1>2, <1>3 DEF Returns

(* A request that is over leaves the empty session.                         *)
LEMMA OverTyped ==
    ASSUME NEW t \in SyncThreads, Over(t)
    PROVE  \E p \in Places, f \in Session : Goes(t, p) /\ Has(t, f) /\ p # "merge"
  BY SessionFields DEF Over, Places

(* The types, by the names that the lemmas use.                             *)
LEMMA DevTypes ==
    ASSUME DevInv
    PROVE  /\ inventory \in Inventory /\ gate \in BOOLEAN
           /\ heldHits \in [Mailboxes -> Nat \cup {Absent}] /\ sightings \in Nat
           /\ reborn \in BOOLEAN /\ slipped \subseteq SyncThreads /\ devFaults \in 0..MaxDevFaults
           /\ sloc \in [SyncThreads -> Session] /\ syncAt \in [SyncThreads -> Places]
           /\ Rows \subseteq Ids /\ \A i \in Ids : i \in Rows <=> inventory[i] # NoRow
           /\ DevFault => devFaults' \in 0..MaxDevFaults
<1>1. DevFault => devFaults' \in 0..MaxDevFaults
  BY DevicesAssumption DEF DevInv, DevTypeOK, DevFault
<1> QED BY <1>1 DEF DevInv, DevTypeOK, Inventory, Places, Rows

(* Arrivals, pages and the lookup keep the types ...                        *)
LEMMA LookupTyped ==
    ASSUME DevInv, NEW t \in SyncThreads,
           \/ \E m \in Mailboxes : SyncArrives(t, m)
           \/ PageOpens(t)
           \/ LooksUp(t) \/ FindsSibling(t) \/ HitsCap(t) \/ HasRoom(t)
    PROVE  DevInv'
<1>1. /\ inventory \in Inventory /\ gate \in BOOLEAN /\ sloc[t] \in Session /\ Rows \subseteq Ids
      /\ heldHits \in [Mailboxes -> Nat \cup {Absent}] /\ sightings \in Nat
      /\ reborn \in BOOLEAN /\ slipped \subseteq SyncThreads /\ devFaults \in 0..MaxDevFaults
      /\ sloc \in [SyncThreads -> Session] /\ \A i \in Rows : inventory[i] # NoRow
  BY DevTypes
<1>2. {"idle", "look", "create", "insert", "collapse", "merge"} \subseteq Places
  BY DEF Places
<1>3. ASSUME NEW m \in Mailboxes, SyncArrives(t, m) PROVE DevInv'
  <2> DEFINE f == [NoSession EXCEPT !.m = m, !.gate = gate, !.late = LockSettled]
  <2>1. LockSettled = TRUE \/ LockSettled = FALSE
    BY DEF LockSettled, Locked
  <2>2. f \in Session
    <3>1. \A l \in BOOLEAN : [NoSession EXCEPT !.m = m, !.gate = gate, !.late = l] \in Session
      BY <1>1, SessionFields DEF Session
    <3>2. CASE LockSettled = TRUE
      <4>1. f = [NoSession EXCEPT !.m = m, !.gate = gate, !.late = TRUE]
        BY <3>2, Zenon
      <4> QED BY <3>1, <4>1
    <3>3. CASE LockSettled = FALSE
      <4>1. f = [NoSession EXCEPT !.m = m, !.gate = gate, !.late = FALSE]
        BY <3>3, Zenon
      <4> QED BY <3>1, <4>1
    <3> QED BY <2>1, <3>2, <3>3
  <2>3. /\ Goes(t, "look") /\ Has(t, f) /\ sightings' \in Nat
        /\ UNCHANGED <<inventory, gate, heldHits, decideAt, dloc, reborn, slipped, devFaults>>
    <3>1. /\ Goes(t, "look") /\ sightings' = sightings + 1
          /\ UNCHANGED <<inventory, gate, heldHits, decideAt, dloc, reborn, slipped, devFaults>>
      BY <1>3 DEF SyncArrives
    <3>2. Has(t, f)
      BY <1>3, Zenon DEF SyncArrives
    <3> HIDE DEF f
    <3> QED BY <1>1, <3>1, <3>2
  <2> HIDE DEF f
  <2>4. /\ inventory' \in Inventory /\ heldHits' \in [Mailboxes -> Nat \cup {Absent}]
        /\ slipped' \subseteq SyncThreads /\ devFaults' \in 0..MaxDevFaults
        /\ UNCHANGED <<gate, reborn, decideAt, dloc>>
    BY <1>1, <2>3
  <2>5. "look" \in Places /\ "look" # "merge"
    BY <1>2
  <2> QED BY <2>2, <2>3, <2>4, <2>5, ThreadStepTyped
<1>4. ASSUME PageOpens(t) PROVE DevInv'
  <2>1. PICK K : LET G == {i \in Rows : inventory[i].key \in K}
                 IN /\ Cardinality(G) > 1 \/ \E i \in G : inventory[i].key = Legacy
                    /\ Has(t, [NoSession EXCEPT !.seen = [i \in Ids |-> IF i \in G THEN inventory[i]
                                                                ELSE NoRow]])
    BY <1>4 DEF PageOpens
  <2> DEFINE G == {i \in Rows : inventory[i].key \in K}
             r == [i \in Ids |-> IF i \in G THEN inventory[i] ELSE NoRow]
             f == [NoSession EXCEPT !.seen = r]
  <2>2. G # {} /\ G \subseteq Rows
    <3>1. Cardinality(G) > 1 \/ \E i \in G : inventory[i].key = Legacy
      BY <2>1
    <3>2. Cardinality({}) = 0 /\ ~(0 > 1)
      BY FS_EmptySet
    <3>3. G \subseteq Rows
      OBVIOUS
    <3> HIDE DEF G
    <3> QED BY <3>1, <3>2, <3>3
  <2>3. r \in Inventory /\ Group(r) = G
    <3>1. r \in Inventory
      BY <1>1, RowFields DEF Inventory
    <3>2. Group(r) = G
      BY <1>1, <2>2 DEF Group
    <3> QED BY <3>1, <3>2
  <2>4. /\ Has(t, f) /\ Goes(t, "merge")
        /\ UNCHANGED <<inventory, gate, heldHits, decideAt, dloc, sightings, reborn, slipped,
                       devFaults>>
    BY <1>4, <2>1 DEF PageOpens
  <2>5. f \in Session /\ f.seen = r
    <3> HIDE DEF r
    <3> QED BY <2>3, SessionFields DEF Session, Inventory
  <2> HIDE DEF f, r, G
  <2> QED BY <1>1, <1>2, <2>2, <2>3, <2>4, <2>5, ThreadStepTyped
<1>5. ASSUME LooksUp(t) PROVE DevInv'
  <2> DEFINE found == Matching(sloc[t].m)
             dev == Winner([i \in Ids |-> IF i \in found THEN inventory[i] ELSE NoRow])
             f == [sloc[t] EXCEPT !.seen = OnlySeen(inventory, dev), !.dev = dev, !.after = "seen"]
  <2>1. UNCHANGED <<inventory, gate, decideAt, dloc, sightings, reborn, slipped, devFaults>>
    BY <1>5 DEF LooksUp
  <2>2. CASE found = {}
    <3>1. Goes(t, "create") /\ sloc' = sloc /\ heldHits' = [heldHits EXCEPT ![sloc[t].m] = Absent]
      BY <1>5, <2>2 DEF LooksUp
    <3>2. Has(t, sloc[t]) /\ heldHits' \in [Mailboxes -> Nat \cup {Absent}]
      BY <1>1, <3>1 DEF Has
    <3> QED BY <1>1, <1>2, <2>1, <3>1, <3>2, ThreadStepTyped
  <2>3. CASE found # {}
    <3>1. Goes(t, "collapse") /\ Has(t, f) /\ heldHits' = heldHits
      BY <1>5, <2>3 DEF LooksUp
    <3>2. found \subseteq Rows
      BY DEF Matching
    <3>3. dev \in Ids
      <4> HIDE DEF found
      <4> QED BY <1>1, <2>3, <3>2, WinnerOfFound DEF DevInv
    <3>4. OnlySeen(inventory, dev) \in Inventory
      <4> HIDE DEF dev
      <4> QED BY <1>1, <3>3, RowsKept
    <3>5. f \in Session
      <4> HIDE DEF dev
      <4> QED BY <1>1, <3>3, <3>4, SessionEdits
    <3> HIDE DEF f, dev, found
    <3> QED BY <1>1, <1>2, <2>1, <3>1, <3>5, ThreadStepTyped
  <2> QED BY <2>2, <2>3
<1>6. ASSUME FindsSibling(t) PROVE DevInv'
  <2> DEFINE first == CHOOSE i \in Rows : \A j \in Rows : i <= j
             f == [sloc[t] EXCEPT !.seen = OnlySeen(inventory, first), !.dev = first,
                                      !.after = "sibling"]
  <2>1. first \in Ids
    <3>1. Rows # {} /\ Rows \subseteq Nat
      BY <1>1, <1>6, IdsAreNumbers DEF FindsSibling
    <3>2. \E i \in Rows : \A j \in Rows : i <= j
      BY <3>1, LeastOfSet
    <3> QED BY <1>1, <3>2
  <2>2. /\ Goes(t, "collapse") /\ Has(t, f)
        /\ UNCHANGED <<inventory, gate, heldHits, decideAt, dloc, sightings, reborn, slipped,
                       devFaults>>
    BY <1>6 DEF FindsSibling
  <2>3. f \in Session
    <3> HIDE DEF first
    <3>1. OnlySeen(inventory, first) \in Inventory
      BY <1>1, <2>1, RowsKept
    <3> QED BY <1>1, <2>1, <3>1, SessionEdits
  <2> HIDE DEF f, first
  <2> QED BY <1>1, <1>2, <2>2, <2>3, ThreadStepTyped
<1>7. ASSUME HitsCap(t) PROVE DevInv'
  <2>1. PICK p \in Places, f \in Session : Goes(t, p) /\ Has(t, f) /\ p # "merge"
    BY <1>7, OverTyped DEF HitsCap
  <2>2. UNCHANGED <<inventory, gate, heldHits, decideAt, dloc, sightings, reborn, slipped,
                    devFaults>>
    BY <1>7 DEF HitsCap
  <2> QED BY <1>1, <2>1, <2>2, ThreadStepTyped
<1>8. ASSUME HasRoom(t) PROVE DevInv'
  <2>1. Goes(t, "insert") /\ Has(t, sloc[t])
    BY <1>1, <1>8 DEF HasRoom, Has
  <2>2. UNCHANGED <<inventory, gate, heldHits, decideAt, dloc, sightings, reborn, slipped,
                    devFaults>>
    BY <1>8 DEF HasRoom
  <2> QED BY <1>1, <1>2, <2>1, <2>2, ThreadStepTyped
<1> QED BY <1>3, <1>4, <1>5, <1>6, <1>7, <1>8

(* The new identifier is that of no row.                                    *)
LEMMA NewIdFree ==
    ASSUME DevInv
    PROVE  LET i == 1 + (CHOOSE k \in Rows \cup {0} : \A j \in Rows : j <= k)
           IN i \in Ids => inventory[i] = NoRow
<1> DEFINE S == Rows \cup {0}
           Top(k) == \A j \in Rows : j <= k
<1>1. S # {} /\ S \subseteq 0..MaxRows /\ MaxRows \in Nat
  BY DevTypes, IdsAreNumbers DEF Ids
<1>2. PICK m \in S : \A n \in S : n <= m
  <2> HIDE DEF S
  <2> QED BY <1>1, GreatestOfSet
<1>3. Top(m)
  BY <1>2
<1>4. PICK k \in S : Top(k) /\ k = CHOOSE n \in S : Top(n)
  BY <1>3
<1>5. k \in Nat /\ 1 + k \notin Rows
  BY <1>1, <1>4
<1> QED BY <1>4, <1>5, DevTypes

(* ... an insertion or its conflict ...                                     *)
LEMMA InsertTyped ==
    ASSUME DevInv, NEW t \in SyncThreads, Inserts(t) \/ InsertFails(t)
    PROVE  DevInv'
<1>1. /\ inventory \in Inventory /\ gate \in BOOLEAN /\ sloc[t] \in Session /\ Rows \subseteq Ids
      /\ heldHits \in [Mailboxes -> Nat \cup {Absent}] /\ sightings \in Nat
      /\ reborn \in BOOLEAN /\ slipped \subseteq SyncThreads /\ devFaults \in 0..MaxDevFaults
      /\ sloc \in [SyncThreads -> Session] /\ syncAt \in [SyncThreads -> Places]
  BY DevTypes
<1>2. {"judge", "collapse"} \subseteq Places
  BY DEF Places
<1>3. ASSUME Inserts(t) PROVE DevInv'
  <2>1. PICK i \in Ids : /\ inventory' = [inventory EXCEPT ![i] = Row(sloc[t].m, "pending")]
                         /\ sloc' = [s \in SyncThreads |->
                               [(IF s = t THEN [sloc[t] EXCEPT !.dev = i] ELSE sloc[s])
                                    EXCEPT !.late = @ /\ Holding(i) = {}]]
    BY <1>3 DEF Inserts
  <2>2. /\ Goes(t, "judge") /\ reborn' \in BOOLEAN
        /\ UNCHANGED <<gate, heldHits, decideAt, dloc, sightings, slipped, devFaults>>
    BY <1>1, <1>3 DEF Inserts
  <2>3. inventory' \in Inventory
    <3>1. sloc[t].m \in Keys /\ "pending" \in Statuses
      BY <1>1, SessionFields, RowFields DEF Statuses
    <3> QED BY <1>1, <2>1, <3>1, NewRow DEF Inventory
  <2>4. \A s \in SyncThreads : sloc'[s] \in Session /\ sloc'[s].seen = sloc[s].seen
    <3> SUFFICES ASSUME NEW s \in SyncThreads
                 PROVE  sloc'[s] \in Session /\ sloc'[s].seen = sloc[s].seen
      OBVIOUS
    <3>1. PICK f : f = IF s = t THEN [sloc[t] EXCEPT !.dev = i] ELSE sloc[s]
      OBVIOUS
    <3>2. f \in Session /\ f.seen = sloc[s].seen
      BY <1>1, <3>1, SessionFields DEF Session
    <3>3. (f.late /\ Holding(i) = {}) \in BOOLEAN
      OBVIOUS
    <3>4. sloc'[s] = [f EXCEPT !.late = @ /\ Holding(i) = {}]
      BY <2>1, <3>1
    <3> QED BY <3>2, <3>3, <3>4 DEF Session
  <2>5. syncAt' \in [SyncThreads -> Places] /\ \A s \in SyncThreads : At(s, "merge")' => At(s, "merge")
    BY <1>1, <1>2, <2>2 DEF Goes, At
  <2>6. MergesRows'
    BY <2>4, <2>5 DEF MergesRows, DevInv
  <2>7. sloc' \in [SyncThreads -> Session]
    BY <2>1, <2>4
  <2> QED BY <1>1, <2>2, <2>3, <2>5, <2>6, <2>7
      DEF DevInv, DevTypeOK, DecisionsTaken, Places, Inventory
<1>4. ASSUME InsertFails(t) PROVE DevInv'
  <2>1. UNCHANGED <<inventory, gate, heldHits, decideAt, dloc, sightings, reborn, slipped>>
    BY <1>4 DEF InsertFails
  <2>2. devFaults' \in 0..MaxDevFaults
    BY <1>1, <1>4, DevTypes DEF InsertFails
  <2>3. \E p \in Places, f \in Session : Goes(t, p) /\ Has(t, f) /\ p # "merge"
    <3>1. CASE Rows = {}
      BY <1>4, <3>1, OverTyped DEF InsertFails, FailsOpen
    <3>2. CASE Rows # {}
      <4>1. PICK keep \in Ids :
               /\ Has(t, [sloc[t] EXCEPT !.seen = OnlySeen(inventory, keep), !.dev = keep,
                                           !.after = "last"])
               /\ Goes(t, "collapse")
        BY <1>1, <1>4, <3>2 DEF InsertFails, Matching
      <4>2. OnlySeen(inventory, keep) \in Inventory
        BY <1>1, RowsKept
      <4>3. [sloc[t] EXCEPT !.seen = OnlySeen(inventory, keep), !.dev = keep, !.after = "last"]
               \in Session
        BY <1>1, <4>2, SessionEdits
      <4> QED BY <1>2, <4>1, <4>3
    <3> QED BY <3>1, <3>2
  <2> QED BY <1>1, <2>1, <2>2, <2>3, ThreadStepTyped
<1> QED BY <1>3, <1>4

(* ... the second look at the siblings ...                                  *)
LEMMA CollapseTyped ==
    ASSUME DevInv, NEW t \in SyncThreads, Collapses(t)
    PROVE  DevInv'
<1>1. /\ inventory \in Inventory /\ gate \in BOOLEAN /\ sloc[t] \in Session /\ Rows \subseteq Ids
      /\ heldHits \in [Mailboxes -> Nat \cup {Absent}] /\ sightings \in Nat
      /\ reborn \in BOOLEAN /\ slipped \subseteq SyncThreads /\ devFaults \in 0..MaxDevFaults
  BY DevTypes
<1>2. PICK rows : rows = IF Rows = {} THEN OnlySeen(sloc[t].seen, sloc[t].dev) ELSE Loaded(sloc[t])
  OBVIOUS
<1>3. rows \in Inventory
  <2>1. sloc[t].seen \in Inventory /\ sloc[t].dev \in Ids
    BY <1>1, SessionFields
  <2> QED BY <1>1, <1>2, <2>1, RowsKept, LoadedTyped DEF DevInv
<1>4. UNCHANGED <<inventory, gate, heldHits, decideAt, dloc, sightings, reborn, slipped,
                  devFaults>>
  BY DEF Collapses
<1>5. PICK only : only = CHOOSE i \in Group(rows) : TRUE
  OBVIOUS
<1>6. \/ FailsOpen(t)
      \/ Cardinality(Group(rows)) = 1 /\ Returns(t, only, rows)
      \/ /\ Cardinality(Group(rows)) > 1 \/ \E i \in Group(rows) : rows[i].key = Legacy
         /\ Has(t, [sloc[t] EXCEPT !.seen = rows]) /\ Goes(t, "merge")
  BY <1>2, <1>5 DEF Collapses
<1>7. Cardinality({}) = 0
  BY FS_EmptySet
<1>8. \E p \in Places, f \in Session : Goes(t, p) /\ Has(t, f) /\ (p = "merge" => Group(f.seen) # {})
  <2>1. CASE FailsOpen(t)
    BY <2>1, OverTyped DEF FailsOpen
  <2>2. CASE Cardinality(Group(rows)) = 1 /\ Returns(t, only, rows)
    <3>1. only \in Ids
      <4>1. Cardinality(Group(rows)) = 1
        BY <2>2
      <4>2. Group(rows) # {}
        BY <1>7, <4>1
      <4>3. Group(rows) \subseteq Ids
        BY DEF Group
      <4> QED BY <1>5, <4>2, <4>3
    <3> QED BY <1>3, <2>2, <3>1, ReturnsTyped
  <2>3. CASE /\ Cardinality(Group(rows)) > 1 \/ \E i \in Group(rows) : rows[i].key = Legacy
             /\ Has(t, [sloc[t] EXCEPT !.seen = rows]) /\ Goes(t, "merge")
    <3>1. Group(rows) # {}
      <4>1. ~(0 > 1)
        OBVIOUS
      <4> QED BY <1>7, <2>3, <4>1
    <3>2. [sloc[t] EXCEPT !.seen = rows] \in Session /\ [sloc[t] EXCEPT !.seen = rows].seen = rows
      BY <1>1, <1>3 DEF Session, Inventory
    <3> QED BY <2>3, <3>1, <3>2 DEF Places
  <2> QED BY <1>6, <2>1, <2>2, <2>3
<1> QED BY <1>1, <1>4, <1>8, ThreadStepTyped

(* ... a merge, committed or rolled back ...                                *)
LEMMA MergeTyped ==
    ASSUME DevInv, NEW t \in SyncThreads, MergeCommits(t) \/ MergeFails(t)
    PROVE  DevInv'
<1>1. /\ inventory \in Inventory /\ gate \in BOOLEAN /\ sloc[t] \in Session /\ Rows \subseteq Ids
      /\ heldHits \in [Mailboxes -> Nat \cup {Absent}] /\ sightings \in Nat
      /\ reborn \in BOOLEAN /\ slipped \subseteq SyncThreads /\ devFaults \in 0..MaxDevFaults
  BY DevTypes
<1>2. PICK rows \in Inventory : rows = sloc[t].seen
  BY <1>1, SessionFields
<1>3. Group(rows) # {} /\ Group(rows) \subseteq Ids
  BY <1>2, RowsKept DEF DevInv, MergesRows, MergeCommits, MergeFails
<1>4. PICK w \in Ids : w = Winner(rows)
  BY <1>2, <1>3, WinnerExists DEF Inventory
<1>5. NoRows \in Inventory
  BY RowFields DEF Inventory
<1>6. CASE MergeCommits(t)
  <2>1. Absorbed(rows) \in DeviceRow /\ rows[w] \in DeviceRow
    BY <1>2, <1>3, <1>4, AbsorbedTyped DEF Inventory
  <2>2. /\ inventory' = [i \in Ids |->
             IF i = w THEN Updated(inventory[w], rows[w], Absorbed(rows))
             ELSE IF i \in Group(rows) THEN NoRow ELSE inventory[i]]
        /\ Returns(t, w, NoRows)
        /\ UNCHANGED <<gate, heldHits, decideAt, dloc, sightings, reborn, slipped, devFaults>>
    BY <1>2, <1>4, <1>6 DEF MergeCommits
  <2>3. inventory' \in Inventory
    <3>1. Updated(inventory[w], rows[w], Absorbed(rows)) \in DeviceRow
      BY <1>1, <2>1, UpdatedRow DEF Inventory
    <3> QED BY <1>1, <2>2, <3>1, RowFields DEF Inventory
  <2>4. PICK p \in Places, f \in Session : Goes(t, p) /\ Has(t, f) /\ p # "merge"
    BY <1>4, <1>5, <2>2, ReturnsTyped
  <2> QED BY <1>1, <2>2, <2>3, <2>4, ThreadStepTyped
<1>7. CASE MergeFails(t)
  <2> DEFINE G == Group(rows)
             fresh == [i \in Ids |-> IF i \in G THEN inventory[i] ELSE NoRow]
  <2>1. /\ IF Cardinality(G) = 1
           THEN Returns(t, w, NoRows)
           ELSE IF G \subseteq Rows THEN Returns(t, Winner(fresh), fresh) ELSE FailsOpen(t)
        /\ UNCHANGED <<inventory, gate, heldHits, decideAt, dloc, sightings, reborn, slipped>>
        /\ UNCHANGED devFaults \/ DevFault
    BY <1>2, <1>4, <1>7 DEF MergeFails
  <2>2. fresh \in Inventory
    BY <1>1, RowsKept
  <2>3. G \subseteq Rows => Winner(fresh) \in Ids
    <3>1. G \subseteq Rows => Winner(fresh) \in G
      BY <1>3, WinnerOfFound DEF DevInv
    <3> QED BY <1>3, <3>1
  <2> HIDE DEF fresh, G
  <2>4. PICK p \in Places, f \in Session : Goes(t, p) /\ Has(t, f) /\ p # "merge"
    BY <1>4, <1>5, <2>1, <2>2, <2>3, ReturnsTyped, OverTyped DEF FailsOpen
  <2>5. devFaults' \in 0..MaxDevFaults
    BY <1>1, <2>1, DevTypes
  <2> QED BY <1>1, <2>1, <2>4, <2>5, ThreadStepTyped
<1> QED BY <1>6, <1>7

(* ... the throttled count ...                                              *)
LEMMA CountTyped ==
    ASSUME DevInv, NEW t \in SyncThreads,
           Claims(t) \/ OnlyHeld(t) \/ CountsSibling(t) \/ Reloads(t)
    PROVE  DevInv'
<1>1. /\ inventory \in Inventory /\ gate \in BOOLEAN /\ sloc[t] \in Session /\ Rows \subseteq Ids
      /\ heldHits \in [Mailboxes -> Nat \cup {Absent}] /\ sightings \in Nat
      /\ reborn \in BOOLEAN /\ slipped \subseteq SyncThreads /\ devFaults \in 0..MaxDevFaults
      /\ sloc \in [SyncThreads -> Session] /\ syncAt \in [SyncThreads -> Places]
  BY DevTypes
<1>2. sloc[t].m \in Mailboxes /\ sloc[t].dev \in Ids /\ sloc[t].seen \in Inventory
  BY <1>1, SessionFields
<1>3. {"write", "judge"} \subseteq Places
  BY DEF Places
<1>4. ASSUME Claims(t) PROVE DevInv'
  <2>1. PICK n \in Nat : n = IF heldHits[sloc[t].m] = Absent THEN 1 ELSE heldHits[sloc[t].m] + 1
    BY <1>1, <1>2
  <2>2. /\ heldHits' = [heldHits EXCEPT ![sloc[t].m] = 0]
        /\ sloc' = [sloc EXCEPT ![t].hits = n] /\ Goes(t, "write")
        /\ UNCHANGED <<inventory, gate, decideAt, dloc, sightings, reborn, slipped, devFaults>>
    BY <2>1 , <1>4 DEF Claims, SightingClaimed
  <2>3. Has(t, [sloc[t] EXCEPT !.hits = n])
    BY <2>2 DEF Has
  <2>4. [sloc[t] EXCEPT !.hits = n] \in Session
    BY <1>1, <2>1 DEF Session
  <2>5. heldHits' \in [Mailboxes -> Nat \cup {Absent}]
    BY <1>1, <2>2
  <2> QED BY <1>1, <1>3, <2>2, <2>3, <2>4, <2>5, ThreadStepTyped
<1>5. ASSUME OnlyHeld(t) PROVE DevInv'
  <2>1. heldHits' \in [Mailboxes -> Nat \cup {Absent}]
    BY <1>1, <1>2, <1>5 DEF OnlyHeld
  <2>2. Has(t, sloc[t]) /\ Goes(t, "judge")
        /\ UNCHANGED <<inventory, gate, decideAt, dloc, sightings, reborn, slipped, devFaults>>
    BY <1>1, <1>5 DEF OnlyHeld, Has
  <2> QED BY <1>1, <1>3, <2>1, <2>2, ThreadStepTyped
<1>6. ASSUME CountsSibling(t) PROVE DevInv'
  <2>1. Has(t, [sloc[t] EXCEPT !.hits = 1]) /\ Goes(t, "write")
        /\ UNCHANGED <<inventory, gate, heldHits, decideAt, dloc, sightings, reborn, slipped,
                       devFaults>>
    BY <1>6 DEF CountsSibling
  <2>2. [sloc[t] EXCEPT !.hits = 1] \in Session
    BY <1>1 DEF Session
  <2> QED BY <1>1, <1>3, <2>1, <2>2, ThreadStepTyped
<1>7. ASSUME Reloads(t) PROVE DevInv'
  <2>1. /\ Has(t, [sloc[t] EXCEPT !.seen = OnlySeen(inventory, sloc[t].dev)]) /\ Goes(t, "write")
        /\ UNCHANGED <<inventory, gate, heldHits, decideAt, dloc, sightings, reborn, slipped,
                       devFaults>>
    BY <1>1, <1>7 DEF Reloads, Goes, At
  <2>2. OnlySeen(inventory, sloc[t].dev) \in Inventory
    BY <1>1, <1>2, RowsKept
  <2>3. [sloc[t] EXCEPT !.seen = OnlySeen(inventory, sloc[t].dev)] \in Session
    BY <1>1, <2>2 DEF Session, Inventory
  <2> QED BY <1>1, <1>3, <2>1, <2>3, ThreadStepTyped
<1> QED BY <1>4, <1>5, <1>6, <1>7

(* ... its write, and the verdict ...                                       *)
LEMMA WriteTyped ==
    ASSUME DevInv, NEW t \in SyncThreads, Writes(t) \/ WriteFails(t) \/ Lets(t) \/ Ends(t)
    PROVE  DevInv'
<1>1. /\ inventory \in Inventory /\ gate \in BOOLEAN /\ sloc[t] \in Session /\ Rows \subseteq Ids
      /\ heldHits \in [Mailboxes -> Nat \cup {Absent}] /\ sightings \in Nat
      /\ reborn \in BOOLEAN /\ slipped \subseteq SyncThreads /\ devFaults \in 0..MaxDevFaults
  BY DevTypes
<1>2. sloc[t].m \in Keys /\ sloc[t].dev \in Ids /\ sloc[t].seen \in Inventory /\ sloc[t].hits \in Nat
  BY <1>1, SessionFields, RowFields
<1>3. NoRows \in Inventory /\ {"judge", "collapse"} \subseteq Places
  BY RowFields DEF Inventory, Places
<1>4. ASSUME Writes(t) PROVE DevInv'
  <2>1. InHand(t) \in DeviceRow
    BY <1>1, <1>2 DEF InHand, Inventory
  <2>2. Recounted(t) \in DeviceRow
    <3>1. PICK r \in DeviceRow : r = InHand(t)
      BY <2>1
    <3>2. r.n \in Nat /\ r.n + sloc[t].hits \in Nat
      BY <1>2, RowFields
    <3>3. Recounted(t) = [r EXCEPT !.key = sloc[t].m, !.n = r.n + sloc[t].hits]
      BY <3>1 DEF Recounted
    <3> QED BY <1>2, <3>2, <3>3 DEF DeviceRow
  <2>3. /\ inventory' = [inventory EXCEPT ![sloc[t].dev] = Updated(@, InHand(t), Recounted(t))]
        /\ Has(t, [sloc[t] EXCEPT !.seen = NoRows, !.hits = 0]) /\ Goes(t, "judge")
        /\ UNCHANGED <<gate, heldHits, decideAt, dloc, sightings, reborn, slipped, devFaults>>
    BY <1>4 DEF Writes
  <2>4. inventory' \in Inventory
    <3>1. Updated(inventory[sloc[t].dev], InHand(t), Recounted(t)) \in DeviceRow
      BY <1>1, <1>2, <2>1, <2>2, UpdatedRow DEF Inventory
    <3> QED BY <1>1, <1>2, <2>3, <3>1 DEF Inventory
  <2>5. [sloc[t] EXCEPT !.seen = NoRows, !.hits = 0] \in Session
    BY <1>1, <1>3 DEF Session, Inventory
  <2> QED BY <1>1, <1>3, <2>3, <2>4, <2>5, ThreadStepTyped
<1>5. ASSUME WriteFails(t) PROVE DevInv'
  <2>1. /\ Has(t, [sloc[t] EXCEPT !.seen = NoRows, !.hits = 0, !.after = "last"])
        /\ Goes(t, "collapse")
        /\ UNCHANGED <<inventory, gate, heldHits, decideAt, dloc, sightings, reborn, slipped>>
        /\ UNCHANGED devFaults \/ DevFault
    BY <1>5 DEF WriteFails
  <2>2. [sloc[t] EXCEPT !.seen = NoRows, !.hits = 0, !.after = "last"] \in Session
    BY <1>1, <1>3 DEF Session, Inventory
  <2>3. devFaults' \in 0..MaxDevFaults
    BY <1>1, <2>1, DevTypes
  <2> QED BY <1>1, <1>3, <2>1, <2>2, <2>3, ThreadStepTyped
<1>6. ASSUME Lets(t) \/ Ends(t) PROVE DevInv'
  <2>1. /\ Over(t) /\ slipped' \subseteq SyncThreads
        /\ UNCHANGED <<inventory, gate, heldHits, decideAt, dloc, sightings, reborn, devFaults>>
    BY <1>1, <1>6 DEF Lets, Ends
  <2>2. PICK p \in Places, f \in Session : Goes(t, p) /\ Has(t, f) /\ p # "merge"
    BY <2>1, OverTyped
  <2> QED BY <1>1, <2>1, <2>2, ThreadStepTyped
<1> QED BY <1>4, <1>5, <1>6

(* ... and every decision.                                                  *)
LEMMA DecisionTyped ==
    ASSUME DevInv, NEW d \in Deciders, DecisionStep(d)
    PROVE  DevInv'
<1>1. /\ inventory \in Inventory /\ gate \in BOOLEAN /\ Rows \subseteq Ids
      /\ heldHits \in [Mailboxes -> Nat \cup {Absent}] /\ sightings \in Nat
      /\ reborn \in BOOLEAN /\ slipped \subseteq SyncThreads /\ devFaults \in 0..MaxDevFaults
      /\ sloc \in [SyncThreads -> Session] /\ syncAt \in [SyncThreads -> Places]
  BY DevTypes
<1>2. /\ decideAt \in [Deciders -> {"idle", "read", "done"}]
      /\ dloc \in [Deciders -> [what: Decisions, dev: Ids, seen: Inventory]]
  BY DEF DevInv, DevTypeOK, Inventory
<1>3. ASSUME NEW what \in Decisions, NEW i \in Ids, DecisionReads(d, what, i) PROVE DevInv'
  <2>1. OnlySeen(inventory, i) \in Inventory
    BY <1>1, RowsKept
  <2>2. [what |-> what, dev |-> i, seen |-> OnlySeen(inventory, i)]
           \in [what: Decisions, dev: Ids, seen: Inventory]
    BY <2>1
  <2> QED BY <1>1, <1>2, <1>3, <2>2 DEF DecisionReads, DevInv, DevTypeOK, Inventory, MergesRows,
                                       DecisionsTaken,
     At, Group
<1>4. ASSUME EnableReads(d) PROVE DevInv'
  <2> DEFINE r == [i \in Ids |-> IF inventory[i].st = "pending" /\ ~inventory[i].lock
                                 THEN inventory[i] ELSE NoRow]
  <2>1. r \in Inventory
    BY <1>1, RowFields DEF Inventory
  <2>2. "enable" \in Decisions /\ 1 \in Ids
    BY IdsAreNumbers DEF Decisions
  <2>3. [what |-> "enable", dev |-> 1, seen |-> r] \in [what: Decisions, dev: Ids, seen: Inventory]
    <3> HIDE DEF r
    <3> QED BY <2>1, <2>2
  <2>4. /\ decideAt' = [decideAt EXCEPT ![d] = "read"]
        /\ dloc' = [dloc EXCEPT ![d] = [what |-> "enable", dev |-> 1, seen |-> r]]
        /\ UNCHANGED <<inventory, gate, heldHits, syncAt, sloc, sightings, reborn, slipped,
                       devFaults>>
    BY <1>4 DEF EnableReads
  <2> HIDE DEF r
  <2> QED BY <1>1, <1>2, <2>3, <2>4 DEF DevInv, DevTypeOK, Inventory, MergesRows, DecisionsTaken,
                                  At, Group
<1>5. ASSUME Disables(d) PROVE DevInv'
  BY <1>1, <1>2, <1>5 DEF Disables, DevInv, DevTypeOK, Inventory, MergesRows, DecisionsTaken,
     At, Group
<1>6. ASSUME DecisionCommits(d) PROVE DevInv'
  <2>1. dloc[d].what \in Decisions /\ dloc[d].seen \in Inventory
    BY <1>2
  <2>2. Ruled(d) \in Inventory
    <3>1. \A i \in Ids : Ruled(d)[i] \in DeviceRow
      <4> SUFFICES ASSUME NEW i \in Ids PROVE Ruled(d)[i] \in DeviceRow
        OBVIOUS
      <4>1. dloc[d].seen[i] \in DeviceRow /\ {"approved", "blocked", "rejected", "pending"} = Statuses
        BY <2>1 DEF Inventory, Statuses
      <4>2. [dloc[d].seen[i] EXCEPT !.st = "approved"] \in DeviceRow
        BY <4>1 DEF DeviceRow
      <4>3. ASSUME dloc[d].what # "enable", dloc[d].seen[i] # NoRow
            PROVE  Ruled(d)[i] \in DeviceRow
        <5>1. CASE dloc[d].what \in {"enable", "disable"}
          <6>1. dloc[d].what = "disable"
            BY <4>3, <5>1
          <6>2. dloc[d].seen = NoRows
            BY <6>1 DEF DevInv, DecisionsTaken
          <6> QED BY <4>3, <6>2 DEF NoRows
        <5>2. CASE dloc[d].what \notin {"enable", "disable"}
          <6>1. PICK x, y : x = Ruling(dloc[d].what).st /\ y = Ruling(dloc[d].what).lock
            OBVIOUS
          <6>2. x \in Statuses /\ y \in BOOLEAN
            BY <2>1, <5>2, <6>1 DEF Ruling, Decisions, Statuses
          <6>3. Ruled(d)[i] = [dloc[d].seen[i] EXCEPT !.st = x, !.lock = y]
            BY <4>3, <6>1 DEF Ruled
          <6> QED BY <4>1, <6>2, <6>3 DEF DeviceRow
        <5> QED BY <5>1, <5>2
      <4> QED BY <4>2, <4>3, RowFields DEF Ruled
    <3> QED BY <3>1 DEF Ruled, Inventory
  <2>3. /\ decideAt' = [decideAt EXCEPT ![d] = "done"] /\ dloc' = [dloc EXCEPT ![d] = NoDecision]
        /\ UNCHANGED <<heldHits, syncAt, sightings, reborn, slipped, devFaults>>
        /\ gate' \in BOOLEAN
    BY <1>1, <1>6 DEF DecisionCommits
  <2>4. inventory' \in Inventory
    <3>1. \A i \in Ids : Updated(inventory[i], dloc[d].seen[i], Ruled(d)[i]) \in DeviceRow
      BY <1>1, <2>1, <2>2, UpdatedRow DEF Inventory
    <3> QED BY <1>1, <1>6, <3>1 DEF DecisionCommits, Inventory
  <2>5. \A t \in SyncThreads : sloc'[t] \in Session /\ sloc'[t].seen = sloc[t].seen
    <3> SUFFICES ASSUME NEW t \in SyncThreads
                 PROVE  sloc'[t] \in Session /\ sloc'[t].seen = sloc[t].seen
      OBVIOUS
    <3>1. PICK f : f = sloc[t]
      OBVIOUS
    <3>2. f \in Session
      BY <1>1, <3>1
    <3>3. (f.late /\ ~Unsettles(Group(dloc[d].seen))) \in BOOLEAN
      OBVIOUS
    <3>4. sloc'[t] = [f EXCEPT !.late = @ /\ ~Unsettles(Group(dloc[d].seen))]
      BY <1>6, <3>1 DEF DecisionCommits
    <3> QED BY <3>1, <3>2, <3>3, <3>4 DEF Session
  <2>6. DOMAIN sloc' = SyncThreads /\ sloc' = [t \in SyncThreads |-> sloc'[t]]
    BY <1>6 DEF DecisionCommits
  <2>7. sloc' \in [SyncThreads -> Session]
    BY <2>5, <2>6
  <2>8. MergesRows' /\ DecisionsTaken'
    <3>1. NoDecision.seen = NoRows
      BY DEF NoDecision
    <3>2. MergesRows'
      BY <2>3, <2>5 DEF DevInv, MergesRows, At
    <3>3. DecisionsTaken'
      BY <1>2, <2>3, <3>1 DEF DevInv, DecisionsTaken
    <3> QED BY <3>2, <3>3
  <2>9. NoDecision \in [what: Decisions, dev: Ids, seen: Inventory]
    <3>1. "disable" \in Decisions /\ 1 \in Ids /\ NoRows \in Inventory
      BY IdsAreNumbers, RowFields DEF Decisions, Inventory
    <3> QED BY <3>1 DEF NoDecision
  <2> QED BY <1>1, <1>2, <2>3, <2>4, <2>7, <2>8, <2>9 DEF DevInv, DevTypeOK, Inventory, Places
<1> QED BY <1>3, <1>4, <1>5, <1>6 DEF DecisionStep

(* A phone has finitely many rows.                                          *)
LEMMA RowsCounted == Cardinality(Rows) \in Nat
<1>1. IsFiniteSet(Ids)
  BY DevicesAssumption, FS_Interval DEF Ids
<1>2. IsFiniteSet(Rows)
  BY <1>1, FS_Subset DEF Rows
<1> QED BY <1>2, FS_CardinalityType

(* The invariant holds at the start ...                                     *)
LEMMA DevInvInit == DevInit => DevInv
<1> SUFFICES ASSUME DevInit PROVE DevInv
  OBVIOUS
<1>1. NoRows \in Inventory /\ NoSession \in Session /\ 1 \in Ids /\ Legacy \in Keys
      /\ LegacyOwner \in Keys /\ {"pending", "approved"} \subseteq Statuses
  BY RowFields, SessionFields, IdsAreNumbers, DevicesAssumption DEF Inventory, Keys, Statuses
<1>2. inventory \in Inventory
  <2>1. PICK st \in {"pending", "approved"} :
           inventory \in {NoRows,
                          [NoRows EXCEPT ![1] = Row(Legacy, st)],
                          [NoRows EXCEPT ![1] = Row(Legacy, st),
                                         ![2] = Row(LegacyOwner, "pending")]}
    BY DEF DevInit
  <2>2. Row(Legacy, st) \in DeviceRow /\ Row(LegacyOwner, "pending") \in DeviceRow
    BY <1>1, NewRow
  <2> QED BY <1>1, <2>1, <2>2 DEF Inventory
<1>3. "disable" \in Decisions /\ NoDecision.seen = NoRows
      /\ NoDecision \in [what: Decisions, dev: Ids, seen: Inventory]
  BY <1>1 DEF NoDecision, Decisions
<1>4. MergesRows /\ DecisionsTaken
  BY <1>3 DEF DevInit, MergesRows, DecisionsTaken, At
<1>5. /\ gate \in BOOLEAN /\ heldHits \in [Mailboxes -> Nat \cup {Absent}]
      /\ reborn \in BOOLEAN /\ slipped \subseteq SyncThreads /\ sightings \in Nat
  BY RowsCounted DEF DevInit
<1>6. devFaults \in 0..MaxDevFaults
  BY DevicesAssumption DEF DevInit
<1>7. /\ syncAt \in [SyncThreads -> Places] /\ sloc \in [SyncThreads -> Session]
      /\ decideAt \in [Deciders -> {"idle", "read", "done"}]
  BY <1>1 DEF DevInit, Places
<1>8. dloc \in [Deciders -> [what: Decisions, dev: Ids, seen: Inventory]]
  BY <1>3 DEF DevInit
<1> QED BY <1>2, <1>4, <1>5, <1>6, <1>7, <1>8 DEF DevInv, DevTypeOK, Inventory, Places

(* ... and after every step.                                                *)
LEMMA DevInvStep ==
    ASSUME DevInv, [DevNext]_devVars
    PROVE  DevInv'
<1>1. ASSUME NEW t \in SyncThreads, SyncStep(t) PROVE DevInv'
  BY <1>1, LookupTyped, InsertTyped, CollapseTyped, MergeTyped, CountTyped, WriteTyped
     DEF SyncStep
<1>2. ASSUME NEW d \in Deciders, DecisionStep(d) PROVE DevInv'
  BY <1>2, DecisionTyped
<1>3. CASE UNCHANGED devVars
  BY <1>3 DEF devVars, DevInv, DevTypeOK, MergesRows, DecisionsTaken, At
<1> QED BY <1>1, <1>2, <1>3 DEF DevNext

(* Devices are of their types: counts stay numbers although a merge adds    *)
(* them up and a flush writes single columns, and every row that a session  *)
(* goes by or a decision changes is one of the inventory's kind.            *)
THEOREM DevicesTypeCorrect == DevSpec => []DevTypeOK
<1>1. DevInit => DevInv
  BY DevInvInit
<1>2. DevInv /\ [DevNext]_devVars => DevInv'
  BY DevInvStep
<1>3. DevInv => DevTypeOK
  BY DEF DevInv
<1> QED BY <1>1, <1>2, <1>3, PTL DEF DevSpec

-----------------------------------------------------------------------------
(* The lock of a stolen phone.                                              *)

(* A request that a lock should stop: the lock is still there, merges go by *)
(* copies that agree with it, and what the request will be judged by is     *)
(* locked.                                                                  *)
CopiesAgree(p, f, inv) ==
    p \in {"collapse", "merge"} =>
       \A i \in Ids : f.seen[i] # NoRow /\ inv[i] # NoRow => f.seen[i].lock = inv[i].lock
Agree == \A s \in SyncThreads : CopiesAgree(syncAt[s], sloc[s], inventory)
Fits(p, f, inv) ==
    /\ p # "insert"
    /\ p = "merge" => \E i \in Ids : f.seen[i].lock
    /\ p \in {"claim", "write", "judge"} =>
          /\ f.seen[f.dev] # NoRow => f.seen[f.dev].lock
          /\ inv[f.dev] # NoRow => inv[f.dev].lock
LateAreLocked ==
    \A t \in SyncThreads :
       sloc[t].late => Locked /\ Agree /\ Fits(syncAt[t], sloc[t], inventory)
LockInv == DevInv /\ LateAreLocked /\ LockBites

(* A step of thread t that deletes rows or rewrites them with their lock.   *)
LEMMA ThreadKeepsLate ==
    ASSUME DevInv, LateAreLocked, NEW t \in SyncThreads, NEW p \in Places, NEW f \in Session,
           Goes(t, p), Has(t, f),
           \A i \in Ids : inventory'[i] # NoRow =>
              inventory[i] # NoRow /\ inventory'[i].lock = inventory[i].lock,
           Locked /\ Agree => Locked',
           Agree => CopiesAgree(p, f, inventory),
           f.late => Locked /\ Agree /\ Fits(p, f, inventory')
    PROVE  LateAreLocked'
<1>1. /\ sloc \in [SyncThreads -> Session] /\ syncAt \in [SyncThreads -> Places]
      /\ sloc' = [sloc EXCEPT ![t] = f] /\ syncAt' = [syncAt EXCEPT ![t] = p]
  BY DevTypes DEF Goes, Has
<1>2. /\ sloc'[t] = f /\ syncAt'[t] = p
      /\ \A s \in SyncThreads \ {t} : sloc'[s] = sloc[s] /\ syncAt'[s] = syncAt[s]
  BY <1>1
<1>3. SUFFICES ASSUME NEW r \in SyncThreads, sloc'[r].late
               PROVE  Locked' /\ Agree' /\ Fits(syncAt'[r], sloc'[r], inventory')
  BY DEF LateAreLocked
<1>4. Locked /\ Agree
  BY <1>2, <1>3 DEF LateAreLocked
<1>5. Agree'
  <2>1. SUFFICES ASSUME NEW s \in SyncThreads PROVE CopiesAgree(syncAt'[s], sloc'[s], inventory')
    BY DEF Agree
  <2>2. CopiesAgree(syncAt'[s], sloc'[s], inventory)
    BY <1>2, <1>4 DEF Agree
  <2> QED BY <2>2 DEF CopiesAgree
<1>6. Fits(syncAt'[r], sloc'[r], inventory')
  <2>1. CASE r = t
    BY <1>2, <1>3, <2>1
  <2>2. CASE r # t
    <3>1. sloc'[r] = sloc[r] /\ syncAt'[r] = syncAt[r] /\ sloc[r].dev \in Ids
      BY <1>1, <1>2, <2>2, SessionFields
    <3>2. Fits(syncAt[r], sloc[r], inventory)
      BY <1>3, <3>1 DEF LateAreLocked
    <3> QED BY <3>1, <3>2 DEF Fits
  <2> QED BY <2>1, <2>2
<1> QED BY <1>4, <1>5, <1>6

(* ... and the step leaves the inventory alone.                             *)
LEMMA QuietKeepsLate ==
    ASSUME DevInv, LateAreLocked, NEW t \in SyncThreads, NEW p \in Places, NEW f \in Session,
           Goes(t, p), Has(t, f), inventory' = inventory,
           Agree => CopiesAgree(p, f, inventory),
           f.late => Locked /\ Agree /\ Fits(p, f, inventory)
    PROVE  LateAreLocked'
<1>1. /\ \A i \in Ids : inventory'[i] # NoRow =>
            inventory[i] # NoRow /\ inventory'[i].lock = inventory[i].lock
      /\ Locked /\ Agree => Locked'
      /\ f.late => Locked /\ Agree /\ Fits(p, f, inventory')
  BY DEF Locked
<1> QED BY <1>1, ThreadKeepsLate

(* A request that ends owes nothing to a lock.                              *)
LEMMA OverKeepsLate ==
    ASSUME DevInv, LateAreLocked, NEW t \in SyncThreads, Over(t), inventory' = inventory
    PROVE  LateAreLocked'
<1>1. "idle" \in Places /\ "idle" \notin {"collapse", "merge"} /\ NoSession \in Session
      /\ ~NoSession.late
  BY SessionFields DEF Places
<1>2. Goes(t, "idle") /\ Has(t, NoSession)
  BY DEF Over
<1>3. CopiesAgree("idle", NoSession, inventory)
  BY DEF CopiesAgree
<1> QED BY <1>1, <1>2, <1>3, QuietKeepsLate

(* A copy that was just read agrees with the inventory.                     *)
LEMMA OneSeenAgrees ==
    ASSUME DevInv, NEW i \in Ids, NEW p, NEW f, f.seen = OnlySeen(inventory, i)
    PROVE  CopiesAgree(p, f, inventory)
  BY DevTypes, RowsKept DEF CopiesAgree

(* A lock is on a row that exists.                                          *)
LEMMA LockedRows ==
    ASSUME DevInv, Locked
    PROVE  \E i \in Rows : inventory[i].lock
  BY DevTypes, RowFields DEF Locked

(* While the phone is locked it has a row, so a late request never inserts. *)
LEMMA LookupKeepsLate ==
    ASSUME DevInv, LateAreLocked, NEW t \in SyncThreads,
           \/ \E m \in Mailboxes : SyncArrives(t, m)
           \/ PageOpens(t)
           \/ LooksUp(t) \/ FindsSibling(t) \/ HitsCap(t) \/ HasRoom(t)
    PROVE  LateAreLocked'
<1>1. /\ inventory \in Inventory /\ gate \in BOOLEAN /\ sloc[t] \in Session /\ Rows \subseteq Ids
      /\ sloc \in [SyncThreads -> Session] /\ syncAt \in [SyncThreads -> Places]
  BY DevTypes
<1>2. {"idle", "look", "create", "insert", "collapse", "merge"} \subseteq Places
  BY DEF Places
<1>3. ASSUME NEW m \in Mailboxes, SyncArrives(t, m) PROVE LateAreLocked'
  <2> DEFINE f == [NoSession EXCEPT !.m = m, !.gate = gate, !.late = LockSettled]
  <2>1. LockSettled = TRUE \/ LockSettled = FALSE
    BY DEF LockSettled, Locked
  <2>2. f \in Session /\ (f.late => LockSettled)
    <3>1. \A l \in BOOLEAN : /\ [NoSession EXCEPT !.m = m, !.gate = gate, !.late = l] \in Session
                             /\ [NoSession EXCEPT !.m = m, !.gate = gate, !.late = l].late = l
      BY <1>1, SessionFields DEF Session
    <3>2. CASE LockSettled = TRUE
      <4>1. f = [NoSession EXCEPT !.m = m, !.gate = gate, !.late = TRUE]
        BY <3>2, Zenon
      <4> HIDE DEF f
      <4> QED BY <3>1, <3>2, <4>1
    <3>3. CASE LockSettled = FALSE
      <4>1. f = [NoSession EXCEPT !.m = m, !.gate = gate, !.late = FALSE]
        BY <3>3, Zenon
      <4> HIDE DEF f
      <4> QED BY <3>1, <4>1
    <3> HIDE DEF f
    <3> QED BY <2>1, <3>2, <3>3
  <2>3. Goes(t, "look") /\ inventory' = inventory
    BY <1>3 DEF SyncArrives
  <2>4. Has(t, f)
    BY <1>3, Zenon DEF SyncArrives
  <2> HIDE DEF f
  <2>5. LockSettled => Locked /\ Agree
    <3>1. ASSUME LockSettled, NEW s \in SyncThreads
          PROVE  CopiesAgree(syncAt[s], sloc[s], inventory)
      BY <3>1 DEF LockSettled, CopiesAgree, Copied
    <3> QED BY <3>1 DEF LockSettled, Agree
  <2>6. Fits("look", f, inventory) /\ CopiesAgree("look", f, inventory)
    BY DEF Fits, CopiesAgree
  <2> QED BY <1>2, <2>2, <2>3, <2>4, <2>5, <2>6, QuietKeepsLate
<1>4. ASSUME PageOpens(t) PROVE LateAreLocked'
  <2>1. PICK K : LET G == {i \in Rows : inventory[i].key \in K}
                 IN /\ Cardinality(G) > 1 \/ \E i \in G : inventory[i].key = Legacy
                    /\ Has(t, [NoSession EXCEPT !.seen = [i \in Ids |-> IF i \in G THEN inventory[i]
                                                                ELSE NoRow]])
    BY <1>4 DEF PageOpens
  <2> DEFINE G == {i \in Rows : inventory[i].key \in K}
             r == [i \in Ids |-> IF i \in G THEN inventory[i] ELSE NoRow]
             f == [NoSession EXCEPT !.seen = r]
  <2>2. Has(t, f) /\ Goes(t, "merge") /\ inventory' = inventory
    BY <1>4, <2>1 DEF PageOpens
  <2>3. r \in Inventory /\ \A i \in Ids : r[i] # NoRow => r[i] = inventory[i]
    <3> HIDE DEF G
    <3> QED BY <1>1, RowFields DEF Inventory
  <2>4. f \in Session /\ f.seen = r /\ ~f.late
    <3> HIDE DEF r
    <3> QED BY <2>3, SessionFields DEF Session, Inventory
  <2> HIDE DEF f, r, G
  <2>5. CopiesAgree("merge", f, inventory)
    BY <2>3, <2>4 DEF CopiesAgree
  <2> QED BY <1>2, <2>2, <2>4, <2>5, QuietKeepsLate
<1>5. ASSUME LooksUp(t) PROVE LateAreLocked'
  <2> DEFINE found == Matching(sloc[t].m)
             dev == Winner([i \in Ids |-> IF i \in found THEN inventory[i] ELSE NoRow])
             f == [sloc[t] EXCEPT !.seen = OnlySeen(inventory, dev), !.dev = dev, !.after = "seen"]
  <2>1. inventory' = inventory /\ At(t, "look")
    BY <1>5 DEF LooksUp
  <2>2. CASE found = {}
    <3>1. Goes(t, "create") /\ Has(t, sloc[t])
      BY <1>1, <1>5, <2>2 DEF LooksUp, Has
    <3>2. Fits("create", sloc[t], inventory) /\ CopiesAgree("create", sloc[t], inventory)
      BY DEF Fits, CopiesAgree
    <3>3. sloc[t].late => Locked /\ Agree
      BY DEF LateAreLocked
    <3> QED BY <1>1, <1>2, <2>1, <3>1, <3>2, <3>3, QuietKeepsLate
  <2>3. CASE found # {}
    <3>1. Goes(t, "collapse") /\ Has(t, f)
      BY <1>5, <2>3 DEF LooksUp
    <3>2. found \subseteq Rows
      BY DEF Matching
    <3>3. dev \in Ids
      <4> HIDE DEF found
      <4> QED BY <1>1, <2>3, <3>2, WinnerOfFound DEF DevInv
    <3>4. OnlySeen(inventory, dev) \in Inventory
      <4> HIDE DEF dev
      <4> QED BY <1>1, <3>3, RowsKept
    <3>5. f \in Session /\ f.seen = OnlySeen(inventory, dev) /\ f.late = sloc[t].late
      <4> HIDE DEF dev
      <4> QED BY <1>1, <3>3, <3>4 DEF Session, Inventory
    <3> HIDE DEF f, dev, found
    <3>6. CopiesAgree("collapse", f, inventory)
      BY <3>3, <3>5, OneSeenAgrees
    <3>7. Fits("collapse", f, inventory)
      BY DEF Fits
    <3>8. f.late => Locked /\ Agree
      BY <3>5 DEF LateAreLocked
    <3> QED BY <1>2, <2>1, <3>1, <3>5, <3>6, <3>7, <3>8, QuietKeepsLate
  <2> QED BY <2>2, <2>3
<1>6. ASSUME FindsSibling(t) PROVE LateAreLocked'
  <2> DEFINE first == CHOOSE i \in Rows : \A j \in Rows : i <= j
             f == [sloc[t] EXCEPT !.seen = OnlySeen(inventory, first), !.dev = first,
                                      !.after = "sibling"]
  <2>1. first \in Ids
    <3>1. Rows # {} /\ Rows \subseteq Nat
      BY <1>1, <1>6, IdsAreNumbers DEF FindsSibling
    <3>2. \E i \in Rows : \A j \in Rows : i <= j
      BY <3>1, LeastOfSet
    <3> QED BY <1>1, <3>2
  <2>2. Goes(t, "collapse") /\ Has(t, f) /\ inventory' = inventory
    BY <1>6 DEF FindsSibling
  <2>3. f \in Session /\ f.seen = OnlySeen(inventory, first) /\ f.late = sloc[t].late
    <3> HIDE DEF first
    <3>1. OnlySeen(inventory, first) \in Inventory
      BY <1>1, <2>1, RowsKept
    <3> QED BY <1>1, <2>1, <3>1 DEF Session, Inventory
  <2> HIDE DEF f, first
  <2>4. CopiesAgree("collapse", f, inventory)
    BY <2>1, <2>3, OneSeenAgrees
  <2>5. Fits("collapse", f, inventory)
    BY DEF Fits
  <2>6. f.late => Locked /\ Agree
    BY <2>3 DEF LateAreLocked
  <2> QED BY <1>2, <2>2, <2>3, <2>4, <2>5, <2>6, QuietKeepsLate
<1>7. ASSUME HitsCap(t) PROVE LateAreLocked'
  BY <1>7, OverKeepsLate DEF HitsCap
<1>8. ASSUME HasRoom(t) PROVE LateAreLocked'
  <2>1. Goes(t, "insert") /\ Has(t, sloc[t]) /\ inventory' = inventory /\ Rows = {}
    BY <1>1, <1>8 DEF HasRoom, Has
  <2>2. ~sloc[t].late
    BY <2>1, LockedRows DEF LateAreLocked
  <2>3. CopiesAgree("insert", sloc[t], inventory)
    BY DEF CopiesAgree
  <2> QED BY <1>1, <1>2, <2>1, <2>2, <2>3, QuietKeepsLate
<1> QED BY <1>3, <1>4, <1>5, <1>6, <1>7, <1>8

(* An insertion goes to an identifier that no late request goes by.         *)
LEMMA InsertKeepsLate ==
    ASSUME DevInv, LateAreLocked, NEW t \in SyncThreads, Inserts(t) \/ InsertFails(t)
    PROVE  LateAreLocked'
<1>1. /\ inventory \in Inventory /\ sloc[t] \in Session /\ Rows \subseteq Ids
      /\ sloc \in [SyncThreads -> Session] /\ syncAt \in [SyncThreads -> Places]
      /\ \A i \in Ids : i \in Rows <=> inventory[i] # NoRow
  BY DevTypes
<1>2. ~sloc[t].late
  BY DEF LateAreLocked, Fits, Inserts, InsertFails, At
<1>3. ASSUME Inserts(t) PROVE LateAreLocked'
  <2>1. PICK i \in Ids : /\ inventory[i] = NoRow
                         /\ inventory' = [inventory EXCEPT ![i] = Row(sloc[t].m, "pending")]
                         /\ sloc' = [s \in SyncThreads |->
                               [(IF s = t THEN [sloc[t] EXCEPT !.dev = i] ELSE sloc[s])
                                    EXCEPT !.late = @ /\ Holding(i) = {}]]
    BY <1>3, NewIdFree DEF Inserts
  <2>2. syncAt' = [syncAt EXCEPT ![t] = "judge"] /\ At(t, "insert")
    BY <1>3 DEF Inserts, Goes
  <2>3. /\ \A j \in Ids \ {i} : inventory'[j] = inventory[j]
        /\ inventory[i] = NoRow
    BY <1>1, <2>1 DEF Inventory
  <2>4. /\ ~sloc'[t].late
        /\ \A s \in SyncThreads \ {t} :
              /\ sloc'[s].seen = sloc[s].seen /\ sloc'[s].dev = sloc[s].dev
              /\ sloc'[s].late => sloc[s].late /\ Holding(i) = {}
    <3>1. \A s \in SyncThreads :
             LET f == IF s = t THEN [sloc[t] EXCEPT !.dev = i] ELSE sloc[s]
             IN  f \in Session /\ sloc'[s] = [f EXCEPT !.late = @ /\ Holding(i) = {}]
      BY <1>1, <2>1 DEF Session
    <3>2. ASSUME NEW f \in Session
          PROVE  LET g == [f EXCEPT !.late = @ /\ Holding(i) = {}]
                 IN  g.seen = f.seen /\ g.dev = f.dev /\ (g.late => f.late /\ Holding(i) = {})
      <4>1. (f.late /\ Holding(i) = {}) \in BOOLEAN
        OBVIOUS
      <4> QED BY <4>1 DEF Session
    <3>3. [sloc[t] EXCEPT !.dev = i].late = sloc[t].late
      BY <1>1 DEF Session
    <3>4. ~sloc'[t].late
      <4>1. PICK f \in Session : f = [sloc[t] EXCEPT !.dev = i]
        BY <3>1
      <4>2. sloc'[t] = [f EXCEPT !.late = @ /\ Holding(i) = {}]
        BY <3>1, <4>1
      <4>3. ~f.late
        BY <1>2, <3>3, <4>1
      <4>4. sloc'[t].late => f.late /\ Holding(i) = {}
        BY <3>2, <4>2
      <4> QED BY <4>3, <4>4
    <3>5. ASSUME NEW s \in SyncThreads \ {t}
          PROVE  /\ sloc'[s].seen = sloc[s].seen /\ sloc'[s].dev = sloc[s].dev
                 /\ sloc'[s].late => sloc[s].late /\ Holding(i) = {}
      <4>1. PICK f \in Session : f = sloc[s]
        BY <1>1
      <4>2. sloc'[s] = [f EXCEPT !.late = @ /\ Holding(i) = {}]
        BY <3>1, <4>1
      <4> QED BY <3>2, <4>1, <4>2
    <3> QED BY <3>4, <3>5
  <2>5. SUFFICES ASSUME NEW r \in SyncThreads, sloc'[r].late
                 PROVE  Locked' /\ Agree' /\ Fits(syncAt'[r], sloc'[r], inventory')
    BY DEF LateAreLocked
  <2>6. r # t /\ sloc[r].late /\ Holding(i) = {}
    BY <2>4, <2>5
  <2>7. Locked /\ Agree /\ Fits(syncAt[r], sloc[r], inventory)
    BY <2>6 DEF LateAreLocked
  <2>8. Locked'
    <3>1. PICK j \in Rows : inventory[j].lock
      BY <2>7, LockedRows
    <3>2. j # i /\ j \in Ids
      BY <1>1, <2>1, <3>1
    <3>3. inventory'[j].lock
      BY <2>3, <3>1, <3>2
    <3> QED BY <3>2, <3>3 DEF Locked
  <2>9. Agree'
    <3>1. SUFFICES ASSUME NEW s \in SyncThreads
                   PROVE  CopiesAgree(syncAt'[s], sloc'[s], inventory')
      BY DEF Agree
    <3>2. CASE s = t
      BY <1>1, <2>2, <3>2 DEF CopiesAgree
    <3>3. CASE s # t
      <4>1. syncAt'[s] = syncAt[s] /\ sloc'[s].seen = sloc[s].seen
        BY <1>1, <2>2, <2>4, <3>3
      <4>2. syncAt[s] \in {"collapse", "merge"} => sloc[s].seen[i] = NoRow
        BY <2>6 DEF Holding, Copied
      <4>3. CopiesAgree(syncAt[s], sloc[s], inventory)
        BY <2>7 DEF Agree
      <4> QED BY <2>3, <4>1, <4>2, <4>3 DEF CopiesAgree
    <3> QED BY <3>2, <3>3
  <2>10. Fits(syncAt'[r], sloc'[r], inventory')
    <3>1. syncAt'[r] = syncAt[r] /\ sloc'[r].seen = sloc[r].seen /\ sloc'[r].dev = sloc[r].dev
          /\ sloc[r].dev \in Ids
      BY <1>1, <2>2, <2>4, <2>6, SessionFields
    <3>2. syncAt[r] \in {"claim", "write", "judge"} => sloc[r].dev # i
      BY <2>6 DEF Holding
    <3> QED BY <2>3, <2>7, <3>1, <3>2 DEF Fits
  <2> QED BY <2>7, <2>8, <2>9, <2>10
<1>4. ASSUME InsertFails(t) PROVE LateAreLocked'
  <2>1. inventory' = inventory
    BY <1>4 DEF InsertFails
  <2>2. CASE Rows = {}
    BY <1>4, <2>1, <2>2, OverKeepsLate DEF InsertFails, FailsOpen
  <2>3. CASE Rows # {}
    <3>1. PICK keep \in Ids :
             /\ Has(t, [sloc[t] EXCEPT !.seen = OnlySeen(inventory, keep), !.dev = keep,
                                         !.after = "last"])
             /\ Goes(t, "collapse")
      BY <1>1, <1>4, <2>3 DEF InsertFails, Matching
    <3>2. OnlySeen(inventory, keep) \in Inventory
      BY <1>1, RowsKept
    <3> DEFINE f == [sloc[t] EXCEPT !.seen = OnlySeen(inventory, keep), !.dev = keep, !.after = "last"]
    <3>3. f \in Session /\ f.seen = OnlySeen(inventory, keep) /\ f.late = sloc[t].late
      BY <1>1, <3>2 DEF Session, Inventory
    <3>4. Has(t, f) /\ Goes(t, "collapse") /\ "collapse" \in Places
      BY <3>1 DEF Places
    <3> HIDE DEF f
    <3>5. CopiesAgree("collapse", f, inventory)
      BY <3>3, OneSeenAgrees
    <3> QED BY <1>2, <2>1, <3>3, <3>4, <3>5, QuietKeepsLate
  <2> QED BY <2>2, <2>3
<1> QED BY <1>3, <1>4

(* The collapse ends in a verdict or goes on to count, with the row of dev. *)
LEMMA ReturnsKeepsLate ==
    ASSUME DevInv, LateAreLocked, NEW t \in SyncThreads, NEW dev \in Ids, NEW seen \in Inventory,
           Returns(t, dev, seen),
           \A i \in Ids : inventory'[i] # NoRow =>
              inventory[i] # NoRow /\ inventory'[i].lock = inventory[i].lock,
           Locked /\ Agree => Locked',
           sloc[t].late => /\ seen[dev] # NoRow => seen[dev].lock
                           /\ inventory'[dev] # NoRow => inventory'[dev].lock
    PROVE  LateAreLocked'
<1>1. sloc[t] \in Session /\ sloc[t].after \in {"seen", "sibling", "last", "page"}
  BY DevTypes, SessionFields
<1>2. {"idle", "claim", "judge"} \subseteq Places
  BY DEF Places
<1>3. CASE sloc[t].after = "page"
  <2>1. Goes(t, "idle") /\ Has(t, NoSession) /\ NoSession \in Session /\ ~NoSession.late
    BY <1>3, SessionFields DEF Returns, NextPlace
  <2>2. CopiesAgree("idle", NoSession, inventory)
    BY DEF CopiesAgree
  <2> QED BY <1>2, <2>1, <2>2, ThreadKeepsLate
<1>4. CASE sloc[t].after # "page"
  <2> DEFINE f == [sloc[t] EXCEPT !.dev = dev, !.seen = seen]
  <2>1. PICK p \in {"claim", "judge"} : Goes(t, p) /\ Has(t, f)
    BY <1>1, <1>4 DEF Returns, NextPlace
  <2>2. f \in Session /\ f.dev = dev /\ f.seen = seen /\ f.late = sloc[t].late
    BY <1>1 DEF Session, Inventory
  <2> HIDE DEF f
  <2>3. CopiesAgree(p, f, inventory)
    BY DEF CopiesAgree
  <2>4. f.late => Locked /\ Agree /\ Fits(p, f, inventory')
    BY <2>2 DEF Fits, LateAreLocked
  <2> QED BY <1>2, <2>1, <2>2, <2>3, <2>4, ThreadKeepsLate
<1> QED BY <1>3, <1>4

(* A collapse loads the locked row, stale or not, and all copies agree.     *)
LEMMA CollapseKeepsLate ==
    ASSUME DevInv, LateAreLocked, NEW t \in SyncThreads, Collapses(t)
    PROVE  LateAreLocked'
<1>1. /\ inventory \in Inventory /\ sloc[t] \in Session /\ Rows \subseteq Ids
      /\ \A i \in Ids : i \in Rows <=> inventory[i] # NoRow
  BY DevTypes
<1>2. PICK rows : rows = IF Rows = {} THEN OnlySeen(sloc[t].seen, sloc[t].dev) ELSE Loaded(sloc[t])
  OBVIOUS
<1>3. rows \in Inventory
  <2>1. sloc[t].seen \in Inventory /\ sloc[t].dev \in Ids
    BY <1>1, SessionFields
  <2> QED BY <1>1, <1>2, <2>1, RowsKept, LoadedTyped DEF DevInv
<1>4. inventory' = inventory /\ At(t, "collapse")
  BY DEF Collapses
<1>5. PICK only : only = CHOOSE i \in Group(rows) : TRUE
  OBVIOUS
<1>6. \/ FailsOpen(t)
      \/ Cardinality(Group(rows)) = 1 /\ Returns(t, only, rows)
      \/ Has(t, [sloc[t] EXCEPT !.seen = rows]) /\ Goes(t, "merge")
  BY <1>2, <1>5 DEF Collapses
<1>7. Agree => \A i \in Ids : rows[i] # NoRow /\ inventory[i] # NoRow
                                 => rows[i].lock = inventory[i].lock
  <2>1. SUFFICES ASSUME Agree, NEW i \in Ids, rows[i] # NoRow, inventory[i] # NoRow
                 PROVE  rows[i].lock = inventory[i].lock
    OBVIOUS
  <2>2. rows = Loaded(sloc[t])
    BY <1>1, <1>2, <2>1
  <2>3. rows[i] = IF sloc[t].seen[i] # NoRow THEN sloc[t].seen[i] ELSE inventory[i]
    BY <1>1, <2>1, <2>2 DEF Loaded
  <2>4. CopiesAgree("collapse", sloc[t], inventory)
    BY <1>4, <2>1 DEF Agree, At
  <2> QED BY <2>1, <2>3, <2>4 DEF CopiesAgree
<1>8. sloc[t].late => /\ Locked /\ Agree
                      /\ \E i \in Group(rows) : rows[i].lock /\ inventory[i].lock
  <2>1. SUFFICES ASSUME sloc[t].late PROVE \E i \in Group(rows) : rows[i].lock /\ inventory[i].lock
    BY DEF LateAreLocked
  <2>2. Locked /\ Agree
    BY <2>1 DEF LateAreLocked
  <2>3. PICK i \in Rows : inventory[i].lock
    BY <2>2, LockedRows
  <2>4. rows = Loaded(sloc[t]) /\ i \in Ids
    BY <1>1, <1>2, <2>3
  <2>5. rows[i] = IF sloc[t].seen[i] # NoRow THEN sloc[t].seen[i] ELSE inventory[i]
    BY <2>3, <2>4 DEF Loaded
  <2>6. rows[i] # NoRow /\ inventory[i] # NoRow
    BY <1>1, <2>3, <2>5
  <2>7. rows[i].lock = inventory[i].lock
    BY <1>7, <2>2, <2>4, <2>6
  <2> QED BY <2>3, <2>4, <2>6, <2>7 DEF Group
<1>9. CASE FailsOpen(t)
  BY <1>4, <1>9, OverKeepsLate DEF FailsOpen
<1>10. CASE Cardinality(Group(rows)) = 1 /\ Returns(t, only, rows)
  <2>1. PICK x : Group(rows) = {x}
    <3>1. Cardinality(Group(rows)) = 1
      BY <1>10
    <3>2. IsFiniteSet(Group(rows))
      <4>1. IsFiniteSet(Ids)
        BY DevicesAssumption, FS_Interval DEF Ids
      <4> QED BY <4>1, FS_Subset DEF Group
    <3> QED BY <3>1, <3>2, FS_Singleton
  <2>2. only = x /\ only \in Ids
    BY <1>5, <2>1 DEF Group
  <2>3. sloc[t].late => rows[only].lock /\ inventory[only].lock
    BY <1>8, <2>1, <2>2
  <2>4. /\ \A i \in Ids : inventory'[i] # NoRow =>
              inventory[i] # NoRow /\ inventory'[i].lock = inventory[i].lock
        /\ Locked /\ Agree => Locked'
    BY <1>4 DEF Locked
  <2>5. sloc[t].late => /\ rows[only] # NoRow => rows[only].lock
                        /\ inventory'[only] # NoRow => inventory'[only].lock
    BY <1>4, <2>3
  <2>6. Returns(t, only, rows)
    BY <1>10
  <2> QED BY <1>3, <2>2, <2>4, <2>5, <2>6, ReturnsKeepsLate
<1>11. CASE Has(t, [sloc[t] EXCEPT !.seen = rows]) /\ Goes(t, "merge")
  <2> DEFINE f == [sloc[t] EXCEPT !.seen = rows]
  <2>1. f \in Session /\ f.seen = rows /\ f.late = sloc[t].late
    BY <1>1, <1>3 DEF Session, Inventory
  <2>2. Has(t, f) /\ Goes(t, "merge") /\ "merge" \in Places
    BY <1>11 DEF Places
  <2> HIDE DEF f
  <2>3. Agree => CopiesAgree("merge", f, inventory)
    BY <1>7, <2>1 DEF CopiesAgree
  <2>4. f.late => Locked /\ Agree /\ Fits("merge", f, inventory)
    BY <1>8, <2>1 DEF Fits, Group
  <2> QED BY <1>4, <2>1, <2>2, <2>3, <2>4, QuietKeepsLate
<1> QED BY <1>6, <1>9, <1>10, <1>11

(* A locked row among those merged makes the winner locked.                 *)
LEMMA LockedWinner ==
    ASSUME NEW rows \in Inventory, \E i \in Ids : rows[i].lock
    PROVE  rows[Winner(rows)].lock /\ Winner(rows) \in Group(rows)
<1>1. PICK i \in Ids : rows[i].lock
  OBVIOUS
<1>2. i \in Group(rows)
  BY <1>1, RowFields DEF Group
<1>3. Absorbed(rows).lock = rows[Winner(rows)].lock /\ Winner(rows) \in Group(rows)
  BY <1>2, AbsorbedTyped, WinnerExists DEF Inventory
<1>4. Absorbed(rows).lock
  BY <1>1, <1>2 DEF Absorbed
<1> QED BY <1>3, <1>4

(* A merge deletes a locked row only into a winner that is locked too, in   *)
(* the copies and, as they agree, in the inventory.                         *)
LEMMA MergeKeepsLate ==
    ASSUME DevInv, LateAreLocked, NEW t \in SyncThreads, MergeCommits(t) \/ MergeFails(t)
    PROVE  LateAreLocked'
<1>1. /\ inventory \in Inventory /\ sloc[t] \in Session /\ Rows \subseteq Ids
      /\ \A i \in Ids : i \in Rows <=> inventory[i] # NoRow
  BY DevTypes
<1>2. PICK rows \in Inventory : rows = sloc[t].seen
  BY <1>1, SessionFields
<1>3. Group(rows) # {} /\ Group(rows) \subseteq Ids /\ At(t, "merge")
  BY <1>2, RowsKept DEF DevInv, MergesRows, MergeCommits, MergeFails
<1>4. PICK w \in Ids : w = Winner(rows) /\ w \in Group(rows)
  BY <1>2, <1>3, WinnerExists DEF Inventory
<1>5. NoRows \in Inventory /\ NoRows[w] = NoRow
  BY <1>4, RowFields DEF Inventory
<1>6. Agree => \A i \in Group(rows) : inventory[i] # NoRow => rows[i].lock = inventory[i].lock
  BY <1>2, <1>3 DEF Agree, CopiesAgree, At, Group
<1>7. sloc[t].late => Agree /\ Locked /\ rows[w].lock
                      /\ \E i \in Group(rows) : rows[i].lock
  <2>1. sloc[t].late => Agree /\ Locked /\ \E i \in Ids : rows[i].lock
    BY <1>2, <1>3 DEF LateAreLocked, Fits, At
  <2> QED BY <1>2, <1>4, <2>1, LockedWinner, RowFields DEF Group
<1>8. CASE MergeCommits(t)
  <2>1. /\ inventory' = [i \in Ids |->
             IF i = w THEN Updated(inventory[w], rows[w], Absorbed(rows))
             ELSE IF i \in Group(rows) THEN NoRow ELSE inventory[i]]
        /\ Returns(t, w, NoRows) /\ inventory[w] # NoRow
    BY <1>2, <1>4, <1>8 DEF MergeCommits, CanUpdate
  <2>2. inventory'[w].lock = inventory[w].lock
    <3>1. Absorbed(rows) \in DeviceRow /\ Absorbed(rows).lock = rows[w].lock
          /\ rows[w] \in DeviceRow /\ inventory[w] \in DeviceRow
      BY <1>1, <1>2, <1>3, <1>4, AbsorbedTyped DEF Inventory
    <3>2. inventory'[w] = Updated(inventory[w], rows[w], Absorbed(rows))
      BY <2>1
    <3> HIDE DEF Inventory
    <3> QED BY <3>1, <3>2, UpdatedRow
  <2>3. \A i \in Ids : inventory'[i] # NoRow =>
           inventory[i] # NoRow /\ inventory'[i].lock = inventory[i].lock
    <3>1. SUFFICES ASSUME NEW i \in Ids, inventory'[i] # NoRow
                   PROVE  inventory[i] # NoRow /\ inventory'[i].lock = inventory[i].lock
      OBVIOUS
    <3>2. CASE i = w
      BY <2>1, <2>2, <3>2
    <3>3. CASE i # w
      BY <2>1, <3>1, <3>3
    <3> QED BY <3>2, <3>3
  <2>4. Locked /\ Agree => Locked'
    <3>1. SUFFICES ASSUME Locked, Agree PROVE Locked'
      OBVIOUS
    <3>2. PICK j \in Rows : inventory[j].lock
      BY <3>1, LockedRows
    <3>3. CASE j \in Group(rows)
      <4>1. rows[j].lock
        BY <1>1, <1>6, <3>1, <3>2, <3>3
      <4>2. rows[w].lock
        BY <1>1, <1>2, <1>4, <3>2, <4>1, LockedWinner
      <4>3. inventory[w].lock
        BY <1>4, <1>6, <2>1, <3>1, <4>2
      <4> QED BY <2>2, <4>3 DEF Locked
    <3>4. CASE j \notin Group(rows)
      <4>1. j # w /\ j \in Ids
        BY <1>1, <1>4, <3>2, <3>4
      <4>2. inventory'[j] = inventory[j]
        BY <2>1, <3>4, <4>1
      <4> QED BY <3>2, <4>1, <4>2 DEF Locked
    <3> QED BY <3>3, <3>4
  <2>5. sloc[t].late => inventory'[w].lock
    BY <1>4, <1>6, <1>7, <2>1, <2>2
  <2> QED BY <1>5, <2>1, <2>3, <2>4, <2>5, ReturnsKeepsLate
<1>9. CASE MergeFails(t)
  <2> DEFINE G == Group(rows)
             fresh == [i \in Ids |-> IF i \in G THEN inventory[i] ELSE NoRow]
  <2>1. /\ IF Cardinality(G) = 1
           THEN Returns(t, w, NoRows)
           ELSE IF G \subseteq Rows THEN Returns(t, Winner(fresh), fresh) ELSE FailsOpen(t)
        /\ inventory' = inventory
    BY <1>2, <1>4, <1>9 DEF MergeFails
  <2>2. /\ \A i \in Ids : inventory'[i] # NoRow =>
              inventory[i] # NoRow /\ inventory'[i].lock = inventory[i].lock
        /\ Locked /\ Agree => Locked'
    BY <2>1 DEF Locked
  <2>3. CASE Returns(t, w, NoRows)
    <3>1. sloc[t].late => (inventory'[w] # NoRow => inventory'[w].lock)
      BY <1>4, <1>6, <1>7, <2>1
    <3> QED BY <1>5, <2>2, <2>3, <3>1, ReturnsKeepsLate
  <2>4. CASE G \subseteq Rows /\ Returns(t, Winner(fresh), fresh)
    <3>1. fresh \in Inventory
      BY <1>1, RowsKept
    <3>2. Winner(fresh) \in G /\ Winner(fresh) \in Ids
      BY <1>3, <2>4, WinnerOfFound DEF DevInv
    <3>3. sloc[t].late => fresh[Winner(fresh)].lock
      <4>1. SUFFICES ASSUME sloc[t].late PROVE fresh[Winner(fresh)].lock
        OBVIOUS
      <4>2. PICK i \in G : rows[i].lock
        BY <1>7, <4>1
      <4>3. i \in Ids /\ inventory[i] # NoRow
        BY <1>1, <1>3, <2>4, <4>2
      <4>4. inventory[i].lock
        BY <1>6, <1>7, <4>1, <4>2, <4>3
      <4>5. fresh[i].lock
        BY <4>2, <4>3, <4>4
      <4> HIDE DEF fresh
      <4> QED BY <3>1, <4>3, <4>5, LockedWinner
    <3>4. fresh[Winner(fresh)] = inventory'[Winner(fresh)]
      <4>1. \A i \in G : fresh[i] = inventory[i]
        BY <1>3
      <4> HIDE DEF fresh
      <4> QED BY <2>1, <3>2, <4>1
    <3> HIDE DEF fresh
    <3> QED BY <2>2, <2>4, <3>1, <3>2, <3>3, <3>4, ReturnsKeepsLate
  <2>5. CASE FailsOpen(t)
    BY <2>1, <2>5, OverKeepsLate DEF FailsOpen
  <2> HIDE DEF fresh, G
  <2> QED BY <2>1, <2>3, <2>4, <2>5
<1> QED BY <1>8, <1>9

(* Counting changes no lock ...                                             *)
LEMMA CountKeepsLate ==
    ASSUME DevInv, LateAreLocked, NEW t \in SyncThreads,
           Claims(t) \/ OnlyHeld(t) \/ CountsSibling(t) \/ Reloads(t)
    PROVE  LateAreLocked'
<1>1. /\ inventory \in Inventory /\ sloc[t] \in Session
      /\ heldHits \in [Mailboxes -> Nat \cup {Absent}]
      /\ sloc \in [SyncThreads -> Session] /\ syncAt \in [SyncThreads -> Places]
  BY DevTypes
<1>2. sloc[t].m \in Mailboxes /\ sloc[t].dev \in Ids /\ sloc[t].seen \in Inventory
  BY <1>1, SessionFields
<1>3. /\ {"write", "judge"} \subseteq Places
      /\ \A f : CopiesAgree("write", f, inventory) /\ CopiesAgree("judge", f, inventory)
  BY DEF Places, CopiesAgree
<1>4. sloc[t].late => Locked /\ Agree /\ Fits(syncAt[t], sloc[t], inventory)
  BY DEF LateAreLocked
<1>5. ASSUME NEW n \in Nat, Has(t, [sloc[t] EXCEPT !.hits = n]), Goes(t, "write"),
             At(t, "claim"), inventory' = inventory
      PROVE  LateAreLocked'
  <2> DEFINE f == [sloc[t] EXCEPT !.hits = n]
  <2>1. f \in Session /\ f.late = sloc[t].late /\ f.seen = sloc[t].seen /\ f.dev = sloc[t].dev
    BY <1>1 DEF Session
  <2>2. Has(t, f)
    BY <1>5
  <2> HIDE DEF f
  <2>3. f.late => Locked /\ Agree /\ Fits("write", f, inventory)
    BY <1>4, <1>5, <2>1 DEF Fits, At
  <2> QED BY <1>3, <1>5, <2>1, <2>2, <2>3, QuietKeepsLate
<1>6. ASSUME Claims(t) PROVE LateAreLocked'
  <2>1. PICK n \in Nat : n = IF heldHits[sloc[t].m] = Absent THEN 1 ELSE heldHits[sloc[t].m] + 1
    BY <1>1, <1>2
  <2>2. sloc' = [sloc EXCEPT ![t].hits = n] /\ Goes(t, "write") /\ At(t, "claim")
        /\ inventory' = inventory
    BY <2>1, <1>6 DEF Claims, SightingClaimed
  <2>3. Has(t, [sloc[t] EXCEPT !.hits = n])
    BY <2>2 DEF Has
  <2> QED BY <1>5, <2>2, <2>3
<1>7. ASSUME OnlyHeld(t) PROVE LateAreLocked'
  <2>1. Has(t, sloc[t]) /\ Goes(t, "judge") /\ At(t, "claim") /\ inventory' = inventory
    BY <1>1, <1>7 DEF OnlyHeld, Has
  <2>2. sloc[t].late => Locked /\ Agree /\ Fits("judge", sloc[t], inventory)
    BY <1>4, <2>1 DEF Fits, At
  <2> QED BY <1>1, <1>3, <2>1, <2>2, QuietKeepsLate
<1>8. ASSUME CountsSibling(t) PROVE LateAreLocked'
  BY <1>5, <1>8 DEF CountsSibling
<1>9. ASSUME Reloads(t) PROVE LateAreLocked'
  <2> DEFINE f == [sloc[t] EXCEPT !.seen = OnlySeen(inventory, sloc[t].dev)]
  <2>1. /\ Has(t, f) /\ Goes(t, "write") /\ inventory' = inventory /\ At(t, "write")
        /\ sloc[t].seen[sloc[t].dev] = NoRow
    BY <1>1, <1>9 DEF Reloads, Goes, At
  <2>2. OnlySeen(inventory, sloc[t].dev) \in Inventory
        /\ OnlySeen(inventory, sloc[t].dev)[sloc[t].dev] = inventory[sloc[t].dev]
    BY <1>1, <1>2, RowsKept
  <2>3. f \in Session /\ f.late = sloc[t].late /\ f.dev = sloc[t].dev
        /\ f.seen = OnlySeen(inventory, sloc[t].dev)
    BY <1>1, <2>2 DEF Session, Inventory
  <2> HIDE DEF f
  <2>4. f.late => Locked /\ Agree /\ Fits("write", f, inventory)
    BY <1>4, <2>1, <2>2, <2>3 DEF Fits, At
  <2> QED BY <1>3, <2>1, <2>3, <2>4, QuietKeepsLate
<1> QED BY <1>6, <1>7, <1>8, <1>9

(* ... nor does writing the count.                                          *)
LEMMA WriteKeepsLate ==
    ASSUME DevInv, LateAreLocked, NEW t \in SyncThreads,
           Writes(t) \/ WriteFails(t) \/ Lets(t) \/ Ends(t)
    PROVE  LateAreLocked'
<1>1. /\ inventory \in Inventory /\ sloc[t] \in Session
      /\ sloc \in [SyncThreads -> Session] /\ syncAt \in [SyncThreads -> Places]
  BY DevTypes
<1>2. sloc[t].m \in Keys /\ sloc[t].dev \in Ids /\ sloc[t].seen \in Inventory /\ sloc[t].hits \in Nat
  BY <1>1, SessionFields, RowFields
<1>3. NoRows \in Inventory /\ {"judge", "collapse"} \subseteq Places
      /\ \A i \in Ids : NoRows[i] = NoRow
  BY RowFields DEF Inventory, Places
<1>4. sloc[t].late => Locked /\ Agree /\ Fits(syncAt[t], sloc[t], inventory)
  BY DEF LateAreLocked
<1>5. ASSUME Writes(t) PROVE LateAreLocked'
  <2> DEFINE i == sloc[t].dev
             f == [sloc[t] EXCEPT !.seen = NoRows, !.hits = 0]
  <2>1. PICK r \in DeviceRow : r = InHand(t)
    BY <1>1, <1>2 DEF InHand, Inventory
  <2>2. PICK q \in DeviceRow : q = Recounted(t) /\ q.lock = r.lock
    <3>1. r.n \in Nat /\ r.n + sloc[t].hits \in Nat
      BY <1>2, RowFields
    <3>2. Recounted(t) = [r EXCEPT !.key = sloc[t].m, !.n = r.n + sloc[t].hits]
      BY <2>1 DEF Recounted
    <3> QED BY <1>2, <3>1, <3>2 DEF DeviceRow
  <2>3. /\ inventory' = [inventory EXCEPT ![i] = Updated(@, r, q)]
        /\ Has(t, f) /\ Goes(t, "judge") /\ inventory[i] # NoRow /\ At(t, "write")
    BY <1>5, <2>1, <2>2 DEF Writes, CanUpdate
  <2>4. \A j \in Ids : inventory'[j].lock = inventory[j].lock
    <3>1. Updated(inventory[i], r, q).lock = inventory[i].lock
      BY <1>1, <1>2, <2>1, <2>2, UpdatedRow DEF Inventory
    <3> QED BY <1>1, <1>2, <2>3, <3>1 DEF Inventory
  <2>5. \A j \in Ids : inventory'[j] # NoRow =>
           inventory[j] # NoRow /\ inventory'[j].lock = inventory[j].lock
    BY <1>1, <2>3, <2>4 DEF Inventory
  <2>6. f \in Session /\ f.seen = NoRows /\ f.dev = i /\ f.late = sloc[t].late
    BY <1>1, <1>3 DEF Session, Inventory
  <2> HIDE DEF f, i
  <2>7. CopiesAgree("judge", f, inventory) /\ (Locked /\ Agree => Locked')
    BY <2>4 DEF CopiesAgree, Locked
  <2>8. f.late => Locked /\ Agree /\ Fits("judge", f, inventory')
    <3>1. sloc[t].late => Fits("judge", sloc[t], inventory) /\ sloc[t].dev = i
      BY <1>4, <2>3 DEF Fits, At, i
    <3> QED BY <1>2, <1>3, <1>4, <2>3, <2>4, <2>6, <3>1 DEF Fits
  <2> QED BY <1>3, <2>3, <2>5, <2>6, <2>7, <2>8, ThreadKeepsLate
<1>6. ASSUME WriteFails(t) PROVE LateAreLocked'
  <2> DEFINE f == [sloc[t] EXCEPT !.seen = NoRows, !.hits = 0, !.after = "last"]
  <2>1. Has(t, f) /\ Goes(t, "collapse") /\ inventory' = inventory
    BY <1>6 DEF WriteFails
  <2>2. f \in Session /\ f.seen = NoRows /\ f.late = sloc[t].late
    BY <1>1, <1>3 DEF Session, Inventory
  <2> HIDE DEF f
  <2>3. CopiesAgree("collapse", f, inventory) /\ Fits("collapse", f, inventory)
    BY <1>3, <2>2 DEF CopiesAgree, Fits
  <2> QED BY <1>3, <1>4, <2>1, <2>2, <2>3, QuietKeepsLate
<1>7. ASSUME Lets(t) \/ Ends(t) PROVE LateAreLocked'
  BY <1>7, OverKeepsLate DEF Lets, Ends
<1> QED BY <1>5, <1>6, <1>7

(* A decision that lifts no lock and changes no copied row leaves every     *)
(* late request as it was.                                                  *)
LEMMA DecisionKeepsLate ==
    ASSUME DevInv, LateAreLocked, NEW d \in Deciders, DecisionStep(d)
    PROVE  LateAreLocked'
<1>1. /\ inventory \in Inventory /\ Rows \subseteq Ids
      /\ sloc \in [SyncThreads -> Session] /\ syncAt \in [SyncThreads -> Places]
      /\ \A i \in Ids : i \in Rows <=> inventory[i] # NoRow
  BY DevTypes
<1>2. ASSUME UNCHANGED <<inventory, syncAt, sloc>> PROVE LateAreLocked'
  BY <1>2 DEF LateAreLocked, Agree, Locked
<1>3. ASSUME NEW what \in Decisions, NEW i \in Ids, DecisionReads(d, what, i)
      PROVE  LateAreLocked'
  BY <1>2, <1>3 DEF DecisionReads
<1>4. ASSUME EnableReads(d) \/ Disables(d) PROVE LateAreLocked'
  BY <1>2, <1>4 DEF EnableReads, Disables
<1>5. ASSUME DecisionCommits(d) PROVE LateAreLocked'
  <2> DEFINE G == Group(dloc[d].seen)
  <2>1. /\ sloc' = [t \in SyncThreads |-> [sloc[t] EXCEPT !.late = @ /\ ~Unsettles(G)]]
        /\ syncAt' = syncAt
        /\ IF G \subseteq Rows
           THEN inventory' = [i \in Ids |-> IF i \in G
                                  THEN Updated(inventory[i], dloc[d].seen[i], Ruled(d)[i])
                                  ELSE inventory[i]]
           ELSE inventory' = inventory
    BY <1>5 DEF DecisionCommits
  <2>2. \A t \in SyncThreads :
           /\ sloc'[t].seen = sloc[t].seen /\ sloc'[t].dev = sloc[t].dev
           /\ sloc'[t].late => sloc[t].late /\ ~Unsettles(G)
    <3> SUFFICES ASSUME NEW t \in SyncThreads
                 PROVE  /\ sloc'[t].seen = sloc[t].seen /\ sloc'[t].dev = sloc[t].dev
                        /\ sloc'[t].late => sloc[t].late /\ ~Unsettles(G)
      OBVIOUS
    <3>1. PICK f \in Session : f = sloc[t]
      BY <1>1
    <3>2. (f.late /\ ~Unsettles(G)) \in BOOLEAN
      OBVIOUS
    <3>3. sloc'[t] = [f EXCEPT !.late = @ /\ ~Unsettles(G)]
      BY <2>1, <3>1
    <3> HIDE DEF G
    <3> QED BY <3>1, <3>2, <3>3 DEF Session
  <2> HIDE DEF G
  <2>3. SUFFICES ASSUME NEW r \in SyncThreads, sloc'[r].late
                 PROVE  Locked' /\ Agree' /\ Fits(syncAt'[r], sloc'[r], inventory')
    BY DEF LateAreLocked
  <2>4. ~Unsettles(G) /\ Locked /\ Agree /\ Fits(syncAt[r], sloc[r], inventory)
    BY <2>2, <2>3 DEF LateAreLocked
  <2>5. \A i \in Ids : inventory[i].lock => inventory'[i].lock
    BY <2>1, <2>4 DEF Unsettles
  <2>6. \A i \in Ids : \/ inventory'[i] = inventory[i]
                       \/ inventory[i] # NoRow /\ Copied(i) = {}
    BY <1>1, <2>1, <2>4 DEF Unsettles
  <2>7. Locked'
    BY <2>4, <2>5 DEF Locked
  <2>8. Agree'
    <3>1. SUFFICES ASSUME NEW s \in SyncThreads
                   PROVE  CopiesAgree(syncAt'[s], sloc'[s], inventory')
      BY DEF Agree
    <3>2. CopiesAgree(syncAt[s], sloc[s], inventory)
      BY <2>4 DEF Agree
    <3>3. \A i \in Ids : Copied(i) = {} =>
             (syncAt[s] \in {"collapse", "merge"} => sloc[s].seen[i] = NoRow)
      BY DEF Copied
    <3> QED BY <2>1, <2>2, <2>6, <3>2, <3>3 DEF CopiesAgree
  <2>9. Fits(syncAt'[r], sloc'[r], inventory')
    <3>1. sloc[r].dev \in Ids
      BY <1>1, SessionFields
    <3>2. inventory'[sloc[r].dev] # NoRow => inventory[sloc[r].dev] # NoRow
      BY <2>6, <3>1
    <3> QED BY <2>1, <2>2, <2>4, <2>5, <3>1, <3>2 DEF Fits
  <2> QED BY <2>4, <2>7, <2>8, <2>9
<1> QED BY <1>3, <1>4, <1>5 DEF DecisionStep

(* A verdict lets nobody through that a lock should stop.                   *)
LEMMA LetsNobody ==
    ASSUME DevInv, LateAreLocked, NEW t \in SyncThreads, Lets(t)
    PROVE  slipped' = slipped
<1>1. At(t, "judge") /\ InHand(t) # NoRow /\ ~InHand(t).lock
  BY DEF Lets, Passes
<1>2. ~sloc[t].late
  BY <1>1 DEF LateAreLocked, Fits, At, InHand
<1> QED BY <1>2 DEF Lets

(* Stolen-phone lock: no verdict lets through a request that came while a   *)
(* row of its phone was locked, with the exceptions that the property       *)
(* names, whatever rows, twins, merges, races and faults there are          *)
(* (_absorb_device_into, _merge_device_group, _evaluate_device).            *)
THEOREM LocksAlwaysBite == DevSpec => []LockBites
<1>1. DevInit => LockInv
  <2> SUFFICES ASSUME DevInit PROVE LockInv
    OBVIOUS
  <2>1. DevInv
    BY DevInvInit
  <2>2. LateAreLocked
    BY SessionFields DEF DevInit, LateAreLocked
  <2> QED BY <2>1, <2>2 DEF DevInit, LockBites, LockInv
<1>2. LockInv /\ [DevNext]_devVars => LockInv'
  <2> SUFFICES ASSUME LockInv, [DevNext]_devVars PROVE LockInv'
    OBVIOUS
  <2> USE DEF LockInv
  <2>1. DevInv'
    BY DevInvStep
  <2>2. ASSUME NEW t \in SyncThreads, SyncStep(t) PROVE LateAreLocked' /\ slipped' = slipped
    <3>1. LateAreLocked'
      BY <2>2, LookupKeepsLate, InsertKeepsLate, CollapseKeepsLate, MergeKeepsLate,
         CountKeepsLate, WriteKeepsLate DEF SyncStep
    <3>2. Lets(t) => slipped' = slipped
      BY LetsNobody
    <3>3. ~Lets(t) => slipped' = slipped
      BY <2>2 DEF SyncStep, SyncArrives, PageOpens, LooksUp, FindsSibling, HitsCap, HasRoom,
         Inserts, InsertFails, Collapses, MergeCommits, MergeFails, Claims, OnlyHeld,
         CountsSibling, Reloads, Writes, WriteFails, Ends
    <3> QED BY <3>1, <3>2, <3>3
  <2>3. ASSUME NEW d \in Deciders, DecisionStep(d) PROVE LateAreLocked' /\ slipped' = slipped
    <3>1. LateAreLocked'
      BY <2>3, DecisionKeepsLate
    <3>2. slipped' = slipped
      BY <2>3 DEF DecisionStep, DecisionReads, EnableReads, DecisionCommits, Disables
    <3> QED BY <3>1, <3>2
  <2>4. CASE UNCHANGED devVars
    BY <2>4 DEF devVars, LateAreLocked, Agree, Locked, LockBites, DevInv, DevTypeOK, MergesRows,
                DecisionsTaken, At
  <2> QED BY <2>1, <2>2, <2>3, <2>4 DEF DevNext, LockBites
<1>3. LockInv => LockBites
  BY DEF LockInv
<1> QED BY <1>1, <1>2, <1>3, PTL DEF DevSpec
===============================================================================
