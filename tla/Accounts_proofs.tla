---------------------------- MODULE Accounts_proofs ----------------------------
(***************************************************************************)
(* What is proved of access requests and accounts (Accounts) and of their  *)
(* daily lifecycle (AccountLifecycle), for every number of threads,        *)
(* coroutines, rows and faults.                                            *)
(***************************************************************************)
EXTENDS Accounts, AccountLifecycle, FiniteSetTheorems, WellFoundedInduction, TLAPS

-----------------------------------------------------------------------------
(* Numbers: the least and the greatest element of a set.                    *)

(* A set of naturals that is not empty has a least element.                 *)
LEMMA LeastOfSet ==
    ASSUME NEW S, S \subseteq Nat, S # {}
    PROVE  \E m \in S : \A n \in S : m <= n
<1>1. PICK m \in S : \A n \in S : <<n, m>> \notin OpToRel(<, Nat)
  BY WFMin, NatLessThanWellFounded, Zenon
<1>2. \A n \in S : ~(n < m)
  BY <1>1 DEF OpToRel
<1> QED BY <1>2

(* One that is bounded has a greatest one.                                  *)
LEMMA GreatestOfSet ==
    ASSUME NEW S, S # {}, NEW N \in Nat, S \subseteq 0..N
    PROVE  \E m \in S : \A n \in S : n <= m
<1> DEFINE Bounds == {k \in Nat : \A n \in S : n <= k}
<1>1. N \in Bounds
  OBVIOUS
<1>2. PICK m \in Bounds : \A k \in Bounds : m <= k
  <2> HIDE DEF Bounds
  <2>1. Bounds \subseteq Nat
    BY DEF Bounds
  <2>2. Bounds # {}
    BY <1>1
  <2> QED BY <2>1, <2>2, LeastOfSet
<1>3. m \in Nat /\ \A n \in S : n <= m
  BY <1>2
<1>4. m \in S
  <2> SUFFICES ASSUME m \notin S PROVE FALSE
    OBVIOUS
  <2>1. \A n \in S : n < m
    BY <1>3
  <2>2. m # 0 /\ m - 1 \in Nat
    <3>1. PICK n \in S : TRUE
      OBVIOUS
    <3>2. n \in Nat /\ n < m
      BY <3>1, <2>1
    <3> QED BY <3>2, <1>3
  <2>3. m - 1 \in Bounds
    BY <2>1, <2>2
  <2> QED BY <2>3, <1>2, <1>3
<1> QED BY <1>3, <1>4

-----------------------------------------------------------------------------
(* Access requests and accounts: the invariant.                             *)

RouteStops == {"idle", "company", "finding", "creating", "created", "refused", "groups",
           "driver", "driver_new", "unapp", "unuser"}
Creating == {"company", "finding", "creating", "created", "refused", "groups"}

(* What a coroutine holds at each of its awaits.                            *)
LocalFits(pc, loc) ==
    /\ pc \in RouteStops /\ loc \in Local
    /\ pc \notin {"idle", "company"} => loc.row \in Rows
    /\ pc \in Creating => loc.who \in People
    /\ pc \in Creating => loc.kind \notin {"delete", "force"}
    /\ loc.kind = "approve" => loc.req \in AccessRequests
    /\ pc \in {"created", "unuser"} => loc.user # NoUser

LocalsFit == \A k \in Coroutines : LocalFits(cpc[k], cloc[k])

(* The Keycloak user a deletion has read is still the one of the row, unless *)
(* the row was given out again or its user replaced meanwhile.              *)
HeldUser ==
    \A k \in Coroutines :
        (cpc[k] = "unuser" /\ Exists(cloc[k].row) /\ cloc[k].row \notin muddled)
            => accounts[cloc[k].row].user = cloc[k].user

(* A pending request is somebody's.                                         *)
RequestsNamed ==
    \A q \in AccessRequests : requests[q].status = "pending" => requests[q].who \in People

(* Every thread past the check of the cap counts as a request already.      *)
Submitting == {s \in Submitters : submit[s] # "none"}
RoomForAll ==
    Cardinality(PendingRequests) + Cardinality(Submitting)
        <= MaxPendingPerIp + Cardinality(Submitters) - 1

AccInv ==
    /\ AccTypeOK /\ StatusHonest /\ LocalsFit /\ HeldUser
    /\ RequestsNamed /\ RoomForAll

(* Rows.                                                                    *)
Honest(a) ==
    /\ a.status = "pending" <=> a.user = NoUser
    /\ a.status = "provisioned" /\ a.summed => a.app = "success"

HonestRow(a) == a \in Account /\ Honest(a)

LEMMA AbsentRow == \A a \in Account : a # NoAccount
BY DEF Account, NoAccount, AccountStatus

LEMMA RowNoted ==
    ASSUME NEW a \in Account, NEW b \in BOOLEAN, Honest(a)
    PROVE  HonestRow([a EXCEPT !.err = b]) /\ [a EXCEPT !.err = b].user = a.user
<1>1. [a EXCEPT !.err = b] \in Account
  BY DEF Account
<1>2. /\ [a EXCEPT !.err = b].user = a.user
      /\ [a EXCEPT !.err = b].status = a.status
      /\ [a EXCEPT !.err = b].app = a.app
      /\ [a EXCEPT !.err = b].summed = a.summed
  BY DEF Account
<1> QED BY <1>1, <1>2 DEF Honest, HonestRow

LEMMA RowRecorded ==
    ASSUME NEW a \in Account, NEW b \in BOOLEAN, NEW u \in 0..Foreign, u # NoUser
    PROVE  HonestRow([a EXCEPT !.user = u, !.status = "keycloak_created", !.err = b])
<1> DEFINE row == [a EXCEPT !.user = u, !.status = "keycloak_created", !.err = b]
<1>1. row \in Account
  BY DEF Account, AccountStatus
<1>2. row.user = u /\ row.status = "keycloak_created"
  BY DEF Account
<1> QED BY <1>1, <1>2 DEF Honest, HonestRow

LEMMA RowUnprovisioned ==
    ASSUME NEW a \in Account, Honest(a), a.user = NoUser
    PROVE  /\ HonestRow([a EXCEPT !.app = "failed"])
           /\ [a EXCEPT !.app = "failed"].user = a.user
<1> DEFINE row == [a EXCEPT !.app = "failed"]
<1>1. row \in Account
  BY DEF Account, AppStatus
<1>2. row.user = a.user /\ row.status = a.status
  BY DEF Account
<1> QED BY <1>1, <1>2 DEF Honest, HonestRow, NoUser

LEMMA RowAggregated ==
    ASSUME NEW a \in Account
    PROVE  HonestRow(Aggregated(a)) /\ Aggregated(a).user = a.user
<1>1. /\ Aggregate(a) \in AccountStatus
      /\ Aggregate(a) = "pending" <=> a.user = NoUser
      /\ Aggregate(a) = "provisioned" => a.app = "success"
  BY DEF Aggregate, AccountStatus
<1> DEFINE c == Aggregated(a)
<1>2. c \in Account /\ c.user = a.user /\ c.app = a.app /\ c.status = Aggregate(a)
  BY <1>1 DEF Account, Aggregated
<1> HIDE DEF c
<1>3. HonestRow(c)
  BY <1>1, <1>2 DEF Honest, HonestRow
<1> QED BY <1>2, <1>3 DEF c

(* What the two commits of _finish may leave of a row.                      *)
LEMMA RowFinished ==
    ASSUME NEW a \in Account, Honest(a), NEW result \in {"success", "failed"},
           NEW recorded \in BOOLEAN, NEW summed \in BOOLEAN
    PROVE  /\ HonestRow(Finished(a, result, recorded, summed))
           /\ Finished(a, result, recorded, summed).user = a.user
<1> DEFINE b == [a EXCEPT !.app = result, !.summed = FALSE]
<1>1. b \in Account /\ b.user = a.user /\ b.status = a.status /\ b.summed = FALSE
  BY DEF Account, AppStatus
<1>2. HonestRow(b)
  BY <1>1 DEF Honest, HonestRow
<1>3. HonestRow(a)
  BY DEF HonestRow
<1>4. HonestRow(Aggregated(b)) /\ Aggregated(b).user = a.user
  BY <1>1, RowAggregated
<1>5. HonestRow(Aggregated(a)) /\ Aggregated(a).user = a.user
  BY RowAggregated
<1>6. Finished(a, result, recorded, summed) \in {a, b, Aggregated(a), Aggregated(b)}
  BY Zenon DEF Finished
<1> HIDE DEF b
<1> QED BY <1>1, <1>2, <1>3, <1>4, <1>5, <1>6

LEMMA RowInserted ==
    ASSUME NEW p \in People, NEW apps \in BOOLEAN
    PROVE  HonestRow([who |-> p, user |-> NoUser, status |-> "pending",
                      err |-> FALSE, apps |-> apps, app |-> "none", summed |-> TRUE])
BY AccountsAssumption DEF HonestRow, Honest, Account, AccountStatus, AppStatus, NoUser,
                          Foreign

(* SQLite's next identifier is a free row.                                  *)
LEMMA NextRowFree ==
    ASSUME AccTypeOK, ~Exists(MaxAccounts)
    PROVE  NextRow \in Rows /\ ~Exists(NextRow)
<1>0. MaxAccounts \in Nat \ {0}
  BY AccountsAssumption
<1> DEFINE Used == {r \in Rows : Exists(r)}
<1>1. \E r \in Rows : /\ \A o \in Rows : Exists(o) => o < r
                      /\ r = 1 \/ Exists(r - 1)
  <2>1. CASE Used = {}
    BY <1>0, <2>1 DEF Rows
  <2>2. CASE Used # {}
    <3>1. Used \subseteq 0..MaxAccounts
      BY <1>0 DEF Rows
    <3>2. PICK m \in Used : \A n \in Used : n <= m
      <4> HIDE DEF Used
      <4> QED BY <1>0, <2>2, <3>1, GreatestOfSet
    <3>3. m # MaxAccounts
      BY <3>2
    <3>4. m + 1 \in Rows /\ (m + 1) - 1 = m
      BY <1>0, <3>2, <3>3 DEF Rows
    <3>5. \A o \in Rows : Exists(o) => o < m + 1
      BY <3>2 DEF Rows
    <3> QED BY <3>2, <3>4, <3>5
  <2> QED BY <2>1, <2>2
<1>2. NextRow \in Rows /\ \A o \in Rows : Exists(o) => o < NextRow
  BY <1>1 DEF NextRow
<1> QED BY <1>2 DEF Rows

-----------------------------------------------------------------------------
(* The cap of the form.                                                     *)

LEMMA RoomSets ==
    /\ IsFiniteSet(PendingRequests) /\ IsFiniteSet(Submitting)
    /\ IsFiniteSet(PendingRequests') /\ IsFiniteSet(Submitting')
<1>1. /\ PendingRequests \subseteq AccessRequests /\ PendingRequests' \subseteq AccessRequests
      /\ Submitting \subseteq Submitters /\ Submitting' \subseteq Submitters
  BY DEF PendingRequests, Submitting
<1> QED BY <1>1, FS_Subset, AccountsAssumption

(* Without a submission, the requests and the threads under way only go.    *)
LEMMA RoomKept ==
    ASSUME RoomForAll,
           \A s \in Submitters : submit'[s] \in {submit[s], "none"},
           \A q \in AccessRequests :
               requests'[q].status = "pending" => requests[q].status = "pending"
    PROVE  RoomForAll'
<1>1. PendingRequests' \subseteq PendingRequests /\ Submitting' \subseteq Submitting
  BY DEF PendingRequests, Submitting
<1>2. /\ Cardinality(PendingRequests') <= Cardinality(PendingRequests)
      /\ Cardinality(Submitting') <= Cardinality(Submitting)
  BY <1>1, RoomSets, FS_Subset
<1>3. /\ Cardinality(PendingRequests) \in Nat /\ Cardinality(PendingRequests') \in Nat
      /\ Cardinality(Submitting) \in Nat /\ Cardinality(Submitting') \in Nat
      /\ Cardinality(Submitters) \in Nat /\ MaxPendingPerIp \in Nat
  BY RoomSets, FS_CardinalityType, AccountsAssumption
<1> QED BY <1>2, <1>3 DEF RoomForAll

(* Submissions.                                                             *)
LEMMA SubmitChecksInv ==
    ASSUME AccInv, NEW s \in Submitters, NEW p \in People, SubmitChecks(s, p)
    PROVE  AccInv'
<1> USE DEF AccInv, SubmitChecks
<1>1. AccTypeOK' /\ StatusHonest' /\ LocalsFit' /\ HeldUser' /\ RequestsNamed'
  BY DEF AccTypeOK, StatusHonest, LocalsFit, HeldUser, RequestsNamed, Exists
<1>2. RoomForAll'
  <2>1. Submitting' \subseteq Submitting \cup {s} /\ s \notin Submitting
    BY DEF Submitting, AccTypeOK
  <2>2. /\ Cardinality(Submitting') <= Cardinality(Submitting) + 1
        /\ Cardinality(Submitting \cup {s}) = Cardinality(Submitting) + 1
    <3>1. Cardinality(Submitting \cup {s}) = Cardinality(Submitting) + 1
      BY <2>1, RoomSets, FS_AddElement
    <3>2. IsFiniteSet(Submitting \cup {s})
      BY RoomSets, FS_AddElement
    <3> QED BY <2>1, <3>1, <3>2, FS_Subset
  <2>3. Cardinality(Submitting) + 1 <= Cardinality(Submitters)
    <3>1. Submitting \cup {s} \subseteq Submitters
      BY DEF Submitting
    <3> QED BY <2>2, <3>1, FS_Subset, AccountsAssumption
  <2>4. PendingRequests' = PendingRequests /\ Cardinality(PendingRequests) < MaxPendingPerIp
    BY DEF PendingRequests, UnderIpCap
  <2>5. /\ Cardinality(PendingRequests) \in Nat
        /\ Cardinality(Submitting) \in Nat /\ Cardinality(Submitting') \in Nat
        /\ Cardinality(Submitters) \in Nat /\ MaxPendingPerIp \in Nat
    BY RoomSets, FS_CardinalityType, AccountsAssumption
  <2> QED BY <2>2, <2>3, <2>4, <2>5 DEF RoomForAll
<1> QED BY <1>1, <1>2

LEMMA SubmitInsertsInv ==
    ASSUME AccInv, NEW s \in Submitters, NEW q \in AccessRequests, SubmitInserts(s, q)
    PROVE  AccInv'
<1> USE DEF AccInv, SubmitInserts
<1> DEFINE row == [requests[q] EXCEPT !.status = "pending", !.who = submit[s]]
<1>1. row \in RequestRow /\ row.status = "pending" /\ row.who \in People
  BY DEF AccTypeOK, RequestRow
<1>2. requests' = [requests EXCEPT ![q] = row]
  BY DEF AccTypeOK
<1> HIDE DEF row
<1>3. AccTypeOK'
  BY <1>1, <1>2 DEF AccTypeOK
<1>4. StatusHonest' /\ LocalsFit' /\ HeldUser' /\ RequestsNamed'
  BY <1>1, <1>2 DEF StatusHonest, LocalsFit, HeldUser, RequestsNamed, Exists, AccTypeOK
<1>5. RoomForAll'
  <2>1. /\ PendingRequests' = PendingRequests \cup {q} /\ q \notin PendingRequests
        /\ Submitting' = Submitting \ {s} /\ s \in Submitting
    BY <1>1, <1>2 DEF PendingRequests, Submitting, AccTypeOK
  <2>2. /\ Cardinality(PendingRequests') = Cardinality(PendingRequests) + 1
        /\ Cardinality(Submitting') = Cardinality(Submitting) - 1
    BY <2>1, RoomSets, FS_AddElement, FS_RemoveElement
  <2>3. /\ Cardinality(PendingRequests) \in Nat /\ Cardinality(Submitting) \in Nat
        /\ Cardinality(Submitters) \in Nat /\ MaxPendingPerIp \in Nat
    BY RoomSets, FS_CardinalityType, AccountsAssumption
  <2> QED BY <2>2, <2>3 DEF RoomForAll
<1> QED BY <1>3, <1>4, <1>5

LEMMA RejectionInv ==
    ASSUME AccInv, NEW j \in Rejecters, Rejection(j)
    PROVE  AccInv'
<1> USE DEF AccInv
<1>1. ASSUME NEW q \in AccessRequests, RejectReads(j, q) PROVE AccInv'
  <2> USE <1>1 DEF RejectReads
  <2>1. AccTypeOK' /\ StatusHonest' /\ LocalsFit' /\ HeldUser' /\ RequestsNamed'
    BY DEF AccTypeOK, StatusHonest, LocalsFit, HeldUser, RequestsNamed, Exists
  <2>2. RoomForAll'
    BY RoomKept
  <2> QED BY <2>1, <2>2
<1>2. ASSUME RejectCommits(j) PROVE AccInv'
  <2> USE <1>2 DEF RejectCommits
  <2> DEFINE row == [requests[reject[j]] EXCEPT !.status = "rejected"]
  <2>1. reject[j] \in AccessRequests /\ row \in RequestRow /\ row.status = "rejected"
    BY DEF AccTypeOK, RequestRow
  <2>2. requests' = [requests EXCEPT ![reject[j]] = row]
    BY DEF AccTypeOK
  <2> HIDE DEF row
  <2>3. AccTypeOK'
    BY <2>1, <2>2 DEF AccTypeOK
  <2>4. StatusHonest' /\ LocalsFit' /\ HeldUser' /\ RequestsNamed'
    BY <2>1, <2>2 DEF StatusHonest, LocalsFit, HeldUser, RequestsNamed, Exists, AccTypeOK
  <2>5. RoomForAll'
    BY <2>1, <2>2, RoomKept DEF AccTypeOK
  <2> QED BY <2>3, <2>4, <2>5
<1> QED BY <1>1, <1>2 DEF Rejection

-----------------------------------------------------------------------------
(* Coroutines.                                                              *)

(* What k's step may make of a row that another coroutine works on.         *)
RowEvolves(k, r) ==
    \/ accounts'[r] \in {accounts[r], NoAccount}
    \/ /\ HonestRow(accounts'[r])
       /\ \/ r \in muddled'
          \/ Exists(r) /\ accounts'[r].user = accounts[r].user
          \/ Exists(r) /\ accounts[r].user = NoUser
          \/ \A d \in Coroutines \ {k} : cloc[d].row # r

LEMMA CoroutineStep ==
    ASSUME AccInv, NEW k \in Coroutines, NEW pc, NEW loc, LocalFits(pc, loc),
           cpc' = [cpc EXCEPT ![k] = pc], cloc' = [cloc EXCEPT ![k] = loc],
           requests' \in [AccessRequests -> RequestRow],
           \A q \in AccessRequests :
               requests'[q].status = "pending" => requests'[q] = requests[q],
           users' \in [People -> 0..Foreign], nextUser' \in 1..Foreign,
           accFaults' \in 0..MaxAccFaults, UNCHANGED <<submit, reject>>,
           muddled \subseteq muddled', muddled' \subseteq Rows,
           accounts' \in [Rows -> Account \cup {NoAccount}],
           \A r \in Rows : RowEvolves(k, r),
           (pc = "unuser" /\ Exists(loc.row)') => accounts'[loc.row].user = loc.user
    PROVE  AccInv'
<1> USE DEF AccInv
<1>1. AccTypeOK'
  BY DEF AccTypeOK, LocalFits, RouteStops
<1>2. StatusHonest'
  BY DEF StatusHonest, RowEvolves, HonestRow, Honest, Exists
<1>3. LocalsFit'
  BY DEF LocalsFit, AccTypeOK
<1>4. HeldUser'
  <2> SUFFICES ASSUME NEW d \in Coroutines, cpc'[d] = "unuser", Exists(cloc[d].row)',
                      (cloc[d].row)' \notin muddled'
               PROVE  (accounts[cloc[d].row].user = cloc[d].user)'
    BY DEF HeldUser
  <2>1. CASE d = k
    BY <2>1 DEF AccTypeOK
  <2>2. CASE d # k
    <3>1. PICK r \in Rows : r = cloc[d].row
      BY <2>2 DEF LocalsFit, LocalFits, AccTypeOK
    <3>2. cloc'[d] = cloc[d] /\ cpc[d] = "unuser"
      BY <2>2 DEF AccTypeOK
    <3>3. accounts'[r] # NoAccount /\ r \notin muddled'
      BY <3>1, <3>2 DEF Exists
    <3>4. cloc[d].user # NoUser
      BY <3>2 DEF LocalsFit, LocalFits
    <3>5. Exists(r) => accounts[r].user = cloc[d].user
      BY <3>1, <3>2, <3>3 DEF HeldUser
    <3>6. accounts'[r].user = accounts[r].user /\ Exists(r)
      BY <2>2, <3>1, <3>3, <3>4, <3>5 DEF RowEvolves, Exists
    <3> QED BY <3>1, <3>2, <3>5, <3>6
  <2> QED BY <2>1, <2>2
<1>5. RequestsNamed' /\ RoomForAll'
  BY RoomKept DEF RequestsNamed
<1> QED BY <1>1, <1>2, <1>3, <1>4, <1>5

(* Rows that keep their user, if they stay.                                 *)
RowsKeep(rows) ==
    /\ rows \in [Rows -> Account \cup {NoAccount}]
    /\ \A r \in Rows :
          \/ rows[r] \in {accounts[r], NoAccount}
          \/ HonestRow(rows[r]) /\ Exists(r) /\ rows[r].user = accounts[r].user

LEMMA RowReplaced ==
    ASSUME AccInv, NEW r \in Rows, Exists(r), NEW row, HonestRow(row),
           row.user = accounts[r].user
    PROVE  RowsKeep([accounts EXCEPT ![r] = row])
BY DEF RowsKeep, HonestRow, AccInv, AccTypeOK

LEMMA RowsUntouched ==
    ASSUME AccInv PROVE RowsKeep(accounts)
BY DEF RowsKeep, AccInv, AccTypeOK

LEMMA RowThere ==
    ASSUME AccInv, NEW r \in Rows, Exists(r)
    PROVE  accounts[r] \in Account /\ Honest(accounts[r])
BY DEF AccInv, AccTypeOK, Exists, StatusHonest, Honest

LEMMA RowsErr ==
    ASSUME AccInv, NEW r \in Rows, Exists(r), NEW b \in BOOLEAN
    PROVE  RowsKeep([accounts EXCEPT ![r].err = b])
<1>1. [accounts EXCEPT ![r].err = b] = [accounts EXCEPT ![r] = [accounts[r] EXCEPT !.err = b]]
  BY DEF AccInv, AccTypeOK
<1>2. HonestRow([accounts[r] EXCEPT !.err = b])
      /\ [accounts[r] EXCEPT !.err = b].user = accounts[r].user
  BY RowThere, RowNoted
<1> QED BY <1>1, <1>2, RowReplaced, Zenon

LEMMA RowsNoted ==
    ASSUME AccInv, NEW k \in Coroutines, cloc[k].row \in Rows
    PROVE  RowsKeep(Noted(k)) /\ \A r \in Rows : Exists(r) => Noted(k)[r] # NoAccount
<1>1. CASE Exists(cloc[k].row) /\ ~LockedFor(k)
  <2>1. Noted(k) = [accounts EXCEPT ![cloc[k].row].err = TRUE]
    BY <1>1 DEF Noted
  <2>2. RowsKeep(Noted(k))
    BY <1>1, <2>1, RowsErr, Zenon
  <2>3. \A r \in Rows : r # cloc[k].row => Noted(k)[r] = accounts[r]
    BY <2>1 DEF AccInv, AccTypeOK
  <2>4. Noted(k)[cloc[k].row] # NoAccount
    <3>1. [accounts[cloc[k].row] EXCEPT !.err = TRUE] \in Account
      BY <1>1, RowThere, RowNoted DEF HonestRow
    <3>2. Noted(k)[cloc[k].row] = [accounts[cloc[k].row] EXCEPT !.err = TRUE]
      BY <2>1 DEF AccInv, AccTypeOK
    <3> QED BY <3>1, <3>2, AbsentRow
  <2> QED BY <2>2, <2>3, <2>4 DEF Exists
<1>2. CASE ~(Exists(cloc[k].row) /\ ~LockedFor(k))
  BY <1>2, RowsUntouched DEF Noted, Exists
<1> QED BY <1>1, <1>2

LEMMA RowsForgotten ==
    ASSUME AccInv, NEW k \in Coroutines, NEW r \in Rows, NEW errs \in BOOLEAN,
           NEW forced \in BOOLEAN
    PROVE  RowsKeep(Forgotten(k, r, errs, forced))
<1>1. CASE ~Exists(r) \/ LockedFor(k)
  BY <1>1, RowsUntouched DEF Forgotten
<1>2. CASE Exists(r) /\ ~LockedFor(k) /\ errs /\ ~forced
  BY <1>2, RowsErr DEF Forgotten
<1>3. CASE Exists(r) /\ ~LockedFor(k) /\ ~(errs /\ ~forced)
  BY <1>3 DEF Forgotten, RowsKeep, AccInv, AccTypeOK
<1> QED BY <1>1, <1>2, <1>3

LEMMA RequestApproved ==
    ASSUME NEW x \in RequestRow, NEW n \in Rows
    PROVE  /\ [x EXCEPT !.status = "approved", !.row = n] \in RequestRow
           /\ [x EXCEPT !.status = "approved", !.row = n].status = "approved"
           /\ [x EXCEPT !.status = "approved", !.row = n].row = n
<1>1. n \in 0..MaxAccounts
  BY AccountsAssumption DEF Rows
<1> QED BY <1>1 DEF RequestRow

(* The requests that the end of a creation leaves.                          *)
LEMMA ApprovedFits ==
    ASSUME AccInv, NEW k \in Coroutines, cloc[k].row \in Rows
    PROVE  /\ Approved(k) \in [AccessRequests -> RequestRow]
           /\ \A q \in AccessRequests :
                 /\ Approved(k)[q].status = "pending" => Approved(k)[q] = requests[q]
                 /\ requests[q].status # "approved" /\ Approved(k)[q].status = "approved"
                       => Approved(k)[q].row = cloc[k].row
<1> DEFINE q == cloc[k].req
           row == [requests[q] EXCEPT !.status = "approved", !.row = cloc[k].row]
<1>1. CASE cloc[k].kind # "approve" \/ LockedFor(k)
  BY <1>1 DEF Approved, AccInv, AccTypeOK
<1>2. CASE cloc[k].kind = "approve" /\ ~LockedFor(k)
  <2>1. q \in AccessRequests
    BY <1>2 DEF AccInv, LocalsFit, LocalFits
  <2>2. row \in RequestRow /\ row.status = "approved" /\ row.row = cloc[k].row
    BY <2>1, RequestApproved DEF AccInv, AccTypeOK
  <2>3. Approved(k) = [requests EXCEPT ![q] = row]
    BY <1>2, <2>1 DEF Approved, AccInv, AccTypeOK
  <2> HIDE DEF q, row
  <2> QED BY <2>1, <2>2, <2>3 DEF AccInv, AccTypeOK
<1> QED BY <1>1, <1>2

(* A step of k that leaves every row its user, and gives none out again.    *)
LEMMA KeepingStep ==
    ASSUME AccInv, NEW k \in Coroutines, NEW pc, NEW loc, LocalFits(pc, loc),
           cpc' = [cpc EXCEPT ![k] = pc], cloc' = [cloc EXCEPT ![k] = loc],
           requests' = requests \/ (cloc[k].row \in Rows /\ requests' = Approved(k)),
           users' \in [People -> 0..Foreign], nextUser' \in 1..Foreign,
           accFaults' = accFaults \/ Remote(k), UNCHANGED <<submit, reject, muddled>>,
           RowsKeep(accounts'),
           (pc = "unuser" /\ Exists(loc.row)') => accounts'[loc.row].user = loc.user
    PROVE  AccInv'
<1>1. /\ requests' \in [AccessRequests -> RequestRow]
      /\ \A q \in AccessRequests :
             requests'[q].status = "pending" => requests'[q] = requests[q]
  BY ApprovedFits DEF AccInv, AccTypeOK
<1>2. accFaults' \in 0..MaxAccFaults
  BY AccountsAssumption DEF Remote, AccInv, AccTypeOK
<1>3. muddled' \subseteq Rows /\ muddled \subseteq muddled'
  BY DEF AccInv, AccTypeOK
<1>4. /\ accounts' \in [Rows -> Account \cup {NoAccount}]
      /\ \A r \in Rows : RowEvolves(k, r)
  BY DEF RowsKeep, RowEvolves
<1> QED BY <1>1, <1>2, <1>3, <1>4, CoroutineStep

(* What the routes hold.                                                    *)
LEMMA NoLocalFits == LocalFits("idle", NoLocal)
BY AccountsAssumption DEF LocalFits, NoLocal, Local, RouteStops, Creating, NoUser, Foreign

LEMMA NoLocalTyped == NoLocal \in Local
BY NoLocalFits DEF LocalFits

LEMMA CoroutineAt ==
    ASSUME AccInv, NEW k \in Coroutines
    PROVE  /\ LocalFits(cpc[k], cloc[k])
           /\ cpc = [cpc EXCEPT ![k] = cpc[k]] /\ cloc = [cloc EXCEPT ![k] = cloc[k]]
BY DEF AccInv, AccTypeOK, LocalsFit

(* The beginnings.                                                          *)
LEMMA BeginsInv ==
    ASSUME AccInv, NEW k \in Coroutines, NEW loc, NEW pc, LocalFits(pc, loc),
           Enters(k, pc, loc), pc # "unuser",
           UNCHANGED <<requests, accounts, users, nextUser, submit, reject, accFaults,
                       muddled>>
    PROVE  AccInv'
<1>1. cpc' = [cpc EXCEPT ![k] = pc] /\ cloc' = [cloc EXCEPT ![k] = loc]
  BY DEF Enters
<1>2. users' \in [People -> 0..Foreign] /\ nextUser' \in 1..Foreign
  BY DEF AccInv, AccTypeOK
<1>3. RowsKeep(accounts')
  BY RowsUntouched
<1> QED BY <1>1, <1>2, <1>3, KeepingStep

LEMMA CreateBeginsInv ==
    ASSUME AccInv, NEW k \in Coroutines, NEW p \in People, CreateBegins(k, p)
    PROVE  AccInv'
<1> DEFINE loc == [NoLocal EXCEPT !.kind = "create", !.who = p]
<1>1. loc \in Local /\ loc.kind = "create" /\ loc.who = p
  BY NoLocalTyped DEF Local
<1> HIDE DEF loc
<1>2. LocalFits("company", loc)
  BY <1>1 DEF LocalFits, RouteStops, Creating
<1>3. Enters(k, "company", loc)
  BY DEF CreateBegins, loc
<1> QED BY <1>2, <1>3, BeginsInv DEF CreateBegins

LEMMA ApproveBeginsInv ==
    ASSUME AccInv, NEW k \in Coroutines, NEW q \in AccessRequests, ApproveBegins(k, q)
    PROVE  AccInv'
<1> DEFINE loc == [NoLocal EXCEPT !.kind = "approve", !.req = q,
                                  !.who = requests[q].who]
<1>0. requests[q].who \in People
  BY DEF ApproveBegins, AccInv, RequestsNamed
<1>1. loc \in Local /\ loc.kind = "approve" /\ loc.who = requests[q].who /\ loc.req = q
  BY <1>0, NoLocalTyped DEF Local
<1>3. Enters(k, "company", loc)
  BY DEF ApproveBegins
<1> HIDE DEF loc
<1>2. LocalFits("company", loc)
  BY <1>0, <1>1 DEF LocalFits, RouteStops, Creating
<1> QED BY <1>2, <1>3, BeginsInv DEF ApproveBegins

LEMMA RetryBeginsInv ==
    ASSUME AccInv, NEW k \in Coroutines, NEW r \in Rows, RetryBegins(k, r)
    PROVE  AccInv'
<1> DEFINE a == accounts[r]
           loc == [NoLocal EXCEPT !.kind = "retry", !.row = r, !.who = a.who,
                                  !.errs = a.err]
<1>0. a \in Account
  BY RowThere DEF RetryBegins
<1>1. a.who \in People /\ a.err \in BOOLEAN /\ r \in 0..MaxAccounts
  BY <1>0, AccountsAssumption DEF Account, Rows
<1>3. Enters(k, "finding", loc)
  BY DEF RetryBegins
<1> HIDE DEF a
<1>2. loc \in Local /\ loc.kind = "retry" /\ loc.who = a.who /\ loc.row = r
  BY <1>1, NoLocalTyped DEF Local
<1> HIDE DEF loc
<1>4. LocalFits("finding", loc)
  BY <1>1, <1>2 DEF LocalFits, RouteStops, Creating
<1> QED BY <1>3, <1>4, BeginsInv DEF RetryBegins

(* The creation.                                                            *)
LEMMA LeavesFits ==
    ASSUME AccInv, NEW k \in Coroutines, Leaves(k),
           requests' = requests \/ (cloc[k].row \in Rows /\ requests' = Approved(k)),
           users' \in [People -> 0..Foreign], UNCHANGED <<nextUser, submit, reject, muddled>>,
           accFaults' = accFaults \/ Remote(k), RowsKeep(accounts')
    PROVE  AccInv'
<1>1. cpc' = [cpc EXCEPT ![k] = "idle"] /\ cloc' = [cloc EXCEPT ![k] = NoLocal]
  BY DEF Leaves
<1>2. nextUser' \in 1..Foreign
  BY DEF AccInv, AccTypeOK
<1>3. UNCHANGED <<submit, reject, muddled>>
  OBVIOUS
<1> QED BY <1>1, <1>2, <1>3, NoLocalFits, KeepingStep

LEMMA CompanyFailsInv ==
    ASSUME AccInv, NEW k \in Coroutines, CompanyFails(k)
    PROVE  AccInv'
<1>1. /\ Leaves(k) /\ requests' = requests /\ RowsKeep(accounts')
      /\ users' \in [People -> 0..Foreign] /\ UNCHANGED <<nextUser, submit, reject, muddled>>
      /\ accFaults' = accFaults \/ Remote(k)
  BY RowsUntouched DEF CompanyFails, AccInv, AccTypeOK
<1> QED BY <1>1, LeavesFits

LEMMA AccountInsertsInv ==
    ASSUME AccInv, NEW k \in Coroutines, AccountInserts(k)
    PROVE  AccInv'
<1> DEFINE r == NextRow
           loc == [cloc[k] EXCEPT !.row = r]
<1>1. r \in Rows /\ ~Exists(r) /\ r \in 0..MaxAccounts
  BY NextRowFree, AccountsAssumption DEF AccountInserts, AccInv, Rows
<1>2. LocalFits("company", cloc[k])
  BY CoroutineAt DEF AccountInserts
<1>3. loc \in Local /\ loc.row = r /\ loc.who = cloc[k].who
      /\ loc.kind = cloc[k].kind /\ loc.req = cloc[k].req
  BY <1>1, <1>2 DEF LocalFits, Local
<1>4. /\ cpc' = [cpc EXCEPT ![k] = "finding"] /\ cloc' = [cloc EXCEPT ![k] = loc]
      /\ muddled' = IF \E o \in Coroutines \ {k} : cloc[o].row = r
                    THEN muddled \cup {r} ELSE muddled
      /\ UNCHANGED <<requests, users, nextUser, submit, reject, accFaults>>
  BY DEF AccountInserts, Enters
<1>5. PICK row : HonestRow(row) /\ accounts' = [accounts EXCEPT ![r] = row]
  <2>1. PICK apps \in BOOLEAN : accounts' = [accounts EXCEPT ![r] =
              [who |-> cloc[k].who, user |-> NoUser, status |-> "pending",
               err |-> FALSE, apps |-> apps, app |-> "none", summed |-> TRUE]]
    BY DEF AccountInserts
  <2>2. cloc[k].who \in People
    BY <1>2 DEF LocalFits, Creating
  <2> QED BY <2>1, <2>2, RowInserted
<1> HIDE DEF r, loc
<1>6. LocalFits("finding", loc)
  BY <1>1, <1>2, <1>3 DEF LocalFits, RouteStops, Creating
<1>7. /\ muddled \subseteq muddled' /\ muddled' \subseteq Rows
      /\ accounts' \in [Rows -> Account \cup {NoAccount}]
      /\ \A o \in Rows : RowEvolves(k, o)
  BY <1>1, <1>4, <1>5 DEF RowEvolves, HonestRow, AccInv, AccTypeOK
<1>8. /\ requests' \in [AccessRequests -> RequestRow] /\ users' \in [People -> 0..Foreign]
      /\ nextUser' \in 1..Foreign /\ accFaults' \in 0..MaxAccFaults
      /\ \A q \in AccessRequests :
            requests'[q].status = "pending" => requests'[q] = requests[q]
  BY <1>4 DEF AccInv, AccTypeOK
<1> QED BY <1>4, <1>6, <1>7, <1>8, CoroutineStep

LEMMA FailureNoted ==
    ASSUME AccInv, NEW k \in Coroutines, cloc[k].row \in Rows, NotesFailure(k),
           users' = users, UNCHANGED <<nextUser, submit, reject, muddled>>,
           accFaults' = accFaults \/ Remote(k)
    PROVE  AccInv'
<1>1. RowsKeep(accounts')
  BY RowsNoted DEF NotesFailure
<1>2. users' \in [People -> 0..Foreign]
  BY DEF AccInv, AccTypeOK
<1>3. Leaves(k) /\ (requests' = requests \/ requests' = Approved(k))
  BY DEF NotesFailure
<1> QED BY <1>1, <1>2, <1>3, LeavesFits

LEMMA FindAnswersInv ==
    ASSUME AccInv, NEW k \in Coroutines, FindAnswers(k)
    PROVE  AccInv'
<1>1. LocalFits("finding", cloc[k]) /\ cloc[k].row \in Rows
  BY CoroutineAt DEF FindAnswers, LocalFits
<1>2. UNCHANGED <<users, nextUser, submit, reject, muddled>>
  BY DEF FindAnswers
<1>3. users' \in [People -> 0..Foreign] /\ nextUser' \in 1..Foreign
  BY <1>2 DEF AccInv, AccTypeOK
<1>4. ASSUME GoesTo(k, "creating"), UNCHANGED <<requests, accounts, accFaults>>
      PROVE  AccInv'
  <2>1. cpc' = [cpc EXCEPT ![k] = "creating"] /\ cloc' = [cloc EXCEPT ![k] = cloc[k]]
    BY <1>4, CoroutineAt DEF GoesTo
  <2>2. LocalFits("creating", cloc[k]) /\ RowsKeep(accounts')
    BY <1>1, <1>4, RowsUntouched DEF LocalFits, RouteStops, Creating
  <2> QED BY <1>2, <1>3, <1>4, <2>1, <2>2, KeepingStep
<1>5. ASSUME NotesFailure(k), accFaults' = accFaults \/ Remote(k) PROVE AccInv'
  BY <1>1, <1>2, <1>5, FailureNoted
<1>6. ASSUME Leaves(k), Remote(k), UNCHANGED <<requests, accounts>> PROVE AccInv'
  BY <1>2, <1>3, <1>6, RowsUntouched, LeavesFits
<1> QED BY <1>4, <1>5, <1>6 DEF FindAnswers

LEMMA CreateFailsInv ==
    ASSUME AccInv, NEW k \in Coroutines, CreateFails(k)
    PROVE  AccInv'
<1>1. cloc[k].row \in Rows
  BY CoroutineAt DEF CreateFails, LocalFits
<1> QED BY <1>1, FailureNoted DEF CreateFails

LEMMA KeycloakCreatesInv ==
    ASSUME AccInv, NEW k \in Coroutines, KeycloakCreates(k)
    PROVE  AccInv'
<1>1. LocalFits("creating", cloc[k]) /\ cloc[k].who \in People
  BY CoroutineAt DEF KeycloakCreates, LocalFits, Creating
<1>2. UNCHANGED <<requests, accounts, submit, reject, accFaults, muddled>>
      /\ RowsKeep(accounts')
  BY RowsUntouched DEF KeycloakCreates
<1>3. CASE users[cloc[k].who] = NoUser
  <2> DEFINE loc == [cloc[k] EXCEPT !.user = nextUser]
  <2>1. /\ nextUser <= MaxUsers /\ nextUser' = nextUser + 1
        /\ users' = [users EXCEPT ![cloc[k].who] = nextUser]
        /\ cpc' = [cpc EXCEPT ![k] = "created"] /\ cloc' = [cloc EXCEPT ![k] = loc]
    BY <1>3 DEF KeycloakCreates, Enters
  <2>2. nextUser \in 0..Foreign /\ nextUser # NoUser /\ nextUser' \in 1..Foreign
    BY <2>1, AccountsAssumption DEF AccInv, AccTypeOK, Foreign, NoUser
  <2>3. users' \in [People -> 0..Foreign]
    BY <1>1, <2>1, <2>2 DEF AccInv, AccTypeOK
  <2>4. loc \in Local /\ loc.user = nextUser /\ loc.row = cloc[k].row
        /\ loc.who = cloc[k].who /\ loc.kind = cloc[k].kind /\ loc.req = cloc[k].req
    BY <1>1, <2>2 DEF LocalFits, Local
  <2> HIDE DEF loc
  <2>5. LocalFits("created", loc)
    BY <1>1, <2>2, <2>4 DEF LocalFits, RouteStops, Creating
  <2> QED BY <1>2, <2>1, <2>2, <2>3, <2>5, KeepingStep
<1>4. CASE users[cloc[k].who] # NoUser
  <2>1. /\ cpc' = [cpc EXCEPT ![k] = "refused"] /\ cloc' = [cloc EXCEPT ![k] = cloc[k]]
        /\ UNCHANGED <<users, nextUser>>
    BY <1>4, CoroutineAt DEF KeycloakCreates, GoesTo
  <2>2. LocalFits("refused", cloc[k])
    BY <1>1 DEF LocalFits, RouteStops, Creating
  <2>3. users' \in [People -> 0..Foreign] /\ nextUser' \in 1..Foreign
    BY <2>1 DEF AccInv, AccTypeOK
  <2> QED BY <1>2, <2>1, <2>2, <2>3, KeepingStep
<1> QED BY <1>3, <1>4

LEMMA UserRecordedInv ==
    ASSUME AccInv, NEW k \in Coroutines, UserRecorded(k)
    PROVE  AccInv'
<1> DEFINE r == cloc[k].row
<1>1. LocalFits("created", cloc[k])
  BY CoroutineAt DEF UserRecorded
<1>2. r \in Rows /\ cloc[k].user \in 0..Foreign /\ cloc[k].user # NoUser
      /\ cloc[k].errs \in BOOLEAN
  BY <1>1 DEF LocalFits, Local
<1>3. /\ UNCHANGED <<requests, users, nextUser, submit, reject, accFaults>>
      /\ requests' \in [AccessRequests -> RequestRow] /\ users' \in [People -> 0..Foreign]
      /\ nextUser' \in 1..Foreign /\ accFaults' \in 0..MaxAccFaults
  BY DEF UserRecorded, AccInv, AccTypeOK
<1>4. CASE Exists(r) /\ ~LockedFor(k)
  <2> DEFINE a == accounts[r]
             row == [a EXCEPT !.user = cloc[k].user, !.status = "keycloak_created",
                              !.err = @ /\ ~cloc[k].errs]
  <2>1. a \in Account /\ a.err \in BOOLEAN
    BY <1>2, <1>4, RowThere DEF Account
  <2>2. row = [a EXCEPT !.user = cloc[k].user, !.status = "keycloak_created",
                        !.err = a.err /\ ~cloc[k].errs]
    BY <2>1 DEF Account
  <2>3. HonestRow(row)
    <3>1. (a.err /\ ~cloc[k].errs) \in BOOLEAN
      BY Zenon
    <3> HIDE DEF a, row
    <3> QED BY <1>2, <2>1, <2>2, <3>1, RowRecorded, Zenon
  <2>4. /\ accounts' = [accounts EXCEPT ![r] = row]
        /\ muddled' = IF a.user = NoUser THEN muddled ELSE muddled \cup {r}
        /\ cpc' = [cpc EXCEPT ![k] = "groups"] /\ cloc' = [cloc EXCEPT ![k] = cloc[k]]
    BY <1>4, <2>1, CoroutineAt DEF UserRecorded, GoesTo
  <2> HIDE DEF row, r
  <2>5. /\ muddled \subseteq muddled' /\ muddled' \subseteq Rows
        /\ accounts' \in [Rows -> Account \cup {NoAccount}]
        /\ \A o \in Rows : RowEvolves(k, o)
    BY <1>2, <1>4, <2>3, <2>4 DEF RowEvolves, HonestRow, AccInv, AccTypeOK
  <2>6. LocalFits("groups", cloc[k])
    BY <1>1 DEF LocalFits, RouteStops, Creating
  <2> QED BY <1>3, <2>4, <2>5, <2>6, CoroutineStep
<1>5. CASE ~(Exists(r) /\ ~LockedFor(k))
  <2>1. Leaves(k) /\ UNCHANGED <<accounts, muddled>>
    BY <1>5 DEF UserRecorded
  <2> QED BY <1>3, <2>1, LeavesFits, RowsUntouched
<1> QED BY <1>4, <1>5

(* The applications.                                                        *)
LEMMA CallsDriverFits ==
    ASSUME AccInv, NEW k \in Coroutines, NEW loc, CallsDriver(k, loc),
           loc \in Local, loc.row \in Rows, loc.kind = "approve" => loc.req \in AccessRequests
    PROVE  \E pc, l : /\ LocalFits(pc, l) /\ pc # "unuser"
                      /\ cpc' = [cpc EXCEPT ![k] = pc] /\ cloc' = [cloc EXCEPT ![k] = l]
<1>1. LocalFits("driver", loc) /\ LocalFits("driver_new", loc)
  BY DEF LocalFits, RouteStops, Creating
<1> QED BY <1>1, NoLocalFits DEF CallsDriver, Enters, Leaves

LEMMA GroupsAssignedInv ==
    ASSUME AccInv, NEW k \in Coroutines, GroupsAssigned(k)
    PROVE  AccInv'
<1> DEFINE r == cloc[k].row
<1>1. LocalFits("groups", cloc[k])
  BY CoroutineAt DEF GroupsAssigned
<1>2. r \in Rows /\ cloc[k] \in Local
      /\ (cloc[k].kind = "approve" => cloc[k].req \in AccessRequests)
  BY <1>1 DEF LocalFits
<1>3. /\ UNCHANGED <<users, nextUser, submit, reject, muddled>>
      /\ users' \in [People -> 0..Foreign] /\ nextUser' \in 1..Foreign
  BY DEF GroupsAssigned, AccInv, AccTypeOK
<1>4. CASE ~Exists(r)
  BY <1>3, <1>4, LeavesFits, RowsUntouched DEF GroupsAssigned
<1>5. CASE Exists(r)
  <2>1. RowsKeep(accounts') /\ (accFaults' = accFaults \/ Remote(k))
    <3>1. CASE UNCHANGED <<accounts, accFaults>>
      BY <3>1, RowsUntouched
    <3>2. CASE Remote(k) /\ accounts' = [accounts EXCEPT ![r].err = @ \/ ~LockedFor(k)]
      <4>1. accounts[r].err \in BOOLEAN /\ accounts \in [Rows -> Account \cup {NoAccount}]
        BY <1>2, <1>5, RowThere DEF Account, AccInv, AccTypeOK
      <4>2. (accounts[r].err \/ ~LockedFor(k)) \in BOOLEAN
        BY Zenon
      <4>3. accounts' = [accounts EXCEPT ![r].err = (accounts[r].err \/ ~LockedFor(k))]
        BY <1>2, <3>2, <4>1
      <4> QED BY <1>2, <1>5, <3>2, <4>2, <4>3, RowsErr, Zenon
    <3> QED BY <1>5, <3>1, <3>2 DEF GroupsAssigned
  <2>2. CASE CallsDriver(k, cloc[k]) /\ UNCHANGED requests
    <3>1. PICK pc, l : /\ LocalFits(pc, l) /\ pc # "unuser"
                       /\ cpc' = [cpc EXCEPT ![k] = pc] /\ cloc' = [cloc EXCEPT ![k] = l]
      BY <1>2, <2>2, CallsDriverFits
    <3> QED BY <1>3, <2>1, <2>2, <3>1, KeepingStep
  <2>3. CASE Leaves(k) /\ requests' = Approved(k)
    BY <1>2, <1>3, <2>1, <2>3, LeavesFits
  <2> QED BY <1>5, <2>2, <2>3 DEF GroupsAssigned
<1> QED BY <1>4, <1>5

LEMMA ProvisionBeginsInv ==
    ASSUME AccInv, NEW k \in Coroutines, NEW r \in Rows, ProvisionBegins(k, r)
    PROVE  AccInv'
<1>1. accounts[r] \in Account /\ Honest(accounts[r]) /\ Exists(r)
  BY RowThere DEF ProvisionBegins
<1>2. /\ UNCHANGED <<requests, users, nextUser, submit, reject, accFaults, muddled>>
      /\ users' \in [People -> 0..Foreign] /\ nextUser' \in 1..Foreign
  BY DEF ProvisionBegins, AccInv, AccTypeOK
<1>3. CASE accounts[r].user = NoUser
  <2>1. accounts' = [accounts EXCEPT ![r] = [accounts[r] EXCEPT !.app = "failed"]]
        /\ UNCHANGED <<cpc, cloc>>
    BY <1>3 DEF ProvisionBegins, AccInv, AccTypeOK
  <2>2. RowsKeep(accounts')
    BY <1>1, <1>3, <2>1, RowUnprovisioned, RowReplaced
  <2>3. cpc[k] # "unuser"
    BY DEF ProvisionBegins
  <2>4. LocalFits(cpc[k], cloc[k]) /\ cpc' = [cpc EXCEPT ![k] = cpc[k]]
        /\ cloc' = [cloc EXCEPT ![k] = cloc[k]]
    BY <2>1, CoroutineAt
  <2> QED BY <1>2, <2>2, <2>3, <2>4, KeepingStep
<1>4. CASE accounts[r].user # NoUser
  <2> DEFINE a == accounts[r]
             loc == [NoLocal EXCEPT !.kind = "app", !.row = r, !.who = a.who]
  <2>1. a.who \in People /\ r \in 0..MaxAccounts
    BY <1>1, AccountsAssumption DEF Account, Rows
  <2>2. CallsDriver(k, loc) /\ UNCHANGED accounts
    BY <1>4 DEF ProvisionBegins
  <2> HIDE DEF a
  <2>3. loc \in Local /\ loc.kind = "app" /\ loc.row = r
    BY <2>1, NoLocalTyped DEF Local
  <2> HIDE DEF loc
  <2>4. PICK pc, l : /\ LocalFits(pc, l) /\ pc # "unuser"
                     /\ cpc' = [cpc EXCEPT ![k] = pc] /\ cloc' = [cloc EXCEPT ![k] = l]
    BY <2>2, <2>3, CallsDriverFits
  <2> QED BY <1>2, <2>2, <2>4, RowsUntouched, KeepingStep
<1> QED BY <1>3, <1>4

LEMMA DriverAnswersInv ==
    ASSUME AccInv, NEW k \in Coroutines, DriverAnswers(k)
    PROVE  AccInv'
<1> DEFINE r == cloc[k].row
<1>1. r \in Rows
  BY CoroutineAt DEF DriverAnswers, LocalFits
<1>2. /\ Leaves(k) /\ UNCHANGED <<requests, users, nextUser, submit, reject, muddled>>
      /\ users' \in [People -> 0..Foreign]
  BY DEF DriverAnswers, AccInv, AccTypeOK
<1>3. PICK result \in {"success", "failed"}, recorded \in BOOLEAN, summed \in BOOLEAN :
         /\ accFaults' = accFaults \/ Remote(k)
         /\ accounts' = IF Exists(r) /\ ~LockedFor(k)
                        THEN [accounts EXCEPT ![r] =
                                 Finished(accounts[r], result, recorded, summed)]
                        ELSE accounts
  BY DEF DriverAnswers
<1>4. RowsKeep(accounts')
  <2>1. CASE Exists(r) /\ ~LockedFor(k)
    <3> DEFINE row == Finished(accounts[r], result, recorded, summed)
    <3>1. HonestRow(row) /\ row.user = accounts[r].user
      BY <1>1, <2>1, RowThere, RowFinished
    <3>2. accounts' = [accounts EXCEPT ![r] = row]
      BY <1>3, <2>1
    <3> HIDE DEF row
    <3> QED BY <1>1, <2>1, <3>1, <3>2, RowReplaced
  <2>2. CASE ~(Exists(r) /\ ~LockedFor(k))
    BY <1>3, <2>2, RowsUntouched
  <2> QED BY <2>1, <2>2
<1> QED BY <1>2, <1>3, <1>4, LeavesFits

(* The deletion.                                                            *)
LEMMA DeletionFits ==
    ASSUME NEW r \in Rows, NEW a \in Account, NEW kind \in {"delete", "force"}
    PROVE  /\ LocalFits("unapp", [NoLocal EXCEPT !.kind = kind, !.row = r, !.who = a.who,
                                                 !.user = a.user])
           /\ a.user # NoUser =>
                 LocalFits("unuser", [NoLocal EXCEPT !.kind = kind, !.row = r,
                                                     !.who = a.who, !.user = a.user])
           /\ [NoLocal EXCEPT !.kind = kind, !.row = r, !.who = a.who,
                              !.user = a.user].row = r
           /\ [NoLocal EXCEPT !.kind = kind, !.row = r, !.who = a.who,
                              !.user = a.user].user = a.user
<1> DEFINE loc == [NoLocal EXCEPT !.kind = kind, !.row = r, !.who = a.who,
                                  !.user = a.user]
<1>1. a.who \in People /\ a.user \in 0..Foreign /\ r \in 0..MaxAccounts
  BY AccountsAssumption DEF Account, Rows
<1>2. loc \in Local /\ loc.kind = kind /\ loc.row = r /\ loc.user = a.user
  BY <1>1, NoLocalTyped DEF Local
<1> HIDE DEF loc
<1>3. LocalFits("unapp", loc) /\ (a.user # NoUser => LocalFits("unuser", loc))
  BY <1>2 DEF LocalFits, RouteStops, Creating
<1> QED BY <1>2, <1>3 DEF loc

LEMMA DeleteBeginsInv ==
    ASSUME AccInv, NEW k \in Coroutines, NEW r \in Rows, NEW forced \in BOOLEAN,
           DeleteBegins(k, r, forced)
    PROVE  AccInv'
<1> DEFINE a == accounts[r]
           kind == IF forced THEN "force" ELSE "delete"
           loc == [NoLocal EXCEPT !.kind = kind, !.row = r, !.who = a.who,
                                  !.user = a.user]
<1>1. a \in Account /\ Exists(r)
  BY RowThere DEF DeleteBegins
<1>2. /\ UNCHANGED <<requests, users, nextUser, submit, reject, accFaults, muddled>>
      /\ users' \in [People -> 0..Foreign] /\ nextUser' \in 1..Foreign
  BY DEF DeleteBegins, AccInv, AccTypeOK
<1>3. CASE a.app # "none"
  <2>1. Enters(k, "unapp", loc) /\ UNCHANGED accounts
    BY <1>3 DEF DeleteBegins
  <2>2. LocalFits("unapp", loc)
    BY <1>1, DeletionFits, Zenon
  <2> HIDE DEF loc
  <2> QED BY <1>2, <2>1, <2>2, BeginsInv
<1>4. CASE a.app = "none" /\ a.user # NoUser
  <2>1. Enters(k, "unuser", loc) /\ UNCHANGED accounts
    BY <1>4 DEF DeleteBegins
  <2>2. LocalFits("unuser", loc) /\ loc.row = r /\ loc.user = a.user
    <3>1. kind \in {"delete", "force"} /\ a.user # NoUser /\ a \in Account
      BY <1>1, <1>4
    <3> HIDE DEF kind, a
    <3>2. loc.row = r
      BY <3>1, DeletionFits, Zenon
    <3>3. loc.user = a.user
      BY <3>1, NoLocalTyped DEF Local
    <3>4. LocalFits("unuser", loc)
      BY <3>1, DeletionFits, Zenon
    <3> QED BY <3>2, <3>3, <3>4
  <2> HIDE DEF loc
  <2>3. cpc' = [cpc EXCEPT ![k] = "unuser"] /\ cloc' = [cloc EXCEPT ![k] = loc]
    BY <2>1 DEF Enters
  <2> QED BY <1>2, <2>1, <2>2, <2>3, RowsUntouched, KeepingStep
<1>5. CASE a.app = "none" /\ a.user = NoUser
  <2>1. accounts' = Forgotten(k, r, FALSE, forced) /\ UNCHANGED <<cpc, cloc>>
    BY <1>5 DEF DeleteBegins
  <2>2. RowsKeep(accounts')
    BY <2>1, RowsForgotten
  <2>3. LocalFits(cpc[k], cloc[k]) /\ cpc' = [cpc EXCEPT ![k] = cpc[k]]
        /\ cloc' = [cloc EXCEPT ![k] = cloc[k]] /\ cpc[k] # "unuser"
    BY <2>1, CoroutineAt DEF DeleteBegins
  <2> QED BY <1>2, <2>2, <2>3, KeepingStep
<1> QED BY <1>3, <1>4, <1>5

LEMMA AppDeletedInv ==
    ASSUME AccInv, NEW k \in Coroutines, AppDeleted(k)
    PROVE  AccInv'
<1> DEFINE r == cloc[k].row
<1>1. LocalFits("unapp", cloc[k]) /\ r \in Rows
  BY CoroutineAt DEF AppDeleted, LocalFits
<1>2. /\ UNCHANGED <<requests, users, nextUser, submit, reject, muddled>>
      /\ users' \in [People -> 0..Foreign] /\ nextUser' \in 1..Foreign
  BY DEF AppDeleted, AccInv, AccTypeOK
<1>3. PICK errs \in BOOLEAN :
         /\ accFaults' = accFaults \/ Remote(k)
         /\ IF Exists(r) /\ accounts[r].user # NoUser
            THEN /\ Enters(k, "unuser", [cloc[k] EXCEPT !.errs = errs,
                                                        !.user = accounts[r].user])
                 /\ UNCHANGED accounts
            ELSE /\ accounts' = Forgotten(k, r, errs, cloc[k].kind = "force")
                 /\ Leaves(k)
  BY DEF AppDeleted
<1>4. CASE Exists(r) /\ accounts[r].user # NoUser
  <2> DEFINE u == accounts[r].user
             loc == [cloc[k] EXCEPT !.errs = errs, !.user = u]
  <2>1. cpc' = [cpc EXCEPT ![k] = "unuser"] /\ cloc' = [cloc EXCEPT ![k] = loc]
        /\ UNCHANGED accounts
    BY <1>3, <1>4 DEF Enters
  <2>2. u \in 0..Foreign
    BY <1>1, <1>4, RowThere DEF Account
  <2> HIDE DEF u
  <2>3. loc \in Local /\ loc.user = u /\ loc.row = r /\ loc.kind = cloc[k].kind
        /\ loc.req = cloc[k].req
    BY <1>1, <2>2 DEF LocalFits, Local
  <2> HIDE DEF loc
  <2>4. LocalFits("unuser", loc)
    BY <1>1, <1>4, <2>3 DEF LocalFits, RouteStops, Creating, u
  <2>5. accounts'[loc.row].user = loc.user
    BY <2>1, <2>3 DEF u
  <2> QED BY <1>2, <1>3, <2>1, <2>4, <2>5, RowsUntouched, KeepingStep
<1>5. CASE ~(Exists(r) /\ accounts[r].user # NoUser)
  <2>1. RowsKeep(accounts') /\ Leaves(k)
    BY <1>1, <1>3, <1>5, RowsForgotten
  <2> QED BY <1>2, <1>3, <2>1, LeavesFits
<1> QED BY <1>4, <1>5

LEMMA UserDeletedInv ==
    ASSUME AccInv, NEW k \in Coroutines, UserDeleted(k)
    PROVE  AccInv'
<1>1. cloc[k].row \in Rows /\ cloc[k].errs \in BOOLEAN
  BY CoroutineAt DEF UserDeleted, LocalFits, Local
<1>2. Leaves(k) /\ UNCHANGED <<requests, nextUser, submit, reject, muddled>>
  BY DEF UserDeleted
<1>3. PICK refused \in BOOLEAN, lost \in BOOLEAN :
         /\ accFaults' = accFaults \/ Remote(k)
         /\ users' = IF refused THEN users
                     ELSE [p \in People |-> IF users[p] = cloc[k].user THEN NoUser
                                            ELSE users[p]]
         /\ accounts' = Forgotten(k, cloc[k].row, cloc[k].errs \/ refused \/ lost,
                                  cloc[k].kind = "force")
  BY DEF UserDeleted
<1>4. users' \in [People -> 0..Foreign]
  BY <1>3, AccountsAssumption DEF AccInv, AccTypeOK, NoUser, Foreign
<1>5. RowsKeep(accounts')
  <2>1. (cloc[k].errs \/ refused \/ lost) \in BOOLEAN /\ (cloc[k].kind = "force") \in BOOLEAN
    BY Zenon
  <2> QED BY <1>1, <1>3, <2>1, RowsForgotten, Zenon
<1> QED BY <1>2, <1>3, <1>4, <1>5, LeavesFits

-----------------------------------------------------------------------------
(* The specification.                                                       *)

LEMMA PortalRestartsInv ==
    ASSUME AccInv, PortalRestarts PROVE AccInv'
<1> USE DEF AccInv, PortalRestarts
<1>1. AccTypeOK'
  BY NoLocalTyped, AccountsAssumption DEF AccTypeOK
<1>2. StatusHonest' /\ LocalsFit' /\ HeldUser' /\ RequestsNamed'
  BY NoLocalFits DEF StatusHonest, LocalsFit, HeldUser, RequestsNamed, Exists
<1>3. RoomForAll'
  BY RoomKept
<1> QED BY <1>1, <1>2, <1>3

LEMMA AccInitInv == AccInit => AccInv
<1> SUFFICES ASSUME AccInit PROVE AccInv
  OBVIOUS
<1> USE DEF AccInit
<1>0. [status |-> "none", who |-> "none", row |-> 0] \in RequestRow
  BY AccountsAssumption DEF RequestRow
<1>1. users \in [People -> 0..Foreign]
  BY AccountsAssumption DEF Foreign, NoUser
<1>2. AccTypeOK
  <2>1. requests \in [AccessRequests -> RequestRow]
    BY <1>0
  <2>2. nextUser \in 1..Foreign /\ accFaults \in 0..MaxAccFaults
    BY AccountsAssumption DEF Foreign
  <2>3. accounts \in [Rows -> Account \cup {NoAccount}] /\ cloc \in [Coroutines -> Local]
    BY NoLocalTyped
  <2> QED BY <1>1, <2>1, <2>2, <2>3 DEF AccTypeOK
<1>3. StatusHonest /\ LocalsFit /\ HeldUser /\ RequestsNamed
  BY NoLocalFits DEF StatusHonest, LocalsFit, HeldUser, RequestsNamed, Exists
<1>4. RoomForAll
  <2>1. PendingRequests = {} /\ Submitting = {}
    BY DEF PendingRequests, Submitting
  <2>2. Cardinality(Submitters) \in Nat /\ MaxPendingPerIp \in Nat \ {0}
    BY FS_CardinalityType, AccountsAssumption
  <2> QED BY <2>1, <2>2, FS_EmptySet DEF RoomForAll
<1> QED BY <1>2, <1>3, <1>4 DEF AccInv

LEMMA AccNextInv == AccInv /\ [AccNext]_accVars => AccInv'
<1> SUFFICES ASSUME AccInv, [AccNext]_accVars PROVE AccInv'
  OBVIOUS
<1>1. ASSUME NEW s \in Submitters, PublicForm(s) PROVE AccInv'
  BY <1>1, SubmitChecksInv, SubmitInsertsInv DEF PublicForm
<1>2. ASSUME NEW j \in Rejecters, Rejection(j) PROVE AccInv'
  BY <1>2, RejectionInv
<1>3. ASSUME NEW k \in Coroutines, RouteBegins(k) PROVE AccInv'
  BY <1>3, ApproveBeginsInv, CreateBeginsInv, RetryBeginsInv, ProvisionBeginsInv,
     DeleteBeginsInv DEF RouteBegins
<1>4. ASSUME NEW k \in Coroutines, RouteResumes(k) PROVE AccInv'
  BY <1>4, CompanyFailsInv, AccountInsertsInv, FindAnswersInv, KeycloakCreatesInv,
     CreateFailsInv, UserRecordedInv, GroupsAssignedInv, DriverAnswersInv,
     AppDeletedInv, UserDeletedInv DEF RouteResumes
<1>5. CASE UNCHANGED accVars
  BY <1>5 DEF accVars, AccInv, AccTypeOK, StatusHonest, LocalsFit, HeldUser,
              RequestsNamed, RoomForAll, PendingRequests, Submitting, Exists
<1> QED BY <1>1, <1>2, <1>3, <1>4, <1>5, PortalRestartsInv DEF AccNext

LEMMA AccInvHolds == AccSpec => []AccInv
<1> QED BY AccInitInv, AccNextInv, PTL DEF AccSpec

(* Every variable of requests and accounts keeps its type.                  *)
THEOREM AccountsTypeCorrect == AccSpec => []AccTypeOK
<1>1. AccInv => AccTypeOK
  BY DEF AccInv
<1> QED BY AccInvHolds, <1>1, PTL

(* update_aggregate_status: an account is pending exactly while it has no   *)
(* Keycloak id, and provisioned only with its application unless the commit *)
(* of the aggregate was lost after the driver's result was committed,       *)
(* whatever creations, retries and deletions overlap, fail or are restarted. *)
THEOREM AccountsStayHonest == AccSpec => []StatusHonest
<1>1. AccInv => StatusHonest
  BY DEF AccInv
<1> QED BY AccInvHolds, <1>1, PTL

(* submit_access_request: the pending requests of one address exceed the    *)
(* cap by at most one per other thread that had passed the check.           *)
THEOREM PendingStaysBounded == AccSpec => []PendingBound
<1>1. AccInv => PendingBound
  <2>1. /\ Cardinality(PendingRequests) \in Nat /\ Cardinality(Submitting) \in Nat
        /\ Cardinality(Submitters) \in Nat /\ MaxPendingPerIp \in Nat
    BY RoomSets, FS_CardinalityType, AccountsAssumption
  <2> QED BY <2>1 DEF AccInv, RoomForAll, PendingBound
<1> QED BY AccInvHolds, <1>1, PTL

-----------------------------------------------------------------------------
(* Steps.                                                                   *)

(* The steps that decide a request.                                         *)
LEMMA OnlyCreationsApprove ==
    ASSUME AccInv, [AccNext]_accVars, NEW q \in AccessRequests,
           requests[q].status # "approved", requests'[q].status = "approved"
    PROVE  \E k \in Coroutines : /\ cloc[k].row \in Rows /\ Exists(cloc[k].row)
                                 /\ requests' = Approved(k)
                                 /\ NotesFailure(k) \/ GroupsAssigned(k)
<1>1. ASSUME NEW s \in Submitters, NEW x \in AccessRequests, SubmitInserts(s, x)
      PROVE  requests'[q].status # "approved"
  BY <1>1 DEF SubmitInserts, AccInv, AccTypeOK, RequestRow
<1>2. ASSUME NEW j \in Rejecters, RejectCommits(j)
      PROVE  requests'[q].status # "approved"
  BY <1>2 DEF RejectCommits, AccInv, AccTypeOK, RequestRow
<1>3. ASSUME requests' = requests PROVE FALSE
  BY <1>3
<1>4. ASSUME NEW k \in Coroutines, FindAnswers(k) \/ CreateFails(k)
      PROVE  requests' = requests \/ (NotesFailure(k) /\ cloc[k].row \in Rows)
  <2>1. cloc[k].row \in Rows
    BY <1>4, CoroutineAt DEF LocalFits, FindAnswers, CreateFails
  <2> QED BY <1>4, <2>1 DEF FindAnswers, CreateFails
<1>5. ASSUME NEW k \in Coroutines, NotesFailure(k), cloc[k].row \in Rows
      PROVE  Exists(cloc[k].row) /\ requests' = Approved(k)
  BY <1>5, <1>3 DEF NotesFailure
<1>6. ASSUME NEW k \in Coroutines, GroupsAssigned(k)
      PROVE  cloc[k].row \in Rows /\ Exists(cloc[k].row) /\ requests' = Approved(k)
  <2>1. cloc[k].row \in Rows
    BY <1>6, CoroutineAt DEF LocalFits, GroupsAssigned
  <2> QED BY <1>6, <1>3, <2>1 DEF GroupsAssigned
<1>7. ASSUME NEW k \in Coroutines, RouteBegins(k) PROVE FALSE
  BY <1>7, <1>3 DEF RouteBegins, ApproveBegins, CreateBegins, RetryBegins,
                    ProvisionBegins, DeleteBegins
<1>8. ASSUME NEW k \in Coroutines,
             \/ CompanyFails(k) \/ AccountInserts(k) \/ KeycloakCreates(k)
             \/ UserRecorded(k) \/ DriverAnswers(k) \/ AppDeleted(k) \/ UserDeleted(k)
      PROVE  FALSE
  BY <1>8, <1>3 DEF CompanyFails, AccountInserts, KeycloakCreates, UserRecorded,
                    DriverAnswers, AppDeleted, UserDeleted
<1>9. ASSUME NEW k \in Coroutines, RouteResumes(k)
      PROVE  FindAnswers(k) \/ CreateFails(k) \/ GroupsAssigned(k)
  BY <1>8, <1>9 DEF RouteResumes
<1>10. ASSUME NEW s \in Submitters, PublicForm(s) PROVE FALSE
  BY <1>1, <1>3, <1>10 DEF PublicForm, SubmitChecks
<1>11. ASSUME NEW j \in Rejecters, Rejection(j) PROVE FALSE
  BY <1>2, <1>3, <1>11 DEF Rejection, RejectReads
<1>12. ~PortalRestarts /\ ~UNCHANGED accVars
  BY <1>3 DEF PortalRestarts, accVars
<1>13. PICK k \in Coroutines : RouteResumes(k)
  BY <1>7, <1>10, <1>11, <1>12 DEF AccNext
<1> QED BY <1>3, <1>4, <1>5, <1>6, <1>9, <1>13

(* approve_access_request: the account that a request is approved on exists *)
(* at that moment, many awaits after it was created.                        *)
THEOREM ApprovalsNameAccounts == AccSpec => ApprovedOnAccount
<1>1. AccInv /\ [AccNext]_accVars =>
        [\A q \in AccessRequests :
            (requests[q].status # "approved" /\ requests'[q].status = "approved")
            => accounts'[requests'[q].row] # NoAccount]_accVars
  <2> SUFFICES ASSUME AccInv, [AccNext]_accVars, NEW q \in AccessRequests,
                      requests[q].status # "approved", requests'[q].status = "approved"
               PROVE  accounts'[requests'[q].row] # NoAccount
    OBVIOUS
  <2>1. PICK k \in Coroutines : /\ cloc[k].row \in Rows /\ Exists(cloc[k].row)
                                /\ requests' = Approved(k)
                                /\ NotesFailure(k) \/ GroupsAssigned(k)
    BY OnlyCreationsApprove
  <2>2. requests'[q].row = cloc[k].row
    BY <2>1, ApprovedFits
  <2>3. CASE NotesFailure(k)
    BY <2>1, <2>2, <2>3, RowsNoted DEF NotesFailure
  <2>4. CASE GroupsAssigned(k)
    <3>1. accounts[cloc[k].row] \in Account
      BY <2>1, RowThere
    <3>2. accounts' = accounts
          \/ accounts' = [accounts EXCEPT ![cloc[k].row].err = @ \/ ~LockedFor(k)]
      BY <2>1, <2>4 DEF GroupsAssigned
    <3>3. accounts'[cloc[k].row].status = accounts[cloc[k].row].status
      BY <2>1, <3>1, <3>2 DEF Account, AccInv, AccTypeOK
    <3>4. accounts[cloc[k].row].status # NoAccount.status
      BY <3>1 DEF Account, AccountStatus, NoAccount
    <3> QED BY <2>2, <3>3, <3>4
  <2> QED BY <2>1, <2>3, <2>4
<1> QED BY <1>1, AccInvHolds, PTL DEF AccSpec, ApprovedOnAccount

(* The steps that remove the row of an account with a Keycloak user.        *)
LEMMA OnlyDeletionsRemove ==
    ASSUME AccInv, [AccNext]_accVars, NEW r \in Rows, Exists(r), ~Exists(r)',
           accounts[r].user # NoUser
    PROVE  \E k \in Coroutines :
              /\ UserDeleted(k) /\ cloc[k].row = r
              /\ \E errs \in BOOLEAN :
                    accounts' = Forgotten(k, r, errs, cloc[k].kind = "force")
<1>1. accounts'[r] # accounts[r] /\ accounts'[r] \notin Account
  BY AbsentRow DEF Exists
<1>2. accounts[r] \in Account /\ accounts \in [Rows -> Account \cup {NoAccount}]
  BY RowThere DEF AccInv, AccTypeOK
<1>3. ASSUME accounts' = accounts PROVE FALSE
  BY <1>1, <1>3
<1>4. ASSUME NEW k \in Coroutines, NEW x \in Rows, NEW errs \in BOOLEAN,
             NEW forced \in BOOLEAN, accounts' = Forgotten(k, x, errs, forced)
      PROVE  x = r
  <2>1. accounts' = [accounts EXCEPT ![x].err = TRUE]
        \/ accounts' = [accounts EXCEPT ![x] = NoAccount]
    BY <1>3, <1>4 DEF Forgotten
  <2> QED BY <1>1, <1>2, <2>1
<1>5. ASSUME NEW k \in Coroutines, FindAnswers(k) \/ CreateFails(k) PROVE FALSE
  <2>1. cloc[k].row \in Rows
    BY <1>5, CoroutineAt DEF LocalFits, FindAnswers, CreateFails
  <2>2. NotesFailure(k)
    BY <1>3, <1>5 DEF FindAnswers, CreateFails
  <2> QED BY <2>1, <2>2, RowsNoted DEF NotesFailure, Exists
<1>6. ASSUME NEW k \in Coroutines, NEW x \in Rows, NEW row \in Account,
             accounts' = [accounts EXCEPT ![x] = row] PROVE FALSE
  BY <1>1, <1>2, <1>6
<1>7. ASSUME NEW k \in Coroutines, AccountInserts(k) PROVE FALSE
  <2>1. NextRow \in Rows /\ cloc[k].who \in People
    BY <1>7, NextRowFree, CoroutineAt DEF AccountInserts, AccInv, LocalFits, Creating
  <2>2. PICK row \in Account : accounts' = [accounts EXCEPT ![NextRow] = row]
    BY <1>7, <2>1, RowInserted DEF AccountInserts, HonestRow
  <2> QED BY <1>6, <1>7, <2>1, <2>2
<1>8. ASSUME NEW k \in Coroutines, UserRecorded(k) PROVE FALSE
  <2>1. cloc[k].row \in Rows /\ cloc[k].user \in 0..Foreign /\ Exists(cloc[k].row)
    BY <1>3, <1>8, CoroutineAt DEF UserRecorded, LocalFits, Local
  <2>2. accounts[cloc[k].row] \in Account
    BY <2>1, RowThere
  <2>3. accounts' = [accounts EXCEPT ![cloc[k].row] =
           [accounts[cloc[k].row] EXCEPT !.user = cloc[k].user,
                !.status = "keycloak_created",
                !.err = accounts[cloc[k].row].err /\ ~cloc[k].errs]]
    BY <1>3, <1>8, <2>1, <2>2 DEF UserRecorded
  <2>4. accounts'[r].who = accounts[r].who /\ accounts'[r].app = accounts[r].app
    BY <1>2, <2>1, <2>2, <2>3 DEF Account
  <2>5. r = cloc[k].row
    BY <1>1, <1>2, <2>1, <2>3
  <2>6. accounts'[r].status = "keycloak_created"
    BY <1>2, <2>3, <2>5 DEF Account
  <2> QED BY <1>8, <2>6 DEF Exists, NoAccount
<1>9. ASSUME NEW k \in Coroutines, GroupsAssigned(k) PROVE FALSE
  <2>1. cloc[k].row \in Rows
    BY <1>9, CoroutineAt DEF GroupsAssigned, LocalFits
  <2>2. Exists(cloc[k].row)
        /\ accounts' = [accounts EXCEPT ![cloc[k].row].err = @ \/ ~LockedFor(k)]
    BY <1>3, <1>9 DEF GroupsAssigned
  <2>3. accounts'[r].status = accounts[r].status
    BY <1>2, <2>1, <2>2, RowThere DEF Account
  <2> QED BY <1>2, <2>3 DEF Exists, NoAccount, Account, AccountStatus
<1>10. ASSUME NEW k \in Coroutines, NEW x \in Rows, ProvisionBegins(k, x) PROVE FALSE
  <2>1. accounts[x] \in Account
    BY <1>10, RowThere DEF ProvisionBegins
  <2>2. accounts' = [accounts EXCEPT ![x] = [accounts[x] EXCEPT !.app = "failed"]]
    BY <1>2, <1>3, <1>10 DEF ProvisionBegins
  <2>3. [accounts[x] EXCEPT !.app = "failed"] \in Account
    BY <2>1 DEF Account, AppStatus
  <2> QED BY <1>1, <1>2, <2>2, <2>3
<1>11. ASSUME NEW k \in Coroutines, DriverAnswers(k) PROVE FALSE
  <2>1. cloc[k].row \in Rows /\ Exists(cloc[k].row)
    BY <1>3, <1>11, CoroutineAt DEF DriverAnswers, LocalFits
  <2>2. PICK result \in {"success", "failed"}, recorded \in BOOLEAN, summed \in BOOLEAN :
           accounts' = [accounts EXCEPT
             ![cloc[k].row] = Finished(accounts[cloc[k].row], result, recorded, summed)]
    BY <1>3, <1>11 DEF DriverAnswers
  <2>3. Finished(accounts[cloc[k].row], result, recorded, summed) \in Account
    BY <2>1, RowThere, RowFinished DEF HonestRow
  <2> QED BY <1>1, <1>2, <2>2, <2>3
<1>12. ASSUME NEW k \in Coroutines, NEW x \in Rows, NEW forced \in BOOLEAN,
              DeleteBegins(k, x, forced)
       PROVE  FALSE
  <2>1. accounts[x].user = NoUser /\ accounts' = Forgotten(k, x, FALSE, forced)
    BY <1>3, <1>12 DEF DeleteBegins
  <2>2. x = r
    BY <1>4, <2>1
  <2> QED BY <2>1, <2>2
<1>13. ASSUME NEW k \in Coroutines, AppDeleted(k) PROVE FALSE
  <2>1. cloc[k].row \in Rows
    BY <1>13, CoroutineAt DEF AppDeleted, LocalFits
  <2>2. PICK errs \in BOOLEAN :
           /\ ~(Exists(cloc[k].row) /\ accounts[cloc[k].row].user # NoUser)
           /\ accounts' = Forgotten(k, cloc[k].row, errs, cloc[k].kind = "force")
    BY <1>3, <1>13 DEF AppDeleted
  <2>3. (cloc[k].kind = "force") \in BOOLEAN
    BY Zenon
  <2>4. cloc[k].row = r
    BY <1>4, <2>1, <2>2, <2>3, Zenon
  <2> QED BY <2>2, <2>4
<1>14. ASSUME NEW k \in Coroutines, UserDeleted(k)
       PROVE  cloc[k].row = r /\ \E errs \in BOOLEAN :
                  accounts' = Forgotten(k, r, errs, cloc[k].kind = "force")
  <2>1. cloc[k].row \in Rows
    BY <1>14, CoroutineAt DEF UserDeleted, LocalFits
  <2>2. PICK refused \in BOOLEAN, lost \in BOOLEAN :
           accounts' = Forgotten(k, cloc[k].row, cloc[k].errs \/ refused \/ lost,
                                 cloc[k].kind = "force")
    BY <1>14 DEF UserDeleted
  <2>3. (cloc[k].kind = "force") \in BOOLEAN /\ (cloc[k].errs \/ refused \/ lost) \in BOOLEAN
    BY Zenon
  <2>4. cloc[k].row = r
    BY <1>4, <2>1, <2>2, <2>3, Zenon
  <2> QED BY <2>2, <2>3, <2>4, Zenon
<1>15. ASSUME NEW k \in Coroutines, RouteBegins(k) PROVE FALSE
  BY <1>3, <1>10, <1>12, <1>15 DEF RouteBegins, ApproveBegins, CreateBegins, RetryBegins
<1>16. ASSUME NEW k \in Coroutines, RouteResumes(k) PROVE UserDeleted(k)
  BY <1>3, <1>5, <1>7, <1>8, <1>9, <1>11, <1>13, <1>16
     DEF RouteResumes, CompanyFails, KeycloakCreates
<1>17. PICK k \in Coroutines : RouteResumes(k)
  BY <1>3, <1>15 DEF AccNext, PublicForm, SubmitChecks, SubmitInserts, Rejection,
                     RejectReads, RejectCommits, PortalRestarts, accVars
<1> QED BY <1>14, <1>16, <1>17

(* delete_bastion_account: a row that goes without being forced, and that   *)
(* nobody re-used or changed meanwhile, leaves no Keycloak user behind.     *)
THEOREM DeletionsAreWhole == AccSpec => NoPartialDelete
<1>1. AccInv /\ [AccNext]_accVars =>
        [\A r \in Rows :
            (Exists(r) /\ ~Exists(r)' /\ r \notin muddled /\ accounts[r].user # NoUser
               /\ \A k \in Coroutines : cpc'[k] # cpc[k] => cloc[k].kind = "delete")
            => \A p \in People : users'[p] # accounts[r].user]_accVars
  <2> SUFFICES ASSUME AccInv, [AccNext]_accVars, NEW r \in Rows,
                      Exists(r), ~Exists(r)', r \notin muddled, accounts[r].user # NoUser,
                      \A k \in Coroutines : cpc'[k] # cpc[k] => cloc[k].kind = "delete",
                      NEW p \in People
               PROVE  users'[p] # accounts[r].user
    OBVIOUS
  <2>1. PICK k \in Coroutines :
              /\ UserDeleted(k) /\ cloc[k].row = r
              /\ \E errs \in BOOLEAN :
                    accounts' = Forgotten(k, r, errs, cloc[k].kind = "force")
    BY OnlyDeletionsRemove
  <2>2. accounts[r].user = cloc[k].user
    BY <2>1 DEF UserDeleted, AccInv, HeldUser
  <2>3. cloc[k].kind = "delete"
    BY <2>1 DEF UserDeleted, Leaves, AccInv, AccTypeOK
  <2>4. PICK refused \in BOOLEAN, lost \in BOOLEAN :
         /\ users' = IF refused THEN users
                     ELSE [x \in People |-> IF users[x] = cloc[k].user THEN NoUser
                                            ELSE users[x]]
         /\ accounts' = Forgotten(k, r, cloc[k].errs \/ refused \/ lost,
                                  cloc[k].kind = "force")
    BY <2>1 DEF UserDeleted
  <2>5. ~refused
    <3> SUFFICES ASSUME refused PROVE FALSE
      OBVIOUS
    <3>1. accounts' = accounts \/ accounts' = [accounts EXCEPT ![r].err = TRUE]
      BY <2>3, <2>4 DEF Forgotten
    <3>2. accounts'[r].status = accounts[r].status
      BY <3>1, RowThere DEF AccInv, AccTypeOK, Account
    <3> QED BY <3>2, RowThere DEF Exists, NoAccount, Account, AccountStatus
  <2> QED BY <2>2, <2>4, <2>5
<1> QED BY <1>1, AccInvHolds, PTL DEF AccSpec, NoPartialDelete

-----------------------------------------------------------------------------
(* The lifecycle: the invariant.                                            *)

(* A run that works on an account knows which.                              *)
Placed(run) ==
    /\ run \in RunRow
    /\ run.pc \notin {"idle", "next"} => run.at \in AccountIds
    /\ run.pc = "next" => run.at \in 1..(NAccounts + 1)

RunsPlaced == \A j \in Runs : Placed(runs[j])

(* A user is switched off before its account is reported as disabled, and   *)
(* stays so unless somebody switches it on.                                 *)
OffFirst ==
    \A a \in AccountIds \ undone :
        (account[a].disabled \/ \E j \in Runs : runs[j].pc = "disabled" /\ runs[j].at = a)
            => ~keycloak[a].enabled

LcInv == LcTypeOK /\ RunsPlaced /\ OffFirst

-----------------------------------------------------------------------------
(* Runs, rows and users.                                                    *)

LEMMA AtRestPlaced ==
    Placed(RunAtRest) /\ RunAtRest.pc = "idle" /\ RunAtRest.read \in User
    /\ RunAtRest.rows \in [AccountIds -> LcRow]
<1>1. FreshRow \in LcRow
  BY LifecycleAssumption DEF FreshRow, LcRow, NoStage, Never
<1>2. [enabled |-> FALSE, change |-> FALSE] \in User
  BY DEF User
<1>3. /\ RunAtRest.read = [enabled |-> FALSE, change |-> FALSE]
      /\ RunAtRest.rows = [a \in AccountIds |-> FreshRow]
  BY DEF RunAtRest
<1>4. RunAtRest \in RunRow /\ RunAtRest.pc = "idle"
  BY <1>1, <1>2, LifecycleAssumption DEF RunAtRest, RunRow
<1> QED BY <1>1, <1>2, <1>3, <1>4 DEF Placed

LEMMA RunMoves ==
    ASSUME NEW run, Placed(run), run.at \in AccountIds,
           NEW pc \in {"disabling", "disabled", "forcing", "mail"}
    PROVE  /\ Placed([run EXCEPT !.pc = pc])
           /\ [run EXCEPT !.pc = pc].pc = pc /\ [run EXCEPT !.pc = pc].at = run.at
BY DEF Placed, RunRow

LEMMA RunReads ==
    ASSUME NEW run, Placed(run), run.at \in AccountIds, NEW user \in User,
           NEW pc \in {"disable_put", "force_put", "disabled", "mail"}
    PROVE  /\ Placed([run EXCEPT !.pc = pc, !.read = user])
           /\ [run EXCEPT !.pc = pc, !.read = user].pc = pc
           /\ [run EXCEPT !.pc = pc, !.read = user].at = run.at
BY DEF Placed, RunRow

LEMMA RunAdvances ==
    ASSUME NEW run, Placed(run), run.at \in AccountIds
    PROVE  Placed(Advances(run)) /\ Advances(run).pc = "next"
<1> DEFINE next == [run EXCEPT !.pc = "next", !.at = @ + 1, !.read = RunAtRest.read]
<1>1. run.at + 1 \in 1..(NAccounts + 1) /\ run.at + 1 \in 0..(NAccounts + 1)
  BY LifecycleAssumption DEF AccountIds
<1>2. next \in RunRow /\ next.pc = "next" /\ next.at = run.at + 1
  BY <1>1, AtRestPlaced DEF Placed, RunRow
<1> HIDE DEF next
<1>3. Placed(next)
  BY <1>1, <1>2 DEF Placed
<1> QED BY <1>2, <1>3 DEF next, Advances

LEMMA RunStarts ==
    ASSUME NEW run \in RunRow, NEW rows \in [AccountIds -> LcRow]
    PROVE  Placed([run EXCEPT !.pc = "next", !.at = 1, !.loaded = TRUE, !.rows = rows])
           /\ [run EXCEPT !.pc = "next", !.at = 1, !.loaded = TRUE, !.rows = rows].pc = "next"
<1> DEFINE next == [run EXCEPT !.pc = "next", !.at = 1, !.loaded = TRUE, !.rows = rows]
<1>1. 1 \in 0..(NAccounts + 1) /\ 1 \in 1..(NAccounts + 1)
  BY LifecycleAssumption
<1>2. next \in RunRow /\ next.pc = "next" /\ next.at = 1
  BY <1>1 DEF RunRow
<1> HIDE DEF next
<1>3. Placed(next)
  BY <1>1, <1>2 DEF Placed
<1> QED BY <1>2, <1>3 DEF next

LEMMA RunExpires ==
    ASSUME NEW run, Placed(run)
    PROVE  Placed(Expired(run)) /\ Expired(run).pc = run.pc /\ Expired(run).at = run.at
BY AtRestPlaced DEF Expired, Placed, RunRow

LEMMA SeenRow ==
    ASSUME LcInv, NEW j \in Runs, runs[j].at \in AccountIds
    PROVE  Seen(j) \in LcRow
BY DEF Seen, LcInv, LcTypeOK, RunRow

(* The stage that is tightest.                                              *)
LEMMA TightestStage ==
    ASSUME NEW row \in LcRow, Stages(row) # {}
    PROVE  Tightest(Stages(row)) \in {NoStage} \cup WarnDays
<1>1. Stages(row) \subseteq WarnDays /\ WarnDays \subseteq Nat
  BY LifecycleAssumption DEF Stages
<1>2. \E m \in Stages(row) : \A n \in Stages(row) : m <= n
  BY <1>1, LeastOfSet
<1> QED BY <1>1, <1>2 DEF Tightest

LEMMA RowWarned ==
    ASSUME NEW row \in LcRow, NEW stage \in {NoStage} \cup WarnDays
    PROVE  /\ [row EXCEPT !.stage = stage] \in LcRow
           /\ [row EXCEPT !.stage = stage].disabled = row.disabled
BY DEF LcRow

LEMMA RowDisabled ==
    ASSUME NEW row \in LcRow
    PROVE  [row EXCEPT !.disabled = TRUE] \in LcRow
BY DEF LcRow

LEMMA RowReminded ==
    ASSUME NEW row \in LcRow, NEW day \in 0..MaxDay
    PROVE  /\ [row EXCEPT !.pwWarned = day] \in LcRow
           /\ [row EXCEPT !.pwWarned = day].disabled = row.disabled
BY DEF LcRow

LEMMA RowUsed ==
    ASSUME NEW row \in LcRow, NEW day \in 0..MaxDay
    PROVE  /\ [row EXCEPT !.seen = day] \in LcRow
           /\ [row EXCEPT !.seen = day].disabled = row.disabled
           /\ [row EXCEPT !.seen = day, !.disabled = FALSE, !.stage = NoStage] \in LcRow
           /\ ~[row EXCEPT !.seen = day, !.disabled = FALSE, !.stage = NoStage].disabled
<1>1. /\ [row EXCEPT !.seen = day] \in LcRow
      /\ [row EXCEPT !.seen = day].disabled = row.disabled
  BY DEF LcRow
<1>2. [row EXCEPT !.seen = day, !.disabled = FALSE, !.stage = NoStage] \in LcRow
  BY DEF LcRow
<1>3. [row EXCEPT !.seen = day, !.disabled = FALSE, !.stage = NoStage].disabled = FALSE
  BY DEF LcRow
<1> QED BY <1>1, <1>2, <1>3

(* A PUT leaves a user off that is not listed as switched on.               *)
LEMMA UserWritten ==
    ASSUME LcInv, NEW a \in AccountIds, NEW user \in User,
           keycloak' = [keycloak EXCEPT ![a] = user], undone' = Undone(a, user)
    PROVE  /\ keycloak' \in [AccountIds -> User] /\ undone' \subseteq AccountIds
           /\ \A b \in AccountIds \ undone' :
                 ~keycloak'[b].enabled \/ (b \notin undone /\ keycloak[b].enabled)
<1>1. keycloak' \in [AccountIds -> User] /\ undone' \subseteq AccountIds
  BY DEF LcInv, LcTypeOK, Undone
<1>2. ASSUME NEW b \in AccountIds, b # a
      PROVE  keycloak'[b] = keycloak[b] /\ (b \notin undone' => b \notin undone)
  BY <1>2 DEF LcInv, LcTypeOK, Undone
<1>3. ~keycloak'[a].enabled \/ a \in undone' \/ (a \notin undone /\ keycloak[a].enabled)
  BY DEF LcInv, LcTypeOK, Undone
<1> QED BY <1>1, <1>2, <1>3

-----------------------------------------------------------------------------
(* A step of a run.                                                         *)
LEMMA RunStepKeeps ==
    ASSUME LcInv, NEW j \in Runs, NEW run, Placed(run), runs' = [runs EXCEPT ![j] = run],
           account' \in [AccountIds -> LcRow], keycloak' \in [AccountIds -> User],
           UNCHANGED <<today, signingIn, edits, passwordSet>>,
           ranToday' \in BOOLEAN, troubles' = troubles \/ Trouble,
           warned' \subseteq AccountIds, undone' \subseteq AccountIds,
           \A a \in AccountIds \ undone' :
              \/ ~keycloak'[a].enabled
              \/ /\ a \notin undone /\ keycloak[a].enabled
                 /\ account'[a].disabled => \/ account[a].disabled
                                            \/ runs[j].pc = "disabled" /\ runs[j].at = a
                 /\ (run.pc = "disabled" /\ run.at = a)
                       => runs[j].pc = "disabled" /\ runs[j].at = a
    PROVE  LcInv'
<1> USE DEF LcInv
<1>1. troubles' \in 0..MaxTroubles
  BY LifecycleAssumption DEF LcTypeOK, Trouble
<1>2. LcTypeOK'
  BY <1>1 DEF LcTypeOK, Placed
<1>3. RunsPlaced'
  BY DEF RunsPlaced, LcTypeOK
<1>4. OffFirst'
  <2> SUFFICES ASSUME NEW a \in AccountIds \ undone', keycloak'[a].enabled,
                      account'[a].disabled
                      \/ \E i \in Runs : runs'[i].pc = "disabled" /\ runs'[i].at = a
               PROVE  FALSE
    BY DEF OffFirst
  <2>1. a \notin undone /\ keycloak[a].enabled
    OBVIOUS
  <2>2. ~account[a].disabled /\ \A i \in Runs : ~(runs[i].pc = "disabled" /\ runs[i].at = a)
    BY <2>1 DEF OffFirst
  <2>3. ~account'[a].disabled
    BY <2>2
  <2>4. \A i \in Runs \ {j} : runs'[i] = runs[i]
    BY DEF LcTypeOK
  <2>5. runs'[j] = run
    BY DEF LcTypeOK
  <2> QED BY <2>2, <2>3, <2>4, <2>5
<1> QED BY <1>2, <1>3, <1>4

(* A run that changes nothing but itself, the fault counter and the report. *)
LEMMA RunOnlyMoves ==
    ASSUME LcInv, NEW j \in Runs, NEW run, Placed(run), run.pc # "disabled",
           runs' = [runs EXCEPT ![j] = run],
           UNCHANGED <<today, account, keycloak, signingIn, edits, passwordSet, undone>>,
           ranToday' \in BOOLEAN, troubles' = troubles \/ Trouble, warned' \subseteq AccountIds
    PROVE  LcInv'
<1>1. /\ account' \in [AccountIds -> LcRow] /\ keycloak' \in [AccountIds -> User]
      /\ undone' \subseteq AccountIds
  BY DEF LcInv, LcTypeOK
<1> QED BY <1>1, RunStepKeeps

(* A run that writes the row of its account, without disabling it.          *)
LEMMA RunWritesRow ==
    ASSUME LcInv, NEW j \in Runs, NEW run, Placed(run), run.pc # "disabled",
           runs' = [runs EXCEPT ![j] = run], runs[j].at \in AccountIds,
           NEW row \in LcRow, account' = [account EXCEPT ![runs[j].at] = row],
           row.disabled = account[runs[j].at].disabled
               \/ (runs[j].pc = "disabled" /\ row.disabled),
           UNCHANGED <<today, keycloak, signingIn, edits, passwordSet, undone, troubles,
                       ranToday>>,
           warned' \subseteq AccountIds
    PROVE  LcInv'
<1>1. /\ account' \in [AccountIds -> LcRow] /\ keycloak' \in [AccountIds -> User]
      /\ undone' \subseteq AccountIds /\ ranToday' \in BOOLEAN
  BY DEF LcInv, LcTypeOK
<1>2. \A a \in AccountIds : account'[a].disabled =>
         account[a].disabled \/ (runs[j].pc = "disabled" /\ runs[j].at = a)
  BY DEF LcInv, LcTypeOK
<1> QED BY <1>1, <1>2, RunStepKeeps

LEMMA RunPlaced ==
    ASSUME LcInv, NEW j \in Runs
    PROVE  Placed(runs[j])
BY DEF LcInv, RunsPlaced

LEMMA RunAtAccount ==
    ASSUME LcInv, NEW j \in Runs,
           runs[j].pc \notin {"idle", "next"}
           \/ (runs[j].pc = "next" /\ runs[j].at <= NAccounts)
    PROVE  runs[j].at \in AccountIds
<1>1. runs[j].pc = "next" => runs[j].at \in 1..(NAccounts + 1)
  BY RunPlaced DEF Placed
<1>2. runs[j].pc \notin {"idle", "next"} => runs[j].at \in AccountIds
  BY RunPlaced DEF Placed
<1> QED BY <1>1, <1>2, LifecycleAssumption DEF AccountIds

LEMMA BreaksInv ==
    ASSUME LcInv, NEW j \in Runs, Breaks(j),
           UNCHANGED <<today, account, keycloak, signingIn, edits, passwordSet, undone,
                       troubles>>, warned' \subseteq AccountIds
    PROVE  LcInv'
<1>1. runs' = [runs EXCEPT ![j] = RunAtRest] /\ ranToday' \in BOOLEAN
  BY DEF Breaks
<1> QED BY <1>1, AtRestPlaced, RunOnlyMoves

LEMMA RunBeginsInv ==
    ASSUME LcInv, NEW j \in Runs, RunBegins(j)
    PROVE  LcInv'
<1> DEFINE run == [RunAtRest EXCEPT !.pc = "next", !.at = 1, !.loaded = TRUE,
                                    !.rows = account]
<1>1. Placed(run) /\ run.pc = "next"
  BY AtRestPlaced, RunStarts DEF Placed, LcInv, LcTypeOK
<1>2. runs' = [runs EXCEPT ![j] = run]
  BY DEF RunBegins
<1> HIDE DEF run
<1> QED BY <1>1, <1>2, RunOnlyMoves DEF RunBegins, lcHistory, LcInv, LcTypeOK

LEMMA RunGoesOnInv ==
    ASSUME LcInv, NEW j \in Runs,
           RunEnds(j) \/ SkipDisabled(j) \/ DisableBegins(j) \/ WriteIsLost(j)
    PROVE  LcInv'
<1>0. /\ UNCHANGED <<today, account, keycloak, signingIn, edits, passwordSet, undone>>
      /\ ranToday' \in BOOLEAN /\ (troubles' = troubles \/ Trouble)
      /\ warned' \subseteq AccountIds
  BY DEF RunEnds, SkipDisabled, DisableBegins, WriteIsLost, lcHistory, LcInv, LcTypeOK
<1>1. CASE RunEnds(j)
  <2>1. runs' = [runs EXCEPT ![j] = RunAtRest]
    BY <1>1 DEF RunEnds
  <2> QED BY <1>0, <2>1, AtRestPlaced, RunOnlyMoves
<1>2. CASE SkipDisabled(j) \/ WriteIsLost(j)
  <2>1. runs' = [runs EXCEPT ![j] = Advances(runs[j])]
    BY <1>2 DEF SkipDisabled, WriteIsLost, LcInv, LcTypeOK
  <2>2. runs[j].at \in AccountIds
    BY <1>2, RunAtAccount DEF SkipDisabled, WriteIsLost
  <2>3. Placed(Advances(runs[j])) /\ Advances(runs[j]).pc = "next"
    BY <2>2, RunPlaced, RunAdvances
  <2> QED BY <1>0, <2>1, <2>3, RunOnlyMoves
<1>3. CASE DisableBegins(j)
  <2>1. runs' = [runs EXCEPT ![j] = [runs[j] EXCEPT !.pc = "disabling"]]
    BY <1>3 DEF DisableBegins, Moves, LcInv, LcTypeOK
  <2>2. runs[j].at \in AccountIds
    BY <1>3, RunAtAccount DEF DisableBegins
  <2>3. /\ Placed([runs[j] EXCEPT !.pc = "disabling"])
        /\ [runs[j] EXCEPT !.pc = "disabling"].pc = "disabling"
    BY <2>2, RunPlaced, RunMoves
  <2> QED BY <1>0, <2>1, <2>3, RunOnlyMoves
<1> QED BY <1>1, <1>2, <1>3

(* What a run does after it has considered the inactivity of an account.    *)
LEMMA OnwardPlaced ==
    ASSUME NEW run, Placed(run), run.at \in AccountIds
    PROVE  LET onward == IF AfterWarning = "next" THEN Advances(run)
                         ELSE [run EXCEPT !.pc = AfterWarning]
           IN Placed(onward) /\ onward.pc # "disabled"
<1>1. CASE AfterWarning = "next"
  BY <1>1, RunAdvances
<1>2. CASE AfterWarning # "next"
  <2>1. AfterWarning \in {"forcing", "mail"}
    BY <1>2 DEF AfterWarning
  <2> QED BY <1>2, <2>1, RunMoves
<1> QED BY <1>1, <1>2

LEMMA ConsidersInv ==
    ASSUME LcInv, NEW j \in Runs, Considers(j)
    PROVE  LcInv'
<1> DEFINE a == runs[j].at
           onward == IF AfterWarning = "next" THEN Advances(runs[j])
                     ELSE [runs[j] EXCEPT !.pc = AfterWarning]
<1>1. a \in AccountIds /\ runs \in [Runs -> RunRow] /\ account \in [AccountIds -> LcRow]
      /\ warned \subseteq AccountIds /\ warned \cup {a} \subseteq AccountIds
      /\ ranToday \in BOOLEAN
  BY RunAtAccount DEF Considers, LcInv, LcTypeOK
<1>2. Placed(onward) /\ onward.pc # "disabled"
  BY <1>1, OnwardPlaced, RunPlaced
<1>3. Placed(Expired(onward)) /\ Expired(onward).pc # "disabled"
  <2> HIDE DEF onward
  <2> QED BY <1>2, RunExpires
<1>4. UNCHANGED <<today, keycloak, signingIn, edits, passwordSet, undone>>
  BY DEF Considers
<1>5. \/ /\ runs' = [runs EXCEPT ![j] = onward]
         /\ UNCHANGED <<account, troubles, warned, ranToday>>
      \/ /\ NeedsWarning(Seen(j))
         /\ account' = [account EXCEPT ![a].stage = Tightest(Stages(Seen(j)))]
         /\ runs' = [runs EXCEPT ![j] = Expired(onward)]
         /\ warned' = warned \cup {a}
         /\ UNCHANGED <<troubles, ranToday>>
      \/ /\ Breaks(j) /\ warned' = warned \cup {a}
         /\ UNCHANGED <<account, troubles>>
      \/ /\ Trouble /\ runs' = [runs EXCEPT ![j] = onward]
         /\ UNCHANGED <<account, warned, ranToday>>
  BY <1>1 DEF Considers
<1> HIDE DEF onward
<1>6. CASE /\ runs' = [runs EXCEPT ![j] = onward]
           /\ UNCHANGED <<account, troubles, warned, ranToday>>
  BY <1>1, <1>2, <1>4, <1>6, RunOnlyMoves
<1>7. CASE /\ NeedsWarning(Seen(j))
           /\ account' = [account EXCEPT ![a].stage = Tightest(Stages(Seen(j)))]
           /\ runs' = [runs EXCEPT ![j] = Expired(onward)]
           /\ warned' = warned \cup {a}
           /\ UNCHANGED <<troubles, ranToday>>
  <2> DEFINE stage == Tightest(Stages(Seen(j)))
             row == [account[a] EXCEPT !.stage = stage]
  <2>1. stage \in {NoStage} \cup WarnDays
    BY <1>1, <1>7, SeenRow, TightestStage DEF NeedsWarning
  <2>2. account' = [account EXCEPT ![a] = row]
    BY <1>1, <1>7
  <2>3. row \in LcRow /\ row.disabled = account[a].disabled
    BY <1>1, <2>1, RowWarned
  <2> HIDE DEF row, stage
  <2> QED BY <1>1, <1>3, <1>4, <1>7, <2>2, <2>3, RunWritesRow
<1>8. CASE /\ Breaks(j) /\ warned' = warned \cup {a}
           /\ UNCHANGED <<account, troubles>>
  BY <1>1, <1>4, <1>8, BreaksInv
<1>9. CASE /\ Trouble /\ runs' = [runs EXCEPT ![j] = onward]
           /\ UNCHANGED <<account, warned, ranToday>>
  BY <1>1, <1>2, <1>4, <1>9, RunOnlyMoves
<1> QED BY <1>5, <1>6, <1>7, <1>8, <1>9

LEMMA ReadsUserInv ==
    ASSUME LcInv, NEW j \in Runs, ReadsUser(j)
    PROVE  LcInv'
<1> DEFINE a == runs[j].at
           pc == IF runs[j].pc = "disabling" THEN "disable_put" ELSE "force_put"
           run == [runs[j] EXCEPT !.pc = pc, !.read = keycloak[a]]
<1>1. a \in AccountIds /\ runs \in [Runs -> RunRow] /\ keycloak[a] \in User
  BY RunAtAccount DEF ReadsUser, LcInv, LcTypeOK
<1>2. /\ UNCHANGED <<today, account, keycloak, signingIn, edits, passwordSet, undone>>
      /\ ranToday' \in BOOLEAN /\ (troubles' = troubles \/ Trouble)
      /\ warned' \subseteq AccountIds
  BY DEF ReadsUser, lcHistory, LcInv, LcTypeOK
<1>3. \/ runs' = [runs EXCEPT ![j] = run]
      \/ runs' = [runs EXCEPT ![j] = Advances(runs[j])]
  BY <1>1 DEF ReadsUser
<1>4. Placed(run) /\ run.pc # "disabled"
  <2>1. pc \in {"disable_put", "force_put"}
    OBVIOUS
  <2> HIDE DEF pc
  <2> QED BY <1>1, <2>1, RunPlaced, RunReads
<1>5. Placed(Advances(runs[j])) /\ Advances(runs[j]).pc = "next"
  BY <1>1, RunPlaced, RunAdvances
<1> HIDE DEF run
<1> QED BY <1>2, <1>3, <1>4, <1>5, RunOnlyMoves

LEMMA WritesUserInv ==
    ASSUME LcInv, NEW j \in Runs, WritesUser(j)
    PROVE  LcInv'
<1> DEFINE a == runs[j].at
           off == runs[j].pc = "disable_put"
           pc == IF off THEN "disabled" ELSE "mail"
           run == [runs[j] EXCEPT !.pc = pc, !.read = RunAtRest.read]
<1>1. a \in AccountIds /\ runs[j] \in RunRow /\ runs \in [Runs -> RunRow]
  BY RunAtAccount DEF WritesUser, LcInv, LcTypeOK
<1>2. Put(j) \in User /\ (off => ~Put(j).enabled)
  <2>1. runs[j].read \in User
    BY <1>1 DEF RunRow
  <2>2. CASE off
    <3>1. Put(j) = [runs[j].read EXCEPT !.enabled = FALSE]
      BY <2>2 DEF Put
    <3>2. Put(j) \in User /\ Put(j).enabled = FALSE
      BY <2>1, <3>1 DEF User
    <3> QED BY <3>2
  <2>3. CASE ~off
    BY <2>1, <2>3 DEF Put, User
  <2> QED BY <2>2, <2>3
<1>3. /\ keycloak' = [keycloak EXCEPT ![a] = Put(j)] /\ undone' = Undone(a, Put(j))
      /\ UNCHANGED <<today, account, signingIn, edits, ranToday, passwordSet, warned>>
      /\ (troubles' = troubles \/ Trouble)
  BY DEF WritesUser
<1>4. /\ keycloak' \in [AccountIds -> User] /\ undone' \subseteq AccountIds
      /\ \A b \in AccountIds \ undone' :
            ~keycloak'[b].enabled \/ (b \notin undone /\ keycloak[b].enabled)
  <2>1. PICK user \in User : user = Put(j)
    BY <1>2
  <2>2. PICK b \in AccountIds : b = a
    BY <1>1
  <2> QED BY <1>3, <2>1, <2>2, UserWritten
<1>5. account' \in [AccountIds -> LcRow] /\ ranToday' \in BOOLEAN /\ warned' \subseteq AccountIds
  BY <1>3 DEF LcInv, LcTypeOK
<1>6. \/ runs' = [runs EXCEPT ![j] = run]
      \/ runs' = [runs EXCEPT ![j] = Advances(runs[j])]
  BY <1>1 DEF WritesUser
<1>7. Placed(run) /\ run.pc = pc /\ run.at = a
  <2>1. pc \in {"disable_put", "force_put", "disabled", "mail"} /\ RunAtRest.read \in User
    BY AtRestPlaced
  <2>2. Placed(runs[j])
    BY RunPlaced
  <2> HIDE DEF pc
  <2>3. Placed(run)
    BY <1>1, <2>1, <2>2, RunReads, Zenon
  <2> QED BY <1>1, <2>3 DEF RunRow
<1>8. Placed(Advances(runs[j])) /\ Advances(runs[j]).pc = "next"
  BY <1>1, RunPlaced, RunAdvances
<1>9. CASE runs' = [runs EXCEPT ![j] = run]
  <2>1. \A b \in AccountIds \ undone' : (run.pc = "disabled" /\ run.at = b) => ~keycloak'[b].enabled
    BY <1>1, <1>2, <1>3, <1>7 DEF LcInv, LcTypeOK
  <2> HIDE DEF run
  <2> QED BY <1>3, <1>4, <1>5, <1>7, <1>9, <2>1, RunStepKeeps
<1>10. CASE runs' = [runs EXCEPT ![j] = Advances(runs[j])]
  BY <1>3, <1>4, <1>5, <1>8, <1>10, RunStepKeeps
<1> QED BY <1>6, <1>9, <1>10

LEMMA NotesDisabledInv ==
    ASSUME LcInv, NEW j \in Runs, NotesDisabled(j)
    PROVE  LcInv'
<1> DEFINE a == runs[j].at
           row == [account[a] EXCEPT !.disabled = TRUE]
           run == Expired(Advances(runs[j]))
<1>1. /\ a \in AccountIds /\ runs[j].pc = "disabled" /\ account \in [AccountIds -> LcRow]
      /\ runs \in [Runs -> RunRow] /\ warned \subseteq AccountIds
  BY RunAtAccount DEF NotesDisabled, LcInv, LcTypeOK
<1>2. UNCHANGED <<today, keycloak, signingIn, edits, troubles, passwordSet, warned, undone>>
  BY DEF NotesDisabled, lcHistory
<1>3. CASE Locked
  BY <1>1, <1>2, <1>3, BreaksInv DEF NotesDisabled
<1>4. CASE ~Locked
  <2>1. /\ account' = [account EXCEPT ![a] = row] /\ runs' = [runs EXCEPT ![j] = run]
        /\ UNCHANGED ranToday
    BY <1>1, <1>4 DEF NotesDisabled
  <2>2. Placed(run) /\ run.pc = "next"
    BY <1>1, RunPlaced, RunAdvances, RunExpires
  <2>3. row \in LcRow /\ row.disabled
    <3>1. row \in LcRow
      BY <1>1, RowDisabled
    <3>2. row.disabled = TRUE
      BY <1>1 DEF LcRow
    <3> QED BY <3>1, <3>2
  <2> HIDE DEF row, run
  <2> QED BY <1>1, <1>2, <2>1, <2>2, <2>3, RunWritesRow
<1> QED BY <1>3, <1>4

LEMMA RemindsInv ==
    ASSUME LcInv, NEW j \in Runs, Reminds(j)
    PROVE  LcInv'
<1> DEFINE a == runs[j].at
           row == [account[a] EXCEPT !.pwWarned = today]
           run == Expired(Advances(runs[j]))
<1>1. /\ a \in AccountIds /\ account \in [AccountIds -> LcRow] /\ today \in 0..MaxDay
      /\ runs \in [Runs -> RunRow] /\ warned \subseteq AccountIds /\ ranToday \in BOOLEAN
  BY RunAtAccount, LifecycleAssumption DEF Reminds, LcInv, LcTypeOK
<1>2. UNCHANGED <<today, keycloak, signingIn, edits, passwordSet, warned, undone>>
  BY DEF Reminds, lcHistory
<1>3. Placed(Advances(runs[j])) /\ Advances(runs[j]).pc = "next"
  BY <1>1, RunPlaced, RunAdvances
<1>4. \/ /\ account' = [account EXCEPT ![a] = row] /\ runs' = [runs EXCEPT ![j] = run]
         /\ UNCHANGED <<troubles, ranToday>>
      \/ Breaks(j) /\ UNCHANGED <<account, troubles>>
      \/ /\ runs' = [runs EXCEPT ![j] = Advances(runs[j])]
         /\ UNCHANGED <<account, ranToday>> /\ (troubles' = troubles \/ Trouble)
  BY <1>1 DEF Reminds
<1>5. CASE /\ account' = [account EXCEPT ![a] = row] /\ runs' = [runs EXCEPT ![j] = run]
           /\ UNCHANGED <<troubles, ranToday>>
  <2>1. row \in LcRow /\ row.disabled = account[a].disabled
    BY <1>1, RowReminded
  <2>2. Placed(run) /\ run.pc = "next"
    BY <1>3, RunExpires
  <2> HIDE DEF row, run
  <2> QED BY <1>1, <1>2, <1>5, <2>1, <2>2, RunWritesRow
<1>6. CASE Breaks(j) /\ UNCHANGED <<account, troubles>>
  BY <1>1, <1>2, <1>6, BreaksInv
<1>7. CASE /\ runs' = [runs EXCEPT ![j] = Advances(runs[j])]
           /\ UNCHANGED <<account, ranToday>> /\ (troubles' = troubles \/ Trouble)
  BY <1>1, <1>2, <1>3, <1>7, RunOnlyMoves
<1> QED BY <1>4, <1>5, <1>6, <1>7

-----------------------------------------------------------------------------
(* The others.                                                              *)

LEMMA OthersKeep ==
    ASSUME LcInv, UNCHANGED runs, today' \in 1..MaxDay,
           account' \in [AccountIds -> LcRow], keycloak' \in [AccountIds -> User],
           signingIn' \subseteq AccountIds, edits' \in [Editors -> EditRow],
           ranToday' \in BOOLEAN, troubles' = troubles \/ Trouble,
           passwordSet' \in [AccountIds -> 0..MaxDay],
           warned' \subseteq AccountIds, undone' \subseteq AccountIds,
           \A a \in AccountIds : account'[a].disabled => account[a].disabled,
           \A a \in AccountIds \ undone' :
              ~keycloak'[a].enabled \/ (a \notin undone /\ keycloak[a].enabled)
    PROVE  LcInv'
<1>1. troubles' \in 0..MaxTroubles
  BY LifecycleAssumption DEF LcInv, LcTypeOK, Trouble
<1>2. LcTypeOK'
  BY <1>1 DEF LcInv, LcTypeOK
<1>3. RunsPlaced' /\ OffFirst'
  BY DEF LcInv, RunsPlaced, OffFirst
<1> QED BY <1>2, <1>3 DEF LcInv

LEMMA AuthenticatesInv ==
    ASSUME LcInv, NEW a \in AccountIds, Authenticates(a)
    PROVE  LcInv'
<1> USE DEF LcInv, LcTypeOK
<1> DEFINE user == [keycloak[a] EXCEPT !.change = FALSE]
<1>1. user \in User /\ user.enabled = keycloak[a].enabled
  BY DEF User
<1>2. keycloak' = [keycloak EXCEPT ![a] = user]
  BY DEF Authenticates
<1> HIDE DEF user
<1>3. /\ keycloak' \in [AccountIds -> User]
      /\ \A b \in AccountIds : keycloak'[b].enabled = keycloak[b].enabled
  BY <1>1, <1>2
<1>4. passwordSet' \in [AccountIds -> 0..MaxDay]
  BY LifecycleAssumption DEF Authenticates
<1>5. /\ signingIn' \subseteq AccountIds
      /\ UNCHANGED <<runs, today, account, edits, ranToday, troubles, warned, undone>>
  BY DEF Authenticates
<1>6. \A b \in AccountIds \ undone :
         ~keycloak'[b].enabled \/ (b \notin undone /\ keycloak[b].enabled)
  BY <1>3
<1> QED BY <1>3, <1>4, <1>5, <1>6, OthersKeep

LEMMA RecordsLoginInv ==
    ASSUME LcInv, NEW a \in AccountIds, RecordsLogin(a)
    PROVE  LcInv'
<1> USE DEF LcInv, LcTypeOK
<1> DEFINE row == IF account[a].disabled
                  THEN [account[a] EXCEPT !.seen = today, !.disabled = FALSE,
                                          !.stage = NoStage]
                  ELSE [account[a] EXCEPT !.seen = today]
<1>1. row \in LcRow /\ (row.disabled => account[a].disabled)
  <2>1. today \in 0..MaxDay /\ account[a] \in LcRow
    BY LifecycleAssumption
  <2>2. CASE account[a].disabled
    BY <2>1, <2>2, RowUsed
  <2>3. CASE ~account[a].disabled
    BY <2>1, <2>3, RowUsed
  <2> QED BY <2>2, <2>3
<1>2. account' = [account EXCEPT ![a] = row]
  BY DEF RecordsLogin
<1> HIDE DEF row
<1>3. /\ account' \in [AccountIds -> LcRow]
      /\ \A b \in AccountIds : account'[b].disabled => account[b].disabled
  BY <1>1, <1>2
<1>4. /\ signingIn' \subseteq AccountIds /\ warned' \subseteq AccountIds
      /\ UNCHANGED <<runs, today, keycloak, edits, ranToday, troubles, passwordSet, undone>>
  BY DEF RecordsLogin
<1> QED BY <1>3, <1>4, OthersKeep

LEMMA EditReadsInv ==
    ASSUME LcInv, NEW e \in Editors, NEW a \in AccountIds, EditReads(e, a)
    PROVE  LcInv'
<1> USE DEF LcInv, LcTypeOK
<1>1. edits' \in [Editors -> EditRow]
  <2>1. [at |-> a, read |-> keycloak[a]] \in EditRow
    BY LifecycleAssumption DEF EditRow, AccountIds
  <2> QED BY <2>1 DEF EditReads
<1>2. UNCHANGED <<runs, today, account, keycloak, signingIn, ranToday, passwordSet,
                  warned, undone>> /\ Trouble
  BY DEF EditReads, lcHistory
<1> QED BY <1>1, <1>2, OthersKeep

LEMMA NotEditingTyped == NotEditing \in EditRow /\ NotEditing.at = 0
BY LifecycleAssumption DEF NotEditing, EditRow, User

LEMMA EditWritesInv ==
    ASSUME LcInv, NEW e \in Editors, EditWrites(e)
    PROVE  LcInv'
<1> USE DEF LcInv, LcTypeOK
<1>1. edits[e] \in EditRow /\ edits' \in [Editors -> EditRow]
  BY NotEditingTyped DEF EditWrites
<1>2. PICK a \in AccountIds, user \in User : a = edits[e].at /\ user = edits[e].read
  BY <1>1, LifecycleAssumption DEF EditWrites, EditRow, AccountIds
<1>3. keycloak' = [keycloak EXCEPT ![a] = user] /\ undone' = Undone(a, user)
      /\ UNCHANGED <<runs, today, account, signingIn, ranToday, troubles, passwordSet, warned>>
  BY <1>2 DEF EditWrites
<1>4. /\ keycloak' \in [AccountIds -> User] /\ undone' \subseteq AccountIds
      /\ \A b \in AccountIds \ undone' :
            ~keycloak'[b].enabled \/ (b \notin undone /\ keycloak[b].enabled)
  BY <1>3, UserWritten
<1> QED BY <1>1, <1>3, <1>4, OthersKeep

LEMMA ConsoleEnablesInv ==
    ASSUME LcInv, NEW a \in AccountIds, ConsoleEnables(a)
    PROVE  LcInv'
<1> USE DEF LcInv, LcTypeOK
<1>1. keycloak' \in [AccountIds -> User]
      /\ \A b \in AccountIds \ {a} : keycloak'[b] = keycloak[b]
  BY DEF ConsoleEnables, User
<1>2. /\ undone' = undone \cup {a} /\ Trouble
      /\ UNCHANGED <<runs, today, account, signingIn, edits, ranToday, passwordSet, warned>>
  BY DEF ConsoleEnables
<1> QED BY <1>1, <1>2, OthersKeep

LEMMA DayPassesInv ==
    ASSUME LcInv, DayPasses PROVE LcInv'
<1> USE DEF LcInv, LcTypeOK
<1>1. today' \in 1..MaxDay
  BY LifecycleAssumption DEF DayPasses
<1>2. ranToday' \in BOOLEAN /\ (troubles' = troubles \/ Trouble)
      /\ UNCHANGED <<account, keycloak, signingIn, runs, edits, passwordSet, warned, undone>>
  BY DEF DayPasses, lcHistory
<1> QED BY <1>1, <1>2, OthersKeep

LEMMA LcRestartInv ==
    ASSUME LcInv, LcRestart PROVE LcInv'
<1> USE DEF LcInv
<1>1. troubles' \in 0..MaxTroubles
  BY LifecycleAssumption DEF LcRestart, Trouble, LcTypeOK
<1>2. LcTypeOK'
  BY <1>1, AtRestPlaced, NotEditingTyped DEF LcRestart, lcHistory, LcTypeOK, Placed
<1>3. RunsPlaced' /\ OffFirst'
  BY AtRestPlaced DEF LcRestart, lcHistory, RunsPlaced, OffFirst
<1> QED BY <1>2, <1>3

LEMMA LcInitInv == LcInit => LcInv
<1> SUFFICES ASSUME LcInit PROVE LcInv
  OBVIOUS
<1>1. FreshRow \in LcRow /\ FreshRow.disabled = FALSE
  BY LifecycleAssumption DEF FreshRow, LcRow, NoStage, Never
<1>2. [enabled |-> TRUE, change |-> FALSE] \in User
  BY DEF User
<1>3. LcTypeOK
  <2>1. today \in 1..MaxDay /\ troubles \in 0..MaxTroubles
        /\ passwordSet \in [AccountIds -> 0..MaxDay]
    BY LifecycleAssumption DEF LcInit
  <2>2. account \in [AccountIds -> LcRow] /\ keycloak \in [AccountIds -> User]
    BY <1>1, <1>2 DEF LcInit
  <2>3. runs \in [Runs -> RunRow] /\ edits \in [Editors -> EditRow]
    BY AtRestPlaced, NotEditingTyped DEF LcInit, Placed
  <2> QED BY <2>1, <2>2, <2>3 DEF LcInit, LcTypeOK
<1>4. RunsPlaced /\ OffFirst
  BY <1>1, AtRestPlaced DEF LcInit, RunsPlaced, OffFirst
<1> QED BY <1>3, <1>4 DEF LcInv

LEMMA LcNextInv == LcInv /\ [LcNext]_lcVars => LcInv'
<1> SUFFICES ASSUME LcInv, [LcNext]_lcVars PROVE LcInv'
  OBVIOUS
<1>1. ASSUME NEW j \in Runs, RunBegins(j) \/ RunStep(j) PROVE LcInv'
  BY <1>1, RunBeginsInv, RunGoesOnInv, ConsidersInv, ReadsUserInv, WritesUserInv,
     NotesDisabledInv, RemindsInv DEF RunStep
<1>2. ASSUME NEW a \in AccountIds, Authenticates(a) \/ RecordsLogin(a) \/ ConsoleEnables(a)
      PROVE  LcInv'
  BY <1>2, AuthenticatesInv, RecordsLoginInv, ConsoleEnablesInv
<1>3. ASSUME NEW e \in Editors, EditWrites(e) \/ \E a \in AccountIds : EditReads(e, a)
      PROVE  LcInv'
  BY <1>3, EditWritesInv, EditReadsInv
<1>4. CASE UNCHANGED lcVars
  BY <1>4 DEF lcVars, lcHistory, LcInv, LcTypeOK, RunsPlaced, OffFirst
<1> QED BY <1>1, <1>2, <1>3, <1>4, DayPassesInv, LcRestartInv DEF LcNext

LEMMA LcInvHolds == LcSpec => []LcInv
<1> QED BY LcInitInv, LcNextInv, PTL DEF LcSpec

(* Every variable of the lifecycle keeps its type.                          *)
THEOREM LifecycleTypeCorrect == LcSpec => []LcTypeOK
<1>1. LcInv => LcTypeOK
  BY DEF LcInv
<1> QED BY LcInvHolds, <1>1, PTL

(* _disable_for_inactivity: an account that is reported as disabled cannot  *)
(* log in, whichever calls, commits and runs fail or overlap, unless        *)
(* somebody has switched its user on again.                                 *)
THEOREM DisabledAccountsAreOff == LcSpec => []DisabledAtKeycloak
<1>1. LcInv => DisabledAtKeycloak
  BY DEF LcInv, OffFirst, DisabledAtKeycloak
<1> QED BY LcInvHolds, <1>1, PTL
=============================================================================
