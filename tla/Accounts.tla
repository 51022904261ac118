------------------------------- MODULE Accounts -------------------------------
(***************************************************************************)
(* Access requests (app/rbac/access_request_service.py) and the accounts   *)
(* they lead to (app/rbac/account_service.py): an account is a row of      *)
(* bastion_accounts, a Keycloak user and at most one account in a connected *)
(* application.                                                            *)
(*                                                                         *)
(* Approving, creating, retrying, provisioning and deleting are coroutines *)
(* of the event loop: each action below runs from one await to the next.   *)
(* Submitting and rejecting run in threads, between any two statements.    *)
(* One realm, one application; a person stands for a username and its      *)
(* address.                                                                *)
(***************************************************************************)
EXTENDS Naturals, FiniteSets

CONSTANTS
    People,
    AccessRequests,  \* rows access_requests may hold
    Submitters,      \* threads serving the public form, behind one client address
    Rejecters,       \* threads rejecting requests
    Coroutines,      \* administration routes at a time
    MaxPendingPerIp, \* _MAX_PENDING_PER_IP
    MaxAccounts,         \* bound on account rows at a time
    MaxUsers,        \* bound on Keycloak users created
    MaxAccFaults     \* bound on failing remote calls and crashes

ASSUME AccountsAssumption ==
    /\ IsFiniteSet(AccessRequests) /\ IsFiniteSet(Submitters)
    /\ MaxPendingPerIp \in Nat \ {0} /\ MaxAccounts \in Nat \ {0}
    /\ MaxUsers \in Nat /\ MaxAccFaults \in Nat

VARIABLES
    requests,  \* access_requests
    accounts,  \* bastion_accounts with their provisioning row
    users,     \* Keycloak: the id of each person's user
    nextUser,  \* next Keycloak id
    submit,    \* what each submitter has found no obstacle to
    reject,    \* the request each rejecter has read as pending
    cpc, cloc, \* where each coroutine is and what it holds
    accFaults,
    muddled    \* history: rows whose id was given out again, or whose Keycloak
               \* id was replaced, under a coroutine that held the row

accVars == <<requests, accounts, users, nextUser, submit, reject, cpc, cloc,
             accFaults, muddled>>

Rows == 1..MaxAccounts
Foreign == MaxUsers + 1            \* a Keycloak user the portal did not create
NoUser == 0

AppStatus == {"none", "pending", "success", "failed"}
AccountStatus == {"pending", "keycloak_created", "provisioned", "partial_failure"}

(* apps is pending_application_ids; err is last_error; app is the row of    *)
(* bastion_account_provisioning.  summed is history: the status has been    *)
(* computed and committed since the driver's last result was.               *)
Account == [who: People, user: 0..Foreign, status: AccountStatus, err: BOOLEAN,
            apps: BOOLEAN, app: AppStatus, summed: BOOLEAN]
NoAccount == [status |-> "absent"]

Local == [kind: {"none", "approve", "create", "retry", "app", "delete", "force"},
          req: AccessRequests \cup {"none"}, row: 0..MaxAccounts, who: People \cup {"none"},
          user: 0..Foreign, errs: BOOLEAN]
NoLocal == [kind |-> "none", req |-> "none", row |-> 0, who |-> "none",
            user |-> NoUser, errs |-> FALSE]

RequestRow == [status: {"none", "pending", "approved", "rejected"},
               who: People \cup {"none"}, row: 0..MaxAccounts]

AccTypeOK ==
    /\ requests \in [AccessRequests -> RequestRow]
    /\ accounts \in [Rows -> Account \cup {NoAccount}]
    /\ users \in [People -> 0..Foreign]
    /\ nextUser \in 1..Foreign
    /\ submit \in [Submitters -> People \cup {"none"}]
    /\ reject \in [Rejecters -> AccessRequests \cup {"none"}]
    /\ cpc \in [Coroutines -> {"idle", "company", "finding", "creating", "created",
                               "refused", "groups", "driver", "driver_new",
                               "unapp", "unuser"}]
    /\ cloc \in [Coroutines -> Local]
    /\ accFaults \in 0..MaxAccFaults
    /\ muddled \subseteq Rows

(* Somebody may be known to Keycloak from elsewhere.                        *)
AccInit ==
    /\ requests = [q \in AccessRequests |-> [status |-> "none", who |-> "none", row |-> 0]]
    /\ accounts = [r \in Rows |-> NoAccount]
    /\ \E known \in SUBSET People :
          users = [p \in People |-> IF p \in known THEN Foreign ELSE NoUser]
    /\ nextUser = 1
    /\ submit = [s \in Submitters |-> "none"]
    /\ reject = [j \in Rejecters |-> "none"]
    /\ cpc = [k \in Coroutines |-> "idle"]
    /\ cloc = [k \in Coroutines |-> NoLocal]
    /\ accFaults = 0
    /\ muddled = {}

-----------------------------------------------------------------------------
Exists(r) == accounts[r] # NoAccount
HasAccount(p) == \E r \in Rows : Exists(r) /\ accounts[r].who = p

(* SQLite gives out one above the largest id in use, also after a deletion. *)
NextRow == CHOOSE r \in Rows : /\ \A o \in Rows : Exists(o) => o < r
                               /\ r = 1 \/ Exists(r - 1)

(* provision_account_app flushes a new provisioning row before it awaits the *)
(* driver: it holds SQLite's write lock all that time.  A thread waits for  *)
(* it; a coroutine blocks the event loop, hence the holder, until SQLite    *)
(* gives up: its write fails.                                               *)
WriteLocked == \E k \in Coroutines : cpc[k] = "driver_new"
LockedFor(k) == \E o \in Coroutines \ {k} : cpc[o] = "driver_new"

Remote(k) == accFaults < MaxAccFaults /\ accFaults' = accFaults + 1

Leaves(k) == cpc' = [cpc EXCEPT ![k] = "idle"] /\ cloc' = [cloc EXCEPT ![k] = NoLocal]
GoesTo(k, pc) == cpc' = [cpc EXCEPT ![k] = pc] /\ UNCHANGED cloc
Enters(k, pc, loc) == cpc' = [cpc EXCEPT ![k] = pc] /\ cloc' = [cloc EXCEPT ![k] = loc]

(* The end of approve_access_request, in the same step as the end of the    *)
(* creation: whatever the request has become, it is approved.               *)
Approved(k) ==
    IF cloc[k].kind # "approve" \/ LockedFor(k) THEN requests
    ELSE [requests EXCEPT ![cloc[k].req].status = "approved",
                          ![cloc[k].req].row = cloc[k].row]

-----------------------------------------------------------------------------
(* submit_access_request: the checks, and later the insert.                 *)

PendingRequests == {q \in AccessRequests : requests[q].status = "pending"}
(* Mutant: the cap is compared the wrong way round its edge.                *)
UnderIpCapOffByOne == Cardinality(PendingRequests) <= MaxPendingPerIp

UnderIpCap == Cardinality(PendingRequests) < MaxPendingPerIp

SubmitChecks(s, p) ==
    /\ submit[s] = "none"
    /\ UnderIpCap
    /\ ~HasAccount(p)
    /\ \A q \in PendingRequests : requests[q].who # p
    /\ submit' = [submit EXCEPT ![s] = p]
    /\ UNCHANGED <<requests, accounts, users, nextUser, reject, cpc, cloc,
                   accFaults, muddled>>

SubmitInserts(s, q) ==
    /\ submit[s] # "none"
    /\ requests[q].status = "none"
    /\ ~WriteLocked
    /\ requests' = [requests EXCEPT ![q].status = "pending", ![q].who = submit[s]]
    /\ submit' = [submit EXCEPT ![s] = "none"]
    /\ UNCHANGED <<accounts, users, nextUser, reject, cpc, cloc, accFaults, muddled>>

(* reject_access_request, alone or from reject_access_requests_bulk.        *)
RejectReads(j, q) ==
    /\ reject[j] = "none"
    /\ requests[q].status = "pending"
    /\ reject' = [reject EXCEPT ![j] = q]
    /\ UNCHANGED <<requests, accounts, users, nextUser, submit, cpc, cloc,
                   accFaults, muddled>>

RejectCommits(j) ==
    /\ reject[j] # "none"
    /\ ~WriteLocked
    /\ requests' = [requests EXCEPT ![reject[j]].status = "rejected"]
    /\ reject' = [reject EXCEPT ![j] = "none"]
    /\ UNCHANGED <<accounts, users, nextUser, submit, cpc, cloc, accFaults, muddled>>

-----------------------------------------------------------------------------
(* create_bastion_account, from the approval of a request or from the       *)
(* administrator's form: refused if there is an account; then the group of  *)
(* the organisation is looked up or created in Keycloak.                    *)

ApproveBegins(k, q) ==
    /\ cpc[k] = "idle"
    /\ requests[q].status = "pending"
    /\ ~HasAccount(requests[q].who)
    /\ Enters(k, "company", [NoLocal EXCEPT !.kind = "approve", !.req = q,
                                            !.who = requests[q].who])
    /\ UNCHANGED <<requests, accounts, users, nextUser, submit, reject, accFaults, muddled>>

CreateBegins(k, p) ==
    /\ cpc[k] = "idle"
    /\ ~HasAccount(p)
    /\ Enters(k, "company", [NoLocal EXCEPT !.kind = "create", !.who = p])
    /\ UNCHANGED <<requests, accounts, users, nextUser, submit, reject, accFaults, muddled>>

(* The group fails, the row is refused by the unique constraint, or the     *)
(* database is locked: nothing has happened, a request stays pending.       *)
CompanyFails(k) ==
    /\ cpc[k] = "company"
    /\ \/ Remote(k)
       \/ (HasAccount(cloc[k].who) \/ LockedFor(k)) /\ UNCHANGED accFaults
    /\ Leaves(k)
    /\ UNCHANGED <<requests, accounts, users, nextUser, submit, reject, muddled>>

(* Only the form has applications to choose.                                *)
AccountInserts(k) ==
    /\ cpc[k] = "company"
    /\ ~HasAccount(cloc[k].who) /\ ~LockedFor(k)
    /\ ~Exists(MaxAccounts)
    /\ \E apps \in IF cloc[k].kind = "create" THEN BOOLEAN ELSE {FALSE} :
          accounts' = [accounts EXCEPT ![NextRow] =
              [who |-> cloc[k].who, user |-> NoUser, status |-> "pending",
               err |-> FALSE, apps |-> apps, app |-> "none", summed |-> TRUE]]
    /\ Enters(k, "finding", [cloc[k] EXCEPT !.row = NextRow])
    /\ muddled' = IF \E o \in Coroutines \ {k} : cloc[o].row = NextRow
                 THEN muddled \cup {NextRow} ELSE muddled
    /\ UNCHANGED <<requests, users, nextUser, submit, reject, accFaults>>

(* retry_bastion_account_keycloak.                                          *)
RetryBegins(k, r) ==
    /\ cpc[k] = "idle"
    /\ Exists(r) /\ accounts[r].user = NoUser
    /\ Enters(k, "finding", [NoLocal EXCEPT !.kind = "retry", !.row = r,
                                            !.who = accounts[r].who,
                                            !.errs = accounts[r].err])
    /\ UNCHANGED <<requests, accounts, users, nextUser, submit, reject, accFaults, muddled>>

-----------------------------------------------------------------------------
(* push_keycloak_user_and_continue.                                         *)

(* Mutant: the status is written in any case.                               *)
NotedPending(k) ==
    IF Exists(cloc[k].row) /\ ~LockedFor(k)
    THEN [accounts EXCEPT ![cloc[k].row].err = TRUE, ![cloc[k].row].status = "pending"]
    ELSE accounts

(* _record_keycloak_failure, then the end.  The ORM writes what has changed *)
(* since it was loaded: last_error, not the status that was pending.        *)
Noted(k) ==
    IF Exists(cloc[k].row) /\ ~LockedFor(k)
    THEN [accounts EXCEPT ![cloc[k].row].err = TRUE] ELSE accounts

(* Mutant: the request is approved whatever has become of the account.      *)
NotesFailureAnyway(k) ==
    /\ accounts' = Noted(k)
    /\ requests' = Approved(k)
    /\ Leaves(k)

(* A row that has disappeared ends the route before the request is decided. *)
NotesFailure(k) ==
    /\ accounts' = Noted(k)
    /\ requests' = IF Exists(cloc[k].row) THEN Approved(k) ELSE requests
    /\ Leaves(k)

(* find_keycloak_user_exact.  An answer other than 200 is recorded; a broken *)
(* connection is not caught: the route ends there.                          *)
FindAnswers(k) ==
    /\ cpc[k] = "finding"
    /\ \/ /\ users[cloc[k].who] = NoUser
          /\ GoesTo(k, "creating")
          /\ UNCHANGED <<requests, accounts, accFaults>>
       \/ /\ users[cloc[k].who] # NoUser
          /\ NotesFailure(k) /\ UNCHANGED accFaults
       \/ NotesFailure(k) /\ Remote(k)
       \/ Leaves(k) /\ Remote(k) /\ UNCHANGED <<requests, accounts>>
    /\ UNCHANGED <<users, nextUser, submit, reject, muddled>>

(* create_keycloak_user: Keycloak's part ...                                *)
KeycloakCreates(k) ==
    /\ cpc[k] = "creating"
    /\ IF users[cloc[k].who] = NoUser
       THEN /\ nextUser <= MaxUsers
            /\ users' = [users EXCEPT ![cloc[k].who] = nextUser]
            /\ nextUser' = nextUser + 1
            /\ Enters(k, "created", [cloc[k] EXCEPT !.user = nextUser])
       ELSE GoesTo(k, "refused") /\ UNCHANGED <<users, nextUser>>
    /\ UNCHANGED <<requests, accounts, submit, reject, accFaults, muddled>>

(* ... the failure, also of a creation whose answer is lost ...             *)
CreateFails(k) ==
    /\ \/ cpc[k] = "refused" /\ UNCHANGED accFaults
       \/ cpc[k] \in {"creating", "created"} /\ Remote(k)
    /\ NotesFailure(k)
    /\ UNCHANGED <<users, nextUser, submit, reject, muddled>>

(* ... and the answer.  If the write is lost the account has no id, which   *)
(* an assertion then trips over.                                            *)
UserRecorded(k) ==
    /\ cpc[k] = "created"
    /\ IF Exists(cloc[k].row) /\ ~LockedFor(k)
       THEN /\ accounts' = [accounts EXCEPT
                  ![cloc[k].row] = [accounts[cloc[k].row] EXCEPT
                      !.user = cloc[k].user, !.status = "keycloak_created",
                      !.err = @ /\ ~cloc[k].errs]]
            /\ muddled' = IF accounts[cloc[k].row].user = NoUser THEN muddled
                          ELSE muddled \cup {cloc[k].row}
            /\ GoesTo(k, "groups")
       ELSE Leaves(k) /\ UNCHANGED <<accounts, muddled>>
    /\ UNCHANGED <<requests, users, nextUser, submit, reject, accFaults>>

(* update_aggregate_status.                                                 *)
Aggregate(a) ==
    IF a.user = NoUser THEN "pending"
    ELSE IF a.app = "failed" THEN "partial_failure"
    ELSE IF a.app = "success" THEN "provisioned"
    ELSE "keycloak_created"
Aggregated(a) == [a EXCEPT !.status = Aggregate(a), !.summed = TRUE]

(* provision_account_app up to the await, on an account that has a user.    *)
CallsDriver(k, loc) ==
    IF accounts[loc.row].app # "none" THEN Enters(k, "driver", loc)
    ELSE IF LockedFor(k) THEN Leaves(k)
    ELSE Enters(k, "driver_new", loc)

(* The groups are assigned, or some are not; then the applications.         *)
GroupsAssigned(k) ==
    /\ cpc[k] = "groups"
    /\ LET r == cloc[k].row IN
       IF ~Exists(r) THEN Leaves(k) /\ UNCHANGED <<requests, accounts, accFaults>>
       ELSE /\ \/ UNCHANGED <<accounts, accFaults>>
               \/ Remote(k) /\ accounts' = [accounts EXCEPT ![r].err = @ \/ ~LockedFor(k)]
            /\ IF accounts[r].apps
               THEN CallsDriver(k, cloc[k]) /\ UNCHANGED requests
               ELSE Leaves(k) /\ requests' = Approved(k)
    /\ UNCHANGED <<users, nextUser, submit, reject, muddled>>

(* The routes that provision an application: without a Keycloak user this   *)
(* is a failure of its own.                                                 *)
ProvisionBegins(k, r) ==
    /\ cpc[k] = "idle"
    /\ Exists(r)
    /\ IF accounts[r].user = NoUser
       THEN /\ ~LockedFor(k)
            /\ accounts' = [accounts EXCEPT ![r].app = "failed"]
            /\ UNCHANGED <<cpc, cloc>>
       ELSE /\ CallsDriver(k, [NoLocal EXCEPT !.kind = "app", !.row = r,
                                              !.who = accounts[r].who])
            /\ UNCHANGED accounts
    /\ UNCHANGED <<requests, users, nextUser, submit, reject, accFaults, muddled>>

(* _finish: log_action commits the driver's result with its audit entry and *)
(* swallows a failure; the aggregate is computed and committed after it.    *)
(* Either commit may be lost, the second also by a crash.                   *)
Finished(a, result, recorded, summed) ==
    LET row == IF recorded THEN [a EXCEPT !.app = result, !.summed = FALSE] ELSE a
    IN IF summed THEN Aggregated(row) ELSE row

(* The driver answers, or crashes.                                          *)
DriverAnswers(k) ==
    /\ cpc[k] \in {"driver", "driver_new"}
    /\ \E result \in {"success", "failed"}, recorded, summed \in BOOLEAN :
         /\ IF result = "success" /\ recorded /\ summed
            THEN UNCHANGED accFaults ELSE Remote(k)
         /\ accounts' = IF Exists(cloc[k].row) /\ ~LockedFor(k)
                        THEN [accounts EXCEPT ![cloc[k].row] =
                                 Finished(@, result, recorded, summed)]
                        ELSE accounts
    /\ Leaves(k)
    /\ UNCHANGED <<requests, users, nextUser, submit, reject, muddled>>

-----------------------------------------------------------------------------
(* delete_bastion_account: application, Keycloak user, row.                 *)

(* The end: with errors the row is kept and says so, unless forced.         *)
Forgotten(k, r, errs, forced) ==
    IF ~Exists(r) \/ LockedFor(k) THEN accounts
    ELSE IF errs /\ ~forced THEN [accounts EXCEPT ![r].err = TRUE]
    ELSE [accounts EXCEPT ![r] = NoAccount]

(* Nothing remote to delete: nothing is awaited.                            *)
DeleteBegins(k, r, forced) ==
    /\ cpc[k] = "idle"
    /\ Exists(r)
    /\ LET loc == [NoLocal EXCEPT !.kind = IF forced THEN "force" ELSE "delete",
                                  !.row = r, !.who = accounts[r].who,
                                  !.user = accounts[r].user]
       IN IF accounts[r].app # "none"
          THEN Enters(k, "unapp", loc) /\ UNCHANGED accounts
          ELSE IF accounts[r].user # NoUser
          THEN Enters(k, "unuser", loc) /\ UNCHANGED accounts
          ELSE accounts' = Forgotten(k, r, FALSE, forced) /\ UNCHANGED <<cpc, cloc>>
    /\ UNCHANGED <<requests, users, nextUser, submit, reject, accFaults, muddled>>

(* Mutant: the Keycloak id is the one read before the driver was awaited.   *)
AppDeletedStale(k) ==
    /\ cpc[k] = "unapp"
    /\ \E errs \in BOOLEAN :
         /\ IF errs THEN Remote(k) ELSE UNCHANGED accFaults
         /\ IF Exists(cloc[k].row) /\ cloc[k].user # NoUser
            THEN /\ Enters(k, "unuser", [cloc[k] EXCEPT !.errs = errs])
                 /\ UNCHANGED accounts
            ELSE /\ accounts' = Forgotten(k, cloc[k].row, errs, cloc[k].kind = "force")
                 /\ Leaves(k)
    /\ UNCHANGED <<requests, users, nextUser, submit, reject, muddled>>

(* The audit commits, so the account is read again before step 2.           *)
AppDeleted(k) ==
    /\ cpc[k] = "unapp"
    /\ \E errs \in BOOLEAN :
         /\ IF errs THEN Remote(k) ELSE UNCHANGED accFaults
         /\ LET r == cloc[k].row IN
            IF Exists(r) /\ accounts[r].user # NoUser
            THEN /\ Enters(k, "unuser", [cloc[k] EXCEPT !.errs = errs,
                                                        !.user = accounts[r].user])
                 /\ UNCHANGED accounts
            ELSE /\ accounts' = Forgotten(k, r, errs, cloc[k].kind = "force")
                 /\ Leaves(k)
    /\ UNCHANGED <<requests, users, nextUser, submit, reject, muddled>>

(* delete_keycloak_user: deleted or already absent, refused, or deleted and *)
(* the answer lost.                                                         *)
UserDeleted(k) ==
    /\ cpc[k] = "unuser"
    /\ \E refused, lost \in BOOLEAN :
         LET errs == cloc[k].errs \/ refused \/ lost IN
         /\ IF refused \/ lost THEN Remote(k) ELSE UNCHANGED accFaults
         /\ users' = IF refused THEN users
                     ELSE [p \in People |-> IF users[p] = cloc[k].user THEN NoUser
                                            ELSE users[p]]
         /\ accounts' = Forgotten(k, cloc[k].row, errs, cloc[k].kind = "force")
    /\ Leaves(k)
    /\ UNCHANGED <<requests, nextUser, submit, reject, muddled>>

(* The process restarts: threads, coroutines and locks are gone.            *)
PortalRestarts ==
    /\ accFaults < MaxAccFaults /\ accFaults' = accFaults + 1
    /\ submit' = [s \in Submitters |-> "none"]
    /\ reject' = [j \in Rejecters |-> "none"]
    /\ cpc' = [k \in Coroutines |-> "idle"]
    /\ cloc' = [k \in Coroutines |-> NoLocal]
    /\ UNCHANGED <<requests, accounts, users, nextUser, muddled>>

-----------------------------------------------------------------------------
PublicForm(s) ==
    \/ \E p \in People : SubmitChecks(s, p)
    \/ \E q \in AccessRequests : SubmitInserts(s, q)

Rejection(j) == RejectCommits(j) \/ \E q \in AccessRequests : RejectReads(j, q)

RouteBegins(k) ==
    \/ \E q \in AccessRequests : ApproveBegins(k, q)
    \/ \E p \in People : CreateBegins(k, p)
    \/ \E r \in Rows : RetryBegins(k, r) \/ ProvisionBegins(k, r)
    \/ \E r \in Rows, forced \in BOOLEAN : DeleteBegins(k, r, forced)

RouteResumes(k) ==
    \/ CompanyFails(k) \/ AccountInserts(k)
    \/ FindAnswers(k) \/ KeycloakCreates(k) \/ CreateFails(k) \/ UserRecorded(k)
    \/ GroupsAssigned(k) \/ DriverAnswers(k)
    \/ AppDeleted(k) \/ UserDeleted(k)

AccNext ==
    \/ \E s \in Submitters : PublicForm(s)
    \/ \E j \in Rejecters : Rejection(j)
    \/ \E k \in Coroutines : RouteBegins(k) \/ RouteResumes(k)
    \/ PortalRestarts

AccSpec == AccInit /\ [][AccNext]_accVars

-----------------------------------------------------------------------------
(* Properties.                                                              *)

(* _MAX_PENDING_PER_IP is checked before the insert, in another statement:  *)
(* the pending requests of one address exceed it by at most one per other   *)
(* thread of the form.                                                      *)
PendingBound ==
    Cardinality(PendingRequests) <= MaxPendingPerIp + Cardinality(Submitters) - 1

(* update_aggregate_status is "honest by construction" and "never masks a   *)
(* failure", whatever was retried in parallel, lost or deleted: an account  *)
(* is pending exactly while no Keycloak id is recorded, and provisioned     *)
(* only if its application is, unless the commit of the aggregate that      *)
(* follows the commit of the driver's result was lost.                      *)
StatusHonest ==
    \A r \in Rows : Exists(r) =>
        /\ accounts[r].status = "pending" <=> accounts[r].user = NoUser
        /\ accounts[r].status = "provisioned" /\ accounts[r].summed =>
              accounts[r].app = "success"

(* delete_bastion_account: "never a silent partial delete".  A row that     *)
(* goes without being forced does not leave behind the Keycloak user that   *)
(* it records, unless what the row stands for has changed under a coroutine. *)
NoPartialDelete ==
    [][\A r \in Rows :
        (Exists(r) /\ ~Exists(r)' /\ r \notin muddled /\ accounts[r].user # NoUser
           /\ \A k \in Coroutines : cpc'[k] # cpc[k] => cloc[k].kind = "delete")
        => \A p \in People : users'[p] # accounts[r].user]_accVars

(* approve_access_request: a request that becomes approved names an account *)
(* that exists at that moment, although it was created many awaits earlier. *)
ApprovedOnAccount ==
    [][\A q \in AccessRequests :
        (requests[q].status # "approved" /\ requests'[q].status = "approved")
        => accounts'[requests'[q].row] # NoAccount]_accVars

(* "Demande deja {status}", "Reject only pending requests": a request that  *)
(* has been decided stays as it was decided.                                *)
DecidedOnce ==
    [][\A q \in AccessRequests :
        requests[q].status \in {"approved", "rejected"}
        => requests'[q].status = requests[q].status]_accVars

(* create_bastion_account: "the account row always reflects the exact stage *)
(* reached".  A row that nobody works on and that reports no error has no   *)
(* Keycloak user it does not know of.                                       *)
ExactStage ==
    \A r \in Rows :
        (Exists(r) /\ accounts[r].user = NoUser /\ ~accounts[r].err
           /\ \A k \in Coroutines : cloc[k].who # accounts[r].who)
        => users[accounts[r].who] \in {NoUser, Foreign}
=============================================================================
