------------------------------ MODULE Credentials ------------------------------
(***************************************************************************)
(* The passwords the portal keeps for its users at one application with a  *)
(* provisioning driver (vault/user_app_credential_service.py), and those   *)
(* the application accepts: provisioning, an administrator's override, its *)
(* removal, and the renewal of the stale ones                              *)
(* (rbac/app_credential_renewal_service.py).  No transaction spans vault   *)
(* and application: the application's answer is awaited between them.      *)
(*                                                                         *)
(* Encryption is configured and the application enabled; every holder has  *)
(* a Bastion account.  Of the passwords themselves only matters which of   *)
(* them are the same: those the vault and the application hold, and those  *)
(* on their way.                                                           *)
(***************************************************************************)
EXTENDS Naturals, Sequences, FiniteSets, SequencesExt, FiniteSetsExt

CONSTANTS
    Clients,        \* Keycloak users with an account at the application
    RenewalRuns,    \* renewals: the hourly job, and those an administrator forces
    HourlyRun,      \* the scheduled one (max_instances=1)
    Savers,         \* routes saving an override
    Provisioners,   \* routes provisioning the application
    RenewalBatch,   \* app_credential_batch_size
    MaxCredFaults   \* bound on refusals, lost answers and restarts

ASSUME CredentialsAssumption ==
    /\ HourlyRun \in RenewalRuns
    /\ RenewalBatch \in Nat \ {0}
    /\ MaxCredFaults \in Nat
    /\ Savers \cap (RenewalRuns \cup Provisioners) = {}
    /\ {"vault", "application"} \cap (RenewalRuns \cup Savers \cup Provisioners) = {}

VARIABLES
    alike,       \* each client's passwords, the places with the same one together:
                 \* the vault (user_app_credentials), the application (external),
                 \* the coroutines
    byAge,       \* the clients with a row, by rotated_at or created_at, oldest first
    nStale,      \* how many of them are older than max_age_days
    provisioned, \* clients with a committed bastion_account_provisionings row
    inUse,       \* clients whose account is not disabled
    renewalOn,   \* app_credential_renewal_enabled
    pushes,      \* each coroutine: whose password it gives the application
    todo,        \* each renewal: the credentials still to come
    expired,     \* each renewal: a commit has expired the rows it loaded
    credFaults,
    settled      \* history: clients whose last write reached both sides, with
                 \* no other one at the same time

credVars == <<alike, byAge, nStale, provisioned, inUse, renewalOn,
              pushes, todo, expired, credFaults, settled>>

Pushers == RenewalRuns \cup Savers \cup Provisioners
Places == Pushers \cup {"vault", "application"}
AtRest == [pc |-> "idle"]
Push == [pc: {"sent", "taken"}, who: Clients, alone: BOOLEAN]

Without(same, x) == {K \ {x} : K \in same} \ {{}}
Anew(same, x) == Without(same, x) \cup {{x}}
Copied(same, x, y) == {IF x \in K THEN K \cup {y} ELSE K : K \in Without(same, y)}

CredTypeOK ==
    /\ \A u \in Clients :
          /\ UNION alike[u] \subseteq Places /\ {} \notin alike[u]
          /\ \A K, L \in alike[u] : K = L \/ K \cap L = {}
          /\ \A c \in Pushers : c \in UNION alike[u] <=> pushes[c] # AtRest /\ pushes[c].who = u
    /\ IsInjective(byAge) /\ ToSet(byAge) = {u \in Clients : "vault" \in UNION alike[u]}
    /\ nStale \in 0..Len(byAge)
    /\ provisioned \subseteq Clients /\ inUse \subseteq Clients
    /\ renewalOn \in BOOLEAN
    /\ pushes \in [Pushers -> Push \cup {AtRest}]
    /\ \A r \in RenewalRuns : /\ IsInjective(todo[r]) /\ ToSet(todo[r]) \subseteq Clients
                              /\ expired[r] \in BOOLEAN
    /\ credFaults \in 0..MaxCredFaults
    /\ settled \subseteq Clients

CredInit ==
    /\ provisioned \in SUBSET Clients
    /\ alike = [u \in Clients |-> IF u \in provisioned THEN {{"vault", "application"}}
                                 ELSE {}]
    /\ byAge \in SetToAllKPermutations(Clients) /\ ToSet(byAge) = provisioned
    /\ nStale = 0
    /\ inUse = Clients
    /\ renewalOn = TRUE
    /\ pushes = [c \in Pushers |-> AtRest]
    /\ todo = [r \in RenewalRuns |-> <<>>]
    /\ expired = [r \in RenewalRuns |-> FALSE]
    /\ credFaults = 0
    /\ settled = Clients

-----------------------------------------------------------------------------
HasRow == ToSet(byAge)
Idles(c) == pushes[c] = AtRest
Others(c, u) == {d \in Pushers \ {c} : ~Idles(d) /\ pushes[d].who = u}
CredFault == credFaults < MaxCredFaults /\ credFaults' = credFaults + 1

(* provision_account_app flushes a new row and then awaits the driver: it   *)
(* holds SQLite's write lock, and another commit gives up.                  *)
LockedOut(c) ==
    \E d \in Provisioners \ {c} : ~Idles(d) /\ pushes[d].who \notin provisioned

(* A write on u while somebody else is at it: neither is alone any more.    *)
Disturbed(c, u) ==
    [d \in Pushers |-> IF d \in Others(c, u) THEN [pushes[d] EXCEPT !.alone = FALSE]
                       ELSE pushes[d]]
Sending(c, u) ==
    [Disturbed(c, u) EXCEPT ![c] = [pc |-> "sent", who |-> u, alone |-> Others(c, u) = {}]]
Undisturbed(kept, c, u) == IF Others(c, u) = {} THEN kept ELSE kept \ {u}

(* Mutant: the answer is not looked at before the password is stored.       *)
DroppedUnread(c) == [alike EXCEPT ![pushes[c].who] = Without(Copied(@, c, "vault"), c)]

(* c is done: nobody knows its password but where it was put.             *)
Done(c) == pushes' = [pushes EXCEPT ![c] = AtRest]
Dropped(c) == [alike EXCEPT ![pushes[c].who] = Without(@, c)]
Vaulted(c) == [alike EXCEPT ![pushes[c].who] = Without(Copied(@, c, "vault"), c)]

(* The row of u is no longer where it was in the order of age.              *)
Aged(u) == u \in ToSet(SubSeq(byAge, 1, nStale))
Rejuvenated(u) ==                     \* set_user_credential: rotated_at is now
    /\ byAge' = Append(Remove(byAge, u), u)
    /\ nStale' = IF Aged(u) THEN nStale - 1 ELSE nStale

-----------------------------------------------------------------------------
(* Renewal.                                                                *)

(* Mutant: the sort is reversed.                                            *)
NewestBatch == SubSeq(byAge, nStale + 1 - Min({nStale, RenewalBatch}), nStale)

(* _list_stale_credentials: the oldest first, at most one batch.           *)
StaleBatch == SubSeq(byAge, 1, Min({nStale, RenewalBatch}))

(* The run goes through `rest` up to the first password it pushes; it skips *)
(* clients whose account is disabled (_bastion_account_for_cred).  A row    *)
(* that was removed after it was loaded ends the run, when a commit has     *)
(* expired it: reading it again raises, also in the handler of the loop.    *)
RenewalEnds(r, known, kept) ==
    /\ Done(r) /\ alike' = known
    /\ todo' = [todo EXCEPT ![r] = <<>>]
    /\ expired' = [expired EXCEPT ![r] = FALSE]
    /\ settled' = kept

RenewalGoesOn(r, rest, rows, reload, known, kept) ==
    LET stops == {i \in DOMAIN rest : rest[i] \in inUse \/ (reload /\ rest[i] \notin rows)}
        i == Min(stops)
    IN IF stops = {} \/ (reload /\ rest[i] \notin rows) THEN RenewalEnds(r, known, kept)
       ELSE /\ pushes' = Sending(r, rest[i])
            /\ alike' = [known EXCEPT ![rest[i]] = Anew(@, r)]
            /\ todo' = [todo EXCEPT ![r] = SubSeq(rest, i + 1, Len(rest))]
            /\ expired' = [expired EXCEPT ![r] = reload]
            /\ settled' = Undisturbed(kept, r, rest[i])

RenewalBegins(r) ==
    /\ Idles(r) /\ nStale > 0
    /\ r = HourlyRun => renewalOn
    /\ RenewalGoesOn(r, StaleBatch, HasRow, FALSE, alike, settled)
    /\ UNCHANGED <<byAge, nStale, provisioned, inUse, renewalOn, credFaults>>

(* renew_one_credential stores what the application took.  A row that was   *)
(* removed meanwhile is made again; the loaded one cannot be read any more, *)
(* unless the new row has its identifier.                                   *)
RenewalStores(r) ==
    LET u == pushes[r].who
        kept == IF pushes[r].alone THEN settled \cup {u} ELSE settled
    IN /\ ~LockedOut(r)
       /\ Rejuvenated(u)
       /\ \/ RenewalGoesOn(r, todo[r], HasRow \cup {u}, TRUE, Vaulted(r), kept)
          \/ u \notin HasRow /\ RenewalEnds(r, Vaulted(r), kept)

RenewalCannotStore(r) ==
    /\ LockedOut(r)
    /\ RenewalEnds(r, Dropped(r), settled \ {pushes[r].who})
    /\ UNCHANGED <<byAge, nStale>>

-----------------------------------------------------------------------------
(* Administration.                                                         *)

(* admin_user_app_credential_save: the override is stored, then pushed by   *)
(* sync_vault_credential_to_app.                                            *)
SaveOverride(c, u) ==
    /\ Idles(c) /\ ~LockedOut(c)
    /\ Rejuvenated(u)
    /\ alike' = [alike EXCEPT ![u] = Copied(Anew(@, c), c, "vault")]
    /\ pushes' = Sending(c, u)
    /\ settled' = settled \ {u}
    /\ UNCHANGED <<provisioned, inUse, renewalOn, todo, expired, credFaults>>

(* delete_user_credential, in a thread of its own: it waits for the lock.   *)
DeleteOverride(u) ==
    /\ u \in HasRow
    /\ \A c \in Provisioners : ~Idles(c) => pushes[c].who \in provisioned
    /\ alike' = [alike EXCEPT ![u] = Without(@, "vault")]
    /\ byAge' = Remove(byAge, u)
    /\ nStale' = IF Aged(u) THEN nStale - 1 ELSE nStale
    /\ pushes' = [c \in Pushers |-> IF Idles(c) \/ pushes[c].who # u THEN pushes[c]
                                    ELSE [pushes[c] EXCEPT !.alone = FALSE]]
    /\ settled' = settled \ {u}
    /\ UNCHANGED <<provisioned, inUse, renewalOn, todo, expired, credFaults>>

(* provision_account_app, the first time or again.                         *)
PushBegins(c, u) ==
    /\ Idles(c) /\ (u \in provisioned \/ ~LockedOut(c))
    /\ pushes' = Sending(c, u)
    /\ alike' = [alike EXCEPT ![u] = Anew(@, c)]
    /\ settled' = Undisturbed(settled, c, u)
    /\ UNCHANGED <<byAge, nStale, provisioned, inUse, renewalOn,
                   todo, expired, credFaults>>

(* update_app_credential_renewal_settings; the account is disabled, or not  *)
(* any more.                                                                *)
SwitchRenewal ==
    /\ renewalOn' = ~renewalOn
    /\ UNCHANGED <<alike, byAge, nStale, provisioned, inUse, pushes, todo,
                   expired, credFaults, settled>>

SwitchAccount(u) ==
    /\ inUse' = IF u \in inUse THEN inUse \ {u} ELSE inUse \cup {u}
    /\ UNCHANGED <<alike, byAge, nStale, provisioned, renewalOn, pushes, todo,
                   expired, credFaults, settled>>

-----------------------------------------------------------------------------
(* The application (driver.create_account) and its answer.                 *)

ApplicationTakes(c) ==
    /\ ~Idles(c) /\ pushes[c].pc = "sent"
    /\ alike' = [alike EXCEPT ![pushes[c].who] = Copied(@, c, "application")]
    /\ pushes' = [pushes EXCEPT ![c].pc = "taken"]
    /\ UNCHANGED <<byAge, nStale, provisioned, inUse, renewalOn, todo, expired, credFaults,
                   settled>>

(* A success, with credential_pushed.  A provisioning whose row is new      *)
(* commits it together with the credential.                                 *)
Success(c) ==
    LET u == pushes[c].who
        kept == IF pushes[c].alone THEN settled \cup {u} ELSE settled
    IN /\ ~Idles(c) /\ pushes[c].pc = "taken"
       /\ \/ /\ c \in RenewalRuns
             /\ RenewalStores(c) \/ RenewalCannotStore(c)
             /\ UNCHANGED provisioned
          \/ /\ c \in Savers
             /\ Done(c) /\ alike' = Dropped(c) /\ settled' = kept
             /\ UNCHANGED <<byAge, nStale, provisioned, todo, expired>>
          \/ /\ c \in Provisioners /\ ~LockedOut(c)
             /\ Rejuvenated(u) /\ provisioned' = provisioned \cup {u}
             /\ Done(c) /\ alike' = Vaulted(c) /\ settled' = kept
             /\ UNCHANGED <<todo, expired>>
          \/ /\ c \in Provisioners /\ LockedOut(c)
             /\ Done(c) /\ alike' = Dropped(c) /\ settled' = settled \ {u}
             /\ UNCHANGED <<byAge, nStale, provisioned, todo, expired>>
       /\ UNCHANGED <<inUse, renewalOn, credFaults>>

(* A failure, or an exception: the vault is left alone.  The application    *)
(* has refused the password, or taken it and its answer is lost.  The audit *)
(* of a reported failure is a commit, that of an exception is not made.     *)
Failure(c) ==
    LET u == pushes[c].who
        kept == IF pushes[c].pc = "taken" THEN settled \ {u} ELSE settled
    IN /\ ~Idles(c) /\ CredFault
       /\ \/ /\ c \in RenewalRuns
             /\ \E reload \in {expired[c], TRUE} :
                   RenewalGoesOn(c, todo[c], HasRow, reload, Dropped(c), kept)
             /\ UNCHANGED provisioned
          \/ /\ c \in Savers
             /\ Done(c) /\ alike' = Dropped(c) /\ settled' = kept
             /\ UNCHANGED <<provisioned, todo, expired>>
          \/ /\ c \in Provisioners
             /\ provisioned' = IF LockedOut(c) THEN provisioned ELSE provisioned \cup {u}
             /\ Done(c) /\ alike' = Dropped(c) /\ settled' = kept
             /\ UNCHANGED <<todo, expired>>
       /\ UNCHANGED <<byAge, nStale, inUse, renewalOn>>

(* The process restarts; what is not committed is gone.                    *)
Restart ==
    /\ \E c \in Pushers : ~Idles(c)
    /\ CredFault
    /\ settled' = {u \in settled :
                     \A c \in Pushers : ~(pushes[c].pc = "taken" /\ pushes[c].who = u)}
    /\ alike' = [u \in Clients |-> {K \ Pushers : K \in alike[u]} \ {{}}]
    /\ pushes' = [c \in Pushers |-> AtRest]
    /\ todo' = [r \in RenewalRuns |-> <<>>]
    /\ expired' = [r \in RenewalRuns |-> FALSE]
    /\ UNCHANGED <<byAge, nStale, provisioned, inUse, renewalOn>>

(* The next credential passes max_age_days.                                *)
CredentialAges ==
    /\ nStale < Len(byAge)
    /\ nStale' = nStale + 1
    /\ UNCHANGED <<alike, byAge, provisioned, inUse, renewalOn, pushes, todo,
                   expired, credFaults, settled>>

-----------------------------------------------------------------------------
CredNext ==
    \/ \E r \in RenewalRuns : RenewalBegins(r)
    \/ \E c \in Pushers : ApplicationTakes(c) \/ Success(c) \/ Failure(c)
    \/ \E u \in Clients : \/ \E c \in Savers : SaveOverride(c, u)
                          \/ \E c \in Provisioners : PushBegins(c, u)
                          \/ DeleteOverride(u)
                          \/ SwitchAccount(u)
    \/ SwitchRenewal \/ Restart \/ CredentialAges

(* The scheduler runs the job every hour; an answer or a timeout comes.     *)
CredFairness ==
    /\ WF_credVars(RenewalBegins(HourlyRun))
    /\ \A c \in Pushers : WF_credVars(ApplicationTakes(c) \/ Success(c))

CredSpec == CredInit /\ [][CredNext]_credVars /\ CredFairness

-----------------------------------------------------------------------------
(* Properties.                                                             *)

(* "push new password to the app first, then store in the vault": whatever  *)
(* failed, was refused or skipped, once nobody is at work on a client whose *)
(* last successful write was not overtaken by another, the vault holds the  *)
(* password that opens the application, also after they had diverged.       *)
VaultOpensApp ==
    \A u \in settled :
        (\A c \in Pushers : Idles(c) \/ pushes[c].who # u)
            => \A K \in alike[u] : {"vault", "application"} \subseteq K

(* "Gradual auto-renewal": the oldest credentials come first, so none stays *)
(* stale for ever while others age again and again.  That holds while fewer *)
(* clients are disabled than a batch has places: they are never renewed and *)
(* keep theirs at the head of the list.                                     *)
StaleRenewed ==
    \A u \in Clients :
        <>[](renewalOn /\ u \in inUse /\ Cardinality(Clients \ inUse) < RenewalBatch)
            => []<>~Aged(u)
=============================================================================
