--------------------------- MODULE AccountLifecycle ---------------------------
(***************************************************************************)
(* The daily account lifecycle (app/rbac/account_lifecycle_service.py):    *)
(* accounts that nobody uses are warned and then disabled, old passwords   *)
(* have to be changed.  The flags that count are those of the Keycloak     *)
(* user, which update_keycloak_user reads, merges and writes back.         *)
(*                                                                         *)
(* Time is in days.  Accounts are numbered as the job visits them.  An     *)
(* account has a realm and a Keycloak user, SMTP is configured and the     *)
(* lifecycle is enabled: otherwise the job does nothing.                   *)
(***************************************************************************)
EXTENDS Naturals, FiniteSets

CONSTANTS
    NAccounts,
    Runs,            \* the scheduled job, and runs an administrator starts
    Editors,         \* routes editing an account's identity
    InactivityDays,  \* account_inactivity_days
    WarnDays,        \* account_inactivity_warn_days
    PasswordMaxAge,  \* account_password_max_age_days, 0 for no limit
    PasswordWarn,    \* account_password_warn_days
    MaxDay,          \* bound on time
    MaxTroubles      \* bound on failing calls and mails, missed runs, restarts,
                     \* identity edits and interventions in Keycloak's console

ASSUME LifecycleAssumption ==
    /\ NAccounts \in Nat \ {0}
    /\ InactivityDays \in Nat \ {0}
    /\ WarnDays \subseteq 1..(InactivityDays - 1)
    /\ PasswordMaxAge \in Nat /\ PasswordWarn \in Nat
    /\ MaxDay \in Nat \ {0} /\ MaxTroubles \in Nat

VARIABLES
    today,
    account,    \* bastion_accounts: the lifecycle columns
    keycloak,   \* the users: enabled, UPDATE_PASSWORD required
    signingIn,  \* accounts authenticated by Keycloak, not yet recorded here
    runs,       \* each run: where it is, the account, what it holds
    edits,      \* each editor: the account and the user it has read
    ranToday,   \* the scheduled run of today has ended
    troubles,
    passwordSet, \* history: when the user last changed the password
    warned,      \* history: accounts warned since their last login
    undone       \* history: users whose flags were written back by somebody who
                 \* had read them before the job's write, or set in the console

lcHistory == <<passwordSet, warned, undone>>
lcVars == <<today, account, keycloak, signingIn, runs, edits, ranToday, troubles,
            lcHistory>>

AccountIds == 1..NAccounts
NoStage == 0                      \* last_inactivity_warn_stage is NULL
Never == 0                        \* last_password_warn_at is NULL; day 0 is past
LcRow == [seen: 0..MaxDay, disabled: BOOLEAN, stage: {NoStage} \cup WarnDays,
        pwWarned: 0..MaxDay]
User == [enabled: BOOLEAN, change: BOOLEAN]
RunRow == [pc: {"idle", "next", "disabling", "disable_put", "disabled", "forcing",
                "force_put", "mail"},
           at: 0..(NAccounts + 1), loaded: BOOLEAN, rows: [AccountIds -> LcRow],
           read: User]
EditRow == [at: 0..NAccounts, read: User]

NotEditing == [at |-> 0, read |-> [enabled |-> FALSE, change |-> FALSE]]

LcTypeOK ==
    /\ today \in 1..MaxDay
    /\ account \in [AccountIds -> LcRow]
    /\ keycloak \in [AccountIds -> User]
    /\ signingIn \subseteq AccountIds
    /\ runs \in [Runs -> RunRow]
    /\ edits \in [Editors -> EditRow]
    /\ ranToday \in BOOLEAN
    /\ troubles \in 0..MaxTroubles
    /\ passwordSet \in [AccountIds -> 0..MaxDay]
    /\ warned \subseteq AccountIds /\ undone \subseteq AccountIds

FreshRow == [seen |-> 0, disabled |-> FALSE, stage |-> NoStage, pwWarned |-> Never]

RunAtRest == [pc |-> "idle", at |-> 0, loaded |-> FALSE,
            rows |-> [a \in AccountIds |-> FreshRow],
            read |-> [enabled |-> FALSE, change |-> FALSE]]

LcInit ==
    /\ today = 1
    /\ account = [a \in AccountIds |-> FreshRow]
    /\ keycloak = [a \in AccountIds |-> [enabled |-> TRUE, change |-> FALSE]]
    /\ signingIn = {}
    /\ runs = [j \in Runs |-> RunAtRest]
    /\ edits = [e \in Editors |-> NotEditing]
    /\ ranToday = FALSE
    /\ troubles = 0
    /\ passwordSet = [a \in AccountIds |-> 0]
    /\ warned = {} /\ undone = {}

-----------------------------------------------------------------------------
Trouble == troubles < MaxTroubles /\ troubles' = troubles + 1

(* update_bastion_account_identity flushes the row and then awaits Keycloak: *)
(* it holds SQLite's write lock.  The job and the logins share the event    *)
(* loop with it, so a commit of theirs gives up.                            *)
Locked == \E e \in Editors : edits[e].at # 0

Idle(row) == today - row.seen
Stages(row) == {o \in WarnDays : InactivityDays - Idle(row) <= o}
Tightest(offsets) == CHOOSE o \in offsets : \A p \in offsets : o <= p

(* What a run sees of an account: the row as loaded at its start, until a   *)
(* commit of its own expires it.                                            *)
Seen(j) == IF runs[j].loaded THEN runs[j].rows[runs[j].at] ELSE account[runs[j].at]

OutOfUse(row) == Idle(row) >= InactivityDays
NeedsWarning(row) ==
    /\ Stages(row) # {}
    /\ row.stage = NoStage \/ row.stage > Tightest(Stages(row))

(* password_changed_at is the creation of the account, day 0.               *)
PasswordAge == today
AfterWarning ==
    IF PasswordMaxAge = 0 \/ PasswordAge + PasswordWarn < PasswordMaxAge THEN "next"
    ELSE IF PasswordAge >= PasswordMaxAge THEN "forcing" ELSE "mail"

Moves(j, pc) == runs' = [runs EXCEPT ![j].pc = pc]
Advances(run) == [run EXCEPT !.pc = "next", !.at = @ + 1,
                             !.read = RunAtRest.read]
Expired(run) == [run EXCEPT !.loaded = FALSE, !.rows = RunAtRest.rows]

(* A commit that fails leaves the session unusable, the handler of the loop *)
(* included: the run is over.                                               *)
Breaks(j) == runs' = [runs EXCEPT ![j] = RunAtRest] /\ ranToday' = TRUE

-----------------------------------------------------------------------------
(* run_account_lifecycle.                                                   *)

RunBegins(j) ==
    /\ runs[j].pc = "idle"
    /\ runs' = [runs EXCEPT ![j] = [RunAtRest EXCEPT !.pc = "next", !.at = 1,
                                                   !.loaded = TRUE, !.rows = account]]
    /\ UNCHANGED <<today, account, keycloak, signingIn, edits, ranToday, troubles,
                   lcHistory>>

RunEnds(j) ==
    /\ runs[j].pc = "next" /\ runs[j].at > NAccounts
    /\ runs' = [runs EXCEPT ![j] = RunAtRest]
    /\ ranToday' = TRUE
    /\ UNCHANGED <<today, account, keycloak, signingIn, edits, troubles, lcHistory>>

(* Mutant: an account that has been warned is not looked at again.          *)
SkipWarned(j) ==
    /\ runs[j].pc = "next" /\ runs[j].at <= NAccounts
    /\ Seen(j).disabled \/ Seen(j).stage # NoStage
    /\ runs' = [runs EXCEPT ![j] = Advances(@)]
    /\ UNCHANGED <<today, account, keycloak, signingIn, edits, ranToday, troubles,
                   lcHistory>>

(* _process_account: nothing for one already disabled.                      *)
SkipDisabled(j) ==
    /\ runs[j].pc = "next" /\ runs[j].at <= NAccounts
    /\ Seen(j).disabled
    /\ runs' = [runs EXCEPT ![j] = Advances(@)]
    /\ UNCHANGED <<today, account, keycloak, signingIn, edits, ranToday, troubles,
                   lcHistory>>

DisableBegins(j) ==
    /\ runs[j].pc = "next" /\ runs[j].at <= NAccounts
    /\ ~Seen(j).disabled /\ OutOfUse(Seen(j))
    /\ Moves(j, "disabling")
    /\ UNCHANGED <<today, account, keycloak, signingIn, edits, ranToday, troubles,
                   lcHistory>>

(* _maybe_warn_inactivity: the mail, then the stage; a mail that fails is   *)
(* reported.                                                                *)
Considers(j) ==
    /\ runs[j].pc = "next" /\ runs[j].at <= NAccounts
    /\ ~Seen(j).disabled /\ ~OutOfUse(Seen(j))
    /\ LET a == runs[j].at
           row == Seen(j)
           onward(run) == IF AfterWarning = "next" THEN Advances(run)
                          ELSE [run EXCEPT !.pc = AfterWarning]
       IN \/ /\ ~NeedsWarning(row)
             /\ runs' = [runs EXCEPT ![j] = onward(@)]
             /\ UNCHANGED <<account, troubles, warned, ranToday>>
          \/ /\ NeedsWarning(row) /\ ~Locked
             /\ account' = [account EXCEPT ![a].stage = Tightest(Stages(row))]
             /\ runs' = [runs EXCEPT ![j] = Expired(onward(@))]
             /\ warned' = warned \cup {a}
             /\ UNCHANGED <<troubles, ranToday>>
          \/ /\ NeedsWarning(row) /\ Locked
             /\ Breaks(j)
             /\ warned' = warned \cup {a}
             /\ UNCHANGED <<account, troubles>>
          \/ /\ NeedsWarning(row) /\ Trouble
             /\ runs' = [runs EXCEPT ![j] = onward(@)]
             /\ UNCHANGED <<account, warned, ranToday>>
    /\ UNCHANGED <<today, keycloak, signingIn, edits, passwordSet, undone>>

(* update_keycloak_user: the GET.  Its failure is caught by the run.        *)
ReadsUser(j) ==
    /\ runs[j].pc \in {"disabling", "forcing"}
    /\ \/ /\ runs' = [runs EXCEPT
                ![j].pc = IF @ = "disabling" THEN "disable_put" ELSE "force_put",
                ![j].read = keycloak[runs[j].at]]
          /\ UNCHANGED troubles
       \/ /\ runs' = [runs EXCEPT ![j] = Advances(@)]
          /\ Trouble
    /\ UNCHANGED <<today, account, keycloak, signingIn, edits, ranToday, lcHistory>>

(* The PUT of what was read, with enabled or requiredActions changed; its   *)
(* answer may be lost, or it never arrives.                                 *)
Put(j) == IF runs[j].pc = "disable_put" THEN [runs[j].read EXCEPT !.enabled = FALSE]
          ELSE [runs[j].read EXCEPT !.change = TRUE]

(* The users that a write switches back on.                                 *)
Undone(a, user) ==
    IF user.enabled /\ ~keycloak[a].enabled THEN undone \cup {a}
    ELSE IF user.enabled THEN undone ELSE undone \ {a}

WritesUser(j) ==
    /\ runs[j].pc \in {"disable_put", "force_put"}
    /\ LET a == runs[j].at IN
       /\ keycloak' = [keycloak EXCEPT ![a] = Put(j)]
       /\ undone' = Undone(a, Put(j))
    /\ \/ /\ runs' = [runs EXCEPT
                ![j].pc = IF @ = "disable_put" THEN "disabled" ELSE "mail",
                ![j].read = RunAtRest.read]
          /\ UNCHANGED troubles
       \/ /\ runs' = [runs EXCEPT ![j] = Advances(@)]
          /\ Trouble
    /\ UNCHANGED <<today, account, signingIn, edits, ranToday, passwordSet, warned>>

(* Mutant: a call that fails is taken for one that succeeded.               *)
WriteIsLostUnnoticed(j) ==
    /\ runs[j].pc = "disable_put"
    /\ runs' = [runs EXCEPT ![j].pc = "disabled", ![j].read = RunAtRest.read]
    /\ Trouble
    /\ UNCHANGED <<today, account, keycloak, signingIn, edits, ranToday, lcHistory>>

WriteIsLost(j) ==
    /\ runs[j].pc \in {"disable_put", "force_put"}
    /\ runs' = [runs EXCEPT ![j] = Advances(@)]
    /\ Trouble
    /\ UNCHANGED <<today, account, keycloak, signingIn, edits, ranToday, lcHistory>>

(* _disable_for_inactivity after the await.                                 *)
NotesDisabled(j) ==
    /\ runs[j].pc = "disabled"
    /\ IF Locked THEN Breaks(j) /\ UNCHANGED account
       ELSE /\ account' = [account EXCEPT ![runs[j].at].disabled = TRUE]
            /\ runs' = [runs EXCEPT ![j] = Expired(Advances(@))]
            /\ UNCHANGED ranToday
    /\ UNCHANGED <<today, keycloak, signingIn, edits, troubles, lcHistory>>

(* _maybe_password_renewal: the reminder; its mail or its commit may fail.  *)
ReminderPause == IF PasswordWarn < 4 THEN 1 ELSE PasswordWarn \div 2
ReminderDue(row) == row.pwWarned = Never \/ today - row.pwWarned >= ReminderPause

Reminds(j) ==
    /\ runs[j].pc = "mail"
    /\ \/ /\ ReminderDue(Seen(j)) /\ ~Locked
          /\ account' = [account EXCEPT ![runs[j].at].pwWarned = today]
          /\ runs' = [runs EXCEPT ![j] = Expired(Advances(@))]
          /\ UNCHANGED <<troubles, ranToday>>
       \/ /\ ReminderDue(Seen(j)) /\ Locked
          /\ Breaks(j)
          /\ UNCHANGED <<account, troubles>>
       \/ /\ ~ReminderDue(Seen(j))
          /\ runs' = [runs EXCEPT ![j] = Advances(@)]
          /\ UNCHANGED <<account, troubles, ranToday>>
       \/ /\ ReminderDue(Seen(j)) /\ Trouble
          /\ runs' = [runs EXCEPT ![j] = Advances(@)]
          /\ UNCHANGED <<account, ranToday>>
    /\ UNCHANGED <<today, keycloak, signingIn, edits, lcHistory>>

-----------------------------------------------------------------------------
(* The others.                                                              *)

(* A login at Keycloak, which asks for a new password if it must.           *)
Authenticates(a) ==
    /\ a \notin signingIn
    /\ keycloak[a].enabled
    /\ signingIn' = signingIn \cup {a}
    /\ keycloak' = [keycloak EXCEPT ![a].change = FALSE]
    /\ passwordSet' = [passwordSet EXCEPT ![a] = IF keycloak[a].change THEN today ELSE @]
    /\ UNCHANGED <<today, account, runs, edits, ranToday, troubles, warned, undone>>

(* touch_bastion_login, at the end of the login here.                       *)
RecordsLogin(a) ==
    /\ a \in signingIn
    /\ ~Locked
    /\ account' = [account EXCEPT ![a] =
          IF @.disabled
          THEN [@ EXCEPT !.seen = today, !.disabled = FALSE, !.stage = NoStage]
          ELSE [@ EXCEPT !.seen = today]]
    /\ signingIn' = signingIn \ {a}
    /\ warned' = warned \ {a}
    /\ UNCHANGED <<today, keycloak, runs, edits, ranToday, troubles, passwordSet,
                   undone>>

(* update_bastion_account_identity: the same GET and PUT, for other fields. *)
EditReads(e, a) ==
    /\ edits[e].at = 0
    /\ ~Locked
    /\ Trouble
    /\ edits' = [edits EXCEPT ![e] = [at |-> a, read |-> keycloak[a]]]
    /\ UNCHANGED <<today, account, keycloak, signingIn, runs, ranToday, lcHistory>>

EditWrites(e) ==
    /\ edits[e].at # 0
    /\ keycloak' = [keycloak EXCEPT ![edits[e].at] = edits[e].read]
    /\ undone' = Undone(edits[e].at, edits[e].read)
    /\ edits' = [edits EXCEPT ![e] = NotEditing]
    /\ UNCHANGED <<today, account, signingIn, runs, ranToday, troubles, passwordSet,
                   warned>>

(* An administrator of Keycloak enables a user.                             *)
ConsoleEnables(a) ==
    /\ ~keycloak[a].enabled
    /\ Trouble
    /\ keycloak' = [keycloak EXCEPT ![a].enabled = TRUE]
    /\ undone' = undone \cup {a}
    /\ UNCHANGED <<today, account, signingIn, runs, edits, ranToday, passwordSet, warned>>

(* A run takes less than a day and starts every day, unless the portal is   *)
(* down at that hour.                                                       *)
DayPasses ==
    /\ today < MaxDay
    /\ \A j \in Runs : runs[j].pc = "idle"
    /\ \/ ranToday /\ UNCHANGED troubles
       \/ ~ranToday /\ Trouble
    /\ today' = today + 1
    /\ ranToday' = FALSE
    /\ UNCHANGED <<account, keycloak, signingIn, runs, edits, lcHistory>>

LcRestart ==
    /\ Trouble
    /\ runs' = [j \in Runs |-> RunAtRest]
    /\ edits' = [e \in Editors |-> NotEditing]
    /\ signingIn' = {}
    /\ UNCHANGED <<today, account, keycloak, ranToday, lcHistory>>

-----------------------------------------------------------------------------
RunStep(j) ==
    \/ RunEnds(j) \/ SkipDisabled(j) \/ DisableBegins(j) \/ Considers(j)
    \/ ReadsUser(j) \/ WritesUser(j) \/ WriteIsLost(j) \/ NotesDisabled(j)
    \/ Reminds(j)

LcNext ==
    \/ \E j \in Runs : RunBegins(j) \/ RunStep(j)
    \/ \E a \in AccountIds : Authenticates(a) \/ RecordsLogin(a) \/ ConsoleEnables(a)
    \/ \E e \in Editors : EditWrites(e) \/ \E a \in AccountIds : EditReads(e, a)
    \/ DayPasses \/ LcRestart

(* The scheduler starts the job every day; HTTP calls end.                  *)
LcFairness ==
    /\ \A j \in Runs : WF_lcVars(RunBegins(j)) /\ WF_lcVars(RunStep(j))
    /\ \A e \in Editors : WF_lcVars(EditWrites(e))

LcSpec == LcInit /\ [][LcNext]_lcVars /\ LcFairness

-----------------------------------------------------------------------------
(* Properties.                                                              *)

(* _disable_for_inactivity writes the row after the remote user: an account *)
(* that is reported as disabled cannot log in, unless somebody has switched *)
(* its user on again.                                                       *)
DisabledAtKeycloak ==
    \A a \in AccountIds \ undone : account[a].disabled => ~keycloak[a].enabled

(* "le compte sera desactive automatiquement": an account out of use is     *)
(* disabled or used again, whatever mail, call, commit or run fails on the  *)
(* way and at whatever stage it was left.                                   *)
IdleEndsDisabled ==
    \A a \in AccountIds :
        OutOfUse(account[a]) ~> (account[a].disabled \/ ~OutOfUse(account[a]))

(* touch_bastion_login: "A successful login clears inactivity tracking".    *)
(* When the job runs every day and nothing fails, an account that is out of *)
(* use at the moment it is disabled has been warned since its last login.   *)
NeverDisabledUnwarned ==
    [][\A a \in AccountIds :
        (~account[a].disabled /\ account'[a].disabled /\ OutOfUse(account[a]))
        => a \in warned]_lcVars

(* _maybe_password_renewal: "Force password change at next login once max   *)
(* age is reached".  A change is not demanded again of a user whose         *)
(* password is younger.                                                     *)
ChangedPasswordHolds ==
    [][\A a \in AccountIds :
        (~keycloak[a].change /\ keycloak'[a].change)
        => today - passwordSet[a] >= PasswordMaxAge]_lcVars
=============================================================================
