-------------------------------- MODULE SignIn --------------------------------
(***************************************************************************)
(* The portal's own sign-in (app/auth/oidc_bff.py, oidc_bff_client.py) for *)
(* one identity and one client address: a password is posted to Keycloak,  *)
(* which may ask for a one-time code or for the enrolment of a device      *)
(* (oidc_login_attempts keeps that step), and a row of oidc_sessions stands *)
(* for every cookie that is given out.  Logging out, an administrator's    *)
(* disconnection (app/admin/user_sessions.py) and the profile page         *)
(* (app/web/profile_security_service.py) revoke those rows.                *)
(*                                                                         *)
(* POST /auth/login and the revocations that call Keycloak are coroutines  *)
(* of one event loop: an action runs from one await to the next.  Whether  *)
(* the ban engine lets a login through is left to BanEngine.               *)
(***************************************************************************)
EXTENDS Naturals, FiniteSets

CONSTANTS
    Logins,            \* POST /auth/login at a time
    Revokers,          \* routes that revoke sessions after a call to Keycloak
    Attempts,          \* rows of oidc_login_attempts
    Jtis,              \* sessions that may be issued
    MaxOtpFailures,    \* MAX_OTP_FAILURES
    MaxLoginFailures,  \* OIDC_LOGIN_MAX_FAILURES
    MaxSignFaults      \* bound on failing calls and restarts

ASSUME SignInAssumption ==
    /\ MaxOtpFailures \in Nat \ {0} /\ MaxLoginFailures \in Nat \ {0}
    /\ MaxSignFaults \in Nat
    /\ IsFiniteSet(Logins)

VARIABLES
    attempt,    \* oidc_login_attempts
    factor,     \* Keycloak: what it expects next of each attempt
    session,    \* oidc_sessions
    failed,     \* throttle.py: failures of this identity and address
    lpc, lloc,  \* the logins
    rpc,        \* the revocations
    signFaults,
    guesses,    \* history: codes submitted to Keycloak for each attempt
    resets      \* history: times its counter was set to 0

signHistory == <<guesses, resets>>
signVars == <<attempt, factor, session, failed, lpc, lloc, rpc, signFaults,
              signHistory>>

(* expires_at has passed; purge_expired_oidc_login_attempts deletes the row. *)
AttemptRow == [st: {"none", "live", "expired", "deleted"}, kind: {"otp", "setup"},
               failures: 0..MaxOtpFailures]
NoAttempt == [st |-> "none", kind |-> "otp", failures |-> 0]

(* What a login that submits a code has read.                               *)
Claim == [of: Attempts \cup {"none"}, kind: {"otp", "setup"}, failures: 0..MaxOtpFailures]
NoClaim == [of |-> "none", kind |-> "otp", failures |-> 0]

FailuresBound == MaxLoginFailures + Cardinality(Logins)
GuessesBound == (Cardinality(Logins) + 1) * MaxOtpFailures

SignInTypeOK ==
    /\ attempt \in [Attempts -> AttemptRow]
    /\ factor \in [Attempts -> {"otp", "setup", "done"}]
    /\ session \in [Jtis -> {"none", "active", "revoked"}]
    /\ failed \in 0..FailuresBound
    /\ lpc \in [Logins -> {"idle", "password", "code", "groups"}]
    /\ lloc \in [Logins -> Claim]
    /\ rpc \in [Revokers -> {"idle", "disconnect", "others"}]
    /\ signFaults \in 0..MaxSignFaults
    /\ guesses \in [Attempts -> 0..GuessesBound]
    /\ resets \in [Attempts -> 0..Cardinality(Logins)]

SignInInit ==
    /\ attempt = [a \in Attempts |-> NoAttempt]
    /\ factor = [a \in Attempts |-> "otp"]
    /\ session = [j \in Jtis |-> "none"]
    /\ failed = 0
    /\ lpc = [k \in Logins |-> "idle"]
    /\ lloc = [k \in Logins |-> NoClaim]
    /\ rpc = [d \in Revokers |-> "idle"]
    /\ signFaults = 0
    /\ guesses = [a \in Attempts |-> 0] /\ resets = [a \in Attempts |-> 0]

-----------------------------------------------------------------------------
SignTrouble == signFaults < MaxSignFaults /\ signFaults' = signFaults + 1

(* start_headless_login deletes the expired attempts and does not commit    *)
(* before Keycloak has answered; an accepted code is flushed as deleted     *)
(* before the groups are fetched: both hold SQLite's write lock meanwhile.  *)
(* A thread waits for the lock.  A coroutine that wants it blocks the event *)
(* loop, the holder included, until SQLite gives up: its statement raises.  *)
Holds(k) == lpc[k] \in {"password", "groups"}
DbLocked == \E k \in Logins : Holds(k)
DbLockedFor(k) == \E o \in Logins \ {k} : Holds(o)

LoginEnds(k) == lpc' = [lpc EXCEPT ![k] = "idle"] /\ lloc' = [lloc EXCEPT ![k] = NoClaim]

(* purge_expired_oidc_login_attempts.                                       *)
Purged == [a \in Attempts |-> IF attempt[a].st = "expired"
                              THEN [attempt[a] EXCEPT !.st = "deleted"] ELSE attempt[a]]

(* _check_login_rate_limit.                                                 *)
NotThrottled == failed < MaxLoginFailures

(* finalize_native_login: a new row, and the failures are forgotten.        *)
SessionIssued(k) ==
    /\ \E j \in Jtis : /\ session[j] = "none"
                       /\ session' = [session EXCEPT ![j] = "active"]
    /\ failed' = 0
    /\ LoginEnds(k)

-----------------------------------------------------------------------------
(* The password.                                                            *)

PasswordPosted(k) ==
    /\ lpc[k] = "idle"
    /\ NotThrottled
    /\ ~DbLocked
    /\ attempt' = Purged
    /\ lpc' = [lpc EXCEPT ![k] = "password"]
    /\ UNCHANGED <<factor, session, failed, lloc, rpc, signFaults, signHistory>>

(* Refused, or not reachable: counted.                                      *)
PasswordRefused(k) ==
    /\ lpc[k] = "password"
    /\ failed' = failed + 1
    /\ LoginEnds(k)
    /\ UNCHANGED <<attempt, factor, session, rpc, signFaults, signHistory>>

PasswordAccepted(k) ==
    /\ lpc[k] = "password"
    /\ \/ SessionIssued(k)
       \/ lpc' = [lpc EXCEPT ![k] = "groups"] /\ UNCHANGED <<session, failed, lloc>>
    /\ UNCHANGED <<attempt, factor, rpc, signFaults, signHistory>>

(* _store_attempt, _challenge_response; an enrolment is refused where the   *)
(* realm has no second factor.                                              *)
SecondFactorAsked(k, a) ==
    /\ lpc[k] = "password"
    /\ attempt[a].st = "none"
    /\ \E kind \in {"otp", "setup"} :
         /\ attempt' = [attempt EXCEPT ![a].st = "live", ![a].kind = kind]
         /\ factor' = [factor EXCEPT ![a] = kind]
    /\ LoginEnds(k)
    /\ UNCHANGED <<session, failed, rpc, signFaults, signHistory>>

(* The realm has no second factor, the flow is not supported (counted), an  *)
(* error that the route does not expect, the event loop blocked until the   *)
(* calls to Keycloak have timed out.                                        *)
PasswordAborted(k) ==
    /\ lpc[k] = "password"
    /\ SignTrouble
    /\ LoginEnds(k)
    /\ UNCHANGED <<attempt, factor, session, failed, rpc, signHistory>>

(* _resolve_session_groups: a failure of the call means no groups.          *)
GroupsFetched(k) ==
    /\ lpc[k] = "groups"
    /\ SessionIssued(k)
    /\ UNCHANGED <<attempt, factor, rpc, signFaults, signHistory>>

-----------------------------------------------------------------------------
(* The code.                                                                *)

(* Mutant: the submission is not counted before Keycloak is called.         *)
CodeClaimedUncounted(k, a) ==
    /\ lpc[k] = "idle"
    /\ NotThrottled /\ ~DbLocked
    /\ attempt[a].st = "live" /\ attempt[a].failures < MaxOtpFailures
    /\ attempt' = Purged
    /\ guesses' = [guesses EXCEPT ![a] = @ + 1]
    /\ lpc' = [lpc EXCEPT ![k] = "code"]
    /\ lloc' = [lloc EXCEPT ![k] = [of |-> a, kind |-> attempt[a].kind,
                                    failures |-> attempt[a].failures]]
    /\ UNCHANGED <<factor, session, failed, rpc, signFaults, resets>>

(* _claim_otp_attempt: one guarded UPDATE, committed.                       *)
CodeClaimed(k, a) ==
    /\ lpc[k] = "idle"
    /\ NotThrottled /\ ~DbLocked
    /\ attempt[a].st = "live" /\ attempt[a].failures < MaxOtpFailures
    /\ attempt' = [Purged EXCEPT ![a].failures = @ + 1]
    /\ guesses' = [guesses EXCEPT ![a] = @ + 1]
    /\ lpc' = [lpc EXCEPT ![k] = "code"]
    /\ lloc' = [lloc EXCEPT ![k] = [of |-> a, kind |-> attempt[a].kind,
                                    failures |-> attempt[a].failures + 1]]
    /\ UNCHANGED <<factor, session, failed, rpc, signFaults, resets>>

(* ... which matches no row: it is deleted, and the submission is a failure. *)
CodeNotClaimed(k, a) ==
    /\ lpc[k] = "idle"
    /\ NotThrottled /\ ~DbLocked
    /\ \/ attempt[a].st \in {"expired", "deleted"}
       \/ attempt[a].st = "live" /\ attempt[a].failures >= MaxOtpFailures
    /\ attempt' = [Purged EXCEPT ![a].st = "deleted"]
    /\ failed' = failed + 1
    /\ UNCHANGED <<factor, session, lpc, lloc, rpc, signFaults, signHistory>>

Row(k) == attempt[lloc[k].of]
Present(k) == Row(k).st \in {"live", "expired"}

(* _after_failed_otp, on the failures read when the attempt was claimed.    *)
AfterFailed(k) ==
    [attempt EXCEPT ![lloc[k].of].st =
        IF Present(k) /\ lloc[k].failures >= MaxOtpFailures THEN "deleted" ELSE @]

(* A wrong code: the new form is saved, and the failure counted.  If the    *)
(* row has gone the flush raises, unless there was no form to save; if the  *)
(* database is locked it raises.  Then nothing is counted.                  *)
CodeRefused(k) ==
    /\ lpc[k] = "code"
    /\ \/ /\ ~DbLockedFor(k)
          /\ attempt' = AfterFailed(k)
          /\ failed' = failed + 1
       \/ /\ DbLockedFor(k) \/ ~Present(k)
          /\ UNCHANGED <<attempt, failed>>
    /\ LoginEnds(k)
    /\ UNCHANGED <<factor, session, rpc, signFaults, signHistory>>

(* The enrolment is accepted, perhaps that of a parallel submission:        *)
(* Keycloak asks for the first code.                                        *)
EnrolmentAccepted(k) ==
    /\ lpc[k] = "code"
    /\ lloc[k].kind = "setup" /\ factor[lloc[k].of] \in {"setup", "otp"}
    /\ factor' = [factor EXCEPT ![lloc[k].of] = "otp"]
    /\ IF DbLockedFor(k) \/ ~Present(k) THEN UNCHANGED <<attempt, resets>>
       ELSE /\ attempt' = [attempt EXCEPT ![lloc[k].of].failures = 0,
                                          ![lloc[k].of].kind = "otp"]
            /\ resets' = [resets EXCEPT ![lloc[k].of] = @ + 1]
    /\ LoginEnds(k)
    /\ UNCHANGED <<session, failed, rpc, signFaults, guesses>>

(* The code is right: the attempt is discarded.                             *)
CodeAccepted(k) ==
    /\ lpc[k] = "code"
    /\ factor[lloc[k].of] = lloc[k].kind
    /\ factor' = [factor EXCEPT ![lloc[k].of] = "done"]
    /\ IF DbLockedFor(k) THEN LoginEnds(k) /\ UNCHANGED <<attempt, session, failed>>
       ELSE /\ attempt' = [attempt EXCEPT ![lloc[k].of].st = "deleted"]
            /\ \/ SessionIssued(k)
               \/ /\ lpc' = [lpc EXCEPT ![k] = "groups"]
                  /\ lloc' = [lloc EXCEPT ![k] = NoClaim]
                  /\ UNCHANGED <<session, failed>>
    /\ UNCHANGED <<rpc, signFaults, signHistory>>

(* Keycloak cannot be reached (counted), or shows a page that is not        *)
(* supported: the attempt is discarded, without a commit.                   *)
CodeAborted(k) ==
    /\ lpc[k] = "code"
    /\ SignTrouble
    /\ failed' = IF DbLockedFor(k) THEN failed ELSE failed + 1
    /\ \/ UNCHANGED attempt
       \/ /\ ~DbLockedFor(k)
          /\ attempt' = [attempt EXCEPT ![lloc[k].of].st = "deleted"]
    /\ LoginEnds(k)
    /\ UNCHANGED <<factor, session, rpc, signHistory>>

-----------------------------------------------------------------------------
(* Revocations.                                                             *)

RevokedAll == [j \in Jtis |-> IF session[j] = "active" THEN "revoked" ELSE session[j]]

(* oidc_logout, revoke_own_native_session, revoke_active_session: threads.  *)
LoggedOut(j) ==
    /\ session[j] = "active"
    /\ ~DbLocked
    /\ session' = [session EXCEPT ![j] = "revoked"]
    /\ UNCHANGED <<attempt, factor, failed, lpc, lloc, rpc, signFaults, signHistory>>

(* _do_revoke_sso and revoke_all_other_sessions: Keycloak's sessions first. *)
RevocationBegins(d, scope) ==
    /\ rpc[d] = "idle"
    /\ rpc' = [rpc EXCEPT ![d] = scope]
    /\ UNCHANGED <<attempt, factor, session, failed, lpc, lloc, signFaults, signHistory>>

(* _apply_local_session_revocation: all the sessions of the identity.       *)
Disconnected(d) ==
    /\ rpc[d] = "disconnect"
    /\ session' = IF DbLocked THEN session ELSE RevokedAll
    /\ rpc' = [rpc EXCEPT ![d] = "idle"]
    /\ UNCHANGED <<attempt, factor, failed, lpc, lloc, signFaults, signHistory>>

(* revoke_all_other_sessions: the session of the request stays.             *)
OthersRevoked(d, current) ==
    /\ rpc[d] = "others"
    /\ session[current] # "none"
    /\ session' = IF DbLocked THEN session
                  ELSE [RevokedAll EXCEPT ![current] = session[current]]
    /\ rpc' = [rpc EXCEPT ![d] = "idle"]
    /\ UNCHANGED <<attempt, factor, failed, lpc, lloc, signFaults, signHistory>>

-----------------------------------------------------------------------------
(* Time and restarts.                                                       *)

AttemptExpires(a) ==
    /\ attempt[a].st = "live"
    /\ attempt' = [attempt EXCEPT ![a].st = "expired"]
    /\ UNCHANGED <<factor, session, failed, lpc, lloc, rpc, signFaults, signHistory>>

(* The window of the throttle has passed; the process restarts.             *)
FailuresAge ==
    /\ failed > 0
    /\ failed' = failed - 1
    /\ UNCHANGED <<attempt, factor, session, lpc, lloc, rpc, signFaults, signHistory>>

SignInRestarts ==
    /\ SignTrouble
    /\ failed' = 0
    /\ lpc' = [k \in Logins |-> "idle"] /\ lloc' = [k \in Logins |-> NoClaim]
    /\ rpc' = [d \in Revokers |-> "idle"]
    /\ UNCHANGED <<attempt, factor, session, signHistory>>

LoginStep(k) ==
    \/ PasswordPosted(k) \/ PasswordRefused(k) \/ PasswordAccepted(k)
    \/ PasswordAborted(k) \/ GroupsFetched(k)
    \/ CodeRefused(k) \/ EnrolmentAccepted(k) \/ CodeAccepted(k) \/ CodeAborted(k)
    \/ \E a \in Attempts :
         SecondFactorAsked(k, a) \/ CodeClaimed(k, a) \/ CodeNotClaimed(k, a)

SignInNext ==
    \/ \E k \in Logins : LoginStep(k)
    \/ \E d \in Revokers : \/ \E scope \in {"disconnect", "others"} : RevocationBegins(d, scope)
                           \/ Disconnected(d)
                           \/ \E j \in Jtis : OthersRevoked(d, j)
    \/ \E j \in Jtis : LoggedOut(j)
    \/ \E a \in Attempts : AttemptExpires(a)
    \/ FailuresAge \/ SignInRestarts

SignInSpec == SignInInit /\ [][SignInNext]_signVars

-----------------------------------------------------------------------------
(* Properties.                                                              *)

(* _claim_otp_attempt is committed before Keycloak is called "so that       *)
(* parallel guesses on the same attempt cannot each read a stale counter    *)
(* and exceed MAX_OTP_FAILURES".  An enrolment starts the count once more;  *)
(* so may each submission that was under way when it was accepted.          *)
GuessesBounded ==
    \A a \in Attempts : /\ guesses[a] <= MaxOtpFailures * (1 + resets[a])
                        /\ resets[a] <= Cardinality(Logins)

(* _apply_local_session_revocation: "Always revoke native JWT + drop portal *)
(* registry rows (even if KC logout fails)".  A disconnection that has come *)
(* to its end leaves no session of the identity.                            *)
DisconnectCuts ==
    [][\A d \in Revokers :
        (rpc[d] = "disconnect" /\ rpc'[d] = "idle" /\ signFaults' = signFaults)
        => \A j \in Jtis : session'[j] # "active"]_signVars
=============================================================================
