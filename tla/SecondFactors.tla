---------------------------- MODULE SecondFactors ----------------------------
(***************************************************************************)
(* Passkeys (app/auth/passkey_service.py, passkey_login.py) and the        *)
(* administrators' one-time codes (app/auth/totp_service.py).              *)
(*                                                                         *)
(* A passkey signs a single-use challenge and counts its signatures; it    *)
(* carries the user handle that was current when it was enrolled.  Routes  *)
(* run in threads and interleave between two statements; the ORM writes    *)
(* only the columns whose value it has changed.                            *)
(***************************************************************************)
EXTENDS Naturals, FiniteSets

CONSTANTS
    Challenges,   \* rows of webauthn_challenges
    PassKeys,     \* authenticators of one identity
    Enrollers,    \* threads enrolling a passkey
    Verifiers,    \* threads on /auth/passkey/verify
    TotpThreads,  \* threads on the administrator's profile page
    MaxUses,      \* bound on the signatures of an authenticator
    MaxSecrets    \* bound on the TOTP secrets generated

ASSUME SecondFactorsAssumption ==
    /\ MaxUses \in Nat \ {0} /\ MaxSecrets \in Nat
    /\ IsFiniteSet(Verifiers)
    /\ \A e \in Enrollers : e \notin {"nobody"}

VARIABLES
    challenge,  \* "none", "login" or "register" (unused), "used" or expired
    handle,     \* user_webauthn_handles: whose draw is the identity's handle
    passkey,    \* user_passkeys: status, sign_count
    device,     \* each authenticator: its counter, the handle it was given
    asserted,   \* assertions made: <<challenge, passkey, counter>>
    enrolAt, eloc,  \* the enrolling threads
    vpc, vloc,  \* the verifying threads
    totp,       \* admin_mfa_credentials: secret and totp_enabled
    totpAt, tloc,  \* the profile page's threads: route, the row they have loaded
    secrets,    \* TOTP secrets generated so far
    passes,     \* history: verifications that each challenge has let through
    confirmed   \* history: secrets of which a code has been accepted

passkeyVars == <<challenge, handle, passkey, device, asserted, enrolAt, eloc, vpc, vloc,
                 passes>>
totpVars == <<totp, totpAt, tloc, secrets, confirmed>>
factorVars == <<passkeyVars, totpVars>>

Nobody == "nobody"
Draws == Enrollers \cup {Nobody}
TotpRow == [secret: 0..MaxSecrets, on: BOOLEAN]
PasskeyRow == [st: {"none", "active", "revoked"}, count: 0..MaxUses]
Device == [count: 0..MaxUses, h: Draws]
Assertion == [c: Challenges \cup {"none"}, k: PassKeys \cup {"none"}, n: 0..MaxUses]
Enrolment == [h: Draws, c: Challenges \cup {"none"}]
NoEnrolment == [h |-> Nobody, c |-> "none"]
NoAssertion == [c |-> "none", k |-> "none", n |-> 0]

FactorsTypeOK ==
    /\ challenge \in [Challenges -> {"none", "login", "register", "used"}]
    /\ handle \in Draws
    /\ passkey \in [PassKeys -> PasskeyRow]
    /\ device \in [PassKeys -> Device]
    /\ asserted \subseteq [c: Challenges, k: PassKeys, n: 1..MaxUses]
    /\ enrolAt \in [Enrollers -> {"idle", "nohandle", "handle", "offered", "accepted"}]
    /\ eloc \in [Enrollers -> Enrolment]
    /\ vpc \in [Verifiers -> {"idle", "burnt", "checked", "keycloak"}]
    /\ vloc \in [Verifiers -> Assertion]
    /\ totp \in TotpRow
    /\ totpAt \in [TotpThreads -> {"idle", "start", "confirm", "disable"}]
    /\ tloc \in [TotpThreads -> TotpRow]
    /\ secrets \in 0..MaxSecrets
    /\ passes \in [Challenges -> 0..Cardinality(Verifiers)]
    /\ confirmed \subseteq 0..MaxSecrets

NoTotp == [secret |-> 0, on |-> FALSE]

FactorsInit ==
    /\ challenge = [c \in Challenges |-> "none"]
    /\ handle = Nobody
    /\ passkey = [k \in PassKeys |-> [st |-> "none", count |-> 0]]
    /\ device = [k \in PassKeys |-> [count |-> 0, h |-> Nobody]]
    /\ asserted = {}
    /\ enrolAt = [e \in Enrollers |-> "idle"] /\ eloc = [e \in Enrollers |-> NoEnrolment]
    /\ vpc = [v \in Verifiers |-> "idle"] /\ vloc = [v \in Verifiers |-> NoAssertion]
    /\ totp = NoTotp
    /\ totpAt = [t \in TotpThreads |-> "idle"] /\ tloc = [t \in TotpThreads |-> NoTotp]
    /\ secrets = 0
    /\ passes = [c \in Challenges |-> 0]
    /\ confirmed = {}

-----------------------------------------------------------------------------
(* Challenges.                                                              *)

(* issue_challenge, for a sign-in (build_login_options).                    *)
LoginOffered(c) ==
    /\ challenge[c] = "none"
    /\ challenge' = [challenge EXCEPT ![c] = "login"]
    /\ UNCHANGED <<handle, passkey, device, asserted, enrolAt, eloc, vpc, vloc, passes,
                   totpVars>>

(* Its time is over: it will not be accepted any more.                      *)
ChallengeExpires(c) ==
    /\ challenge[c] \in {"login", "register"}
    /\ challenge' = [challenge EXCEPT ![c] = "used"]
    /\ UNCHANGED <<handle, passkey, device, asserted, enrolAt, eloc, vpc, vloc, passes,
                   totpVars>>

-----------------------------------------------------------------------------
(* Enrolment: build_registration_options, verify_and_store_registration.    *)

(* get_or_create_user_handle: the row is read ...                           *)
HandleRead(e) ==
    /\ enrolAt[e] = "idle"
    /\ enrolAt' = [enrolAt EXCEPT ![e] = IF handle = Nobody THEN "nohandle" ELSE "handle"]
    /\ eloc' = [eloc EXCEPT ![e].h = handle]
    /\ UNCHANGED <<challenge, handle, passkey, device, asserted, vpc, vloc, passes,
                   totpVars>>

(* Mutant: a concurrent creation is not noticed, the own draw is handed out. *)
HandleCreatedOwn(e) ==
    /\ enrolAt[e] = "nohandle"
    /\ handle' = IF handle = Nobody THEN e ELSE handle
    /\ enrolAt' = [enrolAt EXCEPT ![e] = "handle"]
    /\ eloc' = [eloc EXCEPT ![e].h = e]
    /\ UNCHANGED <<challenge, passkey, device, asserted, vpc, vloc, passes,
                   totpVars>>

(* ... and inserted; if somebody else was first, theirs is read again.      *)
HandleCreated(e) ==
    /\ enrolAt[e] = "nohandle"
    /\ handle' = IF handle = Nobody THEN e ELSE handle
    /\ enrolAt' = [enrolAt EXCEPT ![e] = "handle"]
    /\ eloc' = [eloc EXCEPT ![e].h = handle']
    /\ UNCHANGED <<challenge, passkey, device, asserted, vpc, vloc, passes,
                   totpVars>>

EnrolmentOffered(e, c) ==
    /\ enrolAt[e] = "handle"
    /\ challenge[c] = "none"
    /\ challenge' = [challenge EXCEPT ![c] = "register"]
    /\ enrolAt' = [enrolAt EXCEPT ![e] = "offered"]
    /\ eloc' = [eloc EXCEPT ![e].c = c]
    /\ UNCHANGED <<handle, passkey, device, asserted, vpc, vloc, passes, totpVars>>

(* consume_challenge; a used one refuses the enrolment.                     *)
EnrolmentAnswered(e) ==
    /\ enrolAt[e] = "offered"
    /\ IF challenge[eloc[e].c] = "register"
       THEN /\ challenge' = [challenge EXCEPT ![eloc[e].c] = "used"]
            /\ enrolAt' = [enrolAt EXCEPT ![e] = "accepted"]
            /\ UNCHANGED eloc
       ELSE /\ enrolAt' = [enrolAt EXCEPT ![e] = "idle"]
            /\ eloc' = [eloc EXCEPT ![e] = NoEnrolment]
            /\ UNCHANGED challenge
    /\ UNCHANGED <<handle, passkey, device, asserted, vpc, vloc, passes, totpVars>>

(* The row; a credential that is already there is refused.                  *)
PasskeyStored(e, k) ==
    /\ enrolAt[e] = "accepted"
    /\ IF passkey[k].st = "none"
       THEN /\ passkey' = [passkey EXCEPT ![k].st = "active"]
            /\ device' = [device EXCEPT ![k].h = eloc[e].h]
       ELSE UNCHANGED <<passkey, device>>
    /\ enrolAt' = [enrolAt EXCEPT ![e] = "idle"]
    /\ eloc' = [eloc EXCEPT ![e] = NoEnrolment]
    /\ UNCHANGED <<challenge, handle, asserted, vpc, vloc, passes, totpVars>>

(* revoke_passkey.                                                          *)
PasskeyRevoked(k) ==
    /\ passkey[k].st = "active"
    /\ passkey' = [passkey EXCEPT ![k].st = "revoked"]
    /\ UNCHANGED <<challenge, handle, device, asserted, enrolAt, eloc, vpc, vloc, passes,
                   totpVars>>

-----------------------------------------------------------------------------
(* Signing in.                                                              *)

(* The authenticator signs a challenge; the browser may post it repeatedly. *)
DeviceSigns(k, c) ==
    /\ challenge[c] # "none"
    /\ passkey[k].st # "none"
    /\ device[k].count < MaxUses
    /\ device' = [device EXCEPT ![k].count = @ + 1]
    /\ asserted' = asserted \cup {[c |-> c, k |-> k, n |-> device[k].count + 1]}
    /\ UNCHANGED <<challenge, handle, passkey, enrolAt, eloc, vpc, vloc, passes,
                   totpVars>>

VerifyEnds(v) ==
    /\ vpc' = [vpc EXCEPT ![v] = "idle"]
    /\ vloc' = [vloc EXCEPT ![v] = NoAssertion]

(* Mutant: whether a challenge is still unused is not part of the update.   *)
ChallengeBurntAgain(v, s) ==
    /\ vpc[v] = "idle"
    /\ challenge[s.c] \in {"login", "used"}
    /\ challenge' = [challenge EXCEPT ![s.c] = "used"]
    /\ passes' = [passes EXCEPT ![s.c] = @ + 1]
    /\ vpc' = [vpc EXCEPT ![v] = "burnt"]
    /\ vloc' = [vloc EXCEPT ![v] = s]
    /\ UNCHANGED <<handle, passkey, device, asserted, enrolAt, eloc, totpVars>>

(* verify_login_assertion: consume_challenge, one guarded UPDATE, first.    *)
ChallengeBurnt(v, s) ==
    /\ vpc[v] = "idle"
    /\ challenge[s.c] = "login"
    /\ challenge' = [challenge EXCEPT ![s.c] = "used"]
    /\ passes' = [passes EXCEPT ![s.c] = @ + 1]
    /\ vpc' = [vpc EXCEPT ![v] = "burnt"]
    /\ vloc' = [vloc EXCEPT ![v] = s]
    /\ UNCHANGED <<handle, passkey, device, asserted, enrolAt, eloc, totpVars>>

(* The passkey is active, its handle is that of the identity, and its       *)
(* counter is above the one stored.                                         *)
AssertionChecked(v) ==
    /\ vpc[v] = "burnt"
    /\ LET k == vloc[v].k IN
       IF /\ passkey[k].st = "active"
          /\ device[k].h = handle
          /\ vloc[v].n > passkey[k].count
       THEN vpc' = [vpc EXCEPT ![v] = "checked"] /\ UNCHANGED vloc
       ELSE VerifyEnds(v)
    /\ UNCHANGED <<challenge, handle, passkey, device, asserted, enrolAt, eloc, passes,
                   totpVars>>

(* ... which is then replaced.                                              *)
CounterStored(v) ==
    /\ vpc[v] = "checked"
    /\ passkey' = [passkey EXCEPT ![vloc[v].k].count = vloc[v].n]
    /\ vpc' = [vpc EXCEPT ![v] = "keycloak"]
    /\ UNCHANGED <<challenge, handle, device, asserted, enrolAt, eloc, vloc, passes,
                   totpVars>>

(* _finalize_stage, or a refusal: Keycloak was asked about the account.     *)
VerificationEnds(v) ==
    /\ vpc[v] = "keycloak"
    /\ VerifyEnds(v)
    /\ UNCHANGED <<challenge, handle, passkey, device, asserted, enrolAt, eloc, passes,
                   totpVars>>

-----------------------------------------------------------------------------
(* TOTP: each route loads the row, and commits what it changes.             *)

TotpLoads(t, route) ==
    /\ totpAt[t] = "idle"
    /\ route = "confirm" => totp.secret # 0
    /\ totpAt' = [totpAt EXCEPT ![t] = route]
    /\ tloc' = [tloc EXCEPT ![t] = totp]
    /\ UNCHANGED <<totp, secrets, confirmed, passkeyVars>>

TotpDone(t) ==
    /\ totpAt' = [totpAt EXCEPT ![t] = "idle"]
    /\ tloc' = [tloc EXCEPT ![t] = NoTotp]

(* The row after an UPDATE of the columns in which new differs from old.    *)
Merged(old, new) ==
    [secret |-> IF new.secret = old.secret THEN totp.secret ELSE new.secret,
     on |-> IF new.on = old.on THEN totp.on ELSE new.on]

(* generate_new_totp_setup.                                                 *)
SetupStarts(t) ==
    /\ totpAt[t] = "start"
    /\ secrets < MaxSecrets
    /\ secrets' = secrets + 1
    /\ totp' = Merged(tloc[t], [secret |-> secrets + 1, on |-> FALSE])
    /\ TotpDone(t)
    /\ UNCHANGED <<confirmed, passkeyVars>>

(* confirm_totp_enrollment: a code of the secret that was loaded.           *)
SetupConfirmed(t) ==
    /\ totpAt[t] = "confirm"
    /\ totp' = Merged(tloc[t], [tloc[t] EXCEPT !.on = TRUE])
    /\ confirmed' = confirmed \cup {tloc[t].secret}
    /\ TotpDone(t)
    /\ UNCHANGED <<secrets, passkeyVars>>

(* disable_totp, with a code if TOTP is on.                                 *)
TotpDisabled(t) ==
    /\ totpAt[t] = "disable"
    /\ totp' = Merged(tloc[t], NoTotp)
    /\ TotpDone(t)
    /\ UNCHANGED <<secrets, confirmed, passkeyVars>>

(* The code was wrong.                                                      *)
TotpRefused(t) ==
    /\ totpAt[t] \in {"confirm", "disable"}
    /\ TotpDone(t)
    /\ UNCHANGED <<totp, secrets, confirmed, passkeyVars>>

-----------------------------------------------------------------------------
Enrolling(e) ==
    \/ HandleRead(e) \/ HandleCreated(e) \/ EnrolmentAnswered(e)
    \/ \E c \in Challenges : EnrolmentOffered(e, c)
    \/ \E k \in PassKeys : PasskeyStored(e, k)

Verifying(v) ==
    \/ \E s \in asserted : ChallengeBurnt(v, s)
    \/ AssertionChecked(v) \/ CounterStored(v) \/ VerificationEnds(v)

OnProfilePage(t) ==
    \/ \E route \in {"start", "confirm", "disable"} : TotpLoads(t, route)
    \/ SetupStarts(t) \/ SetupConfirmed(t) \/ TotpDisabled(t) \/ TotpRefused(t)

FactorsNext ==
    \/ \E c \in Challenges : \/ LoginOffered(c) \/ ChallengeExpires(c)
                             \/ \E k \in PassKeys : DeviceSigns(k, c)
    \/ \E e \in Enrollers : Enrolling(e)
    \/ \E k \in PassKeys : PasskeyRevoked(k)
    \/ \E v \in Verifiers : Verifying(v)
    \/ \E t \in TotpThreads : OnProfilePage(t)

FactorsSpec == FactorsInit /\ [][FactorsNext]_factorVars

-----------------------------------------------------------------------------
(* Properties.                                                              *)

(* consume_challenge: "Atomically mark the challenge used".  However often  *)
(* and from however many threads an assertion is posted, its challenge lets *)
(* one verification through.                                                *)
ChallengeOnce == \A c \in Challenges : passes[c] <= 1

(* get_or_create_user_handle: "created once".  Two first enrolments at the  *)
(* same time leave no passkey whose handle would be refused at sign-in.     *)
HandlesAgree == \A k \in PassKeys : passkey[k].st # "none" => device[k].h = handle

(* verify_login_assertion refuses a "sign_count_regression": the stored     *)
(* counter never goes back.                                                 *)
SignCountForward ==
    [][\A k \in PassKeys : passkey'[k].count >= passkey[k].count]_factorVars

(* generate_new_totp_setup "does not enable TOTP until                      *)
(* confirm_totp_enrollment succeeds": while TOTP is on, a code of its       *)
(* secret has been accepted.                                                *)
EnabledConfirmed == totp.on => totp.secret \in confirmed
=============================================================================
