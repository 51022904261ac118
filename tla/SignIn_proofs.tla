---------------------------- MODULE SignIn_proofs ----------------------------
(***************************************************************************)
(* Proofs about how users sign in, for any number of threads, attempts,    *)
(* challenges and authenticators: SignIn (the guesses at a one-time code)  *)
(* and, in the second half, SecondFactors (challenges and user handles).   *)
(***************************************************************************)
EXTENDS SignIn, SecondFactors, FiniteSetTheorems, TLAPS

(* The submissions under way that have read an attempt as an enrolment's.   *)
SetupClaims(a) ==
    {k \in Logins : lpc[k] = "code" /\ lloc[k].of = a /\ lloc[k].kind = "setup"}

Busy == {k \in Logins : lpc[k] # "idle"}

(* A guess is in the attempt's counter, or was before it was started again; *)
(* an attempt is started again only by those who have read it as an         *)
(* enrolment's, which it is not any more afterwards.                        *)
GuessesCounted ==
    \A a \in Attempts :
        /\ guesses[a] <= MaxOtpFailures * resets[a] + attempt[a].failures
        /\ resets[a] + Cardinality(SetupClaims(a)) <= Cardinality(Logins)
        /\ attempt[a].kind = "setup" \/ attempt[a].st = "none" => resets[a] = 0

(* Every login under way may still fail, and passed the throttle.           *)
FailuresRoom == failed + Cardinality(Busy) <= FailuresBound

ClaimsKnown == \A k \in Logins : lpc[k] = "code" => lloc[k].of \in Attempts

SignInInv == SignInTypeOK /\ GuessesCounted /\ FailuresRoom /\ ClaimsKnown

USE SignInAssumption DEF SignInAssumption

-----------------------------------------------------------------------------
(* Counting.                                                                *)

LEMMA LoginsCounted ==
    /\ Cardinality(Logins) \in Nat
    /\ \A S \in SUBSET Logins : Cardinality(S) \in Nat /\ Cardinality(S) <= Cardinality(Logins)
    /\ \A S, R \in SUBSET Logins : S \subseteq R => Cardinality(S) <= Cardinality(R)
    /\ \A S \in SUBSET Logins : \A k \in S : Cardinality(S \ {k}) = Cardinality(S) - 1
    /\ \A S \in SUBSET Logins : \A k \in Logins \ S :
          Cardinality(S \cup {k}) = Cardinality(S) + 1
<1>1. \A S \in SUBSET Logins : IsFiniteSet(S) /\ Cardinality(S) \in Nat
  BY FS_Subset, FS_CardinalityType
<1>2. \A S, R \in SUBSET Logins : S \subseteq R => Cardinality(S) <= Cardinality(R)
  BY <1>1, FS_Subset
<1>3. \A S \in SUBSET Logins : \A k \in S : Cardinality(S \ {k}) = Cardinality(S) - 1
  BY <1>1, FS_RemoveElement
<1>4. \A S \in SUBSET Logins : \A k \in Logins \ S : Cardinality(S \cup {k}) = Cardinality(S) + 1
  BY <1>1, FS_AddElement
<1> QED BY <1>1, <1>2, <1>3, <1>4

(* The counter of one more run of the attempt, and the bound of its type.   *)
LEMMA OneMoreRun ==
    ASSUME NEW r \in Nat, NEW f \in 0..MaxOtpFailures, NEW g \in Nat,
           g <= MaxOtpFailures * r + f
    PROVE /\ g <= MaxOtpFailures * (r + 1)
          /\ \A c \in Nat : r <= c => g <= (c + 1) * MaxOtpFailures
<1>1. MaxOtpFailures * (r + 1) = MaxOtpFailures * r + MaxOtpFailures
  OBVIOUS
<1>2. ASSUME NEW c \in Nat, r <= c PROVE g <= (c + 1) * MaxOtpFailures
  <2>1. PICK d \in Nat : c = r + d
    BY <1>2, c - r \in Nat
  <2>2. (c + 1) * MaxOtpFailures = MaxOtpFailures * r + MaxOtpFailures * d + MaxOtpFailures
    BY <2>1
  <2>3. MaxOtpFailures * d \in Nat /\ MaxOtpFailures * r \in Nat
    OBVIOUS
  <2> QED BY <2>2, <2>3
<1> QED BY <1>1, <1>2

-----------------------------------------------------------------------------
(* Rows and claims.                                                         *)

LEMMA RowParts ==
    \A r \in AttemptRow : r.kind \in {"otp", "setup"} /\ r.failures \in 0..MaxOtpFailures
BY DEF AttemptRow

LEMMA RowStatus ==
    ASSUME NEW r \in AttemptRow, NEW x \in {"none", "live", "expired", "deleted"}
    PROVE /\ [r EXCEPT !.st = x] \in AttemptRow /\ [r EXCEPT !.st = x].st = x
          /\ [r EXCEPT !.st = x].kind = r.kind /\ [r EXCEPT !.st = x].failures = r.failures
BY DEF AttemptRow

LEMMA RowCounts ==
    ASSUME NEW r \in AttemptRow, r.failures < MaxOtpFailures
    PROVE /\ [r EXCEPT !.failures = @ + 1] \in AttemptRow
          /\ [r EXCEPT !.failures = @ + 1].failures = r.failures + 1
          /\ [r EXCEPT !.failures = @ + 1].kind = r.kind
          /\ [r EXCEPT !.failures = @ + 1].st = r.st
          /\ r.failures + 1 \in 0..MaxOtpFailures
BY DEF AttemptRow

LEMMA NoClaimTyped == NoClaim \in Claim /\ NoAttempt \in AttemptRow
BY DEF NoClaim, NoAttempt, Claim, AttemptRow

(* The purge touches the status of expired rows only.                       *)
LEMMA PurgedRows ==
    ASSUME SignInTypeOK
    PROVE /\ Purged \in [Attempts -> AttemptRow]
          /\ \A a \in Attempts :
                /\ Purged[a].kind = attempt[a].kind
                /\ Purged[a].failures = attempt[a].failures
                /\ Purged[a].st = "none" => attempt[a].st = "none"
BY RowStatus DEF SignInTypeOK, Purged

(* What most steps do to the attempts: a row may end, a claim may be given  *)
(* up, and nothing is guessed.                                              *)
RowsKept ==
    \A a \in Attempts : /\ attempt'[a].kind = attempt[a].kind
                        /\ attempt'[a].failures = attempt[a].failures
                        /\ attempt'[a].st = "none" => attempt[a].st = "none"
ClaimsKept == \A k \in Logins : lpc'[k] = "code" => lpc[k] = "code" /\ lloc'[k] = lloc[k]

LEMMA ClaimsShrink ==
    ASSUME ClaimsKept, NEW a
    PROVE /\ SetupClaims(a)' \subseteq SetupClaims(a)
          /\ Cardinality(SetupClaims(a)') <= Cardinality(SetupClaims(a))
          /\ Cardinality(SetupClaims(a)') \in Nat /\ Cardinality(SetupClaims(a)) \in Nat
<1>1. SetupClaims(a)' \subseteq SetupClaims(a) /\ SetupClaims(a) \in SUBSET Logins
  BY DEF ClaimsKept, SetupClaims
<1> QED BY <1>1, LoginsCounted

LEMMA NothingGuessed ==
    ASSUME SignInInv, RowsKept, ClaimsKept, UNCHANGED signHistory
    PROVE GuessesCounted' /\ ClaimsKnown'
<1>1. ClaimsKnown'
  BY DEF SignInInv, ClaimsKnown, ClaimsKept
<1>2. ASSUME NEW a \in Attempts
      PROVE /\ guesses'[a] <= MaxOtpFailures * resets'[a] + attempt'[a].failures
            /\ resets'[a] + Cardinality(SetupClaims(a)') <= Cardinality(Logins)
            /\ attempt'[a].kind = "setup" \/ attempt'[a].st = "none" => resets'[a] = 0
  <2>1. /\ guesses[a] <= MaxOtpFailures * resets[a] + attempt[a].failures
        /\ resets[a] + Cardinality(SetupClaims(a)) <= Cardinality(Logins)
        /\ attempt[a].kind = "setup" \/ attempt[a].st = "none" => resets[a] = 0
        /\ resets[a] \in Nat
    BY LoginsCounted DEF SignInInv, SignInTypeOK, GuessesCounted
  <2>2. guesses' = guesses /\ resets' = resets
    BY DEF signHistory
  <2>3. attempt'[a].failures = attempt[a].failures /\ attempt'[a].kind = attempt[a].kind
        /\ (attempt'[a].st = "none" => attempt[a].st = "none")
    BY DEF RowsKept
  <2>4. resets[a] + Cardinality(SetupClaims(a)') <= Cardinality(Logins)
    BY <2>1, ClaimsShrink, LoginsCounted
  <2> QED BY <2>1, <2>2, <2>3, <2>4
<1> QED BY <1>1, <1>2 DEF GuessesCounted

(* A login comes to its end.                                                *)
LEMMA Ends ==
    ASSUME SignInInv, NEW k \in Logins, lpc[k] # "idle", LoginEnds(k)
    PROVE /\ lpc' \in [Logins -> {"idle", "password", "code", "groups"}]
          /\ lloc' \in [Logins -> Claim]
          /\ ClaimsKept
          /\ Cardinality(Busy') = Cardinality(Busy) - 1
          /\ Cardinality(Busy) \in Nat \ {0}
<1>1. /\ lpc' \in [Logins -> {"idle", "password", "code", "groups"}]
      /\ lloc' \in [Logins -> Claim] /\ ClaimsKept
  BY NoClaimTyped DEF LoginEnds, SignInInv, SignInTypeOK, ClaimsKept
<1>2. Busy' = Busy \ {k} /\ k \in Busy /\ Busy \in SUBSET Logins
  BY DEF LoginEnds, SignInInv, SignInTypeOK, Busy
<1>3. Cardinality(Busy \ {k}) \in Nat
  BY <1>2, LoginsCounted
<1> QED BY <1>1, <1>2, <1>3, LoginsCounted

(* ... or begins: then somebody was idle.                                   *)
LEMMA Begins ==
    ASSUME SignInInv, NEW k \in Logins, lpc[k] = "idle", lpc'[k] # "idle",
           \A j \in Logins \ {k} : lpc'[j] = lpc[j]
    PROVE /\ Cardinality(Busy') = Cardinality(Busy) + 1
          /\ Cardinality(Busy') <= Cardinality(Logins)
          /\ Cardinality(Busy) \in Nat
<1>1. Busy' = Busy \cup {k} /\ k \notin Busy /\ Busy \in SUBSET Logins
  BY DEF SignInInv, SignInTypeOK, Busy
<1>2. Busy \cup {k} \in SUBSET Logins
  BY <1>1
<1> QED BY <1>1, <1>2, LoginsCounted

-----------------------------------------------------------------------------
(* No attempt, nobody at it.                                                *)
LEMMA SignInInvInit == SignInInit => SignInInv
<1> SUFFICES ASSUME SignInInit PROVE SignInInv
  OBVIOUS
<1>1. \A a \in Attempts : SetupClaims(a) = {}
  BY DEF SignInInit, SetupClaims
<1>2. Busy = {} /\ Cardinality({}) = 0
  BY FS_EmptySet DEF SignInInit, Busy
<1>3. GuessesCounted
  BY <1>1, <1>2, LoginsCounted DEF SignInInit, GuessesCounted, NoAttempt
<1>4. 0 \in 0..GuessesBound /\ 0 \in 0..Cardinality(Logins) /\ 0 \in 0..FailuresBound
  <2>1. (Cardinality(Logins) + 1) * MaxOtpFailures \in Nat
    BY LoginsCounted
  <2> QED BY <2>1, LoginsCounted DEF GuessesBound, FailuresBound
<1>5. SignInTypeOK
  BY <1>4, NoClaimTyped DEF SignInInit, SignInTypeOK
<1>6. FailuresRoom /\ ClaimsKnown
  BY <1>2, <1>4 DEF SignInInit, FailuresRoom, ClaimsKnown
<1> QED BY <1>3, <1>5, <1>6 DEF SignInInv

(* The password.                                                            *)
LEMMA PasswordInv ==
    ASSUME SignInInv, NEW k \in Logins,
           \/ PasswordPosted(k) \/ PasswordRefused(k) \/ PasswordAccepted(k)
           \/ PasswordAborted(k) \/ GroupsFetched(k)
    PROVE SignInInv'
<1> USE DEF SignInInv, SignInTypeOK
<1>1. Cardinality(Busy) \in Nat
  BY LoginsCounted DEF Busy
<1>2. CASE PasswordPosted(k)
  <2>1. RowsKept /\ ClaimsKept /\ UNCHANGED signHistory
    <3>1. attempt' = Purged /\ lpc' = [lpc EXCEPT ![k] = "password"] /\ UNCHANGED lloc
          /\ UNCHANGED signHistory
      BY <1>2 DEF PasswordPosted
    <3>2. RowsKept
      BY <3>1, PurgedRows DEF RowsKept
    <3> QED BY <3>1, <3>2 DEF ClaimsKept
  <2>2. FailuresRoom'
    <3>1. /\ lpc[k] = "idle" /\ lpc' = [lpc EXCEPT ![k] = "password"]
          /\ failed < MaxLoginFailures /\ failed' = failed
      BY <1>2 DEF PasswordPosted, NotThrottled
    <3>2. Cardinality(Busy') <= Cardinality(Logins) /\ Cardinality(Busy') \in Nat
      <4>1. lpc'[k] # "idle" /\ \A j \in Logins \ {k} : lpc'[j] = lpc[j]
        BY <3>1
      <4>2. Cardinality(Busy') = Cardinality(Busy) + 1 /\ Cardinality(Busy) \in Nat
            /\ Cardinality(Busy') <= Cardinality(Logins)
        BY <3>1, <4>1, Begins
      <4> QED BY <4>2
    <3> QED BY <3>1, <3>2, LoginsCounted DEF FailuresRoom, FailuresBound
  <2>3. SignInTypeOK'
    BY <1>2, PurgedRows DEF PasswordPosted, signHistory
  <2> QED BY <2>1, <2>2, <2>3, NothingGuessed
<1>3. CASE PasswordRefused(k)
  <2>1. RowsKept /\ ClaimsKept /\ UNCHANGED signHistory /\ LoginEnds(k) /\ lpc[k] # "idle"
    BY <1>3, Ends DEF PasswordRefused, RowsKept
  <2>2. FailuresRoom' /\ failed' \in 0..FailuresBound
    BY <1>3, <2>1, Ends, LoginsCounted DEF PasswordRefused, FailuresRoom, FailuresBound
  <2>3. SignInTypeOK'
    BY <1>3, <2>1, <2>2, Ends DEF PasswordRefused, signHistory
  <2> QED BY <2>1, <2>2, <2>3, NothingGuessed
<1>4. ASSUME SessionIssued(k), lpc[k] # "idle", UNCHANGED <<attempt, factor, rpc, signFaults, signHistory>>
      PROVE SignInInv'
  <2>1. RowsKept /\ ClaimsKept /\ UNCHANGED signHistory /\ LoginEnds(k) /\ failed' = 0
    BY <1>4, Ends DEF SessionIssued, RowsKept
  <2>2. FailuresRoom'
    BY <1>1, <1>4, <2>1, Ends, LoginsCounted DEF FailuresRoom, FailuresBound
  <2>3. SignInTypeOK'
    BY <1>4, <2>1, Ends, LoginsCounted DEF SessionIssued, signHistory, FailuresBound
  <2> QED BY <2>1, <2>2, <2>3, NothingGuessed
<1>5. CASE PasswordAccepted(k)
  <2>1. CASE SessionIssued(k)
    BY <1>4, <1>5, <2>1 DEF PasswordAccepted
  <2>2. CASE lpc' = [lpc EXCEPT ![k] = "groups"] /\ UNCHANGED <<session, failed, lloc>>
    <3>1. RowsKept /\ ClaimsKept /\ UNCHANGED signHistory
      BY <1>5, <2>2 DEF PasswordAccepted, RowsKept, ClaimsKept
    <3>2. Busy' = Busy
      BY <1>5, <2>2 DEF PasswordAccepted, Busy
    <3>3. FailuresRoom' /\ SignInTypeOK'
      BY <1>5, <2>2, <3>2 DEF PasswordAccepted, FailuresRoom, signHistory
    <3> QED BY <3>1, <3>3, NothingGuessed
  <2> QED BY <1>5, <2>1, <2>2 DEF PasswordAccepted
<1>6. CASE PasswordAborted(k)
  <2>1. RowsKept /\ ClaimsKept /\ UNCHANGED signHistory /\ LoginEnds(k) /\ lpc[k] # "idle"
    BY <1>6, Ends DEF PasswordAborted, RowsKept
  <2>2. FailuresRoom'
    BY <1>6, <2>1, Ends, LoginsCounted DEF PasswordAborted, FailuresRoom, FailuresBound
  <2>3. SignInTypeOK'
    BY <1>6, <2>1, Ends DEF PasswordAborted, SignTrouble, signHistory
  <2> QED BY <2>1, <2>2, <2>3, NothingGuessed
<1>7. CASE GroupsFetched(k)
  BY <1>4, <1>7 DEF GroupsFetched
<1> QED BY <1>2, <1>3, <1>5, <1>6, <1>7

(* The attempt is kept for its code: only a row nobody has used.            *)
LEMMA AskedInv ==
    ASSUME SignInInv, NEW k \in Logins, NEW a \in Attempts, SecondFactorAsked(k, a)
    PROVE SignInInv'
<1> USE DEF SignInInv, SignInTypeOK
<1>1. LoginEnds(k) /\ lpc[k] # "idle" /\ UNCHANGED <<session, failed, rpc, signFaults, signHistory>>
  BY DEF SecondFactorAsked
<1>2. PICK kind \in {"otp", "setup"} :
         /\ attempt' = [attempt EXCEPT ![a] = [[attempt[a] EXCEPT !.st = "live"] EXCEPT !.kind = kind]]
         /\ factor' = [factor EXCEPT ![a] = kind]
  BY DEF SecondFactorAsked
<1>3. /\ attempt' \in [Attempts -> AttemptRow]
      /\ attempt'[a].st = "live" /\ attempt'[a].failures = attempt[a].failures
      /\ \A b \in Attempts \ {a} : attempt'[b] = attempt[b]
  <2> DEFINE row == [attempt[a] EXCEPT !.st = "live"]
  <2>1. row \in AttemptRow /\ row.st = "live" /\ row.failures = attempt[a].failures
    BY RowStatus
  <2>2. /\ [row EXCEPT !.kind = kind] \in AttemptRow /\ [row EXCEPT !.kind = kind].st = "live"
        /\ [row EXCEPT !.kind = kind].failures = attempt[a].failures
    <3> HIDE DEF row
    <3> QED BY <2>1 DEF AttemptRow
  <2>3. attempt' = [attempt EXCEPT ![a] = [row EXCEPT !.kind = kind]]
    BY <1>2
  <2> QED BY <2>2, <2>3
<1>4. FailuresRoom' /\ SignInTypeOK' /\ ClaimsKnown' /\ ClaimsKept
  <2>1. FailuresRoom'
    BY <1>1, Ends, LoginsCounted DEF FailuresRoom, FailuresBound
  <2>2. SignInTypeOK'
    BY <1>1, <1>2, <1>3, Ends DEF signHistory
  <2>3. ClaimsKnown' /\ ClaimsKept
    BY <1>1, Ends DEF ClaimsKnown, ClaimsKept
  <2> QED BY <2>1, <2>2, <2>3
<1>5. attempt[a].st = "none"
  BY DEF SecondFactorAsked
<1>6. ASSUME NEW b \in Attempts
      PROVE /\ guesses'[b] <= MaxOtpFailures * resets'[b] + attempt'[b].failures
            /\ resets'[b] + Cardinality(SetupClaims(b)') <= Cardinality(Logins)
            /\ attempt'[b].kind = "setup" \/ attempt'[b].st = "none" => resets'[b] = 0
  <2>1. /\ guesses[b] <= MaxOtpFailures * resets[b] + attempt[b].failures
        /\ resets[b] + Cardinality(SetupClaims(b)) <= Cardinality(Logins)
        /\ attempt[b].kind = "setup" \/ attempt[b].st = "none" => resets[b] = 0
        /\ resets[b] \in Nat
    BY LoginsCounted DEF GuessesCounted
  <2>2. guesses' = guesses /\ resets' = resets
    BY <1>1 DEF signHistory
  <2>3. attempt'[b].failures = attempt[b].failures
    BY <1>3
  <2>4. resets[b] + Cardinality(SetupClaims(b)') <= Cardinality(Logins)
    BY <1>4, <2>1, ClaimsShrink, LoginsCounted
  <2>5. attempt'[b].kind = "setup" \/ attempt'[b].st = "none" => resets[b] = 0
    BY <1>3, <1>5, <2>1
  <2> QED BY <2>1, <2>2, <2>3, <2>4, <2>5
<1>7. GuessesCounted'
  BY <1>6 DEF GuessesCounted
<1> QED BY <1>4, <1>7

(* The claim counts the guess in the row it has read.                       *)
LEMMA ClaimedInv ==
    ASSUME SignInInv, NEW k \in Logins, NEW a \in Attempts, CodeClaimed(k, a)
    PROVE SignInInv'
<1> USE DEF SignInInv, SignInTypeOK
<1>1. /\ lpc[k] = "idle" /\ lpc' = [lpc EXCEPT ![k] = "code"]
      /\ failed < MaxLoginFailures /\ attempt[a].st = "live"
      /\ UNCHANGED <<factor, session, failed, rpc, signFaults, resets>>
      /\ guesses' = [guesses EXCEPT ![a] = @ + 1]
  BY DEF CodeClaimed, NotThrottled
<1>2. /\ attempt' = [Purged EXCEPT ![a] = [Purged[a] EXCEPT !.failures = @ + 1]]
      /\ Purged[a] = attempt[a] /\ attempt[a].failures < MaxOtpFailures
      /\ Purged \in [Attempts -> AttemptRow]
  BY PurgedRows DEF CodeClaimed, Purged
<1>3. /\ attempt' \in [Attempts -> AttemptRow]
      /\ attempt'[a].failures = attempt[a].failures + 1 /\ attempt'[a].kind = attempt[a].kind
      /\ attempt'[a].st = "live"
      /\ \A b \in Attempts \ {a} : attempt'[b] = Purged[b]
  BY <1>1, <1>2, RowCounts
<1>4. \E c \in Claim : /\ lloc' = [lloc EXCEPT ![k] = c]
                       /\ c.of = a /\ c.kind = attempt[a].kind
  <2>1. /\ [of |-> a, kind |-> attempt[a].kind, failures |-> attempt[a].failures + 1] \in Claim
        /\ lloc' = [lloc EXCEPT ![k] = [of |-> a, kind |-> attempt[a].kind,
                                        failures |-> attempt[a].failures + 1]]
    BY <1>2, RowCounts, RowParts DEF CodeClaimed, Claim
  <2> QED BY <2>1
<1>5. FailuresRoom'
  <2>1. Cardinality(Busy') <= Cardinality(Logins) /\ Cardinality(Busy') \in Nat
    <3>1. lpc'[k] # "idle" /\ \A j \in Logins \ {k} : lpc'[j] = lpc[j]
      BY <1>1
    <3>2. Cardinality(Busy') = Cardinality(Busy) + 1 /\ Cardinality(Busy) \in Nat
          /\ Cardinality(Busy') <= Cardinality(Logins)
      BY <1>1, <3>1, Begins
    <3> QED BY <3>2
  <2> QED BY <1>1, <2>1, LoginsCounted DEF FailuresRoom, FailuresBound
<1>6. ClaimsKnown'
  BY <1>1, <1>4 DEF ClaimsKnown
<1>7. ASSUME NEW b \in Attempts
      PROVE /\ guesses'[b] <= MaxOtpFailures * resets'[b] + attempt'[b].failures
            /\ resets'[b] + Cardinality(SetupClaims(b)') <= Cardinality(Logins)
            /\ attempt'[b].kind = "setup" \/ attempt'[b].st = "none" => resets'[b] = 0
            /\ guesses'[b] \in 0..GuessesBound
  <2>1. /\ guesses[b] <= MaxOtpFailures * resets[b] + attempt[b].failures
        /\ resets[b] + Cardinality(SetupClaims(b)) <= Cardinality(Logins)
        /\ attempt[b].kind = "setup" \/ attempt[b].st = "none" => resets[b] = 0
        /\ resets[b] \in Nat /\ guesses[b] \in Nat /\ MaxOtpFailures * resets[b] \in Nat
        /\ resets[b] <= Cardinality(Logins)
    BY LoginsCounted DEF GuessesCounted
  <2>2. attempt'[b].kind = attempt[b].kind /\ (attempt'[b].st = "none" => attempt[b].st = "none")
    BY <1>1, <1>3, PurgedRows
  <2>3. guesses'[b] <= MaxOtpFailures * resets[b] + attempt'[b].failures /\ guesses'[b] \in Nat
    <3>1. CASE b = a
      BY <1>1, <1>3, <2>1, <3>1, RowParts
    <3>2. CASE b # a
      BY <1>1, <1>3, <2>1, <3>2, PurgedRows
    <3> QED BY <3>1, <3>2
  <2>4. attempt'[b].failures \in 0..MaxOtpFailures
    BY <1>3, RowParts
  <2>5. guesses'[b] \in 0..GuessesBound
    BY <2>1, <2>3, <2>4, OneMoreRun, LoginsCounted DEF GuessesBound
  <2>6. resets[b] + Cardinality(SetupClaims(b)') <= Cardinality(Logins)
    <3>1. SetupClaims(b)' \in SUBSET Logins /\ SetupClaims(b) \in SUBSET Logins
      BY DEF SetupClaims
    <3>2. CASE attempt[b].kind = "setup"
      BY <2>1, <3>1, <3>2, LoginsCounted
    <3>3. CASE attempt[b].kind # "setup"
      <4>1. SetupClaims(b)' \subseteq SetupClaims(b)
        BY <1>1, <1>4, <3>3 DEF SetupClaims
      <4> QED BY <2>1, <3>1, <4>1, LoginsCounted
    <3> QED BY <3>2, <3>3
  <2> QED BY <1>1, <2>1, <2>2, <2>3, <2>5, <2>6
<1>8. GuessesCounted'
  BY <1>7 DEF GuessesCounted
<1>9. SignInTypeOK'
  <2>1. guesses' \in [Attempts -> 0..GuessesBound]
    BY <1>1, <1>7
  <2>2. lloc' \in [Logins -> Claim]
    BY <1>4
  <2> QED BY <1>1, <1>3, <2>1, <2>2
<1> QED BY <1>5, <1>6, <1>8, <1>9

(* ... or meets a row that is spent.                                        *)
LEMMA NotClaimedInv ==
    ASSUME SignInInv, NEW k \in Logins, NEW a \in Attempts, CodeNotClaimed(k, a)
    PROVE SignInInv'
<1> USE DEF SignInInv, SignInTypeOK
<1>1. /\ lpc[k] = "idle" /\ failed < MaxLoginFailures /\ failed' = failed + 1
      /\ UNCHANGED <<factor, session, lpc, lloc, rpc, signFaults, signHistory>>
      /\ attempt' = [Purged EXCEPT ![a] = [Purged[a] EXCEPT !.st = "deleted"]]
  BY DEF CodeNotClaimed, NotThrottled
<1>2. Purged \in [Attempts -> AttemptRow]
  BY PurgedRows
<1>3. /\ attempt' \in [Attempts -> AttemptRow] /\ attempt'[a].st = "deleted"
      /\ attempt'[a].failures = Purged[a].failures /\ attempt'[a].kind = Purged[a].kind
      /\ \A b \in Attempts \ {a} : attempt'[b] = Purged[b]
  <2> DEFINE row == [Purged[a] EXCEPT !.st = "deleted"]
  <2>1. /\ row \in AttemptRow /\ row.st = "deleted"
        /\ row.failures = Purged[a].failures /\ row.kind = Purged[a].kind
    BY <1>2, RowStatus
  <2>2. attempt' = [Purged EXCEPT ![a] = row]
    BY <1>1
  <2> HIDE DEF row
  <2> QED BY <1>2, <2>1, <2>2
<1>4. RowsKept /\ ClaimsKept
  BY <1>1, <1>3, PurgedRows DEF RowsKept, ClaimsKept
<1>5. Busy' = Busy /\ Cardinality(Busy) + 1 <= Cardinality(Logins) /\ Cardinality(Busy) \in Nat
  <2>1. Busy \in SUBSET Logins /\ Busy \cup {k} \in SUBSET Logins /\ k \notin Busy
    BY <1>1 DEF Busy
  <2>2. Busy' = Busy
    BY <1>1 DEF Busy
  <2> QED BY <2>1, <2>2, LoginsCounted
<1>6. FailuresRoom' /\ failed' \in 0..FailuresBound
  BY <1>1, <1>5, LoginsCounted DEF FailuresRoom, FailuresBound
<1>7. SignInTypeOK'
  BY <1>1, <1>3, <1>6 DEF signHistory
<1>8. UNCHANGED signHistory
  BY <1>1
<1> QED BY <1>4, <1>6, <1>7, <1>8, NothingGuessed

(* A status is written, and no row becomes one that was never used.         *)
LEMMA StatusWritten ==
    ASSUME SignInInv, NEW a \in Attempts,
           NEW x \in {"live", "expired", "deleted", attempt[a].st},
           attempt' = [attempt EXCEPT ![a].st = x]
    PROVE attempt' \in [Attempts -> AttemptRow] /\ RowsKept
<1> DEFINE row == [attempt[a] EXCEPT !.st = x]
<1>1. attempt \in [Attempts -> AttemptRow] /\ attempt[a] \in AttemptRow
  BY DEF SignInInv, SignInTypeOK
<1>2. x \in {"none", "live", "expired", "deleted"} /\ (x = "none" => attempt[a].st = "none")
  BY <1>1 DEF AttemptRow
<1>3. /\ row \in AttemptRow /\ row.st = x
      /\ row.failures = attempt[a].failures /\ row.kind = attempt[a].kind
  BY <1>1, <1>2, RowStatus
<1>4. attempt' = [attempt EXCEPT ![a] = row]
  OBVIOUS
<1> HIDE DEF row
<1> QED BY <1>1, <1>2, <1>3, <1>4 DEF RowsKept

(* The code: refused, accepted or not decided.                              *)
LEMMA CodeEndsInv ==
    ASSUME SignInInv, NEW k \in Logins, CodeRefused(k) \/ CodeAccepted(k) \/ CodeAborted(k)
    PROVE SignInInv'
<1> USE DEF SignInInv, SignInTypeOK
<1> DEFINE a == lloc[k].of
<1>1. lpc[k] = "code" /\ a \in Attempts
  BY DEF CodeRefused, CodeAccepted, CodeAborted, ClaimsKnown
<1>2. attempt' \in [Attempts -> AttemptRow] /\ RowsKept
  <2>1. \/ UNCHANGED attempt
        \/ \E x \in {"live", "expired", "deleted", attempt[a].st} :
              attempt' = [attempt EXCEPT ![a].st = x]
    BY DEF CodeRefused, CodeAccepted, CodeAborted, AfterFailed
  <2>2. CASE UNCHANGED attempt
    BY <2>2 DEF RowsKept
  <2> QED BY <1>1, <2>1, <2>2, StatusWritten
<1>3. UNCHANGED signHistory /\ UNCHANGED rpc /\ signFaults' \in 0..MaxSignFaults
      /\ factor' \in [Attempts -> {"otp", "setup", "done"}]
  BY <1>1 DEF CodeRefused, CodeAccepted, CodeAborted, SignTrouble, signHistory
<1>4. Cardinality(Busy) \in Nat
  BY LoginsCounted DEF Busy
<1>5. CASE LoginEnds(k) /\ failed' \in {0, failed, failed + 1}
           /\ session' \in [Jtis -> {"none", "active", "revoked"}]
  <2>1. /\ lpc' \in [Logins -> {"idle", "password", "code", "groups"}]
        /\ lloc' \in [Logins -> Claim] /\ ClaimsKept
        /\ Cardinality(Busy') = Cardinality(Busy) - 1 /\ Cardinality(Busy) \in Nat \ {0}
    BY <1>1, <1>5, Ends
  <2>2. FailuresRoom' /\ failed' \in 0..FailuresBound
    BY <1>5, <2>1, LoginsCounted DEF FailuresRoom, FailuresBound
  <2>3. SignInTypeOK'
    BY <1>2, <1>3, <1>5, <2>1, <2>2 DEF signHistory
  <2> QED BY <1>2, <1>3, <2>1, <2>2, <2>3, NothingGuessed
<1>6. CASE /\ lpc' = [lpc EXCEPT ![k] = "groups"] /\ lloc' = [lloc EXCEPT ![k] = NoClaim]
           /\ UNCHANGED <<session, failed>>
  <2>1. ClaimsKept
    BY <1>6 DEF ClaimsKept
  <2>2. Busy' = Busy
    BY <1>1, <1>6 DEF Busy
  <2>3. FailuresRoom'
    BY <1>6, <2>2 DEF FailuresRoom
  <2>4. SignInTypeOK'
    BY <1>2, <1>3, <1>6, NoClaimTyped DEF signHistory
  <2> QED BY <1>2, <1>3, <2>1, <2>3, <2>4, NothingGuessed
<1>7. CASE CodeRefused(k)
  BY <1>5, <1>7 DEF CodeRefused
<1>8. CASE CodeAccepted(k)
  <2>1. CASE SessionIssued(k)
    BY <1>5, <2>1 DEF SessionIssued
  <2>2. CASE ~SessionIssued(k)
    BY <1>5, <1>6, <1>8, <2>2 DEF CodeAccepted
  <2> QED BY <2>1, <2>2
<1>9. CASE CodeAborted(k)
  BY <1>5, <1>9 DEF CodeAborted
<1> QED BY <1>7, <1>8, <1>9

(* An enrolment starts the counter once more, and gives up one claim.       *)
LEMMA EnrolledInv ==
    ASSUME SignInInv, NEW k \in Logins, EnrolmentAccepted(k)
    PROVE SignInInv'
<1> USE DEF SignInInv, SignInTypeOK
<1>0. PICK a \in Attempts : a = lloc[k].of
  BY DEF EnrolmentAccepted, ClaimsKnown
<1>1. lpc[k] = "code" /\ lloc[k].of = a /\ lloc[k].kind = "setup" /\ LoginEnds(k)
      /\ factor' = [factor EXCEPT ![a] = "otp"]
      /\ UNCHANGED <<session, failed, rpc, signFaults, guesses>>
  BY <1>0 DEF EnrolmentAccepted
<1>2. /\ lpc' \in [Logins -> {"idle", "password", "code", "groups"}]
      /\ lloc' \in [Logins -> Claim] /\ ClaimsKept
      /\ Cardinality(Busy') = Cardinality(Busy) - 1 /\ Cardinality(Busy) \in Nat \ {0}
  BY <1>1, Ends
<1>3. FailuresRoom'
  BY <1>1, <1>2, LoginsCounted DEF FailuresRoom, FailuresBound
<1>4. CASE UNCHANGED <<attempt, resets>>
  <2>1. RowsKept /\ UNCHANGED signHistory
    BY <1>1, <1>4 DEF RowsKept, signHistory
  <2>2. SignInTypeOK'
    BY <1>1, <1>2, <1>4
  <2> QED BY <1>2, <1>3, <2>1, <2>2, NothingGuessed
<1>5. CASE /\ Present(k)
           /\ attempt' = [attempt EXCEPT ![a].failures = 0, ![a].kind = "otp"]
           /\ resets' = [resets EXCEPT ![a] = @ + 1]
  <2>1. /\ attempt' \in [Attempts -> AttemptRow]
        /\ attempt'[a].failures = 0 /\ attempt'[a].kind = "otp"
        /\ attempt'[a].st = attempt[a].st /\ attempt[a].st # "none"
        /\ \A b \in Attempts \ {a} : attempt'[b] = attempt[b]
    <3> DEFINE row == [attempt[a] EXCEPT !.failures = 0]
    <3>1. attempt[a] \in AttemptRow /\ attempt[a].st # "none"
      BY <1>0, <1>5 DEF Present, Row
    <3>2. row \in AttemptRow /\ row.failures = 0 /\ row.st = attempt[a].st
      BY <3>1 DEF AttemptRow
    <3>3. /\ [row EXCEPT !.kind = "otp"] \in AttemptRow /\ [row EXCEPT !.kind = "otp"].kind = "otp"
          /\ [row EXCEPT !.kind = "otp"].failures = 0
          /\ [row EXCEPT !.kind = "otp"].st = attempt[a].st
      <4> HIDE DEF row
      <4> QED BY <3>2 DEF AttemptRow
    <3>4. attempt' = [attempt EXCEPT ![a] = [row EXCEPT !.kind = "otp"]]
      BY <1>1, <1>5
    <3> HIDE DEF row
    <3> QED BY <1>1, <3>1, <3>3, <3>4
  <2>2. ASSUME NEW b \in Attempts
        PROVE /\ guesses'[b] <= MaxOtpFailures * resets'[b] + attempt'[b].failures
              /\ resets'[b] + Cardinality(SetupClaims(b)') <= Cardinality(Logins)
              /\ attempt'[b].kind = "setup" \/ attempt'[b].st = "none" => resets'[b] = 0
              /\ resets'[b] \in 0..Cardinality(Logins)
    <3>1. /\ guesses[b] <= MaxOtpFailures * resets[b] + attempt[b].failures
          /\ resets[b] + Cardinality(SetupClaims(b)) <= Cardinality(Logins)
          /\ attempt[b].kind = "setup" \/ attempt[b].st = "none" => resets[b] = 0
          /\ resets[b] \in Nat /\ guesses[b] \in Nat
          /\ resets[b] <= Cardinality(Logins)
          /\ attempt[b].failures \in 0..MaxOtpFailures
      BY LoginsCounted, RowParts DEF GuessesCounted
    <3>2. /\ Cardinality(SetupClaims(b)') <= Cardinality(SetupClaims(b))
          /\ Cardinality(SetupClaims(b)') \in Nat /\ Cardinality(SetupClaims(b)) \in Nat
      BY <1>2, ClaimsShrink
    <3>3. CASE b # a
      BY <1>1, <1>5, <2>1, <3>1, <3>2, <3>3, LoginsCounted
    <3>4. CASE b = a
      <4>1. resets'[a] = resets[a] + 1 /\ guesses'[a] = guesses[a]
        BY <1>1, <1>5
      <4>2. guesses[a] <= MaxOtpFailures * (resets[a] + 1)
        BY <3>1, <3>4, OneMoreRun
      <4>3. Cardinality(SetupClaims(a)') <= Cardinality(SetupClaims(a)) - 1
        <5>1. /\ k \in SetupClaims(a) /\ SetupClaims(a) \in SUBSET Logins
              /\ k \notin SetupClaims(a)' /\ SetupClaims(a)' \subseteq SetupClaims(a)
          <6>1. k \in SetupClaims(a) /\ SetupClaims(a) \in SUBSET Logins
            BY <1>1 DEF SetupClaims
          <6>2. k \notin SetupClaims(a)'
            BY <1>1 DEF SetupClaims, LoginEnds
          <6>3. SetupClaims(a)' \subseteq SetupClaims(a)
            BY <1>2 DEF SetupClaims, ClaimsKept
          <6> QED BY <6>1, <6>2, <6>3
        <5>2. SetupClaims(a)' \subseteq SetupClaims(a) \ {k}
              /\ SetupClaims(a)' \in SUBSET Logins /\ SetupClaims(a) \ {k} \in SUBSET Logins
          BY <5>1
        <5>3. Cardinality(SetupClaims(a)') <= Cardinality(SetupClaims(a) \ {k})
          BY <5>2, LoginsCounted
        <5> QED BY <5>1, <5>3, LoginsCounted
      <4>4. resets'[a] + Cardinality(SetupClaims(a)') <= Cardinality(Logins)
        BY <3>1, <3>2, <3>4, <4>1, <4>3, LoginsCounted
      <4>5. MaxOtpFailures * (resets[a] + 1) \in Nat
        BY <3>1, <3>4
      <4> QED BY <2>1, <3>1, <3>2, <3>4, <4>1, <4>2, <4>4, <4>5, LoginsCounted
    <3> QED BY <3>3, <3>4
  <2>3. GuessesCounted'
    BY <2>2 DEF GuessesCounted
  <2>4. SignInTypeOK'
    <3>1. resets' \in [Attempts -> 0..Cardinality(Logins)]
      BY <1>5, <2>2
    <3> QED BY <1>1, <1>2, <2>1, <3>1
  <2>5. ClaimsKnown'
    BY <1>2 DEF ClaimsKnown, ClaimsKept
  <2> QED BY <1>3, <2>3, <2>4, <2>5
<1> QED BY <1>0, <1>4, <1>5 DEF EnrolmentAccepted

(* Revocations, time and restarts: no guess, and no login but what is lost. *)
LEMMA OtherInv ==
    ASSUME SignInInv,
           \/ \E d \in Revokers : \/ \E scope \in {"disconnect", "others"} : RevocationBegins(d, scope)
                                  \/ Disconnected(d)
                                  \/ \E j \in Jtis : OthersRevoked(d, j)
           \/ \E j \in Jtis : LoggedOut(j)
           \/ \E a \in Attempts : AttemptExpires(a)
           \/ FailuresAge \/ SignInRestarts
           \/ UNCHANGED signVars
    PROVE SignInInv'
<1> USE DEF SignInInv, SignInTypeOK, signHistory
<1>1. Cardinality(Busy) \in Nat
  BY LoginsCounted DEF Busy
<1>2. ASSUME UNCHANGED <<attempt, factor, lpc, lloc, signFaults, signHistory>>,
             failed' \in 0..failed, session' \in [Jtis -> {"none", "active", "revoked"}],
             rpc' \in [Revokers -> {"idle", "disconnect", "others"}]
      PROVE SignInInv'
  <2>1. Busy' = Busy /\ RowsKept /\ ClaimsKept
    BY <1>2 DEF Busy, RowsKept, ClaimsKept
  <2>2. FailuresRoom' /\ failed' \in 0..FailuresBound
    BY <1>1, <1>2, <2>1, LoginsCounted DEF FailuresRoom, FailuresBound
  <2> QED BY <1>2, <2>1, <2>2, NothingGuessed
<1>3. ASSUME NEW d \in Revokers, NEW scope \in {"disconnect", "others"}, RevocationBegins(d, scope)
      PROVE SignInInv'
  BY <1>2, <1>3 DEF RevocationBegins
<1>4. RevokedAll \in [Jtis -> {"none", "active", "revoked"}]
  BY DEF RevokedAll
<1>5. ASSUME NEW d \in Revokers, Disconnected(d) PROVE SignInInv'
  BY <1>2, <1>4, <1>5 DEF Disconnected
<1>6. ASSUME NEW d \in Revokers, NEW j \in Jtis, OthersRevoked(d, j) PROVE SignInInv'
  BY <1>2, <1>4, <1>6 DEF OthersRevoked
<1>7. ASSUME NEW j \in Jtis, LoggedOut(j) PROVE SignInInv'
  BY <1>2, <1>7 DEF LoggedOut
<1>8. ASSUME NEW a \in Attempts, AttemptExpires(a) PROVE SignInInv'
  <2>1. attempt' \in [Attempts -> AttemptRow] /\ RowsKept
    BY <1>8, StatusWritten DEF AttemptExpires
  <2>2. Busy' = Busy /\ ClaimsKept
    BY <1>8 DEF AttemptExpires, Busy, ClaimsKept
  <2>3. FailuresRoom' /\ SignInTypeOK'
    BY <1>8, <2>1, <2>2 DEF AttemptExpires, FailuresRoom
  <2> QED BY <1>8, <2>1, <2>2, <2>3, NothingGuessed DEF AttemptExpires
<1>9. CASE FailuresAge
  BY <1>2, <1>9 DEF FailuresAge
<1>10. CASE SignInRestarts
  <2>1. RowsKept /\ ClaimsKept
    BY <1>10 DEF SignInRestarts, RowsKept, ClaimsKept
  <2>2. Busy' = {} /\ Cardinality({}) = 0
    BY <1>10, FS_EmptySet DEF SignInRestarts, Busy
  <2>3. FailuresRoom' /\ 0 \in 0..FailuresBound
    BY <1>10, <2>2, LoginsCounted DEF SignInRestarts, FailuresRoom, FailuresBound
  <2>4. SignInTypeOK'
    BY <1>10, <2>3, NoClaimTyped DEF SignInRestarts, SignTrouble
  <2> QED BY <1>10, <2>1, <2>3, <2>4, NothingGuessed DEF SignInRestarts
<1>11. CASE UNCHANGED signVars
  BY <1>2, <1>11 DEF signVars
<1> QED BY <1>3, <1>5, <1>6, <1>7, <1>8, <1>9, <1>10, <1>11

(* One lemma per group of actions.                                          *)
LEMMA SignInInvHolds == SignInSpec => []SignInInv
<1>1. SignInInv /\ [SignInNext]_signVars => SignInInv'
  <2> SUFFICES ASSUME SignInInv, [SignInNext]_signVars PROVE SignInInv'
    OBVIOUS
  <2>1. ASSUME NEW k \in Logins, LoginStep(k) PROVE SignInInv'
    BY <2>1, PasswordInv, AskedInv, ClaimedInv, NotClaimedInv, CodeEndsInv, EnrolledInv
       DEF LoginStep
  <2> QED BY <2>1, OtherInv DEF SignInNext
<1> QED BY SignInInvInit, <1>1, PTL DEF SignInSpec

(* Rows, counters and threads keep their types; of the throttle: at most    *)
(* OIDC_LOGIN_MAX_FAILURES and one more for each login at the same time.    *)
THEOREM SignInTypeCorrect == SignInSpec => []SignInTypeOK
<1>1. SignInInv => SignInTypeOK
  BY DEF SignInInv
<1> QED BY SignInInvHolds, <1>1, PTL

(* _claim_otp_attempt counts the guess before Keycloak is asked: whatever   *)
(* is submitted in parallel, an attempt takes MAX_OTP_FAILURES guesses for  *)
(* each time its counter was started, which are bounded.                    *)
THEOREM GuessesStayBounded == SignInSpec => []GuessesBounded
<1>1. SignInInv => GuessesBounded
  <2> SUFFICES ASSUME SignInInv, NEW a \in Attempts
               PROVE /\ guesses[a] <= MaxOtpFailures * (1 + resets[a])
                     /\ resets[a] <= Cardinality(Logins)
    BY DEF GuessesBounded
  <2>1. /\ guesses[a] <= MaxOtpFailures * resets[a] + attempt[a].failures
        /\ guesses[a] \in Nat /\ resets[a] \in 0..Cardinality(Logins)
        /\ attempt[a].failures \in 0..MaxOtpFailures
    BY RowParts, LoginsCounted DEF SignInInv, SignInTypeOK, GuessesCounted
  <2> QED BY <2>1, OneMoreRun, LoginsCounted
<1> QED BY SignInInvHolds, <1>1, PTL

-----------------------------------------------------------------------------
(* SecondFactors.                                                           *)

(* An enrolment past its handle has the identity's, and a passkey that is   *)
(* stored was given it: once drawn, a handle never changes.                 *)
HandleShared ==
    /\ \A e \in Enrollers :
          enrolAt[e] \in {"handle", "offered", "accepted"} =>
              eloc[e].h = handle /\ handle # Nobody
    /\ \A k \in PassKeys : passkey[k].st # "none" => device[k].h = handle /\ handle # Nobody

(* What has let a verification through is used, and stays so.               *)
BurntOnce == \A c \in Challenges : /\ passes[c] <= 1
                                   /\ passes[c] # 0 => challenge[c] = "used"

(* A thread that has begun knows the challenge and the passkey it is about. *)
UnderWay ==
    /\ \A e \in Enrollers : enrolAt[e] = "offered" => eloc[e].c \in Challenges
    /\ \A v \in Verifiers : vpc[v] # "idle" => vloc[v].c \in Challenges /\ vloc[v].k \in PassKeys

FactorsInv == FactorsTypeOK /\ HandleShared /\ BurntOnce /\ UnderWay

USE SecondFactorsAssumption DEF SecondFactorsAssumption, Nobody, Draws

(* There is room in the type of passes for one verification.                *)
LEMMA OneVerifier == ASSUME NEW v \in Verifiers PROVE Cardinality(Verifiers) \in Nat \ {0}
BY FS_CardinalityType, FS_EmptySet

(* A field is written, the others stay.                                     *)
LEMMA RowCounted ==
    ASSUME NEW r \in PasskeyRow, NEW n \in 0..MaxUses
    PROVE [r EXCEPT !.count = n] \in PasskeyRow /\ [r EXCEPT !.count = n].st = r.st
BY DEF PasskeyRow

LEMMA RowMarked ==
    ASSUME NEW r \in PasskeyRow, NEW x \in {"none", "active", "revoked"}
    PROVE [r EXCEPT !.st = x] \in PasskeyRow /\ [r EXCEPT !.st = x].st = x
BY DEF PasskeyRow

LEMMA DeviceGiven ==
    ASSUME NEW d \in Device, NEW h \in Draws
    PROVE [d EXCEPT !.h = h] \in Device /\ [d EXCEPT !.h = h].h = h
BY DEF Device

LEMMA DeviceCounts ==
    ASSUME NEW d \in Device, d.count < MaxUses
    PROVE /\ [d EXCEPT !.count = @ + 1] \in Device
          /\ [d EXCEPT !.count = @ + 1].h = d.h
          /\ d.count + 1 \in 1..MaxUses
BY DEF Device

LEMMA HandleNoted ==
    ASSUME NEW x \in Enrolment, NEW h \in Draws
    PROVE [x EXCEPT !.h = h] \in Enrolment /\ [x EXCEPT !.h = h].h = h
BY DEF Enrolment

LEMMA ChallengeNoted ==
    ASSUME NEW x \in Enrolment, NEW c \in Challenges
    PROVE /\ [x EXCEPT !.c = c] \in Enrolment
          /\ [x EXCEPT !.c = c].c = c /\ [x EXCEPT !.c = c].h = x.h
BY DEF Enrolment

LEMMA AssertionTyped ==
    /\ [c: Challenges, k: PassKeys, n: 1..MaxUses] \subseteq Assertion
    /\ NoAssertion \in Assertion
    /\ \A s \in Assertion : s.n \in 0..MaxUses
BY DEF Assertion, NoAssertion

(* Nothing is issued, enrolled or posted at first.                          *)
LEMMA FactorsInvInit == FactorsInit => FactorsInv
<1> SUFFICES ASSUME FactorsInit PROVE FactorsInv
  OBVIOUS
<1>1. 0 \in 0..Cardinality(Verifiers)
  BY FS_CardinalityType
<1>2. FactorsTypeOK
  BY <1>1 DEF FactorsInit, FactorsTypeOK, NoEnrolment, NoAssertion, NoTotp, TotpRow,
              PasskeyRow, Device, Assertion, Enrolment
<1>3. HandleShared /\ BurntOnce /\ UnderWay
  BY DEF FactorsInit, HandleShared, BurntOnce, UnderWay
<1> QED BY <1>2, <1>3 DEF FactorsInv

(* Challenges and authenticators: neither a handle nor a thread moves, and  *)
(* a challenge that is used is neither offered again nor counted.           *)
LEMMA OfferedInv ==
    ASSUME FactorsInv, NEW c \in Challenges,
           LoginOffered(c) \/ ChallengeExpires(c) \/ \E k \in PassKeys : DeviceSigns(k, c)
    PROVE FactorsInv'
<1> USE DEF FactorsInv, FactorsTypeOK, totpVars
<1>1. CASE LoginOffered(c)
  BY <1>1 DEF LoginOffered, HandleShared, BurntOnce, UnderWay
<1>2. CASE ChallengeExpires(c)
  BY <1>2 DEF ChallengeExpires, HandleShared, BurntOnce, UnderWay
<1>3. ASSUME NEW k \in PassKeys, DeviceSigns(k, c) PROVE FactorsInv'
  <2>1. device[k] \in Device /\ device[k].count < MaxUses
    BY <1>3 DEF DeviceSigns
  <2>2. FactorsTypeOK'
    BY <1>3, <2>1, DeviceCounts DEF DeviceSigns
  <2>3. \A l \in PassKeys : device'[l].h = device[l].h
    BY <1>3, <2>1, DeviceCounts DEF DeviceSigns
  <2>4. HandleShared' /\ BurntOnce' /\ UnderWay'
    BY <1>3, <2>3 DEF DeviceSigns, HandleShared, BurntOnce, UnderWay
  <2> QED BY <2>2, <2>4
<1> QED BY <1>1, <1>2, <1>3

(* A revoked passkey was stored, and keeps its handle.                      *)
LEMMA RevokedInv == ASSUME FactorsInv, NEW k \in PassKeys, PasskeyRevoked(k) PROVE FactorsInv'
<1>1. passkey'[k].st = "revoked" /\ passkey' \in [PassKeys -> PasskeyRow]
  BY RowMarked DEF PasskeyRevoked, FactorsInv, FactorsTypeOK
<1>2. \A l \in PassKeys : passkey'[l].st = "none" <=> passkey[l].st = "none"
  BY <1>1 DEF PasskeyRevoked, FactorsInv, FactorsTypeOK
<1> QED BY <1>1, <1>2 DEF PasskeyRevoked, FactorsInv, FactorsTypeOK, totpVars, HandleShared,
                          BurntOnce, UnderWay

(* Enrolment: the handle is drawn only while nobody has one.                *)
LEMMA EnrollingInv == ASSUME FactorsInv, NEW e \in Enrollers, Enrolling(e) PROVE FactorsInv'
<1> USE DEF FactorsInv, FactorsTypeOK, totpVars
<1>0. eloc[e] \in Enrolment /\ NoEnrolment \in Enrolment
  BY DEF Enrolment, NoEnrolment
<1>1. CASE HandleRead(e)
  <2>1. eloc' \in [Enrollers -> Enrolment] /\ eloc'[e].h = handle
    BY <1>0, <1>1, HandleNoted DEF HandleRead
  <2>2. \/ enrolAt' = [enrolAt EXCEPT ![e] = "handle"] /\ handle # Nobody
        \/ enrolAt' = [enrolAt EXCEPT ![e] = "nohandle"]
    BY <1>1 DEF HandleRead
  <2>3. /\ \A d \in Enrollers \ {e} : eloc'[d] = eloc[d]
        /\ UNCHANGED <<challenge, handle, passkey, device, asserted, vpc, vloc, passes, totpVars>>
    BY <1>1 DEF HandleRead
  <2>8. FactorsTypeOK' /\ BurntOnce' /\ UnderWay'
    BY <2>1, <2>2, <2>3 DEF BurntOnce, UnderWay
  <2>9. HandleShared'
    BY <2>1, <2>2, <2>3 DEF HandleShared
  <2> QED BY <2>8, <2>9
<1>2. CASE HandleCreated(e)
  <2>1. handle' \in Draws /\ handle' # Nobody /\ (handle # Nobody => handle' = handle)
    BY <1>2 DEF HandleCreated
  <2>2. eloc' \in [Enrollers -> Enrolment] /\ eloc'[e].h = handle'
    BY <1>0, <1>2, <2>1, HandleNoted DEF HandleCreated
  <2>3. /\ \A d \in Enrollers \ {e} : eloc'[d] = eloc[d]
        /\ enrolAt' = [enrolAt EXCEPT ![e] = "handle"]
        /\ UNCHANGED <<challenge, passkey, device, asserted, vpc, vloc, passes, totpVars>>
    BY <1>2 DEF HandleCreated
  <2>8. FactorsTypeOK' /\ BurntOnce' /\ UnderWay'
    BY <2>1, <2>2, <2>3 DEF BurntOnce, UnderWay
  <2>9. HandleShared'
    BY <2>1, <2>2, <2>3 DEF HandleShared
  <2> QED BY <2>8, <2>9
<1>3. CASE EnrolmentAnswered(e)
  <2>1. UNCHANGED <<handle, passkey, device, asserted, vpc, vloc, passes, totpVars>>
    BY <1>3 DEF EnrolmentAnswered
  <2>2. CASE challenge[eloc[e].c] = "register"
    <3>1. /\ eloc[e].c \in Challenges /\ enrolAt[e] = "offered" /\ UNCHANGED eloc
          /\ challenge' = [challenge EXCEPT ![eloc[e].c] = "used"]
          /\ enrolAt' = [enrolAt EXCEPT ![e] = "accepted"]
      BY <1>3, <2>2 DEF EnrolmentAnswered, UnderWay
    <3> QED BY <2>1, <3>1 DEF HandleShared, BurntOnce, UnderWay
  <2>3. CASE challenge[eloc[e].c] # "register"
    <3>1. /\ UNCHANGED challenge
          /\ eloc' = [eloc EXCEPT ![e] = NoEnrolment]
          /\ enrolAt' = [enrolAt EXCEPT ![e] = "idle"]
      BY <1>3, <2>3 DEF EnrolmentAnswered
    <3> QED BY <1>0, <2>1, <3>1 DEF HandleShared, BurntOnce, UnderWay
  <2> QED BY <2>2, <2>3
<1>4. ASSUME NEW c \in Challenges, EnrolmentOffered(e, c) PROVE FactorsInv'
  <2>1. /\ eloc' \in [Enrollers -> Enrolment] /\ eloc'[e].h = eloc[e].h /\ eloc'[e].c = c
        /\ \A d \in Enrollers \ {e} : eloc'[d] = eloc[d]
    BY <1>0, <1>4, ChallengeNoted DEF EnrolmentOffered
  <2>2. /\ enrolAt[e] = "handle" /\ enrolAt' = [enrolAt EXCEPT ![e] = "offered"]
        /\ challenge[c] = "none" /\ challenge' = [challenge EXCEPT ![c] = "register"]
        /\ UNCHANGED <<handle, passkey, device, asserted, vpc, vloc, passes, totpVars>>
    BY <1>4 DEF EnrolmentOffered
  <2>8. FactorsTypeOK' /\ BurntOnce' /\ UnderWay'
    BY <2>1, <2>2 DEF BurntOnce, UnderWay
  <2>9. HandleShared'
    BY <2>1, <2>2 DEF HandleShared
  <2> QED BY <2>8, <2>9
<1>5. ASSUME NEW k \in PassKeys, PasskeyStored(e, k) PROVE FactorsInv'
  <2>1. /\ eloc[e].h = handle /\ handle # Nobody /\ handle \in Draws
        /\ passkey[k] \in PasskeyRow /\ device[k] \in Device
    BY <1>5 DEF PasskeyStored, HandleShared
  <2>2. /\ eloc' = [eloc EXCEPT ![e] = NoEnrolment] /\ NoEnrolment \in Enrolment
        /\ enrolAt' = [enrolAt EXCEPT ![e] = "idle"]
        /\ UNCHANGED <<challenge, handle, asserted, vpc, vloc, passes, totpVars>>
    BY <1>0, <1>5 DEF PasskeyStored, NoEnrolment, Enrolment
  <2>3. CASE passkey[k].st = "none"
    <3>1. /\ passkey' = [passkey EXCEPT ![k].st = "active"]
          /\ device' = [device EXCEPT ![k].h = handle]
      BY <1>5, <2>1, <2>3 DEF PasskeyStored
    <3>2. /\ passkey' \in [PassKeys -> PasskeyRow]
          /\ \A l \in PassKeys \ {k} : passkey'[l] = passkey[l]
      BY <2>1, <3>1, RowMarked
    <3>5. /\ device' \in [PassKeys -> Device] /\ device'[k].h = handle
          /\ \A l \in PassKeys \ {k} : device'[l] = device[l]
      BY <2>1, <3>1, DeviceGiven
    <3>3. FactorsTypeOK' /\ BurntOnce' /\ UnderWay'
      BY <2>2, <3>2, <3>5 DEF BurntOnce, UnderWay
    <3>4. HandleShared'
      BY <2>1, <2>2, <3>2, <3>5 DEF HandleShared
    <3> QED BY <3>3, <3>4
  <2>4. CASE passkey[k].st # "none"
    BY <1>5, <2>2, <2>4 DEF PasskeyStored, HandleShared, BurntOnce, UnderWay
  <2> QED BY <2>3, <2>4
<1> QED BY <1>1, <1>2, <1>3, <1>4, <1>5 DEF Enrolling

(* Verification: only a challenge not used yet is burnt.                    *)
LEMMA VerifyingInv == ASSUME FactorsInv, NEW v \in Verifiers, Verifying(v) PROVE FactorsInv'
<1> USE DEF FactorsInv, FactorsTypeOK, totpVars, VerifyEnds
<1>1. ASSUME NEW s \in asserted, ChallengeBurnt(v, s) PROVE FactorsInv'
  <2>1. s.c \in Challenges /\ s.k \in PassKeys /\ s \in Assertion
    BY AssertionTyped
  <2>2. passes[s.c] = 0
    BY <1>1, <2>1 DEF ChallengeBurnt, BurntOnce
  <2>3. FactorsTypeOK'
    BY <1>1, <2>1, <2>2, OneVerifier DEF ChallengeBurnt
  <2>4. HandleShared' /\ BurntOnce' /\ UnderWay'
    BY <1>1, <2>1, <2>2 DEF ChallengeBurnt, HandleShared, BurntOnce, UnderWay
  <2> QED BY <2>3, <2>4
<1>2. CASE AssertionChecked(v)
  <2>1. \/ vpc' = [vpc EXCEPT ![v] = "checked"] /\ UNCHANGED vloc
        \/ VerifyEnds(v)
    BY <1>2 DEF AssertionChecked
  <2>2. vpc[v] = "burnt" /\ UNCHANGED <<challenge, handle, passkey, device, asserted, enrolAt,
                                        eloc, passes, totpVars>>
    BY <1>2 DEF AssertionChecked
  <2> QED BY <2>1, <2>2, AssertionTyped DEF HandleShared, BurntOnce, UnderWay
<1>3. CASE CounterStored(v)
  <2>1. vloc[v].k \in PassKeys /\ vloc[v].n \in 0..MaxUses
    BY <1>3, AssertionTyped DEF CounterStored, UnderWay
  <2>2. /\ passkey' \in [PassKeys -> PasskeyRow]
        /\ \A k \in PassKeys : passkey'[k].st = passkey[k].st
    BY <1>3, <2>1, RowCounted DEF CounterStored
  <2> QED BY <1>3, <2>2 DEF CounterStored, HandleShared, BurntOnce, UnderWay
<1>4. CASE VerificationEnds(v)
  BY <1>4, AssertionTyped DEF VerificationEnds, HandleShared, BurntOnce, UnderWay
<1> QED BY <1>1, <1>2, <1>3, <1>4 DEF Verifying

LEMMA TotpRowParts ==
    /\ NoTotp \in TotpRow
    /\ \A n \in 0..MaxSecrets, b \in BOOLEAN : [secret |-> n, on |-> b] \in TotpRow
    /\ \A r \in TotpRow : /\ r.secret \in 0..MaxSecrets /\ r.on \in BOOLEAN
                          /\ [r EXCEPT !.on = TRUE] \in TotpRow
<1>1. \A n \in 0..MaxSecrets, b \in BOOLEAN : [secret |-> n, on |-> b] \in TotpRow
  BY Zenon DEF TotpRow
<1>2. NoTotp \in TotpRow
  <2>1. 0 \in 0..MaxSecrets
    OBVIOUS
  <2> QED BY <1>1, <2>1, Zenon DEF NoTotp
<1>3. ASSUME NEW r \in TotpRow
      PROVE /\ r.secret \in 0..MaxSecrets /\ r.on \in BOOLEAN
            /\ [r EXCEPT !.on = TRUE] \in TotpRow
  BY Zenon DEF TotpRow
<1> QED BY <1>1, <1>2, <1>3, Zenon

(* What is written of the row: the columns that differ, or none.            *)
LEMMA MergedRow ==
    ASSUME totp \in TotpRow, NEW old \in TotpRow, NEW new \in TotpRow
    PROVE Merged(old, new) \in TotpRow
<1>1. /\ Merged(old, new).secret \in 0..MaxSecrets
      /\ Merged(old, new).on = totp.on \/ Merged(old, new).on = new.on
  BY DEF Merged, TotpRow
<1>2. totp.on \in BOOLEAN /\ new.on \in BOOLEAN
  BY Zenon DEF TotpRow
<1>3. Merged(old, new).on \in BOOLEAN
  BY <1>1, <1>2, Zenon
<1>4. Merged(old, new) = [secret |-> Merged(old, new).secret, on |-> Merged(old, new).on]
  BY DEF Merged
<1> QED BY <1>1, <1>3, <1>4, Zenon DEF TotpRow

(* The profile page touches no passkey.                                     *)
LEMMA TotpInv == ASSUME FactorsInv, NEW t \in TotpThreads, OnProfilePage(t) PROVE FactorsInv'
<1> USE DEF FactorsInv, FactorsTypeOK, passkeyVars, TotpDone
<1>1. /\ HandleShared' /\ BurntOnce' /\ UnderWay'
      /\ UNCHANGED passkeyVars
  BY DEF OnProfilePage, TotpLoads, SetupStarts, SetupConfirmed, TotpDisabled, TotpRefused,
         HandleShared, BurntOnce, UnderWay
<1>2. /\ tloc[t] \in TotpRow /\ NoTotp \in TotpRow
      /\ \A n \in 0..MaxSecrets, b \in BOOLEAN : [secret |-> n, on |-> b] \in TotpRow
      /\ tloc[t].secret \in 0..MaxSecrets
      /\ [tloc[t] EXCEPT !.on = TRUE] \in TotpRow
  BY TotpRowParts
<1>3. FactorsTypeOK'
  <2>1. ASSUME NEW route \in {"start", "confirm", "disable"}, TotpLoads(t, route)
        PROVE FactorsTypeOK'
    <3>1. /\ totpAt' \in [TotpThreads -> {"idle", "start", "confirm", "disable"}]
          /\ tloc' \in [TotpThreads -> TotpRow]
          /\ UNCHANGED <<totp, secrets, confirmed>>
      BY <2>1 DEF TotpLoads
    <3> QED BY <1>1, <3>1
  <2>2. CASE SetupStarts(t)
    <3>1. secrets + 1 \in 0..MaxSecrets
      BY <2>2 DEF SetupStarts
    <3>2. [secret |-> secrets + 1, on |-> FALSE] \in TotpRow
      BY <3>1, TotpRowParts
    <3>3. totp' \in TotpRow
      BY <2>2, <1>2, <3>2, MergedRow DEF SetupStarts
    <3> QED BY <2>2, <1>1, <1>2, <3>1, <3>3 DEF SetupStarts
  <2>3. CASE SetupConfirmed(t)
    BY <2>3, <1>1, <1>2, MergedRow DEF SetupConfirmed
  <2>4. CASE TotpDisabled(t)
    BY <2>4, <1>1, <1>2, MergedRow DEF TotpDisabled
  <2>5. CASE TotpRefused(t)
    BY <2>5, <1>1, <1>2 DEF TotpRefused
  <2> QED BY <2>1, <2>2, <2>3, <2>4, <2>5 DEF OnProfilePage
<1> QED BY <1>1, <1>3

(* One lemma per group of actions.                                          *)
LEMMA FactorsInvHolds == FactorsSpec => []FactorsInv
<1>1. FactorsInv /\ [FactorsNext]_factorVars => FactorsInv'
  <2> SUFFICES ASSUME FactorsInv, [FactorsNext]_factorVars PROVE FactorsInv'
    OBVIOUS
  <2>1. CASE FactorsNext
    BY <2>1, OfferedInv, RevokedInv, EnrollingInv, VerifyingInv, TotpInv DEF FactorsNext
  <2>2. CASE UNCHANGED factorVars
    BY <2>2 DEF factorVars, passkeyVars, totpVars, FactorsInv, FactorsTypeOK, HandleShared,
                BurntOnce, UnderWay
  <2> QED BY <2>1, <2>2
<1> QED BY FactorsInvInit, <1>1, PTL DEF FactorsSpec

(* The rows of passkeys, handles, challenges and one-time codes have their  *)
(* types after any interleaving of the routes.                              *)
THEOREM FactorsTypeCorrect == FactorsSpec => []FactorsTypeOK
BY FactorsInvHolds, PTL DEF FactorsInv

(* consume_challenge is one guarded UPDATE: a challenge lets at most one    *)
(* verification through, from however many threads it is posted.            *)
THEOREM ChallengesBurnOnce == FactorsSpec => []ChallengeOnce
<1>1. FactorsInv => ChallengeOnce
  BY DEF FactorsInv, BurntOnce, ChallengeOnce
<1> QED BY FactorsInvHolds, <1>1, PTL

(* get_or_create_user_handle: whoever loses the insertion reads the         *)
(* winner's handle, so no passkey is stored with another.                   *)
THEOREM OneHandle == FactorsSpec => []HandlesAgree
<1>1. FactorsInv => HandlesAgree
  BY DEF FactorsInv, HandleShared, HandlesAgree
<1> QED BY FactorsInvHolds, <1>1, PTL
=============================================================================
