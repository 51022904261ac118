-------------------------- MODULE Credentials_proofs ---------------------------
(***************************************************************************)
(* What is proved of the passwords kept for applications (Credentials),    *)
(* for any number of clients, coroutines and faults.                       *)
(***************************************************************************)
EXTENDS Credentials, WellFoundedInduction, TLAPS

(* A set of naturals that is not empty has a least element.                 *)
LEMMA LeastOfSet ==
    ASSUME NEW S, S \subseteq Nat, S # {}
    PROVE  \E m \in S : \A n \in S : m <= n
<1>1. PICK m \in S : \A n \in S : <<n, m>> \notin OpToRel(<, Nat)
  BY WFMin, NatLessThanWellFounded, Zenon
<1>2. \A n \in S : ~(n < m)
  BY <1>1 DEF OpToRel
<1> QED BY <1>2

-----------------------------------------------------------------------------
(* Application passwords: the invariant.                                    *)

Sides == {"vault", "application"}

(* The coroutines at work on u.                                             *)
AtWork(P, u) == {c \in Pushers : P[c] # AtRest /\ P[c].who = u}

(* Where the passwords of u may be: both sides, and those at work on u.     *)
Kept(S, W) == \A K \in S : K # {} /\ K \subseteq Sides \cup W
Agreed(S) == \A K \in S : Sides \subseteq K

(* What c knows of the passwords of its client while it is alone with it.   *)
Known(S, c, push) ==
    /\ push.pc = "taken" => \A K \in S : c \in K <=> "application" \in K
    /\ c \in Savers => \A K \in S : c \in K <=> "vault" \in K

(* The passwords S, the coroutines P and the settled clients T fit.         *)
Fit(S, P, T, u) ==
    /\ Kept(S[u], AtWork(P, u))
    /\ u \in T => \/ AtWork(P, u) = {} /\ Agreed(S[u])
                  \/ \E c \in Pushers :
                        /\ P[c] # AtRest /\ P[c].who = u /\ P[c].alone
                        /\ P[c].pc = "sent" =>
                              \A K \in S[u] : K = {c} \/ Sides \subseteq K
    /\ \A c \in AtWork(P, u) :
          P[c].alone => AtWork(P, u) = {c} /\ Known(S[u], c, P[c])

Settled(S, P, T) ==
    /\ DOMAIN S = Clients
    /\ P \in [Pushers -> Push \cup {AtRest}]
    /\ T \subseteq Clients
    /\ \A u \in Clients : Fit(S, P, T, u)

(* The lists of credentials are numbered.                                   *)
Numbered(s) == \E n \in Nat : DOMAIN s = 1..n

CredInv ==
    /\ Settled(alike, pushes, settled)
    /\ nStale \in Nat /\ inUse \subseteq Clients
    /\ todo \in [RenewalRuns -> {todo[r] : r \in RenewalRuns}]
    /\ \A r \in RenewalRuns : Numbered(todo[r])

LEMMA PushesDiffer ==
    /\ \A push \in Push : push # AtRest /\ push.pc \in {"sent", "taken"}
                          /\ push.who \in Clients /\ push.alone \in BOOLEAN
    /\ "vault" \notin Pushers /\ "application" \notin Pushers
    /\ \A c \in Savers : c \notin RenewalRuns /\ c \notin Provisioners
<1>1. \A push \in Push : push.pc \in {"sent", "taken"}
                          /\ push.who \in Clients /\ push.alone \in BOOLEAN
  BY DEF Push
<1>2. AtRest.pc = "idle"
  BY DEF AtRest
<1>3. "vault" \notin Pushers /\ "application" \notin Pushers
      /\ \A c \in Savers : c \notin RenewalRuns /\ c \notin Provisioners
  BY CredentialsAssumption DEF Pushers
<1> QED BY <1>1, <1>2, <1>3

(* c is done with u.                                                        *)
LEMMA Finishes ==
    ASSUME NEW S, NEW P, NEW T, Settled(S, P, T),
           NEW c \in Pushers, NEW u \in Clients, NEW S2, NEW T2,
           P[c] # AtRest, P[c].who = u,
           Kept(S2, AtWork(P, u) \ {c}),
           T2 \subseteq Clients, \A v \in Clients \ {u} : v \in T2 => v \in T,
           u \in T2 => P[c].alone /\ Agreed(S2)
    PROVE  Settled([S EXCEPT ![u] = S2], [P EXCEPT ![c] = AtRest], T2)
<1> DEFINE S1 == [S EXCEPT ![u] = S2]
           P1 == [P EXCEPT ![c] = AtRest]
<1>1. /\ DOMAIN S1 = Clients /\ S1[u] = S2
      /\ \A v \in Clients \ {u} : S1[v] = S[v]
  BY DEF Settled
<1>2. /\ P1 \in [Pushers -> Push \cup {AtRest}] /\ P1[c] = AtRest
      /\ \A d \in Pushers \ {c} : P1[d] = P[d]
  BY DEF Settled
<1> HIDE DEF S1, P1
<1>3. AtWork(P1, u) = AtWork(P, u) \ {c}
  BY <1>2 DEF AtWork
<1>4. Fit(S1, P1, T2, u)
  <2>0. Fit(S, P, T, u) /\ c \in AtWork(P, u)
    BY DEF Settled, AtWork
  <2>1. Kept(S1[u], AtWork(P1, u))
    BY <1>1, <1>3
  <2>2. u \in T2 => AtWork(P1, u) = {} /\ Agreed(S1[u])
    BY <1>1, <1>3, <2>0 DEF Fit
  <2>3. \A d \in AtWork(P1, u) : ~P1[d].alone
    BY <1>2, <1>3, <2>0 DEF Fit, AtWork
  <2> QED BY <2>1, <2>2, <2>3 DEF Fit
<1>5. ASSUME NEW v \in Clients \ {u} PROVE Fit(S1, P1, T2, v)
  <2>1. Fit(S, P, T, v) /\ S1[v] = S[v] /\ (v \in T2 => v \in T)
    BY <1>1 DEF Settled
  <2>2. AtWork(P1, v) = AtWork(P, v)
    BY <1>2 DEF AtWork
  <2>3. \A d \in AtWork(P, v) : P1[d] = P[d]
    BY <1>2 DEF AtWork
  <2>4. \A d \in Pushers : P[d] # AtRest /\ P[d].who = v => P1[d] = P[d]
    BY <1>2
  <2> QED BY <2>1, <2>2, <2>3, <2>4 DEF Fit
<1> QED BY <1>1, <1>2, <1>4, <1>5 DEF Settled, S1, P1

(* c starts with u: it will give the application a password nobody has.     *)
Sent(P, c, u) ==
    [d \in Pushers |->
        IF d = c THEN [pc |-> "sent", who |-> u, alone |-> AtWork(P, u) = {}]
        ELSE IF d \in AtWork(P, u) THEN [P[d] EXCEPT !.alone = FALSE] ELSE P[d]]

LEMMA SentTyped ==
    ASSUME NEW S, NEW P, NEW T, Settled(S, P, T),
           NEW c \in Pushers, NEW u \in Clients, P[c] = AtRest
    PROVE  /\ Sent(P, c, u) \in [Pushers -> Push \cup {AtRest}]
           /\ Sent(P, c, u)[c] # AtRest /\ Sent(P, c, u)[c].who = u
           /\ Sent(P, c, u)[c].pc = "sent"
           /\ Sent(P, c, u)[c].alone <=> AtWork(P, u) = {}
           /\ \A d \in AtWork(P, u) : ~Sent(P, c, u)[d].alone
           /\ \A d \in Pushers \ {c} :
                 (P[d] # AtRest => P[d].who # u) => Sent(P, c, u)[d] = P[d]
           /\ \A d \in Pushers \ {c} :
                 /\ Sent(P, c, u)[d] # AtRest <=> P[d] # AtRest
                 /\ P[d] # AtRest => Sent(P, c, u)[d].who = P[d].who
<1> DEFINE b == AtWork(P, u) = {}
           new == [pc |-> "sent", who |-> u, alone |-> b]
<1>1. b \in BOOLEAN
  OBVIOUS
<1>2. new \in Push /\ new.who = u /\ new.pc = "sent" /\ (new.alone <=> b)
  <2> HIDE DEF b
  <2> QED BY <1>1 DEF Push
<1>3. \A push \in Push : /\ [push EXCEPT !.alone = FALSE] \in Push
                         /\ [push EXCEPT !.alone = FALSE].alone = FALSE
                         /\ [push EXCEPT !.alone = FALSE].who = push.who
  BY DEF Push
<1>4. \A d \in Pushers : P[d] \in Push \/ P[d] = AtRest
  BY DEF Settled
<1>5. \A d \in AtWork(P, u) : P[d] \in Push /\ d # c
  BY <1>4 DEF AtWork
<1> HIDE DEF new
<1>6. /\ Sent(P, c, u)[c] = new
      /\ \A d \in AtWork(P, u) : Sent(P, c, u)[d] = [P[d] EXCEPT !.alone = FALSE]
      /\ \A d \in Pushers \ {c} : d \notin AtWork(P, u) => Sent(P, c, u)[d] = P[d]
  BY <1>5 DEF Sent, new, AtWork
<1>7. \A d \in AtWork(P, u) : /\ Sent(P, c, u)[d] \in Push /\ ~Sent(P, c, u)[d].alone
                              /\ Sent(P, c, u)[d].who = P[d].who
  BY <1>3, <1>5, <1>6
<1>8. \A d \in Pushers : Sent(P, c, u)[d] \in Push \cup {AtRest}
  BY <1>2, <1>4, <1>6, <1>7
<1>9. Sent(P, c, u) \in [Pushers -> Push \cup {AtRest}]
  <2>1. Sent(P, c, u) = [d \in Pushers |-> Sent(P, c, u)[d]]
    BY DEF Sent
  <2> QED BY <1>8, <2>1
<1>10. \A d \in Pushers \ {c} :
                 /\ Sent(P, c, u)[d] # AtRest <=> P[d] # AtRest
                 /\ P[d] # AtRest => Sent(P, c, u)[d].who = P[d].who
  BY <1>4, <1>5, <1>6, <1>7, PushesDiffer
<1>11. new # AtRest
  BY <1>2, PushesDiffer
<1> QED BY <1>2, <1>6, <1>7, <1>9, <1>10, <1>11 DEF AtWork

(* Whoever starts: S2 are the passwords then.                              *)
LEMMA Starts ==
    ASSUME NEW S, NEW P, NEW T, Settled(S, P, T),
           NEW c \in Pushers, NEW u \in Clients, P[c] = AtRest, NEW S2, NEW T2,
           Kept(S2, AtWork(P, u) \cup {c}),
           T2 \subseteq Clients, \A v \in Clients \ {u} : v \in T2 => v \in T,
           u \in T2 => /\ AtWork(P, u) = {}
                       /\ \A K \in S2 : K = {c} \/ Sides \subseteq K,
           c \in Savers => \A K \in S2 : c \in K <=> "vault" \in K
    PROVE  Settled([S EXCEPT ![u] = S2], Sent(P, c, u), T2)
<1> DEFINE S1 == [S EXCEPT ![u] = S2]
           P1 == Sent(P, c, u)
<1>1. /\ DOMAIN S1 = Clients /\ S1[u] = S2
      /\ \A v \in Clients \ {u} : S1[v] = S[v]
  BY DEF Settled
<1>2. /\ P1 \in [Pushers -> Push \cup {AtRest}]
      /\ P1[c] # AtRest /\ P1[c].who = u /\ P1[c].pc = "sent"
      /\ P1[c].alone <=> AtWork(P, u) = {}
      /\ \A d \in AtWork(P, u) : ~P1[d].alone
      /\ \A d \in Pushers \ {c} : (P[d] # AtRest => P[d].who # u) => P1[d] = P[d]
      /\ \A d \in Pushers \ {c} : /\ P1[d] # AtRest <=> P[d] # AtRest
                                  /\ P[d] # AtRest => P1[d].who = P[d].who
  BY SentTyped
<1> HIDE DEF S1, P1
<1>3. AtWork(P1, u) = AtWork(P, u) \cup {c} /\ c \notin AtWork(P, u)
  BY <1>2 DEF AtWork
<1>4. Fit(S1, P1, T2, u)
  <2>1. Kept(S1[u], AtWork(P1, u))
    BY <1>1, <1>3
  <2>2. u \in T2 => /\ P1[c] # AtRest /\ P1[c].who = u /\ P1[c].alone
                    /\ P1[c].pc = "sent" =>
                              \A K \in S1[u] : K = {c} \/ Sides \subseteq K
    BY <1>1, <1>2
  <2>3. Known(S1[u], c, P1[c])
    BY <1>1, <1>2 DEF Known
  <2>4. \A d \in AtWork(P1, u) :
          P1[d].alone => AtWork(P1, u) = {d} /\ Known(S1[u], d, P1[d])
    BY <1>2, <1>3, <2>3
  <2> QED BY <2>1, <2>2, <2>4 DEF Fit
<1>5. ASSUME NEW v \in Clients \ {u} PROVE Fit(S1, P1, T2, v)
  <2>1. Fit(S, P, T, v) /\ S1[v] = S[v] /\ (v \in T2 => v \in T)
    BY <1>1 DEF Settled
  <2>2. \A d \in Pushers : P[d] # AtRest /\ P[d].who = v => P1[d] = P[d]
    BY <1>2
  <2>3. AtWork(P1, v) = AtWork(P, v)
    BY <1>2 DEF AtWork
  <2>4. \A d \in AtWork(P, v) : P1[d] = P[d]
    BY <2>2 DEF AtWork
  <2> QED BY <2>1, <2>2, <2>3, <2>4 DEF Fit
<1> QED BY <1>1, <1>2, <1>4, <1>5 DEF Settled, S1, P1

-----------------------------------------------------------------------------
(* Application passwords: the steps.                                        *)

LEMMA WithoutHas ==
    ASSUME NEW S, NEW x, NEW K \in Without(S, x)
    PROVE  /\ x \notin K /\ K # {}
           /\ \E L \in S : K = L \ {x}
BY DEF Without

LEMMA CopiedHas ==
    ASSUME NEW S, NEW x, NEW y, NEW K \in Copied(S, x, y), x # y
    PROVE  /\ x \in K <=> y \in K
           /\ \E L \in S : /\ L \ {y} # {}
                           /\ x \in L => K = L \cup {y}
                           /\ x \notin L => K = L \ {y}
<1>1. PICK M \in Without(S, y) : K = IF x \in M THEN M \cup {y} ELSE M
  BY DEF Copied
<1>2. PICK L \in S : M = L \ {y} /\ M # {} /\ y \notin M
  BY WithoutHas
<1> QED BY <1>1, <1>2

(* What becomes of the passwords of a coroutine that is done.               *)
LEMMA PasswordsLeft ==
    ASSUME NEW S, NEW P, NEW T, Settled(S, P, T),
           NEW c \in Pushers, NEW u \in Clients, P[c] # AtRest, P[c].who = u
    PROVE  /\ Kept(Without(S[u], c), AtWork(P, u) \ {c})
           /\ Kept(Without(Copied(S[u], c, "vault"), c), AtWork(P, u) \ {c})
           /\ u \in T => P[c].alone
           /\ P[c].alone /\ P[c].pc = "taken" =>
                 /\ Agreed(Without(Copied(S[u], c, "vault"), c))
                 /\ c \in Savers => Agreed(Without(S[u], c))
           /\ u \in T /\ P[c].pc = "sent" => Agreed(Without(S[u], c))
<1> DEFINE W == AtWork(P, u)
           V == Copied(S[u], c, "vault")
<1>1. /\ Kept(S[u], W) /\ c \in W
      /\ \A d \in W : P[d].alone => W = {d} /\ Known(S[u], d, P[d])
      /\ u \in T => \E d \in W :
                        /\ P[d].alone
                        /\ P[d].pc = "sent" =>
                              \A K \in S[u] : K = {d} \/ Sides \subseteq K
  BY DEF Settled, Fit, AtWork
<1>2. c # "vault" /\ c # "application"
  BY PushesDiffer
<1>3. ASSUME NEW K \in V
      PROVE  /\ c \in K <=> "vault" \in K
             /\ \E L \in S[u] : (c \in L /\ K = L \cup {"vault"})
                                \/ (c \notin L /\ K = L \ {"vault"})
             /\ K \subseteq Sides \cup W
  <2>1. /\ c \in K <=> "vault" \in K
        /\ \E L \in S[u] : (c \in L /\ K = L \cup {"vault"})
                                \/ (c \notin L /\ K = L \ {"vault"})
    BY <1>2, CopiedHas
  <2>2. K \subseteq Sides \cup W
    BY <2>1, <1>1 DEF Kept, Sides
  <2> QED BY <2>1, <2>2
<1> HIDE DEF W, V
<1>4. Kept(Without(S[u], c), W \ {c})
  BY <1>1, <1>2, WithoutHas DEF Kept, Sides
<1>5. Kept(Without(V, c), W \ {c})
  BY <1>2, <1>3, WithoutHas DEF Kept, Sides
<1>6. ASSUME P[c].alone, P[c].pc = "taken", NEW K \in Without(V, c)
      PROVE  Sides \subseteq K
  <2>1. W = {c} /\ \A L \in S[u] : c \in L <=> "application" \in L
    BY <1>1, <1>6 DEF Known
  <2>2. PICK M \in V : K = M \ {c} /\ K # {}
    BY WithoutHas
  <2>3. M \subseteq Sides \cup {c}
    BY <1>3, <2>1
  <2>4. PICK L \in S[u] : (c \in L /\ M = L \cup {"vault"})
                                \/ (c \notin L /\ M = L \ {"vault"})
    BY <1>3
  <2>5. c \in M => "vault" \in M /\ "application" \in M
    BY <1>2, <2>1, <2>4
  <2>6. c \notin M => "vault" \notin M /\ "application" \notin M
    BY <1>2, <2>1, <2>4
  <2> QED BY <1>2, <2>2, <2>3, <2>5, <2>6 DEF Sides
<1>7. ASSUME P[c].alone, P[c].pc = "taken", c \in Savers, NEW K \in Without(S[u], c)
      PROVE  Sides \subseteq K
  <2>1. W = {c} /\ \A L \in S[u] : /\ c \in L <=> "application" \in L
                                   /\ c \in L <=> "vault" \in L
    BY <1>1, <1>7 DEF Known
  <2>2. PICK L \in S[u] : K = L \ {c} /\ K # {}
    BY WithoutHas
  <2>3. L \subseteq Sides \cup {c}
    BY <1>1, <2>1 DEF Kept
  <2> QED BY <1>2, <2>1, <2>2, <2>3 DEF Sides
<1>8. u \in T => P[c].alone /\ (P[c].pc = "sent" => \A K \in S[u] : K = {c} \/ Sides \subseteq K)
  BY <1>1
<1>9. ASSUME u \in T, P[c].pc = "sent", NEW K \in Without(S[u], c)
      PROVE  Sides \subseteq K
  <2>1. PICK L \in S[u] : K = L \ {c} /\ K # {}
    BY WithoutHas
  <2> QED BY <1>2, <1>8, <1>9, <2>1 DEF Sides
<1> QED BY <1>4, <1>5, <1>6, <1>7, <1>8, <1>9 DEF W, V, Agreed

(* One that begins, among those that are at work.                           *)
LEMMA SendingIsSent ==
    ASSUME CredInv, NEW c \in Pushers, NEW u \in Clients
    PROVE  /\ Others(c, u) = AtWork([pushes EXCEPT ![c] = AtRest], u)
           /\ Sending(c, u) = Sent([pushes EXCEPT ![c] = AtRest], c, u)
<1> DEFINE P == [pushes EXCEPT ![c] = AtRest]
<1>0. pushes \in [Pushers -> Push \cup {AtRest}]
  BY DEF CredInv, Settled
<1>1. P[c] = AtRest /\ \A d \in Pushers \ {c} : P[d] = pushes[d]
  BY <1>0
<1> HIDE DEF P
<1>2. Others(c, u) = AtWork(P, u) /\ c \notin AtWork(P, u)
  BY <1>1 DEF Others, AtWork, Idles
<1> DEFINE b == AtWork(P, u) = {}
           new == [pc |-> "sent", who |-> u, alone |-> b]
<1>3. Sending(c, u) = [Disturbed(c, u) EXCEPT ![c] = new]
  BY <1>2 DEF Sending
<1>4. Sent(P, c, u) = [d \in Pushers |-> IF d = c THEN new
                          ELSE IF d \in AtWork(P, u) THEN [P[d] EXCEPT !.alone = FALSE]
                          ELSE P[d]]
  BY DEF Sent
<1> HIDE DEF new
<1>5. Disturbed(c, u) = [d \in Pushers |->
             IF d \in AtWork(P, u) THEN [pushes[d] EXCEPT !.alone = FALSE] ELSE pushes[d]]
  BY <1>2 DEF Disturbed
<1>6. ASSUME NEW d \in Pushers PROVE Sending(c, u)[d] = Sent(P, c, u)[d]
  <2>1. CASE d = c
    BY <1>3, <1>4, <1>5, <2>1
  <2>2. CASE d # c
    <3>1. P[d] = pushes[d]
      BY <1>1, <2>2
    <3>2. Sending(c, u)[d] = Disturbed(c, u)[d]
      BY <1>3, <1>5, <2>2
    <3>3. Disturbed(c, u)[d] = IF d \in AtWork(P, u) THEN [P[d] EXCEPT !.alone = FALSE]
                               ELSE P[d]
      BY <1>5, <3>1
    <3>4. Sent(P, c, u)[d] = IF d \in AtWork(P, u) THEN [P[d] EXCEPT !.alone = FALSE]
                             ELSE P[d]
      BY <1>4, <2>2
    <3> QED BY <3>2, <3>3, <3>4
  <2> QED BY <2>1, <2>2
<1>7. Sending(c, u) = [d \in Pushers |-> Sending(c, u)[d]]
  BY <1>3, <1>5
<1>8. Sent(P, c, u) = [d \in Pushers |-> Sent(P, c, u)[d]]
  BY <1>4
<1> QED BY <1>2, <1>6, <1>7, <1>8 DEF P

LEMMA AnewKept ==
    ASSUME NEW S, NEW W, NEW c \in Pushers, Kept(S, W)
    PROVE  /\ Kept(Anew(S, c), W \cup {c})
           /\ Agreed(S) => \A K \in Anew(S, c) : K = {c} \/ Sides \subseteq K
           /\ \A K \in Anew(S, c) : c \in K => K = {c}
<1>1. c # "vault" /\ c # "application"
  BY PushesDiffer
<1>2. ASSUME NEW K \in Anew(S, c)
      PROVE  K = {c} \/ (c \notin K /\ K # {} /\ \E L \in S : K = L \ {c})
  BY WithoutHas DEF Anew
<1> QED BY <1>1, <1>2 DEF Kept, Agreed, Sides

(* A password sent to the application that is not the vault's yet.          *)
LEMMA Begins ==
    ASSUME NEW S, NEW P, NEW T, Settled(S, P, T),
           NEW c \in Pushers, c \notin Savers, NEW u \in Clients, P[c] = AtRest
    PROVE  Settled([S EXCEPT ![u] = Anew(S[u], c)], Sent(P, c, u),
                   IF AtWork(P, u) = {} THEN T ELSE T \ {u})
<1> DEFINE T2 == IF AtWork(P, u) = {} THEN T ELSE T \ {u}
           S2 == Anew(S[u], c)
<1>1. Kept(S[u], AtWork(P, u)) /\ T \subseteq Clients
      /\ (u \in T /\ AtWork(P, u) = {} => Agreed(S[u]))
  BY DEF Settled, Fit, AtWork
<1>2. Kept(S2, AtWork(P, u) \cup {c})
  BY <1>1, AnewKept
<1>3. u \in T2 => AtWork(P, u) = {} /\ \A K \in S2 : K = {c} \/ Sides \subseteq K
  BY <1>1, AnewKept
<1>4. T2 \subseteq Clients /\ \A v \in Clients \ {u} : v \in T2 => v \in T
  BY <1>1
<1> HIDE DEF T2, S2
<1>5. Settled([S EXCEPT ![u] = S2], Sent(P, c, u), T2)
  BY <1>2, <1>3, <1>4, Starts
<1> QED BY <1>5 DEF S2, T2

(* The number of stale credentials.                                         *)
LEMMA AgedCounted ==
    ASSUME nStale \in Nat, NEW u
    PROVE  (IF Aged(u) THEN nStale - 1 ELSE nStale) \in Nat
<1>1. DOMAIN SubSeq(byAge, 1, nStale) = 1..nStale
  OBVIOUS
<1>2. Aged(u) => nStale # 0
  BY <1>1 DEF Aged, ToSet
<1> QED BY <1>2

LEMMA BatchNumbered ==
    ASSUME nStale \in Nat
    PROVE  Numbered(StaleBatch)
<1>1. Min({nStale, RenewalBatch}) \in Nat
  BY CredentialsAssumption DEF Min
<1>2. DOMAIN StaleBatch = 1..Min({nStale, RenewalBatch})
  BY <1>1 DEF StaleBatch
<1> QED BY <1>1, <1>2 DEF Numbered

LEMMA RestNumbered ==
    ASSUME NEW s, Numbered(s), NEW i \in DOMAIN s
    PROVE  Numbered(SubSeq(s, i + 1, Len(s)))
<1>1. PICK n \in Nat : DOMAIN s = 1..n
  BY DEF Numbered
<1>2. Len(s) = n
  BY <1>1
<1>3. i \in 1..n
  BY <1>1
<1>4. DOMAIN SubSeq(s, i + 1, n) = 1..(n - i)
  BY <1>3
<1> QED BY <1>2, <1>3, <1>4 DEF Numbered

(* What every renewal leaves of the others.                                 *)
ListsKept(r) ==
    \E l : Numbered(l) /\ todo' = [todo EXCEPT ![r] = l]

LEMMA ListsStayNumbered ==
    ASSUME CredInv, NEW r \in RenewalRuns, ListsKept(r)
    PROVE  /\ todo' \in [RenewalRuns -> {todo'[q] : q \in RenewalRuns}]
           /\ \A q \in RenewalRuns : Numbered(todo'[q])
<1>1. PICK l : Numbered(l) /\ todo' = [todo EXCEPT ![r] = l]
  BY DEF ListsKept
<1>2. DOMAIN todo = RenewalRuns
  BY DEF CredInv
<1>3. todo' = [q \in RenewalRuns |-> IF q = r THEN l ELSE todo[q]]
  BY <1>1, <1>2
<1>4. \A q \in RenewalRuns : todo'[q] = IF q = r THEN l ELSE todo[q]
  BY <1>3
<1>5. \A q \in RenewalRuns : Numbered(todo'[q])
  BY <1>1, <1>4 DEF CredInv
<1>6. todo' \in [RenewalRuns -> {todo'[q] : q \in RenewalRuns}]
  <2>1. todo' = [q \in RenewalRuns |-> todo'[q]]
    BY <1>3, <1>4
  <2> QED BY <2>1
<1> QED BY <1>5, <1>6

LEMMA GoesOn ==
    ASSUME CredInv, NEW r \in RenewalRuns, NEW rest, Numbered(rest),
           NEW rows, NEW reload, NEW known, NEW kept,
           Settled(known, [pushes EXCEPT ![r] = AtRest], kept),
           RenewalGoesOn(r, rest, rows, reload, known, kept)
    PROVE  Settled(alike', pushes', settled') /\ ListsKept(r)
<1> DEFINE stops == {i \in DOMAIN rest : rest[i] \in inUse \/ (reload /\ rest[i] \notin rows)}
           i == Min(stops)
           P == [pushes EXCEPT ![r] = AtRest]
<1>1. CASE stops = {} \/ (reload /\ rest[i] \notin rows)
  <2>1. RenewalEnds(r, known, kept)
    BY <1>1 DEF RenewalGoesOn
  <2>2. Numbered(<<>>)
    <3>1. DOMAIN <<>> = 1..0
      OBVIOUS
    <3> QED BY <3>1 DEF Numbered
  <2> QED BY <2>1, <2>2 DEF RenewalEnds, Done, ListsKept
<1>2. CASE ~(stops = {} \/ (reload /\ rest[i] \notin rows))
  <2>1. i \in stops
    <3>1. stops \subseteq Nat /\ stops # {}
      BY <1>2 DEF Numbered
    <3> HIDE DEF stops
    <3>2. \E m \in stops : \A n \in stops : m <= n
      BY <3>1, LeastOfSet
    <3> QED BY <3>2 DEF Min
  <2> DEFINE u == rest[i]
  <2>2. i \in DOMAIN rest /\ u \in Clients
    BY <1>2, <2>1 DEF CredInv
  <2>3. /\ pushes' = Sending(r, u)
        /\ alike' = [known EXCEPT ![u] = Anew(known[u], r)]
        /\ todo' = [todo EXCEPT ![r] = SubSeq(rest, i + 1, Len(rest))]
        /\ settled' = Undisturbed(kept, r, u)
    BY <1>2 DEF RenewalGoesOn
  <2> HIDE DEF i, u
  <2>4. ListsKept(r)
    BY <2>2, <2>3, RestNumbered DEF ListsKept
  <2>5. r \in Pushers /\ r \notin Savers
    BY PushesDiffer DEF Pushers
  <2>6. P[r] = AtRest
    BY <2>5 DEF CredInv, Settled
  <2>7. pushes' = Sent(P, r, u)
        /\ settled' = IF AtWork(P, u) = {} THEN kept ELSE kept \ {u}
    BY <2>2, <2>3, <2>5, SendingIsSent DEF Undisturbed
  <2> HIDE DEF P
  <2>8. Settled(known, P, kept)
    BY DEF P
  <2> DEFINE T2 == IF AtWork(P, u) = {} THEN kept ELSE kept \ {u}
             S2 == [known EXCEPT ![u] = Anew(known[u], r)]
  <2>9. Settled(S2, Sent(P, r, u), T2)
    BY <2>2, <2>5, <2>6, <2>8, Begins
  <2>10. alike' = S2 /\ pushes' = Sent(P, r, u) /\ settled' = T2
    BY <2>3, <2>7
  <2> QED BY <2>4, <2>9, <2>10
<1> QED BY <1>1, <1>2

(* What of CredInv a step that goes through no list has to show.            *)
LEMMA CredStep ==
    ASSUME CredInv, Settled(alike', pushes', settled'),
           nStale' \in Nat, inUse' \subseteq Clients,
           UNCHANGED todo \/ \E r \in RenewalRuns : ListsKept(r)
    PROVE  CredInv'
<1>1. /\ todo' \in [RenewalRuns -> {todo'[q] : q \in RenewalRuns}]
      /\ \A q \in RenewalRuns : Numbered(todo'[q])
  <2>1. CASE UNCHANGED todo
    BY <2>1 DEF CredInv
  <2>2. CASE \E r \in RenewalRuns : ListsKept(r)
    BY <2>2, ListsStayNumbered
  <2> QED BY <2>1, <2>2
<1>2. Settled(alike, pushes, settled)' <=> Settled(alike', pushes', settled')
  BY DEF Settled, Fit, AtWork, Kept, Agreed, Known
<1>3. \A q \in RenewalRuns : Numbered(todo[q])' <=> Numbered(todo'[q])
  BY DEF Numbered
<1> QED BY <1>1, <1>2, <1>3 DEF CredInv

(* A push that ends: the password stays where it was, or is stored.         *)
AfterSuccess(c) ==
    IF pushes[c].alone THEN settled \cup {pushes[c].who} ELSE settled

LEMMA Ends ==
    ASSUME CredInv, NEW c \in Pushers, ~Idles(c)
    PROVE  /\ pushes[c] \in Push
           /\ Settled(Dropped(c), [pushes EXCEPT ![c] = AtRest], settled \ {pushes[c].who})
           /\ pushes[c].pc = "sent" =>
                 Settled(Dropped(c), [pushes EXCEPT ![c] = AtRest], settled)
           /\ pushes[c].pc = "taken" =>
                 /\ Settled(Vaulted(c), [pushes EXCEPT ![c] = AtRest], AfterSuccess(c))
                 /\ c \in Savers =>
                       Settled(Dropped(c), [pushes EXCEPT ![c] = AtRest], AfterSuccess(c))
<1> DEFINE u == pushes[c].who
           P == [pushes EXCEPT ![c] = AtRest]
           D == Without(alike[u], c)
           V == Without(Copied(alike[u], c, "vault"), c)
<1>1. Settled(alike, pushes, settled) /\ settled \subseteq Clients
  BY DEF CredInv, Settled
<1>2. pushes[c] # AtRest /\ pushes[c] \in Push /\ u \in Clients
  BY <1>1, PushesDiffer DEF Settled, Idles
<1> HIDE DEF u
<1>3. pushes[c].who = u
  BY DEF u
<1>4. /\ Kept(D, AtWork(pushes, u) \ {c}) /\ Kept(V, AtWork(pushes, u) \ {c})
      /\ u \in settled => pushes[c].alone
      /\ pushes[c].alone /\ pushes[c].pc = "taken" =>
            Agreed(V) /\ (c \in Savers => Agreed(D))
      /\ u \in settled /\ pushes[c].pc = "sent" => Agreed(D)
  BY <1>1, <1>2, <1>3, PasswordsLeft
<1>5. Dropped(c) = [alike EXCEPT ![u] = D] /\ Vaulted(c) = [alike EXCEPT ![u] = V]
      /\ AfterSuccess(c) = IF pushes[c].alone THEN settled \cup {u} ELSE settled
  BY <1>3 DEF Dropped, Vaulted, AfterSuccess
<1> HIDE DEF D, V
<1>6. /\ AfterSuccess(c) \subseteq Clients
      /\ \A v \in Clients \ {u} : v \in AfterSuccess(c) => v \in settled
      /\ u \in AfterSuccess(c) => pushes[c].alone
  BY <1>1, <1>2, <1>4, <1>5
<1> HIDE DEF P
<1>7. Settled([alike EXCEPT ![u] = D], [pushes EXCEPT ![c] = AtRest], settled \ {u})
  BY <1>1, <1>2, <1>3, <1>4, Finishes
<1>8. pushes[c].pc = "sent" =>
          Settled([alike EXCEPT ![u] = D], [pushes EXCEPT ![c] = AtRest], settled)
  BY <1>1, <1>2, <1>3, <1>4, Finishes
<1>9. pushes[c].pc = "taken" =>
          Settled([alike EXCEPT ![u] = V], [pushes EXCEPT ![c] = AtRest], AfterSuccess(c))
  BY <1>1, <1>2, <1>3, <1>4, <1>6, Finishes
<1>10. pushes[c].pc = "taken" /\ c \in Savers =>
          Settled([alike EXCEPT ![u] = D], [pushes EXCEPT ![c] = AtRest], AfterSuccess(c))
  BY <1>1, <1>2, <1>3, <1>4, <1>6, Finishes
<1> QED BY <1>2, <1>3, <1>5, <1>7, <1>8, <1>9, <1>10

LEMMA RejuvenatedCounted ==
    ASSUME CredInv, NEW u, Rejuvenated(u) PROVE nStale' \in Nat
BY AgedCounted DEF Rejuvenated, CredInv

LEMMA RenewalBeginsInv ==
    ASSUME CredInv, NEW r \in RenewalRuns, RenewalBegins(r)
    PROVE  CredInv'
<1>1. [pushes EXCEPT ![r] = AtRest] = pushes
  BY DEF RenewalBegins, Idles, CredInv, Settled
<1>2. Settled(alike, [pushes EXCEPT ![r] = AtRest], settled)
  BY <1>1 DEF CredInv
<1>3. Numbered(StaleBatch)
  BY BatchNumbered DEF CredInv
<1>4. RenewalGoesOn(r, StaleBatch, HasRow, FALSE, alike, settled)
  BY DEF RenewalBegins
<1>5. Settled(alike', pushes', settled') /\ ListsKept(r)
  BY <1>2, <1>3, <1>4, GoesOn
<1> QED BY <1>5, CredStep DEF RenewalBegins, CredInv

LEMMA RenewalEnding ==
    ASSUME NEW r, NEW known, NEW kept,
           Settled(known, [pushes EXCEPT ![r] = AtRest], kept), RenewalEnds(r, known, kept)
    PROVE  Settled(alike', pushes', settled') /\ ListsKept(r)
<1>1. Numbered(<<>>)
  <2>1. DOMAIN <<>> = 1..0
    OBVIOUS
  <2> QED BY <2>1 DEF Numbered
<1> QED BY <1>1 DEF RenewalEnds, Done, ListsKept

LEMMA RenewalStoresInv ==
    ASSUME CredInv, NEW r \in RenewalRuns, ~Idles(r), pushes[r].pc = "taken",
           RenewalStores(r) \/ RenewalCannotStore(r), UNCHANGED inUse
    PROVE  CredInv'
<1>0. r \in Pushers
  BY DEF Pushers
<1>1. /\ Settled(Dropped(r), [pushes EXCEPT ![r] = AtRest], settled \ {pushes[r].who})
      /\ Settled(Vaulted(r), [pushes EXCEPT ![r] = AtRest], AfterSuccess(r))
  BY <1>0, Ends
<1>2. Numbered(todo[r])
  BY DEF CredInv
<1>3. CASE RenewalStores(r)
  <2>1. nStale' \in Nat
    BY <1>3, RejuvenatedCounted DEF RenewalStores
  <2>2. \/ RenewalGoesOn(r, todo[r], HasRow \cup {pushes[r].who}, TRUE, Vaulted(r),
                         AfterSuccess(r))
        \/ RenewalEnds(r, Vaulted(r), AfterSuccess(r))
    BY <1>3 DEF RenewalStores, AfterSuccess
  <2>3. Settled(alike', pushes', settled') /\ ListsKept(r)
    BY <1>1, <1>2, <2>2, GoesOn, RenewalEnding
  <2> QED BY <2>1, <2>3, CredStep DEF CredInv
<1>4. CASE RenewalCannotStore(r)
  <2>1. Settled(alike', pushes', settled') /\ ListsKept(r)
    BY <1>1, <1>4, RenewalEnding DEF RenewalCannotStore
  <2> QED BY <1>4, <2>1, CredStep DEF CredInv, RenewalCannotStore
<1> QED BY <1>3, <1>4

LEMMA SuccessInv ==
    ASSUME CredInv, NEW c \in Pushers, Success(c)
    PROVE  CredInv'
<1>1. ~Idles(c) /\ pushes[c].pc = "taken" /\ UNCHANGED inUse
  BY DEF Success
<1>2. /\ Settled(Dropped(c), [pushes EXCEPT ![c] = AtRest], settled \ {pushes[c].who})
      /\ Settled(Vaulted(c), [pushes EXCEPT ![c] = AtRest], AfterSuccess(c))
      /\ c \in Savers =>
            Settled(Dropped(c), [pushes EXCEPT ![c] = AtRest], AfterSuccess(c))
  BY <1>1, Ends
<1>3. CASE c \in RenewalRuns /\ (RenewalStores(c) \/ RenewalCannotStore(c))
  BY <1>1, <1>3, RenewalStoresInv
<1>4. CASE /\ c \in Savers
           /\ Done(c) /\ alike' = Dropped(c) /\ settled' = AfterSuccess(c)
           /\ UNCHANGED <<nStale, todo>>
  BY <1>1, <1>2, <1>4, CredStep DEF Done, CredInv
<1>5. CASE /\ Rejuvenated(pushes[c].who)
           /\ Done(c) /\ alike' = Vaulted(c) /\ settled' = AfterSuccess(c)
           /\ UNCHANGED todo
  <2>1. nStale' \in Nat
    BY <1>5, RejuvenatedCounted
  <2> QED BY <1>1, <1>2, <1>5, <2>1, CredStep DEF Done, CredInv
<1>6. CASE /\ Done(c) /\ alike' = Dropped(c) /\ settled' = settled \ {pushes[c].who}
           /\ UNCHANGED <<nStale, todo>>
  BY <1>1, <1>2, <1>6, CredStep DEF Done, CredInv
<1> QED BY <1>3, <1>4, <1>5, <1>6 DEF Success, AfterSuccess

LEMMA FailureInv ==
    ASSUME CredInv, NEW c \in Pushers, Failure(c)
    PROVE  CredInv'
<1> DEFINE kept == IF pushes[c].pc = "taken" THEN settled \ {pushes[c].who} ELSE settled
<1>1. ~Idles(c) /\ UNCHANGED <<nStale, inUse>>
  BY DEF Failure
<1>2. Settled(Dropped(c), [pushes EXCEPT ![c] = AtRest], kept)
  <2>1. pushes[c].pc \in {"sent", "taken"}
    BY <1>1, Ends, PushesDiffer
  <2> QED BY <1>1, <2>1, Ends
<1> HIDE DEF kept
<1>3. CASE c \in RenewalRuns /\ \E reload \in {expired[c], TRUE} :
                   RenewalGoesOn(c, todo[c], HasRow, reload, Dropped(c), kept)
  <2>1. Numbered(todo[c])
    BY <1>3 DEF CredInv
  <2>2. Settled(alike', pushes', settled') /\ ListsKept(c)
    BY <1>2, <1>3, <2>1, GoesOn
  <2> QED BY <1>1, <1>3, <2>2, CredStep DEF CredInv
<1>4. CASE Done(c) /\ alike' = Dropped(c) /\ settled' = kept /\ UNCHANGED todo
  BY <1>1, <1>2, <1>4, CredStep DEF Done, CredInv
<1> QED BY <1>3, <1>4 DEF Failure, kept

LEMMA SaveOverrideInv ==
    ASSUME CredInv, NEW c \in Savers, NEW u \in Clients, SaveOverride(c, u)
    PROVE  CredInv'
<1> DEFINE S1 == Anew(alike[u], c)
           S2 == Copied(S1, c, "vault")
           W == AtWork(pushes, u)
<1>1. Settled(alike, pushes, settled) /\ settled \subseteq Clients
  BY DEF CredInv, Settled
<1>2. c \in Pushers /\ pushes[c] = AtRest /\ c # "vault"
  BY PushesDiffer DEF SaveOverride, Idles, Pushers
<1>3. Kept(alike[u], W)
  BY <1>1 DEF Settled, Fit
<1>4. [pushes EXCEPT ![c] = AtRest] = pushes
  BY <1>1, <1>2 DEF Settled
<1>5. Sending(c, u) = Sent(pushes, c, u)
  BY <1>2, <1>4, SendingIsSent
<1> HIDE DEF W
<1>6. Kept(S1, W \cup {c})
  BY <1>2, <1>3, AnewKept
<1> HIDE DEF S1
<1>7. Kept(S2, W \cup {c}) /\ \A K \in S2 : c \in K <=> "vault" \in K
  BY <1>2, <1>6, CopiedHas DEF Kept, Sides
<1> HIDE DEF S2
<1>8. /\ settled \ {u} \subseteq Clients /\ u \notin settled \ {u}
      /\ \A v \in Clients \ {u} : v \in settled \ {u} => v \in settled
  BY <1>1
<1>9. Settled([alike EXCEPT ![u] = S2], Sent(pushes, c, u), settled \ {u})
  BY <1>1, <1>2, <1>7, <1>8, Starts DEF W
<1>10. /\ alike' = [alike EXCEPT ![u] = S2]
       /\ pushes' = Sent(pushes, c, u) /\ settled' = settled \ {u}
       /\ UNCHANGED <<inUse, todo>>
  BY <1>5 DEF SaveOverride, S1, S2
<1>11. nStale' \in Nat
  BY RejuvenatedCounted DEF SaveOverride
<1> QED BY <1>9, <1>10, <1>11, CredStep DEF CredInv

LEMMA PushBeginsInv ==
    ASSUME CredInv, NEW c \in Provisioners, NEW u \in Clients, PushBegins(c, u)
    PROVE  CredInv'
<1>1. Settled(alike, pushes, settled)
  BY DEF CredInv
<1>2. c \in Pushers /\ c \notin Savers /\ pushes[c] = AtRest
  BY PushesDiffer DEF PushBegins, Idles, Pushers
<1>3. [pushes EXCEPT ![c] = AtRest] = pushes
  BY <1>1, <1>2 DEF Settled
<1> DEFINE S2 == [alike EXCEPT ![u] = Anew(alike[u], c)]
           T2 == IF AtWork(pushes, u) = {} THEN settled ELSE settled \ {u}
<1>4. Settled(S2, Sent(pushes, c, u), T2)
  BY <1>1, <1>2, Begins
<1>5. alike' = S2 /\ pushes' = Sent(pushes, c, u) /\ settled' = T2
      /\ UNCHANGED <<nStale, inUse, todo>>
  BY <1>2, <1>3, SendingIsSent DEF PushBegins, Undisturbed
<1> HIDE DEF S2, T2
<1> QED BY <1>4, <1>5, CredStep DEF CredInv

LEMMA DeleteOverrideInv ==
    ASSUME CredInv, NEW u \in Clients, DeleteOverride(u)
    PROVE  CredInv'
<1> DEFINE P == [d \in Pushers |-> IF Idles(d) \/ pushes[d].who # u THEN pushes[d]
                                    ELSE [pushes[d] EXCEPT !.alone = FALSE]]
           S2 == Without(alike[u], "vault")
           S1 == [alike EXCEPT ![u] = S2]
           T2 == settled \ {u}
<1>1. Settled(alike, pushes, settled)
  BY DEF CredInv
<1>2. \A d \in Pushers : pushes[d] \in Push \cup {AtRest}
  BY <1>1 DEF Settled
<1>3. \A push \in Push : /\ [push EXCEPT !.alone = FALSE] \in Push
                         /\ [push EXCEPT !.alone = FALSE].alone = FALSE
                         /\ [push EXCEPT !.alone = FALSE].who = push.who
  BY DEF Push
<1>4. ASSUME NEW d \in Pushers
      PROVE  /\ P[d] \in Push \cup {AtRest}
             /\ P[d] # AtRest <=> pushes[d] # AtRest
             /\ P[d] # AtRest => P[d].who = pushes[d].who
             /\ P[d] # AtRest /\ P[d].who = u => ~P[d].alone
             /\ P[d] # AtRest /\ P[d].who # u => P[d] = pushes[d]
  <2>1. CASE Idles(d) \/ pushes[d].who # u
    BY <1>2, <2>1 DEF Idles
  <2>2. CASE ~Idles(d) /\ pushes[d].who = u
    BY <1>2, <1>3, <2>2, PushesDiffer DEF Idles
  <2> QED BY <2>1, <2>2
<1>5. P \in [Pushers -> Push \cup {AtRest}]
  <2>1. P = [d \in Pushers |-> P[d]]
    OBVIOUS
  <2> HIDE DEF P
  <2> QED BY <1>4, <2>1
<1> HIDE DEF P
<1>6. \A v \in Clients : AtWork(P, v) = AtWork(pushes, v)
  BY <1>4 DEF AtWork
<1>7. DOMAIN S1 = Clients /\ S1[u] = S2 /\ \A v \in Clients \ {u} : S1[v] = alike[v]
  BY <1>1 DEF Settled
<1>8. Kept(S2, AtWork(pushes, u))
  <2>1. Kept(alike[u], AtWork(pushes, u))
    BY <1>1 DEF Settled, Fit
  <2> QED BY <2>1, WithoutHas DEF Kept
<1> HIDE DEF S1, S2
<1>9. Fit(S1, P, T2, u)
  BY <1>4, <1>6, <1>7, <1>8 DEF Fit, AtWork
<1>10. ASSUME NEW v \in Clients \ {u} PROVE Fit(S1, P, T2, v)
  <2>1. Fit(alike, pushes, settled, v)
    BY <1>1 DEF Settled
  <2>2. \A d \in Pushers : pushes[d] # AtRest /\ pushes[d].who = v => P[d] = pushes[d]
    BY <1>4
  <2>3. \A d \in AtWork(pushes, v) : P[d] = pushes[d]
    BY <2>2 DEF AtWork
  <2>4. AtWork(P, v) = AtWork(pushes, v) /\ S1[v] = alike[v]
    BY <1>6, <1>7
  <2> QED BY <2>1, <2>2, <2>3, <2>4 DEF Fit
<1>11. Settled(S1, P, T2)
  BY <1>1, <1>5, <1>7, <1>9, <1>10 DEF Settled
<1>12. alike' = S1 /\ pushes' = P /\ settled' = T2 /\ UNCHANGED <<inUse, todo>>
  BY DEF DeleteOverride, S1, S2, P
<1>13. nStale' \in Nat
  BY AgedCounted DEF DeleteOverride, CredInv
<1> QED BY <1>11, <1>12, <1>13, CredStep DEF CredInv

LEMMA ApplicationTakesInv ==
    ASSUME CredInv, NEW c \in Pushers, ApplicationTakes(c)
    PROVE  CredInv'
<1> DEFINE u == pushes[c].who
           S2 == Copied(alike[u], c, "application")
           S1 == [alike EXCEPT ![u] = S2]
           push == [pushes[c] EXCEPT !.pc = "taken"]
           P == [pushes EXCEPT ![c] = push]
           W == AtWork(pushes, u)
<1>1. Settled(alike, pushes, settled)
  BY DEF CredInv
<1>2. pushes[c] \in Push /\ u \in Clients /\ pushes[c] # AtRest
  BY <1>1, PushesDiffer DEF Settled, ApplicationTakes, Idles
<1>3. push \in Push /\ push.pc = "taken" /\ push.who = u /\ push.alone = pushes[c].alone
      /\ push # AtRest
  <2>1. push \in Push /\ push.pc = "taken" /\ push.who = u /\ push.alone = pushes[c].alone
    BY <1>2 DEF Push
  <2> QED BY <2>1, PushesDiffer
<1>4. alike' = S1 /\ pushes' = P /\ UNCHANGED <<settled, nStale, inUse, todo>>
  BY DEF ApplicationTakes
<1>5. c # "vault" /\ c # "application"
  BY PushesDiffer
<1>6. DOMAIN S1 = Clients /\ S1[u] = S2 /\ \A v \in Clients \ {u} : S1[v] = alike[v]
  BY <1>1, <1>2 DEF Settled
<1>7. Fit(alike, pushes, settled, u) /\ c \in W
  BY <1>1, <1>2 DEF Settled, AtWork
<1> HIDE DEF u, push
<1>8. /\ P \in [Pushers -> Push \cup {AtRest}] /\ P[c] = push
      /\ \A d \in Pushers \ {c} : P[d] = pushes[d]
  BY <1>1, <1>3 DEF Settled
<1> HIDE DEF P
<1>9. \A v \in Clients : AtWork(P, v) = AtWork(pushes, v)
  BY <1>2, <1>3, <1>8 DEF AtWork, u
<1>10. ASSUME NEW K \in S2
       PROVE  /\ c \in K <=> "application" \in K
              /\ K # {} /\ K \subseteq Sides \cup W
              /\ \E L \in alike[u] : c \in K <=> c \in L
              /\ \E L \in alike[u] : /\ c \in K <=> c \in L
                                     /\ "vault" \in K <=> "vault" \in L
  <2>1. PICK L \in alike[u] : /\ L \ {"application"} # {}
                              /\ c \in L => K = L \cup {"application"}
                              /\ c \notin L => K = L \ {"application"}
    BY <1>5, CopiedHas
  <2>2. c \in K <=> "application" \in K
    BY <1>5, CopiedHas
  <2>3. L \subseteq Sides \cup W
    BY <1>7 DEF Fit, Kept, W
  <2> HIDE DEF S2, W
  <2>4. K # {} /\ K \subseteq Sides \cup W
    BY <2>1, <2>3 DEF Sides
  <2>5. (c \in K <=> c \in L) /\ ("vault" \in K <=> "vault" \in L)
    BY <1>5, <2>1
  <2> QED BY <2>2, <2>4, <2>5
<1> HIDE DEF S1, S2
<1>11. Fit(S1, P, settled, u)
  <2>1. Kept(S1[u], AtWork(P, u))
    BY <1>2, <1>6, <1>9, <1>10 DEF Kept, W
  <2>2. \A d \in W : pushes[d].alone => d = c
    BY <1>7 DEF Fit, W
  <2>3. u \in settled => pushes[c].alone
    BY <1>7, <2>2 DEF Fit, W, AtWork
  <2>4. u \in settled => /\ P[c] # AtRest /\ P[c].who = u /\ P[c].alone
                         /\ P[c].pc # "sent"
    BY <1>3, <1>8, <2>3
  <2>5. pushes[c].alone => W = {c} /\ Known(alike[u], c, pushes[c])
    BY <1>7 DEF Fit, W
  <2>6. pushes[c].alone => Known(S1[u], c, P[c])
    BY <1>6, <1>10, <2>5 DEF Known
  <2>7. \A d \in W : P[d].alone => d = c /\ pushes[c].alone
    BY <1>3, <1>8, <2>2 DEF W, AtWork
  <2>8. \A d \in AtWork(P, u) :
           P[d].alone => AtWork(P, u) = {d} /\ Known(S1[u], d, P[d])
    BY <1>2, <1>9, <2>5, <2>6, <2>7 DEF W
  <2> QED BY <2>1, <2>4, <2>8 DEF Fit
<1>12. ASSUME NEW v \in Clients \ {u} PROVE Fit(S1, P, settled, v)
  <2>1. Fit(alike, pushes, settled, v)
    BY <1>1 DEF Settled
  <2>2. \A d \in Pushers : pushes[d] # AtRest /\ pushes[d].who = v => P[d] = pushes[d]
    BY <1>8 DEF u
  <2>3. \A d \in AtWork(pushes, v) : P[d] = pushes[d]
    BY <2>2 DEF AtWork
  <2>4. AtWork(P, v) = AtWork(pushes, v) /\ S1[v] = alike[v]
    BY <1>6, <1>9
  <2> QED BY <2>1, <2>2, <2>3, <2>4 DEF Fit
<1>13. Settled(S1, P, settled)
  BY <1>1, <1>6, <1>8, <1>11, <1>12 DEF Settled
<1> QED BY <1>4, <1>13, CredStep DEF CredInv

LEMMA RestartInv ==
    ASSUME CredInv, Restart PROVE CredInv'
<1> DEFINE T == {u \in settled :
                    \A c \in Pushers : ~(pushes[c].pc = "taken" /\ pushes[c].who = u)}
           S == [u \in Clients |-> {K \ Pushers : K \in alike[u]} \ {{}}]
           P == [c \in Pushers |-> AtRest]
<1>1. Settled(alike, pushes, settled)
  BY DEF CredInv
<1>2. P \in [Pushers -> Push \cup {AtRest}] /\ DOMAIN S = Clients /\ T \subseteq Clients
  BY <1>1 DEF Settled
<1>3. ASSUME NEW u \in Clients PROVE Fit(S, P, T, u)
  <2>1. AtWork(P, u) = {}
    BY DEF AtWork
  <2>2. Fit(alike, pushes, settled, u) /\ AtWork(pushes, u) \subseteq Pushers
    BY <1>1 DEF Settled, AtWork
  <2>3. \A K \in S[u] : K # {} /\ \E L \in alike[u] : K = L \ Pushers
    OBVIOUS
  <2>4. "vault" \notin Pushers /\ "application" \notin Pushers
    BY PushesDiffer
  <2>5. Kept(S[u], {})
    BY <2>2, <2>3 DEF Fit, Kept, Sides
  <2>6. ASSUME u \in T PROVE Agreed(S[u])
    <3>1. \A c \in Pushers : pushes[c] # AtRest /\ pushes[c].who = u => pushes[c].pc = "sent"
      BY <1>1, <2>6, PushesDiffer DEF Settled
    <3>2. \A L \in alike[u] : (\E c \in Pushers : L = {c}) \/ Sides \subseteq L
      BY <2>2, <2>6, <3>1 DEF Fit, Agreed
    <3> HIDE DEF S
    <3> QED BY <2>3, <2>4, <3>2 DEF Agreed, Sides
  <2> QED BY <2>1, <2>5, <2>6 DEF Fit
<1>4. Settled(S, P, T)
  BY <1>2, <1>3 DEF Settled
<1>5. alike' = S /\ pushes' = P /\ settled' = T /\ todo' = [r \in RenewalRuns |-> <<>>]
      /\ UNCHANGED <<nStale, inUse>>
  BY DEF Restart
<1>6. Numbered(<<>>)
  <2>1. DOMAIN <<>> = 1..0
    OBVIOUS
  <2> QED BY <2>1 DEF Numbered
<1>7. /\ todo' \in [RenewalRuns -> {todo'[r] : r \in RenewalRuns}]
      /\ \A r \in RenewalRuns : Numbered(todo'[r])
  BY <1>5, <1>6
<1> HIDE DEF S, P, T
<1>8. Settled(alike', pushes', settled')
  BY <1>4, <1>5
<1>9. Settled(alike, pushes, settled)' <=> Settled(alike', pushes', settled')
  BY DEF Settled, Fit, AtWork, Kept, Agreed, Known
<1>10. \A r \in RenewalRuns : Numbered(todo[r])' <=> Numbered(todo'[r])
  BY DEF Numbered
<1> QED BY <1>5, <1>7, <1>8, <1>9, <1>10 DEF CredInv

LEMMA CredInitInv == CredInit => CredInv
<1> SUFFICES ASSUME CredInit PROVE CredInv
  OBVIOUS
<1>1. DOMAIN alike = Clients /\ pushes \in [Pushers -> Push \cup {AtRest}]
      /\ settled \subseteq Clients
  BY DEF CredInit
<1>2. ASSUME NEW u \in Clients PROVE Fit(alike, pushes, settled, u)
  <2>1. AtWork(pushes, u) = {}
    BY DEF CredInit, AtWork
  <2>2. \A K \in alike[u] : K = Sides
    BY DEF CredInit, Sides
  <2>3. Kept(alike[u], {}) /\ Agreed(alike[u])
    BY <2>2 DEF Kept, Agreed, Sides
  <2> QED BY <2>1, <2>3 DEF Fit
<1>3. Settled(alike, pushes, settled)
  BY <1>1, <1>2 DEF Settled
<1>4. Numbered(<<>>)
  <2>1. DOMAIN <<>> = 1..0
    OBVIOUS
  <2> QED BY <2>1 DEF Numbered
<1>5. /\ todo \in [RenewalRuns -> {todo[r] : r \in RenewalRuns}]
      /\ \A r \in RenewalRuns : Numbered(todo[r])
  BY <1>4 DEF CredInit
<1> QED BY <1>3, <1>5 DEF CredInit, CredInv

LEMMA CredNextInv == CredInv /\ [CredNext]_credVars => CredInv'
<1> SUFFICES ASSUME CredInv, [CredNext]_credVars PROVE CredInv'
  OBVIOUS
<1>0. Settled(alike, pushes, settled) /\ nStale \in Nat /\ inUse \subseteq Clients
  BY DEF CredInv
<1>1. ASSUME NEW c \in Pushers, ApplicationTakes(c) \/ Success(c) \/ Failure(c)
      PROVE  CredInv'
  BY <1>1, ApplicationTakesInv, SuccessInv, FailureInv
<1>2. ASSUME NEW u \in Clients, \/ \E c \in Savers : SaveOverride(c, u)
                                \/ \E c \in Provisioners : PushBegins(c, u)
                                \/ DeleteOverride(u)
      PROVE  CredInv'
  BY <1>2, SaveOverrideInv, PushBeginsInv, DeleteOverrideInv
<1>3. ASSUME \/ SwitchRenewal \/ CredentialAges \/ UNCHANGED credVars
             \/ \E u \in Clients : SwitchAccount(u)
      PROVE  CredInv'
  <2>1. UNCHANGED <<alike, pushes, settled, todo>>
        /\ nStale' \in Nat /\ inUse' \subseteq Clients
    BY <1>0, <1>3 DEF SwitchRenewal, CredentialAges, SwitchAccount, credVars
  <2>2. Settled(alike', pushes', settled')
    BY <1>0, <2>1
  <2> QED BY <2>1, <2>2, CredStep
<1> QED BY <1>1, <1>2, <1>3, RenewalBeginsInv, RestartInv DEF CredNext

LEMMA CredInvHolds == CredSpec => []CredInv
<1> QED BY CredInitInv, CredNextInv, PTL DEF CredSpec

(* renew_one_credential, sync_vault_credential_to_app,                      *)
(* provision_account_app: for any number of clients, coroutines, refusals,  *)
(* lost answers and restarts, whoever was the last to write a password, and *)
(* did so undisturbed, has left the same one in the vault and at the        *)
(* application.                                                             *)
THEOREM VaultAndApplicationAgree == CredSpec => []VaultOpensApp
<1>1. CredInv => VaultOpensApp
  <2> SUFFICES ASSUME CredInv, NEW u \in settled,
                      \A c \in Pushers : Idles(c) \/ pushes[c].who # u,
                      NEW K \in alike[u]
               PROVE  {"vault", "application"} \subseteq K
    BY DEF VaultOpensApp
  <2>1. u \in Clients /\ Fit(alike, pushes, settled, u)
    BY DEF CredInv, Settled
  <2>2. Agreed(alike[u])
    BY <2>1 DEF Fit, Idles
  <2> QED BY <2>2 DEF Agreed, Sides
<1> QED BY CredInvHolds, <1>1, PTL
================================================================================
