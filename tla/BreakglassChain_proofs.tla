----------------------- MODULE BreakglassChain_proofs ------------------------
(***************************************************************************)
(* Proofs about BreakglassChain for any number of clients, requests and    *)
(* jtis, and any timing: rotation never prolongs a session, chains stay    *)
(* linked, a cut that races with no rotation is final, and a lone client   *)
(* is never taken for a replay.                                            *)
(***************************************************************************)
EXTENDS BreakglassChain, TLAPS

Issued == 1..issued

(* No cookie outlives its row ...                                           *)
TokenSound(tok) == tok.jti # 0 => tok.jti \in Issued /\ tok.exp <= expAt[tok.jti]

TokensSound ==
    /\ \A h \in Holders : TokenSound(held[h])
    /\ \A t \in Threads : TokenSound(ttok[t])

(* ... and every row of a chain has the expiry its login gave it.           *)
RowsSound ==
    \A j \in Issued : chain[j] \in Issued /\ expAt[j] = iss[chain[j]] + AbsoluteTTL

(* A chain's rows are registered together and purged together.              *)
ChainsWhole == \A j, k \in Issued : (chain[j] = chain[k] /\ j \in reg) => k \in reg

(* Every jti of a quietly cut chain is marked or long expired ...           *)
CutSealed ==
    \A c \in quietCut : c \in Issued /\
        \A j \in Issued : chain[j] = c => ((j \in reg /\ chainRev[j]) \/ expAt[j] < now)

(* ... and no rotation is under way that would add to it.                   *)
NoRotationOfCut ==
    \A t \in Threads : tpc[t] = "rotating" =>
        ttok[t].jti \in Issued /\ chain[ttok[t].jti] \notin quietCut

(* A jti that is still to be issued supersedes to nothing.                  *)
FreshClean == \A j \in Jti : j \notin Issued => sup[j] = 0

Sealed ==
    /\ TypeOK /\ TokensSound /\ RowsSound /\ ChainsWhole /\ FreshClean
    /\ CutSealed /\ NoRotationOfCut /\ ChainLinked

(* Nothing is registered, held or cut before the first login.               *)
LEMMA SealedInit == Init => Sealed
<1> SUFFICES ASSUME Init PROVE Sealed
  OBVIOUS
<1> USE TimingAssumption DEF TimingAssumption
<1>1. registryUp \in BOOLEAN /\ revoked \in [Jti -> BOOLEAN] /\ chainRev \in [Jti -> BOOLEAN]
  BY Zenon DEF Init
<1>2. NoToken \in Token
  BY DEF NoToken, Token
<1>3. TypeOK
  BY <1>1, <1>2 DEF Init, TypeOK
<1>4. TokensSound /\ RowsSound /\ ChainsWhole /\ FreshClean /\ CutSealed /\ NoRotationOfCut
      /\ ChainLinked
  BY DEF Init, TokensSound, TokenSound, NoToken, RowsSound, ChainsWhole, CutSealed, NoRotationOfCut,
     ChainLinked, FreshClean, Issued
<1> QED BY <1>3, <1>4 DEF Sealed

(* The assumption on the constants, one fact at a time.                     *)
LEMMA Timing ==
  /\ Grace \in Nat /\ RotateEvery \in Nat /\ IdleTimeout \in Nat /\ AbsoluteTTL \in Nat
  /\ DegradedTTL \in Nat /\ Retention \in Nat /\ MaxJti \in Nat /\ MaxTime \in Nat
  /\ DegradedTTL <= AbsoluteTTL
  BY TimingAssumption DEF TimingAssumption

(* The types of the variables that are not Boolean.                         *)
Types ==
    /\ now \in Nat /\ issued \in Nat /\ issued <= MaxJti
    /\ reg \subseteq Issued /\ Issued \subseteq Jti
    /\ chain \in [Jti -> 0..MaxJti]
    /\ iss \in [Jti -> Nat] /\ expAt \in [Jti -> Nat]
    /\ sup \in [Jti -> 0..MaxJti]
    /\ held \in [Holders -> Token] /\ ttok \in [Threads -> Token]

(* They follow from the type invariant.                                     *)
LEMMA TypesHold == TypeOK => Types
  BY Timing DEF TypeOK, Types, Jti, Issued

(* An issued jti is within the bound, and is not NULL.                      *)
LEMMA IssuedJti == ASSUME Types PROVE \A j \in Issued : j \in Jti /\ j \in 0..MaxJti /\ j # 0
<1>1. \A j \in Issued : j \in Jti
  BY DEF Types
<1>2. \A j \in Jti : j \in 0..MaxJti /\ j # 0
  BY Timing DEF Jti
<1> QED BY <1>1, <1>2

(* A fresh jti is new to every chain.                                       *)
LEMMA FreshJti ==
  ASSUME Types, issued < MaxJti, issued' = issued + 1
  PROVE  /\ issued + 1 \in Jti /\ issued + 1 \in 0..MaxJti /\ issued + 1 # 0
         /\ issued + 1 \notin Issued
         /\ Issued' = Issued \cup {issued + 1} /\ Issued' \subseteq Jti
         /\ issued' \in 0..MaxJti
<1>1. issued \in Nat /\ issued' \in Nat /\ issued' <= MaxJti
  BY Timing DEF Types
<1>2. /\ issued + 1 \in Jti /\ issued + 1 \in 0..MaxJti /\ issued + 1 # 0
      /\ issued + 1 \notin Issued /\ issued' \in 0..MaxJti
  BY <1>1, Timing DEF Issued, Jti
<1>3. Issued' = Issued \cup {issued + 1}
  BY <1>1 DEF Issued
<1>4. Issued' \subseteq Jti
  BY <1>1, Timing DEF Issued, Jti
<1> QED BY <1>2, <1>3, <1>4

(* A login opens a chain of its own.                                        *)
LEMMA LoginSealed == ASSUME Sealed, NEW h \in Holders, Login(h) PROVE Sealed'
<1>0. Types /\ TypeOK /\ TokensSound /\ RowsSound /\ ChainsWhole /\ FreshClean
      /\ CutSealed /\ NoRotationOfCut /\ ChainLinked
  BY TypesHold DEF Sealed
<1> DEFINE j == issued + 1
<1>1. /\ issued' = j /\ issued < MaxJti
      /\ chain' = [chain EXCEPT ![j] = j]
      /\ iss' = [iss EXCEPT ![j] = now]
      /\ expAt' = [expAt EXCEPT ![j] = now + AbsoluteTTL]
      /\ UNCHANGED <<now, sup, supAt, tpc, twho, ttok, cut, quietCut, replayed>>
  BY DEF Login, threadVars, history
<1>2. reg' = reg \/ reg' = reg \cup {j}
  BY DEF Login
<1>3. \/ held' = [held EXCEPT ![h] = [jti |-> j, last |-> now, exp |-> now + AbsoluteTTL]]
      \/ held' = [held EXCEPT ![h] = [jti |-> j, last |-> now, exp |-> now + DegradedTTL]]
  BY DEF Login
<1>4. UNCHANGED <<registryUp, revoked, chainRev>>
  BY DEF Login
<1>5. /\ j \in Jti /\ j \in 0..MaxJti /\ j # 0 /\ j \notin Issued
      /\ Issued' = Issued \cup {j} /\ Issued' \subseteq Jti /\ issued' \in 0..MaxJti
  BY <1>0, <1>1, FreshJti
<1> HIDE DEF j
<1>6. /\ \A k \in Issued : chain'[k] = chain[k] /\ iss'[k] = iss[k] /\ expAt'[k] = expAt[k]
      /\ chain'[j] = j /\ iss'[j] = now /\ expAt'[j] = now + AbsoluteTTL
  BY <1>0, <1>1, <1>5 DEF Types
<1>7. TypeOK'
  <2>1. held' \in [Holders -> Token]
    BY <1>0, <1>3, <1>5, Timing DEF Types, Token
  <2>2. reg' \in SUBSET (1..issued)'
    BY <1>0, <1>2, <1>5 DEF Types, Issued
  <2>3. chain' \in [Jti -> 0..MaxJti] /\ iss' \in [Jti -> Nat] /\ expAt' \in [Jti -> Nat]
    BY <1>0, <1>1, <1>5, Timing DEF Types
  <2> QED BY <1>0, <1>1, <1>4, <1>5, <2>1, <2>2, <2>3 DEF TypeOK
<1>8. RowsSound'
  <2>1. ASSUME NEW k \in Issued
        PROVE  chain'[k] \in Issued' /\ expAt'[k] = iss'[chain'[k]] + AbsoluteTTL
    <3>1. chain[k] \in Issued /\ expAt[k] = iss[chain[k]] + AbsoluteTTL
      BY <1>0 DEF RowsSound
    <3>2. chain'[k] = chain[k] /\ expAt'[k] = expAt[k] /\ iss'[chain[k]] = iss[chain[k]]
      BY <1>6, <3>1
    <3> QED BY <3>1, <3>2, <1>5
  <2>2. chain'[j] \in Issued' /\ expAt'[j] = iss'[chain'[j]] + AbsoluteTTL
    BY <1>5, <1>6
  <2> QED BY <1>5, <2>1, <2>2 DEF RowsSound
<1>9. TokensSound'
  <2>1. ASSUME NEW g \in Holders PROVE TokenSound(held[g])'
    <3>1. CASE g = h
      <4>1. held'[g].jti = j /\ held'[g].exp \in {now + AbsoluteTTL, now + DegradedTTL}
        BY <1>0, <1>3, <3>1 DEF Types
      <4>2. held'[g].exp <= now + AbsoluteTTL
        BY <1>0, <4>1, Timing DEF Types
      <4> QED BY <4>1, <4>2, <1>5, <1>6 DEF TokenSound
    <3>2. CASE g # h
      <4>1. held'[g] = held[g]
        BY <1>0, <1>3, <3>2 DEF Types
      <4> QED BY <4>1, <1>0, <1>5, <1>6 DEF TokensSound, TokenSound
    <3> QED BY <3>1, <3>2
  <2>2. ASSUME NEW t \in Threads PROVE TokenSound(ttok[t])'
    BY <1>0, <1>1, <1>5, <1>6 DEF TokensSound, TokenSound
  <2> QED BY <2>1, <2>2 DEF TokensSound
<1>10. ChainsWhole'
  BY <1>0, <1>2, <1>5, <1>6 DEF Types, RowsSound, ChainsWhole
<1>11. CutSealed'
  BY <1>0, <1>1, <1>2, <1>4, <1>5, <1>6 DEF CutSealed
<1>12. NoRotationOfCut'
  BY <1>0, <1>1, <1>5, <1>6 DEF NoRotationOfCut
<1>13. ChainLinked'
  <2> SUFFICES ASSUME NEW k \in reg', sup[k] # 0
               PROVE  sup[k] \in reg' /\ chain'[sup[k]] = chain'[k]
    BY <1>1 DEF ChainLinked
  <2>1. k # j /\ k \in reg
    BY <1>0, <1>2, <1>5 DEF FreshClean
  <2>2. sup[k] \in reg /\ chain[sup[k]] = chain[k] /\ k \in Issued /\ sup[k] \in Issued
    BY <1>0, <2>1 DEF ChainLinked, Types
  <2>3. chain'[sup[k]] = chain[sup[k]] /\ chain'[k] = chain[k]
    BY <1>6, <2>2
  <2> QED BY <1>2, <2>2, <2>3
<1>14. FreshClean'
  BY <1>0, <1>1, <1>5 DEF FreshClean
<1> QED BY <1>7, <1>8, <1>9, <1>10, <1>11, <1>12, <1>13, <1>14 DEF Sealed

(* A cut, by an administrator, a logout or replay detection: the rows of    *)
(* the chain are marked, cookies are dropped but none is issued, and no     *)
(* rotation begins.                                                         *)
LEMMA CutSeals ==
  ASSUME Sealed, TypeOK', NEW i \in reg, NEW p, mark_chain_revoked(chain[i]), NoteCut(chain[i], p),
         UNCHANGED <<now, issued, reg, chain, iss, expAt, sup>>,
         \A h \in Holders : held'[h] = held[h] \/ held'[h] = NoToken,
         \A t \in Threads : ttok'[t] = ttok[t] \/ ttok'[t] = NoToken,
         \A t \in Threads : tpc'[t] = "rotating" => (tpc[t] = "rotating" /\ ttok'[t] = ttok[t])
  PROVE  Sealed'
<1>0. Types /\ TokensSound /\ RowsSound /\ ChainsWhole /\ FreshClean
      /\ CutSealed /\ NoRotationOfCut /\ ChainLinked
  BY TypesHold DEF Sealed
<1>1. Issued' = Issued
  BY DEF Issued
<1>2. /\ RowsSound' /\ ChainsWhole' /\ ChainLinked' /\ FreshClean'
  <2>1. RowsSound'
    BY <1>0, <1>1, Zenon DEF RowsSound
  <2>2. ChainsWhole'
    BY <1>0, <1>1, Zenon DEF ChainsWhole
  <2>3. ChainLinked' /\ FreshClean'
    BY <1>0, <1>1, Zenon DEF ChainLinked, FreshClean
  <2> QED BY <2>1, <2>2, <2>3
<1>3. TokensSound'
  BY <1>0, <1>1 DEF TokensSound, TokenSound, NoToken
<1>4. /\ i \in Issued /\ i \in Jti /\ Issued \subseteq Jti
      /\ \A j \in Jti : chainRev[j] => chainRev'[j]
      /\ \A j \in Jti : (j \in reg /\ chain[j] = chain[i]) => chainRev'[j]
  BY <1>0 DEF Types, mark_chain_revoked, ChainRows
<1>5. quietCut' = quietCut \/ (quietCut' = quietCut \cup {chain[i]} /\ ~InFlight(chain[i]))
  BY DEF NoteCut
<1>6. CutSealed'
  <2> SUFFICES ASSUME NEW c \in quietCut'
               PROVE  /\ c \in Issued
                      /\ \A j \in Issued : chain[j] = c =>
                            ((j \in reg /\ chainRev'[j]) \/ expAt[j] < now)
    BY <1>1 DEF CutSealed
  <2>1. CASE c \in quietCut
    BY <1>0, <1>4, <2>1 DEF CutSealed
  <2>2. CASE c = chain[i]
    BY <1>0, <1>4, <2>2 DEF RowsSound, ChainsWhole
  <2> QED BY <1>5, <2>1, <2>2
<1>7. NoRotationOfCut'
  <2> SUFFICES ASSUME NEW t \in Threads, tpc'[t] = "rotating"
               PROVE  ttok'[t].jti \in Issued /\ chain[ttok'[t].jti] \notin quietCut'
    BY <1>1 DEF NoRotationOfCut
  <2>1. tpc[t] = "rotating" /\ ttok'[t] = ttok[t]
    OBVIOUS
  <2>2. ttok[t].jti \in Issued /\ chain[ttok[t].jti] \notin quietCut
    BY <1>0, <2>1 DEF NoRotationOfCut
  <2>3. ~InFlight(chain[i]) => chain[ttok[t].jti] # chain[i]
    BY <2>1 DEF InFlight
  <2> QED BY <1>5, <2>1, <2>2, <2>3
<1> QED BY <1>2, <1>3, <1>6, <1>7 DEF Sealed

(* Steps that leave the registry alone: it is enough that the cookies they  *)
(* move are sound and that they begin no rotation of a cut chain.           *)
LEMMA RegistryStill ==
  ASSUME Sealed, TypeOK', UNCHANGED <<issued, reg, chain, iss, expAt, sup, chainRev, quietCut>>,
         now' >= now, TokensSound', NoRotationOfCut'
  PROVE  Sealed'
<1>0. Types /\ RowsSound /\ ChainsWhole /\ FreshClean /\ CutSealed /\ ChainLinked
  BY TypesHold DEF Sealed
<1>1. Issued' = Issued
  BY DEF Issued
<1>2. RowsSound'
  BY <1>0, <1>1, Zenon DEF RowsSound
<1>3. ChainsWhole'
  BY <1>0, <1>1, Zenon DEF ChainsWhole
<1>4. ChainLinked' /\ FreshClean'
  BY <1>0, <1>1, Zenon DEF ChainLinked, FreshClean
<1>5. CutSealed'
  <2>1. \A j \in Issued : expAt[j] < now => expAt[j] < now'
    <3>1. now \in Nat /\ now' \in Nat /\ \A j \in Issued : expAt[j] \in Nat
      BY <1>0, Timing DEF Types, TypeOK
    <3> QED BY <3>1
  <2> QED BY <1>0, <1>1, <2>1 DEF CutSealed
<1> QED BY <1>2, <1>3, <1>4, <1>5 DEF Sealed

(* The end of a request drops its cookie and leaves the others alone.       *)
LEMMA EndRequestSound ==
  ASSUME Sealed, NEW t \in Threads, EndRequest(t)
  PROVE  /\ tpc' \in [Threads -> {"idle", "sent", "rotating", "response"}]
         /\ twho' \in [Threads -> Holders] /\ ttok' \in [Threads -> Token]
         /\ \A s \in Threads : ttok'[s] = ttok[s] \/ ttok'[s] = NoToken
         /\ \A s \in Threads : tpc'[s] = "rotating" => (tpc[s] = "rotating" /\ ttok'[s] = ttok[s])
<1>1. /\ tpc \in [Threads -> {"idle", "sent", "rotating", "response"}]
      /\ twho \in [Threads -> Holders] /\ ttok \in [Threads -> Token]
  BY DEF Sealed, TypeOK
<1>2. NoToken \in Token
  BY Timing DEF NoToken, Token
<1> QED BY <1>1, <1>2 DEF EndRequest

(* An empty jar is sound.                                                   *)
LEMMA NoTokenSound == TokenSound(NoToken)
  BY DEF TokenSound, NoToken

(* The end of a request that touches neither the registry nor a jar.        *)
LEMMA EndedSealed ==
  ASSUME Sealed, NEW t \in Threads, EndRequest(t),
         UNCHANGED <<now, registryUp, issued, rowVars, history>>,
         held' \in [Holders -> Token], \A h \in Holders : TokenSound(held'[h])
  PROVE  Sealed'
<1>0. TypeOK /\ Types /\ TokensSound /\ NoRotationOfCut
  BY TypesHold DEF Sealed
<1>1. TypeOK'
  BY <1>0, EndRequestSound DEF TypeOK, rowVars, history
<1>2. Issued' = Issued /\ expAt' = expAt /\ chain' = chain /\ quietCut' = quietCut
  BY DEF Issued, rowVars, history
<1>3. TokensSound'
  <2>1. ASSUME NEW h \in Holders PROVE TokenSound(held[h])'
    BY <1>2 DEF TokenSound
  <2>2. ASSUME NEW s \in Threads PROVE TokenSound(ttok[s])'
    BY <1>0, <1>2, EndRequestSound DEF TokensSound, TokenSound, NoToken
  <2> QED BY <2>1, <2>2 DEF TokensSound
<1>4. NoRotationOfCut'
  BY <1>0, <1>2, EndRequestSound DEF NoRotationOfCut
<1>5. now' >= now
  BY <1>0 DEF Types
<1> QED BY <1>1, <1>3, <1>4, <1>5, RegistryStill DEF rowVars, history

(* A request that rotates nothing, or whose response is lost.               *)
LEMMA PassSealed ==
  ASSUME Sealed, NEW t \in Threads, MiddlewarePass(t) \/ RotationFails(t) \/ Lose(t)
  PROVE  Sealed'
<1>1. held' = held /\ EndRequest(t) /\ UNCHANGED <<now, registryUp, issued, rowVars, history>>
  BY DEF MiddlewarePass, RotationFails, Lose
<1>2. held' \in [Holders -> Token] /\ \A h \in Holders : TokenSound(held'[h])
  BY <1>1 DEF Sealed, TypeOK, TokensSound
<1> QED BY <1>1, <1>2, EndedSealed

(* A response puts its cookie into the jar of its client.                   *)
LEMMA DeliverSealed ==
  ASSUME Sealed, NEW t \in Threads, Deliver(t) PROVE Sealed'
<1>1. /\ held' = [held EXCEPT ![twho[t]] = ttok[t]] /\ EndRequest(t)
      /\ UNCHANGED <<now, registryUp, issued, rowVars, history>>
  BY DEF Deliver
<1>2. /\ held \in [Holders -> Token] /\ ttok[t] \in Token
      /\ TokenSound(ttok[t]) /\ \A h \in Holders : TokenSound(held[h])
  BY DEF Sealed, TypeOK, TokensSound
<1>3. held' \in [Holders -> Token]
  BY <1>1, <1>2
<1>4. \A h \in Holders : held'[h] = held[h] \/ held'[h] = ttok[t]
  BY <1>1, <1>2
<1>5. \A h \in Holders : TokenSound(held'[h])
  <2> SUFFICES ASSUME NEW h \in Holders PROVE TokenSound(held'[h])
    OBVIOUS
  <2>1. CASE held'[h] = held[h]
    BY <1>2, <2>1
  <2>2. CASE held'[h] = ttok[t]
    BY <1>2, <2>2
  <2> QED BY <1>4, <2>1, <2>2
<1> QED BY <1>1, <1>3, <1>5, EndedSealed

(* A cookie copied to another jar is as sound as the original.              *)
LEMMA CopySealed ==
  ASSUME Sealed, NEW h \in Holders, NEW g \in Holders, CopyCookie(h, g) PROVE Sealed'
<1>0. TypeOK /\ Types /\ TokensSound /\ NoRotationOfCut
  BY TypesHold DEF Sealed
<1>1. /\ held' = [held EXCEPT ![g] = held[h]]
      /\ UNCHANGED <<now, registryUp, issued, rowVars, threadVars, history>>
  BY DEF CopyCookie
<1>2. held' \in [Holders -> Token] /\ \A f \in Holders : held'[f] = held[f] \/ held'[f] = held[h]
  BY <1>0, <1>1 DEF Types
<1>3. TypeOK'
  BY <1>0, <1>1, <1>2 DEF TypeOK, rowVars, threadVars, history
<1>4. /\ Issued' = Issued
      /\ UNCHANGED <<reg, chain, iss, expAt, sup, chainRev, quietCut, tpc, ttok>>
  BY <1>1 DEF Issued, rowVars, threadVars, history
<1>5. TokensSound'
  BY <1>0, <1>2, <1>4 DEF TokensSound, TokenSound
<1>6. NoRotationOfCut'
  BY <1>0, <1>4 DEF NoRotationOfCut
<1>7. now' >= now
  BY <1>0, <1>1 DEF Types
<1> QED BY <1>1, <1>3, <1>4, <1>5, <1>6, <1>7, RegistryStill

(* Time only moves rows and cookies towards their expiry.                   *)
LEMMA TickSealed == ASSUME Sealed, Tick \/ ToggleRegistry PROVE Sealed'
<1>0. TypeOK /\ Types /\ TokensSound /\ NoRotationOfCut
  BY TypesHold DEF Sealed
<1>1. UNCHANGED <<issued, rowVars, held, threadVars, history>>
  BY DEF Tick, ToggleRegistry
<1>2. /\ Issued' = Issued /\ issued' = issued
      /\ UNCHANGED <<reg, chain, iss, expAt, sup, chainRev, quietCut, held, tpc, ttok>>
  BY <1>1 DEF Issued, rowVars, threadVars, history
<1>3. now' \in 0..MaxTime /\ now' >= now
  BY <1>0, Timing DEF Tick, ToggleRegistry, Types, TypeOK
<1>4. registryUp' \in BOOLEAN
  BY <1>0, Zenon DEF Tick, ToggleRegistry, TypeOK
<1>5. TypeOK'
  BY <1>0, <1>1, <1>3, <1>4 DEF TypeOK, rowVars, threadVars, history
<1>6. TokensSound' /\ NoRotationOfCut'
  BY <1>0, <1>2 DEF TokensSound, TokenSound, NoRotationOfCut
<1> QED BY <1>2, <1>3, <1>5, <1>6, RegistryStill

(* A purge removes whole chains, all of whose rows have expired.            *)
LEMMA PurgeSealed == ASSUME Sealed, Purge PROVE Sealed'
<1>0. TypeOK /\ Types /\ TokensSound /\ RowsSound /\ ChainsWhole /\ FreshClean
      /\ CutSealed /\ NoRotationOfCut /\ ChainLinked
  BY TypesHold DEF Sealed
<1>1. /\ reg' = reg \ StaleRows
      /\ UNCHANGED <<now, registryUp, issued, chain, iss, expAt, sup, supAt, revoked, chainRev,
                     held, tpc, twho, ttok, cut, quietCut, replayed>>
  BY DEF Purge, threadVars, history
<1>2. Issued' = Issued
  BY <1>1 DEF Issued
<1>3. TypeOK'
  BY <1>0, <1>1 DEF TypeOK
<1>4. \A j \in reg : j \in StaleRows => expAt[j] < now
  <2> SUFFICES ASSUME NEW j \in reg, j \in StaleRows PROVE expAt[j] < now
    OBVIOUS
  <2>1. expAt[j] + Retention < now
    BY DEF StaleRows, ChainRows
  <2>2. expAt[j] \in Nat /\ now \in Nat
    BY <1>0 DEF Types
  <2> QED BY <2>1, <2>2, Timing
<1>5. \A j, k \in reg : chain[j] = chain[k] => (j \in StaleRows <=> k \in StaleRows)
  BY DEF StaleRows, ChainRows
<1>6. RowsSound' /\ TokensSound' /\ FreshClean' /\ NoRotationOfCut'
  BY <1>0, <1>1, <1>2 DEF RowsSound, TokensSound, TokenSound, FreshClean, NoRotationOfCut
<1>7. ChainsWhole'
  BY <1>0, <1>1, <1>2, <1>5 DEF ChainsWhole, Types
<1>8. CutSealed'
  BY <1>0, <1>1, <1>2, <1>4 DEF CutSealed
<1>9. ChainLinked'
  BY <1>0, <1>1, <1>5 DEF ChainLinked
<1> QED BY <1>3, <1>6, <1>7, <1>8, <1>9 DEF Sealed

(* A request carries the cookie of its client.                              *)
LEMMA SendSealed ==
  ASSUME Sealed, NEW t \in Threads, NEW h \in Holders, Send(t, h) PROVE Sealed'
<1>0. TypeOK /\ Types /\ TokensSound /\ NoRotationOfCut
  BY TypesHold DEF Sealed
<1>1. /\ tpc' = [tpc EXCEPT ![t] = "sent"] /\ twho' = [twho EXCEPT ![t] = h]
      /\ ttok' = [ttok EXCEPT ![t] = held[h]]
      /\ UNCHANGED <<now, registryUp, issued, rowVars, held, history>>
  BY DEF Send
<1>2. Issued' = Issued /\ UNCHANGED <<reg, chain, iss, expAt, sup, chainRev, quietCut, held>>
  BY <1>1 DEF Issued, rowVars, history
<1>3. TypeOK'
  BY <1>0, <1>1 DEF TypeOK, rowVars, history
<1>4. \A s \in Threads : s # t => ttok'[s] = ttok[s] /\ tpc'[s] = tpc[s]
  BY <1>0, <1>1 DEF TypeOK
<1>5. ttok'[t] = held[h] /\ tpc'[t] = "sent"
  BY <1>0, <1>1 DEF TypeOK
<1>6. TokensSound'
  BY <1>0, <1>2, <1>4, <1>5 DEF TokensSound, TokenSound
<1>7. NoRotationOfCut'
  BY <1>0, <1>2, <1>4, <1>5 DEF NoRotationOfCut
<1>8. now' >= now
  BY <1>0, <1>1 DEF Types
<1> QED BY <1>1, <1>2, <1>3, <1>6, <1>7, <1>8, RegistryStill

(* A resync hands out the tip of the cookie's own chain, with the expiry of *)
(* the cookie: all rows of a chain expire together.                         *)
LEMMA ResyncSealed ==
  ASSUME Sealed, NEW t \in Threads, MiddlewareResync(t) PROVE Sealed'
<1>0. TypeOK /\ Types /\ TokensSound /\ RowsSound /\ NoRotationOfCut
  BY TypesHold DEF Sealed
<1>1. PICK j \in Jti : /\ IsTip(j, chain[ttok[t].jti])
                       /\ ttok' = [ttok EXCEPT ![t] =
                                     [jti |-> j, last |-> now, exp |-> ttok[t].exp]]
  BY DEF MiddlewareResync
<1>2. /\ tpc' = [tpc EXCEPT ![t] = "response"]
      /\ ttok[t].jti \in reg
      /\ UNCHANGED <<now, registryUp, issued, rowVars, held, twho, history>>
  BY DEF MiddlewareResync
<1>3. Issued' = Issued /\ UNCHANGED <<reg, chain, iss, expAt, sup, chainRev, quietCut, held>>
  BY <1>2 DEF Issued, rowVars, history
<1>4. j \in reg /\ chain[j] = chain[ttok[t].jti]
  BY <1>1 DEF IsTip, ChainRows
<1>5. /\ ttok[t] \in Token /\ ttok[t].jti \in Issued /\ ttok[t].jti # 0
      /\ j \in Issued /\ j \in 0..MaxJti
  BY <1>0, <1>2, <1>4, IssuedJti DEF Types
<1>6. expAt[j] = expAt[ttok[t].jti]
  BY <1>0, <1>4, <1>5 DEF RowsSound
<1>7. ttok[t].exp <= expAt[j]
  BY <1>0, <1>5, <1>6 DEF TokensSound, TokenSound
<1>8. TypeOK'
  <2>1. [jti |-> j, last |-> now, exp |-> ttok[t].exp] \in Token
    BY <1>0, <1>5 DEF Types, Token
  <2>2. ttok' \in [Threads -> Token]
    BY <1>0, <1>1, <2>1 DEF Types
  <2>3. tpc' \in [Threads -> {"idle", "sent", "rotating", "response"}]
    BY <1>0, <1>2 DEF TypeOK
  <2> QED BY <1>0, <1>2, <2>2, <2>3 DEF TypeOK, rowVars, history
<1>9. \A s \in Threads : s # t => ttok'[s] = ttok[s] /\ tpc'[s] = tpc[s]
  BY <1>0, <1>1, <1>2 DEF TypeOK
<1>10. ttok'[t].jti = j /\ ttok'[t].exp = ttok[t].exp /\ tpc'[t] = "response"
  BY <1>0, <1>1, <1>2 DEF TypeOK
<1>11. TokensSound'
  <2>1. ASSUME NEW s \in Threads PROVE TokenSound(ttok[s])'
    <3>1. CASE s = t
      BY <1>3, <1>5, <1>7, <1>10, <3>1 DEF TokenSound
    <3>2. CASE s # t
      BY <1>0, <1>3, <1>9, <3>2 DEF TokensSound, TokenSound
    <3> QED BY <3>1, <3>2
  <2>2. ASSUME NEW h \in Holders PROVE TokenSound(held[h])'
    BY <1>0, <1>3 DEF TokensSound, TokenSound
  <2> QED BY <2>1, <2>2 DEF TokensSound
<1>12. NoRotationOfCut'
  BY <1>0, <1>3, <1>9, <1>10 DEF NoRotationOfCut
<1>13. now' >= now
  BY <1>0, <1>2 DEF Types
<1> QED BY <1>2, <1>3, <1>8, <1>11, <1>12, <1>13, RegistryStill

(* A rotation begins only on a cookie that is accepted, and no cookie of a  *)
(* quietly cut chain is.                                                    *)
LEMMA NotAccepted ==
  ASSUME Sealed, NEW tok \in Token, TokenSound(tok), tok.jti # 0, chain[tok.jti] \in quietCut
  PROVE  ~Accepts(tok)
<1>1. TypeOK /\ Types /\ CutSealed
  BY TypesHold DEF Sealed
<1>2. tok.jti \in Issued /\ tok.exp <= expAt[tok.jti]
  BY DEF TokenSound
<1>3. CASE tok.jti \in reg /\ chainRev[tok.jti]
  BY <1>3 DEF Accepts, JtiRevoked
<1>4. CASE expAt[tok.jti] < now
  <2>1. tok.exp \in Nat /\ expAt[tok.jti] \in Nat /\ now \in Nat
    BY <1>1, <1>2 DEF Types, Token
  <2>2. ~(now < tok.exp)
    BY <1>2, <1>4, <2>1
  <2> QED BY <2>2 DEF Accepts, Decodes
<1> QED BY <1>1, <1>2, <1>3, <1>4 DEF CutSealed

(* MiddlewareRead starts a rotation of an accepted cookie only.             *)
LEMMA ReadSealed ==
  ASSUME Sealed, NEW t \in Threads, MiddlewareRead(t) PROVE Sealed'
<1>0. TypeOK /\ Types /\ TokensSound /\ NoRotationOfCut
  BY TypesHold DEF Sealed
<1>1. /\ tpc' = [tpc EXCEPT ![t] = "rotating"] /\ ttok' = ttok
      /\ UNCHANGED <<now, registryUp, issued, rowVars, held, twho, history>>
  BY DEF MiddlewareRead
<1>2. Decodes(ttok[t]) /\ ~JtiRevoked(ttok[t].jti) /\ ttok[t].jti \in reg
  BY DEF MiddlewareRead
<1>3. Issued' = Issued /\ UNCHANGED <<reg, chain, iss, expAt, sup, chainRev, quietCut, held>>
  BY <1>1 DEF Issued, rowVars, history
<1>4. ttok[t] \in Token /\ TokenSound(ttok[t]) /\ ttok[t].jti \in Issued /\ ttok[t].jti # 0
  BY <1>0, <1>2 DEF Types, TokensSound, Decodes
<1>5. chain[ttok[t].jti] \notin quietCut
  BY <1>2, <1>4, NotAccepted DEF Accepts
<1>6. TypeOK'
  BY <1>0, <1>1 DEF TypeOK, rowVars, history
<1>7. TokensSound'
  BY <1>0, <1>1, <1>3 DEF TokensSound, TokenSound
<1>8. NoRotationOfCut'
  <2>1. \A s \in Threads : s # t => tpc'[s] = tpc[s]
    BY <1>0, <1>1 DEF TypeOK
  <2> QED BY <1>0, <1>1, <1>3, <1>4, <1>5, <2>1 DEF NoRotationOfCut
<1>9. now' >= now
  BY <1>0, <1>1 DEF Types
<1> QED BY <1>1, <1>3, <1>6, <1>7, <1>8, <1>9, RegistryStill

(* revoke_breakglass_jti, whatever it does to the caller's cookie.          *)
LEMMA RevokeSealed ==
  ASSUME Sealed, NEW j \in Jti, RevokeJti(j), held' \in [Holders -> Token],
         \A h \in Holders : held'[h] = held[h] \/ held'[h] = NoToken
  PROVE  Sealed'
<1>1. /\ j \in reg /\ mark_chain_revoked(chain[j]) /\ NoteCut(chain[j], FALSE)
      /\ revoked' = [revoked EXCEPT ![j] = TRUE]
      /\ UNCHANGED <<now, registryUp, issued, reg, chain, iss, expAt, sup, supAt, tpc, twho, ttok>>
  BY DEF RevokeJti, threadVars
<1>2. TypeOK /\ Types
  BY TypesHold DEF Sealed
<1>3. /\ chain[j] \in Jti
      /\ cut' \in SUBSET Jti /\ quietCut' \in SUBSET cut' /\ replayed' \in SUBSET cut'
  <2>1. chain[j] \in Issued
    BY <1>1, <1>2 DEF Sealed, RowsSound, Types
  <2> QED BY <1>1, <1>2, <2>1 DEF TypeOK, Types, NoteCut
<1>4. revoked' \in [Jti -> BOOLEAN]
  BY <1>1, <1>2, Zenon DEF TypeOK
<1>5. chainRev' \in [Jti -> BOOLEAN]
  BY <1>1, Zenon DEF mark_chain_revoked
<1>6. TypeOK'
  BY <1>1, <1>2, <1>3, <1>4, <1>5 DEF TypeOK
<1> QED BY <1>1, <1>6, CutSeals

(* A logout cuts the chain of a registered cookie.                          *)
LEMMA LogoutSealed ==
  ASSUME Sealed, NEW h \in Holders, Logout(h) PROVE Sealed'
<1>0. TypeOK /\ Types /\ TokensSound /\ NoRotationOfCut
  BY TypesHold DEF Sealed
<1>1. held' = [held EXCEPT ![h] = NoToken]
  BY DEF Logout
<1>2. NoToken \in Token
  BY Timing DEF NoToken, Token
<1>3. held' \in [Holders -> Token] /\ \A g \in Holders : held'[g] = held[g] \/ held'[g] = NoToken
  BY <1>0, <1>1, <1>2 DEF Types
<1>4. CASE RevokeJti(held[h].jti)
  <2>1. held[h].jti \in Jti
    BY <1>0, <1>4 DEF RevokeJti, Types
  <2> QED BY <1>3, <1>4, <2>1, RevokeSealed
<1>5. CASE UNCHANGED <<now, registryUp, issued, rowVars, threadVars, history>>
  <2>1. TypeOK'
    BY <1>0, <1>3, <1>5 DEF TypeOK, rowVars, threadVars, history
  <2>2. /\ Issued' = Issued /\ issued' = issued /\ now' >= now
        /\ UNCHANGED <<reg, chain, iss, expAt, sup, chainRev, quietCut, tpc, ttok>>
    BY <1>0, <1>5 DEF Issued, Types, rowVars, threadVars, history
  <2>3. TokensSound' /\ NoRotationOfCut'
    BY <1>0, <1>3, <2>2 DEF TokensSound, TokenSound, NoToken, NoRotationOfCut
  <2> QED BY <2>1, <2>2, <2>3, RegistryStill
<1> QED BY <1>4, <1>5 DEF Logout

(* A replay cut, with or without the request that brought the cookie.       *)
LEMMA ReplaySealed ==
  ASSUME Sealed, NEW tok \in Token, CutByReplay(tok),
         UNCHANGED threadVars \/ \E t \in Threads : EndRequest(t)
  PROVE  Sealed'
<1>0. TypeOK /\ Types
  BY TypesHold DEF Sealed
<1>1. /\ tok.jti \in reg /\ mark_chain_revoked(chain[tok.jti]) /\ NoteCut(chain[tok.jti], TRUE)
      /\ UNCHANGED <<now, registryUp, issued, reg, chain, iss, expAt, sup, supAt, revoked, held>>
  BY DEF CutByReplay, IsReplay
<1>2. /\ tpc' \in [Threads -> {"idle", "sent", "rotating", "response"}]
      /\ twho' \in [Threads -> Holders] /\ ttok' \in [Threads -> Token]
      /\ \A t \in Threads : ttok'[t] = ttok[t] \/ ttok'[t] = NoToken
      /\ \A t \in Threads : tpc'[t] = "rotating" => (tpc[t] = "rotating" /\ ttok'[t] = ttok[t])
  <2>1. CASE UNCHANGED threadVars
    BY <1>0, <2>1 DEF threadVars, TypeOK
  <2>2. CASE \E t \in Threads : EndRequest(t)
    BY <2>2, EndRequestSound
  <2> QED BY <2>1, <2>2
<1>3. chain[tok.jti] \in Jti
  BY <1>0, <1>1 DEF Sealed, RowsSound, Types
<1>4. cut' \in SUBSET Jti /\ quietCut' \in SUBSET cut' /\ replayed' \in SUBSET cut'
  BY <1>0, <1>1, <1>3 DEF TypeOK, NoteCut
<1>5. chainRev' \in [Jti -> BOOLEAN]
  BY <1>1, Zenon DEF mark_chain_revoked
<1>6. TypeOK'
  BY <1>0, <1>1, <1>2, <1>4, <1>5 DEF TypeOK
<1> QED BY <1>1, <1>2, <1>6, CutSeals

(* A rotation gives its row's chain and expiry to the new row, and its      *)
(* cookie's expiry to the new cookie.                                       *)
LEMMA RotateSealed ==
  ASSUME Sealed, NEW t \in Threads, rotate_breakglass_session(t) PROVE Sealed'
<1>0. Types /\ TypeOK /\ TokensSound /\ RowsSound /\ ChainsWhole /\ FreshClean
      /\ CutSealed /\ NoRotationOfCut /\ ChainLinked
  BY TypesHold DEF Sealed
<1> DEFINE j == issued + 1
           old == ttok[t].jti
<1>1. /\ issued' = j /\ issued < MaxJti
      /\ reg' = reg \cup {j}
      /\ chain' = [chain EXCEPT ![j] = chain[old]]
      /\ iss' = [iss EXCEPT ![j] = now]
      /\ expAt' = [expAt EXCEPT ![j] = expAt[old]]
      /\ sup' = [sup EXCEPT ![old] = j]
      /\ supAt' = [supAt EXCEPT ![old] = now]
      /\ ttok' = [ttok EXCEPT ![t] = [jti |-> j, last |-> now, exp |-> ttok[t].exp]]
      /\ tpc' = [tpc EXCEPT ![t] = "response"]
      /\ UNCHANGED <<now, held, twho, cut, quietCut, replayed>>
  BY DEF rotate_breakglass_session, RotatedExpiry, TokenExpiry, history
<1>2. UNCHANGED <<registryUp, revoked, chainRev>>
  BY DEF rotate_breakglass_session
<1>3. tpc[t] = "rotating" /\ old \in reg
  BY DEF rotate_breakglass_session
<1>4. /\ j \in Jti /\ j \in 0..MaxJti /\ j # 0 /\ j \notin Issued
      /\ Issued' = Issued \cup {j} /\ Issued' \subseteq Jti /\ issued' \in 0..MaxJti
  BY <1>0, <1>1, FreshJti
<1>5. /\ old \in Issued /\ old \in Jti /\ old # 0 /\ old # j /\ ttok[t] \in Token
      /\ chain[old] \in Issued /\ chain[old] \in 0..MaxJti /\ chain[old] \notin quietCut
      /\ expAt[old] = iss[chain[old]] + AbsoluteTTL /\ ttok[t].exp <= expAt[old]
  <2>1. old \in Issued /\ ttok[t] \in Token
    BY <1>0, <1>3 DEF Types
  <2>2. chain[old] \in Issued /\ expAt[old] = iss[chain[old]] + AbsoluteTTL
    BY <1>0, <2>1 DEF RowsSound
  <2>3. old \in Jti /\ old # 0 /\ old # j /\ chain[old] \in 0..MaxJti
    BY <1>0, <1>4, <2>1, <2>2, IssuedJti
  <2>4. chain[old] \notin quietCut
    BY <1>0, <1>3 DEF NoRotationOfCut
  <2>5. ttok[t].exp <= expAt[old]
    BY <1>0, <2>3 DEF TokensSound, TokenSound
  <2> QED BY <2>1, <2>2, <2>3, <2>4, <2>5
<1> HIDE DEF j, old
<1>6. /\ \A k \in Issued : chain'[k] = chain[k] /\ iss'[k] = iss[k] /\ expAt'[k] = expAt[k]
      /\ chain'[j] = chain[old] /\ iss'[j] = now /\ expAt'[j] = expAt[old]
  BY <1>0, <1>1, <1>4 DEF Types
<1>7. /\ \A k \in Jti : k # old => sup'[k] = sup[k]
      /\ sup'[old] = j
  BY <1>0, <1>1, <1>5 DEF Types
<1>8. /\ \A s \in Threads : s # t => ttok'[s] = ttok[s] /\ tpc'[s] = tpc[s]
      /\ ttok'[t].jti = j /\ ttok'[t].exp = ttok[t].exp /\ tpc'[t] = "response"
  BY <1>0, <1>1 DEF TypeOK
<1>9. TypeOK'
  <2>1. ttok' \in [Threads -> Token]
    <3>1. [jti |-> j, last |-> now, exp |-> ttok[t].exp] \in Token
      BY <1>0, <1>4, <1>5 DEF Types, Token
    <3> QED BY <1>0, <1>1, <3>1 DEF Types
  <2>2. reg' \in SUBSET (1..issued)'
    BY <1>0, <1>1, <1>4 DEF Types, Issued
  <2>3. chain' \in [Jti -> 0..MaxJti] /\ iss' \in [Jti -> Nat] /\ expAt' \in [Jti -> Nat]
    BY <1>0, <1>1, <1>4, <1>5 DEF Types
  <2>4. sup' \in [Jti -> 0..MaxJti] /\ supAt' \in [Jti -> Nat]
    BY <1>0, <1>1, <1>4 DEF Types, TypeOK
  <2>5. tpc' \in [Threads -> {"idle", "sent", "rotating", "response"}]
    BY <1>0, <1>1 DEF TypeOK
  <2> QED BY <1>0, <1>1, <1>2, <1>4, <2>1, <2>2, <2>3, <2>4, <2>5 DEF TypeOK
<1>10. RowsSound'
  <2>1. ASSUME NEW k \in Issued
        PROVE  chain'[k] \in Issued' /\ expAt'[k] = iss'[chain'[k]] + AbsoluteTTL
    <3>1. chain[k] \in Issued /\ expAt[k] = iss[chain[k]] + AbsoluteTTL
      BY <1>0 DEF RowsSound
    <3>2. chain'[k] = chain[k] /\ expAt'[k] = expAt[k] /\ iss'[chain[k]] = iss[chain[k]]
      BY <1>6, <3>1
    <3> QED BY <3>1, <3>2, <1>4
  <2>2. chain'[j] \in Issued' /\ expAt'[j] = iss'[chain'[j]] + AbsoluteTTL
    BY <1>4, <1>5, <1>6
  <2> QED BY <1>4, <2>1, <2>2 DEF RowsSound
<1>11. TokensSound'
  <2>1. ASSUME NEW s \in Threads PROVE TokenSound(ttok[s])'
    <3>1. CASE s = t
      <4>1. ttok'[s].jti = j /\ ttok'[s].exp = ttok[t].exp
        BY <1>8, <3>1
      <4>2. ttok'[s].exp <= expAt'[j]
        BY <1>5, <1>6, <4>1
      <4> QED BY <1>4, <4>1, <4>2 DEF TokenSound
    <3>2. CASE s # t
      BY <1>0, <1>4, <1>6, <1>8, <3>2 DEF TokensSound, TokenSound
    <3> QED BY <3>1, <3>2
  <2>2. ASSUME NEW h \in Holders PROVE TokenSound(held[h])'
    BY <1>0, <1>1, <1>4, <1>6 DEF TokensSound, TokenSound
  <2> QED BY <2>1, <2>2 DEF TokensSound
<1>12. ChainsWhole'
  <2> SUFFICES ASSUME NEW k \in Issued', NEW l \in Issued', chain'[k] = chain'[l], k \in reg'
               PROVE  l \in reg'
    BY DEF ChainsWhole
  <2>1. CASE l = j
    BY <1>1, <2>1
  <2>2. CASE l # j /\ k = j
    <3>1. l \in Issued /\ chain[l] = chain[old]
      BY <1>4, <1>6, <2>2
    <3> QED BY <1>0, <1>1, <1>3, <1>5, <3>1 DEF ChainsWhole
  <2>3. CASE l # j /\ k # j
    <3>1. l \in Issued /\ k \in Issued /\ chain[k] = chain[l] /\ k \in reg
      BY <1>1, <1>4, <1>6, <2>3
    <3> QED BY <1>0, <1>1, <3>1 DEF ChainsWhole
  <2> QED BY <2>1, <2>2, <2>3
<1>13. CutSealed'
  <2> SUFFICES ASSUME NEW c \in quietCut
               PROVE  /\ c \in Issued'
                      /\ \A k \in Issued' : chain'[k] = c =>
                            ((k \in reg' /\ chainRev[k]) \/ expAt'[k] < now)
    BY <1>1, <1>2 DEF CutSealed
  <2>1. c \in Issued'
    BY <1>0, <1>4 DEF CutSealed
  <2>2. ASSUME NEW k \in Issued', chain'[k] = c
        PROVE  (k \in reg' /\ chainRev[k]) \/ expAt'[k] < now
    <3>1. k \in Issued /\ chain[k] = c /\ expAt'[k] = expAt[k]
      BY <1>4, <1>5, <1>6, <2>2
    <3> QED BY <1>0, <1>1, <3>1 DEF CutSealed
  <2> QED BY <2>1, <2>2
<1>14. NoRotationOfCut'
  <2> SUFFICES ASSUME NEW s \in Threads, tpc'[s] = "rotating"
               PROVE  ttok'[s].jti \in Issued' /\ chain'[ttok'[s].jti] \notin quietCut
    BY <1>1 DEF NoRotationOfCut
  <2>1. tpc[s] = "rotating" /\ ttok'[s] = ttok[s]
    BY <1>8
  <2>2. ttok[s].jti \in Issued /\ chain[ttok[s].jti] \notin quietCut
    BY <1>0, <2>1 DEF NoRotationOfCut
  <2> QED BY <1>4, <1>6, <2>1, <2>2
<1>15. ChainLinked'
  <2> SUFFICES ASSUME NEW k \in reg', sup'[k] # 0
               PROVE  sup'[k] \in reg' /\ chain'[sup'[k]] = chain'[k]
    BY DEF ChainLinked
  <2>1. CASE k = old
    BY <1>1, <1>5, <1>6, <1>7, <2>1
  <2>2. CASE k # old
    <3>1. k # j /\ k \in reg /\ k \in Issued /\ sup'[k] = sup[k]
      BY <1>0, <1>1, <1>4, <1>7, <2>2 DEF FreshClean, Types
    <3>2. sup[k] \in reg /\ chain[sup[k]] = chain[k] /\ sup[k] \in Issued
      BY <1>0, <3>1 DEF ChainLinked, Types
    <3>3. chain'[sup[k]] = chain[sup[k]] /\ chain'[k] = chain[k]
      BY <1>6, <3>1, <3>2
    <3> QED BY <1>1, <3>1, <3>2, <3>3
  <2> QED BY <2>1, <2>2
<1>16. FreshClean'
  BY <1>0, <1>4, <1>5, <1>7 DEF FreshClean
<1> QED BY <1>9, <1>10, <1>11, <1>12, <1>13, <1>14, <1>15, <1>16 DEF Sealed

(* The invariant is inductive.                                              *)
LEMMA SealedStep == Sealed /\ [Next]_vars => Sealed'
<1> SUFFICES ASSUME Sealed, [Next]_vars PROVE Sealed'
  OBVIOUS
<1>0. held \in [Holders -> Token] /\ ttok \in [Threads -> Token]
  BY DEF Sealed, TypeOK
<1>1. ASSUME NEW h \in Holders, Login(h) \/ Logout(h) \/ AuthRequest(h) PROVE Sealed'
  <2>1. CASE AuthRequest(h)
    <3>1. held[h] \in Token /\ CutByReplay(held[h]) /\ UNCHANGED threadVars
      BY <1>0, <2>1 DEF AuthRequest
    <3> QED BY <3>1, ReplaySealed
  <2> QED BY <1>1, <2>1, LoginSealed, LogoutSealed
<1>2. ASSUME NEW j \in Jti, AdminRevoke(j) PROVE Sealed'
  <2>1. held' = held /\ RevokeJti(j)
    BY <1>2 DEF AdminRevoke
  <2> QED BY <1>0, <2>1, RevokeSealed
<1>3. ASSUME NEW t \in Threads, Request(t) PROVE Sealed'
  <2>1. ASSUME MiddlewareReplay(t) PROVE Sealed'
    <3>1. ttok[t] \in Token /\ CutByReplay(ttok[t]) /\ EndRequest(t)
      BY <1>0, <2>1 DEF MiddlewareReplay
    <3> QED BY <3>1, ReplaySealed
  <2> QED BY <1>3, <2>1, SendSealed, PassSealed, ResyncSealed, ReadSealed, RotateSealed,
             DeliverSealed DEF Request
<1>4. ASSUME NEW h \in Holders, NEW g \in Holders, CopyCookie(h, g) PROVE Sealed'
  BY <1>4, CopySealed
<1>5. CASE Purge \/ ToggleRegistry \/ Tick
  BY <1>5, PurgeSealed, TickSealed
<1>6. CASE UNCHANGED vars
  <2>1. /\ TypeOK' /\ UNCHANGED <<now, issued, reg, chain, iss, expAt, sup, chainRev>>
        /\ UNCHANGED <<quietCut, held, tpc, ttok>>
    BY <1>6 DEF Sealed, TypeOK, vars, rowVars, threadVars, history
  <2>2. Issued' = Issued /\ now' >= now
    BY <2>1, TypesHold DEF Issued, Sealed, Types
  <2>3. TokensSound' /\ NoRotationOfCut'
    BY <2>1, <2>2 DEF Sealed, TokensSound, TokenSound, NoRotationOfCut
  <2> QED BY <2>1, <2>2, <2>3, RegistryStill
<1> QED BY <1>1, <1>2, <1>3, <1>4, <1>5, <1>6 DEF Next

(* What the invariant says of the cookies in circulation.                   *)
LEMMA SealedSuffices == Sealed => QuietCutFinal /\ AbsoluteExpiry
<1> SUFFICES ASSUME Sealed, NEW tok \in Circulating, tok.jti # 0
             PROVE  /\ chain[tok.jti] \in quietCut => ~Accepts(tok)
                    /\ Accepts(tok) => now < iss[chain[tok.jti]] + AbsoluteTTL
  BY DEF QuietCutFinal, AbsoluteExpiry
<1>1. Types /\ TokensSound /\ RowsSound
  BY TypesHold DEF Sealed
<1>2. tok \in Token /\ TokenSound(tok)
  BY <1>1 DEF Circulating, Types, TokensSound
<1>3. tok.jti \in Issued /\ tok.exp <= expAt[tok.jti]
  BY <1>2 DEF TokenSound
<1>4. expAt[tok.jti] = iss[chain[tok.jti]] + AbsoluteTTL
  BY <1>1, <1>3 DEF RowsSound
<1>5. Accepts(tok) => now < expAt[tok.jti]
  <2>1. now \in Nat /\ tok.exp \in Nat /\ expAt[tok.jti] \in Nat
    BY <1>1, <1>2, <1>3 DEF Types, Token
  <2> QED BY <1>3, <2>1 DEF Accepts, Decodes
<1> QED BY <1>2, <1>4, <1>5, NotAccepted

(* Hence it always holds.                                                   *)
LEMMA SealedAlways == Spec => []Sealed
BY SealedInit, SealedStep, PTL DEF Spec

(* The registry and the cookies keep their types, whatever the timing.      *)
THEOREM BreakglassTypeCorrect == Spec => []TypeOK
<1>1. Sealed => TypeOK
  BY DEF Sealed
<1> QED BY SealedAlways, <1>1, PTL

(* revoke_breakglass_jti and the replay cut: when no rotation of the chain  *)
(* is between its read and its commit, no cookie of the chain is accepted   *)
(* ever again, through any rotation, grace window, outage or purge.         *)
THEOREM CutsAreFinal == Spec => []QuietCutFinal
BY SealedAlways, SealedSuffices, PTL

(* rotate_breakglass_session and the grace resync never prolong a session   *)
(* past COOKIE_MAX_AGE from its login.                                      *)
THEOREM SessionsExpire == Spec => []AbsoluteExpiry
BY SealedAlways, SealedSuffices, PTL

(* rotate_breakglass_session and the purge leave no superseded row without  *)
(* its successor.                                                           *)
THEOREM ChainsStayLinked == Spec => []ChainLinked
<1>1. Sealed => ChainLinked
  BY DEF Sealed
<1> QED BY SealedAlways, <1>1, PTL

-----------------------------------------------------------------------------
(* The client that is alone with its cookie.                                *)

(* One client, whose requests complete within a tick and which asks for a   *)
(* rotation no more than once in one.                                       *)
LoneClient ==
    /\ \A g, h \in Holders : g = h
    /\ ~SlowRequests
    /\ RotateEvery > 0

(* The cookies that a rotation or a resync may still replace ...            *)
Stale(tok) == tok.jti # 0 /\ tok.last # now
Fresh(tok) == tok.jti # 0 /\ tok.last = now

(* A row that is superseded is so since this very tick ...                  *)
Current(tok) ==
    tok.jti # 0 => \/ sup[tok.jti] = 0
                   \/ tok.last # now /\ supAt[tok.jti] = now

(* ... by a request that started from the same cookie as all others.        *)
OneStale ==
    \A a, b \in Circulating :
        /\ Stale(a) /\ Stale(b) => a.jti = b.jti
        /\ Stale(a) /\ Fresh(b) => a.jti # b.jti

(* A client whose cookie is superseded is about to receive the next.        *)
Replaced ==
    \A h \in Holders : held[h].jti # 0 /\ sup[held[h].jti] # 0
                          => \E t \in Threads : tpc[t] = "response"

Stages ==
    \A t \in Threads : /\ tpc[t] = "idle" => ttok[t] = NoToken
                       /\ tpc[t] = "rotating" => Stale(ttok[t])
                       /\ tpc[t] = "response" => Fresh(ttok[t])

NeverTaken ==
    /\ \A tok \in Circulating : Current(tok)
    /\ OneStale /\ Replaced /\ Stages /\ NoFalseReplay

(* No cookie in circulation is a replay.                                    *)
LEMMA NoReplayTaken ==
    ASSUME Sealed, NeverTaken, NEW tok \in Circulating PROVE ~CutByReplay(tok)
<1> SUFFICES ASSUME IsReplay(tok) PROVE FALSE
  BY DEF CutByReplay
<1>1. tok.jti # 0 /\ sup[tok.jti] # 0 /\ ~within_grace(tok.jti)
  BY DEF IsReplay, Decodes
<1>2. supAt[tok.jti] = now
  BY <1>1 DEF NeverTaken, Current
<1>3. now \in Nat /\ Grace \in Nat
  BY TypesHold, Timing DEF Sealed, Types
<1> QED BY <1>1, <1>2, <1>3 DEF within_grace

(* A step that hands out no cookie and supersedes no row.                   *)
LEMMA SameCookies ==
    ASSUME NeverTaken, UNCHANGED <<now, sup, supAt>>,
           \A h \in Holders : held'[h] \in Circulating \cup {NoToken},
           \A t \in Threads : ttok'[t] \in Circulating \cup {NoToken}
    PROVE  (\A tok \in Circulating' : Current(tok)') /\ OneStale'
<1>1. \A tok \in Circulating' : tok \in Circulating \/ tok.jti = 0
  BY DEF Circulating, NoToken
<1> QED BY <1>1 DEF NeverTaken, Current, OneStale, Stale, Fresh

(* A step that hands out one that nobody has yet.                           *)
LEMMA NewCookie ==
    ASSUME NeverTaken, now' = now, NEW new, new.jti # 0, new.last = now, sup'[new.jti] = 0,
           \A tok \in Circulating : Stale(tok) => tok.jti # new.jti,
           \A tok \in Circulating : Current(tok)',
           \A h \in Holders : held'[h] \in Circulating \cup {new},
           \A t \in Threads : ttok'[t] \in Circulating \cup {new}
    PROVE  (\A tok \in Circulating' : Current(tok)') /\ OneStale'
<1>1. \A tok \in Circulating' : tok \in Circulating \/ tok = new
  BY DEF Circulating
<1>2. Fresh(new) /\ ~Stale(new) /\ Current(new)'
  BY DEF Fresh, Stale, Current
<1>3. \A tok : (Stale(tok)' <=> Stale(tok)) /\ (Fresh(tok)' <=> Fresh(tok))
  BY DEF Stale, Fresh
<1>4. \A tok \in Circulating' : Current(tok)'
  BY <1>1, <1>2
<1>5. OneStale'
  <2> SUFFICES ASSUME NEW a \in Circulating', NEW b \in Circulating'
               PROVE  /\ Stale(a) /\ Stale(b) => a.jti = b.jti
                      /\ Stale(a) /\ Fresh(b) => a.jti # b.jti
    BY <1>3 DEF OneStale
  <2> QED BY <1>1, <1>2 DEF NeverTaken, OneStale
<1> QED BY <1>4, <1>5

LEMMA InCirculation ==
    /\ \A h \in Holders : held[h] \in Circulating
    /\ \A t \in Threads : ttok[t] \in Circulating
BY DEF Circulating

(* The threads of the requests, and the jars.                               *)
LEMMA Jars ==
    ASSUME Sealed
    PROVE  /\ DOMAIN held = Holders /\ DOMAIN ttok = Threads /\ DOMAIN tpc = Threads
           /\ held = [h \in Holders |-> held[h]] /\ ttok = [t \in Threads |-> ttok[t]]
           /\ tpc = [t \in Threads |-> tpc[t]]
           /\ \A t \in Threads : twho[t] \in Holders
BY DEF Sealed, TypeOK

(* Logins, logouts and administration.                                      *)
LEMMA LoginTaken ==
    ASSUME Sealed, NeverTaken, NEW h \in Holders, Login(h) PROVE NeverTaken'
<1> DEFINE j == issued + 1
           ttl == IF registryUp THEN AbsoluteTTL ELSE DegradedTTL
           new == [jti |-> j, last |-> now, exp |-> now + ttl]
<1>1. new.jti = j /\ new.last = now /\ held' = [held EXCEPT ![h] = new]
  BY DEF Login
<1>2. /\ issued < MaxJti /\ issued' = j
      /\ UNCHANGED <<now, sup, supAt, tpc, ttok, replayed>>
  BY DEF Login, threadVars, history
<1>3. Types /\ TokensSound /\ FreshClean
  BY TypesHold DEF Sealed
<1>4. j \in Jti /\ j # 0 /\ j \notin Issued
  BY <1>2, <1>3, FreshJti
<1> HIDE DEF j, new
<1>5. \A tok \in Circulating : tok.jti # 0 => tok.jti \in Issued
  BY <1>3 DEF Circulating, TokensSound, TokenSound
<1>6. \A g \in Holders : held'[g] = held[g] \/ held'[g] = new
  BY <1>1, Jars
<1>7. \A g \in Holders : held'[g] \in Circulating \cup {new}
  BY <1>6, InCirculation
<1>8. \A t \in Threads : ttok'[t] \in Circulating \cup {new}
  BY <1>2, InCirculation
<1>9. \A tok \in Circulating : Stale(tok) => tok.jti # new.jti
  BY <1>1, <1>4, <1>5 DEF Stale
<1>10. \A tok \in Circulating : Current(tok)'
  BY <1>2 DEF NeverTaken, Current
<1>11. sup'[new.jti] = 0
  BY <1>1, <1>2, <1>3, <1>4 DEF FreshClean
<1>12. (\A tok \in Circulating' : Current(tok)') /\ OneStale'
  <2>1. now' = now /\ new.jti # 0 /\ new.last = now
    BY <1>1, <1>2, <1>4
  <2> QED BY <1>7, <1>8, <1>9, <1>10, <1>11, <2>1, NewCookie
<1>13. Replaced'
  BY <1>2, <1>6, <1>11 DEF NeverTaken, Replaced
<1>14. Stages' /\ NoFalseReplay'
  BY <1>2 DEF NeverTaken, Stages, Stale, Fresh, NoFalseReplay
<1> QED BY <1>12, <1>13, <1>14 DEF NeverTaken

(* What leaves the requests and the superseded rows alone.                  *)
LEMMA JarsOnly ==
    ASSUME Sealed, NeverTaken, UNCHANGED <<now, sup, supAt, tpc, ttok, replayed>>,
           \A h \in Holders : held'[h] = held[h] \/ held'[h] = NoToken
    PROVE  NeverTaken'
<1>1. \A h \in Holders : held'[h] \in Circulating \cup {NoToken}
  BY InCirculation
<1>2. \A t \in Threads : ttok'[t] \in Circulating \cup {NoToken}
  BY InCirculation
<1>3. (\A tok \in Circulating' : Current(tok)') /\ OneStale'
  BY <1>1, <1>2, SameCookies
<1>4. Replaced' /\ Stages' /\ NoFalseReplay'
  BY DEF NeverTaken, Replaced, Stages, Stale, Fresh, NoFalseReplay, NoToken
<1> QED BY <1>3, <1>4 DEF NeverTaken

LEMMA RevokeTaken ==
    ASSUME Sealed, NeverTaken, NEW j \in Jti, RevokeJti(j),
           \A h \in Holders : held'[h] = held[h] \/ held'[h] = NoToken
    PROVE  NeverTaken'
<1>1. UNCHANGED <<now, sup, supAt, tpc, ttok, replayed>>
  BY DEF RevokeJti, NoteCut, threadVars
<1> QED BY <1>1, JarsOnly

LEMMA LogoutTaken ==
    ASSUME Sealed, NeverTaken, NEW h \in Holders, Logout(h) PROVE NeverTaken'
<1>1. \A g \in Holders : held'[g] = held[g] \/ held'[g] = NoToken
  BY Jars DEF Logout
<1>2. UNCHANGED <<now, sup, supAt, tpc, ttok, replayed>>
  BY DEF Logout, RevokeJti, NoteCut, rowVars, threadVars, history
<1> QED BY <1>1, <1>2, JarsOnly

-----------------------------------------------------------------------------
(* Requests.                                                                *)

LEMMA SendTaken ==
    ASSUME Sealed, NeverTaken, NEW t \in Threads, NEW h \in Holders, Send(t, h)
    PROVE  NeverTaken'
<1>1. /\ tpc[t] = "idle" /\ tpc' = [tpc EXCEPT ![t] = "sent"]
      /\ ttok' = [ttok EXCEPT ![t] = held[h]]
      /\ UNCHANGED <<now, sup, supAt, held, replayed>>
  BY DEF Send, rowVars, history
<1>2. /\ tpc'[t] = "sent" /\ ttok'[t] = held[h]
      /\ \A s \in Threads \ {t} : tpc'[s] = tpc[s] /\ ttok'[s] = ttok[s]
  BY <1>1, Jars
<1>3. \A s \in Threads : ttok'[s] \in Circulating \cup {NoToken}
  BY <1>2, InCirculation
<1>4. \A g \in Holders : held'[g] \in Circulating \cup {NoToken}
  BY <1>1, InCirculation
<1>5. (\A tok \in Circulating' : Current(tok)') /\ OneStale'
  BY <1>1, <1>3, <1>4, SameCookies
<1>6. Replaced'
  BY <1>1, <1>2 DEF NeverTaken, Replaced
<1>7. Stages' /\ NoFalseReplay'
  BY <1>1, <1>2 DEF NeverTaken, Stages, Stale, Fresh, NoFalseReplay
<1> QED BY <1>5, <1>6, <1>7 DEF NeverTaken

(* A request that ends without a response.                                  *)
LEMMA PassTaken ==
    ASSUME Sealed, NeverTaken, LoneClient, NEW t \in Threads,
           MiddlewarePass(t) \/ RotationFails(t) \/ Lose(t)
    PROVE  NeverTaken'
<1>1. /\ tpc[t] \in {"sent", "rotating"} /\ EndRequest(t)
      /\ UNCHANGED <<now, sup, supAt, held, replayed>>
  BY DEF LoneClient, MiddlewarePass, RotationFails, Lose, rowVars, history
<1>2. /\ tpc'[t] = "idle" /\ ttok'[t] = NoToken
      /\ \A s \in Threads \ {t} : tpc'[s] = tpc[s] /\ ttok'[s] = ttok[s]
  BY <1>1, Jars DEF EndRequest
<1>3. \A s \in Threads : ttok'[s] \in Circulating \cup {NoToken}
  BY <1>2, InCirculation
<1>4. \A g \in Holders : held'[g] \in Circulating \cup {NoToken}
  BY <1>1, InCirculation
<1>5. (\A tok \in Circulating' : Current(tok)') /\ OneStale'
  BY <1>1, <1>3, <1>4, SameCookies
<1>6. Replaced'
  BY <1>1, <1>2 DEF NeverTaken, Replaced
<1>7. Stages' /\ NoFalseReplay'
  BY <1>1, <1>2 DEF NeverTaken, Stages, Stale, Fresh, NoFalseReplay
<1> QED BY <1>5, <1>6, <1>7 DEF NeverTaken

(* The cookie that comes back is the newest of its chain: it replaces the   *)
(* client's, which is the only one.                                         *)
LEMMA DeliverTaken ==
    ASSUME Sealed, NeverTaken, LoneClient, NEW t \in Threads, Deliver(t)
    PROVE  NeverTaken'
<1>1. /\ tpc[t] = "response" /\ EndRequest(t)
      /\ held' = [held EXCEPT ![twho[t]] = ttok[t]]
      /\ UNCHANGED <<now, sup, supAt, replayed>>
  BY DEF Deliver, rowVars, history
<1>2. /\ tpc'[t] = "idle" /\ ttok'[t] = NoToken
      /\ \A s \in Threads \ {t} : tpc'[s] = tpc[s] /\ ttok'[s] = ttok[s]
  BY <1>1, Jars DEF EndRequest
<1>3. \A h \in Holders : held'[h] = ttok[t]
  BY <1>1, Jars DEF LoneClient
<1>4. Fresh(ttok[t]) /\ sup[ttok[t].jti] = 0
  BY <1>1, InCirculation DEF NeverTaken, Stages, Current, Fresh
<1>5. (\A tok \in Circulating' : Current(tok)') /\ OneStale'
  <2>1. \A h \in Holders : held'[h] \in Circulating \cup {NoToken}
    BY <1>3, InCirculation
  <2>2. \A s \in Threads : ttok'[s] \in Circulating \cup {NoToken}
    BY <1>2, InCirculation
  <2> QED BY <1>1, <2>1, <2>2, SameCookies
<1>6. Replaced'
  BY <1>1, <1>3, <1>4 DEF Replaced
<1>7. Stages' /\ NoFalseReplay'
  BY <1>1, <1>2 DEF NeverTaken, Stages, Stale, Fresh, NoFalseReplay
<1> QED BY <1>5, <1>6, <1>7 DEF NeverTaken

(* A cookie that is due for rotation was not given out in this tick.        *)
LEMMA DueIsStale ==
    ASSUME Sealed, LoneClient, NEW t \in Threads, rotation_due(ttok[t]), Decodes(ttok[t])
    PROVE  Stale(ttok[t])
<1>1. ttok[t].last \in Nat /\ now \in Nat /\ RotateEvery \in Nat /\ RotateEvery > 0
  BY TypesHold, Timing DEF Sealed, Types, Token, LoneClient
<1>2. ttok[t].last # now
  BY <1>1 DEF rotation_due
<1> QED BY <1>2 DEF Stale, Decodes

LEMMA ReadTaken ==
    ASSUME Sealed, NeverTaken, LoneClient, NEW t \in Threads, MiddlewareRead(t)
    PROVE  NeverTaken'
<1>1. /\ tpc[t] = "sent" /\ tpc' = [tpc EXCEPT ![t] = "rotating"]
      /\ UNCHANGED <<now, sup, supAt, held, ttok, replayed>>
  BY DEF MiddlewareRead, rowVars, history
<1>2. tpc'[t] = "rotating" /\ \A s \in Threads \ {t} : tpc'[s] = tpc[s]
  BY <1>1, Jars
<1>3. Stale(ttok[t])
  BY DueIsStale DEF MiddlewareRead
<1>4. (\A tok \in Circulating' : Current(tok)') /\ OneStale'
  BY <1>1, InCirculation, SameCookies
<1>5. Replaced'
  BY <1>1, <1>2 DEF NeverTaken, Replaced
<1>6. Stages' /\ NoFalseReplay'
  BY <1>1, <1>2, <1>3 DEF NeverTaken, Stages, Stale, Fresh, NoFalseReplay
<1> QED BY <1>4, <1>5, <1>6 DEF NeverTaken

(* The tip that a resync returns is the row of no stale cookie: these are   *)
(* all of the row it was asked for, which is superseded.                    *)
LEMMA ResyncTaken ==
    ASSUME Sealed, NeverTaken, LoneClient, NEW t \in Threads, MiddlewareResync(t)
    PROVE  NeverTaken'
<1>1. PICK j \in Jti : /\ IsTip(j, chain[ttok[t].jti])
                       /\ ttok' = [ttok EXCEPT ![t] =
                                     [jti |-> j, last |-> now, exp |-> ttok[t].exp]]
  BY DEF MiddlewareResync
<1> DEFINE new == [jti |-> j, last |-> now, exp |-> ttok[t].exp]
<1>2. /\ tpc' = [tpc EXCEPT ![t] = "response"] /\ sup[ttok[t].jti] # 0
      /\ UNCHANGED <<now, sup, supAt, held, replayed>>
  BY DEF MiddlewareResync, rowVars, history
<1>3. j # 0 /\ sup[j] = 0
  BY <1>1, Timing DEF IsTip, Jti
<1>4. Stale(ttok[t])
  BY DueIsStale DEF MiddlewareResync
<1>5. \A tok \in Circulating : Stale(tok) => tok.jti # j
  BY <1>2, <1>3, <1>4, InCirculation DEF NeverTaken, OneStale
<1>6. new.jti = j /\ new.last = now
  OBVIOUS
<1>7. /\ tpc'[t] = "response" /\ ttok'[t] = new
      /\ \A s \in Threads \ {t} : tpc'[s] = tpc[s] /\ ttok'[s] = ttok[s]
  BY <1>1, <1>2, Jars
<1> HIDE DEF new
<1>8. (\A tok \in Circulating' : Current(tok)') /\ OneStale'
  <2>1. \A tok \in Circulating : Current(tok)'
    BY <1>2 DEF NeverTaken, Current
  <2>2. \A h \in Holders : held'[h] \in Circulating \cup {new}
    BY <1>2, InCirculation
  <2>3. \A s \in Threads : ttok'[s] \in Circulating \cup {new}
    BY <1>7, InCirculation
  <2> QED BY <1>2, <1>3, <1>5, <1>6, <2>1, <2>2, <2>3, NewCookie
<1>9. Replaced'
  BY <1>7 DEF Replaced
<1>10. Stages' /\ NoFalseReplay'
  BY <1>2, <1>3, <1>6, <1>7 DEF NeverTaken, Stages, Stale, Fresh, NoFalseReplay
<1> QED BY <1>8, <1>9, <1>10 DEF NeverTaken

(* The row that a rotation supersedes is that of the stale cookies, and of  *)
(* no fresh one.                                                            *)
LEMMA RotateTaken ==
    ASSUME Sealed, NeverTaken, NEW t \in Threads, rotate_breakglass_session(t)
    PROVE  NeverTaken'
<1> DEFINE j == issued + 1
           old == ttok[t].jti
           new == [jti |-> j, last |-> now, exp |-> TokenExpiry(ttok[t])]
<1>1. /\ tpc[t] = "rotating" /\ issued < MaxJti /\ issued' = j /\ old \in reg
      /\ sup' = [sup EXCEPT ![old] = j] /\ supAt' = [supAt EXCEPT ![old] = now]
      /\ ttok' = [ttok EXCEPT ![t] = new] /\ tpc' = [tpc EXCEPT ![t] = "response"]
      /\ UNCHANGED <<now, held, replayed>>
  BY DEF rotate_breakglass_session, history
<1>2. Types /\ TypeOK /\ TokensSound /\ FreshClean
  BY TypesHold DEF Sealed
<1>3. j \in Jti /\ j # 0 /\ j \notin Issued
  BY <1>1, <1>2, FreshJti
<1>4. old \in Issued /\ old \in Jti /\ old # j
  BY <1>1, <1>2, <1>3 DEF Types
<1>5. new.jti = j /\ new.last = now
  OBVIOUS
<1>6. Stale(ttok[t]) /\ ttok[t].jti = old
  BY <1>1 DEF NeverTaken, Stages
<1> HIDE DEF j, old, new
<1>7. /\ sup'[old] = j /\ supAt'[old] = now
      /\ \A k \in Jti \ {old} : sup'[k] = sup[k] /\ supAt'[k] = supAt[k]
  BY <1>1, <1>2, <1>4 DEF Types, TypeOK
<1>8. sup'[j] = 0
  BY <1>2, <1>3, <1>4, <1>7 DEF FreshClean
<1>9. \A tok \in Circulating : tok.jti # 0 => tok.jti \in Issued /\ tok.jti \in Jti
  BY <1>2 DEF Circulating, TokensSound, TokenSound, Types
<1>10. /\ tpc'[t] = "response" /\ ttok'[t] = new
       /\ \A s \in Threads \ {t} : tpc'[s] = tpc[s] /\ ttok'[s] = ttok[s]
  BY <1>1, Jars
<1>11. \A tok \in Circulating : Current(tok)'
  <2> SUFFICES ASSUME NEW tok \in Circulating, tok.jti # 0
               PROVE  sup'[tok.jti] = 0 \/ (tok.last # now /\ supAt'[tok.jti] = now)
    BY <1>1 DEF Current
  <2>1. CASE tok.jti = old
    <3>1. ~Fresh(tok)
      BY <1>6, <2>1, InCirculation DEF NeverTaken, OneStale
    <3> QED BY <1>7, <2>1, <3>1 DEF Fresh
  <2>2. CASE tok.jti # old
    BY <1>7, <1>9, <2>2 DEF NeverTaken, Current
  <2> QED BY <2>1, <2>2
<1>12. (\A tok \in Circulating' : Current(tok)') /\ OneStale'
  <2>1. \A tok \in Circulating : Stale(tok) => tok.jti # new.jti
    BY <1>3, <1>5, <1>9 DEF Stale
  <2>2. \A h \in Holders : held'[h] \in Circulating \cup {new}
    BY <1>1, InCirculation
  <2>3. \A s \in Threads : ttok'[s] \in Circulating \cup {new}
    BY <1>10, InCirculation
  <2> QED BY <1>1, <1>3, <1>5, <1>8, <1>11, <2>1, <2>2, <2>3, NewCookie
<1>13. Replaced'
  BY <1>10 DEF Replaced
<1>14. Stages' /\ NoFalseReplay'
  BY <1>1, <1>3, <1>5, <1>10 DEF NeverTaken, Stages, Stale, Fresh, NoFalseReplay
<1> QED BY <1>11, <1>12, <1>13, <1>14 DEF NeverTaken

(* When time moves, every response has arrived: the client's cookie is the  *)
(* only one, and it is current.                                             *)
LEMMA TickTaken ==
    ASSUME Sealed, NeverTaken, LoneClient, Tick PROVE NeverTaken'
<1>1. /\ \A t \in Threads : tpc[t] = "idle" /\ ttok[t] = NoToken
      /\ UNCHANGED <<sup, supAt, held, tpc, ttok, replayed>>
  BY DEF Tick, LoneClient, NeverTaken, Stages, rowVars, threadVars, history
<1>2. \A h \in Holders : held[h].jti # 0 => sup[held[h].jti] = 0
  BY <1>1 DEF NeverTaken, Replaced
<1>3. \A tok \in Circulating' : tok.jti # 0 => \E h \in Holders : tok = held[h]
  BY <1>1 DEF Circulating, NoToken
<1>4. \A tok \in Circulating' : Current(tok)'
  BY <1>1, <1>2, <1>3 DEF Current
<1>5. \A a, b \in Circulating' : a.jti # 0 /\ b.jti # 0 => a = b
  BY <1>3 DEF LoneClient
<1>6. OneStale'
  BY <1>5 DEF OneStale, Stale, Fresh
<1>7. Replaced' /\ Stages' /\ NoFalseReplay'
  BY <1>1, <1>2 DEF NeverTaken, Replaced, Stages, NoFalseReplay
<1> QED BY <1>4, <1>6, <1>7 DEF NeverTaken

LEMMA TakenInit == Init => NeverTaken
BY DEF Init, NeverTaken, Circulating, Current, OneStale, Stale, Fresh, Replaced, Stages, NoToken,
       NoFalseReplay

LEMMA RequestTaken ==
    ASSUME Sealed, NeverTaken, LoneClient, NEW t \in Threads, Request(t) PROVE NeverTaken'
<1>1. ASSUME MiddlewareReplay(t) PROVE FALSE
  BY <1>1, NoReplayTaken, InCirculation DEF MiddlewareReplay
<1> QED BY <1>1, SendTaken, PassTaken, DeliverTaken, ReadTaken, ResyncTaken, RotateTaken
        DEF Request

LEMMA TakenStep ==
    ASSUME LoneClient, Sealed, NeverTaken, [Next]_vars PROVE NeverTaken'
<1>1. ASSUME NEW h \in Holders, AuthRequest(h) PROVE FALSE
  BY <1>1, NoReplayTaken, InCirculation DEF AuthRequest
<1>2. ASSUME NEW j \in Jti, AdminRevoke(j) PROVE NeverTaken'
  BY <1>2, RevokeTaken DEF AdminRevoke
<1>3. ASSUME NEW h \in Holders, NEW g \in Holders, CopyCookie(h, g) PROVE FALSE
  BY <1>3 DEF CopyCookie, LoneClient
<1>4. CASE Purge \/ ToggleRegistry \/ UNCHANGED vars
  <2>1. UNCHANGED <<now, sup, supAt, tpc, ttok, held, replayed>>
    BY <1>4 DEF Purge, ToggleRegistry, vars, rowVars, threadVars, history
  <2> QED BY <2>1, JarsOnly
<1>5. CASE Tick
  BY <1>5, TickTaken
<1>6. ASSUME NEW h \in Holders, Login(h) \/ Logout(h) PROVE NeverTaken'
  BY <1>6, LoginTaken, LogoutTaken
<1>7. ASSUME NEW t \in Threads, Request(t) PROVE NeverTaken'
  BY <1>7, RequestTaken
<1> QED BY <1>1, <1>2, <1>3, <1>4, <1>5, <1>6, <1>7 DEF Next

(* A client that is alone with its cookie is never taken for a replay,      *)
(* whatever the number of its requests at a time, of outages, logins and    *)
(* revocations, as long as responses arrive within the tick.                *)
THEOREM LoneClientNeverCut == ASSUME LoneClient PROVE Spec => []NoFalseReplay
<1>1. Init => Sealed /\ NeverTaken
  BY SealedInit, TakenInit
<1>2. Sealed /\ NeverTaken /\ [Next]_vars => (Sealed /\ NeverTaken)'
  BY TakenStep, SealedStep
<1>3. NeverTaken => NoFalseReplay
  BY DEF NeverTaken
<1> QED BY <1>1, <1>2, <1>3, PTL DEF Spec
=============================================================================
