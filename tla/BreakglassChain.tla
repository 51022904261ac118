--------------------------- MODULE BreakglassChain ---------------------------
(***************************************************************************)
(* Break-glass sessions (app/auth/breakglass.py) and the middleware that   *)
(* rotates their cookie (app/auth/breakglass_cookie_middleware.py).        *)
(*                                                                         *)
(* A login opens a chain of session rows; each rotation adds a row and     *)
(* marks the previous one superseded.  A superseded cookie is accepted for *)
(* Grace, then its use is a replay and cuts the whole chain.  A request    *)
(* carries the cookie its client held when it was sent; the middleware     *)
(* runs when the handler has finished, in a thread of its own, and its     *)
(* Set-Cookie reaches the client later or never.                           *)
(*                                                                         *)
(* A rotation reads the row, then commits the new row and the superseded   *)
(* mark.  The re-load before the commit (breakglass.py:673) returns the    *)
(* object the session already holds, so what it sees is what was read      *)
(* first, unless an audit commit came in between: MiddlewareRead is the    *)
(* last read that refreshed the row.                                       *)
(*                                                                         *)
(* Binding (subnet, fingerprint) only decides whether a request is denied: *)
(* a denied request changes nothing here.                                  *)
(***************************************************************************)
EXTENDS Naturals

CONSTANTS
    Holders,        \* clients with a cookie jar
    Threads,        \* portal requests in progress
    Grace,          \* GRACE_WINDOW_SECONDS
    RotateEvery,    \* ROTATION_MIN_INTERVAL_SECONDS
    IdleTimeout,    \* IDLE_TIMEOUT_SECONDS
    AbsoluteTTL,    \* COOKIE_MAX_AGE
    DegradedTTL,    \* DEGRADED_TOKEN_TTL_SEC
    Retention,      \* BREAKGLASS_SESSION_RETENTION_DAYS
    SlowRequests,   \* may requests outlast a tick and responses get lost?
    MaxJti,         \* bound on issued jtis
    MaxTime         \* bound on the clock

ASSUME TimingAssumption ==
    /\ {Grace, RotateEvery, IdleTimeout, AbsoluteTTL, DegradedTTL, Retention,
        MaxJti, MaxTime} \subseteq Nat
    /\ DegradedTTL <= AbsoluteTTL
    /\ SlowRequests \in BOOLEAN

VARIABLES
    now, registryUp,
    issued,                 \* jtis issued so far (1..issued)
    reg,                    \* jtis with a row in breakglass_sessions
    chain, iss, expAt,      \* chain_id, issued_at, expires_at
    sup, supAt,             \* superseded_by (0: NULL), superseded_at
    revoked, chainRev,
    held,                   \* the cookie in each client's jar
    tpc, twho, ttok,        \* a portal request: stage, client, cookie (then response)
    cut, quietCut, replayed \* history: chains cut / cut with no rotation in flight /
                            \* cut by replay detection

rowVars == <<reg, chain, iss, expAt, sup, supAt, revoked, chainRev>>
threadVars == <<tpc, twho, ttok>>
history == <<cut, quietCut, replayed>>
vars == <<now, registryUp, issued, rowVars, held, threadVars, history>>

Jti == 1..MaxJti
Token == [jti: 0..MaxJti, last: Nat, exp: Nat]
NoToken == [jti |-> 0, last |-> 0, exp |-> 0]

TypeOK ==
    /\ now \in 0..MaxTime /\ registryUp \in BOOLEAN
    /\ issued \in 0..MaxJti
    /\ reg \in SUBSET (1..issued)
    /\ chain \in [Jti -> 0..MaxJti]
    /\ iss \in [Jti -> Nat] /\ expAt \in [Jti -> Nat]
    /\ sup \in [Jti -> 0..MaxJti] /\ supAt \in [Jti -> Nat]
    /\ revoked \in [Jti -> BOOLEAN] /\ chainRev \in [Jti -> BOOLEAN]
    /\ held \in [Holders -> Token]
    /\ tpc \in [Threads -> {"idle", "sent", "rotating", "response"}]
    /\ twho \in [Threads -> Holders] /\ ttok \in [Threads -> Token]
    /\ cut \in SUBSET Jti /\ quietCut \in SUBSET cut /\ replayed \in SUBSET cut

Init ==
    /\ now = 0 /\ registryUp = TRUE
    /\ issued = 0
    /\ reg = {}
    /\ chain = [j \in Jti |-> 0]
    /\ iss = [j \in Jti |-> 0] /\ expAt = [j \in Jti |-> 0]
    /\ sup = [j \in Jti |-> 0] /\ supAt = [j \in Jti |-> 0]
    /\ revoked = [j \in Jti |-> FALSE] /\ chainRev = [j \in Jti |-> FALSE]
    /\ held = [h \in Holders |-> NoToken]
    /\ tpc = [t \in Threads |-> "idle"]
    /\ twho \in [Threads -> Holders] /\ ttok = [t \in Threads |-> NoToken]
    /\ cut = {} /\ quietCut = {} /\ replayed = {}

-----------------------------------------------------------------------------
(* Decisions on a cookie.                                                   *)

(* decode_breakglass_token: absolute expiry and idle timeout.               *)
Decodes(tok) == tok.jti # 0 /\ now < tok.exp /\ now <= tok.last + IdleTimeout

(* Mutant: no grace window at all.                                          *)
NoGrace(j) == FALSE

(* _within_grace: a superseded row is honoured for Grace.                   *)
within_grace(j) == sup[j] # 0 /\ now <= supAt[j] + Grace

(* is_breakglass_jti_revoked, and the same checks in                        *)
(* process_breakglass_auth_request: a jti without a row is not blocked.     *)
JtiRevoked(j) ==
    /\ j \in reg
    /\ \/ chainRev[j] \/ revoked[j]
       \/ sup[j] # 0 /\ ~within_grace(j)

Accepts(tok) == Decodes(tok) /\ ~JtiRevoked(tok.jti)

(* _rotation_due, on the `last` claim of the cookie.                        *)
rotation_due(tok) == tok.last + RotateEvery <= now

ChainRows(c) == {j \in reg : chain[j] = c}

(* current_chain_tip: the newest row that is not superseded.                *)
IsTip(j, c) ==
    /\ j \in ChainRows(c) /\ sup[j] = 0
    /\ \A k \in ChainRows(c) : sup[k] = 0 => iss[k] <= iss[j]

InFlight(c) == \E t \in Threads : tpc[t] = "rotating" /\ chain[ttok[t].jti] = c

(* Mutant: only the row that was presented is marked.                       *)
MarkOneRow(c) ==
    chainRev' = [j \in Jti |-> chainRev[j] \/ (j \in ChainRows(c) /\ sup[j] # 0)]

(* mark_chain_revoked: one UPDATE over the chain's rows.                    *)
mark_chain_revoked(c) ==
    chainRev' = [j \in Jti |-> chainRev[j] \/ j \in ChainRows(c)]

NoteCut(c, replay) ==
    /\ cut' = cut \cup {c}
    /\ quietCut' = IF InFlight(c) THEN quietCut ELSE quietCut \cup {c}
    /\ replayed' = IF replay THEN replayed \cup {c} ELSE replayed

-----------------------------------------------------------------------------
(* Login, logout, administration.                                           *)

(* Mutant: the registered jti is not the fresh one.                         *)
LoginStaleJti(h) ==
    /\ issued < MaxJti
    /\ reg' = reg \cup {issued + 1}
    /\ held' = [held EXCEPT ![h] = [jti |-> issued + 1, last |-> now, exp |-> now + AbsoluteTTL]]
    /\ UNCHANGED <<now, registryUp, issued, chain, iss, expAt, sup, supAt, revoked, chainRev,
                   threadVars, history>>

(* issue_breakglass_token: a row and an 8 h cookie, or, when the registry   *)
(* cannot be reached, a short-lived cookie without a row.                   *)
Login(h) ==
    /\ issued < MaxJti
    /\ LET j == issued + 1
           ttl == IF registryUp THEN AbsoluteTTL ELSE DegradedTTL
       IN  /\ issued' = j
           /\ reg' = IF registryUp THEN reg \cup {j} ELSE reg
           /\ chain' = [chain EXCEPT ![j] = j]
           /\ iss' = [iss EXCEPT ![j] = now]
           /\ expAt' = [expAt EXCEPT ![j] = now + AbsoluteTTL]
           /\ held' = [held EXCEPT ![h] = [jti |-> j, last |-> now, exp |-> now + ttl]]
    /\ UNCHANGED <<now, registryUp, sup, supAt, revoked, chainRev, threadVars, history>>

(* revoke_breakglass_jti: mark the row, cut its chain.                      *)
RevokeJti(j) ==
    /\ registryUp /\ j \in reg
    /\ revoked' = [revoked EXCEPT ![j] = TRUE]
    /\ mark_chain_revoked(chain[j])
    /\ NoteCut(chain[j], FALSE)
    /\ UNCHANGED <<now, registryUp, issued, reg, chain, iss, expAt, sup, supAt,
                   threadVars>>

AdminRevoke(j) == RevokeJti(j) /\ UNCHANGED held

(* revoke_breakglass_session_from_request: the cookie is cleared whether    *)
(* or not its jti has a row, even if it has expired.                        *)
Logout(h) ==
    /\ held[h].jti # 0 /\ registryUp
    /\ held' = [held EXCEPT ![h] = NoToken]
    /\ \/ RevokeJti(held[h].jti)
       \/ /\ held[h].jti \notin reg
          /\ UNCHANGED <<now, registryUp, issued, rowVars, threadVars, history>>

(* Mutant: the tips of stale chains only, instead of whole chains.          *)
StaleTips ==
    {j \in reg : expAt[j] + Retention < now /\ sup[j] = 0}

(* purge_expired_breakglass_sessions: rows of the chains whose newest       *)
(* expires_at is older than the retention.                                  *)
StaleRows ==
    {j \in reg : \A k \in ChainRows(chain[j]) : expAt[k] + Retention < now}

Purge ==
    /\ registryUp /\ StaleRows # {}
    /\ reg' = reg \ StaleRows
    /\ UNCHANGED <<now, registryUp, issued, chain, iss, expAt, sup, supAt, revoked,
                   chainRev, held, threadVars, history>>

-----------------------------------------------------------------------------
(* Requests.                                                                *)

(* The pipeline meets a superseded cookie outside its grace window: the     *)
(* chain is cut (mark_chain_revoked, committed by the audit entry).         *)
IsReplay(tok) ==
    /\ registryUp /\ Decodes(tok) /\ tok.jti \in reg
    /\ ~chainRev[tok.jti] /\ ~revoked[tok.jti]
    /\ sup[tok.jti] # 0 /\ ~within_grace(tok.jti)

CutByReplay(tok) ==
    /\ IsReplay(tok)
    /\ mark_chain_revoked(chain[tok.jti])
    /\ NoteCut(chain[tok.jti], TRUE)
    /\ UNCHANGED <<now, registryUp, issued, reg, chain, iss, expAt, sup, supAt,
                   revoked, held>>

(* nginx auth_request (rotate=False): its only effect is the replay cut.    *)
AuthRequest(h) == CutByReplay(held[h]) /\ UNCHANGED threadVars

(* A portal request leaves with the client's cookie and is let in.          *)
Send(t, h) ==
    /\ tpc[t] = "idle"
    /\ registryUp => Accepts(held[h])
    /\ ~registryUp => Decodes(held[h])
    /\ tpc' = [tpc EXCEPT ![t] = "sent"]
    /\ twho' = [twho EXCEPT ![t] = h]
    /\ ttok' = [ttok EXCEPT ![t] = held[h]]
    /\ UNCHANGED <<now, registryUp, issued, rowVars, held, history>>

EndRequest(t) ==
    /\ tpc' = [tpc EXCEPT ![t] = "idle"]
    /\ ttok' = [ttok EXCEPT ![t] = NoToken]
    /\ UNCHANGED twho

(* Nothing to rotate: handler error, cookie too recent, cookie no longer    *)
(* valid, no row, registry down, or binding drift.                          *)
MiddlewarePass(t) ==
    /\ tpc[t] = "sent"
    /\ EndRequest(t)
    /\ UNCHANGED <<now, registryUp, issued, rowVars, held, history>>

MiddlewareReplay(t) ==
    /\ tpc[t] = "sent"
    /\ rotation_due(ttok[t])
    /\ CutByReplay(ttok[t])
    /\ EndRequest(t)

(* Superseded, in the grace window: the response carries the chain's tip.   *)
MiddlewareResync(t) ==
    /\ tpc[t] = "sent" /\ registryUp
    /\ rotation_due(ttok[t]) /\ Decodes(ttok[t])
    /\ ttok[t].jti \in reg /\ ~JtiRevoked(ttok[t].jti) /\ sup[ttok[t].jti] # 0
    /\ \E j \in Jti :
         /\ IsTip(j, chain[ttok[t].jti])
         /\ ttok' = [ttok EXCEPT ![t] = [jti |-> j, last |-> now, exp |-> ttok[t].exp]]
    /\ tpc' = [tpc EXCEPT ![t] = "response"]
    /\ UNCHANGED <<now, registryUp, issued, rowVars, held, twho, history>>

(* The row is current: go on to rotate it.                                  *)
MiddlewareRead(t) ==
    /\ tpc[t] = "sent" /\ registryUp
    /\ rotation_due(ttok[t]) /\ Decodes(ttok[t])
    /\ ttok[t].jti \in reg /\ ~JtiRevoked(ttok[t].jti) /\ sup[ttok[t].jti] = 0
    /\ tpc' = [tpc EXCEPT ![t] = "rotating"]
    /\ UNCHANGED <<now, registryUp, issued, rowVars, held, twho, ttok, history>>

(* rotate_breakglass_session keeps the row's absolute expiry ...            *)
RotatedExpiry(j) == expAt[j]

(* Mutant: encode_breakglass_claims renews exp with last.                   *)
FreshTokenExpiry(tok) == now + AbsoluteTTL

(* ... and encode_breakglass_claims the cookie's.                           *)
TokenExpiry(tok) == tok.exp

rotate_breakglass_session(t) ==
    /\ tpc[t] = "rotating" /\ registryUp
    /\ issued < MaxJti
    /\ ttok[t].jti \in reg
    /\ LET old == ttok[t].jti
           j == issued + 1
       IN  /\ issued' = j
           /\ reg' = reg \cup {j}
           /\ chain' = [chain EXCEPT ![j] = chain[old]]
           /\ iss' = [iss EXCEPT ![j] = now]
           /\ expAt' = [expAt EXCEPT ![j] = RotatedExpiry(old)]
           /\ sup' = [sup EXCEPT ![old] = j]
           /\ supAt' = [supAt EXCEPT ![old] = now]
           /\ ttok' = [ttok EXCEPT ![t] = [jti |-> j, last |-> now,
                                           exp |-> TokenExpiry(ttok[t])]]
    /\ tpc' = [tpc EXCEPT ![t] = "response"]
    /\ UNCHANGED <<now, registryUp, revoked, chainRev, held, twho, history>>

(* SQLAlchemyError while rotating (registry lost, row purged): the client   *)
(* keeps its cookie.                                                        *)
RotationFails(t) ==
    /\ tpc[t] = "rotating"
    /\ EndRequest(t)
    /\ UNCHANGED <<now, registryUp, issued, rowVars, held, history>>

(* The response arrives and its Set-Cookie replaces the client's cookie ... *)
Deliver(t) ==
    /\ tpc[t] = "response"
    /\ held' = [held EXCEPT ![twho[t]] = ttok[t]]
    /\ EndRequest(t)
    /\ UNCHANGED <<now, registryUp, issued, rowVars, history>>

(* ... or the connection is gone.                                           *)
Lose(t) ==
    /\ SlowRequests
    /\ tpc[t] = "response"
    /\ EndRequest(t)
    /\ UNCHANGED <<now, registryUp, issued, rowVars, held, history>>

-----------------------------------------------------------------------------
(* Environment.                                                             *)

(* A cookie ends up in a second jar (what replay detection is there for).   *)
CopyCookie(h, g) ==
    /\ h # g /\ held[h].jti # 0
    /\ held' = [held EXCEPT ![g] = held[h]]
    /\ UNCHANGED <<now, registryUp, issued, rowVars, threadVars, history>>

ToggleRegistry ==
    /\ registryUp' = ~registryUp
    /\ UNCHANGED <<now, issued, rowVars, held, threadVars, history>>

Tick ==
    /\ now < MaxTime
    /\ SlowRequests \/ \A t \in Threads : tpc[t] = "idle"
    /\ now' = now + 1
    /\ UNCHANGED <<registryUp, issued, rowVars, held, threadVars, history>>

Request(t) ==
    \/ \E h \in Holders : Send(t, h)
    \/ MiddlewarePass(t) \/ MiddlewareReplay(t) \/ MiddlewareResync(t)
    \/ MiddlewareRead(t) \/ rotate_breakglass_session(t) \/ RotationFails(t)
    \/ Deliver(t) \/ Lose(t)

Next ==
    \/ \E h \in Holders : Login(h) \/ Logout(h) \/ AuthRequest(h)
    \/ \E j \in Jti : AdminRevoke(j)
    \/ \E t \in Threads : Request(t)
    \/ \E h, g \in Holders : CopyCookie(h, g)
    \/ Purge \/ ToggleRegistry \/ Tick

Spec == Init /\ [][Next]_vars

-----------------------------------------------------------------------------
(* Properties.                                                              *)

(* Every cookie some client holds, sent, or is about to receive.            *)
Circulating ==
    {held[h] : h \in Holders} \cup {ttok[t] : t \in Threads}

(* A revocation or replay cut that found no rotation of the chain between   *)
(* its read and its commit is final: no cookie of that chain, old or new,   *)
(* is accepted again - not after later rotations, grace windows, outages,   *)
(* or the purge of the chain's rows (a cookie without a row is accepted).   *)
QuietCutFinal ==
    \A tok \in Circulating :
        (tok.jti # 0 /\ chain[tok.jti] \in quietCut) => ~Accepts(tok)

(* Rotation never prolongs a session: whatever the number of rotations and  *)
(* resyncs, no cookie is accepted later than the absolute TTL after login.  *)
AbsoluteExpiry ==
    \A tok \in Circulating :
        (tok.jti # 0 /\ Accepts(tok)) => now < iss[chain[tok.jti]] + AbsoluteTTL

(* "Never leaves orphan rows from a partially purged chain": a superseded   *)
(* row's successor is registered, in the same chain, so that grace reuse    *)
(* always finds a row to resync to.                                         *)
ChainLinked ==
    \A j \in reg : sup[j] # 0 => sup[j] \in reg /\ chain[sup[j]] = chain[j]

(* A client that is alone with its cookie, and whose requests and responses *)
(* complete within a tick, is never taken for a replay.                     *)
NoFalseReplay == replayed = {}

(* revoke_breakglass_jti: "Revoke a break-glass session and cut its entire  *)
(* rotation chain".                                                         *)
CutFinal ==
    \A tok \in Circulating :
        (tok.jti # 0 /\ chain[tok.jti] \in cut) => ~Accepts(tok)
=============================================================================
