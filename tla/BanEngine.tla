------------------------------ MODULE BanEngine ------------------------------
(***************************************************************************)
(* The ban engine (app/security/banning): sliding-window counters, bans,   *)
(* their lifting, the request pre-check of SecurityBanMiddleware and the   *)
(* nginx 429 sensor.                                                       *)
(*                                                                         *)
(* Counting an event and banning on it are separate steps.  The counter    *)
(* row takes SQLite's write lock, but is_breakglass_ban_exempt, which every *)
(* automatic ban on an address asks, reaches the unconditional commit of   *)
(* ensure_security_defaults: the row is published and the lock released    *)
(* before the existing bans are looked for, and asked again before a ban   *)
(* is inserted.  Only a ban on an account asks nothing: it is one step with *)
(* its count, unless find_active_ban commits the lifting of another ban.   *)
(* What a thread is about to do stands in pend.                            *)
(*                                                                         *)
(* find_active_ban first lifts every expired ban, so a handler goes past   *)
(* it only when no expired ban is left: Swept guards it, and LiftExpired,  *)
(* with the deletion of counters that follows its commit, are the steps of *)
(* whichever thread gets there first.                                      *)
(*                                                                         *)
(* An allowlisted address, an exempt one, a disabled policy and a target   *)
(* that is already banned make a handler do nothing; those calls are       *)
(* stuttering steps here.  An allowlisted account is in the model: its     *)
(* requests pass unchecked, and are counted all the same.                  *)
(***************************************************************************)
EXTENDS Naturals, Sequences, FiniteSets

CONSTANTS
    Ips, Users,
    Allowlisted,     \* accounts on the allowlist
    Clients,         \* who sends requests: [ip, user, login (is it a login path?)]
    Requests,        \* requests to sensitive paths, each handled by the middleware
    PoolSize,        \* threads that may run pre-checks at a time
    Lifters,         \* threads that may lift bans
    Banners,         \* threads that evaluate logins, refuse hosts, ban for an administrator
    Threshold,       \* threshold of each rule, 0 when the rule is off
    Window,          \* window_seconds of each rule
    Ttl,             \* ban_minutes of each rule
    PermanentRules,  \* rules with ban_permanent
    ConcurrentLimit, \* threshold of the concurrent-connections rule, 0 when off
    Ladder,          \* ttl_ladder_minutes
    PermanentAfter,  \* permanent_after
    MaxLines,        \* bound on the 429 lines of one sensor tick
    MaxEvents,       \* bound on the events a counter holds
    MaxBans,         \* bound on the bans made
    MaxTime          \* bound on the clock, which starts at 1

Targets == Ips \cup Users
Kinds == {"fail", "hammer", "hammer_login", "rate", "rate_login", "unknown_host",
          "success_ip", "nginx_429"}
Rules == Kinds \cup {"manual", "hack_username"}

Sensor == "sensor"                            \* the thread that reads the nginx log
Threads == Banners \cup Requests \cup {Sensor}

ASSUME BanAssumption ==
    /\ IsFiniteSet(Requests) /\ Allowlisted \subseteq Users
    /\ Sensor \notin Banners \cup Requests /\ Banners \cap Requests = {}
    /\ Ips \cap Users = {}
    /\ Clients \subseteq [ip: Ips, user: Users, login: BOOLEAN]
    /\ Threshold \in [Kinds -> Nat] /\ Window \in [Kinds -> Nat]
    /\ Ttl \in [Rules -> Nat \ {0}]
    /\ PermanentRules \subseteq Rules
    /\ Ladder \in Seq(Nat \ {0}) /\ Ladder # <<>>
    /\ PermanentAfter \in Nat \ {0}
    /\ {PoolSize, ConcurrentLimit, MaxLines, MaxEvents, MaxBans} \subseteq Nat
    /\ MaxTime \in Nat \ {0}

VARIABLES
    now,
    ev,              \* the rows of security_rate_events, by kind and key;
                     \* `old`: recorded before the key was last unblocked (history)
    bans,            \* security_bans, in insertion order
    clearing,        \* targets whose counters a lifting thread has yet to clear
    pend,            \* what a thread is to count, or the ban it has decided and
                     \* not yet inserted
    rpc, rwho,       \* a request: stage of the middleware, client
    conc,            \* _concurrent
    uncleared        \* history: targets whose counters could not be cleared

requestVars == <<rpc, rwho, conc>>
banVars == <<bans, clearing, pend>>
engineVars == <<now, ev, banVars, requestVars, uncleared>>

Event == [at: Nat, no: Nat, old: BOOLEAN]     \* `no` tells the rows of one time apart
Ban == [target: Targets, rule: Rules, perm: BOOLEAN, exp: Nat, active: BOOLEAN]

(* A thread that is to count an event for `key`, that looks for a ban on    *)
(* the target, or that inserts its own.  `then`: accounts that the same     *)
(* handler counts next; `due`: whether the ban was earned when it was       *)
(* decided, and whether its target was unblocked since (history).           *)
Job == [at: {"count", "find", "insert"}, key: Targets, ban: Ban, then: SUBSET Users,
        due: {"earned", "unearned", "unblocked"}]
NoJob == {}     \* pend[x] holds at most one job

BanTypeOK ==
    /\ now \in 1..MaxTime
    /\ ev \in [Kinds -> [Targets -> SUBSET Event]]
    /\ bans \in Seq(Ban)
    /\ clearing \in [Lifters -> SUBSET Targets]
    /\ pend \in [Threads -> SUBSET Job]
    /\ rpc \in [Requests -> {"idle", "gated", "hammered", "counted", "admitted", "running",
                             "untracked"}]
    /\ rwho \in [Requests -> Clients]
    /\ conc \in [Ips -> Nat]
    /\ uncleared \subseteq Targets

BanInit ==
    /\ now = 1
    /\ ev = [k \in Kinds |-> [t \in Targets |-> {}]]
    /\ bans = <<>>
    /\ clearing = [l \in Lifters |-> {}]
    /\ pend = [x \in Threads |-> NoJob]
    /\ rpc = [q \in Requests |-> "idle"]
    /\ rwho \in [Requests -> Clients]
    /\ conc = [i \in Ips |-> 0]
    /\ uncleared = {}

-----------------------------------------------------------------------------
(* Counters.                                                                *)

Listed(c) == c.user \in Allowlisted

Enabled(k) == Threshold[k] > 0

Larger(a, b) == IF a >= b THEN a ELSE b

(* occurred_at >= now - max(1, window)                                      *)
InWindow(k, s) == {e \in s : e.at + Larger(1, Window[k]) >= now}

(* n rows added at this time.                                               *)
WithRows(s, n) ==
    LET c == Cardinality({e \in s : e.at = now})
    IN  s \cup {[at |-> now, no |-> c + m, old |-> FALSE] : m \in 1..n}

(* _prune_and_count: drop the key's stale events, add one.                  *)
Recorded(e, k, key) ==
    [e EXCEPT ![k][key] = WithRows(InWindow(k, @), 1)]

Count(e, k, key) == Cardinality(InWindow(k, e[k][key]))

(* The rule counts the event and its threshold is reached.                  *)
Reached(e, k, key) == Enabled(k) /\ Count(e, k, key) >= Threshold[k]

Counted(e, k, key) == IF Enabled(k) THEN Recorded(e, k, key) ELSE e

-----------------------------------------------------------------------------
(* Bans.                                                                    *)

Ended(b) == b.active /\ ~b.perm /\ b.exp <= now

(* Nothing left for lift_expired_bans to do.                                *)
Swept == \A i \in DOMAIN bans : ~Ended(bans[i])

ActiveOn(bs, t) == \E i \in DOMAIN bs : bs[i].target = t /\ bs[i].active

find_active_ban(ip, user) == ActiveOn(bans, ip) \/ ActiveOn(bans, user)

NewBan(t, rule, perm, ttl) ==
    [target |-> t, rule |-> rule, perm |-> perm, exp |-> IF perm THEN 0 ELSE now + ttl,
     active |-> TRUE]

(* count_historical_nginx_limit_bans: lifted ones included.                 *)
NginxBans(i) == {n \in DOMAIN bans : bans[n].target = i /\ bans[n].rule = "nginx_429"}

(* progressive_nginx_limit_ttl                                              *)
IsPermanent(prior) == prior + 1 >= PermanentAfter
LadderTtl(prior) == Ladder[IF prior < Len(Ladder) THEN prior + 1 ELSE Len(Ladder)]

(* The ban that a rule makes now.  Only the sensor makes nginx bans, so the *)
(* number it has read is the one at this point.                             *)
BanOf(t, rule) ==
    LET prior == Cardinality(NginxBans(t))
    IN  IF rule = "nginx_429" THEN NewBan(t, rule, IsPermanent(prior), LadderTtl(prior))
        ELSE NewBan(t, rule, rule \in PermanentRules, Ttl[rule])

(* A job; what it will insert is settled when no active ban is found.       *)
JobFor(at, key, t, rule, then, due) ==
    [at |-> at, key |-> key, then |-> then, due |-> due,
     ban |-> [target |-> t, rule |-> rule, perm |-> FALSE, exp |-> 0, active |-> TRUE]]

ToCount(key, t, rule, then) == JobFor("count", key, t, rule, then, "earned")
ToBan(t, rule, then, due) == JobFor("find", t, t, rule, then, due)

(* The failures are counted by address, then by account.                    *)
Rest(j) == {ToCount(u, u, j.ban.rule, {}) : u \in j.then}

Bounded ==
    /\ Len(bans') <= MaxBans
    /\ \A k \in Kinds, t \in Targets : Cardinality(ev'[k][t]) <= MaxEvents

(* Every event of an unblocked target is from before the unblock.           *)
MarkOld(ts) ==
    [k \in Kinds |-> [t \in Targets |->
        IF t \in ts THEN {[e EXCEPT !.old = TRUE] : e \in ev[k][t]}
        ELSE ev[k][t]]]

(* So is a ban on it that a thread has decided: nothing calls it off.       *)
Overtaken(j, ts) ==
    IF j.ban.target \in ts /\ j.due = "earned" THEN [j EXCEPT !.due = "unblocked"] ELSE j
MarkDecisions(ts) == [x \in Threads |-> {Overtaken(j, ts) : j \in pend[x]}]

(* lift_expired_bans, up to its commit.                                     *)
LiftExpired(l) ==
    /\ clearing[l] = {} /\ ~Swept
    /\ LET ended == {i \in DOMAIN bans : Ended(bans[i])}
           targets == {bans[i].target : i \in ended}
       IN  /\ bans' = [i \in DOMAIN bans |->
                          IF i \in ended THEN [bans[i] EXCEPT !.active = FALSE] ELSE bans[i]]
           /\ clearing' = [clearing EXCEPT ![l] = targets]
           /\ ev' = MarkOld(targets) /\ pend' = MarkDecisions(targets)
    /\ UNCHANGED <<now, requestVars, uncleared>>

(* lift_ban by an administrator, up to its commit.                          *)
LiftBan(l, i) ==
    /\ clearing[l] = {} /\ i \in DOMAIN bans /\ bans[i].active
    /\ bans' = [bans EXCEPT ![i].active = FALSE]
    /\ clearing' = [clearing EXCEPT ![l] = {bans[i].target}]
    /\ ev' = MarkOld({bans[i].target}) /\ pend' = MarkDecisions({bans[i].target})
    /\ UNCHANGED <<now, requestVars, uncleared>>

(* Mutant: the counters are left alone.                                     *)
ClearNothing(l) ==
    /\ clearing[l] # {}
    /\ clearing' = [clearing EXCEPT ![l] = {}]
    /\ UNCHANGED <<now, ev, bans, pend, requestVars, uncleared>>

(* clear_failed_login_counters: the fail_ip and fail_user events, no other. *)
ClearCounters(l) ==
    /\ clearing[l] # {}
    /\ ev' = [ev EXCEPT !["fail"] = [t \in Targets |-> IF t \in clearing[l] THEN {} ELSE @[t]]]
    /\ clearing' = [clearing EXCEPT ![l] = {}]
    /\ UNCHANGED <<now, bans, pend, requestVars, uncleared>>

(* Its SQLAlchemyError is logged and forgotten.                             *)
ClearFails(l) ==
    /\ clearing[l] # {}
    /\ uncleared' = uncleared \cup clearing[l]
    /\ clearing' = [clearing EXCEPT ![l] = {}]
    /\ UNCHANGED <<now, ev, bans, pend, requestVars>>

(* clear_failed_login_counters after a single sign-on that succeeded.       *)
SignedIn(c) ==
    /\ ev' = [ev EXCEPT !["fail"] =
                 [t \in Targets |-> IF t \in {c.ip, c.user} THEN {} ELSE @[t]]]
    /\ UNCHANGED <<now, banVars, requestVars, uncleared>>

-----------------------------------------------------------------------------
(* apply_ban.                                                               *)

(* apply_manual_ban, and the decoy-username ban of evaluate_login_attempt.  *)
BanDirectly(b, t, rule) ==
    /\ pend[b] = NoJob
    /\ t \notin Allowlisted /\ (rule = "hack_username" => t \in Ips)
    /\ pend' = [pend EXCEPT ![b] = {ToBan(t, rule, {}, "earned")}]
    /\ UNCHANGED <<now, ev, bans, clearing, requestVars, uncleared>>

(* Mutant: the existing ban is not looked for.                              *)
BanUnlooked(x) ==
    /\ Swept
    /\ \E j \in pend[x] :
          /\ j.at = "find"
          /\ LET t == j.ban.target
                 found == [j EXCEPT !.at = "insert", !.ban = BanOf(t, j.ban.rule)]
             IN  pend' = [pend EXCEPT ![x] = {found}]
    /\ UNCHANGED <<now, ev, bans, clearing, requestVars, uncleared>>

(* An existing ban is returned as it is, or the new one is made up ...      *)
BanFind(x) ==
    /\ Swept
    /\ \E j \in pend[x] :
          /\ j.at = "find"
          /\ LET t == j.ban.target
                 found == [j EXCEPT !.at = "insert", !.ban = BanOf(t, j.ban.rule)]
             IN  pend' = [pend EXCEPT ![x] = IF ActiveOn(bans, t) THEN Rest(j) ELSE {found}]
    /\ UNCHANGED <<now, ev, bans, clearing, requestVars, uncleared>>

(* ... and inserted, whatever was inserted or lifted meanwhile.             *)
BanInsert(x) ==
    /\ \E j \in pend[x] :
          /\ j.at = "insert"
          /\ bans' = Append(bans, j.ban)
          /\ pend' = [pend EXCEPT ![x] = Rest(j)]
    /\ UNCHANGED <<now, ev, clearing, requestVars, uncleared>>
    /\ Bounded

-----------------------------------------------------------------------------
(* Handlers that count.  Their first look-up and their count are separate:  *)
(* get_rule commits in between.                                             *)

(* evaluate_login_attempt with success=False: the IP, then the account.     *)
FailedLogin(b, c) ==
    /\ pend[b] = NoJob
    /\ Enabled("fail") /\ ~Listed(c) /\ Swept /\ ~find_active_ban(c.ip, c.user)
    /\ pend' = [pend EXCEPT ![b] = {ToCount(c.ip, c.ip, "fail", {c.user})}]
    /\ UNCHANGED <<now, ev, bans, clearing, requestVars, uncleared>>

(* record_successful_login: counted by IP, the account is banned.           *)
SuccessfulLogin(b, c) ==
    /\ pend[b] = NoJob
    /\ Enabled("success_ip") /\ ~Listed(c)
    /\ pend' = [pend EXCEPT ![b] = {ToCount(c.ip, c.user, "success_ip", {})}]
    /\ UNCHANGED <<now, ev, bans, clearing, requestVars, uncleared>>

(* record_unknown_host_refusal                                              *)
UnknownHost(b, i) ==
    /\ pend[b] = NoJob
    /\ Enabled("unknown_host") /\ Swept /\ ~ActiveOn(bans, i)
    /\ pend' = [pend EXCEPT ![b] = {ToCount(i, i, "unknown_host", {})}]
    /\ UNCHANGED <<now, ev, bans, clearing, requestVars, uncleared>>

Lifting == UNION {clearing[l] : l \in Lifters}

(* The failures since the target was last unblocked make the threshold,     *)
(* or the clearing that goes with the unblock is still to come or failed.   *)
NewEvents(e, k, t) == {r \in InWindow(k, e[k][t]) : ~r.old}
Earned(e, k, t) ==
    \/ t \in uncleared \cup Lifting
    \/ Cardinality(NewEvents(e, k, t)) >= Threshold[k]
Due(e, k, t) == IF k # "fail" \/ Earned(e, k, t) THEN "earned" ELSE "unearned"

(* The event is counted.  Below the threshold the handler goes on; at the   *)
(* threshold an address is looked for later, as is an account while there   *)
(* are bans to lift; otherwise the account is banned in the transaction     *)
(* that counts.                                                             *)
CountEvent(b) ==
    /\ \E j \in pend[b] :
          LET k == j.ban.rule
              t == j.ban.target
              reached == Reached(ev', k, j.key)
              later == t \in Ips \/ ~Swept
          IN  /\ j.at = "count"
              /\ ev' = Recorded(ev, k, j.key)
              /\ bans' = IF reached /\ ~later /\ ~ActiveOn(bans, t)
                         THEN Append(bans, BanOf(t, k)) ELSE bans
              /\ pend' = [pend EXCEPT ![b] =
                            IF reached /\ later THEN {ToBan(t, k, j.then, Due(ev', k, t))}
                            ELSE Rest(j)]
    /\ Bounded
    /\ UNCHANGED <<now, clearing, requestVars, uncleared>>

(* A SQLAlchemyError: evaluate_login_attempt rolls back and gives up.        *)
GiveUp(b) ==
    /\ pend[b] # NoJob
    /\ pend' = [pend EXCEPT ![b] = NoJob]
    /\ UNCHANGED <<now, ev, bans, clearing, requestVars, uncleared>>

(* ingest_parsed_events for one IP with n new lines, committed.  An IP that *)
(* is banned already still fills the log.                                   *)
Recorded429(i, n) ==
    [ev EXCEPT !["nginx_429"][i] = WithRows(InWindow("nginx_429", @), n)]

NginxTick(i, n) ==
    /\ Enabled("nginx_429") /\ pend[Sensor] = NoJob
    /\ ev' = Recorded429(i, n)
    /\ pend' = [pend EXCEPT ![Sensor] = IF Reached(ev', "nginx_429", i)
                                        THEN {ToBan(i, "nginx_429", {}, "earned")} ELSE NoJob]
    /\ UNCHANGED <<now, bans, clearing, requestVars, uncleared>>
    /\ Bounded

-----------------------------------------------------------------------------
(* The middleware: _pre_check (check_request_allowed, begin_concurrent),    *)
(* the handler, end_concurrent.                                             *)

InPreCheck ==
    {q \in Requests : rpc[q] \in {"gated", "hammered", "counted", "admitted"} \/ pend[q] # NoJob}

(* A thread takes the request up.                                           *)
Picked(q) ==
    rpc[q] = "idle" /\ pend[q] = NoJob /\ Cardinality(InPreCheck) < PoolSize

OverLimit(i) == ConcurrentLimit > 0 /\ conc[i] >= ConcurrentLimit

(* Mutant: the limit is compared with > instead of >=.                      *)
GateOffByOne(q, c) ==
    /\ Picked(q) /\ ~Listed(c)
    /\ Swept /\ ~find_active_ban(c.ip, c.user)
    /\ ~(ConcurrentLimit > 0 /\ conc[c.ip] > ConcurrentLimit)
    /\ rpc' = [rpc EXCEPT ![q] = "gated"]
    /\ rwho' = [rwho EXCEPT ![q] = c]
    /\ UNCHANGED <<now, ev, banVars, conc, uncleared>>

(* Not banned, and under the concurrency limit.                             *)
Gate(q, c) ==
    /\ Picked(q) /\ ~Listed(c)
    /\ Swept /\ ~find_active_ban(c.ip, c.user)
    /\ ~OverLimit(c.ip)
    /\ rpc' = [rpc EXCEPT ![q] = "gated"]
    /\ rwho' = [rwho EXCEPT ![q] = c]
    /\ UNCHANGED <<now, ev, banVars, conc, uncleared>>

(* An allowlisted account: check_request_allowed returns at once.           *)
PassUnchecked(q, c) ==
    /\ Picked(q) /\ Listed(c)
    /\ rpc' = [rpc EXCEPT ![q] = "admitted"]
    /\ rwho' = [rwho EXCEPT ![q] = c]
    /\ UNCHANGED <<now, ev, banVars, conc, uncleared>>

(* record_sensitive_request: over the limit by now, nothing is counted and  *)
(* None is returned; otherwise hammering is counted ...                     *)
RecordSensitive(q) ==
    /\ rpc[q] = "gated"
    /\ LET c == rwho[q]
           e == Counted(ev, "hammer", c.ip)
       IN  \/ /\ OverLimit(c.ip)
              /\ rpc' = [rpc EXCEPT ![q] = "counted"]
              /\ UNCHANGED <<ev, pend>>
           \/ /\ ~OverLimit(c.ip) /\ Reached(e, "hammer", c.ip)
              /\ ev' = e
              /\ rpc' = [rpc EXCEPT ![q] = "idle"]
              /\ pend' = [pend EXCEPT ![q] = {ToBan(c.ip, "hammer", {}, "earned")}]
           \/ /\ ~OverLimit(c.ip) /\ ~Reached(e, "hammer", c.ip)
              /\ ev' = e
              /\ rpc' = [rpc EXCEPT ![q] = IF c.login THEN "hammered" ELSE "counted"]
              /\ UNCHANGED pend
    /\ UNCHANGED <<now, bans, clearing, rwho, conc, uncleared>>
    /\ Bounded

(* ... and, on a login path, login hammering.                               *)
RecordLogin(q) ==
    /\ rpc[q] = "hammered"
    /\ LET i == rwho[q].ip
           reached == Reached(ev', "hammer_login", i)
       IN  /\ ev' = Counted(ev, "hammer_login", i)
           /\ rpc' = [rpc EXCEPT ![q] = IF reached THEN "idle" ELSE "counted"]
           /\ pend' = IF reached
                      THEN [pend EXCEPT ![q] = {ToBan(i, "hammer_login", {}, "earned")}]
                      ELSE pend
    /\ UNCHANGED <<now, bans, clearing, rwho, conc, uncleared>>
    /\ Bounded

(* _evaluate_rate_limit_rule: count > threshold throttles.  Whether the     *)
(* rejection is audited changes nothing else.                               *)
Throttled(e, k, i) == Enabled(k) /\ Count(e, k, i) > Threshold[k]

(* A ban made meanwhile is found; otherwise record_rate_limited_request.    *)
Throttle(q) ==
    /\ rpc[q] = "counted" /\ Swept
    /\ LET c == rwho[q]
           kinds == IF c.login THEN {"rate", "rate_login"} ELSE {"rate"}
           e == Counted(ev, "rate", c.ip)
           f == IF c.login THEN Counted(e, "rate_login", c.ip) ELSE e
       IN  \/ /\ find_active_ban(c.ip, c.user)
              /\ rpc' = [rpc EXCEPT ![q] = "idle"]
              /\ UNCHANGED ev
           \/ /\ ~find_active_ban(c.ip, c.user)
              /\ \E k \in kinds : Throttled(f, k, c.ip)
              /\ ev' = f
              /\ rpc' = [rpc EXCEPT ![q] = "idle"]
           \/ /\ ~find_active_ban(c.ip, c.user)
              /\ \A k \in kinds : ~Throttled(f, k, c.ip)
              /\ ev' = f
              /\ rpc' = [rpc EXCEPT ![q] = "admitted"]
    /\ UNCHANGED <<now, banVars, rwho, conc, uncleared>>
    /\ Bounded

begin_concurrent(q) ==
    /\ rpc[q] = "admitted"
    /\ conc' = [conc EXCEPT ![rwho[q].ip] = @ + 1]
    /\ rpc' = [rpc EXCEPT ![q] = "running"]
    /\ UNCHANGED <<now, ev, banVars, rwho, uncleared>>

(* The check itself raises: a login path is refused (503), another path     *)
(* goes on untracked.                                                       *)
PreCheckFails(q) ==
    /\ rpc[q] \in {"gated", "hammered", "counted"} \/ pend[q] # NoJob
    /\ rpc' = [rpc EXCEPT ![q] = IF rwho[q].login THEN "idle" ELSE "untracked"]
    /\ pend' = [pend EXCEPT ![q] = NoJob]
    /\ UNCHANGED <<now, ev, bans, clearing, rwho, conc, uncleared>>

(* Mutant: an untracked request is counted out as well.                     *)
EndUntracked(q) ==
    /\ rpc[q] \in {"running", "untracked"}
    /\ conc' = [conc EXCEPT ![rwho[q].ip] = @ - 1]
    /\ rpc' = [rpc EXCEPT ![q] = "idle"]
    /\ UNCHANGED <<now, ev, banVars, rwho, uncleared>>

(* Mutant: the counter stays at one.                                        *)
EndLeaks(q) ==
    /\ rpc[q] \in {"running", "untracked"}
    /\ conc' = IF rpc[q] = "running" /\ conc[rwho[q].ip] > 1
               THEN [conc EXCEPT ![rwho[q].ip] = @ - 1] ELSE conc
    /\ rpc' = [rpc EXCEPT ![q] = "idle"]
    /\ UNCHANGED <<now, ev, banVars, rwho, uncleared>>

(* The handler returns or raises; `finally` untracks what was tracked.      *)
end_concurrent(q) ==
    /\ rpc[q] \in {"running", "untracked"}
    /\ conc' = IF rpc[q] = "running" /\ conc[rwho[q].ip] > 0
               THEN [conc EXCEPT ![rwho[q].ip] = @ - 1] ELSE conc
    /\ rpc' = [rpc EXCEPT ![q] = "idle"]
    /\ UNCHANGED <<now, ev, banVars, rwho, uncleared>>

Tick ==
    /\ now < MaxTime
    /\ now' = now + 1
    /\ UNCHANGED <<ev, banVars, requestVars, uncleared>>

-----------------------------------------------------------------------------
Lift(l) ==
    \/ LiftExpired(l) \/ ClearCounters(l) \/ ClearFails(l)
    \/ \E i \in DOMAIN bans : LiftBan(l, i)

Login(b) ==
    \/ CountEvent(b) \/ GiveUp(b)
    \/ \E c \in Clients : FailedLogin(b, c) \/ SuccessfulLogin(b, c)
    \/ \E i \in Ips : UnknownHost(b, i)

Decide(b) == \E t \in Targets, rule \in {"manual", "hack_username"} : BanDirectly(b, t, rule)

Request(q) ==
    \/ \E c \in Clients : Gate(q, c) \/ PassUnchecked(q, c)
    \/ RecordSensitive(q) \/ RecordLogin(q) \/ Throttle(q) \/ begin_concurrent(q)
    \/ PreCheckFails(q) \/ end_concurrent(q)

BanNext ==
    \/ \E l \in Lifters : Lift(l)
    \/ \E x \in Threads : BanFind(x) \/ BanInsert(x)
    \/ \E b \in Banners : Login(b) \/ Decide(b)
    \/ \E c \in Clients : SignedIn(c)
    \/ \E i \in Ips, n \in 1..MaxLines : NginxTick(i, n)
    \/ \E q \in Requests : Request(q)
    \/ Tick

BanSpec == BanInit /\ [][BanNext]_engineVars

-----------------------------------------------------------------------------
(* Properties.                                                              *)

(* The bans a step makes.                                                   *)
Made == {bans'[n] : n \in (DOMAIN bans') \ (DOMAIN bans)}

(* The jobs that may insert a ban.                                          *)
DecidedBy(b) == {j \in UNION {pend[x] : x \in Threads} : j.ban = b}

(* Unblocking gives a fresh start: a failed-login ban is decided on a full  *)
(* threshold of failures since the target's last unblock, unless that       *)
(* unblock's clear_failed_login_counters is still to run or has failed.     *)
(* The only ban on older failures is one whose target is unblocked between  *)
(* the count and the insertion ("unblocked"): the unblock comes to nothing. *)
FailBansEarned ==
    [][\A b \in Made : b.rule = "fail" =>
          \/ DecidedBy(b) # {} /\ \A j \in DecidedBy(b) : j.due # "unearned"
          \/ DecidedBy(b) = {} /\ Earned(ev', "fail", b.target)]_engineVars

(* The ladder is climbed one ended ban at a time: 429 lines logged while a  *)
(* ban is in force make no further ban, so a permanent one follows          *)
(* permanent_after - 1 earlier ones that have all ended.                    *)
LadderClimbed ==
    [][\A b \in Made : b.rule = "nginx_429" =>
          /\ \A n \in NginxBans(b.target) : ~bans[n].active
          /\ b.perm => Cardinality(NginxBans(b.target)) + 1 >= PermanentAfter]_engineVars

(* The requests of an address that are counted in.                          *)
Running(i) == {q \in Requests : rpc[q] = "running" /\ rwho[q].ip = i}

(* The concurrency counter is the number of requests being served, whatever *)
(* checks failed meanwhile: it neither leaks, which would lock an address   *)
(* out for good, nor forgets a request.                                     *)
CounterExact == \A i \in Ips : conc[i] = Cardinality(Running(i))

(* The concurrency limit is checked before the request is counted in: of    *)
(* the requests that are subject to it, at most one per other pre-check     *)
(* thread is served beyond it.  Allowlisted accounts behind the same        *)
(* address count against it and are not held to it.                         *)
ConcurrentBound ==
    ConcurrentLimit > 0 =>
        \A i \in Ips :
            Cardinality({q \in Running(i) : ~Listed(rwho[q])}) + 1 <= ConcurrentLimit + PoolSize
=============================================================================
