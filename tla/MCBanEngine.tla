----------------------------- MODULE MCBanEngine -----------------------------
(* Small instances of BanEngine: which rules are on, with which thresholds, *)
(* and who the clients are.                                                 *)
EXTENDS BanEngine, TLC

CONSTANTS i1, u1, vip

Off == [k \in Kinds |-> 0]
OneTick == [k \in Kinds |-> 1]
OneMinute == [r \in Rules |-> 1]

(* Failed and successful logins, unknown hosts, nginx 429 lines.            *)
OneClient == {[ip |-> i1, user |-> u1, login |-> FALSE]}
BanThreshold ==
    [Off EXCEPT !["fail"] = 2, !["nginx_429"] = 2, !["unknown_host"] = 1, !["success_ip"] = 1]
TwoStepLadder == <<1, 2>>

(* The request pre-check.                                                   *)
BrowseAndLogin == {[ip |-> i1, user |-> u1, login |-> FALSE],
                   [ip |-> i1, user |-> u1, login |-> TRUE],
                   [ip |-> i1, user |-> vip, login |-> FALSE]}
GateThreshold ==
    [Off EXCEPT !["hammer"] = 3, !["hammer_login"] = 2, !["rate_login"] = 1]

(* The pre-check next to a thread that bans and an administrator who lifts; *)
(* logins, the sensor and the passing of time do not touch its counter and  *)
(* are explored with the bans.                                              *)
GateNext ==
    \/ \E l \in Lifters : ClearCounters(l) \/ \E i \in DOMAIN bans : LiftBan(l, i)
    \/ \E b \in Banners : BanDirectly(b, u1, "manual")
    \/ \E x \in Threads : BanFind(x) \/ BanInsert(x)
    \/ \E q \in Requests : Request(q)

GateSpec == BanInit /\ [][GateNext]_engineVars

RequestSymmetry == Permutations(Requests)
=============================================================================
