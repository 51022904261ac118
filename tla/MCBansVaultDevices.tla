-------------------------- MODULE MCBansVaultDevices --------------------------
(* Small instances of BanEngine (its bans, not the request gate), of        *)
(* KeyRotation (with threads that store secrets) and of Devices, which      *)
(* share no state: one of them runs in each behaviour, so that their state  *)
(* spaces add up.                                                           *)
EXTENDS MCBanEngine, KeyRotation, Devices

VARIABLE component

bvdVars == <<engineVars, rotationVars, devVars, component>>

(* The components that do not run have one initial state.                   *)
BvdInit ==
    /\ component \in {"logins", "others", "sensors", "vault", "devices"}
    /\ BanInit /\ RotationInit /\ DevInit
    /\ component # "vault" => /\ \A c \in Columns : rows[c] = Empty
                              /\ \A w \in Writers : wcol[w] = CHOOSE c \in Columns : TRUE
    /\ component # "devices" => inventory = NoRows

(* With two decisions the phone makes two requests less than with one, or   *)
(* one less while it has twins.                                             *)
FewRequests ==
    LET decided == {d \in Deciders : decideAt[d] # "idle"}
        deciding == {d \in Deciders : decideAt'[d] # "idle"}
    IN /\ sightings' + Cardinality(deciding) <= MaxSightings + 1
       /\ Cardinality(deciding) = 2 /\ (deciding # decided \/ sightings' # sightings) =>
            sightings' < MaxSightings - 1 \/ Cardinality(Rows) = 2

(* The rules by which threads ban, explored apart from each other.          *)
Only(rules) == \A b \in Banners : \A j \in pend'[b] : j.ban.rule \in rules
SensorRests == ev'["nginx_429"] = ev["nginx_429"]

BvdNext ==
    \/ /\ component = "logins" /\ BanNext /\ Only({"fail"}) /\ SensorRests
       /\ UNCHANGED <<rotationVars, devVars, component>>
    \/ /\ component = "others" /\ BanNext /\ Only({"success_ip", "hack_username"}) /\ SensorRests
       /\ UNCHANGED <<rotationVars, devVars, component>>
    \/ /\ component = "sensors" /\ BanNext /\ Only({"unknown_host"})
       /\ UNCHANGED <<rotationVars, devVars, component>>
    \/ component = "vault" /\ RotationNext /\ UNCHANGED <<engineVars, devVars, component>>
    \/ /\ component = "devices" /\ DevNext /\ FewRequests
       /\ UNCHANGED <<engineVars, rotationVars, component>>

BvdSpec == BvdInit /\ [][BvdNext]_bvdVars

(* The variables of the component that runs have their types; the others    *)
(* keep their initial values.                                               *)
BvdTypeOK ==
    /\ component \in {"logins", "others", "sensors"} => BanTypeOK
    /\ component = "vault" => RotationTypeOK
    /\ component = "devices" => DevTypeOK

(* Threads and routes are interchangeable.                                  *)
BvdSymmetry == Permutations(SyncThreads) \cup Permutations(Deciders)
=============================================================================
