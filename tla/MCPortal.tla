------------------------------- MODULE MCPortal -------------------------------
(* Small instances of seven modules that share no state in the models.    *)
(* One of them runs in each behaviour, so that their state spaces add up.   *)
EXTENDS BreakglassChain, HotStore, Accounts, AccountLifecycle, SignIn, SecondFactors,
        Credentials, TLC

VARIABLE component

portalVars == <<vars, hotVars, accVars, lcVars, signVars, factorVars, credVars, component>>

Component == {"break-glass", "hot", "administrators", "form", "accounts", "lifecycle", "sign-in", "passkeys",
              "totp", "renewals", "credentials"}

(* Next to the administration routes the form runs in one thread, for one   *)
(* person and with room for one request; the races of its threads are       *)
(* explored without those routes.                                           *)
ThePerson == CHOOSE p \in People : TRUE
OneApplicant ==
    LET s == CHOOSE s \in Submitters : TRUE
        q == CHOOSE q \in AccessRequests : TRUE
    IN /\ submit' = [submit EXCEPT ![s] = submit'[s]]
       /\ submit'[s] \in {ThePerson, "none"}
       /\ requests' = [requests EXCEPT ![q] = requests'[q]]
       /\ \A k \in Coroutines : cloc'[k].who \in {ThePerson, "none"}

(* The requests, and the faults, race with one administrator.  Several      *)
(* administrators run side by side for one thread whose requests come       *)
(* between their routes, with a Postgres that answers, and save without     *)
(* provisioning.                                                            *)
TheAdmin == CHOOSE a \in Admins : TRUE
TheRequest == CHOOSE t \in HotThreads : TRUE
OneAdministrator == \A a \in Admins : a # TheAdmin => apc'[a] = "idle"
NobodyAtWork == \A a \in Admins : apc[a] = "idle"
OnlyAdministrators ==
    /\ \A t \in HotThreads : hpc'[t] # hpc[t] => t = TheRequest /\ NobodyAtWork
    /\ hotFaults' = 0
    /\ \A a \in Admins : ~aloc'[a].prov

(* The renewals have both clients; all the routes run for one of them.      *)
TheClient == CHOOSE u \in Clients : TRUE
OnlyRenewals == \A c \in Savers \cup Provisioners : pushes'[c] = AtRest
OneClient == \A u \in Clients \ {TheClient} : UNCHANGED alike[u]

PortalInit ==
    /\ component \in Component
    /\ Init /\ HotInit /\ AccInit /\ LcInit /\ SignInInit /\ FactorsInit /\ CredInit
    /\ \A p \in People :
          users[p] = NoUser \/ (component = "accounts" /\ p = ThePerson)
    /\ \A u \in provisioned :
          component = "renewals" \/ (component = "credentials" /\ u = TheClient)

PortalNext ==
    \/ /\ component = "break-glass" /\ Next
       /\ UNCHANGED <<hotVars, accVars, lcVars, signVars, factorVars, credVars, component>>
    \/ /\ component = "hot" /\ HotNext
       /\ OneAdministrator
       /\ UNCHANGED <<vars, accVars, lcVars, signVars, factorVars, credVars, component>>
    \/ /\ component = "administrators" /\ HotNext
       /\ OnlyAdministrators
       /\ UNCHANGED <<vars, accVars, lcVars, signVars, factorVars, credVars, component>>
    \/ /\ component = "form" /\ AccNext
       /\ UNCHANGED <<accounts, cpc>>
       /\ UNCHANGED <<vars, hotVars, lcVars, signVars, factorVars, credVars, component>>
    \/ /\ component = "accounts" /\ AccNext
       /\ OneApplicant
       /\ UNCHANGED <<vars, hotVars, lcVars, signVars, factorVars, credVars, component>>
    \/ /\ component = "lifecycle" /\ LcNext
       /\ UNCHANGED <<vars, hotVars, accVars, signVars, factorVars, credVars, component>>
    \/ /\ component = "sign-in" /\ SignInNext
       /\ UNCHANGED <<vars, hotVars, accVars, lcVars, factorVars, credVars, component>>
    \/ /\ component = "passkeys" /\ FactorsNext
       /\ UNCHANGED <<vars, hotVars, accVars, lcVars, signVars, totpVars, credVars, component>>
    \/ /\ component = "totp" /\ FactorsNext
       /\ UNCHANGED <<vars, hotVars, accVars, lcVars, signVars, passkeyVars, credVars, component>>
    \/ /\ component = "renewals" /\ CredNext
       /\ OnlyRenewals
       /\ UNCHANGED <<vars, hotVars, accVars, lcVars, signVars, factorVars, component>>
    \/ /\ component = "credentials" /\ CredNext
       /\ OneClient
       /\ UNCHANGED <<vars, hotVars, accVars, lcVars, signVars, factorVars, component>>

PortalSpec == PortalInit /\ [][PortalNext]_portalVars

(* The variables of the component that runs have their types; the others    *)
(* keep their initial values.                                               *)
PortalTypeOK ==
    /\ component = "break-glass" => TypeOK
    /\ component \in {"hot", "administrators"} => HotTypeOK
    /\ component \in {"form", "accounts"} => AccTypeOK
    /\ component = "lifecycle" => LcTypeOK
    /\ component = "sign-in" => SignInTypeOK
    /\ component \in {"passkeys", "totp"} => FactorsTypeOK
    /\ component \in {"renewals", "credentials"} => CredTypeOK

(* The two threads of every component are interchangeable, and so are the   *)
(* two challenges, authenticators and sessions.  The configuration names    *)
(* them all alike, so that one permutation swaps them together.             *)
PortalSymmetry == Permutations(Threads)
=============================================================================
