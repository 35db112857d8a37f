------------------------------ MODULE MCParts ------------------------------
(* Five components that share no state with each other, on small instances *)
(* and in one run: each behaviour is one of a single component, part.      *)
EXTENDS SigningKeys, AdminSessions, HostedLogin, NotificationSending,
        Registration, TLC

VARIABLE part

allVars == <<keyVars, sessionVars, loginVars, sendingVars, registrationVars, part>>

CONSTANTS any, some, d1, d2, e1, e2

(* A payload for whatever device there is, and one for a certain device.   *)
Destinations == any :> {} @@ some :> {d1}

(* Signup has one email, with two codes; bootstraps need two to race.      *)
Works ==
  {[operations |-> {"start", "verify", "complete"}, emails |-> {e1}],
   [operations |-> {"startBootstrap", "completeBootstrap"}, emails |-> {e1, e2}]}

(* The requests of all components are the same model values, h1 and h2, so *)
(* that one permutation serves them all.                                   *)
ASSUME SameRequests ==
  Registrant = Visit /\ Registrant = AdminRequest /\ Registrant = Sender

Symmetry == Permutations(Registrant) \cup Permutations(Challenge)

Init == /\ part \in {"keys", "sessions", "login", "sending", "registration"}
        /\ KeyInit
        /\ SessionInit
        /\ LoginInit
        /\ SendingInit
        /\ RegistrationInit
        /\ part # "registration" => runs = CHOOSE w \in RegistrationWork : TRUE

KeyStep == part = "keys" /\ KeyNext
           /\ UNCHANGED <<sessionVars, loginVars, sendingVars, registrationVars>>

SessionStep == part = "sessions" /\ SessionNext
               /\ UNCHANGED <<keyVars, loginVars, sendingVars, registrationVars>>

LoginStep == part = "login" /\ LoginNext
             /\ UNCHANGED <<keyVars, sessionVars, sendingVars, registrationVars>>

SendingStep == part = "sending" /\ SendingNext
               /\ UNCHANGED <<keyVars, sessionVars, loginVars, registrationVars>>

RegistrationStep == part = "registration" /\ RegistrationNext
                    /\ UNCHANGED <<keyVars, sessionVars, loginVars, sendingVars>>

Next == /\ KeyStep \/ SessionStep \/ LoginStep \/ SendingStep \/ RegistrationStep
        /\ UNCHANGED part

Spec == Init /\ [][Next]_allVars

(* The type invariants of all five.                                        *)
PartsTypeOK == /\ KeyTypeOK
               /\ SessionTypeOK
               /\ LoginTypeOK
               /\ SendingTypeOK
               /\ RegistrationTypeOK
=============================================================================
