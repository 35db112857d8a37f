--------------------------- MODULE AdminSessions ---------------------------
(***************************************************************************)
(* The sessions of one administrator and the handlers of AdminAuthService  *)
(* that write them: login, validateRequest, which every request behind     *)
(* AdminGuard runs, and logout.                                            *)
(*                                                                         *)
(* validateRequest loads the session, sets the times and saves it.  The    *)
(* entity carries revokedAt as loaded, null, and save is a SELECT and an   *)
(* UPDATE of the columns in which entity and row differ.                   *)
(***************************************************************************)
EXTENDS Naturals

CONSTANTS Session,      \* the rows of admin_sessions
          AdminRequest, \* the requests that may run at the same time
          IdleTime,     \* ADMIN_IDLE_MS
          AbsoluteTime, \* ADMIN_ABSOLUTE_MS
          LastTime,     \* bounds the clock
          NoSession     \* an unset local

ASSUME SessionTimeAssumption ==
  /\ {IdleTime, AbsoluteTime, LastTime} \subseteq Nat
  /\ IdleTime <= AbsoluteTime

VARIABLES session, \* the committed rows
          admin,   \* whether the account is an active super admin
          clock,
          request, \* the local state of each validateRequest
          accepted \* history: when a login or a request was last let in

sessionVars == <<session, admin, clock, request, accepted>>

SessionTime == 0..(LastTime + AbsoluteTime)

SessionRow == [exists : BOOLEAN, revoked : BOOLEAN,
               idle : SessionTime, absolute : SessionTime]

Least(a, b) == IF a < b THEN a ELSE b

(* idle is what the entity has; revoke tells whether the UPDATE sets       *)
(* revokedAt to null; overtaken is history.                                *)
Validation == [pc : {"idle", "select", "commit"}, session : Session \cup {NoSession},
               idle : SessionTime, revoke : BOOLEAN, overtaken : BOOLEAN]

NoValidation == [pc |-> "idle", session |-> NoSession, idle |-> 0,
                 revoke |-> FALSE, overtaken |-> FALSE]

-----------------------------------------------------------------------------
Usable(s) == /\ session[s].exists
             /\ ~session[s].revoked
             /\ clock < session[s].idle
             /\ clock < session[s].absolute

(* login and the end of a bootstrap: issueAdminSession.                    *)
IssueAdminSession(s) ==
  /\ admin
  /\ ~session[s].exists
  /\ session' = [session EXCEPT ![s] =
       [exists |-> TRUE, revoked |-> FALSE,
        idle |-> clock + IdleTime, absolute |-> clock + AbsoluteTime]]
  /\ accepted' = [accepted EXCEPT ![s] = clock]
  /\ UNCHANGED <<admin, clock, request>>

(* validateRequest up to its save; a refused request changes nothing.      *)
ValidateFind(r, s) ==
  /\ request[r].pc = "idle"
  /\ Usable(s)
  /\ admin
  /\ request' = [request EXCEPT ![r] =
       [NoValidation EXCEPT !.pc = "select", !.session = s,
          !.idle = Least(clock + IdleTime, session[s].absolute)]]
  /\ accepted' = [accepted EXCEPT ![s] = clock]
  /\ UNCHANGED <<session, admin, clock>>

(* Mutant of ValidateSelect: the whole entity is written.                  *)
ValidateSelectAll(r) ==
  /\ request[r].pc = "select"
  /\ request' = [request EXCEPT ![r].pc = "commit", ![r].revoke = TRUE]
  /\ UNCHANGED <<session, admin, clock, accepted>>

(* save, first statement: revokedAt differs if a logout has set it.        *)
ValidateSelect(r) ==
  /\ request[r].pc = "select"
  /\ request' = [request EXCEPT ![r].pc = "commit",
       ![r].revoke = session[request[r].session].revoked]
  /\ UNCHANGED <<session, admin, clock, accepted>>

ValidateWrite(r) ==
  LET s == request[r].session IN
  /\ request[r].pc = "commit"
  /\ session' = [session EXCEPT
       ![s].idle = request[r].idle,
       ![s].revoked = IF request[r].revoke THEN FALSE ELSE @]
  /\ request' = [request EXCEPT ![r] = NoValidation]
  /\ UNCHANGED <<admin, clock, accepted>>

(* logout: one UPDATE of the session that is not yet revoked.              *)
Logout(s) ==
  /\ session[s].exists
  /\ ~session[s].revoked
  /\ session' = [session EXCEPT ![s].revoked = TRUE]
  /\ request' = [r \in AdminRequest |->
       IF request[r].pc = "select" /\ request[r].session = s
       THEN [request[r] EXCEPT !.overtaken = TRUE] ELSE request[r]]
  /\ UNCHANGED <<admin, clock, accepted>>

(* The account is disabled, locked or made active again.                   *)
ChangeAdmin == /\ admin' = ~admin
               /\ UNCHANGED <<session, clock, request, accepted>>

SessionTick == /\ clock < LastTime
               /\ clock' = clock + 1
               /\ UNCHANGED <<session, admin, request, accepted>>

(* A process dies.                                                         *)
RequestCrash(r) == /\ request[r].pc # "idle"
                   /\ request' = [request EXCEPT ![r] = NoValidation]
                   /\ UNCHANGED <<session, admin, clock, accepted>>

SessionInit ==
  /\ session = [s \in Session |->
       [exists |-> FALSE, revoked |-> FALSE, idle |-> 0, absolute |-> 0]]
  /\ admin = TRUE
  /\ clock = 0
  /\ request = [r \in AdminRequest |-> NoValidation]
  /\ accepted = [s \in Session |-> 0]

SessionNext ==
  \/ \E s \in Session : \/ IssueAdminSession(s)
                        \/ Logout(s)
                        \/ \E r \in AdminRequest : ValidateFind(r, s)
  \/ \E r \in AdminRequest : \/ ValidateSelect(r)
                             \/ ValidateWrite(r)
                             \/ RequestCrash(r)
  \/ ChangeAdmin
  \/ SessionTick

SessionSpec == SessionInit /\ [][SessionNext]_sessionVars

-----------------------------------------------------------------------------
(* Type invariant of the sessions.                                         *)
SessionTypeOK == /\ session \in [Session -> SessionRow]
                 /\ admin \in BOOLEAN
                 /\ clock \in 0..LastTime
                 /\ request \in [AdminRequest -> Validation]
                 /\ accepted \in [Session -> 0..LastTime]

(* s is logged out and no request that loaded it before has yet to SELECT  *)
(* it, or has found its revocation to write null over it.                  *)
LoggedOut(s) ==
  /\ session[s].revoked
  /\ \A r \in AdminRequest :
       request[r].session = s => request[r].pc # "select" /\ ~request[r].revoke

(* A logged-out session comes back only by the save of a request that the  *)
(* logout came upon between its load and its SELECT, which writes the null *)
(* it loaded.  Once no such request is left the session is over for good,  *)
(* whatever requests, logins and crashes follow (logout: revokedAt).       *)
LogoutFinal ==
  [][\A s \in Session :
       /\ session[s].revoked /\ ~session'[s].revoked
            => \E r \in AdminRequest : /\ request[r].pc = "commit"
                                       /\ request[r].session = s
                                       /\ request[r].overtaken
       /\ LoggedOut(s) => LoggedOut(s)']_sessionVars

(* A session that still lets requests in had one let in within the idle    *)
(* time, in whatever order the saves of idleExpiresAt are written.         *)
IdleSessionsEnd ==
  \A s \in Session : Usable(s) => clock < accepted[s] + IdleTime
=============================================================================
