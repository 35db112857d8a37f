---------------------------- MODULE Registration ----------------------------
(***************************************************************************)
(* How accounts come into being: a visitor's signup with a code sent by    *)
(* mail (SignupService), the first super admin's bootstrap with a          *)
(* challenge and a one-time password (AdminAuthService) and an             *)
(* administrator's create (AccountsService).                               *)
(*                                                                         *)
(* Signup has no transaction before the account's INSERT: it loads the     *)
(* newest code that is not consumed, compares, and saves a count or a time *)
(* of consumption; save is a SELECT and an UPDATE of the columns in which  *)
(* entity and row differ.  The bootstrap checks that there is no super     *)
(* admin before its transaction.                                           *)
(*                                                                         *)
(* An account stands for its email, and its login id with it; names,       *)
(* passwords and the limit per IP address are left out.                    *)
(***************************************************************************)
EXTENDS Naturals, FiniteSets

CONSTANTS Email,
          MaxCodes,      \* bounds the codes ever sent
          CodeLimit,     \* codes an email may get in EMAIL_WINDOW_MS
          AttemptLimit,  \* wrong guesses of a code
          Challenge,     \* rows of admin_bootstrap_challenges
          Registrant,    \* the requests that may run at the same time
          MaxRaced,      \* bounds the overlapping loads of a code
          RegistrationWork, \* what they run and for which emails: a behaviour
                            \* has one of these
          NoEmail        \* an unset local

RegistrationOp == {"start", "verify", "complete", "startBootstrap",
                   "completeBootstrap"}

ASSUME RegistrationAssumption ==
  /\ {MaxCodes, CodeLimit, AttemptLimit, MaxRaced} \subseteq Nat
  /\ RegistrationWork \subseteq
       [operations : SUBSET RegistrationOp, emails : SUBSET Email]
  /\ NoEmail \notin Email \cup Challenge

VARIABLES runs,      \* the work of the behaviour, fixed
          account,   \* the emails that have an account
          admins,    \* those of them that are active super admins
          code,      \* email_verifications, in order of creation
          challenge, \* admin_bootstrap_challenges
          registrant,\* the local state of each request
          guesses,   \* history: wrong guesses answered, for each code
          passes,    \* history: signups that each code let through
          raced      \* history: for each code, how often it was loaded while
                     \* another request was to save it

accountRowVars == <<account, admins>>
codeHistory == <<guesses, passes, raced>>
registrationVars == <<runs, accountRowVars, code, challenge, registrant, codeHistory>>

CodeRow == 1..MaxCodes

(* age: a code is valid for CODE_TTL_MS, and then still counts against its *)
(* email's limit until it is older than EMAIL_WINDOW_MS.                   *)
Code == [email : Email \cup {NoEmail}, attempts : 0..AttemptLimit,
         consumed : BOOLEAN, age : {"valid", "expired", "old"}]

NoCode == [email |-> NoEmail, attempts |-> 0, consumed |-> FALSE, age |-> "valid"]

ChallengeRow == [email : Email \cup {NoEmail},
                 status : {"none", "open", "consumed", "expired"}]

(* entity is the code as the request wants to save it; overtaken: another  *)
(* bootstrap ended since this one's check.                                 *)
RegistrantState ==
  [pc : {"idle", "insert", "find", "select", "commit", "create", "challenge",
         "lookup", "bootstrap"},
   op : RegistrationOp, email : Email \cup {NoEmail}, row : 0..MaxCodes,
   attempts : 0..AttemptLimit, consumed : BOOLEAN,
   columns : SUBSET {"attempts", "consumed"},
   challenge : Challenge \cup {NoEmail}, overtaken : BOOLEAN]

NoRegistrant ==
  [pc |-> "idle", op |-> "start", email |-> NoEmail, row |-> 0, attempts |-> 0,
   consumed |-> FALSE, columns |-> {}, challenge |-> NoEmail, overtaken |-> FALSE]

-----------------------------------------------------------------------------
Sent(e) == {r \in CodeRow : code[r].email = e}

(* The newest code of e that is not consumed.                              *)
Latest(e) == {r \in Sent(e) : /\ ~code[r].consumed
                              /\ \A q \in Sent(e) : q > r => code[q].consumed}

Saving(h, r) == registrant[h].pc \in {"select", "commit"} /\ registrant[h].row = r

Go(h, state) == registrant' = [registrant EXCEPT ![h] = state]

Enter(h, op, state) == /\ registrant[h].pc = "idle"
                       /\ op \in runs.operations
                       /\ state.email \in runs.emails \cup {NoEmail}
                       /\ Go(h, [state EXCEPT !.op = op])

-----------------------------------------------------------------------------
(* start: the email is free and the codes of the last EMAIL_WINDOW_MS have *)
(* not reached the limit; the code is inserted later and sent by mail.     *)
StartSignup(h, e) ==
  /\ e \notin account
  /\ Cardinality({r \in Sent(e) : code[r].age # "old"}) < CodeLimit
  /\ Enter(h, "start", [NoRegistrant EXCEPT !.pc = "insert", !.email = e])
  /\ UNCHANGED <<runs, accountRowVars, code, challenge, codeHistory>>

InsertCode(h) ==
  /\ registrant[h].pc = "insert"
  /\ \E r \in CodeRow :
       /\ code[r] = NoCode
       /\ \A q \in CodeRow : q < r => code[q] # NoCode
       /\ code' = [code EXCEPT ![r] = [NoCode EXCEPT !.email = registrant[h].email]]
  /\ Go(h, NoRegistrant)
  /\ UNCHANGED <<runs, accountRowVars, challenge, codeHistory>>

(* verifyCode, or complete if neither email nor login id has an account.   *)
EnterCode(h, e, op) ==
  /\ op = "complete" => e \notin account
  /\ Enter(h, op, [NoRegistrant EXCEPT !.pc = "find", !.email = e])
  /\ UNCHANGED <<runs, accountRowVars, code, challenge, codeHistory>>

(* Mutant of Exhausted: one guess too many.                                *)
ExhaustedLate(r) == code[r].attempts > AttemptLimit

Exhausted(r) == code[r].attempts >= AttemptLimit

(* findValidVerification: no valid code, too many attempts, a wrong guess  *)
(* or a right one.  verifyCode is done with a right guess and saves none.  *)
FindCode(h, right) ==
  LET e == registrant[h].email
      saves == ~(right /\ registrant[h].op = "verify")
  IN
  /\ registrant[h].pc = "find"
  /\ IF saves /\ \E r \in Latest(e) : code[r].age = "valid" /\ ~Exhausted(r)
     THEN \E r \in Latest(e) :
            /\ Go(h, [registrant[h] EXCEPT
                        !.pc = "select", !.row = r,
                        !.attempts = code[r].attempts + IF right THEN 0 ELSE 1,
                        !.consumed = right])
            /\ IF \E g \in Registrant \ {h} : Saving(g, r)
               THEN raced[r] < MaxRaced /\ raced' = [raced EXCEPT ![r] = @ + 1]
               ELSE UNCHANGED raced
     ELSE Go(h, NoRegistrant) /\ UNCHANGED raced
  /\ UNCHANGED <<runs, accountRowVars, code, challenge, guesses, passes>>

(* save, first statement; the time of a consumption always differs.        *)
SelectCode(h) ==
  LET c == registrant[h] IN
  /\ c.pc = "select"
  /\ Go(h, [c EXCEPT !.pc = "commit",
       !.columns = (IF c.attempts # code[c.row].attempts THEN {"attempts"} ELSE {})
                   \cup (IF c.consumed \/ code[c.row].consumed
                         THEN {"consumed"} ELSE {})])
  /\ UNCHANGED <<runs, accountRowVars, code, challenge, codeHistory>>

(* Mutant of WriteCode: a right guess is not consumed.                     *)
WriteCodeNot(h) ==
  LET c == registrant[h]
      r == c.row
  IN
  /\ c.pc = "commit"
  /\ code' = [code EXCEPT
       ![r].attempts = IF "attempts" \in c.columns THEN c.attempts ELSE @]
  /\ guesses' = [guesses EXCEPT ![r] = @ + IF c.consumed THEN 0 ELSE 1]
  /\ passes' = [passes EXCEPT ![r] = @ + IF c.consumed THEN 1 ELSE 0]
  /\ Go(h, IF c.consumed THEN [c EXCEPT !.pc = "create"] ELSE NoRegistrant)
  /\ UNCHANGED <<runs, accountRowVars, challenge, raced>>

(* Mutant of WriteCode: a wrong guess is not counted.                      *)
WriteCodeUncounted(h) ==
  LET c == registrant[h]
      r == c.row
  IN
  /\ c.pc = "commit"
  /\ code' = [code EXCEPT
       ![r].consumed = IF "consumed" \in c.columns THEN c.consumed ELSE @]
  /\ guesses' = [guesses EXCEPT ![r] = @ + IF c.consumed THEN 0 ELSE 1]
  /\ passes' = [passes EXCEPT ![r] = @ + IF c.consumed THEN 1 ELSE 0]
  /\ Go(h, IF c.consumed THEN [c EXCEPT !.pc = "create"] ELSE NoRegistrant)
  /\ UNCHANGED <<runs, accountRowVars, challenge, raced>>

(* save's UPDATE.  A wrong guess is answered now, a right one goes on.     *)
WriteCode(h) ==
  LET c == registrant[h]
      r == c.row
  IN
  /\ c.pc = "commit"
  /\ code' = [code EXCEPT
       ![r].attempts = IF "attempts" \in c.columns THEN c.attempts ELSE @,
       ![r].consumed = IF "consumed" \in c.columns THEN c.consumed ELSE @]
  /\ guesses' = [guesses EXCEPT ![r] = @ + IF c.consumed THEN 0 ELSE 1]
  /\ passes' = [passes EXCEPT ![r] = @ + IF c.consumed THEN 1 ELSE 0]
  /\ Go(h, IF c.consumed THEN [c EXCEPT !.pc = "create"] ELSE NoRegistrant)
  /\ UNCHANGED <<runs, accountRowVars, challenge, raced>>

(* accounts.create; if the email is taken by now, the code stays spent.    *)
CreateAccount(h) ==
  /\ registrant[h].pc = "create"
  /\ account' = account \cup {registrant[h].email}
  /\ Go(h, NoRegistrant)
  /\ UNCHANGED <<runs, admins, code, challenge, codeHistory>>

-----------------------------------------------------------------------------
(* Mutant of BootstrapOpen: assertBootstrapAvailable is left out.          *)
BootstrapOpenAlways == TRUE

BootstrapOpen == admins = {}

(* startBootstrap.                                                         *)
StartBootstrap(h, c, e) ==
  /\ BootstrapOpen
  /\ e \notin account
  /\ Enter(h, "startBootstrap",
           [NoRegistrant EXCEPT !.pc = "challenge", !.email = e, !.challenge = c])
  /\ UNCHANGED <<runs, accountRowVars, code, challenge, codeHistory>>

InsertChallenge(h) ==
  LET c == registrant[h].challenge IN
  /\ registrant[h].pc = "challenge"
  /\ challenge[c].status = "none"
  /\ challenge' = [challenge EXCEPT
       ![c] = [email |-> registrant[h].email, status |-> "open"]]
  /\ Go(h, NoRegistrant)
  /\ UNCHANGED <<runs, accountRowVars, code, codeHistory>>

(* completeBootstrap: the count of super admins.                           *)
CompleteBootstrap(h, c) ==
  /\ BootstrapOpen
  /\ Enter(h, "completeBootstrap",
           [NoRegistrant EXCEPT !.pc = "lookup", !.challenge = c])
  /\ UNCHANGED <<runs, accountRowVars, code, challenge, codeHistory>>

(* The challenge, by a second query, and its one-time password.            *)
FindChallenge(h) ==
  /\ registrant[h].pc = "lookup"
  /\ Go(h, IF challenge[registrant[h].challenge].status = "open"
           THEN [registrant[h] EXCEPT !.pc = "bootstrap"] ELSE NoRegistrant)
  /\ UNCHANGED <<runs, accountRowVars, code, challenge, codeHistory>>

(* Its transaction: the account, its MFA and the consumed challenge.       *)
CommitBootstrap(h) ==
  LET c == registrant[h].challenge
      e == challenge[c].email
  IN
  /\ registrant[h].pc = "bootstrap"
  /\ IF e \in account
     THEN Go(h, NoRegistrant) /\ UNCHANGED <<accountRowVars, challenge>>
     ELSE /\ account' = account \cup {e}
          /\ admins' = admins \cup {e}
          /\ challenge' = [challenge EXCEPT ![c].status = "consumed"]
          /\ registrant' = [g \in Registrant |->
               IF g = h THEN NoRegistrant
               ELSE IF registrant[g].pc \in {"lookup", "bootstrap"}
               THEN [registrant[g] EXCEPT !.overtaken = TRUE] ELSE registrant[g]]
  /\ UNCHANGED <<runs, code, codeHistory>>

-----------------------------------------------------------------------------
(* create by an administrator.                                             *)
AdminCreates(e, super) ==
  /\ admins # {}
  /\ e \in runs.emails \ account
  /\ account' = account \cup {e}
  /\ admins' = IF super THEN admins \cup {e} ELSE admins
  /\ UNCHANGED <<runs, code, challenge, registrant, codeHistory>>

(* A super admin is disabled or locked, the last one too: see Accounts.    *)
LoseAdmin(e) ==
  /\ e \in admins
  /\ admins' = admins \ {e}
  /\ UNCHANGED <<runs, account, code, challenge, registrant, codeHistory>>

(* Time passes for a code: it runs out and, later, leaves the window.      *)
AgeCode(r) ==
  /\ code[r] # NoCode
  /\ code[r].age # "old"
  /\ code' = [code EXCEPT ![r].age = IF @ = "valid" THEN "expired" ELSE "old"]
  /\ UNCHANGED <<runs, accountRowVars, challenge, registrant, codeHistory>>

ExpireChallenge(c) ==
  /\ challenge[c].status = "open"
  /\ challenge' = [challenge EXCEPT ![c].status = "expired"]
  /\ UNCHANGED <<runs, accountRowVars, code, registrant, codeHistory>>

RegistrantCrash(h) ==
  /\ registrant[h].pc # "idle"
  /\ Go(h, NoRegistrant)
  /\ UNCHANGED <<runs, accountRowVars, code, challenge, codeHistory>>

RegistrationInit ==
  /\ runs \in RegistrationWork
  /\ account = {}
  /\ admins = {}
  /\ code = [r \in CodeRow |-> NoCode]
  /\ challenge = [c \in Challenge |-> [email |-> NoEmail, status |-> "none"]]
  /\ registrant = [h \in Registrant |-> NoRegistrant]
  /\ guesses = [r \in CodeRow |-> 0]
  /\ passes = [r \in CodeRow |-> 0]
  /\ raced = [r \in CodeRow |-> 0]

RegistrationNext ==
  \/ \E h \in Registrant :
       \/ \E e \in Email : \/ StartSignup(h, e)
                           \/ \E op \in {"verify", "complete"} : EnterCode(h, e, op)
                           \/ \E c \in Challenge : StartBootstrap(h, c, e)
       \/ InsertCode(h)
       \/ \E right \in BOOLEAN : FindCode(h, right)
       \/ SelectCode(h)
       \/ WriteCode(h)
       \/ CreateAccount(h)
       \/ InsertChallenge(h)
       \/ \E c \in Challenge : CompleteBootstrap(h, c)
       \/ FindChallenge(h)
       \/ CommitBootstrap(h)
       \/ RegistrantCrash(h)
  \/ \E e \in Email : LoseAdmin(e) \/ \E super \in BOOLEAN : AdminCreates(e, super)
  \/ \E r \in CodeRow : AgeCode(r)
  \/ \E c \in Challenge : ExpireChallenge(c)

RegistrationSpec ==
  RegistrationInit /\ [][RegistrationNext]_registrationVars

-----------------------------------------------------------------------------
(* Type invariant of the registration.                                     *)
RegistrationTypeOK ==
  /\ runs \in RegistrationWork
  /\ account \subseteq Email
  /\ admins \subseteq account
  /\ code \in [CodeRow -> Code]
  /\ challenge \in [Challenge -> ChallengeRow]
  /\ registrant \in [Registrant -> RegistrantState]
  /\ guesses \in [CodeRow -> Nat]
  /\ passes \in [CodeRow -> Nat]
  /\ raced \in [CodeRow -> 0..MaxRaced]

(* A code is guessed wrongly AttemptLimit times, and once more for each    *)
(* time it was loaded while another request was to save it: saves of the   *)
(* count overwrite each other, and the save of a right guess takes the     *)
(* count back (findValidVerification: "Too many verification attempts").   *)
GuessesBounded == \A r \in CodeRow : guesses[r] <= AttemptLimit + raced[r]

(* A code lets one signup through, and one more at most for each time it   *)
(* was loaded while another request was to save it: the other may be a     *)
(* second consumption, or a wrong guess, whose save takes the consumption  *)
(* back (findValidVerification: consumedAt: IsNull()).                     *)
CodeSpentOnce == \A r \in CodeRow : passes[r] <= 1 + raced[r]

(* A bootstrap makes a super admin where there is one already only if      *)
(* another bootstrap ended since its check ("Bootstrap is closed").        *)
BootstrapOnce ==
  [][\A h \in Registrant :
       registrant[h].pc = "bootstrap" /\ registrant'[h].pc = "idle"
         /\ challenge' # challenge
         /\ admins # {}
         => registrant[h].overtaken]_registrationVars
=============================================================================
