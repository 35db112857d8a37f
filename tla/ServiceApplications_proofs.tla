--------------------- MODULE ServiceApplications_proofs ---------------------
(***************************************************************************)
(* Permissions and applications, with any number of accounts, handlers,    *)
(* definitions and applications: type correctness, what the feed of events *)
(* tells, and what applications, approvals and grants come to.             *)
(***************************************************************************)
EXTENDS ServiceApplications, FiniteSetTheorems, TLAPS

Assigns == {"put", "revoke", "approve"}

(* The locals that are set while a handler runs.                           *)
Held(c) ==
  /\ c.pc # "idle" =>
       /\ c.op \in operations
       /\ c.op \in Assigns \cup {"firstLogin", "apply"} => c.account \in Account
       /\ c.op \in {"put", "approve", "firstLogin", "create", "update", "remove",
                    "migrate"} => c.key \in Key
       /\ c.op = "firstLogin" => c.key \in {Visitor, Superadmin}
       /\ c.op = "approve" => c.application \in Application
       /\ c.op = "migrate" => c.target \in Key \ {c.key}
       /\ c.op = "service" => c.version # 0
  /\ c.pc \in {"lockAll", "move"} => c.op = "migrate"
  /\ c.pc = "ensure" => c.op = "firstLogin" /\ c.key = Superadmin
  /\ c.pc = "select" /\ c.op = "apply" => c.application \in Application

Handlers == \A h \in Handler : call[h] \in Call /\ Held(call[h])

(* A row that does not exist grants nothing, and nobody has it locked.     *)
Rows ==
  \A a \in Account :
    IF Exists(a) THEN assignment[a].key \in Key
    ELSE assignment[a] = NoAssignment /\ holder[a] = None

(* Who applies or approves does so for an assignment that exists, which an *)
(* approval therefore locks.  What h read of a row it has locked is still  *)
(* there; a save that merges does so with a row that h found unlocked.     *)
Reads(h) ==
  LET c == call[h] IN
  /\ c.op \in {"apply", "approve"} /\ c.pc # "idle" => Exists(c.account)
  /\ c.op = "approve" /\ c.pc \in {"read", "select", "commit"} => Locked(h)
  /\ c.op \in Assigns /\ c.pc \in {"select", "commit"} =>
       /\ c.row # NoAssignment => Exists(c.account)
       /\ c.op # "put" => c.row.status = "active" /\ c.row.key \in Key
       /\ c.op = "approve" => Rank[c.row.key] < Rank[c.key]
       /\ c.pc = "select" => ~Locked(h) /\ c.row # NoAssignment
       /\ c.pc = "commit" =>
            /\ Locked(h) \/ c.row = NoAssignment => c.columns = {"status", "key"}
            /\ Locked(h) => c.row = assignment[c.account]

(* A handler that has found no pending application and will insert one.    *)
Inserting(a) == {h \in Handler : /\ call[h].pc = "commit"
                                 /\ call[h].op = "apply"
                                 /\ call[h].account = a
                                 /\ call[h].application = None}

Applications ==
  /\ \A p \in Application :
       application[p].status # "none"
         => application[p].account \in Account /\ Exists(application[p].account)
  /\ \A h \in Handler :
       call[h].pc # "idle" /\ call[h].application # None
         => /\ application[call[h].application].status # "none"
            /\ application[call[h].application].account = call[h].account
  /\ \A a \in Account : IsFiniteSet(Pending(a))
  /\ \A a \in Account \ doubled :
       /\ \A p, q \in Pending(a) : p = q
       /\ \A g, h \in Inserting(a) : g = h
       /\ Inserting(a) # {} => Pending(a) = {}

(* What a step of h leaves alone: the others, their locks and the rows     *)
(* they hold, and that an assignment exists.                               *)
Respects(h) ==
  /\ operations' = operations
  /\ \A a \in Account : Exists(a) => Exists(a)'
  /\ \A g \in Handler \ {h} :
       /\ call'[g] = call[g]
       /\ \A a \in Account :
            /\ holder'[a] = g <=> holder[a] = g
            /\ holder[a] = g => assignment'[a] = assignment[a]

PermissionInv ==
  /\ TypeOK
  /\ Handlers
  /\ Rows
  /\ \A h \in Handler : Reads(h)
  /\ Applications

LEMMA NoCallType == NoCall \in Call /\ Held(NoCall) /\ NoCall.pc = "idle"
BY VersionAssumption
DEF NoCall, Call, Op, DefinitionStatus, NoAssignment, Assignment, Held

(* The row that h wants.                                                   *)
LEMMA WantedIs ==
  ASSUME NEW h \in Handler, call[h] \in Call
  PROVE  /\ call[h].op # "revoke"
              => /\ Wanted(h) = [status |-> "active", key |-> call[h].key]
                 /\ GrantIn(Wanted(h)) = call[h].key
         /\ call[h].op = "revoke"
              => /\ Wanted(h).status = "revoked" /\ Wanted(h).key = call[h].row.key
                 /\ GrantIn(Wanted(h)) = None
BY DEF Wanted, GrantIn, Call, Assignment

LEMMA ContinueMoves ==
  ASSUME call \in [Handler -> Call],
         NEW h \in Handler, NEW c \in Call, Continue(h, c)
  PROVE  /\ call' \in [Handler -> Call] /\ call'[h] = c
         /\ \A g \in Handler \ {h} : call'[g] = call[g]
BY DEF Continue

(* h takes locks that are free and gives up its own.                       *)
Locks(h) ==
  /\ holder' \in [Account -> Handler \cup {None}]
  /\ \A a \in Account : \/ holder'[a] = holder[a]
                        \/ holder'[a] \in {h, None} /\ holder[a] \in {h, None}
  /\ \A a \in Account : Exists(a) \/ holder'[a] \in {holder[a], None}

LEMMA OwnLocks ==
  ASSUME PermissionTypeOK, NEW h \in Handler,
         holder' = holder \/ holder' = Unlocked(h)
  PROVE  Locks(h)
<1>1. holder \in [Account -> Handler \cup {None}]
  BY DEF PermissionTypeOK
<1>2. \A a \in Account :
        \/ holder'[a] = holder[a]
        \/ holder'[a] = None /\ holder[a] = h
  BY <1>1 DEF Unlocked
<1>3. holder' \in [Account -> Handler \cup {None}]
  <2>1. Unlocked(h) \in [Account -> Handler \cup {None}]
    BY <1>1 DEF Unlocked
  <2> QED
    BY <1>1, <2>1
<1> QED
  BY <1>2, <1>3 DEF Locks

(* A step that leaves assignments alone.                                   *)
LEMMA ContinueRespects ==
  ASSUME call \in [Handler -> Call],
         NEW h \in Handler, NEW c \in Call, Continue(h, c),
         UNCHANGED <<assignment, fixedVars>>, Locks(h)
  PROVE  Respects(h)
<1>1. \A g \in Handler \ {h} : call'[g] = call[g]
  BY ContinueMoves
<1>2. ASSUME NEW g \in Handler \ {h}, NEW a \in Account
      PROVE  holder'[a] = g <=> holder[a] = g
  BY NoneAssumption DEF Locks
<1>3. \A a \in Account : Exists(a) => Exists(a)'
  BY DEF Exists
<1> QED
  BY <1>1, <1>2, <1>3 DEF Respects, fixedVars

LEMMA OthersKeep ==
  ASSUME TypeOK, Handlers, NEW h \in Handler, Respects(h),
         NEW g \in Handler \ {h}, Reads(g)
  PROVE  Held(call[g])' /\ Reads(g)'
<1>1. call[g] \in Call /\ Held(call[g]) /\ call'[g] = call[g]
  BY DEF Handlers, Respects
<1>2. Held(call[g])'
  BY <1>1 DEF Held, Respects
<1>3. call[g].op \in Assigns \cup {"apply"} /\ call[g].pc # "idle"
        => call[g].account \in Account
  BY <1>1 DEF Held
<1>4. call[g].account \in Account
        => /\ Exists(call[g].account) => Exists(call[g].account)'
           /\ Locked(g)' <=> Locked(g)
           /\ Locked(g) => assignment'[call[g].account] = assignment[call[g].account]
  BY <1>1 DEF Respects, Locked
<1>5. Reads(g)'
  BY <1>1, <1>3, <1>4 DEF Reads, Assigns
<1> QED
  BY <1>2, <1>5

(* What every step of h comes to, but for the applications.                *)
Keeps(h) ==
  /\ Respects(h)
  /\ PermissionTypeOK'
  /\ Held(call[h])'
  /\ Rows'
  /\ Reads(h)'
  /\ FeedTellsGrants'

(* It has nothing to do with an application, or goes on with the one that  *)
(* it found.                                                               *)
Apart(h) ==
  LET c == call'[h] IN
  /\ \/ c.pc = "idle"
     \/ c.application = None
     \/ /\ call[h].pc # "idle"
        /\ c.application = call[h].application
        /\ c.account = call[h].account
  /\ c.pc = "commit" /\ c.op = "apply" => c.application # None

LEMMA CalmKeeps ==
  ASSUME PermissionInv, FeedTellsGrants, NEW h \in Handler, NEW c \in Call,
         Held(c), Continue(h, c), version' \in 1..MaxVersion,
         UNCHANGED <<definition, assignment, fixedVars, feedVars>>,
         Locks(h), Reads(h)'
  PROVE  Keeps(h)
<1>1. call \in [Handler -> Call] /\ PermissionTypeOK
  BY DEF PermissionInv, TypeOK, PermissionTypeOK
<1>2. call' \in [Handler -> Call] /\ call'[h] = c
  BY <1>1, ContinueMoves
<1>3. Respects(h)
  BY <1>1, ContinueRespects
<1>4. PermissionTypeOK'
  BY <1>1, <1>2 DEF PermissionTypeOK, fixedVars, feedVars, Locks
<1>5. Rows'
  BY DEF PermissionInv, Rows, Exists, Locks
<1>6. FeedTellsGrants'
  BY DEF FeedTellsGrants, Granted, GrantIn, feedVars, fixedVars
<1>7. Held(call[h])'
  BY <1>2 DEF Held, fixedVars
<1> QED
  BY <1>3, <1>4, <1>5, <1>6, <1>7 DEF Keeps

(* A handler that starts, or gets to a step where it has not read a row.   *)
LEMMA BareKeeps ==
  ASSUME PermissionInv, FeedTellsGrants, NEW h \in Handler, NEW c \in Call,
         Held(c), Continue(h, c), version' \in 1..MaxVersion,
         UNCHANGED <<definition, assignment, fixedVars, feedVars>>,
         Locks(h),
         c.pc \notin {"select", "commit"} \/ c.op = "apply",
         c.op = "approve" => c.pc # "read",
         c.op \in {"apply", "approve"} /\ c.pc # "idle" => Exists(c.account)
  PROVE  Keeps(h)
<1>1. call'[h] = c
  BY ContinueMoves DEF PermissionInv, TypeOK, PermissionTypeOK
<1>2. Reads(h)'
  BY <1>1 DEF Reads, Assigns, Exists
<1> QED
  BY <1>2, CalmKeeps

LEMMA StartKeeps ==
  ASSUME PermissionInv, FeedTellsGrants, NEW h \in Handler, NEW c \in Call,
         Held(c), Continue(h, c), c.pc \notin {"read", "select", "commit"},
         c.op \in {"apply", "approve"} /\ c.pc # "idle" => Exists(c.account),
         UNCHANGED <<dataVars, holder, fixedVars, feedVars>>
  PROVE  Keeps(h)
<1>1. Locks(h)
  BY OwnLocks DEF PermissionInv, TypeOK
<1> QED
  BY <1>1, BareKeeps DEF PermissionInv, TypeOK, PermissionTypeOK, dataVars

LEMMA StopKeeps ==
  ASSUME PermissionInv, FeedTellsGrants, NEW h \in Handler, Stop(h)
  PROVE  Keeps(h) /\ Apart(h) /\ call'[h] = NoCall
<1>1. Locks(h) /\ call \in [Handler -> Call]
  BY OwnLocks DEF PermissionInv, TypeOK, PermissionTypeOK, Stop
<1>2. /\ NoCall \in Call /\ Held(NoCall) /\ Continue(h, NoCall)
      /\ NoCall.pc = "idle"
      /\ UNCHANGED <<definition, assignment, fixedVars, feedVars>>
      /\ version' \in 1..MaxVersion
  BY NoCallType DEF Stop, dataVars, PermissionInv, TypeOK, PermissionTypeOK
<1>3. Keeps(h)
  BY <1>1, <1>2, BareKeeps
<1> QED
  BY <1>1, <1>2, <1>3, ContinueMoves DEF Apart

-----------------------------------------------------------------------------
(* The handlers as they start.                                             *)
LEMMA PutCheckKeeps ==
  ASSUME PermissionInv, FeedTellsGrants, NEW h \in Handler,
         NEW a \in Account, NEW k \in Key, PutCheck(h, a, k)
  PROVE  Keeps(h) /\ Apart(h)
<1>1. PICK c : c = [[NoCall EXCEPT !.pc = "lock", !.account = a, !.key = k]
                      EXCEPT !.op = "put"]
  OBVIOUS
<1>2. /\ c \in Call /\ c.pc = "lock" /\ c.op = "put" /\ c.account = a
      /\ c.key = k /\ c.application = None
  BY <1>1, NoCallType DEF Call, NoCall, Op
<1>3. Continue(h, c) /\ "put" \in operations /\ definition[k] = "active"
      /\ UNCHANGED <<dataVars, holder, fixedVars, feedVars>>
  BY <1>1 DEF PutCheck, Start
<1>4. Held(c)
  BY <1>2, <1>3 DEF Held, Assigns
<1> QED
  BY <1>2, <1>3, <1>4, StartKeeps, ContinueMoves
  DEF Apart, PermissionInv, TypeOK, PermissionTypeOK

LEMMA RevokeStartKeeps ==
  ASSUME PermissionInv, FeedTellsGrants, NEW h \in Handler,
         NEW a \in Account, RevokeStart(h, a)
  PROVE  Keeps(h) /\ Apart(h)
<1>1. PICK c : c = [[NoCall EXCEPT !.pc = "lock", !.account = a]
                      EXCEPT !.op = "revoke"]
  OBVIOUS
<1>2. /\ c \in Call /\ c.pc = "lock" /\ c.op = "revoke" /\ c.account = a
      /\ c.application = None
  BY <1>1, NoCallType DEF Call, NoCall, Op
<1>3. Continue(h, c) /\ "revoke" \in operations /\ UNCHANGED <<dataVars, holder, fixedVars, feedVars>>
  BY <1>1 DEF RevokeStart, Start
<1>4. Held(c)
  BY <1>2, <1>3 DEF Held, Assigns
<1> QED
  BY <1>2, <1>3, <1>4, StartKeeps, ContinueMoves
  DEF Apart, PermissionInv, TypeOK, PermissionTypeOK

LEMMA FirstLoginFindKeeps ==
  ASSUME PermissionInv, FeedTellsGrants, NEW h \in Handler,
         NEW a \in Account, FirstLoginFind(h, a)
  PROVE  Keeps(h) /\ Apart(h)
<1>1. PICK k : k = IF a \in superAdmin THEN Superadmin ELSE Visitor
  OBVIOUS
<1>2. PICK pc : pc = IF definition[k] = "active" THEN "insert" ELSE "ensure"
  OBVIOUS
<1>3. PICK c : c = [[NoCall EXCEPT !.account = a, !.key = k, !.pc = pc]
                      EXCEPT !.op = "firstLogin"]
  OBVIOUS
<1>4. k \in Key /\ k \in {Visitor, Superadmin} /\ pc \in {"insert", "ensure"}
  BY <1>1, <1>2, KeyAssumption
<1>5. /\ c \in Call /\ c.pc = pc /\ c.op = "firstLogin" /\ c.account = a
      /\ c.key = k /\ c.application = None
  BY <1>3, <1>4, NoCallType DEF Call, NoCall, Op
<1>6. /\ Continue(h, c) /\ "firstLogin" \in operations /\ UNCHANGED <<dataVars, holder, fixedVars, feedVars>>
      /\ k = Visitor => definition[k] = "active"
  BY <1>1, <1>2, <1>3 DEF FirstLoginFind, Start
<1>7. pc = "ensure" => k = Superadmin
  BY <1>1, <1>2, <1>6
<1>8. Held(c)
  BY <1>4, <1>5, <1>7, <1>6 DEF Held, Assigns
<1> QED
  BY <1>2, <1>4, <1>5, <1>6, <1>8, StartKeeps, ContinueMoves
  DEF Apart, PermissionInv, TypeOK, PermissionTypeOK

LEMMA CreateFindKeeps ==
  ASSUME PermissionInv, FeedTellsGrants, NEW h \in Handler,
         NEW k \in Key, CreateFind(h, k)
  PROVE  Keeps(h) /\ Apart(h)
<1>1. PICK c : c = [[NoCall EXCEPT !.pc = "insert", !.key = k]
                      EXCEPT !.op = "create"]
  OBVIOUS
<1>2. /\ c \in Call /\ c.pc = "insert" /\ c.op = "create" /\ c.key = k
      /\ c.application = None
  BY <1>1, NoCallType DEF Call, NoCall, Op
<1>3. Continue(h, c) /\ "create" \in operations /\ UNCHANGED <<dataVars, holder, fixedVars, feedVars>>
  BY <1>1 DEF CreateFind, Start
<1>4. Held(c)
  BY <1>2, <1>3 DEF Held, Assigns
<1> QED
  BY <1>2, <1>3, <1>4, StartKeeps, ContinueMoves
  DEF Apart, PermissionInv, TypeOK, PermissionTypeOK

LEMMA UpdateFindKeeps ==
  ASSUME PermissionInv, FeedTellsGrants, NEW h \in Handler,
         NEW k \in Key, NEW s \in DefinitionStatus, UpdateFind(h, k, s)
  PROVE  Keeps(h) /\ Apart(h)
<1>1. PICK c : c = [[NoCall EXCEPT !.pc = "save", !.key = k, !.status = s]
                      EXCEPT !.op = "update"]
  OBVIOUS
<1>2. /\ c \in Call /\ c.pc = "save" /\ c.op = "update" /\ c.key = k
      /\ c.status = s /\ c.application = None
  BY <1>1, NoCallType DEF Call, NoCall, Op
<1>3. /\ Continue(h, c) /\ "update" \in operations /\ UNCHANGED <<dataVars, holder, fixedVars, feedVars>>
      /\ s = "removed" => definition[k] = "removed"
  BY <1>1 DEF UpdateFind, Start
<1>4. Held(c)
  BY <1>2, <1>3 DEF Held, Assigns
<1> QED
  BY <1>2, <1>3, <1>4, StartKeeps, ContinueMoves
  DEF Apart, PermissionInv, TypeOK, PermissionTypeOK

LEMMA RemoveCountKeeps ==
  ASSUME PermissionInv, FeedTellsGrants, NEW h \in Handler,
         NEW k \in Key, RemoveCount(h, k)
  PROVE  Keeps(h) /\ Apart(h)
<1>1. PICK c : c = [[NoCall EXCEPT !.pc = "save", !.key = k, !.status = "removed"]
                      EXCEPT !.op = "remove"]
  OBVIOUS
<1>2. /\ c \in Call /\ c.pc = "save" /\ c.op = "remove" /\ c.key = k
      /\ c.application = None
  BY <1>1, NoCallType DEF Call, NoCall, Op, DefinitionStatus
<1>3. /\ Continue(h, c) /\ "remove" \in operations /\ UNCHANGED <<dataVars, holder, fixedVars, feedVars>>
      /\ Assigned(k) = {}
  BY <1>1 DEF RemoveCount, Start
<1>4. Held(c)
  BY <1>2, <1>3 DEF Held, Assigns
<1> QED
  BY <1>2, <1>3, <1>4, StartKeeps, ContinueMoves
  DEF Apart, PermissionInv, TypeOK, PermissionTypeOK

LEMMA ServiceFindKeeps ==
  ASSUME PermissionInv, FeedTellsGrants, NEW h \in Handler, ServiceFind(h)
  PROVE  Keeps(h) /\ Apart(h)
<1>1. PICK c : c = [[NoCall EXCEPT !.pc = "save", !.version = version]
                      EXCEPT !.op = "service"]
  OBVIOUS
<1>2. version \in 1..MaxVersion /\ version \in 0..MaxVersion /\ version # 0
  BY VersionAssumption DEF PermissionInv, TypeOK, PermissionTypeOK
<1>3. /\ c \in Call /\ c.pc = "save" /\ c.op = "service" /\ c.version = version
      /\ c.application = None
  BY <1>1, <1>2, NoCallType DEF Call, NoCall, Op
<1>4. Continue(h, c) /\ "service" \in operations /\ UNCHANGED <<dataVars, holder, fixedVars, feedVars>>
  BY <1>1 DEF ServiceFind, Start
<1>5. Held(c)
  BY <1>2, <1>3, <1>4 DEF Held, Assigns
<1> QED
  BY <1>3, <1>4, <1>5, StartKeeps, ContinueMoves
  DEF Apart, PermissionInv, TypeOK, PermissionTypeOK

LEMMA MigrateCheckKeeps ==
  ASSUME PermissionInv, FeedTellsGrants, NEW h \in Handler,
         NEW k \in Key, NEW t \in Key, MigrateCheck(h, k, t)
  PROVE  Keeps(h) /\ Apart(h)
<1>1. PICK c : c = [[NoCall EXCEPT !.pc = "lockAll", !.key = k, !.target = t]
                      EXCEPT !.op = "migrate"]
  OBVIOUS
<1>2. /\ c \in Call /\ c.pc = "lockAll" /\ c.op = "migrate" /\ c.key = k
      /\ c.target = t /\ c.application = None
  BY <1>1, NoCallType DEF Call, NoCall, Op
<1>3. /\ Continue(h, c) /\ "migrate" \in operations /\ UNCHANGED <<dataVars, holder, fixedVars, feedVars>>
      /\ k # t /\ definition[t] = "active"
  BY <1>1 DEF MigrateCheck, Start
<1>4. Held(c)
  BY <1>2, <1>3 DEF Held, Assigns
<1> QED
  BY <1>2, <1>3, <1>4, StartKeeps, ContinueMoves
  DEF Apart, PermissionInv, TypeOK, PermissionTypeOK

-----------------------------------------------------------------------------
(* The steps within an assignment, and those that change no row.           *)
LEMMA LockRowKeeps ==
  ASSUME PermissionInv, FeedTellsGrants, NEW h \in Handler, LockRow(h)
  PROVE  Keeps(h) /\ Apart(h)
<1>1. PICK c : c = [call[h] EXCEPT !.pc = "read"]
  OBVIOUS
<1>2. /\ call \in [Handler -> Call] /\ call[h] \in Call /\ Held(call[h])
      /\ holder \in [Account -> Handler \cup {None}]
      /\ version \in 1..MaxVersion
  BY DEF PermissionInv, Handlers, TypeOK, PermissionTypeOK
<1>3. /\ c \in Call /\ c.pc = "read" /\ c.op = call[h].op
      /\ c.account = call[h].account /\ c.key = call[h].key
      /\ c.target = call[h].target
      /\ c.application = call[h].application /\ c.version = call[h].version
  BY <1>1, <1>2 DEF Call
<1>4. /\ call[h].pc = "lock" /\ Continue(h, c)
      /\ UNCHANGED <<definition, assignment, fixedVars, feedVars>>
      /\ version' \in 1..MaxVersion
  BY <1>1, <1>2 DEF LockRow, dataVars
<1>5. Locks(h)
  <2>1. PICK a : a = call[h].account
    OBVIOUS
  <2>2. /\ Exists(a) => holder[a] = None /\ holder' = [holder EXCEPT ![a] = h]
        /\ ~Exists(a) => holder' = holder
    BY <2>1 DEF LockRow
  <2>3. holder' \in [Account -> Handler \cup {None}]
    BY <1>2, <2>2
  <2>4. ASSUME NEW b \in Account
        PROVE  \/ holder'[b] = holder[b]
               \/ holder'[b] = h /\ holder[b] = None /\ Exists(b)
    BY <1>2, <2>2
  <2> QED
    BY <2>3, <2>4 DEF Locks
<1>6. Held(c)
  BY <1>2, <1>3, <1>4 DEF Held
<1>7. call'[h] = c
  BY <1>2, <1>3, <1>4, ContinueMoves
<1>8. Reads(h)'
  <2>1. c.op \in {"apply", "approve"} => Exists(c.account)
    BY <1>3, <1>4 DEF PermissionInv, Reads
  <2>2. ASSUME c.op = "approve" PROVE Locked(h)'
    <3>1. c.account \in Account /\ Exists(c.account)
      BY <1>2, <1>3, <1>4, <2>1, <2>2 DEF Held, Assigns
    <3>2. holder'[c.account] = h
      BY <1>2, <1>3, <3>1 DEF LockRow
    <3> QED
      BY <1>7, <3>1, <3>2, NoneAssumption DEF Locked
  <2> QED
    BY <1>3, <1>4, <1>7, <2>1, <2>2 DEF Reads, Exists
<1>9. Keeps(h)
  BY <1>3, <1>4, <1>5, <1>6, <1>8, CalmKeeps
<1> QED
  BY <1>2, <1>3, <1>4, <1>7, <1>9 DEF Apart

LEMMA MigrateLockKeeps ==
  ASSUME PermissionInv, FeedTellsGrants, NEW h \in Handler, MigrateLock(h)
  PROVE  Keeps(h) /\ Apart(h)
<1>1. PICK c : c = [call[h] EXCEPT !.pc = "find"]
  OBVIOUS
<1>2. /\ call \in [Handler -> Call] /\ call[h] \in Call /\ Held(call[h])
      /\ holder \in [Account -> Handler \cup {None}]
      /\ version \in 1..MaxVersion
  BY DEF PermissionInv, Handlers, TypeOK, PermissionTypeOK
<1>3. /\ c \in Call /\ c.pc = "find" /\ c.op = call[h].op
      /\ c.account = call[h].account /\ c.key = call[h].key
      /\ c.target = call[h].target
      /\ c.application = call[h].application /\ c.version = call[h].version
  BY <1>1, <1>2 DEF Call
<1>4. /\ call[h].pc = "lockAll" /\ Continue(h, c)
      /\ UNCHANGED <<definition, assignment, fixedVars, feedVars>>
      /\ version' \in 1..MaxVersion
  BY <1>1, <1>2 DEF MigrateLock, dataVars
<1>5. Locks(h)
  <2>1. PICK rows : rows = Assigned(call[h].key)
    OBVIOUS
  <2>2. /\ \A a \in rows : holder[a] = None
        /\ holder' = [a \in Account |-> IF a \in rows THEN h ELSE holder[a]]
    BY <2>1 DEF MigrateLock
  <2>3. holder' \in [Account -> Handler \cup {None}]
    BY <1>2, <2>2
  <2>4. ASSUME NEW b \in Account
        PROVE  \/ holder'[b] = holder[b]
               \/ holder'[b] = h /\ holder[b] = None /\ Exists(b)
    BY <2>1, <2>2 DEF Assigned, Exists
  <2> QED
    BY <2>3, <2>4 DEF Locks
<1>6. Held(c)
  BY <1>2, <1>3, <1>4 DEF Held
<1>7. c.op = "migrate"
  BY <1>2, <1>3, <1>4 DEF Held
<1>8. Keeps(h)
  BY <1>3, <1>4, <1>5, <1>6, <1>7, BareKeeps
<1> QED
  BY <1>2, <1>3, <1>4, <1>8, ContinueMoves DEF Apart

LEMMA MigrateFindKeeps ==
  ASSUME PermissionInv, FeedTellsGrants, NEW h \in Handler, MigrateFind(h)
  PROVE  Keeps(h) /\ Apart(h)
<1>1. PICK F : F = Assigned(call[h].key)
  OBVIOUS
<1>2. PICK c : c = [call[h] EXCEPT !.pc = "move", !.found = F]
  OBVIOUS
<1>3. /\ call \in [Handler -> Call] /\ call[h] \in Call /\ Held(call[h])
      /\ holder \in [Account -> Handler \cup {None}]
      /\ version \in 1..MaxVersion /\ F \in SUBSET Account
  BY <1>1 DEF PermissionInv, Handlers, TypeOK, PermissionTypeOK, Assigned
<1>4. /\ c \in Call /\ c.pc = "move" /\ c.op = call[h].op
      /\ c.account = call[h].account /\ c.key = call[h].key
      /\ c.target = call[h].target
      /\ c.application = call[h].application /\ c.version = call[h].version
  BY <1>2, <1>3 DEF Call
<1>5. /\ call[h].pc = "find" /\ call[h].op = "migrate" /\ Continue(h, c)
      /\ UNCHANGED <<definition, assignment, holder, fixedVars, feedVars>>
      /\ version' \in 1..MaxVersion
  BY <1>1, <1>2, <1>3 DEF MigrateFind, dataVars
<1>6. Held(c)
  BY <1>3, <1>4, <1>5 DEF Held
<1>7. Locks(h)
  BY <1>5, OwnLocks DEF PermissionInv, TypeOK
<1>8. Keeps(h)
  BY <1>3, <1>4, <1>5, <1>6, <1>7, BareKeeps
<1> QED
  BY <1>3, <1>4, <1>5, <1>8, ContinueMoves DEF Apart

LEMMA ReadKeeps ==
  ASSUME PermissionInv, FeedTellsGrants, NEW h \in Handler,
         call[h].pc = "read", call[h].op \in Assigns,
         ReadAs(h, call[h].account),
         call[h].op # "put" => assignment[call[h].account].status = "active",
         call[h].op = "approve"
           => Rank[assignment[call[h].account].key] < Rank[call[h].key],
         UNCHANGED <<dataVars, holder, fixedVars, feedVars>>
  PROVE  Keeps(h) /\ Apart(h)
<1>1. PICK row : row = assignment[call[h].account]
  OBVIOUS
<1>2. PICK pc : pc = IF Exists(call[h].account) /\ ~Locked(h)
                     THEN "select" ELSE "commit"
  OBVIOUS
<1>3. PICK c : c = [call[h] EXCEPT !.pc = pc, !.row = row,
                                   !.columns = {"status", "key"}]
  OBVIOUS
<1>4. /\ call \in [Handler -> Call] /\ call[h] \in Call /\ Held(call[h])
      /\ holder \in [Account -> Handler \cup {None}]
      /\ assignment \in [Account -> Assignment]
      /\ version \in 1..MaxVersion /\ version' \in 1..MaxVersion
  BY DEF PermissionInv, Handlers, TypeOK, PermissionTypeOK, dataVars
<1>5. call[h].account \in Account
  BY <1>4 DEF Held
<1>6. /\ c \in Call /\ c.pc = pc /\ c.op = call[h].op /\ c.row = row
      /\ c.columns = {"status", "key"}
      /\ c.account = call[h].account /\ c.key = call[h].key
      /\ c.target = call[h].target
      /\ c.application = call[h].application /\ c.version = call[h].version
      /\ pc \in {"select", "commit"}
  BY <1>1, <1>2, <1>3, <1>4, <1>5 DEF Call
<1>7. Continue(h, c)
  BY <1>1, <1>2, <1>3 DEF ReadAs
<1>8. Held(c)
  BY <1>4, <1>6 DEF Held, Assigns
<1>9. call'[h] = c
  BY <1>4, <1>6, <1>7, ContinueMoves
<1>10. Locked(h)' <=> Locked(h)
  BY <1>6, <1>9 DEF Locked
<1>11. /\ row # NoAssignment => Exists(call[h].account)
       /\ Exists(call[h].account) => row # NoAssignment /\ row.key \in Key
  BY <1>1, <1>5 DEF PermissionInv, Rows, Exists, NoAssignment
<1>12. Reads(h)'
  <2>1. call[h].op = "approve" => Locked(h) /\ Exists(call[h].account)
    BY DEF PermissionInv, Reads
  <2> QED
    BY <1>1, <1>2, <1>6, <1>9, <1>10, <1>11, <2>1
    DEF Reads, Exists, dataVars, Assigns
<1>13. Locks(h)
  BY OwnLocks DEF PermissionInv, TypeOK
<1>14. Keeps(h)
  BY <1>4, <1>6, <1>7, <1>8, <1>12, <1>13, CalmKeeps DEF dataVars
<1> QED
  BY <1>6, <1>9, <1>14 DEF Apart, Assigns

LEMMA SelectRowKeeps ==
  ASSUME PermissionInv, FeedTellsGrants, NEW h \in Handler, SelectRow(h)
  PROVE  Keeps(h) /\ Apart(h)
<1>1. PICK C : C = {c \in {"status", "key"} :
                      Wanted(h)[c] # assignment[call[h].account][c]}
  OBVIOUS
<1>2. PICK c : c = [call[h] EXCEPT !.pc = "commit", !.columns = C]
  OBVIOUS
<1>3. /\ call \in [Handler -> Call] /\ call[h] \in Call /\ Held(call[h])
      /\ holder \in [Account -> Handler \cup {None}]
      /\ version \in 1..MaxVersion
  BY DEF PermissionInv, Handlers, TypeOK, PermissionTypeOK, dataVars
<1>4. /\ c \in Call /\ c.pc = "commit" /\ c.op = call[h].op
      /\ c.columns = C /\ c.row = call[h].row
      /\ c.account = call[h].account /\ c.key = call[h].key
      /\ c.target = call[h].target
      /\ c.application = call[h].application /\ c.version = call[h].version
  BY <1>1, <1>2, <1>3 DEF Call
<1>5. /\ Continue(h, c) /\ call[h].pc = "select" /\ call[h].op \in Assigns
      /\ UNCHANGED <<definition, assignment, holder, fixedVars, feedVars>>
      /\ version' \in 1..MaxVersion
  BY <1>1, <1>2, <1>3 DEF SelectRow, Assigns, dataVars
<1>6. Held(c)
  BY <1>3, <1>4, <1>5 DEF Held, Assigns
<1>7. call'[h] = c
  BY <1>3, <1>4, <1>5, ContinueMoves
<1>8. Locked(h)' <=> Locked(h)
  BY <1>4, <1>5, <1>7 DEF Locked
<1>9. Reads(h)'
  BY <1>4, <1>5, <1>7, <1>8 DEF PermissionInv, Reads, Exists
<1>10. Locks(h)
  BY <1>5, OwnLocks DEF PermissionInv, TypeOK
<1>11. Keeps(h)
  BY <1>3, <1>4, <1>5, <1>6, <1>9, <1>10, CalmKeeps
<1> QED
  BY <1>4, <1>5, <1>7, <1>11 DEF Apart, Assigns

LEMMA IncrementKeeps ==
  ASSUME PermissionInv, FeedTellsGrants, NEW h \in Handler, Increment(h)
  PROVE  Keeps(h) /\ Apart(h)
<1>1. PICK c : c = IF call[h].op = "firstLogin"
                   THEN [call[h] EXCEPT !.pc = "insert"] ELSE NoCall
  OBVIOUS
<1>2. /\ call \in [Handler -> Call] /\ call[h] \in Call /\ Held(call[h])
      /\ holder \in [Account -> Handler \cup {None}]
      /\ version \in 1..MaxVersion
  BY DEF PermissionInv, Handlers, TypeOK, PermissionTypeOK, dataVars
<1>3. /\ Continue(h, c) /\ call[h].pc = "increment"
      /\ UNCHANGED <<definition, assignment, holder, fixedVars, feedVars>>
      /\ version' \in 1..MaxVersion
  BY <1>1, <1>2, VersionAssumption DEF Increment
<1>6. Locks(h)
  BY <1>3, OwnLocks DEF PermissionInv, TypeOK
<1>4. CASE call[h].op = "firstLogin"
  <2>1. /\ c \in Call /\ c.pc = "insert" /\ c.op = "firstLogin"
        /\ c.account = call[h].account /\ c.key = call[h].key
        /\ c.target = call[h].target
        /\ c.application = call[h].application /\ c.version = call[h].version
    BY <1>1, <1>2, <1>4 DEF Call
  <2>2. Held(c)
    BY <1>2, <1>3, <1>4, <2>1 DEF Held
  <2>4. Keeps(h)
    BY <1>2, <1>3, <1>6, <2>1, <2>2, BareKeeps
  <2> QED
    BY <1>2, <1>3, <2>1, <2>4, ContinueMoves DEF Apart
<1>5. CASE call[h].op # "firstLogin"
  <2>1. c \in Call /\ c.pc = "idle" /\ Held(c)
    BY <1>1, <1>5, NoCallType
  <2>2. Keeps(h)
    BY <1>2, <1>3, <1>6, <2>1, BareKeeps
  <2> QED
    BY <1>2, <1>3, <2>1, <2>2, ContinueMoves DEF Apart
<1> QED
  BY <1>4, <1>5

LEMMA ServiceSaveKeeps ==
  ASSUME PermissionInv, FeedTellsGrants, NEW h \in Handler, ServiceSave(h)
  PROVE  Keeps(h) /\ Apart(h)
<1>1. /\ call \in [Handler -> Call] /\ call[h] \in Call /\ Held(call[h])
      /\ holder \in [Account -> Handler \cup {None}]
  BY DEF PermissionInv, Handlers, TypeOK, PermissionTypeOK, dataVars
<1>2. version' \in 1..MaxVersion
  <2>1. call[h].version \in 0..MaxVersion
    BY <1>1 DEF Call
  <2>2. call[h].version # 0 /\ version' = call[h].version
    BY <1>1 DEF Held, ServiceSave
  <2> QED
    BY <2>1, <2>2, VersionAssumption
<1>3. /\ NoCall \in Call /\ Held(NoCall) /\ NoCall.pc = "idle"
      /\ Continue(h, NoCall)
      /\ UNCHANGED <<definition, assignment, holder, fixedVars, feedVars>>
  BY NoCallType DEF ServiceSave
<1>5. Locks(h)
  BY <1>3, OwnLocks DEF PermissionInv, TypeOK
<1>4. Keeps(h)
  BY <1>1, <1>2, <1>3, <1>5, BareKeeps
<1> QED
  BY <1>1, <1>3, <1>4, ContinueMoves DEF Apart

-----------------------------------------------------------------------------
(* A save writes a grant or a revocation of a key; it writes what h wants, *)
(* unless it merges it into a row that was not locked.                     *)
LEMMA SavedIs ==
  ASSUME PermissionInv, NEW h \in Handler,
         call[h].pc = "commit", call[h].op \in Assigns
  PROVE  /\ call[h].account \in Account
         /\ Saved(h, call[h].account) \in Assignment
         /\ Saved(h, call[h].account).status # "none"
         /\ Saved(h, call[h].account).key \in Key
         /\ Locked(h) \/ call[h].row = NoAssignment
              => Saved(h, call[h].account) = Wanted(h)
         /\ Wanted(h).key \in Key
         /\ GrantIn(Wanted(h)) \in Key \cup {None}
<1>1. PICK a : a = call[h].account
  OBVIOUS
<1>2. /\ call[h] \in Call /\ Held(call[h]) /\ Reads(h)
      /\ assignment \in [Account -> Assignment]
  BY DEF PermissionInv, Handlers, TypeOK, PermissionTypeOK
<1>3. /\ a \in Account
      /\ call[h].op # "revoke" => call[h].key \in Key
  BY <1>1, <1>2 DEF Held, Assigns
<1>4. call[h].op = "revoke" => call[h].row.key \in Key
  BY <1>2 DEF Reads
<1>5. PICK w : w = Wanted(h)
  OBVIOUS
<1>6. /\ w \in Assignment /\ w.status \in {"active", "revoked"} /\ w.key \in Key
      /\ GrantIn(w) \in Key \cup {None}
      /\ w = [status |-> w.status, key |-> w.key]
  <2>1. CASE call[h].op = "revoke"
    <3>1. w = [call[h].row EXCEPT !.status = "revoked"]
      BY <1>5, <2>1 DEF Wanted
    <3> QED
      BY <1>2, <1>4, <2>1, <3>1 DEF Call, Assignment, GrantIn
  <2>2. CASE call[h].op # "revoke"
    BY <1>2, <1>3, <1>5, <2>2, WantedIs DEF Assignment
  <2> QED
    BY <2>1, <2>2
<1>7. PICK s : s = Saved(h, a)
  OBVIOUS
<1>8. /\ s = [status |-> s.status, key |-> s.key]
      /\ s.status = IF "status" \in call[h].columns THEN w.status
                    ELSE assignment[a].status
      /\ s.key = IF "key" \in call[h].columns THEN w.key ELSE assignment[a].key
  BY <1>5, <1>7 DEF Saved
<1>9. Locked(h) \/ call[h].row = NoAssignment
        => call[h].columns = {"status", "key"}
  BY <1>2 DEF Reads
<1>10. call[h].columns = {"status", "key"} \/ Exists(a)
  BY <1>1, <1>2, <1>9 DEF Reads
<1>11. /\ assignment[a] \in Assignment
       /\ Exists(a) => assignment[a].key \in Key /\ assignment[a].status # "none"
  BY <1>2, <1>3 DEF PermissionInv, Rows, Exists
<1>12. s \in Assignment /\ s.status # "none" /\ s.key \in Key
  BY <1>6, <1>8, <1>10, <1>11 DEF Assignment
<1>13. Locked(h) \/ call[h].row = NoAssignment => s = w
  BY <1>6, <1>8, <1>9
<1> QED
  BY <1>1, <1>3, <1>5, <1>6, <1>7, <1>12, <1>13

LEMMA WriteKeeps ==
  ASSUME PermissionInv, FeedTellsGrants, NEW h \in Handler,
         call[h].pc = "commit", call[h].op \in Assigns,
         call[h].op # "approve" => ~Collides(h),
         WriteRow(h, call[h].account, Saved(h, call[h].account))
  PROVE  Keeps(h) /\ Apart(h) /\ call'[h] = NoCall
<1>1. PICK a : a = call[h].account
  OBVIOUS
<1>2. PICK row : row = Saved(h, a)
  OBVIOUS
<1>3. PICK w : w = Wanted(h)
  OBVIOUS
<1>4. /\ a \in Account /\ row \in Assignment /\ row.status # "none"
      /\ row.key \in Key
      /\ Locked(h) \/ call[h].row = NoAssignment => row = w
      /\ GrantIn(w) \in Key \cup {None} /\ GrantIn(row) \in Key \cup {None}
  BY <1>1, <1>2, <1>3, SavedIs DEF GrantIn
<1>5. /\ call \in [Handler -> Call] /\ call[h] \in Call /\ Held(call[h])
      /\ Reads(h) /\ PermissionTypeOK
      /\ holder \in [Account -> Handler \cup {None}]
      /\ assignment \in [Account -> Assignment]
      /\ told \in [Account -> Key \cup {None}]
      /\ untold \in [Account -> Reason \cup {None}]
  BY DEF PermissionInv, Handlers, TypeOK, PermissionTypeOK
<1>6. /\ Free(h, a)
      /\ assignment' = [assignment EXCEPT ![a] = row]
      /\ told' = IF Tells(h) THEN [told EXCEPT ![a] = GrantIn(w)] ELSE told
      /\ holder' = Unlocked(h)
      /\ Continue(h, NoCall)
      /\ UNCHANGED <<definition, version, fixedVars>>
  BY <1>1, <1>2, <1>3 DEF WriteRow
<1>7. /\ call' \in [Handler -> Call] /\ call'[h] = NoCall
      /\ \A g \in Handler \ {h} : call'[g] = call[g]
  BY <1>5, <1>6, NoCallType, ContinueMoves
<1>8. /\ assignment'[a] = row
      /\ \A b \in Account \ {a} : assignment'[b] = assignment[b]
      /\ assignment' \in [Account -> Assignment]
  BY <1>4, <1>5, <1>6
<1>9. /\ holder' \in [Account -> Handler \cup {None}]
      /\ \A b \in Account : holder'[b] \in {holder[b], None}
  BY <1>5, <1>6 DEF Unlocked
<1>10. Respects(h)
  <2>1. \A b \in Account : Exists(b) => Exists(b)'
    BY <1>4, <1>8 DEF Exists
  <2>2. ASSUME NEW g \in Handler \ {h}, NEW b \in Account
        PROVE  /\ holder'[b] = g <=> holder[b] = g
               /\ holder[b] = g => assignment'[b] = assignment[b]
    BY <1>5, <1>6, <1>8, NoneAssumption DEF Free, Unlocked
  <2> QED
    BY <1>6, <1>7, <2>1, <2>2 DEF Respects, fixedVars
<1>11. PICK why : why = IF Exists(a) /\ ~Locked(h) THEN "unlocked"
                        ELSE IF GrantIn(row) # Granted(a) THEN None
                        ELSE untold[a]
  OBVIOUS
<1>12. /\ untold'[a] = IF told'[a] = GrantIn(row) THEN None ELSE why
       /\ \A b \in Account \ {a} : untold'[b] = untold[b] /\ told'[b] = told[b]
       /\ told' \in [Account -> Key \cup {None}]
       /\ untold' \in [Account -> Reason \cup {None}]
  <2>1. untold' = [untold EXCEPT ![a] = Why(a, why)]
    BY <1>1, <1>2, <1>5, <1>11 DEF WriteRow
  <2>2. Why(a, why) = IF told'[a] = GrantIn(row) THEN None ELSE why
    BY <1>8 DEF Why
  <2>3. why \in Reason \cup {None}
    BY <1>4, <1>5, <1>11 DEF Reason
  <2> QED
    BY <1>4, <1>5, <1>6, <2>1, <2>2, <2>3
<1>13. PermissionTypeOK'
  BY <1>5, <1>6, <1>7, <1>8, <1>9, <1>12 DEF PermissionTypeOK, fixedVars
<1>14. Rows'
  BY <1>4, <1>8, <1>9, NoneAssumption DEF PermissionInv, Rows, Exists
<1>15. FeedTellsGrants'
  <2> SUFFICES ASSUME NEW b \in Account, told'[b] # Granted(b)'
               PROVE  /\ untold'[b] # None
                      /\ operations \cap {"put", "revoke", "migrate"} = {}
                           => untold'[b] = "firstLogin"
    BY <1>6 DEF FeedTellsGrants, fixedVars
  <2>1. CASE b # a
    BY <1>8, <1>12, <2>1 DEF FeedTellsGrants, Granted, GrantIn
  <2>2. CASE b = a
    <3>1. Granted(b)' = GrantIn(row)
      BY <1>8, <2>2 DEF Granted, GrantIn
    <3>2. untold'[a] = why
      BY <1>12, <2>2, <3>1
    <3>3. CASE Exists(a) /\ ~Locked(h)
      <4>1. call[h].op \in operations \cap {"put", "revoke"}
        BY <1>1, <1>5, <3>3 DEF Reads, Held, Assigns
      <4> QED
        BY <1>11, <2>2, <3>2, <3>3, <4>1, NoReasonAssumption DEF Reason
    <3>4. CASE ~(Exists(a) /\ ~Locked(h))
      <4>1. Locked(h) \/ call[h].row = NoAssignment
        BY <1>1, <1>5, <3>4 DEF Reads, Assigns
      <4>2. row = w
        BY <1>4, <4>1
      <4>3. ~Tells(h)
        BY <1>4, <1>5, <1>6, <2>2, <3>1, <4>2
      <4>4. /\ call[h].op = "put"
            /\ call[h].row = [status |-> "active", key |-> call[h].key]
        BY <4>3 DEF Tells
      <4>5. call[h].row # NoAssignment
        BY <4>4 DEF NoAssignment
      <4>6. assignment[a] = call[h].row
        BY <1>1, <1>5, <4>1, <4>5 DEF Reads
      <4>7. row = assignment[a]
        BY <1>3, <1>5, <4>2, <4>4, <4>6, WantedIs
      <4> QED
        BY <1>4, <1>6, <1>11, <2>2, <3>1, <3>2, <3>4, <4>3, <4>7
        DEF FeedTellsGrants, Granted
    <3> QED
      BY <3>3, <3>4
  <2> QED
    BY <2>1, <2>2
<1>16. Reads(h)' /\ Held(call[h])'
  BY <1>7, NoCallType DEF Reads, Held
<1> QED
  BY <1>7, <1>10, <1>13, <1>14, <1>15, <1>16, NoCallType DEF Keeps, Apart

LEMMA CommitRowKeeps ==
  ASSUME PermissionInv, FeedTellsGrants, NEW h \in Handler, CommitRow(h)
  PROVE  Keeps(h) /\ Apart(h)
BY StopKeeps, WriteKeeps DEF CommitRow, Assigns

(* One that only adds an account to a grant that is not removed.           *)
LEMMA FirstLoginInsertKeeps ==
  ASSUME PermissionInv, FeedTellsGrants, NEW h \in Handler, FirstLoginInsert(h)
  PROVE  Keeps(h) /\ Apart(h)
<1>1. PICK a : a = call[h].account
  OBVIOUS
<1>2. PICK k : k = call[h].key
  OBVIOUS
<1>3. PICK row : row = [status |-> "active", key |-> k]
  OBVIOUS
<1>4. /\ call \in [Handler -> Call] /\ call[h] \in Call /\ Held(call[h])
      /\ PermissionTypeOK
      /\ holder \in [Account -> Handler \cup {None}]
      /\ assignment \in [Account -> Assignment]
      /\ told \in [Account -> Key \cup {None}]
      /\ untold \in [Account -> Reason \cup {None}]
  BY DEF PermissionInv, Handlers, TypeOK, PermissionTypeOK
<1>5. CASE Exists(a)
  <2>1. Stop(h)
    BY <1>1, <1>5 DEF FirstLoginInsert
  <2> QED
    BY <2>1, StopKeeps
<1>6. CASE ~Exists(a)
  <2>1. /\ call[h].pc = "insert" /\ call[h].op = "firstLogin"
        /\ assignment' = [assignment EXCEPT ![a] = row]
        /\ UNCHANGED <<definition, version, holder, fixedVars, told>>
        /\ untold' = [untold EXCEPT ![a] = Why(a, "firstLogin")]
        /\ Continue(h, NoCall) /\ k \in {Visitor, Superadmin}
    BY <1>1, <1>2, <1>3, <1>4, <1>6 DEF FirstLoginInsert, Held
  <2>2. a \in Account /\ k \in Key /\ row \in Assignment
    BY <1>1, <1>2, <1>3, <1>4, <2>1 DEF Held, Assignment
  <2>3. /\ call' \in [Handler -> Call] /\ call'[h] = NoCall
        /\ \A g \in Handler \ {h} : call'[g] = call[g]
    BY <1>4, <2>1, NoCallType, ContinueMoves
  <2>4. /\ assignment'[a] = row
        /\ \A b \in Account \ {a} : assignment'[b] = assignment[b]
        /\ assignment' \in [Account -> Assignment]
    BY <1>4, <2>1, <2>2
  <2>5. holder[a] = None
    BY <1>6, <2>2 DEF PermissionInv, Rows
  <2>6. Respects(h)
    <3>1. \A b \in Account : Exists(b) => Exists(b)'
      BY <1>3, <2>4 DEF Exists
    <3>2. ASSUME NEW g \in Handler \ {h}, NEW b \in Account, holder[b] = g
          PROVE  assignment'[b] = assignment[b]
      BY <2>1, <2>4, <2>5, <3>2, NoneAssumption
    <3> QED
      BY <2>1, <2>3, <3>1, <3>2 DEF Respects, fixedVars
  <2>7. /\ untold'[a] = IF told'[a] = GrantIn(row) THEN None ELSE "firstLogin"
        /\ \A b \in Account \ {a} : untold'[b] = untold[b]
        /\ untold' \in [Account -> Reason \cup {None}]
    BY <1>4, <2>1, <2>2, <2>4 DEF Why, Reason
  <2>8. PermissionTypeOK'
    BY <1>4, <2>1, <2>3, <2>4, <2>7 DEF PermissionTypeOK, fixedVars
  <2>9. Rows'
    BY <1>3, <2>1, <2>2, <2>4 DEF PermissionInv, Rows, Exists
  <2>10. FeedTellsGrants'
    <3>1. "firstLogin" # None
      BY NoReasonAssumption DEF Reason
    <3> QED
      BY <2>1, <2>4, <2>7, <3>1
      DEF FeedTellsGrants, Granted, GrantIn, fixedVars
  <2>11. Reads(h)' /\ Held(call[h])'
    BY <2>3, NoCallType DEF Reads, Held
  <2> QED
    BY <2>3, <2>6, <2>8, <2>9, <2>10, <2>11, NoCallType DEF Keeps, Apart
<1> QED
  BY <1>5, <1>6

(* All the rows of the source become rows of the target, and the events    *)
(* tell of those that were found.                                          *)
LEMMA MigrateMoveKeeps ==
  ASSUME PermissionInv, FeedTellsGrants, NEW h \in Handler, MigrateMove(h)
  PROVE  Keeps(h) /\ Apart(h)
<1>1. PICK k : k = call[h].key
  OBVIOUS
<1>2. PICK t : t = call[h].target
  OBVIOUS
<1>3. PICK found : found = call[h].found
  OBVIOUS
<1>4. /\ call \in [Handler -> Call] /\ call[h] \in Call /\ Held(call[h])
      /\ PermissionTypeOK /\ version \in 1..MaxVersion
      /\ definition \in [Key -> DefinitionStatus]
      /\ holder \in [Account -> Handler \cup {None}]
      /\ assignment \in [Account -> Assignment]
      /\ told \in [Account -> Key \cup {None}]
      /\ untold \in [Account -> Reason \cup {None}]
  BY DEF PermissionInv, Handlers, TypeOK, PermissionTypeOK
<1>5. /\ call[h].pc = "move" /\ version < MaxVersion
      /\ \A a \in Account : assignment[a].key = k => Free(h, a)
      /\ assignment' = MoveRows(h)
      /\ definition' = [definition EXCEPT ![k] = "removed"]
      /\ version' = version + 1
      /\ told' = [a \in Account |-> IF a \in found THEN t ELSE told[a]]
      /\ untold' = [a \in Account |->
           Why(a, IF a \in found /\ a \in Assigned(k) THEN None
                  ELSE IF a \in found \/ a \in Assigned(k) THEN "migrated"
                  ELSE untold[a])]
      /\ holder' = Unlocked(h)
      /\ Continue(h, NoCall)
      /\ UNCHANGED fixedVars
  BY <1>1, <1>2, <1>3 DEF MigrateMove
<1>6. k \in Key /\ t \in Key /\ t # k /\ "migrate" \in operations
  BY <1>1, <1>2, <1>4, <1>5 DEF Held
<1>7. /\ call' \in [Handler -> Call] /\ call'[h] = NoCall
      /\ \A g \in Handler \ {h} : call'[g] = call[g]
  BY <1>4, <1>5, NoCallType, ContinueMoves
<1>8. ASSUME NEW a \in Account
      PROVE  /\ assignment'[a] \in Assignment
             /\ assignment'[a].status = assignment[a].status
             /\ assignment[a].key = k => assignment'[a].key = t
             /\ assignment[a].key # k => assignment'[a] = assignment[a]
  BY <1>1, <1>2, <1>4, <1>5, <1>6 DEF MoveRows, Assignment
<1>9. assignment' \in [Account -> Assignment]
  BY <1>5, <1>8 DEF MoveRows
<1>10. /\ holder' \in [Account -> Handler \cup {None}]
       /\ \A b \in Account : holder'[b] \in {holder[b], None}
  BY <1>4, <1>5 DEF Unlocked
<1>11. Respects(h)
  <2>1. \A b \in Account : Exists(b) => Exists(b)'
    BY <1>8 DEF Exists
  <2>2. ASSUME NEW g \in Handler \ {h}, NEW b \in Account
        PROVE  /\ holder'[b] = g <=> holder[b] = g
               /\ holder[b] = g => assignment'[b] = assignment[b]
    BY <1>4, <1>5, <1>8, NoneAssumption DEF Free, Unlocked
  <2> QED
    BY <1>5, <1>7, <2>1, <2>2 DEF Respects, fixedVars
<1>12. ASSUME NEW a \in Account
       PROVE  /\ untold'[a] \in Reason \cup {None}
              /\ told'[a] # GrantIn(assignment'[a]) => untold'[a] # None
  <2>1. PICK why : why = IF a \in found /\ a \in Assigned(k) THEN None
                         ELSE IF a \in found \/ a \in Assigned(k) THEN "migrated"
                         ELSE untold[a]
    OBVIOUS
  <2>2. untold'[a] = IF told'[a] = GrantIn(assignment'[a]) THEN None ELSE why
    BY <1>5, <2>1 DEF Why
  <2>3. why \in Reason \cup {None} /\ "migrated" # None
    BY <1>4, <2>1, NoReasonAssumption DEF Reason
  <2>4. CASE a \in found /\ a \in Assigned(k)
    <3>1. told'[a] = t /\ GrantIn(assignment'[a]) = t
      BY <1>5, <1>8, <2>4 DEF Assigned, GrantIn
    <3> QED
      BY <2>2, <3>1
  <2>5. CASE a \notin found /\ a \notin Assigned(k)
    <3>1. told'[a] = told[a] /\ why = untold[a]
      BY <1>5, <2>1, <2>5
    <3>2. GrantIn(assignment'[a]) = GrantIn(assignment[a])
      <4>1. assignment[a] = [status |-> assignment[a].status,
                             key |-> assignment[a].key]
        BY <1>4 DEF Assignment
      <4> QED
        BY <1>8, <2>5, <4>1 DEF Assigned, GrantIn
    <3> QED
      BY <2>2, <2>3, <3>1, <3>2 DEF FeedTellsGrants, Granted
  <2> QED
    BY <2>1, <2>2, <2>3, <2>4, <2>5
<1>13. /\ untold' \in [Account -> Reason \cup {None}]
       /\ told' \in [Account -> Key \cup {None}]
  <2>1. untold' = [a \in Account |-> untold'[a]]
    BY <1>5
  <2> QED
    BY <1>4, <1>5, <1>6, <1>12, <2>1
<1>14. PermissionTypeOK'
  <2>1. definition' \in [Key -> DefinitionStatus]
    BY <1>4, <1>5 DEF DefinitionStatus
  <2>2. version' \in 1..MaxVersion
    BY <1>4, <1>5, VersionAssumption
  <2> QED
    BY <1>4, <1>5, <1>7, <1>9, <1>10, <1>13, <2>1, <2>2
    DEF PermissionTypeOK, fixedVars
<1>15. Rows'
  <2> SUFFICES ASSUME NEW a \in Account
               PROVE  IF Exists(a)' THEN assignment'[a].key \in Key
                      ELSE assignment'[a] = NoAssignment /\ holder'[a] = None
    BY DEF Rows, Exists
  <2>1. CASE Exists(a)
    BY <1>6, <1>8, <2>1 DEF PermissionInv, Rows, Exists
  <2>2. CASE ~Exists(a)
    <3>1. assignment[a] = NoAssignment /\ holder[a] = None
      BY <2>2 DEF PermissionInv, Rows
    <3>2. assignment[a].key # k
      BY <1>6, <3>1, NoneAssumption DEF NoAssignment
    <3> QED
      BY <1>8, <1>10, <2>2, <3>1, <3>2 DEF Exists
  <2> QED
    BY <2>1, <2>2
<1>16. FeedTellsGrants'
  BY <1>5, <1>6, <1>12 DEF FeedTellsGrants, Granted, GrantIn, fixedVars
<1>17. Reads(h)' /\ Held(call[h])'
  BY <1>7, NoCallType DEF Reads, Held
<1> QED
  BY <1>7, <1>11, <1>14, <1>15, <1>16, <1>17, NoCallType DEF Keeps, Apart

(* One that changes a definition and nothing else.                         *)
LEMMA DefinitionKeeps ==
  ASSUME PermissionInv, FeedTellsGrants, NEW h \in Handler, NEW c \in Call,
         NEW k \in Key, NEW s \in DefinitionStatus,
         definition' = [definition EXCEPT ![k] = s],
         UNCHANGED <<assignment, version, holder, fixedVars, feedVars>>,
         Continue(h, c), Held(c),
         c.op \notin {"apply", "approve"}, c.pc \in {"idle", "increment"}
  PROVE  Keeps(h)
<1>1. /\ definition \in [Key -> DefinitionStatus] /\ PermissionTypeOK
      /\ call \in [Handler -> Call]
  BY DEF PermissionInv, TypeOK, PermissionTypeOK
<1>2. call' \in [Handler -> Call] /\ call'[h] = c
  BY <1>1, ContinueMoves
<1>3. Respects(h)
  BY <1>1, OwnLocks, ContinueRespects
<1>4. PermissionTypeOK'
  BY <1>1, <1>2 DEF PermissionTypeOK, fixedVars, feedVars
<1>5. Rows'
  BY DEF PermissionInv, Rows, Exists
<1>6. FeedTellsGrants'
  BY DEF FeedTellsGrants, Granted, GrantIn, feedVars, fixedVars
<1>7. Reads(h)' /\ Held(call[h])'
  BY <1>2 DEF Reads, Held, fixedVars
<1> QED
  BY <1>3, <1>4, <1>5, <1>6, <1>7 DEF Keeps

LEMMA EnsureSuperadminKeeps ==
  ASSUME PermissionInv, FeedTellsGrants, NEW h \in Handler, EnsureSuperadmin(h)
  PROVE  Keeps(h) /\ Apart(h)
<1>1. PICK c : c = [call[h] EXCEPT !.pc = "increment"]
  OBVIOUS
<1>2. call \in [Handler -> Call] /\ call[h] \in Call /\ Held(call[h])
  BY DEF PermissionInv, Handlers, TypeOK, PermissionTypeOK
<1>3. /\ c \in Call /\ c.pc = "increment" /\ c.op = call[h].op
      /\ c.account = call[h].account /\ c.key = call[h].key
      /\ c.application = call[h].application
  BY <1>1, <1>2 DEF Call
<1>4. /\ call[h].pc = "ensure" /\ Continue(h, c)
      /\ definition' = [definition EXCEPT ![Superadmin] = "active"]
      /\ UNCHANGED <<assignment, version, holder, fixedVars, feedVars>>
  BY <1>1 DEF EnsureSuperadmin
<1>5. Held(c) /\ c.op = "firstLogin"
  BY <1>2, <1>3, <1>4 DEF Held
<1>6. Keeps(h)
  BY <1>3, <1>4, <1>5, DefinitionKeeps, KeyAssumption DEF DefinitionStatus
<1> QED
  BY <1>2, <1>3, <1>4, <1>6, ContinueMoves DEF Apart

LEMMA CreateInsertKeeps ==
  ASSUME PermissionInv, FeedTellsGrants, NEW h \in Handler, CreateInsert(h)
  PROVE  Keeps(h) /\ Apart(h)
<1>1. CASE definition[call[h].key] # "absent"
  BY <1>1, StopKeeps DEF CreateInsert
<1>2. CASE definition[call[h].key] = "absent"
  <2>1. PICK c : c = [call[h] EXCEPT !.pc = "increment"]
    OBVIOUS
  <2>2. call \in [Handler -> Call] /\ call[h] \in Call /\ Held(call[h])
    BY DEF PermissionInv, Handlers, TypeOK, PermissionTypeOK
  <2>3. /\ c \in Call /\ c.pc = "increment" /\ c.op = call[h].op
        /\ c.account = call[h].account /\ c.key = call[h].key
        /\ c.application = call[h].application
    BY <2>1, <2>2 DEF Call
  <2>4. /\ call[h].pc = "insert" /\ call[h].op = "create"
        /\ definition' = [definition EXCEPT ![c.key] = "active"]
        /\ Continue(h, c)
        /\ UNCHANGED <<assignment, version, holder, fixedVars, feedVars>>
    BY <1>2, <2>1, <2>3 DEF CreateInsert
  <2>5. c.key \in Key /\ Held(c)
    BY <2>2, <2>3, <2>4 DEF Held
  <2>6. Keeps(h)
    BY <2>3, <2>4, <2>5, DefinitionKeeps DEF DefinitionStatus
  <2> QED
    BY <2>2, <2>3, <2>4, <2>6, ContinueMoves DEF Apart
<1> QED
  BY <1>1, <1>2

LEMMA SaveDefinitionKeeps ==
  ASSUME PermissionInv, FeedTellsGrants, NEW h \in Handler, SaveDefinition(h)
  PROVE  Keeps(h) /\ Apart(h)
<1>1. PICK c : c = IF call[h].op = "remove"
                   THEN [call[h] EXCEPT !.pc = "increment"] ELSE NoCall
  OBVIOUS
<1>2. PICK k : k = call[h].key
  OBVIOUS
<1>3. PICK s : s = call[h].status
  OBVIOUS
<1>4. call \in [Handler -> Call] /\ call[h] \in Call /\ Held(call[h])
  BY DEF PermissionInv, Handlers, TypeOK, PermissionTypeOK
<1>5. /\ call[h].pc = "save" /\ call[h].op \in {"update", "remove"}
      /\ definition' = [definition EXCEPT ![k] = s]
      /\ Continue(h, c)
      /\ UNCHANGED <<assignment, version, holder, fixedVars, feedVars>>
  BY <1>1, <1>2, <1>3 DEF SaveDefinition
<1>6. k \in Key /\ s \in DefinitionStatus
  BY <1>2, <1>3, <1>4, <1>5 DEF Held, Call
<1>7. /\ c \in Call /\ c.pc \in {"idle", "increment"} /\ Held(c)
      /\ c.op \notin {"apply", "approve"}
      /\ c.pc = "increment" => /\ c.application = call[h].application
                               /\ c.account = call[h].account
  <2>1. CASE call[h].op = "remove"
    <3>1. /\ c \in Call /\ c.pc = "increment" /\ c.op = call[h].op
          /\ c.account = call[h].account /\ c.key = call[h].key
          /\ c.application = call[h].application
      BY <1>1, <1>4, <2>1 DEF Call
    <3> QED
      BY <1>4, <1>5, <2>1, <3>1 DEF Held, Assigns
  <2>2. CASE call[h].op # "remove"
    BY <1>1, <2>2, NoCallType DEF NoCall
  <2> QED
    BY <2>1, <2>2
<1>8. Keeps(h)
  BY <1>5, <1>6, <1>7, DefinitionKeeps
<1> QED
  BY <1>4, <1>5, <1>7, <1>8, ContinueMoves DEF Apart

-----------------------------------------------------------------------------
(* Applications.  What a step of h must leave of the applications of each  *)
(* account: as many or less, or its own search or insertion, or a mark.    *)
LEMMA ApplicationsStep ==
  ASSUME PermissionInv, NEW h \in Handler, Respects(h),
         \A p \in Application :
           /\ application'[p].status # "none"
                => /\ application'[p].account \in Account
                   /\ Exists(application'[p].account)
           /\ application[p].status # "none"
                => /\ application'[p].status # "none"
                   /\ application'[p].account = application[p].account,
         call'[h].pc # "idle" /\ call'[h].application # None
           => /\ application'[call'[h].application].status # "none"
              /\ application'[call'[h].application].account = call'[h].account,
         doubled \subseteq doubled',
         \A a \in Account : \E p : Pending(a)' \subseteq Pending(a) \cup {p},
         \A a \in Account \ doubled' :
           \/ /\ Pending(a)' \subseteq Pending(a)
              /\ h \in Inserting(a)' => h \in Inserting(a)
           \/ Pending(a)' = {} /\ Inserting(a) \subseteq {h}
           \/ h \in Inserting(a) /\ h \notin Inserting(a)'
  PROVE  Applications'
<1>1. ASSUME NEW g \in Handler \ {h}
      PROVE  /\ call'[g].pc = call[g].pc /\ call'[g].op = call[g].op
             /\ call'[g].account = call[g].account
             /\ call'[g].application = call[g].application
             /\ call[g] \in Call
  BY DEF Respects, PermissionInv, Handlers
<1>2. ASSUME NEW g \in Handler, call'[g].pc # "idle", call'[g].application # None
      PROVE  /\ application'[call'[g].application].status # "none"
             /\ application'[call'[g].application].account = call'[g].account
  <2>1. CASE g = h
    BY <1>2, <2>1
  <2>2. CASE g # h
    <3>1. call[g].application \in Application
      BY <1>1, <1>2, <2>2 DEF Call
    <3> QED
      BY <1>1, <1>2, <2>2, <3>1 DEF PermissionInv, Applications
  <2> QED
    BY <2>1, <2>2
<1>3. ASSUME NEW a \in Account PROVE IsFiniteSet(Pending(a)')
  <2>1. PICK p : Pending(a)' \subseteq Pending(a) \cup {p}
    OBVIOUS
  <2>2. PICK S : S = Pending(a)
    OBVIOUS
  <2>3. IsFiniteSet(S)
    BY <2>2 DEF PermissionInv, Applications
  <2>4. IsFiniteSet(S \cup {p})
    BY <2>3, FS_AddElement
  <2>5. Pending(a)' \in SUBSET (S \cup {p})
    BY <2>1, <2>2
  <2> QED
    BY <2>4, <2>5, FS_Subset
<1>4. ASSUME NEW a \in Account, a \notin doubled'
      PROVE  /\ \A p, q \in Pending(a)' : p = q
             /\ \A f, g \in Inserting(a)' : f = g
             /\ Inserting(a)' # {} => Pending(a)' = {}
  <2>1. /\ \A p, q \in Pending(a) : p = q
        /\ \A f, g \in Inserting(a) : f = g
        /\ Inserting(a) # {} => Pending(a) = {}
    BY <1>4 DEF PermissionInv, Applications
  <2>2. \A g \in Inserting(a)' : g = h \/ g \in Inserting(a)
    BY <1>1 DEF Inserting
  <2>3. CASE /\ Pending(a)' \subseteq Pending(a)
             /\ h \in Inserting(a)' => h \in Inserting(a)
    BY <2>1, <2>2, <2>3
  <2>4. CASE Pending(a)' = {} /\ Inserting(a) \subseteq {h}
    BY <2>2, <2>4
  <2>5. CASE h \in Inserting(a) /\ h \notin Inserting(a)'
    <3>1. Pending(a) = {} /\ Inserting(a)' = {}
      BY <2>1, <2>2, <2>5
    <3>2. PICK p : Pending(a)' \subseteq Pending(a) \cup {p}
      OBVIOUS
    <3> QED
      BY <3>1, <3>2
  <2> QED
    BY <1>4, <2>3, <2>4, <2>5
<1>5. \A p \in Application :
        application'[p].status # "none"
          => application'[p].account \in Account /\ Exists(application[p].account)'
  BY DEF Respects, Exists
<1> QED
  BY <1>2, <1>3, <1>4, <1>5 DEF Applications

(* Steps that have nothing to do with the rows of applications.            *)
LEMMA ApplicationsStay ==
  ASSUME PermissionInv, NEW h \in Handler, Respects(h), Apart(h),
         UNCHANGED <<application, doubled>>
  PROVE  Applications'
<1>1. \A a \in Account : Pending(a)' = Pending(a)
  BY DEF Pending
<1>2. \A a \in Account : h \notin Inserting(a)'
  BY DEF Inserting, Apart
<1>3. call'[h].pc # "idle" /\ call'[h].application # None
        => /\ application'[call'[h].application].status # "none"
           /\ application'[call'[h].application].account = call'[h].account
  BY DEF Apart, PermissionInv, Applications
<1>4. \A p \in Application :
        application'[p].status # "none"
          => application'[p].account \in Account /\ Exists(application'[p].account)
  BY DEF PermissionInv, Applications
<1>5. \A a \in Account : \E p : Pending(a)' \subseteq Pending(a) \cup {p}
  BY <1>1
<1> QED
  BY <1>1, <1>2, <1>3, <1>4, <1>5, ApplicationsStep

ApplicationsType ==
  /\ application' \in [Application -> ApplicationRow]
  /\ reviewer' \in [Application -> Handler \cup {None}]
  /\ doubled' \subseteq Account
  /\ rewritten' \subseteq Application

LEMMA ApplicationsUnchanged ==
  ASSUME PermissionInv, UNCHANGED applicationVars
  PROVE  ApplicationsType
BY DEF PermissionInv, TypeOK, ApplicationsType, applicationVars

LEMMA ReleasedType ==
  ASSUME PermissionInv, NEW h \in Handler
  PROVE  Released(h) \in [Application -> Handler \cup {None}]
BY DEF PermissionInv, TypeOK, Released

LEMMA ApplyCheckKeeps ==
  ASSUME PermissionInv, FeedTellsGrants, NEW h \in Handler,
         NEW a \in Account, NEW k \in Key \cup {None}, ApplyCheck(h, a, k)
  PROVE  Keeps(h) /\ Applications' /\ ApplicationsType
<1>1. PICK c : c = [[NoCall EXCEPT !.pc = "find", !.account = a, !.key = k]
                      EXCEPT !.op = "apply"]
  OBVIOUS
<1>2. /\ c \in Call /\ c.pc = "find" /\ c.op = "apply" /\ c.account = a
      /\ c.key = k /\ c.application = None
  BY <1>1, NoCallType DEF Call, NoCall, Op
<1>3. /\ Continue(h, c) /\ "apply" \in operations /\ UNCHANGED <<dataVars, holder, fixedVars, feedVars>>
      /\ UNCHANGED applicationVars /\ Exists(a)
  BY <1>1 DEF ApplyCheck, Start, Exists
<1>4. Held(c)
  BY <1>2, <1>3 DEF Held, Assigns
<1>5. Keeps(h) /\ Apart(h)
  BY <1>2, <1>3, <1>4, StartKeeps, ContinueMoves
  DEF Apart, PermissionInv, TypeOK, PermissionTypeOK
<1> QED
  BY <1>3, <1>5, ApplicationsStay, ApplicationsUnchanged DEF Keeps, applicationVars

LEMMA ApplyFindKeeps ==
  ASSUME PermissionInv, FeedTellsGrants, NEW h \in Handler, ApplyFind(h)
  PROVE  Keeps(h) /\ Applications' /\ ApplicationsType
<1>1. PICK a : a = call[h].account
  OBVIOUS
<1>2. /\ call \in [Handler -> Call] /\ call[h] \in Call /\ Held(call[h])
      /\ holder \in [Account -> Handler \cup {None}]
      /\ version \in 1..MaxVersion
      /\ application \in [Application -> ApplicationRow]
      /\ doubled \subseteq Account
      /\ reviewer \in [Application -> Handler \cup {None}]
  BY DEF PermissionInv, Handlers, TypeOK, PermissionTypeOK
<1>3. /\ call[h].pc = "find" /\ call[h].op = "apply"
      /\ UNCHANGED <<dataVars, holder, fixedVars, feedVars, application, reviewer,
                     rewritten>>
      /\ doubled \subseteq doubled' /\ doubled' \subseteq doubled \cup {a}
      /\ (\E g \in Handler \ {h} : g \in Inserting(a)) => a \in doubled'
  BY <1>1, <1>2 DEF ApplyFind, Inserting
<1>4. a \in Account
  BY <1>1, <1>2, <1>3 DEF Held
<1>5. PICK c : /\ c \in Call /\ Continue(h, c) /\ c.op = "apply" /\ c.account = a
               /\ \/ /\ c.pc = "commit" /\ Pending(a) = {}
                     /\ c.application = call[h].application
                  \/ c.pc = "select" /\ c.application \in Pending(a)
  <2>1. CASE Pending(a) = {}
    <3>1. PICK c : c = [call[h] EXCEPT !.pc = "commit", !.target = call[h].key]
      OBVIOUS
    <3>2. /\ c \in Call /\ c.pc = "commit" /\ c.op = "apply" /\ c.account = a
          /\ c.application = call[h].application
      BY <1>1, <1>2, <1>3, <3>1 DEF Call
    <3>3. Continue(h, c)
      BY <1>1, <2>1, <3>1 DEF ApplyFind
    <3> QED
      BY <2>1, <3>2, <3>3
  <2>2. CASE Pending(a) # {}
    <3>1. PICK p \in Pending(a) :
            Continue(h, [call[h] EXCEPT
              !.pc = "select", !.application = p,
              !.target = IF call[h].key = None THEN application[p].target
                         ELSE call[h].key])
      BY <1>1, <2>2 DEF ApplyFind
    <3>2. PICK t : t = IF call[h].key = None THEN application[p].target
                       ELSE call[h].key
      OBVIOUS
    <3>3. p \in Application /\ t \in Key \cup {None}
      BY <1>2, <3>1, <3>2 DEF Pending, ApplicationRow, Call
    <3>4. PICK c : c = [call[h] EXCEPT !.pc = "select", !.application = p,
                                       !.target = t]
      OBVIOUS
    <3>5. /\ c \in Call /\ c.pc = "select" /\ c.op = "apply" /\ c.account = a
          /\ c.application = p
      BY <1>1, <1>2, <1>3, <3>3, <3>4 DEF Call
    <3> QED
      BY <3>1, <3>2, <3>4, <3>5
  <2> QED
    BY <2>1, <2>2
<1>6. call' \in [Handler -> Call] /\ call'[h] = c
  BY <1>2, <1>5, ContinueMoves
<1>7. Held(c)
  BY <1>2, <1>3, <1>4, <1>5 DEF Held, Assigns, Pending
<1>8. Keeps(h)
  <2>1. Locks(h) /\ Exists(a)
    BY <1>1, <1>3, OwnLocks DEF PermissionInv, TypeOK, Reads
  <2> QED
    BY <1>2, <1>3, <1>5, <1>7, <2>1, BareKeeps DEF dataVars
<1>9. c.application # None => /\ application[c.application].status # "none"
                              /\ application[c.application].account = a
  <2>1. CASE c.pc = "commit"
    BY <1>1, <1>3, <1>5, <2>1 DEF PermissionInv, Applications
  <2>2. CASE c.pc = "select"
    BY <1>5, <2>2 DEF Pending
  <2> QED
    BY <1>5, <2>1, <2>2
<1>10. ASSUME NEW b \in Account
       PROVE  /\ Pending(b)' = Pending(b)
              /\ b # a => h \notin Inserting(b)'
              /\ c.pc = "select" => h \notin Inserting(b)'
  BY <1>3, <1>5, <1>6 DEF Pending, Inserting
<1>11. ASSUME NEW b \in Account \ doubled'
       PROVE  \/ /\ Pending(b)' \subseteq Pending(b)
                 /\ h \in Inserting(b)' => h \in Inserting(b)
              \/ Pending(b)' = {} /\ Inserting(b) \subseteq {h}
  <2>1. CASE b = a /\ c.pc = "commit"
    BY <1>3, <1>5, <1>10, <2>1 DEF Inserting
  <2>2. CASE ~(b = a /\ c.pc = "commit")
    BY <1>5, <1>10, <2>2
  <2> QED
    BY <2>1, <2>2
<1>12. Applications'
  <2>1. \A b \in Account : \E p : Pending(b)' \subseteq Pending(b) \cup {p}
    BY <1>10
  <2>2. \A p \in Application :
          /\ application'[p].status # "none"
               => /\ application'[p].account \in Account
                  /\ Exists(application'[p].account)
          /\ application[p].status # "none"
               => /\ application'[p].status # "none"
                  /\ application'[p].account = application[p].account
    BY <1>3 DEF PermissionInv, Applications
  <2>3. call'[h].application # None
          => /\ application'[call'[h].application].status # "none"
             /\ application'[call'[h].application].account = call'[h].account
    BY <1>3, <1>5, <1>6, <1>9
  <2> QED
    BY <1>3, <1>8, <1>11, <2>1, <2>2, <2>3, ApplicationsStep DEF Keeps
<1>13. ApplicationsType
  BY <1>2, <1>3, <1>4 DEF ApplicationsType, PermissionInv, TypeOK
<1> QED
  BY <1>8, <1>12, <1>13

LEMMA ApplySelectKeeps ==
  ASSUME PermissionInv, FeedTellsGrants, NEW h \in Handler, ApplySelect(h)
  PROVE  Keeps(h) /\ Applications' /\ ApplicationsType
<1>1. PICK p : p = call[h].application
  OBVIOUS
<1>2. PICK C : C = (IF application[p].status # "pending" THEN {"status"} ELSE {})
                   \cup (IF application[p].target # call[h].target
                         THEN {"key"} ELSE {})
  OBVIOUS
<1>3. PICK c : c = [call[h] EXCEPT !.pc = "commit", !.columns = C]
  OBVIOUS
<1>4. /\ call \in [Handler -> Call] /\ call[h] \in Call /\ Held(call[h])
      /\ holder \in [Account -> Handler \cup {None}]
      /\ version \in 1..MaxVersion
  BY DEF PermissionInv, Handlers, TypeOK, PermissionTypeOK
<1>5. /\ c \in Call /\ c.pc = "commit" /\ c.op = call[h].op
      /\ c.account = call[h].account /\ c.application = call[h].application
  BY <1>2, <1>3, <1>4, ZenonT(60) DEF Call
<1>6. /\ Continue(h, c) /\ call[h].pc = "select" /\ call[h].op = "apply"
      /\ UNCHANGED <<dataVars, holder, fixedVars, feedVars, applicationVars>>
  BY <1>1, <1>2, <1>3 DEF ApplySelect
<1>7. Held(c) /\ c.application # None
  BY <1>4, <1>5, <1>6, NoneAssumption DEF Held, Assigns
<1>8. Keeps(h)
  <2>1. Locks(h) /\ Exists(c.account)
    BY <1>5, <1>6, OwnLocks DEF PermissionInv, TypeOK, Reads
  <2> QED
    BY <1>4, <1>5, <1>6, <1>7, <2>1, BareKeeps DEF dataVars
<1>9. Apart(h)
  BY <1>4, <1>5, <1>6, <1>7, ContinueMoves DEF Apart
<1> QED
  BY <1>6, <1>8, <1>9, ApplicationsStay, ApplicationsUnchanged
  DEF Keeps, applicationVars

(* A handler that has written an application and ends.                     *)
LEMMA ApplyEnds ==
  ASSUME PermissionInv, FeedTellsGrants, NEW h \in Handler, Continue(h, NoCall),
         UNCHANGED <<dataVars, holder, fixedVars, feedVars>>
  PROVE  Keeps(h) /\ call'[h] = NoCall
<1>1. NoCall \in Call /\ Held(NoCall) /\ NoCall.pc = "idle"
  BY NoCallType
<1> QED
  BY <1>1, StartKeeps, ContinueMoves DEF PermissionInv, TypeOK, PermissionTypeOK

LEMMA ApplyUpdateKeeps ==
  ASSUME PermissionInv, FeedTellsGrants, NEW h \in Handler, ApplyUpdate(h)
  PROVE  Keeps(h) /\ Applications' /\ ApplicationsType
<1>1. PICK p : p = call[h].application
  OBVIOUS
<1>2. PICK a : a = call[h].account
  OBVIOUS
<1>3. PICK row : row =
        [application[p] EXCEPT
           !.status = IF "status" \in call[h].columns THEN "pending" ELSE @,
           !.target = IF "key" \in call[h].columns THEN call[h].target ELSE @]
  OBVIOUS
<1>4. /\ call \in [Handler -> Call] /\ call[h] \in Call /\ Held(call[h])
      /\ application \in [Application -> ApplicationRow]
      /\ reviewer \in [Application -> Handler \cup {None}]
      /\ doubled \subseteq Account
  BY DEF PermissionInv, Handlers, TypeOK, PermissionTypeOK
<1>5. /\ call[h].pc = "commit" /\ call[h].op = "apply" /\ p # None
      /\ application' = [application EXCEPT ![p] = row]
      /\ doubled' = IF Decided(p) /\ "status" \in call[h].columns
                    THEN doubled \cup {a} ELSE doubled
      /\ rewritten' \subseteq rewritten \cup {p}
      /\ Continue(h, NoCall)
      /\ UNCHANGED <<dataVars, holder, fixedVars, feedVars, reviewer>>
  BY <1>1, <1>2, <1>3 DEF ApplyUpdate
<1>6. /\ a \in Account /\ p \in Application
      /\ application[p].status # "none" /\ application[p].account = a
  BY <1>1, <1>2, <1>4, <1>5 DEF Held, Call, PermissionInv, Applications
<1>7. /\ row \in ApplicationRow /\ row.account = a
      /\ row.status = IF "status" \in call[h].columns THEN "pending"
                      ELSE application[p].status
  <2>1. PICK status : status = IF "status" \in call[h].columns THEN "pending"
                               ELSE application[p].status
    OBVIOUS
  <2>2. PICK target : target = IF "key" \in call[h].columns THEN call[h].target
                               ELSE application[p].target
    OBVIOUS
  <2>3. row = [application[p] EXCEPT !.status = status, !.target = target]
    BY <1>3, <2>1, <2>2
  <2>4. status \in ApplicationStatus /\ target \in Key \cup {None}
    BY <1>4, <1>6, <2>1, <2>2 DEF ApplicationRow, ApplicationStatus, Call
  <2> QED
    BY <1>4, <1>6, <2>1, <2>3, <2>4 DEF ApplicationRow
<1>8. /\ application'[p] = row
      /\ \A q \in Application \ {p} : application'[q] = application[q]
  BY <1>4, <1>5, <1>6
<1>9. Keeps(h) /\ call'[h].pc = "idle"
  BY <1>5, ApplyEnds, NoCallType
<1>10. ASSUME NEW b \in Account
       PROVE  /\ Pending(b)' \subseteq Pending(b) \cup {p}
              /\ b \notin doubled' => Pending(b)' \subseteq Pending(b)
              /\ h \notin Inserting(b)'
  <2>1. Pending(b)' \subseteq Pending(b) \cup {p}
    BY <1>8 DEF Pending
  <2>2. ASSUME b \notin doubled' PROVE Pending(b)' \subseteq Pending(b)
    <3>1. CASE p \in Pending(b)'
      <4>1. b = a /\ row.status = "pending"
        BY <1>7, <1>8, <3>1 DEF Pending
      <4>2. application[p].status = "pending"
        BY <1>4, <1>5, <1>6, <1>7, <2>2, <4>1
        DEF Decided, ApplicationRow, ApplicationStatus
      <4> QED
        BY <1>6, <2>1, <4>1, <4>2 DEF Pending
    <3>2. CASE p \notin Pending(b)'
      BY <2>1, <3>2
    <3> QED
      BY <3>1, <3>2
  <2>3. h \notin Inserting(b)'
    BY <1>9 DEF Inserting
  <2> QED
    BY <2>1, <2>2, <2>3
<1>11. \A q \in Application :
         /\ application'[q].status # "none"
              => /\ application'[q].account \in Account
                 /\ Exists(application'[q].account)
         /\ application[q].status # "none"
              => /\ application'[q].status # "none"
                 /\ application'[q].account = application[q].account
  BY <1>6, <1>7, <1>8 DEF PermissionInv, Applications
<1>12. Applications'
  <2>1. \A b \in Account : \E q : Pending(b)' \subseteq Pending(b) \cup {q}
    BY <1>10
  <2>2. doubled \subseteq doubled'
    BY <1>5
  <2> QED
    BY <1>9, <1>10, <1>11, <2>1, <2>2, ApplicationsStep DEF Keeps
<1>13. ApplicationsType
  BY <1>4, <1>5, <1>6, <1>7 DEF ApplicationsType, PermissionInv, TypeOK
<1> QED
  BY <1>9, <1>12, <1>13

LEMMA ApplyInsertKeeps ==
  ASSUME PermissionInv, FeedTellsGrants, NEW h \in Handler, ApplyInsert(h)
  PROVE  Keeps(h) /\ Applications' /\ ApplicationsType
<1>1. PICK a : a = call[h].account
  OBVIOUS
<1>2. PICK row : row = [status |-> "pending", account |-> a,
                        target |-> call[h].target]
  OBVIOUS
<1>3. PICK p \in Application : /\ application[p] = NoApplication
                               /\ application' = [application EXCEPT ![p] = row]
  BY <1>1, <1>2 DEF ApplyInsert
<1>4. /\ call \in [Handler -> Call] /\ call[h] \in Call /\ Held(call[h])
      /\ application \in [Application -> ApplicationRow]
      /\ reviewer \in [Application -> Handler \cup {None}]
      /\ doubled \subseteq Account
  BY DEF PermissionInv, Handlers, TypeOK, PermissionTypeOK
<1>5. /\ call[h].pc = "commit" /\ call[h].op = "apply"
      /\ call[h].application = None
      /\ Continue(h, NoCall)
      /\ UNCHANGED <<dataVars, holder, fixedVars, feedVars, reviewer, doubled,
                     rewritten>>
  BY DEF ApplyInsert
<1>6. a \in Account /\ h \in Inserting(a) /\ Exists(a)
  BY <1>1, <1>4, <1>5 DEF Held, Inserting, PermissionInv, Reads
<1>7. row \in ApplicationRow /\ row.account = a /\ row.status = "pending"
  BY <1>2, <1>4, <1>6 DEF ApplicationRow, ApplicationStatus, Call
<1>8. /\ application'[p] = row
      /\ \A q \in Application \ {p} : application'[q] = application[q]
      /\ application[p].status = "none"
  BY <1>3, <1>4 DEF NoApplication
<1>9. Keeps(h) /\ call'[h].pc = "idle"
  BY <1>5, ApplyEnds, NoCallType
<1>10. ASSUME NEW b \in Account
       PROVE  /\ Pending(b)' \subseteq Pending(b) \cup {p}
              /\ b # a => Pending(b)' \subseteq Pending(b)
              /\ h \notin Inserting(b)'
  BY <1>7, <1>8, <1>9 DEF Pending, Inserting
<1>11. \A q \in Application :
         /\ application'[q].status # "none"
              => /\ application'[q].account \in Account
                 /\ Exists(application'[q].account)
         /\ application[q].status # "none"
              => /\ application'[q].status # "none"
                 /\ application'[q].account = application[q].account
  BY <1>6, <1>7, <1>8 DEF PermissionInv, Applications
<1>12. Applications'
  <2>1. \A b \in Account : \E q : Pending(b)' \subseteq Pending(b) \cup {q}
    BY <1>10
  <2>2. doubled \subseteq doubled'
    BY <1>5
  <2>3. \A b \in Account \ doubled' :
          \/ /\ Pending(b)' \subseteq Pending(b)
             /\ h \in Inserting(b)' => h \in Inserting(b)
          \/ h \in Inserting(b) /\ h \notin Inserting(b)'
    BY <1>6, <1>10
  <2> QED
    BY <1>9, <1>11, <2>1, <2>2, <2>3, ApplicationsStep DEF Keeps
<1>13. ApplicationsType
  BY <1>3, <1>4, <1>5, <1>7 DEF ApplicationsType, PermissionInv, TypeOK
<1> QED
  BY <1>9, <1>12, <1>13

LEMMA ApproveLockKeeps ==
  ASSUME PermissionInv, FeedTellsGrants, NEW h \in Handler,
         NEW p \in Application, NEW k \in Key, ApproveLock(h, p, k)
  PROVE  Keeps(h) /\ Applications' /\ ApplicationsType
<1>1. PICK a : a = application[p].account
  OBVIOUS
<1>2. PICK c : c = [[NoCall EXCEPT !.pc = "lock", !.account = a,
                                   !.application = p, !.key = k]
                      EXCEPT !.op = "approve"]
  OBVIOUS
<1>3. /\ application[p].status = "pending" /\ a \in Account /\ Exists(a)
      /\ application \in [Application -> ApplicationRow]
      /\ reviewer \in [Application -> Handler \cup {None}]
      /\ doubled \subseteq Account /\ call \in [Handler -> Call]
  BY <1>1 DEF ApproveLock, PermissionInv, Applications, TypeOK, PermissionTypeOK
<1>4. /\ c \in Call /\ c.pc = "lock" /\ c.op = "approve" /\ c.account = a
      /\ c.key = k /\ c.application = p
  BY <1>2, <1>3, NoCallType DEF Call, NoCall, Op
<1>5. /\ Continue(h, c) /\ "approve" \in operations /\ definition[k] = "active"
      /\ UNCHANGED <<dataVars, holder, fixedVars, feedVars>>
      /\ UNCHANGED <<application, doubled, rewritten>>
      /\ reviewer' = [reviewer EXCEPT ![p] = h]
  BY <1>1, <1>2 DEF ApproveLock, Start
<1>6. Held(c)
  BY <1>3, <1>4, <1>5 DEF Held, Assigns
<1>7. Keeps(h) /\ call'[h] = c
  BY <1>3, <1>4, <1>5, <1>6, StartKeeps, ContinueMoves
<1>8. Applications'
  <2>1. \A b \in Account : /\ Pending(b)' = Pending(b)
                           /\ h \notin Inserting(b)'
    BY <1>4, <1>5, <1>7 DEF Pending, Inserting
  <2>2. \A q \in Application :
         /\ application'[q].status # "none"
              => /\ application'[q].account \in Account
                 /\ Exists(application'[q].account)
         /\ application[q].status # "none"
              => /\ application'[q].status # "none"
                 /\ application'[q].account = application[q].account
    BY <1>5 DEF PermissionInv, Applications
  <2>3. \A b \in Account : \E q : Pending(b)' \subseteq Pending(b) \cup {q}
    BY <2>1
  <2>4. /\ application'[call'[h].application].status # "none"
        /\ application'[call'[h].application].account = call'[h].account
        /\ doubled \subseteq doubled'
    BY <1>1, <1>3, <1>4, <1>5, <1>7
  <2> QED
    BY <1>7, <2>1, <2>2, <2>3, <2>4, ApplicationsStep DEF Keeps
<1> QED
  BY <1>3, <1>5, <1>7, <1>8 DEF ApplicationsType, PermissionInv, TypeOK

LEMMA ApproveReadKeeps ==
  ASSUME PermissionInv, FeedTellsGrants, NEW h \in Handler, ApproveRead(h)
  PROVE  Keeps(h) /\ Applications' /\ ApplicationsType
<1>1. Keeps(h) /\ Apart(h)
  BY ReadKeeps DEF ApproveRead, Upgrade, Assigns
<1> QED
  BY <1>1, ApplicationsStay, ApplicationsUnchanged
  DEF Keeps, ApproveRead, applicationVars

LEMMA ApproveCommitKeeps ==
  ASSUME PermissionInv, FeedTellsGrants, NEW h \in Handler, ApproveCommit(h)
  PROVE  Keeps(h) /\ Applications' /\ ApplicationsType
<1>1. PICK p : p = call[h].application
  OBVIOUS
<1>2. PICK row : row = [application[p] EXCEPT !.status = "approved",
                                              !.target = call[h].key]
  OBVIOUS
<1>3. /\ call \in [Handler -> Call] /\ call[h] \in Call /\ Held(call[h])
      /\ application \in [Application -> ApplicationRow]
      /\ doubled \subseteq Account
  BY DEF PermissionInv, Handlers, TypeOK, PermissionTypeOK
<1>4. /\ call[h].pc = "commit" /\ call[h].op = "approve"
      /\ application' = [application EXCEPT ![p] = row]
      /\ reviewer' = Released(h) /\ UNCHANGED <<doubled, rewritten>>
  BY <1>1, <1>2 DEF ApproveCommit
<1>5. Keeps(h) /\ call'[h] = NoCall
  BY <1>4, WriteKeeps DEF ApproveCommit, Assigns
<1>6. /\ p \in Application /\ p # None /\ call[h].key \in Key
      /\ application[p].account = call[h].account /\ call[h].account \in Account
  BY <1>1, <1>3, <1>4, NoneAssumption
  DEF Held, Assigns, PermissionInv, Applications
<1>7. /\ row \in ApplicationRow /\ row.account \in Account
      /\ row.status = "approved" /\ row.account = application[p].account
      /\ Exists(row.account)
  <2>1. Exists(call[h].account)
    BY <1>4 DEF PermissionInv, Reads
  <2> QED
    BY <1>2, <1>3, <1>6, <2>1 DEF ApplicationRow, ApplicationStatus
<1>8. /\ application'[p] = row
      /\ \A q \in Application \ {p} : application'[q] = application[q]
  BY <1>3, <1>4, <1>6
<1>9. \A b \in Account : Pending(b)' \subseteq Pending(b) /\ h \notin Inserting(b)'
  BY <1>5, <1>7, <1>8, NoCallType DEF Pending, Inserting
<1>10. \A q \in Application :
         /\ application'[q].status # "none"
              => /\ application'[q].account \in Account
                 /\ Exists(application'[q].account)
         /\ application[q].status # "none"
              => /\ application'[q].status # "none"
                 /\ application'[q].account = application[q].account
  BY <1>7, <1>8 DEF PermissionInv, Applications
<1>11. Applications'
  <2>1. \A b \in Account : \E q : Pending(b)' \subseteq Pending(b) \cup {q}
    BY <1>9
  <2> QED
    BY <1>4, <1>5, <1>9, <1>10, <2>1, ApplicationsStep, NoCallType DEF Keeps
<1> QED
  BY <1>3, <1>4, <1>5, <1>7, <1>11, ReleasedType
  DEF ApplicationsType, PermissionInv, TypeOK

LEMMA RejectKeeps ==
  ASSUME PermissionInv, FeedTellsGrants, NEW h \in Handler,
         NEW p \in Application, Reject(h, p)
  PROVE  Keeps(h) /\ Applications' /\ ApplicationsType
<1>1. /\ call \in [Handler -> Call] /\ call[h] \in Call /\ Held(call[h])
      /\ holder \in [Account -> Handler \cup {None}]
      /\ application \in [Application -> ApplicationRow]
      /\ reviewer \in [Application -> Handler \cup {None}]
      /\ doubled \subseteq Account
      /\ Reads(h)
  BY DEF PermissionInv, Handlers, TypeOK, PermissionTypeOK
<1>2. /\ call[h].pc = "idle" /\ application[p].status = "pending"
      /\ application' = [application EXCEPT ![p].status = "rejected"]
      /\ UNCHANGED permissionVars /\ UNCHANGED <<reviewer, doubled, rewritten>>
  BY DEF Reject
<1>3. Continue(h, call[h]) /\ call' = call
  BY <1>1, <1>2 DEF Continue, permissionVars
<1>4. Reads(h)' /\ Locks(h)
  BY <1>2, <1>3, OwnLocks DEF Reads, permissionVars, PermissionInv, TypeOK
<1>5. Keeps(h)
  BY <1>1, <1>2, <1>3, <1>4, CalmKeeps
  DEF permissionVars, dataVars, PermissionInv, TypeOK, PermissionTypeOK
<1>6. PICK row : row = [application[p] EXCEPT !.status = "rejected"]
  OBVIOUS
<1>7. /\ row \in ApplicationRow /\ row.status = "rejected"
      /\ row.account = application[p].account
  BY <1>1, <1>6 DEF ApplicationRow, ApplicationStatus
<1>8. /\ application'[p] = row
      /\ \A q \in Application \ {p} : application'[q] = application[q]
      /\ application' \in [Application -> ApplicationRow]
  BY <1>1, <1>2, <1>6, <1>7
<1>9. \A b \in Account : Pending(b)' \subseteq Pending(b) /\ h \notin Inserting(b)'
  BY <1>2, <1>3, <1>7, <1>8 DEF Pending, Inserting
<1>10. \A q \in Application :
         /\ application'[q].status # "none"
              => /\ application'[q].account \in Account
                 /\ Exists(application'[q].account)
         /\ application[q].status # "none"
              => /\ application'[q].status # "none"
                 /\ application'[q].account = application[q].account
  BY <1>2, <1>7, <1>8 DEF PermissionInv, Applications
<1>11. Applications'
  <2>1. \A b \in Account : \E q : Pending(b)' \subseteq Pending(b) \cup {q}
    BY <1>9
  <2> QED
    BY <1>2, <1>3, <1>5, <1>9, <1>10, <2>1, ApplicationsStep DEF Keeps
<1> QED
  BY <1>1, <1>2, <1>5, <1>8, <1>11 DEF ApplicationsType, PermissionInv, TypeOK

LEMMA ApplicationCrashKeeps ==
  ASSUME PermissionInv, FeedTellsGrants, NEW h \in Handler, ApplicationCrash(h)
  PROVE  Keeps(h) /\ Applications' /\ ApplicationsType
<1>1. Keeps(h) /\ Apart(h)
  BY StopKeeps DEF ApplicationCrash, Crash
<1>2. Applications'
  BY <1>1, ApplicationsStay DEF Keeps, ApplicationCrash
<1>3. ApplicationsType
  BY ReleasedType DEF ApplicationsType, ApplicationCrash, PermissionInv, TypeOK
<1> QED
  BY <1>1, <1>2, <1>3

-----------------------------------------------------------------------------
LEMMA HandlerStepKeeps ==
  ASSUME PermissionInv, FeedTellsGrants, NEW h \in Handler,
         \/ (AssignmentStep(h) \/ DefinitionStep(h)) /\ UNCHANGED applicationVars
         \/ ApplyStep(h)
         \/ ReviewStep(h)
         \/ ApplicationCrash(h)
  PROVE  Keeps(h) /\ Applications' /\ ApplicationsType
<1>1. CASE (AssignmentStep(h) \/ DefinitionStep(h)) /\ UNCHANGED applicationVars
  <2>1. ASSUME ReadRow(h) PROVE Keeps(h) /\ Apart(h)
    BY <2>1, StopKeeps, ReadKeeps DEF ReadRow, Assigns
  <2>2. ASSUME AssignmentStep(h) PROVE Keeps(h) /\ Apart(h)
    <3>1. ASSUME NEW a \in Account,
                 \/ \E k \in Key : PutCheck(h, a, k)
                 \/ RevokeStart(h, a)
                 \/ FirstLoginFind(h, a)
          PROVE  Keeps(h) /\ Apart(h)
      BY <3>1, PutCheckKeeps, RevokeStartKeeps, FirstLoginFindKeeps
    <3>2. ASSUME \/ LockRow(h)
                 \/ SelectRow(h)
                 \/ CommitRow(h)
                 \/ EnsureSuperadmin(h)
                 \/ Increment(h)
                 \/ FirstLoginInsert(h)
          PROVE  Keeps(h) /\ Apart(h)
      BY <3>2, LockRowKeeps, SelectRowKeeps, CommitRowKeeps,
         EnsureSuperadminKeeps, IncrementKeeps, FirstLoginInsertKeeps
    <3> QED
      BY <2>1, <2>2, <3>1, <3>2 DEF AssignmentStep
  <2>3. ASSUME DefinitionStep(h) PROVE Keeps(h) /\ Apart(h)
    <3>1. ASSUME NEW k \in Key,
                 \/ CreateFind(h, k)
                 \/ \E s \in DefinitionStatus : UpdateFind(h, k, s)
                 \/ RemoveCount(h, k)
                 \/ \E t \in Key : MigrateCheck(h, k, t)
          PROVE  Keeps(h) /\ Apart(h)
      BY <3>1, CreateFindKeeps, UpdateFindKeeps, RemoveCountKeeps,
         MigrateCheckKeeps
    <3>2. ASSUME \/ CreateInsert(h)
                 \/ SaveDefinition(h)
                 \/ ServiceFind(h)
                 \/ ServiceSave(h)
                 \/ MigrateLock(h)
                 \/ MigrateFind(h)
                 \/ MigrateMove(h)
          PROVE  Keeps(h) /\ Apart(h)
      BY <3>2, CreateInsertKeeps, SaveDefinitionKeeps, ServiceFindKeeps,
         ServiceSaveKeeps, MigrateLockKeeps, MigrateFindKeeps, MigrateMoveKeeps
    <3> QED
      BY <2>3, <3>1, <3>2 DEF DefinitionStep
  <2>4. Keeps(h) /\ Apart(h)
    BY <1>1, <2>2, <2>3
  <2> QED
    BY <1>1, <2>4, ApplicationsStay, ApplicationsUnchanged
    DEF Keeps, applicationVars
<1>2. CASE ApplyStep(h)
  BY <1>2, ApplyCheckKeeps, ApplyFindKeeps, ApplySelectKeeps, ApplyUpdateKeeps,
     ApplyInsertKeeps
  DEF ApplyStep
<1>3. CASE ReviewStep(h)
  BY <1>3, ApproveLockKeeps, RejectKeeps, ApproveReadKeeps, ApproveCommitKeeps
  DEF ReviewStep
<1>4. CASE ApplicationCrash(h)
  BY <1>4, ApplicationCrashKeeps
<1> QED
  BY <1>1, <1>2, <1>3, <1>4

LEMMA PermissionInvNext ==
  ASSUME PermissionInv, FeedTellsGrants, [Next]_vars
  PROVE  PermissionInv' /\ FeedTellsGrants'
<1>1. CASE Next
  <2>1. PICK h \in Handler :
          \/ (AssignmentStep(h) \/ DefinitionStep(h)) /\ UNCHANGED applicationVars
          \/ ApplyStep(h)
          \/ ReviewStep(h)
          \/ ApplicationCrash(h)
    BY <1>1 DEF Next
  <2>2. Keeps(h) /\ Applications' /\ ApplicationsType
    BY <2>1, HandlerStepKeeps
  <2>3. TypeOK'
    BY <2>2 DEF TypeOK, Keeps, ApplicationsType
  <2>4. ASSUME NEW g \in Handler PROVE Held(call[g])' /\ Reads(g)'
    <3>1. CASE g = h
      BY <2>2, <3>1 DEF Keeps
    <3>2. CASE g # h
      BY <2>2, <3>2, OthersKeep DEF Keeps, PermissionInv
    <3> QED
      BY <3>1, <3>2
  <2>5. Handlers'
    BY <2>3, <2>4 DEF Handlers, TypeOK, PermissionTypeOK
  <2> QED
    BY <2>2, <2>3, <2>4, <2>5 DEF Keeps, PermissionInv
<1>2. CASE UNCHANGED vars
  BY <1>2
  DEF vars, permissionVars, dataVars, fixedVars, feedVars, applicationVars,
      PermissionInv, TypeOK, PermissionTypeOK, Handlers, Held, Rows, Reads,
      Applications, Locked, Exists, Assigned, Pending, Inserting,
      FeedTellsGrants, Granted
<1> QED
  BY <1>1, <1>2

LEMMA PermissionInvInit ==
  ASSUME Init
  PROVE  PermissionInv /\ FeedTellsGrants
<1>1. /\ PermissionInit /\ application = [p \in Application |-> NoApplication]
      /\ reviewer = [p \in Application |-> None] /\ doubled = {} /\ rewritten = {}
  BY DEF Init
<1>2. PermissionTypeOK
  BY <1>1, NoCallType, VersionAssumption
  DEF PermissionInit, PermissionTypeOK, DefinitionStatus, NoAssignment, Assignment
<1>3. TypeOK
  BY <1>1, <1>2 DEF TypeOK, ApplicationRow, ApplicationStatus, NoApplication
<1>4. \A h \in Handler : call[h] = NoCall
  BY <1>1 DEF PermissionInit
<1>5. Handlers /\ \A h \in Handler : Reads(h)
  BY <1>4, NoCallType DEF Handlers, Reads
<1>6. Rows
  BY <1>1 DEF PermissionInit, Rows, Exists, NoAssignment
<1>7. Applications
  <2>1. \A a \in Account : Pending(a) = {} /\ Inserting(a) = {}
    BY <1>1, <1>4, NoCallType DEF Pending, Inserting, NoApplication
  <2> QED
    BY <1>1, <1>4, <2>1, NoCallType, FS_EmptySet
    DEF Applications, NoApplication
<1>8. FeedTellsGrants
  BY <1>1 DEF PermissionInit, FeedTellsGrants, Granted, GrantIn, NoAssignment
<1> QED
  BY <1>3, <1>5, <1>6, <1>7, <1>8 DEF PermissionInv

LEMMA PermissionInvHolds == Spec => [](PermissionInv /\ FeedTellsGrants)
BY PermissionInvInit, PermissionInvNext, PTL DEF Spec

(* Types of the rows, of the locals of every handler and of the feed.      *)
THEOREM PermissionsTypeCorrect == Spec => []TypeOK
<1>1. PermissionInv => TypeOK
  BY DEF PermissionInv
<1> QED
  BY <1>1, PermissionInvHolds, PTL

(* The feed: a service that applies the events in order knows each grant,  *)
(* but for the silent changes, with any number of handlers.                *)
THEOREM FeedTellsGrantsHolds == Spec => []FeedTellsGrants
BY PermissionInvHolds, PTL

(* One pending application for an account, with any number of requests.    *)
THEOREM OnePendingHolds == Spec => []OnePending
<1>1. PermissionInv => OnePending
  <2> SUFFICES ASSUME PermissionInv, NEW a \in Account, a \notin doubled
               PROVE  ~(Cardinality(Pending(a)) > 1)
    BY DEF OnePending
  <2>1. PICK S : S = Pending(a)
    OBVIOUS
  <2>2. \A p, q \in S : p = q
    BY <2>1 DEF PermissionInv, Applications
  <2>3. CASE S = {}
    BY <2>1, <2>3, FS_EmptySet
  <2>4. CASE S # {}
    <3>1. PICK p : S = {p}
      BY <2>2, <2>4
    <3>2. Cardinality({p}) = 1
      BY FS_Singleton
    <3> QED
      BY <2>1, <3>1, <3>2
  <2> QED
    BY <2>3, <2>4
<1> QED
  BY <1>1, PermissionInvHolds, PTL

-----------------------------------------------------------------------------
(* The steps that write a row of the assignments.                          *)
LEMMA WritersOfGrants ==
  ASSUME NEW h \in Handler,
         \/ (AssignmentStep(h) \/ DefinitionStep(h)) /\ UNCHANGED applicationVars
         \/ ApplyStep(h)
         \/ ReviewStep(h)
         \/ ApplicationCrash(h)
  PROVE  \/ UNCHANGED assignment
         \/ CommitRow(h)
         \/ ApproveCommit(h)
         \/ FirstLoginInsert(h)
         \/ MigrateMove(h)
<1>1. CASE AssignmentStep(h)
  BY <1>1 DEF AssignmentStep, PutCheck, RevokeStart, FirstLoginFind, LockRow,
              ReadRow, SelectRow, EnsureSuperadmin, Increment, Stop,
              dataVars
<1>2. CASE DefinitionStep(h)
  BY <1>2 DEF DefinitionStep, CreateFind, UpdateFind, RemoveCount, MigrateCheck,
              CreateInsert, SaveDefinition, Stop, ServiceFind, ServiceSave, MigrateLock, MigrateFind, dataVars
<1>3. CASE ApplyStep(h)
  BY <1>3 DEF ApplyStep, ApplyCheck, ApplyFind, ApplySelect, ApplyUpdate,
              ApplyInsert, dataVars
<1>4. CASE ReviewStep(h)
  BY <1>4 DEF ReviewStep, ApproveLock, ApproveRead, Reject, permissionVars, dataVars
<1>5. CASE ApplicationCrash(h)
  BY <1>5 DEF ApplicationCrash, Crash, Stop, dataVars
<1> QED
  BY <1>1, <1>2, <1>3, <1>4, <1>5

(* The row that an approval locked and read is the one that it writes: no  *)
(* put, revoke, migration or other approval comes between the comparison   *)
(* of the ranks and the write.                                             *)
LEMMA ApprovalRaises ==
  ASSUME PermissionInv, FeedTellsGrants, Next,
         NEW h \in Handler, Approves(h)
  PROVE  LET a == call[h].account IN
         /\ assignment[a].status = "active"
         /\ Rank[assignment[a].key] < Rank[assignment'[a].key]
<1>1. PICK g \in Handler :
        \/ (AssignmentStep(g) \/ DefinitionStep(g)) /\ UNCHANGED applicationVars
        \/ ApplyStep(g)
        \/ ReviewStep(g)
        \/ ApplicationCrash(g)
  BY DEF Next
<1>2. /\ call[h].op = "approve" /\ call[h].pc = "commit" /\ call'[h].pc = "idle"
      /\ application' # application
  BY DEF Approves
<1>3. /\ call[h] \in Call /\ Held(call[h]) /\ Reads(h)
      /\ assignment \in [Account -> Assignment]
  BY DEF PermissionInv, Handlers, TypeOK, PermissionTypeOK
<1>4. g = h
  <2>1. Respects(g)
    BY <1>1, HandlerStepKeeps DEF Keeps
  <2>2. SUFFICES ASSUME h # g PROVE FALSE
    OBVIOUS
  <2> QED
    BY <1>2, <2>1, <2>2 DEF Respects
<1>5. ApproveCommit(h)
  BY <1>1, <1>2, <1>4
  DEF applicationVars, ApplyStep, ApplyCheck, ApplyFind, ApplySelect, ApplyUpdate,
      ApplyInsert, ReviewStep, ApproveLock, Reject, ApproveRead, ApplicationCrash
<1>6. call[h].row # NoAssignment /\ Locked(h)
  BY <1>2, <1>3 DEF Reads, NoAssignment, Assigns
<1>7. call[h].account \in Account /\ Saved(h, call[h].account) = Wanted(h)
  BY <1>2, <1>6, SavedIs DEF Assigns
<1>8. /\ call[h].row = assignment[call[h].account]
      /\ call[h].row.status = "active"
      /\ Rank[call[h].row.key] < Rank[call[h].key]
  BY <1>2, <1>3, <1>6 DEF Reads, Assigns
<1>9. assignment'[call[h].account] = Wanted(h) /\ Wanted(h).key = call[h].key
  BY <1>2, <1>3, <1>5, <1>7, WantedIs DEF ApproveCommit, WriteRow
<1> QED
  BY <1>8, <1>9

THEOREM ApprovalsRaiseHolds == Spec => ApprovalsRaise
<1> DEFINE Raises == \A h \in Handler :
             Approves(h)
               => LET a == call[h].account IN
                  /\ assignment[a].status = "active"
                  /\ Rank[assignment[a].key] < Rank[assignment'[a].key]
<1>1. PermissionInv /\ FeedTellsGrants /\ [Next]_vars => [Raises]_vars
  BY ApprovalRaises
<1> QED
  BY <1>1, PermissionInvHolds, PTL DEF Spec, ApprovalsRaise

-----------------------------------------------------------------------------
(* What justifies a grant of key k to account a.                           *)
Justified(a, k) == k \in {Visitor, Superadmin} \/ Approved(a, k)

(* A reviewer has the application that it approves locked and pending.     *)
Reviewing ==
  \A h \in Handler :
    call[h].op = "approve" /\ call[h].pc # "idle" =>
      /\ reviewer[call[h].application] = h
      /\ application[call[h].application].status = "pending"

(* Neither put nor migrate: every row, and every row that a revocation     *)
(* read and may still write back, has a key that is justified.             *)
Grants ==
  operations \cap {"put", "migrate"} = {} =>
    /\ \A a \in Account : Exists(a) => Justified(a, assignment[a].key)
    /\ \A h \in Handler :
         call[h].op = "revoke" /\ call[h].pc \in {"select", "commit"}
           => Justified(call[h].account, call[h].row.key)

GrantsInv == PermissionInv /\ FeedTellsGrants /\ Reviewing /\ Grants

(* A step of h, of those that Next is made of.                             *)
Step(h) ==
  \/ (AssignmentStep(h) \/ DefinitionStep(h)) /\ UNCHANGED applicationVars
  \/ ApplyStep(h)
  \/ ReviewStep(h)
  \/ ApplicationCrash(h)

(* An approved application stays, unless it is marked; a row that another  *)
(* reviewer has locked is left alone.                                      *)
LEMMA ApplicationsMove ==
  ASSUME PermissionInv, Reviewing, NEW h \in Handler, Step(h)
  PROVE  /\ rewritten \subseteq rewritten'
         /\ \A p \in Application :
              \/ application'[p] = application[p]
              \/ application[p].account = None
              \/ /\ application'[p].account = application[p].account
                 /\ application[p].status = "approved" => p \in rewritten'
         /\ \A p \in Application, g \in Handler \ {h} :
              reviewer[p] = g /\ application[p].status = "pending"
                => reviewer'[p] = g /\ application'[p] = application[p]
<1>1. /\ application \in [Application -> ApplicationRow]
      /\ reviewer \in [Application -> Handler \cup {None}]
      /\ call[h] \in Call /\ Held(call[h])
  BY DEF PermissionInv, TypeOK, Handlers
<1>2. CASE UNCHANGED <<application, rewritten>> /\ reviewer' \in {reviewer, Released(h)}
  BY <1>1, <1>2 DEF Released
<1>3. CASE ApplyUpdate(h)
  <2>1. PICK p : p = call[h].application
    OBVIOUS
  <2>2. PICK row : row =
          [application[p] EXCEPT
             !.status = IF "status" \in call[h].columns THEN "pending" ELSE @,
             !.target = IF "key" \in call[h].columns THEN call[h].target ELSE @]
    OBVIOUS
  <2>3. /\ p # None /\ ReviewerFree(h, p) /\ reviewer' = reviewer
        /\ application' = [application EXCEPT ![p] = row]
        /\ rewritten' = IF application[p].status = "approved" /\ call[h].columns # {}
                        THEN rewritten \cup {p} ELSE rewritten
    BY <1>3, <2>1, <2>2 DEF ApplyUpdate
  <2>4. p \in Application
    BY <1>1, <2>1, <2>3 DEF Call
  <2>5. row.account = application[p].account
    BY <1>1, <2>2, <2>4 DEF ApplicationRow
  <2>6. call[h].columns = {} => row = application[p]
    BY <1>1, <2>2, <2>4 DEF ApplicationRow
  <2>7. /\ application'[p] = row
        /\ \A q \in Application \ {p} : application'[q] = application[q]
    BY <1>1, <2>3, <2>4
  <2> QED
    BY <2>3, <2>5, <2>6, <2>7, NoneAssumption DEF ReviewerFree
<1>4. CASE ApplyInsert(h)
  <2>1. PICK p \in Application :
          /\ application[p] = NoApplication
          /\ \E row : application' = [application EXCEPT ![p] = row]
    BY <1>4 DEF ApplyInsert
  <2>2. /\ application[p].account = None /\ application[p].status = "none"
        /\ \A q \in Application \ {p} : application'[q] = application[q]
    BY <1>1, <2>1 DEF NoApplication
  <2> QED
    BY <1>4, <2>2 DEF ApplyInsert
<1>5. CASE \E p \in Application, k \in Key : ApproveLock(h, p, k)
  <2>1. PICK p \in Application, k \in Key : ApproveLock(h, p, k)
    BY <1>5
  <2>2. /\ ReviewerFree(h, p) /\ reviewer' = [reviewer EXCEPT ![p] = h]
        /\ UNCHANGED <<application, rewritten>>
    BY <2>1 DEF ApproveLock
  <2> QED
    BY <1>1, <2>2, NoneAssumption DEF ReviewerFree
<1>6. CASE ApproveCommit(h)
  <2>1. PICK p : p = call[h].application
    OBVIOUS
  <2>2. PICK row : row = [application[p] EXCEPT !.status = "approved",
                                                !.target = call[h].key]
    OBVIOUS
  <2>3. /\ call[h].op = "approve" /\ call[h].pc = "commit"
        /\ application' = [application EXCEPT ![p] = row]
        /\ reviewer' = Released(h) /\ rewritten' = rewritten
    BY <1>6, <2>1, <2>2 DEF ApproveCommit
  <2>4. /\ p \in Application /\ reviewer[p] = h /\ application[p].status = "pending"
    BY <1>1, <2>1, <2>3 DEF Reviewing, Held
  <2>5. row.account = application[p].account
    BY <1>1, <2>2, <2>4 DEF ApplicationRow
  <2>6. /\ application'[p] = row
        /\ \A q \in Application \ {p} : application'[q] = application[q]
    BY <1>1, <2>3, <2>4
  <2> QED
    BY <1>1, <2>3, <2>4, <2>5, <2>6 DEF Released
<1>7. CASE \E p \in Application : Reject(h, p)
  <2>1. PICK p \in Application : Reject(h, p)
    BY <1>7
  <2>2. PICK row : row = [application[p] EXCEPT !.status = "rejected"]
    OBVIOUS
  <2>3. /\ application[p].status = "pending" /\ reviewer[p] = None
        /\ application' = [application EXCEPT ![p] = row]
        /\ UNCHANGED <<reviewer, rewritten>>
    BY <2>1, <2>2 DEF Reject
  <2>4. /\ application'[p] = row /\ row.account = application[p].account
        /\ \A q \in Application \ {p} : application'[q] = application[q]
    BY <1>1, <2>2, <2>3 DEF ApplicationRow
  <2> QED
    BY <2>3, <2>4, NoneAssumption
<1>8. \/ UNCHANGED <<application, rewritten>> /\ reviewer' \in {reviewer, Released(h)}
      \/ ApplyUpdate(h)
      \/ ApplyInsert(h)
      \/ \E p \in Application, k \in Key : ApproveLock(h, p, k)
      \/ ApproveCommit(h)
      \/ \E p \in Application : Reject(h, p)
  BY DEF Step, applicationVars, ApplyStep, ApplyCheck, ApplyFind, ApplySelect,
         ReviewStep, ApproveRead, ApplicationCrash
<1> QED
  BY <1>2, <1>3, <1>4, <1>5, <1>6, <1>7, <1>8

LEMMA JustifiedStays ==
  ASSUME PermissionInv, Reviewing, NEW h \in Handler, Step(h),
         NEW a \in Account, NEW k, Justified(a, k)
  PROVE  Justified(a, k)'
<1>1. CASE k \in {Visitor, Superadmin}
  BY <1>1 DEF Justified
<1>2. CASE Approved(a, k)
  <2>1. PICK p \in Application :
          /\ application[p].account = a
          /\ \/ application[p].status = "approved" /\ application[p].target = k
             \/ p \in rewritten
    BY <1>2 DEF Approved
  <2>2. application[p].account # None
    BY <2>1, NoneAssumption
  <2>3. /\ application'[p].account = a
        /\ \/ application'[p].status = "approved" /\ application'[p].target = k
           \/ p \in rewritten'
    BY <2>1, <2>2, ApplicationsMove
  <2> QED
    BY <2>3 DEF Justified, Approved
<1> QED
  BY <1>1, <1>2 DEF Justified

(* How the locals of h move: it goes on as what it is, or it ends, or it   *)
(* is neither an approval nor a revocation that has read its row.          *)
Goes(h) ==
  /\ call[h].pc # "idle"
  /\ call'[h].op = call[h].op
  /\ call'[h].application = call[h].application
  /\ call'[h].account = call[h].account
  /\ call[h].op = "revoke" /\ call'[h].pc \in {"select", "commit"} =>
       \/ call[h].pc = "select" /\ call'[h].row = call[h].row
       \/ /\ call'[h].row = assignment[call[h].account]
          /\ assignment[call[h].account].status = "active"

Leaves(h) ==
  \/ call'[h].pc = "idle"
  \/ call'[h].op \notin {"approve", "revoke"}
  \/ call'[h].op = "revoke" /\ call'[h].pc = "lock"

LEMMA HandlerMoves ==
  ASSUME PermissionInv, NEW h \in Handler,
         \/ AssignmentStep(h)
         \/ DefinitionStep(h)
         \/ ApplyStep(h)
         \/ ApproveRead(h)
         \/ ApproveCommit(h)
         \/ Crash(h)
  PROVE  Goes(h) \/ Leaves(h)
<1>1. /\ call \in [Handler -> Call] /\ call[h] \in Call /\ Held(call[h])
  BY DEF PermissionInv, TypeOK, PermissionTypeOK, Handlers
<1>2. ASSUME NEW c, Continue(h, c) PROVE call'[h] = c
  BY <1>1, <1>2 DEF Continue
<1>3. ASSUME Continue(h, NoCall) PROVE Leaves(h)
  BY <1>2, <1>3, NoCallType DEF Leaves
<1>4. ASSUME NEW op, NEW c \in Call, Start(h, op, c)
      PROVE  call'[h].op = op /\ call'[h].pc = c.pc
  <2>1. call'[h] = [c EXCEPT !.op = op]
    BY <1>2, <1>4 DEF Start
  <2> QED
    BY <2>1 DEF Call
<1>5. CASE \/ \E a \in Account, k \in Key : PutCheck(h, a, k)
           \/ \E a \in Account : RevokeStart(h, a) \/ FirstLoginFind(h, a)
  <2>1. ASSUME NEW a \in Account, NEW k \in Key, PutCheck(h, a, k) PROVE Leaves(h)
    <3>1. [NoCall EXCEPT !.pc = "lock", !.account = a, !.key = k] \in Call
      BY NoCallType DEF Call
    <3> QED
      BY <1>4, <2>1, <3>1 DEF PutCheck, Leaves
  <2>2. ASSUME NEW a \in Account, RevokeStart(h, a) PROVE Leaves(h)
    <3>1. PICK c : c = [NoCall EXCEPT !.pc = "lock", !.account = a]
      OBVIOUS
    <3>2. c \in Call /\ c.pc = "lock"
      BY <3>1, NoCallType DEF Call
    <3> QED
      BY <1>4, <2>2, <3>1, <3>2 DEF RevokeStart, Leaves
  <2>3. ASSUME NEW a \in Account, FirstLoginFind(h, a) PROVE Leaves(h)
    <3>1. PICK k \in Key, pc \in {"insert", "ensure"} :
            Start(h, "firstLogin",
                  [NoCall EXCEPT !.account = a, !.key = k, !.pc = pc])
      BY <2>3, KeyAssumption DEF FirstLoginFind
    <3>2. [NoCall EXCEPT !.account = a, !.key = k, !.pc = pc] \in Call
      BY NoCallType DEF Call
    <3> QED
      BY <1>4, <3>1, <3>2 DEF Leaves
  <2> QED
    BY <1>5, <2>1, <2>2, <2>3
<1>6. CASE \E k \in Key : \/ CreateFind(h, k)
                          \/ \E s \in DefinitionStatus : UpdateFind(h, k, s)
                          \/ RemoveCount(h, k)
                          \/ \E t \in Key : MigrateCheck(h, k, t)
  <2>1. ASSUME NEW k \in Key, CreateFind(h, k) PROVE Leaves(h)
    <3>1. [NoCall EXCEPT !.pc = "insert", !.key = k] \in Call
      BY NoCallType DEF Call
    <3> QED
      BY <1>4, <2>1, <3>1 DEF CreateFind, Leaves
  <2>2. ASSUME NEW k \in Key, NEW s \in DefinitionStatus, UpdateFind(h, k, s)
        PROVE  Leaves(h)
    <3>1. [NoCall EXCEPT !.pc = "save", !.key = k, !.status = s] \in Call
      BY NoCallType DEF Call
    <3> QED
      BY <1>4, <2>2, <3>1 DEF UpdateFind, Leaves
  <2>3. ASSUME NEW k \in Key, RemoveCount(h, k) PROVE Leaves(h)
    <3>1. [NoCall EXCEPT !.pc = "save", !.key = k, !.status = "removed"] \in Call
      BY NoCallType DEF Call, DefinitionStatus
    <3> QED
      BY <1>4, <2>3, <3>1 DEF RemoveCount, Leaves
  <2>4. ASSUME NEW k \in Key, NEW t \in Key, MigrateCheck(h, k, t) PROVE Leaves(h)
    <3>1. [NoCall EXCEPT !.pc = "lockAll", !.key = k, !.target = t] \in Call
      BY NoCallType DEF Call
    <3> QED
      BY <1>4, <2>4, <3>1 DEF MigrateCheck, Leaves
  <2> QED
    BY <1>6, <2>1, <2>2, <2>3, <2>4
<1>7. CASE \/ ServiceFind(h)
           \/ \E a \in Account, k \in Key \cup {None} : ApplyCheck(h, a, k)
  <2>1. ASSUME ServiceFind(h) PROVE Leaves(h)
    <3>1. version \in 0..MaxVersion
      BY VersionAssumption DEF PermissionInv, TypeOK, PermissionTypeOK
    <3>2. [NoCall EXCEPT !.pc = "save", !.version = version] \in Call
      BY <3>1, NoCallType DEF Call
    <3> QED
      BY <1>4, <2>1, <3>2 DEF ServiceFind, Leaves
  <2>2. ASSUME NEW a \in Account, NEW k \in Key \cup {None}, ApplyCheck(h, a, k)
        PROVE  Leaves(h)
    <3>1. [NoCall EXCEPT !.pc = "find", !.account = a, !.key = k] \in Call
      BY NoCallType DEF Call
    <3> QED
      BY <1>4, <2>2, <3>1 DEF ApplyCheck, Leaves
  <2> QED
    BY <1>7, <2>1, <2>2
<1>8. CASE LockRow(h)
  <2>1. call'[h] = [call[h] EXCEPT !.pc = "read"] /\ call[h].pc = "lock"
    BY <1>2, <1>8 DEF LockRow
  <2> QED
    BY <1>1, <2>1 DEF Goes, Call
<1>9. CASE ReadRow(h) \/ ApproveRead(h)
  <2>1. CASE Stop(h)
    BY <1>3, <2>1 DEF Stop
  <2>2. CASE ~Stop(h)
    <3>1. /\ call[h].pc = "read" /\ ReadAs(h, call[h].account)
          /\ call[h].op = "revoke" => assignment[call[h].account].status = "active"
      BY <1>9, <2>2 DEF ReadRow, ApproveRead
    <3>2. PICK pc : call'[h] = [call[h] EXCEPT !.pc = pc,
                                  !.row = assignment[call[h].account],
                                  !.columns = {"status", "key"}]
      BY <1>2, <3>1 DEF ReadAs
    <3> QED
      BY <1>1, <3>1, <3>2 DEF Goes, Call
  <2> QED
    BY <2>1, <2>2
<1>10. CASE SelectRow(h)
  <2>1. PICK C : call'[h] = [call[h] EXCEPT !.pc = "commit", !.columns = C]
    BY <1>2, <1>10 DEF SelectRow
  <2> QED
    BY <1>1, <1>10, <2>1 DEF Goes, Call, SelectRow
<1>11. CASE \/ CommitRow(h) \/ ApproveCommit(h) \/ FirstLoginInsert(h)
            \/ ServiceSave(h) \/ MigrateMove(h) \/ Crash(h)
            \/ ApplyUpdate(h) \/ ApplyInsert(h)
  BY <1>3, <1>11
  DEF CommitRow, ApproveCommit, WriteRow, FirstLoginInsert, ServiceSave,
      MigrateMove, Crash, Stop, ApplyUpdate, ApplyInsert
<1>12. CASE \/ EnsureSuperadmin(h) \/ Increment(h) \/ CreateInsert(h)
            \/ SaveDefinition(h) \/ MigrateLock(h) \/ MigrateFind(h)
  <2>1. CASE call'[h] = NoCall
    BY <2>1, NoCallType DEF Leaves
  <2>2. CASE call'[h] # NoCall
    <3>1. \/ call'[h] = [call[h] EXCEPT !.pc = "increment"]
          \/ call'[h] = [call[h] EXCEPT !.pc = "insert"]
          \/ call'[h] = [call[h] EXCEPT !.pc = "find"]
          \/ call'[h] = [call[h] EXCEPT !.pc = "move",
                                        !.found = Assigned(call[h].key)]
      BY <1>2, <1>12, <2>2
      DEF EnsureSuperadmin, Increment, CreateInsert, SaveDefinition,
          MigrateLock, MigrateFind, Stop
    <3>2. call'[h].op = call[h].op
      BY <1>1, <3>1 DEF Call
    <3>3. call[h].op \notin {"approve", "revoke"}
      BY <1>1, <1>2, <1>12, <2>2
      DEF EnsureSuperadmin, Increment, CreateInsert, SaveDefinition,
          MigrateLock, MigrateFind, Stop, Held
    <3> QED
      BY <3>2, <3>3 DEF Leaves
  <2> QED
    BY <2>1, <2>2
<1>13. CASE ApplyFind(h) \/ ApplySelect(h)
  <2>1. call[h].op = "apply" /\ call[h].pc # "idle"
    BY <1>13 DEF ApplyFind, ApplySelect
  <2>2. call'[h].op = "apply"
    <3>1. \/ \E t : call'[h] = [call[h] EXCEPT !.pc = "commit", !.target = t]
          \/ \E p, t : call'[h] = [call[h] EXCEPT !.pc = "select",
                                       !.application = p, !.target = t]
          \/ \E C : call'[h] = [call[h] EXCEPT !.pc = "commit", !.columns = C]
      BY <1>2, <1>13 DEF ApplyFind, ApplySelect
    <3> QED
      BY <1>1, <2>1, <3>1 DEF Call
  <2> QED
    BY <2>2 DEF Leaves
<1> QED
  BY <1>5, <1>6, <1>7, <1>8, <1>9, <1>10, <1>11, <1>12, <1>13
  DEF AssignmentStep, DefinitionStep, ApplyStep

(* The steps that write a row, with neither put nor migrate.               *)
LEMMA RowsAreJustified ==
  ASSUME GrantsInv, NEW h \in Handler, Step(h),
         operations \cap {"put", "migrate"} = {}, NEW a \in Account, Exists(a)'
  PROVE  Justified(a, assignment[a].key)'
<1>1. /\ call[h] \in Call /\ Held(call[h]) /\ Reads(h)
      /\ assignment \in [Account -> Assignment]
      /\ application \in [Application -> ApplicationRow]
      /\ PermissionInv /\ FeedTellsGrants
  BY DEF GrantsInv, PermissionInv, TypeOK, PermissionTypeOK, Handlers
<1>2. ASSUME NEW b \in Account, NEW k, Justified(b, k) PROVE Justified(b, k)'
  BY <1>2, JustifiedStays DEF GrantsInv
<1>3. ASSUME assignment'[a] = assignment[a] PROVE Justified(a, assignment[a].key)'
  <2>1. PICK k : k = assignment[a].key
    OBVIOUS
  <2>2. Justified(a, k)
    BY <1>3, <2>1 DEF GrantsInv, Grants, Exists
  <2>3. Justified(a, k)'
    BY <1>2, <2>2
  <2> QED
    BY <1>3, <2>1, <2>3 DEF Justified, Approved
<1>4. CASE CommitRow(h) /\ ~UNCHANGED assignment
  <2>1. /\ call[h].pc = "commit" /\ call[h].op = "revoke"
        /\ assignment' = [assignment EXCEPT
                           ![call[h].account] = Saved(h, call[h].account)]
    BY <1>1, <1>4 DEF CommitRow, WriteRow, Stop, dataVars, Held
  <2>2. CASE a # call[h].account
    BY <1>1, <1>3, <2>1, <2>2
  <2>3. CASE a = call[h].account
    <3>1. assignment'[a] = Saved(h, a)
      BY <1>1, <2>1, <2>3
    <3>2. PICK k : k = assignment'[a].key
      OBVIOUS
    <3>3. k \in {call[h].row.key, assignment[a].key}
      BY <2>1, <3>1, <3>2 DEF Saved, Wanted
    <3>4. Justified(a, call[h].row.key)
      BY <2>1, <2>3 DEF GrantsInv, Grants
    <3>5. CASE Exists(a)
      <4>1. Justified(a, assignment[a].key)
        BY <3>5 DEF GrantsInv, Grants
      <4>2. Justified(a, k)'
        BY <1>2, <3>3, <3>4, <4>1
      <4> QED
        BY <3>2, <4>2 DEF Justified, Approved
    <3>6. CASE ~Exists(a)
      <4>1. call[h].columns = {"status", "key"}
        BY <1>1, <2>1, <2>3, <3>6 DEF Reads, Assigns
      <4>2. k = call[h].row.key
        BY <1>1, <2>1, <3>1, <3>2, <4>1 DEF Saved, Wanted, Call, Assignment
      <4>3. Justified(a, k)'
        BY <1>2, <3>4, <4>2
      <4> QED
        BY <3>2, <4>3 DEF Justified, Approved
    <3> QED
      BY <3>5, <3>6
  <2> QED
    BY <2>2, <2>3
<1>5. CASE ApproveCommit(h)
  <2>1. PICK p : p = call[h].application
    OBVIOUS
  <2>2. PICK row : row = [application[p] EXCEPT !.status = "approved",
                                                !.target = call[h].key]
    OBVIOUS
  <2>3. /\ call[h].pc = "commit" /\ call[h].op = "approve"
        /\ assignment' = [assignment EXCEPT
                           ![call[h].account] = Saved(h, call[h].account)]
        /\ application' = [application EXCEPT ![p] = row]
    BY <1>5, <2>1, <2>2 DEF ApproveCommit, WriteRow
  <2>4. /\ p \in Application /\ application[p].account = call[h].account
    BY <1>1, <2>1, <2>3, NoneAssumption DEF Held, PermissionInv, Applications
  <2>5. CASE a # call[h].account
    BY <1>1, <1>3, <2>3, <2>5
  <2>6. CASE a = call[h].account
    <3>1. assignment'[a] = Saved(h, a)
      BY <1>1, <2>3, <2>6
    <3>2. Saved(h, a) = Wanted(h) /\ Wanted(h).key = call[h].key
      BY <1>1, <2>3, <2>6, SavedIs, WantedIs DEF Reads, Assigns
    <3>3. /\ application'[p].account = a
          /\ application'[p].status = "approved"
          /\ application'[p].target = call[h].key
      BY <1>1, <2>2, <2>3, <2>4, <2>6 DEF ApplicationRow
    <3>4. Approved(a, assignment[a].key)'
      BY <2>4, <3>1, <3>2, <3>3 DEF Approved
    <3> QED
      BY <3>4 DEF Justified
  <2> QED
    BY <2>5, <2>6
<1>6. CASE FirstLoginInsert(h) /\ ~UNCHANGED assignment
  <2>1. /\ call[h].pc = "insert" /\ call[h].op = "firstLogin"
        /\ assignment' = [assignment EXCEPT ![call[h].account] =
                            [status |-> "active", key |-> call[h].key]]
    BY <1>6 DEF FirstLoginInsert, Stop, dataVars
  <2>2. call[h].key \in {Visitor, Superadmin}
    BY <1>1, <2>1 DEF Held
  <2>3. CASE a # call[h].account
    BY <1>1, <1>3, <2>1, <2>3
  <2>4. CASE a = call[h].account
    <3>1. assignment'[a].key \in {Visitor, Superadmin}
      BY <1>1, <2>1, <2>2, <2>4
    <3> QED
      BY <3>1 DEF Justified
  <2> QED
    BY <2>3, <2>4
<1>7. ~MigrateMove(h)
  BY <1>1 DEF MigrateMove, Held
<1> QED
  BY <1>3, <1>4, <1>5, <1>6, <1>7, WritersOfGrants DEF Step

LEMMA GrantsInvNext ==
  ASSUME GrantsInv, [Next]_vars
  PROVE  GrantsInv'
<1>1. CASE Next
  <2>1. PICK h \in Handler : Step(h)
    BY <1>1 DEF Next, Step
  <2>2. PermissionInv' /\ FeedTellsGrants'
    BY PermissionInvNext DEF GrantsInv
  <2>3. /\ Respects(h) /\ call \in [Handler -> Call]
        /\ \A g \in Handler : call[g] \in Call /\ Held(call[g])
    BY <2>1, HandlerStepKeeps
    DEF Step, GrantsInv, Keeps, PermissionInv, TypeOK, PermissionTypeOK, Handlers
  <2>4. \/ \E p \in Application, k \in Key : ApproveLock(h, p, k)
        \/ \E p \in Application : Reject(h, p)
        \/ Goes(h) \/ Leaves(h)
    BY <2>1, HandlerMoves DEF Step, ReviewStep, ApplicationCrash, GrantsInv
  <2>5. ASSUME \E p \in Application : Reject(h, p)
        PROVE  call'[h].pc = "idle"
    BY <2>5 DEF Reject, permissionVars
  <2>6. ASSUME NEW p \in Application, NEW k \in Key, ApproveLock(h, p, k)
        PROVE  /\ call'[h].op = "approve" /\ call'[h].application = p
               /\ reviewer'[p] = h /\ application'[p].status = "pending"
    <3>1. PICK a : a = application[p].account
      OBVIOUS
    <3>2. PICK c : c = [[NoCall EXCEPT !.pc = "lock", !.account = a,
                                       !.application = p, !.key = k]
                          EXCEPT !.op = "approve"]
      OBVIOUS
    <3>3. c.op = "approve" /\ c.application = p
      BY <3>2 DEF NoCall
    <3>4. call'[h] = c
      BY <2>3, <2>6, <3>1, <3>2 DEF ApproveLock, Start, Continue
    <3> QED
      BY <2>6, <3>3, <3>4 DEF ApproveLock, GrantsInv, PermissionInv, TypeOK
  <2>7. ASSUME NEW g \in Handler, call'[g].op = "approve", call'[g].pc # "idle"
        PROVE  /\ reviewer'[call'[g].application] = g
               /\ application'[call'[g].application].status = "pending"
    <3>1. CASE g # h
      <4>1. call'[g] = call[g] /\ call[g].application \in Application
        BY <2>3, <2>7, <3>1 DEF Respects, Held
      <4>2. /\ reviewer[call[g].application] = g
            /\ application[call[g].application].status = "pending"
        BY <2>7, <4>1 DEF GrantsInv, Reviewing
      <4> QED
        BY <2>1, <3>1, <4>1, <4>2, ApplicationsMove DEF GrantsInv
    <3>2. CASE g = h /\ \E p \in Application, k \in Key : ApproveLock(h, p, k)
      BY <2>6, <3>2
    <3>3. CASE g = h /\ ~\E p \in Application, k \in Key : ApproveLock(h, p, k)
      <4>1. Goes(h)
        BY <2>4, <2>5, <2>7, <3>3 DEF Leaves
      <4>2. /\ call'[h].application = call[h].application
            /\ reviewer[call[h].application] = h
            /\ application[call[h].application].status = "pending"
        BY <2>7, <3>3, <4>1 DEF Goes, GrantsInv, Reviewing
      <4>3. UNCHANGED <<application, reviewer>>
        <5>1. call'[h] # NoCall /\ ~\E p \in Application : Reject(h, p)
          BY <2>5, <2>7, <3>3, NoCallType
        <5>2. ~Continue(h, NoCall)
          BY <2>3, <5>1 DEF Continue
        <5> QED
          BY <2>1, <3>3, <5>1, <5>2
          DEF Step, applicationVars, ApplyStep, ApplyCheck, ApplyFind, ApplySelect,
              ApplyUpdate, ApplyInsert, ReviewStep, ApproveRead, ApproveCommit,
              WriteRow, ApplicationCrash, Crash, Stop
      <4> QED
        BY <3>3, <4>2, <4>3
    <3> QED
      BY <3>1, <3>2, <3>3
  <2>8. Reviewing'
    BY <2>7 DEF Reviewing
  <2>9. ASSUME operations \cap {"put", "migrate"} = {}, NEW g \in Handler,
               call'[g].op = "revoke", call'[g].pc \in {"select", "commit"}
        PROVE  Justified(call[g].account, call[g].row.key)'
    <3>1. PICK a : a = call'[g].account
      OBVIOUS
    <3>2. PICK k : k = call'[g].row.key
      OBVIOUS
    <3>3. a \in Account /\ Justified(a, k)
      <4>1. CASE g # h
        <5>1. call'[g] = call[g]
          BY <2>3, <4>1 DEF Respects
        <5> QED
          BY <2>3, <2>9, <3>1, <3>2, <5>1 DEF Held, Assigns, GrantsInv, Grants
      <4>2. CASE g = h
        <5>1. Goes(h)
          BY <2>4, <2>5, <2>6, <2>9, <4>2 DEF Leaves
        <5>2. call[h].op = "revoke" /\ a = call[h].account /\ a \in Account
          BY <2>3, <2>9, <3>1, <4>2, <5>1 DEF Goes, Held, Assigns
        <5>3. CASE call[h].pc = "select" /\ call'[h].row = call[h].row
          BY <2>9, <3>2, <4>2, <5>2, <5>3 DEF GrantsInv, Grants
        <5>4. CASE /\ call'[h].row = assignment[call[h].account]
                   /\ assignment[call[h].account].status = "active"
          BY <2>9, <3>2, <4>2, <5>2, <5>4 DEF GrantsInv, Grants, Exists
        <5> QED
          BY <2>9, <4>2, <5>1, <5>2, <5>3, <5>4 DEF Goes
      <4> QED
        BY <4>1, <4>2
    <3>4. Justified(a, k)'
      BY <2>1, <3>3, JustifiedStays DEF GrantsInv
    <3> QED
      BY <3>1, <3>2, <3>4 DEF Justified, Approved
  <2>10. Grants'
    <3>1. operations' = operations
      BY <2>3 DEF Respects
    <3>2. ASSUME operations \cap {"put", "migrate"} = {}, NEW a \in Account,
                 Exists(a)'
          PROVE  Justified(a, assignment[a].key)'
      BY <2>1, <3>2, RowsAreJustified
    <3> QED
      BY <2>9, <3>1, <3>2 DEF Grants
  <2> QED
    BY <2>2, <2>8, <2>10 DEF GrantsInv
<1>2. CASE UNCHANGED vars
  <2>1. PermissionInv' /\ FeedTellsGrants'
    BY PermissionInvNext DEF GrantsInv
  <2>2. Reviewing' /\ Grants'
    BY <1>2
    DEF vars, permissionVars, dataVars, fixedVars, applicationVars, GrantsInv,
        Reviewing, Grants, Justified, Approved, Exists
  <2> QED
    BY <2>1, <2>2 DEF GrantsInv
<1> QED
  BY <1>1, <1>2

(* Whoever may do more than a first login lets him has an application that *)
(* was approved for it, with any number of accounts, reviewers and         *)
(* definitions.                                                            *)
THEOREM GrantIsApprovedHolds == Spec => []GrantIsApproved
<1>1. Init => GrantsInv
  <2> SUFFICES ASSUME Init PROVE GrantsInv
    OBVIOUS
  <2>1. PermissionInv /\ FeedTellsGrants
    BY PermissionInvInit
  <2>2. /\ \A h \in Handler : call[h].pc = "idle"
        /\ \A a \in Account : ~Exists(a)
    BY NoCallType DEF Init, PermissionInit, Exists, NoAssignment
  <2> QED
    BY <2>1, <2>2 DEF GrantsInv, Reviewing, Grants
<1>2. GrantsInv => GrantIsApproved
  BY DEF GrantsInv, Grants, Justified, GrantIsApproved
<1> QED
  BY <1>1, <1>2, GrantsInvNext, PTL DEF Spec
=============================================================================
