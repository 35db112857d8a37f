---------------------- MODULE ServiceOnboarding_proofs ----------------------
(***************************************************************************)
(* Onboarding and the rows of a service, with any number of handlers, of   *)
(* requests and of rows of each kind: type correctness, that one request   *)
(* is open, that what an approved request asks for exists, what a save may *)
(* undo, and who may leave a confidential client without a secret.         *)
(***************************************************************************)
EXTENDS ServiceOnboarding, TLAPS

(* The locals that are set while a handler runs.                           *)
Locals(c) ==
  /\ c.pc \in {"select", "commit", "insert"} => c.item \in Item
  /\ c.pc \in {"service", "createService", "updateService", "items", "find",
              "targets", "insert"} => c.op = "approve"
  /\ c.pc \in {"decide", "record"} => c.op \in {"approve", "reject", "update"}
  /\ c.pc = "exists" => c.op = "create"
  /\ c.pc \in {"supersede", "revise"} => c.op = "update"
  /\ c.pc = "request" => c.op \in {"create", "update"}
  /\ c.op = "create" => c.pc \in {"exists", "request"}
  /\ c.op = "update" => c.pc \in {"supersede", "revise", "decide", "record", "request"}
  /\ c.pc # "idle" /\ c.op \in {"approve", "reject", "update"} => c.request \in Request

Handlers == \A h \in Handler : call[h] \in Call /\ Locals(call[h])

Rows ==
  \A i \in Item : /\ row[i].status = "absent" => row[i] = NoRow
                  /\ row[i].status = "foreign" => kind[i] = "client"
                  /\ made[i] # None => row[i] # NoRow

(* A save is of a row that is the service's own; it writes what its        *)
(* handler edited, unless another wrote the row before its SELECT.  An     *)
(* entity that would lock a client out was loaded like that.               *)
Editing(h) ==
  LET c == call[h] IN
  /\ c.pc \in {"select", "commit"} =>
       /\ Owned(c.item)
       /\ c.entity.status \in {"active", "disabled"}
       /\ c.entity.type = "confidential" /\ c.entity.secret = 0
            => c.edited \cap {"type", "secret"} = {}
  /\ c.pc = "select" /\ c.item \notin c.overtaken
       => Differing(c.entity, row[c.item]) \subseteq c.edited
  /\ c.pc = "commit" /\ c.item \notin c.overtaken => c.columns \subseteq c.edited
  /\ c.pc = "insert" =>
       /\ c.entity.status = "active"
       /\ c.entity.type = "confidential" => c.entity.secret # 0

(* An approval that has come to its targets.                               *)
AtTargets(c) ==
  \/ c.pc \in {"find", "targets"}
  \/ c.pc \in {"select", "commit", "insert"} /\ kind[c.item] = "target"

Upserting == {"service", "createService", "updateService"}

(* What an approval no longer has before it is the service's own, or is    *)
(* being made; of the credentials, one for its request.                    *)
Serving(h) ==
  LET c == call[h] IN
  /\ \A i \in c.targets : Owned(i)
  /\ c.pc \in Upserting => c.left = Visited
  /\ c.op = "approve" /\ c.pc \notin {"idle"} \cup Upserting =>
       /\ service # "absent"
       /\ \A i \in (Asked \ Credentials) \ c.left :
            Owned(i) \/ (c.pc = "insert" /\ c.item = i)
       /\ Credentials # {} /\ Credentials \cap c.left = {} =>
            \/ \E i \in Credentials : made[i] = c.request
            \/ c.pc = "insert" /\ c.item \in Credentials
       /\ c.pc \in {"decide", "record"} => c.left = {}
       /\ AtTargets(c) => c.left \subseteq Targets

(* Whatever is pending and was not when h looked for it is marked.         *)
Searching(h) ==
  LET c == call[h] IN
  /\ c.op = "create" => Open \subseteq crossed
  /\ c.op = "update" =>
       /\ request[c.request] # "none"
       /\ c.pc \in {"revise", "request"} => request[c.request] # "pending"
       /\ Searched(c) =>
            c.request \in crossed \/ (Open \ {c.request}) \subseteq crossed
  /\ c.pc = "record" /\ c.columns = {} => request[c.request] \notin {"none", "pending"}

OnboardingInv ==
  /\ TypeOK
  /\ Handlers
  /\ Rows
  /\ \A h \in Handler : Editing(h) /\ Serving(h) /\ Searching(h)
  /\ OneOpenRequest
  /\ ApprovedIsProvisioned

(* What a step of another does to the locals of g.                         *)
Overtakes(g) ==
  \E b \in SUBSET Item :
    /\ call'[g] = [call[g] EXCEPT !.overtaken = b]
    /\ call[g].overtaken \subseteq b
    /\ call[g].pc = "select" /\ call[g].item \notin b
         => row'[call[g].item] = row[call[g].item]

(* What a step of h does to the others: it may overtake them, and what     *)
(* they found stays found.                                                 *)
Respects(h) ==
  /\ UNCHANGED work
  /\ \A i \in Item : /\ Owned(i) => Owned(i)'
                     /\ made[i] # None => made'[i] = made[i]
  /\ service # "absent" => service' # "absent"
  /\ \A q \in Request :
       /\ request[q] # "none" => request'[q] # "none"
       /\ request[q] \notin {"none", "pending"} => request'[q] \notin {"none", "pending"}
  /\ crossed \subseteq crossed'
  /\ \/ Open' \subseteq Open \cup crossed'
     \/ \A g \in Handler \ {h} : ~Searched(call[g])
  /\ \A g \in Handler \ {h} : Overtakes(g)

LEMMA NoCallType ==
  /\ NoCall \in Call /\ Locals(NoCall) /\ NoCall.pc = "idle" /\ NoCall.op = "edit"
  /\ NoRow \in Row /\ ForeignRow \in Row
  /\ EarlierRow \in Row /\ NoCall.targets = {}
BY MaxSecretAssumption
DEF NoCall, Call, Op, NoRow, ForeignRow, EarlierRow, Row, RowStatus, Secret, Locals

LEMMA OthersKeep ==
  ASSUME OnboardingInv, NEW h \in Handler, Respects(h), NEW g \in Handler \ {h}
  PROVE  /\ call'[g] \in Call /\ Locals(call'[g])
         /\ Editing(g)' /\ Serving(g)' /\ Searching(g)'
<1>1. /\ call[g] \in Call /\ Locals(call[g])
      /\ Editing(g) /\ Serving(g) /\ Searching(g)
  BY DEF OnboardingInv, Handlers
<1>2. PICK b \in SUBSET Item :
        /\ call'[g] = [call[g] EXCEPT !.overtaken = b]
        /\ call[g].overtaken \subseteq b
        /\ call[g].pc = "select" /\ call[g].item \notin b
             => row'[call[g].item] = row[call[g].item]
  BY DEF Respects, Overtakes
<1>3. /\ call'[g].pc = call[g].pc /\ call'[g].op = call[g].op
      /\ call'[g].item = call[g].item /\ call'[g].entity = call[g].entity
      /\ call'[g].edited = call[g].edited /\ call'[g].columns = call[g].columns
      /\ call'[g].request = call[g].request /\ call'[g].left = call[g].left
      /\ call'[g].targets = call[g].targets
      /\ call'[g].overtaken = b /\ call'[g] \in Call
  BY <1>1, <1>2 DEF Call
<1>4. Locals(call'[g])
  BY <1>1, <1>3 DEF Locals
<1>5. \A i \in Item : Owned(i) => Owned(i)'
  BY DEF Respects
<1>6. Editing(g)'
  <2>1. PICK i : i = call[g].item
    OBVIOUS
  <2>2. call[g].pc \in {"select", "commit"} => Owned(i)'
    BY <1>1, <1>5, <2>1 DEF Editing, Locals
  <2>3. call[g].pc = "select" /\ i \notin b
          => Differing(call[g].entity, row'[i]) \subseteq call[g].edited
    BY <1>1, <1>2, <2>1 DEF Editing
  <2> QED
    BY <1>1, <1>2, <1>3, <2>1, <2>2, <2>3 DEF Editing, Differing
<1>7. Serving(g)'
  <2>1. /\ Asked' = Asked /\ Credentials' = Credentials /\ kind' = kind
        /\ Targets' = Targets /\ Visited' = Visited
    BY DEF Respects, Asked, Credentials, Targets, Visited, kind
  <2>2. call[g].op = "approve" /\ call[g].pc # "idle" => call[g].request # None
    BY <1>1, NoneAssumption DEF Locals
  <2>3. \A i \in Credentials : made[i] # None => made'[i] = made[i]
    BY DEF Respects, Credentials
  <2>4. service # "absent" => service' # "absent"
    BY DEF Respects
  <2>5. /\ call[g].targets \subseteq Item
        /\ \A i \in call[g].targets : Owned(i)
        /\ call[g].pc \in Upserting => call[g].left = Visited
    BY <1>1 DEF Serving, Call
  <2>6. \A i \in call[g].targets : Owned(i)'
    BY <1>5, <2>5
  <2>7. ASSUME call[g].op = "approve", call[g].pc \notin {"idle"} \cup Upserting
        PROVE  /\ service' # "absent"
               /\ \A i \in (Asked \ Credentials) \ call[g].left :
                    Owned(i)' \/ (call[g].pc = "insert" /\ call[g].item = i)
               /\ Credentials # {} /\ Credentials \cap call[g].left = {} =>
                    \/ \E i \in Credentials : made'[i] = call[g].request
                    \/ call[g].pc = "insert" /\ call[g].item \in Credentials
               /\ call[g].pc \in {"decide", "record"} => call[g].left = {}
               /\ AtTargets(call[g]) => call[g].left \subseteq Targets
    <3>1. /\ service # "absent"
          /\ \A i \in (Asked \ Credentials) \ call[g].left :
               Owned(i) \/ (call[g].pc = "insert" /\ call[g].item = i)
          /\ Credentials # {} /\ Credentials \cap call[g].left = {} =>
               \/ \E i \in Credentials : made[i] = call[g].request
               \/ call[g].pc = "insert" /\ call[g].item \in Credentials
          /\ call[g].pc \in {"decide", "record"} => call[g].left = {}
          /\ AtTargets(call[g]) => call[g].left \subseteq Targets
      BY <1>1, <2>7 DEF Serving
    <3>2. \A i \in Asked : i \in Item
      BY DEF Asked
    <3> QED
      BY <1>5, <2>2, <2>3, <2>4, <2>7, <3>1, <3>2
  <2>8. PICK c : c = call'[g]
    OBVIOUS
  <2>9. AtTargets(c)' <=> AtTargets(call[g])
    BY <1>3, <2>1, <2>8 DEF AtTargets
  <2> QED
    BY <1>3, <2>1, <2>5, <2>6, <2>7, <2>8, <2>9 DEF Serving
<1>8. Searching(g)'
  <2>1. Searched(call[g]) => Open' \subseteq Open \cup crossed'
    BY DEF Respects
  <2>2. crossed \subseteq crossed'
    BY DEF Respects
  <2>3. call[g].op = "update" \/ call[g].pc = "record" => call[g].request \in Request
    BY <1>1 DEF Locals
  <2>4. PICK q : q = call[g].request
    OBVIOUS
  <2>5. q \in Request =>
          /\ request[q] # "none" => request'[q] # "none"
          /\ request[q] \notin {"none", "pending"}
               => request'[q] \notin {"none", "pending"}
    BY DEF Respects
  <2>6. call[g].op = "update" =>
          /\ request'[q] # "none"
          /\ call[g].pc \in {"revise", "request"} => request'[q] # "pending"
          /\ Searched(call[g]) => q \in crossed' \/ (Open' \ {q}) \subseteq crossed'
    BY <1>1, <2>1, <2>2, <2>3, <2>4, <2>5 DEF Searching
  <2>7. call[g].op = "create" => Open' \subseteq crossed'
    BY <1>1, <2>1, <2>2 DEF Searching, Searched, Locals
  <2>8. call[g].pc = "record" /\ call[g].columns = {}
          => request'[q] \notin {"none", "pending"}
    BY <1>1, <2>3, <2>4, <2>5 DEF Searching
  <2> QED
    BY <1>3, <2>4, <2>6, <2>7, <2>8 DEF Searching, Searched
<1> QED
  BY <1>3, <1>4, <1>6, <1>7, <1>8

-----------------------------------------------------------------------------
(* What every step of h comes to.                                          *)
Keeps(h) ==
  /\ Respects(h)
  /\ TypeOK' /\ Rows'
  /\ Locals(call'[h]) /\ Editing(h)' /\ Serving(h)' /\ Searching(h)'
  /\ OneOpenRequest' /\ ApprovedIsProvisioned'

LEMMA ContinueMoves ==
  ASSUME call \in [Handler -> Call], NEW h \in Handler, NEW c \in Call, Continue(h, c)
  PROVE  /\ call' \in [Handler -> Call] /\ call'[h] = c
         /\ \A g \in Handler \ {h} : call'[g] = call[g]
BY DEF Continue

LEMMA WriteMoves ==
  ASSUME OnboardingInv,
         NEW h \in Handler, NEW rows \in [Item -> Row], NEW c \in Call,
         Write(h, rows, c)
  PROVE  /\ row' = rows
         /\ call' \in [Handler -> Call] /\ call'[h] = c
         /\ \A g \in Handler \ {h} : Overtakes(g)
<1>1. row' = rows /\ call'[h] = c
  BY DEF Write
<1>2. ASSUME NEW g \in Handler \ {h}
      PROVE  call'[g] \in Call /\ Overtakes(g)
  <2>1. PICK b : b = call[g].overtaken \cup {i \in Held(call[g]) : rows[i] # row[i]}
    OBVIOUS
  <2>2. call[g] \in Call /\ Locals(call[g])
    BY DEF OnboardingInv, Handlers
  <2>3. call'[g] = [call[g] EXCEPT !.overtaken = b]
    BY <2>1 DEF Write
  <2>4. b \in SUBSET Item
    BY <2>1, <2>2 DEF Call, Held, Locals
  <2>5. call[g].pc = "select" /\ call[g].item \notin b
          => row'[call[g].item] = row[call[g].item]
    BY <1>1, <2>1 DEF Held
  <2>6. call'[g] \in Call
    BY <2>2, <2>3, <2>4 DEF Call
  <2> QED
    BY <2>1, <2>3, <2>4, <2>5, <2>6 DEF Overtakes
<1>3. \A g \in Handler : call'[g] \in Call
  BY <1>1, <1>2
<1>4. call' = [g \in Handler |-> call'[g]]
  BY DEF Write
<1> QED
  BY <1>1, <1>2, <1>3, <1>4

(* A handler that others leave alone.                                      *)
LEMMA AloneOvertakes ==
  ASSUME call \in [Handler -> Call], UNCHANGED row, NEW g \in Handler,
         call'[g] = call[g]
  PROVE  Overtakes(g)
<1>1. call[g] \in Call
  OBVIOUS
<1>2. PICK b \in SUBSET Item : b = call[g].overtaken
  BY <1>1 DEF Call
<1>3. call[g] = [call[g] EXCEPT !.overtaken = b]
  BY <1>1, <1>2 DEF Call
<1>4. row'[call[g].item] = row[call[g].item]
  <2>1. PICK i : i = call[g].item
    OBVIOUS
  <2> QED
    BY <2>1
<1> QED
  BY <1>2, <1>3, <1>4 DEF Overtakes

(* A handler that is done.                                                 *)
LEMMA IdleFits ==
  ASSUME NEW h \in Handler, call'[h] = NoCall
  PROVE  Editing(h)' /\ Serving(h)' /\ Searching(h)'
<1>1. /\ call'[h].pc = "idle" /\ call'[h].op = "edit" /\ call'[h].targets = {}
  BY NoCallType
<1> QED
  BY <1>1 DEF Editing, Serving, Searching, Upserting

(* The invariants of requests when a step leaves the requests alone.       *)
LEMMA RequestsStay ==
  ASSUME OnboardingInv, UNCHANGED <<work, request, crossed>>,
         service # "absent" => service' # "absent",
         \A i \in Item : /\ Owned(i) => Owned(i)'
                         /\ made[i] # None => made'[i] = made[i]
  PROVE  OneOpenRequest' /\ ApprovedIsProvisioned'
<1>1. OneOpenRequest'
  BY DEF OnboardingInv, OneOpenRequest, Open
<1>2. Asked' = Asked /\ Credentials' = Credentials
  BY DEF Asked, Credentials, kind
<1>3. ASSUME NEW q \in Request, request'[q] = "approved"
      PROVE  /\ service' # "absent"
             /\ \A i \in Asked \ Credentials : Owned(i)'
             /\ Credentials # {} => \E i \in Credentials : made'[i] = q
  <2>1. /\ service # "absent"
        /\ \A i \in Asked \ Credentials : Owned(i)
        /\ Credentials # {} => \E i \in Credentials : made[i] = q
    BY <1>3 DEF OnboardingInv, ApprovedIsProvisioned
  <2>2. q # None
    BY NoneAssumption
  <2> QED
    BY <2>1, <2>2 DEF Asked, Credentials
<1>4. ApprovedIsProvisioned'
  BY <1>2, <1>3 DEF ApprovedIsProvisioned
<1> QED
  BY <1>1, <1>4

LEMMA CalmRespects ==
  ASSUME call \in [Handler -> Call], NEW h \in Handler, NEW c \in Call,
         Continue(h, c), UNCHANGED <<work, row, requestVars>>,
         service # "absent" => service' # "absent"
  PROVE  Respects(h)
<1>1. \A g \in Handler \ {h} : Overtakes(g)
  BY ContinueMoves, AloneOvertakes
<1> QED
  BY <1>1 DEF Respects, Owned, Open, requestVars

(* A step that writes no row and no request.                               *)
LEMMA CalmKeeps ==
  ASSUME OnboardingInv, NEW h \in Handler, NEW c \in Call, Locals(c), Continue(h, c),
         UNCHANGED <<work, row, requestVars>>, issued' \in [Item -> Secret],
         service' \in {"absent", "active"},
         service # "absent" => service' # "absent",
         Editing(h)', Serving(h)', Searching(h)'
  PROVE  Keeps(h)
<1>1. TypeOK /\ SecretTypeOK
  BY DEF OnboardingInv, TypeOK
<1>2. /\ call \in [Handler -> Call]
      /\ call' \in [Handler -> Call] /\ call'[h] = c
  BY <1>1, ContinueMoves DEF SecretTypeOK
<1>3. Respects(h)
  BY <1>2, CalmRespects
<1>4. TypeOK'
  BY <1>1, <1>2 DEF TypeOK, SecretTypeOK, requestVars
<1>5. Rows'
  BY DEF OnboardingInv, Rows, kind, requestVars
<1>6. OneOpenRequest' /\ ApprovedIsProvisioned'
  BY RequestsStay DEF requestVars, Owned
<1> QED
  BY <1>2, <1>3, <1>4, <1>5, <1>6 DEF Keeps

LEMMA StopKeeps ==
  ASSUME OnboardingInv, NEW h \in Handler, Continue(h, NoCall),
         UNCHANGED <<rowVars, service, requestVars>>
  PROVE  Keeps(h)
<1>1. /\ issued' \in [Item -> Secret] /\ service' \in {"absent", "active"}
      /\ UNCHANGED <<work, row, requestVars, service>> /\ call \in [Handler -> Call]
  BY DEF OnboardingInv, TypeOK, SecretTypeOK, rowVars
<1>2. call'[h] = NoCall
  BY <1>1, NoCallType, ContinueMoves
<1> QED
  BY <1>1, <1>2, NoCallType, IdleFits, CalmKeeps

(* A step that writes a row.                                               *)
LEMMA WrittenKeeps ==
  ASSUME OnboardingInv, NEW h \in Handler, NEW rows \in [Item -> Row],
         NEW c \in Call, Locals(c), Write(h, rows, c),
         UNCHANGED <<work, issued, service, request, crossed>>,
         \A i \in Item : rows[i].status \in {"active", "disabled"} \/ rows[i] = row[i],
         made' = made \/ Makes(h),
         Editing(h)', Serving(h)', Searching(h)'
  PROVE  Keeps(h)
<1>1. /\ TypeOK /\ SecretTypeOK /\ Rows /\ call[h] \in Call
      /\ call \in [Handler -> Call] /\ row \in [Item -> Row]
      /\ made \in [Item -> Request \cup {None}]
  BY DEF OnboardingInv, TypeOK, SecretTypeOK
<1>2. /\ row' = rows /\ row' \in [Item -> Row]
      /\ call' \in [Handler -> Call] /\ call'[h] = c
      /\ \A g \in Handler \ {h} : Overtakes(g)
  BY <1>1, WriteMoves
<1>3. call[h].request \in Request \cup {None}
  BY <1>1 DEF Call
<1>4. /\ made' \in [Item -> Request \cup {None}]
      /\ \A j \in Item : /\ made[j] # None => made'[j] = made[j]
                         /\ made'[j] # None => made[j] # None \/ row'[j] # NoRow
  BY <1>1, <1>3 DEF Makes, Rows
<1>5. \A j \in Item : /\ Owned(j) => Owned(j)'
                      /\ row[j] # NoRow => row'[j] # NoRow
                      /\ row'[j].status = "absent" => row'[j] = NoRow
                      /\ row'[j].status = "foreign" => row[j].status = "foreign"
  BY <1>1, <1>2 DEF Owned, NoRow, Rows
<1>6. Respects(h)
  BY <1>2, <1>4, <1>5 DEF Respects, Open
<1>7. TypeOK'
  BY <1>1, <1>2, <1>4 DEF TypeOK, SecretTypeOK
<1>8. Rows'
  BY <1>1, <1>4, <1>5 DEF Rows, kind
<1>9. OneOpenRequest' /\ ApprovedIsProvisioned'
  BY <1>4, <1>5, RequestsStay
<1> QED
  BY <1>2, <1>6, <1>7, <1>8, <1>9 DEF Keeps

(* A step that writes row i.                                               *)
LEMMA WriteRowIs ==
  ASSUME OnboardingInv, NEW h \in Handler, NEW i \in Item, NEW r \in Row,
         NEW c \in Call, WriteRow(h, i, r, c)
  PROVE  \E rows \in [Item -> Row] :
           /\ Write(h, rows, c) /\ rows[i] = r
           /\ \A j \in Item \ {i} : rows[j] = row[j]
<1>1. row \in [Item -> Row]
  BY DEF OnboardingInv, TypeOK, SecretTypeOK
<1>2. PICK rows : rows = [row EXCEPT ![i] = r]
  OBVIOUS
<1>3. Write(h, rows, c)
  BY <1>2 DEF WriteRow
<1>4. /\ rows \in [Item -> Row] /\ rows[i] = r
      /\ \A j \in Item \ {i} : rows[j] = row[j]
  BY <1>1, <1>2
<1> QED
  BY <1>3, <1>4

-----------------------------------------------------------------------------
(* The requests.                                                           *)
LEMMA CreateSearchKeeps ==
  ASSUME OnboardingInv, NEW h \in Handler, CreateSearch(h)
  PROVE  Keeps(h)
<1>1. PICK c : c = [NoCall EXCEPT !.op = "create", !.pc = "exists"]
  OBVIOUS
<1>2. c \in Call /\ c.op = "create" /\ c.pc = "exists" /\ c.targets = {}
  BY <1>1, NoCallType DEF Call, NoCall, Op
<1>3. /\ Continue(h, c) /\ Open = {} /\ UNCHANGED <<work, row, issued, service>>
      /\ UNCHANGED requestVars
  BY <1>1 DEF CreateSearch, rowVars
<1>4. /\ call \in [Handler -> Call] /\ issued \in [Item -> Secret]
      /\ service \in {"absent", "active"}
  BY DEF OnboardingInv, TypeOK, SecretTypeOK
<1>5. call'[h] = c
  BY <1>2, <1>3, <1>4, ContinueMoves
<1>6. Locals(c) /\ Editing(h)' /\ Serving(h)'
  BY <1>2, <1>5 DEF Locals, Editing, Serving, Upserting
<1>7. Searching(h)'
  <2>1. Open' = {}
    BY <1>3 DEF requestVars, Open
  <2> QED
    BY <1>2, <1>5, <2>1 DEF Searching
<1> QED
  BY <1>2, <1>3, <1>4, <1>6, <1>7, CalmKeeps

LEMMA CreateFindKeeps ==
  ASSUME OnboardingInv, NEW h \in Handler, CreateFind(h)
  PROVE  Keeps(h)
<1>1. PICK c : c = [call[h] EXCEPT !.pc = "request"]
  OBVIOUS
<1>2. /\ call \in [Handler -> Call] /\ issued \in [Item -> Secret]
      /\ service \in {"absent", "active"}
      /\ call[h] \in Call /\ Serving(h) /\ Searching(h)
      /\ call[h].op = "create"
  BY DEF OnboardingInv, TypeOK, SecretTypeOK, Handlers, Locals, CreateFind
<1>3. c \in Call /\ c.op = "create" /\ c.pc = "request" /\ c.targets = call[h].targets
  BY <1>1, <1>2 DEF Call
<1>4. /\ Continue(h, c) /\ UNCHANGED <<work, row, issued, service>>
      /\ UNCHANGED requestVars
  BY <1>1 DEF CreateFind, rowVars
<1>5. call'[h] = c
  BY <1>2, <1>3, <1>4, ContinueMoves
<1>6. Locals(c) /\ Editing(h)'
  BY <1>3, <1>5 DEF Locals, Editing
<1>7. Serving(h)'
  BY <1>2, <1>3, <1>4, <1>5 DEF Serving, Upserting, Owned
<1>8. Searching(h)'
  <2>1. Open' = Open /\ crossed' = crossed
    BY <1>4 DEF requestVars, Open
  <2> QED
    BY <1>2, <1>3, <1>5, <2>1 DEF Searching
<1> QED
  BY <1>2, <1>3, <1>4, <1>6, <1>7, <1>8, CalmKeeps

LEMMA UpdateFindKeeps ==
  ASSUME OnboardingInv, NEW h \in Handler, NEW q \in Request, UpdateFind(h, q)
  PROVE  Keeps(h)
<1>1. PICK pc : pc = IF request[q] = "pending" THEN "supersede" ELSE "revise"
  OBVIOUS
<1>2. PICK c : c = [NoCall EXCEPT !.op = "update", !.request = q, !.pc = pc]
  OBVIOUS
<1>3. c \in Call /\ c.op = "update" /\ c.pc = pc /\ c.request = q /\ c.targets = {}
  BY <1>1, <1>2, NoCallType DEF Call, NoCall, Op
<1>4. /\ Continue(h, c) /\ UNCHANGED <<work, row, issued, service>>
      /\ UNCHANGED requestVars
      /\ request[q] # "none"
  BY <1>1, <1>2 DEF UpdateFind, rowVars
<1>5. /\ call \in [Handler -> Call] /\ issued \in [Item -> Secret]
      /\ service \in {"absent", "active"}
  BY DEF OnboardingInv, TypeOK, SecretTypeOK
<1>6. call'[h] = c
  BY <1>3, <1>4, <1>5, ContinueMoves
<1>7. Locals(c) /\ Editing(h)' /\ Serving(h)'
  BY <1>1, <1>3, <1>6 DEF Locals, Editing, Serving, Upserting
<1>8. Searching(h)'
  <2>1. request' = request
    BY <1>4 DEF requestVars
  <2> QED
    BY <1>1, <1>3, <1>4, <1>6, <2>1 DEF Searching, Searched
<1> QED
  BY <1>3, <1>4, <1>5, <1>7, <1>8, CalmKeeps

LEMMA UpdateSearchKeeps ==
  ASSUME OnboardingInv, NEW h \in Handler, UpdateSearch(h)
  PROVE  Keeps(h)
<1>1. PICK q : q = call[h].request
  OBVIOUS
<1>2. PICK pc : pc = IF call[h].pc = "supersede" THEN "decide" ELSE "request"
  OBVIOUS
<1>3. PICK c : c = [call[h] EXCEPT !.pc = pc]
  OBVIOUS
<1>4. /\ call \in [Handler -> Call] /\ issued \in [Item -> Secret]
      /\ service \in {"absent", "active"} /\ call[h] \in Call
      /\ Locals(call[h]) /\ Serving(h) /\ Searching(h)
      /\ call[h].pc \in {"supersede", "revise"}
  BY DEF OnboardingInv, TypeOK, SecretTypeOK, Handlers, UpdateSearch
<1>5. call[h].op = "update" /\ q \in Request
  BY <1>1, <1>4 DEF Locals
<1>6. /\ c \in Call /\ c.op = "update" /\ c.pc = pc /\ c.request = q
      /\ c.targets = call[h].targets
  BY <1>1, <1>2, <1>3, <1>4, <1>5 DEF Call
<1>7. /\ Continue(h, c) /\ UNCHANGED <<work, row, issued, service>>
      /\ UNCHANGED requestVars
      /\ Open = {} \/ q \in Open
  BY <1>1, <1>2, <1>3 DEF UpdateSearch, rowVars
<1>8. call'[h] = c
  BY <1>4, <1>6, <1>7, ContinueMoves
<1>9. Locals(c) /\ Editing(h)'
  BY <1>2, <1>5, <1>6, <1>8 DEF Locals, Editing
<1>10. Serving(h)'
  BY <1>2, <1>4, <1>6, <1>7, <1>8 DEF Serving, Upserting, Owned
<1>11. Searching(h)'
  <2>1. Open' = Open /\ crossed' = crossed /\ request' = request
    BY <1>7 DEF requestVars, Open
  <2>2. q \in crossed \/ (Open \ {q}) \subseteq crossed
    BY <1>7 DEF OnboardingInv, OneOpenRequest
  <2>3. /\ request[q] # "none"
        /\ pc = "request" => request[q] # "pending"
    BY <1>1, <1>2, <1>4, <1>5 DEF Searching
  <2> QED
    BY <1>2, <1>6, <1>8, <2>1, <2>2, <2>3 DEF Searching
<1> QED
  BY <1>4, <1>6, <1>7, <1>9, <1>10, <1>11, CalmKeeps

LEMMA FindPendingKeeps ==
  ASSUME OnboardingInv, NEW h \in Handler, NEW q \in Request,
         NEW op \in {"approve", "reject"}, FindPending(h, q, op)
  PROVE  Keeps(h)
<1>1. PICK pc : pc = IF op = "approve" THEN "service" ELSE "decide"
  OBVIOUS
<1>2. PICK L : L = IF op = "approve" THEN Visited ELSE {}
  OBVIOUS
<1>3. PICK c : c = [NoCall EXCEPT !.op = op, !.request = q, !.left = L, !.pc = pc]
  OBVIOUS
<1>4. L \in SUBSET Item
  BY <1>2 DEF Visited
<1>5. c \in Call /\ c.op = op /\ c.pc = pc /\ c.request = q /\ c.targets = {}
  <2>1. /\ pc \in {"service", "decide"} /\ op \in Op
        /\ q \in Request \cup {None}
    BY <1>1 DEF Op
  <2>2. c \in Call
    BY <2>1, <1>3, <1>4, NoCallType DEF Call, NoCall, Op
  <2> QED
    BY <2>2, <1>3, SMTT(30) DEF NoCall
<1>6. /\ Continue(h, c) /\ UNCHANGED <<work, row, issued, service>>
      /\ UNCHANGED requestVars
  BY <1>1, <1>2, <1>3 DEF FindPending, rowVars
<1>7. /\ call \in [Handler -> Call] /\ issued \in [Item -> Secret]
      /\ service \in {"absent", "active"}
  BY DEF OnboardingInv, TypeOK, SecretTypeOK
<1>8. call'[h] = c
  BY <1>5, <1>6, <1>7, ContinueMoves
<1>9. c.left = L /\ Visited' = Visited
  BY <1>3, <1>4, <1>6, NoCallType DEF Call, Visited, Targets, kind
<1>10. Locals(c) /\ Editing(h)' /\ Serving(h)' /\ Searching(h)'
  BY <1>1, <1>2, <1>5, <1>8, <1>9
  DEF Locals, Editing, Serving, Searching, Upserting
<1> QED
  BY <1>5, <1>6, <1>7, <1>10, CalmKeeps

LEMMA DecideSelectKeeps ==
  ASSUME OnboardingInv, NEW h \in Handler, DecideSelect(h)
  PROVE  Keeps(h)
<1>1. PICK q : q = call[h].request
  OBVIOUS
<1>2. PICK C : C = IF request[q] = Outcome(call[h].op) THEN {} ELSE {"status"}
  OBVIOUS
<1>3. PICK c : c = [call[h] EXCEPT !.pc = "record", !.columns = C]
  OBVIOUS
<1>4. /\ call \in [Handler -> Call] /\ issued \in [Item -> Secret]
      /\ service \in {"absent", "active"}
      /\ call[h] \in Call /\ Locals(call[h]) /\ Serving(h) /\ Searching(h)
      /\ call[h].pc = "decide"
  BY DEF OnboardingInv, TypeOK, SecretTypeOK, Handlers, DecideSelect
<1>5. C \in SUBSET Column
  BY <1>2 DEF Column
<1>6. /\ c \in Call /\ c.pc = "record" /\ c.op = call[h].op /\ c.request = q
      /\ c.left = call[h].left /\ c.columns = C /\ c.targets = call[h].targets
  BY <1>1, <1>3, <1>4, <1>5 DEF Call
<1>7. /\ Continue(h, c) /\ UNCHANGED <<work, row, issued, service>>
      /\ UNCHANGED requestVars
  BY <1>1, <1>2, <1>3 DEF DecideSelect, rowVars
<1>8. call'[h] = c
  BY <1>4, <1>6, <1>7, ContinueMoves
<1>9. Locals(c) /\ Editing(h)'
  BY <1>1, <1>4, <1>6, <1>8 DEF Locals, Editing
<1>10. Serving(h)'
  <2>1. /\ Asked' = Asked /\ Credentials' = Credentials
        /\ \A i \in Item : Owned(i)' = Owned(i)
        /\ made' = made
    BY <1>7 DEF Asked, Credentials, kind, Owned, requestVars
  <2>2. (\A i \in Asked : i \in Item) /\ call[h].targets \subseteq Item
    BY <1>4 DEF Asked, Call
  <2> QED
    BY <1>1, <1>4, <1>6, <1>7, <1>8, <2>1, <2>2 DEF Serving, Upserting, AtTargets
<1>11. Searching(h)'
  <2>1. Open' = Open /\ crossed' = crossed /\ request' = request
    BY <1>7 DEF requestVars, Open
  <2>2. C = {} => request[q] \notin {"none", "pending"}
    BY <1>2 DEF Outcome
  <2>3. c.op # "create"
    BY <1>4, <1>6 DEF Locals
  <2>4. c.op = "update" => /\ q \in crossed \/ (Open \ {q}) \subseteq crossed
                           /\ request[q] # "none"
    BY <1>1, <1>4, <1>6 DEF Searching, Searched
  <2> QED
    BY <1>6, <1>8, <2>1, <2>2, <2>3, <2>4 DEF Searching
<1> QED
  BY <1>4, <1>6, <1>7, <1>9, <1>10, <1>11, CalmKeeps

LEMMA FindServiceKeeps ==
  ASSUME OnboardingInv, NEW h \in Handler, FindService(h)
  PROVE  Keeps(h)
<1>1. PICK pc : pc = IF service = "absent" THEN "createService" ELSE "updateService"
  OBVIOUS
<1>2. PICK c : c = [call[h] EXCEPT !.pc = pc]
  OBVIOUS
<1>3. /\ call \in [Handler -> Call] /\ issued \in [Item -> Secret]
      /\ service \in {"absent", "active"} /\ call[h] \in Call
      /\ Locals(call[h]) /\ Serving(h) /\ call[h].pc = "service"
  BY DEF OnboardingInv, TypeOK, SecretTypeOK, Handlers, FindService
<1>4. /\ c \in Call /\ c.pc = pc /\ c.op = "approve"
      /\ c.request = call[h].request /\ c.left = call[h].left
      /\ c.targets = call[h].targets
  BY <1>1, <1>2, <1>3 DEF Call, Locals
<1>5. /\ Continue(h, c) /\ UNCHANGED <<work, row, issued, service>>
      /\ UNCHANGED requestVars
  BY <1>1, <1>2 DEF FindService, rowVars
<1>6. call'[h] = c
  BY <1>3, <1>4, <1>5, ContinueMoves
<1>7. Locals(c) /\ Editing(h)' /\ Searching(h)'
  BY <1>1, <1>3, <1>4, <1>6 DEF Locals, Editing, Searching
<1>8. Serving(h)'
  <2>1. Visited' = Visited
    BY <1>5 DEF Visited, Targets, kind
  <2> QED
    BY <1>1, <1>3, <1>4, <1>5, <1>6, <2>1 DEF Serving, Upserting, Owned
<1> QED
  BY <1>3, <1>4, <1>5, <1>7, <1>8, CalmKeeps

(* An approval that has its service goes on with the items.                *)
LEMMA UpsertedKeeps ==
  ASSUME OnboardingInv, NEW h \in Handler,
         call[h].pc \in {"createService", "updateService"}, service' = "active",
         Continue(h, [call[h] EXCEPT !.pc = "items"]),
         UNCHANGED <<rowVars, requestVars>>
  PROVE  Keeps(h)
<1>1. PICK c : c = [call[h] EXCEPT !.pc = "items"]
  OBVIOUS
<1>2. /\ call \in [Handler -> Call] /\ issued \in [Item -> Secret]
      /\ call[h] \in Call /\ Locals(call[h]) /\ Serving(h)
  BY DEF OnboardingInv, TypeOK, SecretTypeOK, Handlers
<1>3. /\ c \in Call /\ c.pc = "items" /\ c.op = "approve"
      /\ c.request = call[h].request /\ c.left = call[h].left
      /\ c.targets = call[h].targets
  BY <1>1, <1>2 DEF Call, Locals
<1>4. Continue(h, c) /\ UNCHANGED <<work, row, issued>>
  BY <1>1 DEF rowVars
<1>5. call'[h] = c
  BY <1>2, <1>3, <1>4, ContinueMoves
<1>6. Locals(c) /\ Editing(h)' /\ Searching(h)'
  BY <1>2, <1>3, <1>5 DEF Locals, Editing, Searching
<1>7. Serving(h)'
  <2>1. /\ Asked' = Asked /\ Credentials' = Credentials
        /\ Credentials \subseteq Visited /\ Asked \subseteq Visited
    BY <1>4 DEF Asked, Credentials, Visited, Targets, kind
  <2>2. c.left = Visited
    BY <1>2, <1>3 DEF Serving, Upserting
  <2> QED
    BY <1>2, <1>3, <1>4, <1>5, <2>1, <2>2 DEF Serving, Upserting, AtTargets, Owned
<1> QED
  BY <1>2, <1>3, <1>4, <1>6, <1>7, CalmKeeps

LEMMA CreateServiceKeeps ==
  ASSUME OnboardingInv, NEW h \in Handler, CreateService(h)
  PROVE  Keeps(h)
<1>1. CASE service = "absent"
  BY <1>1, UpsertedKeeps DEF CreateService
<1>2. CASE service # "absent"
  BY <1>2, StopKeeps DEF CreateService
<1> QED
  BY <1>1, <1>2

LEMMA UpdateServiceKeeps ==
  ASSUME OnboardingInv, NEW h \in Handler, UpdateService(h)
  PROVE  Keeps(h)
BY UpsertedKeeps DEF UpdateService

LEMMA ServedKeeps ==
  ASSUME OnboardingInv, NEW h \in Handler, Served(h)
  PROVE  Keeps(h)
<1>1. PICK c : c = [call[h] EXCEPT !.pc = "decide"]
  OBVIOUS
<1>2. /\ call \in [Handler -> Call] /\ issued \in [Item -> Secret]
      /\ service \in {"absent", "active"}
      /\ call[h] \in Call /\ Locals(call[h]) /\ Serving(h)
      /\ call[h].pc = "items" /\ call[h].left = {} /\ call[h].op = "approve"
  BY DEF OnboardingInv, TypeOK, SecretTypeOK, Handlers, Locals, Served
<1>3. /\ c \in Call /\ c.pc = "decide" /\ c.op = "approve"
      /\ c.request = call[h].request /\ c.left = {}
      /\ c.targets = call[h].targets
  BY <1>1, <1>2 DEF Call
<1>4. /\ Continue(h, c) /\ UNCHANGED <<work, row, issued, service>>
      /\ UNCHANGED requestVars
  BY <1>1 DEF Served, rowVars
<1>5. call'[h] = c
  BY <1>2, <1>3, <1>4, ContinueMoves
<1>6. Locals(c) /\ Editing(h)' /\ Searching(h)'
  BY <1>2, <1>3, <1>5 DEF Locals, Editing, Searching
<1>7. Serving(h)'
  <2>1. /\ Asked' = Asked /\ Credentials' = Credentials
        /\ \A i \in Item : Owned(i)' = Owned(i)
        /\ made' = made
    BY <1>4 DEF Asked, Credentials, kind, Owned, requestVars
  <2>2. (\A i \in Asked : i \in Item) /\ call[h].targets \subseteq Item
    BY <1>2 DEF Asked, Call
  <2> QED
    BY <1>2, <1>3, <1>4, <1>5, <2>1, <2>2 DEF Serving, Upserting, AtTargets
<1> QED
  BY <1>2, <1>3, <1>4, <1>6, <1>7, CalmKeeps

(* A step that writes requests.                                            *)
LEMMA RequestKeeps ==
  ASSUME OnboardingInv, NEW h \in Handler, NEW c \in Call, Locals(c), Continue(h, c),
         c.pc \in {"idle", "request"}, c.op # "approve",
         \A i \in c.targets : Owned(i),
         UNCHANGED <<rowVars, service, made>>,
         request' \in [Request -> RequestStatus],
         crossed' \subseteq Request, crossed \subseteq crossed',
         \A q \in Request :
           /\ request[q] # "none" => request'[q] # "none"
           /\ request[q] \notin {"none", "pending"}
                => request'[q] \notin {"none", "pending"},
         \/ Open' \subseteq Open \cup crossed'
         \/ \A g \in Handler \ {h} : ~Searched(call[g]),
         Searching(h)', OneOpenRequest', ApprovedIsProvisioned'
  PROVE  Keeps(h)
<1>1. call \in [Handler -> Call] /\ UNCHANGED <<work, row, issued>>
  BY DEF OnboardingInv, TypeOK, SecretTypeOK, rowVars
<1>2. call' \in [Handler -> Call] /\ call'[h] = c
  BY <1>1, ContinueMoves
<1>3. Respects(h)
  <2>1. \A g \in Handler \ {h} : Overtakes(g)
    BY <1>1, ContinueMoves, AloneOvertakes
  <2> QED
    BY <1>1, <2>1 DEF Respects, Owned
<1>4. TypeOK' /\ Rows'
  BY <1>1, <1>2 DEF OnboardingInv, TypeOK, SecretTypeOK, Rows, kind
<1>5. Editing(h)' /\ Serving(h)'
  BY <1>1, <1>2 DEF Editing, Serving, Upserting, Owned
<1> QED
  BY <1>2, <1>3, <1>4, <1>5 DEF Keeps

LEMMA InsertRequestKeeps ==
  ASSUME OnboardingInv, NEW h \in Handler, InsertRequest(h)
  PROVE  Keeps(h)
<1>1. PICK q \in Request :
        /\ request[q] = "none"
        /\ request' = [request EXCEPT ![q] = "pending"]
        /\ crossed' = IF \/ \E g \in Handler \ {h} :
                              Searched(call[g])
                         \/ call[h].request \in crossed
                      THEN crossed \cup {q} ELSE crossed
  BY DEF InsertRequest
<1>2. /\ request \in [Request -> RequestStatus] /\ crossed \subseteq Request
      /\ call \in [Handler -> Call]
      /\ Continue(h, NoCall) /\ UNCHANGED <<rowVars, service, made>>
  BY DEF OnboardingInv, TypeOK, SecretTypeOK, InsertRequest
<1>3. call'[h] = NoCall
  BY <1>2, NoCallType, ContinueMoves
<1>4. /\ request' \in [Request -> RequestStatus] /\ request'[q] = "pending"
      /\ \A p \in Request \ {q} : request'[p] = request[p]
      /\ crossed' \subseteq Request /\ crossed \subseteq crossed'
  BY <1>1, <1>2 DEF RequestStatus
<1>5. Open' = Open \cup {q}
  BY <1>1, <1>4 DEF Open
<1>6. \/ q \in crossed'
      \/ /\ \A g \in Handler \ {h} : ~Searched(call[g])
         /\ call[h].request \notin crossed
  BY <1>1
<1>7. OneOpenRequest'
  <2>1. Open \subseteq crossed \/ q \in crossed'
    <3>1. /\ call[h].pc = "request" /\ Locals(call[h]) /\ Searching(h)
      BY DEF OnboardingInv, Handlers, InsertRequest
    <3>2. call[h].op \in {"create", "update"}
      BY <3>1 DEF Locals
    <3> QED
      BY <1>6, <3>1, <3>2 DEF Searching, Searched, Open
  <2>2. \A p, r \in Open : p # r => {p, r} \cap crossed # {}
    BY DEF OnboardingInv, OneOpenRequest
  <2> QED
    BY <1>4, <1>5, <2>1, <2>2 DEF OneOpenRequest
<1>8. ApprovedIsProvisioned'
  <2>1. UNCHANGED <<work, row, service, made>>
    BY <1>2 DEF rowVars
  <2>2. /\ Asked' = Asked /\ Credentials' = Credentials
        /\ \A i \in Item : Owned(i)' = Owned(i)
    BY <2>1 DEF Asked, Credentials, kind, Owned
  <2>3. \A p \in Request : request'[p] = "approved" => request[p] = "approved"
    BY <1>4
  <2>4. ApprovedIsProvisioned
    BY DEF OnboardingInv
  <2>5. \A i \in Asked : i \in Item
    BY DEF Asked
  <2> QED
    BY <2>1, <2>2, <2>3, <2>4, <2>5 DEF ApprovedIsProvisioned
<1>9. Searching(h)'
  BY <1>3, NoCallType DEF Searching
<1>10. \/ Open' \subseteq Open \cup crossed'
       \/ \A g \in Handler \ {h} : ~Searched(call[g])
  BY <1>5, <1>6
<1>11. \A p \in Request :
         /\ request[p] # "none" => request'[p] # "none"
         /\ request[p] \notin {"none", "pending"}
              => request'[p] \notin {"none", "pending"}
  BY <1>1, <1>4
<1> QED
  BY <1>2, <1>4, <1>7, <1>8, <1>9, <1>10, <1>11, NoCallType, RequestKeeps

LEMMA DecideWriteKeeps ==
  ASSUME OnboardingInv, NEW h \in Handler, DecideWrite(h)
  PROVE  Keeps(h)
<1>1. PICK q : q = call[h].request
  OBVIOUS
<1>2. /\ request \in [Request -> RequestStatus] /\ crossed \subseteq Request
      /\ call \in [Handler -> Call] /\ call[h] \in Call
      /\ Locals(call[h]) /\ Serving(h) /\ Searching(h)
      /\ call[h].pc = "record" /\ UNCHANGED <<rowVars, service, made, crossed>>
  BY DEF OnboardingInv, TypeOK, SecretTypeOK, Handlers, DecideWrite
<1>3. q \in Request /\ call[h].op \in {"approve", "reject", "update"}
  BY <1>1, <1>2 DEF Locals
<1>4. PICK s : s = IF call[h].columns = {} THEN request[q] ELSE Outcome(call[h].op)
  OBVIOUS
<1>5. /\ request' = [request EXCEPT ![q] = s]
      /\ s \in {"approved", "rejected", "superseded"}
      /\ s = "approved" => request[q] = "approved" \/ call[h].op = "approve"
  <2>1. request' = [request EXCEPT ![q] = s]
    BY <1>1, <1>4 DEF DecideWrite
  <2>2. call[h].columns = {} => request[q] \in {"approved", "rejected", "superseded"}
    BY <1>1, <1>2, <1>3 DEF Searching, RequestStatus
  <2> QED
    BY <1>3, <1>4, <2>1, <2>2 DEF Outcome
<1>6. /\ request' \in [Request -> RequestStatus] /\ request'[q] = s
      /\ \A p \in Request \ {q} : request'[p] = request[p]
  BY <1>2, <1>3, <1>5 DEF RequestStatus
<1>7. Open' \subseteq Open /\ q \notin Open'
  BY <1>5, <1>6 DEF Open
<1>8. PICK c : c = IF call[h].op = "update"
                   THEN [call[h] EXCEPT !.pc = "request", !.columns = {}]
                   ELSE NoCall
  OBVIOUS
<1>9. /\ c \in Call
      /\ call[h].op = "update" =>
           /\ c.pc = "request" /\ c.op = "update" /\ c.request = q
           /\ c.targets = call[h].targets
      /\ call[h].op # "update" => c = NoCall
  BY <1>1, <1>2, <1>8, NoCallType DEF Call
<1>10. Continue(h, c)
  BY <1>8 DEF DecideWrite
<1>11. call'[h] = c
  BY <1>2, <1>9, <1>10, ContinueMoves
<1>12. /\ Locals(c) /\ c.pc \in {"idle", "request"} /\ c.op # "approve"
       /\ \A i \in c.targets : Owned(i)
  BY <1>2, <1>3, <1>9, NoCallType DEF Locals, Serving
<1>13. OneOpenRequest'
  BY <1>2, <1>7 DEF OnboardingInv, OneOpenRequest
<1>14. ApprovedIsProvisioned'
  <2>1. UNCHANGED <<work, row, service, made>>
    BY <1>2 DEF rowVars
  <2>2. /\ Asked' = Asked /\ Credentials' = Credentials
        /\ \A i \in Item : Owned(i)' = Owned(i)
    BY <2>1 DEF Asked, Credentials, kind, Owned
  <2>3. ApprovedIsProvisioned
    BY DEF OnboardingInv
  <2>4. \A i \in Asked : i \in Item
    BY DEF Asked
  <2>5. s = "approved" => /\ service # "absent"
                          /\ \A i \in Asked \ Credentials : Owned(i)
                          /\ Credentials # {} => \E i \in Credentials : made[i] = q
    <3>1. CASE request[q] = "approved"
      BY <1>3, <2>3, <3>1 DEF ApprovedIsProvisioned
    <3>2. CASE call[h].op = "approve"
      BY <1>1, <1>2, <3>2 DEF Serving, Upserting
    <3> QED
      BY <1>5, <3>1, <3>2
  <2> QED
    BY <1>6, <2>1, <2>2, <2>3, <2>4, <2>5 DEF ApprovedIsProvisioned
<1>15. Searching(h)'
  <2>1. CASE call[h].op = "update"
    <3>1. q \in crossed \/ (Open \ {q}) \subseteq crossed
      BY <1>1, <1>2, <2>1 DEF Searching, Searched
    <3>2. q \in crossed' \/ (Open' \ {q}) \subseteq crossed'
      BY <1>2, <1>7, <3>1
    <3> QED
      BY <1>5, <1>6, <1>7, <1>9, <1>11, <2>1, <3>2 DEF Searching
  <2>2. CASE call[h].op # "update"
    BY <1>9, <1>11, <2>2, NoCallType DEF Searching
  <2> QED
    BY <2>1, <2>2
<1>16. \A p \in Request :
         /\ request[p] # "none" => request'[p] # "none"
         /\ request[p] \notin {"none", "pending"}
              => request'[p] \notin {"none", "pending"}
  BY <1>5, <1>6
<1> QED
  BY <1>2, <1>6, <1>7, <1>9, <1>10, <1>12, <1>13, <1>14, <1>15, <1>16, RequestKeeps

-----------------------------------------------------------------------------
(* The first half of a save or an insertion.                               *)
LEMMA DifferingIs ==
  ASSUME NEW r \in Row, NEW s \in Row
  PROVE  /\ Differing(r, s) \in SUBSET Column
         /\ "status" \in Differing(r, s) <=> r.status # s.status
         /\ "type" \in Differing(r, s) <=> r.type # s.type
         /\ "secret" \in Differing(r, s) <=> r.secret # s.secret
BY DEF Differing, Column, Row

LEMMA IssueType ==
  ASSUME OnboardingInv, NEW i \in Item, NEW s, s = Fresh(i) \/ s \in Secret, Issue(i, s)
  PROVE  /\ s \in Secret /\ issued' \in [Item -> Secret]
         /\ Fresh(i) # 0
<1>1. issued \in [Item -> Secret] /\ issued[i] \in Secret
  BY DEF OnboardingInv, TypeOK, SecretTypeOK
<1>2. issued[i] \in Nat /\ Fresh(i) = issued[i] + 1 /\ Fresh(i) # 0
  BY <1>1 DEF Fresh, Secret
<1>3. CASE s = Fresh(i)
  <2>1. s \in Secret
    BY <1>1, <1>2, <1>3, MaxSecretAssumption DEF Issue, Secret
  <2> QED
    BY <1>1, <1>2, <1>3, <2>1 DEF Issue
<1>4. CASE s # Fresh(i)
  BY <1>1, <1>2, <1>4 DEF Issue
<1> QED
  BY <1>3, <1>4

LEMMA MakesNothing ==
  ASSUME OnboardingInv, NEW h \in Handler, Makes(h), row' = row
  PROVE  made' = made
<1>1. made \in [Item -> Request \cup {None}]
  BY DEF OnboardingInv, TypeOK
<1>2. \A i \in Item : (IF row[i] = NoRow /\ row'[i] # NoRow
                       THEN call[h].request ELSE made[i]) = made[i]
  OBVIOUS
<1> QED
  BY <1>1, <1>2 DEF Makes

(* What an approval that c stands for has not before it.                   *)
ServesAll(c) ==
  /\ c.request \in Request
  /\ service # "absent"
  /\ \A i \in (Asked \ Credentials) \ c.left : Owned(i) \/ i = c.item
  /\ Credentials # {} /\ Credentials \cap c.left = {} =>
       (\E i \in Credentials : made[i] = c.request) \/ c.item \in Credentials
  /\ kind[c.item] = "target" => c.left \subseteq Targets
  /\ \A i \in c.targets : Owned(i)

LEMMA EditKeeps ==
  ASSUME OnboardingInv, NEW h \in Handler, NEW i \in Item, NEW e \in Row,
         NEW c \in Call, Edit(h, i, e, c), Owned(i),
         e.status \in {"active", "disabled"},
         e.type = "confidential" /\ e.secret = 0
           => e.type = row[i].type /\ e.secret = row[i].secret,
         UNCHANGED <<work, row, service, requestVars>>,
         issued' \in [Item -> Secret],
         \/ c.op \in {"edit", "rotate", "status"} /\ c.targets = {}
         \/ c.op = "approve" /\ ServesAll(c) /\ c.item = i /\ i \notin Credentials
  PROVE  Keeps(h)
<1>1. /\ call \in [Handler -> Call] /\ row[i] \in Row
      /\ service \in {"absent", "active"}
  BY DEF OnboardingInv, TypeOK, SecretTypeOK
<1>2. PICK D : D = Differing(e, row[i])
  OBVIOUS
<1>3. /\ D \in SUBSET Column
      /\ "type" \in D <=> e.type # row[i].type
      /\ "secret" \in D <=> e.secret # row[i].secret
  BY <1>1, <1>2, DifferingIs
<1>4. PICK d : d = [c EXCEPT !.pc = "select", !.item = i, !.entity = e, !.edited = D]
  OBVIOUS
<1>5. /\ d \in Call /\ d.pc = "select" /\ d.op = c.op /\ d.item = i
      /\ d.entity = e /\ d.edited = D /\ d.request = c.request /\ d.left = c.left
      /\ d.targets = c.targets
  BY <1>3, <1>4 DEF Call
<1>6. Continue(h, d)
  BY <1>2, <1>4 DEF Edit, Continue
<1>7. call'[h] = d
  BY <1>1, <1>5, <1>6, ContinueMoves
<1>8. /\ Asked' = Asked /\ Credentials' = Credentials /\ made' = made
      /\ Targets' = Targets /\ kind' = kind
      /\ \A j \in Item : Owned(j)' = Owned(j)
  BY DEF Asked, Credentials, Targets, kind, Owned, requestVars
<1>9. Locals(d)
  BY <1>5 DEF Locals, ServesAll
<1>10. Editing(h)'
  <2>1. Owned(d.item)'
    BY <1>5, <1>8
  <2>2. d.entity.type = "confidential" /\ d.entity.secret = 0
          => d.edited \cap {"type", "secret"} = {}
    BY <1>3, <1>5
  <2>3. Differing(e, row'[i]) = D
    BY <1>2
  <2> QED
    BY <1>5, <1>7, <2>1, <2>2, <2>3 DEF Editing, Differing
<1>11. Serving(h)'
  <2>1. CASE c.op = "approve"
    <3>1. /\ \A j \in (Asked \ Credentials) \ c.left : Owned(j)'
          /\ \A j \in c.targets : Owned(j)'
      BY <1>8, <2>1 DEF ServesAll, Asked, Call
    <3>2. kind[i] = "target" => c.left \subseteq Targets
      BY <2>1 DEF ServesAll
    <3>3. Credentials # {} /\ Credentials \cap c.left = {}
            => \E j \in Credentials : made[j] = c.request
      BY <2>1 DEF ServesAll
    <3> QED
      BY <1>5, <1>7, <1>8, <2>1, <3>1, <3>2, <3>3
      DEF Serving, ServesAll, Upserting, AtTargets
  <2>2. CASE c.op # "approve"
    BY <1>5, <1>7, <2>2 DEF Serving, Upserting
  <2> QED
    BY <2>1, <2>2
<1>12. Searching(h)'
  BY <1>5, <1>7 DEF Searching
<1> QED
  BY <1>1, <1>5, <1>6, <1>9, <1>10, <1>11, <1>12, CalmKeeps

LEMMA InsertingKeeps ==
  ASSUME OnboardingInv, NEW h \in Handler, NEW c \in Call, Continue(h, c),
         c.pc = "insert", c.item \in Item, c.entity.status = "active",
         c.entity.type = "confidential" => c.entity.secret # 0,
         UNCHANGED <<work, row, service, requestVars>>,
         issued' \in [Item -> Secret],
         c.op = "approve", ServesAll(c)
  PROVE  Keeps(h)
<1>1. /\ call \in [Handler -> Call]
      /\ service \in {"absent", "active"}
  BY DEF OnboardingInv, TypeOK, SecretTypeOK
<1>2. call'[h] = c
  BY <1>1, ContinueMoves
<1>3. Locals(c)
  BY DEF Locals, ServesAll
<1>4. Editing(h)' /\ Searching(h)'
  BY <1>2 DEF Editing, Searching
<1>5. Serving(h)'
  <2>1. /\ Asked' = Asked /\ Credentials' = Credentials /\ made' = made
        /\ Targets' = Targets /\ kind' = kind
        /\ \A j \in Item : Owned(j)' = Owned(j)
    BY DEF Asked, Credentials, Targets, kind, Owned, requestVars
  <2>2. (\A j \in Asked : j \in Item) /\ c.targets \subseteq Item
    BY DEF Asked, Call
  <2> QED
    BY <1>2, <2>1, <2>2 DEF Serving, ServesAll, Upserting, AtTargets
<1> QED
  BY <1>1, <1>3, <1>4, <1>5, CalmKeeps

(* An approval takes item i.                                               *)
Takes(h, i) ==
  \/ Turn(h, i) /\ i \notin Targets
  \/ call[h].pc = "targets" /\ i \in call[h].left

LEMMA ServeTakes ==
  ASSUME OnboardingInv, NEW h \in Handler, NEW i \in Item, Takes(h, i)
  PROVE  /\ Serve(h, i) \in Call /\ Serve(h, i).op = "approve"
         /\ Serve(h, i).item = i /\ Serve(h, i).request = call[h].request
         /\ ServesAll(Serve(h, i))
         /\ i \notin Credentials => Serve(h, i).left = call[h].left \ {i}
<1>1. /\ call[h] \in Call /\ Locals(call[h]) /\ Serving(h)
      /\ call[h].pc \in {"items", "targets"} /\ i \in call[h].left
  BY DEF OnboardingInv, Handlers, Takes, Turn
<1>2. call[h].op = "approve" /\ call[h].request \in Request
  BY <1>1 DEF Locals
<1>3. i \in Credentials <=> kind[i] = "credential"
  BY DEF Credentials
<1>4. PICK L : L = call[h].left \ (IF kind[i] = "credential" THEN Credentials ELSE {i})
  OBVIOUS
<1>5. PICK T : T = call[h].targets \ {i}
  OBVIOUS
<1>6. L \in SUBSET Item /\ T \in SUBSET Item
  BY <1>1, <1>4, <1>5 DEF Call
<1>7. PICK c : c = Serve(h, i)
  OBVIOUS
<1>8. c = [NoCall EXCEPT !.op = "approve", !.request = call[h].request,
                         !.item = i, !.left = L, !.targets = T,
                         !.overtaken = call[h].overtaken]
  BY <1>4, <1>5, <1>7 DEF Serve
<1>9. /\ c \in Call /\ c.op = "approve" /\ c.request = call[h].request
      /\ c.item = i /\ c.left = L /\ c.targets = T
  BY <1>1, <1>2, <1>6, <1>8, NoCallType DEF Call, NoCall, Op
<1>10. /\ service # "absent"
       /\ \A j \in (Asked \ Credentials) \ call[h].left : Owned(j)
       /\ Credentials # {} /\ Credentials \cap call[h].left = {}
            => \E j \in Credentials : made[j] = call[h].request
       /\ call[h].pc = "targets" => call[h].left \subseteq Targets
       /\ \A j \in call[h].targets : Owned(j)
  BY <1>1, <1>2 DEF Serving, Upserting, AtTargets
<1>11. ServesAll(c)
  <2>1. \A j \in (Asked \ Credentials) \ L : Owned(j) \/ j = i
    BY <1>3, <1>4, <1>10
  <2>2. Credentials # {} /\ Credentials \cap L = {} =>
          (\E j \in Credentials : made[j] = call[h].request) \/ i \in Credentials
    BY <1>3, <1>4, <1>10
  <2>3. kind[i] = "target" => L \subseteq Targets
    BY <1>4, <1>10 DEF Takes, Targets
  <2>4. \A j \in T : Owned(j)
    BY <1>5, <1>10
  <2> QED
    BY <1>2, <1>9, <1>10, <2>1, <2>2, <2>3, <2>4 DEF ServesAll
<1> QED
  BY <1>3, <1>4, <1>7, <1>9, <1>11

-----------------------------------------------------------------------------
(* The administrators.                                                     *)
LEMMA EditClientKeeps ==
  ASSUME OnboardingInv, NEW h \in Handler, NEW i \in Item,
         NEW type \in {"public", "confidential", None}, NEW give \in BOOLEAN,
         NEW status \in {"active", "disabled", None},
         EditClient(h, i, type, give, status), Makes(h), UNCHANGED <<request, crossed>>
  PROVE  Keeps(h)
<1>1. PICK s : s = IF give THEN Fresh(i)
                   ELSE IF type = "public" THEN 0 ELSE row[i].secret
  OBVIOUS
<1>2. PICK e : e = [status |-> IF status = None THEN row[i].status ELSE status,
                    type |-> IF type = None THEN row[i].type ELSE type,
                    secret |-> s]
  OBVIOUS
<1>3. PICK c : c = [NoCall EXCEPT !.op = "edit"]
  OBVIOUS
<1>4. /\ Owned(i) /\ Issue(i, s) /\ Edit(h, i, e, c)
      /\ type = "confidential" => give \/ row[i].secret # 0
      /\ UNCHANGED <<work, row, service>>
  BY <1>1, <1>2, <1>3 DEF EditClient
<1>5. row[i] \in Row
  BY DEF OnboardingInv, TypeOK, SecretTypeOK
<1>6. s = Fresh(i) \/ s \in Secret
  BY <1>1, <1>5, MaxSecretAssumption DEF Row, Secret
<1>7. s \in Secret /\ issued' \in [Item -> Secret] /\ Fresh(i) # 0
  BY <1>4, <1>6, IssueType
<1>8. /\ e \in Row /\ e.status \in {"active", "disabled"} /\ e.secret = s
      /\ e.type = IF type = None THEN row[i].type ELSE type
  BY <1>2, <1>4, <1>5, <1>7 DEF Row, RowStatus, Owned
<1>9. e.type = "confidential" /\ e.secret = 0
        => e.type = row[i].type /\ e.secret = row[i].secret
  BY <1>1, <1>4, <1>7, <1>8, UnsetAssumption
<1>10. c \in Call /\ c.op = "edit" /\ c.targets = {}
  BY <1>3, NoCallType DEF Call, Op
<1>11. made' = made
  BY <1>4, MakesNothing
<1> QED
  BY <1>4, <1>7, <1>8, <1>9, <1>10, <1>11, EditKeeps DEF requestVars

LEMMA RenewKeeps ==
  ASSUME OnboardingInv, NEW h \in Handler, NEW i \in Item, Renew(h, i), Makes(h),
         UNCHANGED <<request, crossed>>
  PROVE  Keeps(h)
<1>1. PICK s : s = Fresh(i)
  OBVIOUS
<1>2. PICK e : e = [row[i] EXCEPT !.secret = s]
  OBVIOUS
<1>3. PICK c : c = [NoCall EXCEPT !.op = "rotate"]
  OBVIOUS
<1>4. /\ Owned(i) /\ Issue(i, s) /\ Edit(h, i, e, c)
      /\ UNCHANGED <<work, row, service>>
  BY <1>1, <1>2, <1>3 DEF Renew
<1>5. row[i] \in Row
  BY DEF OnboardingInv, TypeOK, SecretTypeOK
<1>6. s \in Secret /\ issued' \in [Item -> Secret] /\ s # 0
  BY <1>1, <1>4, IssueType
<1>7. e \in Row /\ e.status \in {"active", "disabled"} /\ e.secret = s
  BY <1>2, <1>4, <1>5, <1>6 DEF Row, Owned
<1>8. c \in Call /\ c.op = "rotate" /\ c.targets = {}
  BY <1>3, NoCallType DEF Call, Op
<1>9. made' = made
  BY <1>4, MakesNothing
<1> QED
  BY <1>4, <1>6, <1>7, <1>8, <1>9, EditKeeps DEF requestVars

LEMMA SetStatusKeeps ==
  ASSUME OnboardingInv, NEW h \in Handler, NEW i \in Item,
         NEW status \in {"active", "disabled"}, SetStatus(h, i, status), Makes(h),
         UNCHANGED <<request, crossed>>
  PROVE  Keeps(h)
<1>1. PICK e : e = [row[i] EXCEPT !.status = status]
  OBVIOUS
<1>2. PICK c : c = [NoCall EXCEPT !.op = "status"]
  OBVIOUS
<1>3. /\ Owned(i) /\ Edit(h, i, e, c) /\ UNCHANGED <<work, row, issued, service>>
  BY <1>1, <1>2 DEF SetStatus, rowVars
<1>4. row[i] \in Row /\ issued' \in [Item -> Secret]
  BY <1>3 DEF OnboardingInv, TypeOK, SecretTypeOK
<1>5. /\ e \in Row /\ e.status \in {"active", "disabled"}
      /\ e.type = row[i].type /\ e.secret = row[i].secret
  BY <1>1, <1>4 DEF Row, RowStatus
<1>6. c \in Call /\ c.op = "status" /\ c.targets = {}
  BY <1>2, NoCallType DEF Call, Op
<1>7. made' = made
  BY <1>3, MakesNothing
<1> QED
  BY <1>3, <1>4, <1>5, <1>6, <1>7, EditKeeps DEF requestVars

LEMMA SaveSelectKeeps ==
  ASSUME OnboardingInv, NEW h \in Handler, SaveSelect(h), Makes(h),
         UNCHANGED <<request, crossed>>
  PROVE  Keeps(h)
<1>1. PICK i : i = call[h].item
  OBVIOUS
<1>2. PICK D : D = Differing(call[h].entity, row[i])
  OBVIOUS
<1>3. PICK c : c = [call[h] EXCEPT !.pc = "commit", !.columns = D]
  OBVIOUS
<1>4. /\ call \in [Handler -> Call] /\ call[h] \in Call /\ issued \in [Item -> Secret]
      /\ service \in {"absent", "active"} /\ row \in [Item -> Row]
      /\ Locals(call[h]) /\ Editing(h) /\ Serving(h) /\ call[h].pc = "select"
  BY DEF OnboardingInv, TypeOK, SecretTypeOK, Handlers, SaveSelect
<1>5. i \in Item /\ D \in SUBSET Column
  BY <1>1, <1>2, <1>4 DEF Locals, Differing
<1>6. /\ c \in Call /\ c.pc = "commit" /\ c.op = call[h].op /\ c.item = i
      /\ c.entity = call[h].entity /\ c.edited = call[h].edited /\ c.columns = D
      /\ c.overtaken = call[h].overtaken /\ c.request = call[h].request
      /\ c.left = call[h].left /\ c.targets = call[h].targets
  BY <1>1, <1>3, <1>4, <1>5 DEF Call
<1>7. Continue(h, c) /\ UNCHANGED <<work, row, issued, service>>
  BY <1>1, <1>2, <1>3 DEF SaveSelect, Continue, rowVars
<1>8. made' = made
  BY <1>7, MakesNothing
<1>9. call'[h] = c
  BY <1>4, <1>6, <1>7, ContinueMoves
<1>10. Locals(c)
  BY <1>1, <1>4, <1>5, <1>6 DEF Locals
<1>11. Editing(h)'
  <2>1. Owned(i)' = Owned(i)
    BY <1>7 DEF Owned
  <2> QED
    BY <1>1, <1>2, <1>4, <1>6, <1>9, <2>1 DEF Editing
<1>12. Serving(h)'
  <2>1. /\ Asked' = Asked /\ Credentials' = Credentials
        /\ Targets' = Targets /\ kind' = kind
        /\ \A j \in Item : Owned(j)' = Owned(j)
    BY <1>7 DEF Asked, Credentials, Targets, kind, Owned
  <2>2. (\A j \in Asked : j \in Item) /\ call[h].targets \subseteq Item
    BY <1>4 DEF Asked, Call
  <2> QED
    BY <1>1, <1>4, <1>6, <1>7, <1>8, <1>9, <2>1, <2>2
    DEF Serving, Upserting, AtTargets
<1>13. Searching(h)'
  BY <1>6, <1>9, <1>10 DEF Searching, Locals
<1> QED
  BY <1>4, <1>6, <1>7, <1>8, <1>10, <1>11, <1>12, <1>13, CalmKeeps DEF requestVars

LEMMA MergedType ==
  ASSUME NEW i \in Item, row[i] \in Row, NEW e \in Row, NEW C \in SUBSET Column
  PROVE  /\ Merged(i, e, C) \in Row
         /\ Merged(i, e, C).status = IF "status" \in C THEN e.status ELSE row[i].status
         /\ Merged(i, e, C).type = IF "type" \in C THEN e.type ELSE row[i].type
         /\ Merged(i, e, C).secret = IF "secret" \in C THEN e.secret ELSE row[i].secret
BY DEF Merged, Row

(* What h does after it has written its row.                               *)
LEMMA AfterType ==
  ASSUME NEW h \in Handler, call[h] \in Call, Locals(call[h]), call[h].pc # "idle"
  PROVE  /\ After(h) \in Call /\ Locals(After(h))
         /\ call[h].op = "approve" =>
              /\ After(h).pc =
                   IF kind[call[h].item] = "target" THEN "targets" ELSE "items"
              /\ After(h).op = "approve" /\ After(h).targets = call[h].targets
              /\ After(h).request = call[h].request /\ After(h).left = call[h].left
         /\ call[h].op # "approve" => After(h) = NoCall
<1>1. CASE call[h].op = "approve"
  <2>1. call[h].request \in Request
    BY <1>1 DEF Locals
  <2>2. PICK b : b = call[h].overtaken \cap call[h].targets
    OBVIOUS
  <2>3. PICK pc : pc = IF kind[call[h].item] = "target" THEN "targets" ELSE "items"
    OBVIOUS
  <2>4. PICK c : c = [NoCall EXCEPT !.pc = pc, !.op = "approve",
                                    !.request = call[h].request,
                                    !.left = call[h].left,
                                    !.targets = call[h].targets,
                                    !.overtaken = b]
    OBVIOUS
  <2>5. /\ c \in Call /\ c.pc = pc /\ c.op = "approve"
        /\ c.request = call[h].request /\ c.left = call[h].left
        /\ c.targets = call[h].targets
    <3>1. /\ pc \in {"items", "targets"} /\ "approve" \in Op
          /\ b \in SUBSET Item
      BY <2>1, <2>2, <2>3 DEF Op, Call
    <3>2. /\ call[h].request \in Request \cup {None}
          /\ call[h].left \in SUBSET Item /\ call[h].targets \in SUBSET Item
      BY <2>1 DEF Call
    <3>3. c \in Call
      BY <3>1, <3>2, <2>4, NoCallType DEF Call, NoCall, Op
    <3> QED
      BY <3>3, <2>4, SMTT(30) DEF NoCall
  <2>6. After(h) = c
    BY <1>1, <2>2, <2>3, <2>4 DEF After
  <2> QED
    BY <1>1, <2>1, <2>3, <2>5, <2>6 DEF Locals
<1>2. CASE call[h].op # "approve"
  BY <1>2, NoCallType DEF After
<1> QED
  BY <1>1, <1>2

(* An approval that has written its row goes on.                           *)
LEMMA AfterServes ==
  ASSUME OnboardingInv, NEW h \in Handler, call[h].pc \in {"commit", "insert"},
         call'[h] = After(h), UNCHANGED <<work, service>>,
         \A j \in Item : Owned(j) \/ (call[h].pc = "insert" /\ call[h].item = j)
                          => Owned(j)',
         \A j \in Item : made[j] # None => made'[j] = made[j],
         call[h].pc = "insert" => made'[call[h].item] = call[h].request
  PROVE  Editing(h)' /\ Searching(h)' /\ Serving(h)'
<1>1. call[h] \in Call /\ Locals(call[h]) /\ Serving(h)
  BY DEF OnboardingInv, Handlers
<1>2. PICK c : c = After(h)
  OBVIOUS
<1>3. /\ call[h].op = "approve" =>
           /\ c.pc = IF kind[call[h].item] = "target" THEN "targets" ELSE "items"
           /\ c.op = "approve" /\ c.targets = call[h].targets
           /\ c.request = call[h].request /\ c.left = call[h].left
      /\ call[h].op # "approve" => c = NoCall
  BY <1>1, <1>2, AfterType
<1>4. CASE call[h].op # "approve"
  BY <1>2, <1>3, <1>4, IdleFits
<1>5. CASE call[h].op = "approve"
  <2>1. /\ Asked' = Asked /\ Credentials' = Credentials /\ Targets' = Targets
        /\ \A j \in Asked : j \in Item
        /\ \A j \in Credentials : j \in Item
    BY DEF Asked, Credentials, Targets, kind
  <2>2. /\ service # "absent" /\ call[h].request # None
        /\ \A j \in (Asked \ Credentials) \ call[h].left :
             Owned(j) \/ (call[h].pc = "insert" /\ call[h].item = j)
        /\ Credentials # {} /\ Credentials \cap call[h].left = {} =>
             \/ \E j \in Credentials : made[j] = call[h].request
             \/ call[h].pc = "insert" /\ call[h].item \in Credentials
        /\ kind[call[h].item] = "target" => call[h].left \subseteq Targets
        /\ \A j \in call[h].targets : j \in Item /\ Owned(j)
    BY <1>1, <1>5, NoneAssumption DEF Serving, Upserting, AtTargets, Locals, Call
  <2>3. \A j \in (Asked \ Credentials) \ call[h].left : Owned(j)'
    BY <2>1, <2>2
  <2>4. Credentials # {} /\ Credentials \cap call[h].left = {}
          => \E j \in Credentials : made'[j] = call[h].request
    BY <2>1, <2>2
  <2>5. \A j \in call[h].targets : Owned(j)'
    BY <2>2
  <2>6. Serving(h)'
    BY <1>2, <1>3, <1>5, <2>1, <2>2, <2>3, <2>4, <2>5
    DEF Serving, Upserting, AtTargets
  <2>7. Editing(h)' /\ Searching(h)'
    BY <1>2, <1>3, <1>5 DEF Editing, Searching
  <2> QED
    BY <2>6, <2>7
<1> QED
  BY <1>4, <1>5

LEMMA SaveWriteKeeps ==
  ASSUME OnboardingInv, NEW h \in Handler, SaveWrite(h), Makes(h),
         UNCHANGED <<request, crossed>>
  PROVE  Keeps(h)
<1>1. PICK i : i = call[h].item
  OBVIOUS
<1>2. PICK r : r = Merged(i, call[h].entity, call[h].columns)
  OBVIOUS
<1>3. PICK c : c = After(h)
  OBVIOUS
<1>4. /\ call \in [Handler -> Call] /\ call[h] \in Call /\ row \in [Item -> Row]
      /\ Locals(call[h]) /\ Editing(h) /\ Serving(h) /\ call[h].pc = "commit"
      /\ Rows /\ made \in [Item -> Request \cup {None}]
  BY DEF OnboardingInv, TypeOK, SecretTypeOK, Handlers, SaveWrite
<1>5. /\ i \in Item /\ Owned(i)
      /\ call[h].entity \in Row /\ call[h].columns \in SUBSET Column
      /\ call[h].entity.status \in {"active", "disabled"}
  BY <1>1, <1>4 DEF Locals, Editing, Call
<1>6. r \in Row /\ r.status \in {"active", "disabled"}
  BY <1>2, <1>4, <1>5, MergedType DEF Owned
<1>7. c \in Call /\ Locals(c)
  BY <1>3, <1>4, AfterType
<1>8. WriteRow(h, i, r, c) /\ UNCHANGED <<work, issued, service>>
  BY <1>1, <1>2, <1>3 DEF SaveWrite
<1>9. PICK rows \in [Item -> Row] :
        /\ Write(h, rows, c) /\ rows[i] = r
        /\ \A j \in Item \ {i} : rows[j] = row[j]
  BY <1>5, <1>6, <1>7, <1>8, WriteRowIs
<1>10. row' = rows /\ call'[h] = c
  BY <1>4, <1>7, <1>9, WriteMoves
<1>11. \A j \in Item : Owned(j) => Owned(j)'
  BY <1>6, <1>9, <1>10 DEF Owned
<1>12. made' = made
  <2>1. row[i] # NoRow
    BY <1>5 DEF Owned, NoRow
  <2>2. \A j \in Item : ~(row[j] = NoRow /\ row'[j] # NoRow)
    BY <1>9, <1>10, <2>1
  <2> QED
    BY <1>4, <2>2 DEF Makes
<1>13. Editing(h)' /\ Searching(h)' /\ Serving(h)'
  BY <1>3, <1>4, <1>8, <1>10, <1>11, <1>12, AfterServes
<1> QED
  BY <1>5, <1>6, <1>7, <1>8, <1>9, <1>13, WrittenKeeps

LEMMA InsertKeeps ==
  ASSUME OnboardingInv, NEW h \in Handler, Insert(h), Makes(h),
         UNCHANGED <<request, crossed>>
  PROVE  Keeps(h)
<1>1. PICK i : i = call[h].item
  OBVIOUS
<1>2. PICK e : e = call[h].entity
  OBVIOUS
<1>3. PICK c : c = After(h)
  OBVIOUS
<1>4. /\ call \in [Handler -> Call] /\ call[h] \in Call /\ row \in [Item -> Row]
      /\ Locals(call[h]) /\ Editing(h) /\ Rows /\ call[h].pc = "insert"
      /\ made \in [Item -> Request \cup {None}]
      /\ UNCHANGED <<work, issued, service>>
  BY DEF OnboardingInv, TypeOK, SecretTypeOK, Handlers, Insert
<1>5. i \in Item /\ e \in Row /\ e.status = "active" /\ e # NoRow
  BY <1>1, <1>2, <1>4 DEF Locals, Editing, Call, NoRow
<1>6. CASE row[i] = NoRow
  <2>1. WriteRow(h, i, e, c)
    BY <1>1, <1>2, <1>3, <1>6 DEF Insert
  <2>2. c \in Call /\ Locals(c)
    BY <1>3, <1>4, AfterType
  <2>3. PICK rows \in [Item -> Row] :
          /\ Write(h, rows, c) /\ rows[i] = e
          /\ \A j \in Item \ {i} : rows[j] = row[j]
    BY <1>5, <2>1, <2>2, WriteRowIs
  <2>4. row' = rows /\ call'[h] = c
    BY <1>4, <2>2, <2>3, WriteMoves
  <2>5. \A j \in Item : Owned(j) \/ j = i => Owned(j)'
    BY <1>5, <2>3, <2>4 DEF Owned
  <2>6. made'[i] = call[h].request /\ \A j \in Item \ {i} : made'[j] = made[j]
    BY <1>4, <1>5, <1>6, <2>3, <2>4 DEF Makes
  <2>7. \A j \in Item : made[j] # None => made'[j] = made[j]
    BY <1>4, <1>6, <2>6 DEF Rows
  <2>8. Editing(h)' /\ Searching(h)' /\ Serving(h)'
    BY <1>1, <1>3, <1>4, <2>4, <2>5, <2>6, <2>7, AfterServes
  <2> QED
    BY <1>4, <1>5, <2>2, <2>3, <2>8, WrittenKeeps
<1>7. CASE row[i] # NoRow
  <2>1. Continue(h, NoCall) /\ row' = row
    BY <1>1, <1>7 DEF Insert, Continue
  <2>2. made' = made
    BY <2>1, MakesNothing
  <2> QED
    BY <1>4, <2>1, <2>2, StopKeeps DEF rowVars, requestVars
<1> QED
  BY <1>6, <1>7

LEMMA AdminStepKeeps ==
  ASSUME OnboardingInv, NEW h \in Handler, AdminStep(h), Makes(h),
         UNCHANGED <<request, crossed>>
  PROVE  Keeps(h)
<1>1. ASSUME NEW i \in Item, NEW type \in {"public", "confidential", None},
             NEW give \in BOOLEAN, NEW status \in {"active", "disabled", None},
             EditClient(h, i, type, give, status)
      PROVE  Keeps(h)
  BY <1>1, EditClientKeeps
<1>2. ASSUME NEW i \in Item,
             RotateClient(h, i) \/ RotateCredential(h, i) \/ RotateSubscription(h, i)
      PROVE  Keeps(h)
  BY <1>2, RenewKeeps DEF RotateClient, RotateCredential, RotateSubscription
<1>3. ASSUME NEW i \in Item,
             \/ DisableCredential(h, i)
             \/ \E status \in {"active", "disabled"} :
                  \/ UpdateCredential(h, i, status)
                  \/ SetSubscriptionStatus(h, i, status)
                  \/ SetTargetStatus(h, i, status)
      PROVE  Keeps(h)
  BY <1>3, SetStatusKeeps
  DEF DisableCredential, UpdateCredential, SetSubscriptionStatus, SetTargetStatus
<1> QED
  BY <1>1, <1>2, <1>3, SaveSelectKeeps, SaveWriteKeeps, InsertKeeps
  DEF AdminStep

-----------------------------------------------------------------------------
(* An approval's items.                                                    *)
LEMMA ServeInsertKeeps ==
  ASSUME OnboardingInv, NEW h \in Handler, NEW i \in Item, NEW e \in Row,
         Takes(h, i), ServeInsert(h, i, e), e.status = "active",
         e.type = "confidential" => e.secret # 0,
         issued' \in [Item -> Secret],
         UNCHANGED <<work, row, service, requestVars>>
  PROVE  Keeps(h)
<1>1. PICK s : s = Serve(h, i)
  OBVIOUS
<1>2. PICK c : c = [s EXCEPT !.pc = "insert", !.entity = e]
  OBVIOUS
<1>3. s \in Call /\ s.op = "approve" /\ s.item = i /\ ServesAll(s)
  BY <1>1, ServeTakes
<1>4. /\ c \in Call /\ c.pc = "insert" /\ c.op = "approve" /\ c.item = i
      /\ c.entity = e /\ c.request = s.request /\ c.left = s.left
      /\ c.targets = s.targets
  BY <1>2, <1>3 DEF Call
<1>5. ServesAll(c)
  BY <1>3, <1>4 DEF ServesAll
<1>6. Continue(h, c)
  BY <1>1, <1>2 DEF ServeInsert
<1> QED
  BY <1>4, <1>5, <1>6, InsertingKeeps

LEMMA ServeEditKeeps ==
  ASSUME OnboardingInv, NEW h \in Handler, NEW i \in Item, NEW e \in Row,
         Takes(h, i), i \notin Credentials, Owned(i), Edit(h, i, e, Serve(h, i)),
         e.status \in {"active", "disabled"},
         e.type = "confidential" /\ e.secret = 0
           => e.type = row[i].type /\ e.secret = row[i].secret,
         issued' \in [Item -> Secret],
         UNCHANGED <<work, row, service, requestVars>>
  PROVE  Keeps(h)
<1>1. PICK s : s = Serve(h, i)
  OBVIOUS
<1>2. s \in Call /\ s.op = "approve" /\ s.item = i /\ ServesAll(s)
  BY <1>1, ServeTakes
<1>3. Edit(h, i, e, s)
  BY <1>1
<1> QED
  BY <1>2, <1>3, EditKeeps

(* A row is missing, another service's, or the service's own.              *)
LEMMA RowIs ==
  ASSUME OnboardingInv, NEW i \in Item
  PROVE  /\ row[i] \in Row
         /\ row[i] = NoRow \/ row[i].status = "foreign" \/ Owned(i)
<1>1. row[i] \in Row
  BY DEF OnboardingInv, TypeOK, SecretTypeOK
<1>2. row[i].status = "absent" => row[i] = NoRow
  BY DEF OnboardingInv, Rows
<1> QED
  BY <1>1, <1>2 DEF Row, RowStatus, Owned

LEMMA ServeClientKeeps ==
  ASSUME OnboardingInv, NEW h \in Handler, NEW i \in Item,
         NEW type \in {"public", "confidential"}, ServeClient(h, i, type)
  PROVE  Keeps(h)
<1>1. PICK s : s = IF type = "confidential" THEN Fresh(i) ELSE 0
  OBVIOUS
<1>2. /\ kind[i] = "client" /\ Turn(h, i)
      /\ UNCHANGED <<work, row, service, requestVars>>
      /\ i \notin Credentials /\ Takes(h, i)
  BY DEF ServeClient, Credentials, Targets, Takes
<1>3. CASE row[i].status = "foreign"
  <2>1. Continue(h, NoCall) /\ UNCHANGED issued
    BY <1>3 DEF ServeClient
  <2> QED
    BY <1>2, <2>1, StopKeeps DEF rowVars
<1>4. CASE row[i].status # "foreign"
  <2>1. PICK st : st = IF row[i] = NoRow THEN "active" ELSE row[i].status
    OBVIOUS
  <2>2. PICK e : e = Wanted(i, st, type, s)
    OBVIOUS
  <2>3. /\ Issue(i, s)
        /\ row[i] = NoRow => ServeInsert(h, i, e)
        /\ row[i] # NoRow => Edit(h, i, e, Serve(h, i))
    BY <1>1, <1>4, <2>1, <2>2 DEF ServeClient
  <2>4. s = Fresh(i) \/ s \in Secret
    BY <1>1, MaxSecretAssumption DEF Secret
  <2>5. s \in Secret /\ issued' \in [Item -> Secret] /\ Fresh(i) # 0
    BY <2>3, <2>4, IssueType
  <2>6. row[i] # NoRow => Owned(i)
    BY <1>4, RowIs
  <2>7. st \in {"active", "disabled"} /\ (row[i] = NoRow => st = "active")
    BY <2>1, <2>6 DEF Owned
  <2>8. e \in Row /\ e.status = st /\ e.type = type /\ e.secret = s
    BY <2>2, <2>5, <2>7 DEF Wanted, Row, RowStatus
  <2>9. e.type = "confidential" => e.secret # 0
    BY <1>1, <2>5, <2>8
  <2> QED
    BY <1>2, <2>3, <2>5, <2>6, <2>7, <2>8, <2>9, ServeInsertKeeps, ServeEditKeeps
<1> QED
  BY <1>3, <1>4

LEMMA ServeCredentialKeeps ==
  ASSUME OnboardingInv, NEW h \in Handler, NEW i \in Item, ServeCredential(h, i)
  PROVE  Keeps(h)
<1>1. PICK s : s = Fresh(i)
  OBVIOUS
<1>2. PICK e : e = Wanted(i, "active", "confidential", s)
  OBVIOUS
<1>3. /\ Takes(h, i) /\ Issue(i, s) /\ ServeInsert(h, i, e)
      /\ UNCHANGED <<work, row, service, requestVars>>
  BY <1>1, <1>2 DEF ServeCredential, Takes, Targets
<1>4. s \in Secret /\ issued' \in [Item -> Secret] /\ s # 0
  BY <1>1, <1>3, IssueType
<1>5. e \in Row /\ e.status = "active" /\ e.secret = s
  BY <1>2, <1>4 DEF Wanted, Row, RowStatus
<1> QED
  BY <1>3, <1>4, <1>5, ServeInsertKeeps

LEMMA ActivateKeeps ==
  ASSUME OnboardingInv, NEW h \in Handler, NEW i \in Item,
         NEW type \in {"public", "confidential"}, NEW s,
         s = Fresh(i) \/ s \in Secret, type = "confidential" => s # 0,
         i \notin Credentials \cup Targets, row[i].status # "foreign",
         Activate(h, i, type, s)
  PROVE  Keeps(h)
<1>1. PICK e : e = Wanted(i, "active", type, s)
  OBVIOUS
<1>2. /\ Issue(i, s) /\ UNCHANGED <<work, row, service, requestVars>>
      /\ Takes(h, i)
      /\ row[i] = NoRow => ServeInsert(h, i, e)
      /\ row[i] # NoRow => Edit(h, i, e, Serve(h, i))
  BY <1>1 DEF Activate, Takes
<1>3. s \in Secret /\ issued' \in [Item -> Secret]
  BY <1>2, IssueType
<1>4. e \in Row /\ e.status = "active" /\ e.type = type /\ e.secret = s
  BY <1>1, <1>3 DEF Wanted, Row, RowStatus
<1>5. row[i] # NoRow => Owned(i)
  BY RowIs
<1> QED
  BY <1>2, <1>3, <1>4, <1>5, ServeInsertKeeps, ServeEditKeeps

LEMMA ServePermissionKeeps ==
  ASSUME OnboardingInv, NEW h \in Handler, NEW i \in Item, ServePermission(h, i)
  PROVE  Keeps(h)
<1>1. /\ kind[i] = "permission" /\ i \notin Credentials \cup Targets
      /\ Activate(h, i, "public", 0)
  BY DEF ServePermission, Credentials, Targets
<1>2. row[i].status # "foreign" /\ 0 \in Secret
  BY <1>1, MaxSecretAssumption DEF OnboardingInv, Rows, Secret
<1> QED
  BY <1>1, <1>2, ActivateKeeps

LEMMA ServeSubscriptionKeeps ==
  ASSUME OnboardingInv, NEW h \in Handler, NEW i \in Item,
         NEW type \in {"public", "confidential"}, ServeSubscription(h, i, type)
  PROVE  Keeps(h)
<1>1. PICK s : s = IF type = "public" THEN 0
                   ELSE IF row[i].type = "confidential" /\ row[i].secret # 0
                   THEN row[i].secret ELSE Fresh(i)
  OBVIOUS
<1>2. /\ kind[i] = "subscription" /\ i \notin Credentials \cup Targets
      /\ Activate(h, i, type, s)
  BY <1>1 DEF ServeSubscription, Credentials, Targets
<1>3. row[i] \in Row /\ row[i].status # "foreign"
  BY <1>2, RowIs DEF OnboardingInv, Rows
<1>4. issued[i] \in Secret
  BY DEF OnboardingInv, TypeOK, SecretTypeOK
<1>5. (s = Fresh(i) \/ s \in Secret) /\ (type = "confidential" => s # 0)
  BY <1>1, <1>3, <1>4, MaxSecretAssumption DEF Row, Fresh, Secret
<1> QED
  BY <1>2, <1>3, <1>5, ActivateKeeps

LEMMA OmitSubscriptionKeeps ==
  ASSUME OnboardingInv, NEW h \in Handler, NEW i \in Item, OmitSubscription(h, i)
  PROVE  Keeps(h)
<1>1. PICK s : s = Serve(h, i)
  OBVIOUS
<1>2. /\ kind[i] = "subscription" /\ i \notin Credentials /\ i \notin Asked
      /\ Takes(h, i) /\ UNCHANGED <<work, row, issued, service, requestVars>>
  BY DEF OmitSubscription, Credentials, Asked, Targets, Takes, rowVars
<1>3. /\ row[i] \in Row /\ (row[i] = NoRow \/ Owned(i))
      /\ call \in [Handler -> Call] /\ issued' \in [Item -> Secret]
  BY <1>2, RowIs DEF OnboardingInv, TypeOK, SecretTypeOK, Rows
<1>4. CASE row[i] = NoRow
  <2>1. PICK c : c = [s EXCEPT !.pc = "items", !.item = None]
    OBVIOUS
  <2>2. s \in Call /\ s.op = "approve" /\ s.item = i /\ ServesAll(s)
    BY <1>1, <1>2, ServeTakes
  <2>3. /\ c \in Call /\ c.pc = "items" /\ c.op = "approve"
        /\ c.request = s.request /\ c.left = s.left /\ c.targets = s.targets
    BY <2>1, <2>2 DEF Call
  <2>4. Continue(h, c)
    BY <1>1, <1>4, <2>1 DEF OmitSubscription
  <2>5. call'[h] = c
    BY <1>3, <2>3, <2>4, ContinueMoves
  <2>6. Locals(c) /\ Editing(h)' /\ Searching(h)'
    BY <2>2, <2>3, <2>5 DEF Locals, Editing, Searching, ServesAll
  <2>7. Serving(h)'
    <3>1. /\ Asked' = Asked /\ Credentials' = Credentials /\ made' = made
          /\ \A j \in Item : Owned(j)' = Owned(j)
      BY <1>2 DEF Asked, Credentials, kind, Owned, requestVars
    <3>2. /\ \A j \in Asked : j \in Item /\ j # i
          /\ s.targets \subseteq Item
      BY <1>2, <2>2 DEF Asked, Call
    <3>3. /\ service # "absent"
          /\ \A j \in (Asked \ Credentials) \ s.left : Owned(j)'
          /\ Credentials # {} /\ Credentials \cap s.left = {}
               => \E j \in Credentials : made[j] = s.request
          /\ \A j \in s.targets : Owned(j)'
      BY <1>2, <2>2, <3>1, <3>2 DEF ServesAll
    <3> QED
      BY <1>2, <2>3, <2>5, <3>1, <3>3 DEF Serving, Upserting, AtTargets
  <2> QED
    BY <1>2, <1>3, <2>3, <2>4, <2>6, <2>7, CalmKeeps
    DEF OnboardingInv, TypeOK, SecretTypeOK
<1>5. CASE row[i] # NoRow
  <2>1. PICK e : e = [row[i] EXCEPT !.status = "disabled"]
    OBVIOUS
  <2>2. Edit(h, i, e, Serve(h, i))
    BY <1>5, <2>1 DEF OmitSubscription
  <2>3. /\ e \in Row /\ e.status = "disabled"
        /\ e.type = row[i].type /\ e.secret = row[i].secret
    BY <1>3, <2>1 DEF Row, RowStatus
  <2> QED
    BY <1>2, <1>3, <1>5, <2>2, <2>3, ServeEditKeeps
<1> QED
  BY <1>4, <1>5

(* The targets.                                                            *)
LEMMA DisabledIs ==
  ASSUME OnboardingInv, NEW T \in SUBSET Item
  PROVE  /\ Disabled(T) \in [Item -> Row]
         /\ \A i \in Item :
              /\ \/ Disabled(T)[i].status \in {"active", "disabled"}
                 \/ Disabled(T)[i] = row[i]
              /\ Disabled(T)[i].type = row[i].type
              /\ Disabled(T)[i].secret = row[i].secret
<1>1. row \in [Item -> Row]
  BY DEF OnboardingInv, TypeOK, SecretTypeOK
<1>2. ASSUME NEW i \in Item
      PROVE  /\ Disabled(T)[i] \in Row
             /\ \/ Disabled(T)[i].status \in {"active", "disabled"}
                \/ Disabled(T)[i] = row[i]
             /\ Disabled(T)[i].type = row[i].type
             /\ Disabled(T)[i].secret = row[i].secret
  <2>1. row[i] \in Row
    BY <1>1
  <2>2. PICK r : r = [row[i] EXCEPT !.status = "disabled"]
    OBVIOUS
  <2>3. /\ r \in Row /\ r.status = "disabled"
        /\ r.type = row[i].type /\ r.secret = row[i].secret
    BY <2>1, <2>2 DEF Row, RowStatus
  <2>4. Disabled(T)[i] = r \/ Disabled(T)[i] = row[i]
    BY <2>2 DEF Disabled
  <2> QED
    BY <2>1, <2>3, <2>4
<1>3. Disabled(T) = [i \in Item |-> Disabled(T)[i]]
  BY DEF Disabled
<1> QED
  BY <1>2, <1>3

LEMMA DisableTargetsKeeps ==
  ASSUME OnboardingInv, NEW h \in Handler, DisableTargets(h)
  PROVE  Keeps(h)
<1>1. PICK c : c = [call[h] EXCEPT !.pc = "find"]
  OBVIOUS
<1>2. PICK rows : rows = Disabled(call[h].left)
  OBVIOUS
<1>3. /\ call \in [Handler -> Call] /\ row \in [Item -> Row]
      /\ call[h] \in Call /\ Locals(call[h]) /\ Serving(h)
      /\ call[h].pc = "items" /\ call[h].left \subseteq Targets
  BY DEF OnboardingInv, TypeOK, SecretTypeOK, Handlers, DisableTargets
<1>4. /\ c \in Call /\ c.pc = "find" /\ c.op = "approve"
      /\ c.request = call[h].request /\ c.left = call[h].left
      /\ c.targets = call[h].targets /\ call[h].left \in SUBSET Item
  BY <1>1, <1>3 DEF Call, Locals
<1>5. /\ Write(h, rows, c)
      /\ UNCHANGED <<work, issued, service, request, made, crossed>>
  BY <1>1, <1>2 DEF DisableTargets, requestVars
<1>6. /\ rows \in [Item -> Row]
      /\ \A i \in Item :
           rows[i].status \in {"active", "disabled"} \/ rows[i] = row[i]
  BY <1>2, <1>4, DisabledIs
<1>7. row' = rows /\ call'[h] = c
  BY <1>3, <1>4, <1>5, <1>6, WriteMoves
<1>8. \A j \in Item : Owned(j) => Owned(j)'
  BY <1>6, <1>7 DEF Owned
<1>9. Locals(c) /\ Editing(h)' /\ Searching(h)'
  BY <1>3, <1>4, <1>7 DEF Locals, Editing, Searching
<1>10. Serving(h)'
  <2>1. /\ Asked' = Asked /\ Credentials' = Credentials /\ Targets' = Targets
        /\ \A j \in Asked : j \in Item
    BY <1>5 DEF Asked, Credentials, Targets, kind
  <2>2. /\ service # "absent" /\ call[h].op = "approve"
        /\ \A j \in (Asked \ Credentials) \ call[h].left : Owned(j)
        /\ Credentials # {} /\ Credentials \cap call[h].left = {}
             => \E j \in Credentials : made[j] = call[h].request
        /\ \A j \in call[h].targets : j \in Item /\ Owned(j)
    BY <1>3 DEF Serving, Upserting, Locals, Call
  <2>3. /\ \A j \in (Asked \ Credentials) \ call[h].left : Owned(j)'
        /\ \A j \in call[h].targets : Owned(j)'
    BY <1>8, <2>1, <2>2
  <2> QED
    BY <1>3, <1>4, <1>5, <1>7, <2>1, <2>2, <2>3 DEF Serving, Upserting, AtTargets
<1> QED
  BY <1>4, <1>5, <1>6, <1>9, <1>10, WrittenKeeps

LEMMA FindTargetsKeeps ==
  ASSUME OnboardingInv, NEW h \in Handler, FindTargets(h)
  PROVE  Keeps(h)
<1>1. PICK T : T = {i \in Targets : Owned(i)}
  OBVIOUS
<1>2. PICK c : c = [call[h] EXCEPT !.pc = "targets", !.targets = T]
  OBVIOUS
<1>3. /\ call \in [Handler -> Call] /\ issued \in [Item -> Secret]
      /\ service \in {"absent", "active"} /\ call[h] \in Call
      /\ Locals(call[h]) /\ Serving(h) /\ call[h].pc = "find"
  BY DEF OnboardingInv, TypeOK, SecretTypeOK, Handlers, FindTargets
<1>4. T \in SUBSET Item
  BY <1>1 DEF Targets
<1>5. /\ c \in Call /\ c.pc = "targets" /\ c.op = "approve" /\ c.targets = T
      /\ c.request = call[h].request /\ c.left = call[h].left
  BY <1>2, <1>3, <1>4 DEF Call, Locals
<1>6. /\ Continue(h, c) /\ UNCHANGED <<work, row, issued, service>>
      /\ UNCHANGED requestVars
  BY <1>1, <1>2 DEF FindTargets, rowVars
<1>7. call'[h] = c
  BY <1>3, <1>5, <1>6, ContinueMoves
<1>8. Locals(c) /\ Editing(h)' /\ Searching(h)'
  BY <1>3, <1>5, <1>7 DEF Locals, Editing, Searching
<1>9. Serving(h)'
  <2>1. /\ Asked' = Asked /\ Credentials' = Credentials /\ Targets' = Targets
        /\ \A j \in Item : Owned(j)' = Owned(j)
        /\ \A j \in Asked : j \in Item
        /\ made' = made
    BY <1>6 DEF Asked, Credentials, Targets, kind, Owned, requestVars
  <2>2. \A j \in T : j \in Item /\ Owned(j)
    BY <1>1, <1>4
  <2>3. /\ service # "absent" /\ call[h].left \subseteq Targets
        /\ \A j \in (Asked \ Credentials) \ call[h].left : Owned(j)
        /\ Credentials # {} /\ Credentials \cap call[h].left = {}
             => \E j \in Credentials : made[j] = call[h].request
    BY <1>3 DEF Serving, Upserting, Locals, AtTargets
  <2> QED
    BY <1>5, <1>6, <1>7, <2>1, <2>2, <2>3 DEF Serving, Upserting, AtTargets
<1> QED
  BY <1>3, <1>5, <1>6, <1>8, <1>9, CalmKeeps

LEMMA ServeTargetKeeps ==
  ASSUME OnboardingInv, NEW h \in Handler, NEW i \in Item, ServeTarget(h, i)
  PROVE  Keeps(h)
<1>1. PICK e : e = Wanted(i, "active", "public", 0)
  OBVIOUS
<1>2. /\ Takes(h, i) /\ UNCHANGED <<work, row, issued, service, requestVars>>
      /\ call[h].pc = "targets" /\ i \in call[h].left
      /\ i \in call[h].targets => Edit(h, i, e, Serve(h, i))
      /\ i \notin call[h].targets => ServeInsert(h, i, e)
  BY <1>1 DEF ServeTarget, Takes, rowVars
<1>3. call[h].op = "approve" /\ Serving(h)
  BY <1>2 DEF OnboardingInv, Handlers, Locals
<1>4. /\ i \in Targets /\ (i \in call[h].targets => Owned(i))
  BY <1>2, <1>3 DEF Serving, Upserting, AtTargets
<1>5. i \notin Credentials
  BY <1>4 DEF Credentials, Targets
<1>6. /\ e \in Row /\ e.status = "active" /\ e.type = "public"
      /\ issued' \in [Item -> Secret]
  BY <1>1, <1>2, MaxSecretAssumption
  DEF Wanted, Row, RowStatus, Secret, OnboardingInv, TypeOK, SecretTypeOK
<1> QED
  BY <1>2, <1>4, <1>5, <1>6, ServeInsertKeeps, ServeEditKeeps

LEMMA OmitTargetsKeeps ==
  ASSUME OnboardingInv, NEW h \in Handler, OmitTargets(h)
  PROVE  Keeps(h)
<1>1. PICK c : c = [call[h] EXCEPT !.pc = "decide", !.targets = {}, !.overtaken = {}]
  OBVIOUS
<1>2. PICK rows : rows = Disabled(call[h].targets)
  OBVIOUS
<1>3. /\ call \in [Handler -> Call] /\ row \in [Item -> Row]
      /\ call[h] \in Call /\ Locals(call[h]) /\ Serving(h)
      /\ call[h].pc = "targets" /\ call[h].left = {}
  BY DEF OnboardingInv, TypeOK, SecretTypeOK, Handlers, OmitTargets
<1>4. /\ c \in Call /\ c.pc = "decide" /\ c.op = "approve"
      /\ c.request = call[h].request /\ c.left = {} /\ c.targets = {}
      /\ call[h].targets \in SUBSET Item
  BY <1>1, <1>3 DEF Call, Locals
<1>5. /\ Write(h, rows, c)
      /\ UNCHANGED <<work, issued, service, request, made, crossed>>
  BY <1>1, <1>2 DEF OmitTargets, requestVars
<1>6. /\ rows \in [Item -> Row]
      /\ \A i \in Item :
           rows[i].status \in {"active", "disabled"} \/ rows[i] = row[i]
  BY <1>2, <1>4, DisabledIs
<1>7. row' = rows /\ call'[h] = c
  BY <1>3, <1>4, <1>5, <1>6, WriteMoves
<1>8. \A j \in Item : Owned(j) => Owned(j)'
  BY <1>6, <1>7 DEF Owned
<1>9. Locals(c) /\ Editing(h)' /\ Searching(h)'
  BY <1>3, <1>4, <1>7 DEF Locals, Editing, Searching
<1>10. Serving(h)'
  <2>1. /\ Asked' = Asked /\ Credentials' = Credentials
        /\ \A j \in Asked : j \in Item
    BY <1>5 DEF Asked, Credentials, kind
  <2>2. /\ service # "absent"
        /\ \A j \in Asked \ Credentials : Owned(j)
        /\ Credentials # {} => \E j \in Credentials : made[j] = call[h].request
    BY <1>3 DEF Serving, Upserting, Locals
  <2>3. \A j \in Asked \ Credentials : Owned(j)'
    BY <1>8, <2>1, <2>2
  <2> QED
    BY <1>4, <1>5, <1>7, <2>1, <2>2, <2>3 DEF Serving, Upserting, AtTargets
<1> QED
  BY <1>4, <1>5, <1>6, <1>9, <1>10, WrittenKeeps

LEMMA RequestStepKeeps ==
  ASSUME OnboardingInv, NEW h \in Handler, RequestStep(h)
  PROVE  Keeps(h)
<1>1. ASSUME NEW q \in Request,
             \/ UpdateFind(h, q)
             \/ \E op \in {"approve", "reject"} : FindPending(h, q, op)
      PROVE  Keeps(h)
  BY <1>1, UpdateFindKeeps, FindPendingKeeps
<1>2. ASSUME NEW i \in Item,
             \/ \E type \in {"public", "confidential"} :
                  ServeClient(h, i, type) \/ ServeSubscription(h, i, type)
             \/ ServeCredential(h, i)
             \/ ServePermission(h, i)
             \/ OmitSubscription(h, i)
             \/ ServeTarget(h, i)
      PROVE  Keeps(h)
  BY <1>2, ServeClientKeeps, ServeCredentialKeeps, ServePermissionKeeps,
     ServeSubscriptionKeeps, OmitSubscriptionKeeps, ServeTargetKeeps
<1> QED
  BY <1>1, <1>2, CreateSearchKeeps, CreateFindKeeps, UpdateSearchKeeps,
     InsertRequestKeeps, FindServiceKeeps, CreateServiceKeeps, UpdateServiceKeeps,
     DisableTargetsKeeps, FindTargetsKeeps, OmitTargetsKeeps, ServedKeeps,
     DecideSelectKeeps, DecideWriteKeeps
  DEF RequestStep

-----------------------------------------------------------------------------
HandlerStep(h) ==
  \/ RequestStep(h)
  \/ AdminStep(h) /\ Makes(h) /\ UNCHANGED <<request, crossed>>
  \/ Crash(h) /\ UNCHANGED requestVars

LEMMA HandlerStepKeeps ==
  ASSUME OnboardingInv, NEW h \in Handler, HandlerStep(h)
  PROVE  Keeps(h)
<1>1. CASE Crash(h) /\ UNCHANGED requestVars
  BY <1>1, StopKeeps DEF Crash, Continue
<1> QED
  BY <1>1, RequestStepKeeps, AdminStepKeeps DEF HandlerStep

LEMMA OnboardingInvNext ==
  ASSUME OnboardingInv, [Next]_vars
  PROVE  OnboardingInv'
<1>1. ASSUME NEW h \in Handler, HandlerStep(h)
      PROVE  OnboardingInv'
  <2>1. Keeps(h)
    BY <1>1, HandlerStepKeeps
  <2>2. ASSUME NEW g \in Handler
        PROVE  /\ Locals(call'[g]) /\ Editing(g)' /\ Serving(g)' /\ Searching(g)'
    <3>1. CASE g = h
      BY <2>1, <3>1 DEF Keeps
    <3>2. CASE g # h
      BY <2>1, <3>2, OthersKeep DEF Keeps
    <3> QED
      BY <3>1, <3>2
  <2>3. Handlers'
    BY <2>1, <2>2 DEF Keeps, Handlers, TypeOK, SecretTypeOK
  <2> QED
    BY <2>1, <2>2, <2>3 DEF Keeps, OnboardingInv
<1>2. CASE UNCHANGED vars
  BY <1>2
  DEF vars, secretVars, rowVars, requestVars, OnboardingInv, TypeOK, SecretTypeOK,
      Handlers, Rows, Editing, Serving, Searching, Searched, OneOpenRequest,
      ApprovedIsProvisioned, Open, Asked, Credentials, Targets, Visited, AtTargets,
      kind, Owned, Differing
<1> QED
  BY <1>1, <1>2 DEF Next, HandlerStep

LEMMA OnboardingInvInit ==
  ASSUME Init
  PROVE  OnboardingInv
<1>1. /\ work \in Workload /\ row \in [Item -> {NoRow, ForeignRow, EarlierRow}]
      /\ \A i \in Item : row[i] = ForeignRow => kind[i] = "client"
      /\ issued = [i \in Item |-> 0] /\ service \in {"absent", "active"}
      /\ call = [h \in Handler |-> NoCall]
      /\ request = [q \in Request |-> "none"]
      /\ made = [i \in Item |-> None] /\ crossed = {}
  BY DEF Init, SecretInit
<1>2. row \in [Item -> Row]
  BY <1>1, NoCallType
<1>3. TypeOK
  BY <1>1, <1>2, NoCallType, MaxSecretAssumption
  DEF TypeOK, SecretTypeOK, RequestStatus, Secret
<1>4. \A h \in Handler : call[h] = NoCall
  BY <1>1
<1>5. Handlers /\ \A h \in Handler : Editing(h) /\ Serving(h) /\ Searching(h)
  BY <1>4, NoCallType DEF Handlers, Editing, Serving, Searching, Upserting
<1>6. Rows
  BY <1>1 DEF Rows, NoRow, ForeignRow, EarlierRow
<1>7. OneOpenRequest /\ ApprovedIsProvisioned
  BY <1>1 DEF OneOpenRequest, ApprovedIsProvisioned, Open
<1> QED
  BY <1>3, <1>5, <1>6, <1>7 DEF OnboardingInv

LEMMA OnboardingInvHolds == Spec => []OnboardingInv
BY OnboardingInvInit, OnboardingInvNext, PTL DEF Spec

(* Types of the rows, of the locals of every handler and of the requests.  *)
THEOREM OnboardingTypeCorrect == Spec => []TypeOK
<1>1. OnboardingInv => TypeOK
  BY DEF OnboardingInv
<1> QED
  BY <1>1, OnboardingInvHolds, PTL

(* A service key has one pending request unless two handlers looked at the *)
(* same time, with any number of handlers and of requests.                 *)
THEOREM OneOpenRequestHolds == Spec => []OneOpenRequest
<1>1. OnboardingInv => OneOpenRequest
  BY DEF OnboardingInv
<1> QED
  BY <1>1, OnboardingInvHolds, PTL

(* What an approved request asks for exists and is the service's own, with *)
(* any number of items of every kind and of handlers that fail or repeat.  *)
THEOREM ApprovedIsProvisionedHolds == Spec => []ApprovedIsProvisioned
<1>1. OnboardingInv => ApprovedIsProvisioned
  BY DEF OnboardingInv
<1> QED
  BY <1>1, OnboardingInvHolds, PTL

-----------------------------------------------------------------------------
(* The steps that write a row.                                             *)
LEMMA RowWriters ==
  ASSUME NEW h \in Handler, HandlerStep(h)
  PROVE  \/ row' = row
         \/ SaveWrite(h)
         \/ Insert(h)
         \/ DisableTargets(h)
         \/ OmitTargets(h)
<1>1. CASE RequestStep(h)
  BY <1>1
  DEF RequestStep, CreateSearch, CreateFind, UpdateFind, UpdateSearch, FindPending,
      InsertRequest, FindService, CreateService, UpdateService, ServeClient,
      ServeCredential, ServePermission, ServeSubscription, OmitSubscription,
      FindTargets, ServeTarget, Activate, Served, DecideSelect, DecideWrite, rowVars
<1>2. CASE AdminStep(h)
  BY <1>2, ZenonT(60)
  DEF AdminStep, EditClient, RotateClient, RotateCredential, RotateSubscription,
      Renew, DisableCredential, UpdateCredential, SetSubscriptionStatus,
      SetTargetStatus, SetStatus, SaveSelect, rowVars
<1>3. CASE Crash(h)
  BY <1>3 DEF Crash, rowVars
<1> QED
  BY <1>1, <1>2, <1>3 DEF HandlerStep

(* What a save leaves of its row.                                          *)
LEMMA SaveLeaves ==
  ASSUME OnboardingInv, NEW h \in Handler, SaveWrite(h)
  PROVE  /\ call[h].pc = "commit" /\ call[h].item \in Item
         /\ call[h].entity \in Row /\ call[h].columns \in SUBSET Column
         /\ row[call[h].item] \in Row
         /\ row'[call[h].item]
              = Merged(call[h].item, call[h].entity, call[h].columns)
         /\ \A j \in Item : j # call[h].item => row'[j] = row[j]
         /\ Editing(h)
<1>1. PICK i : i = call[h].item
  OBVIOUS
<1>2. PICK r : r = Merged(i, call[h].entity, call[h].columns)
  OBVIOUS
<1>3. /\ call[h] \in Call /\ Locals(call[h]) /\ call[h].pc = "commit"
      /\ row \in [Item -> Row] /\ call \in [Handler -> Call] /\ Editing(h)
  BY DEF OnboardingInv, TypeOK, SecretTypeOK, Handlers, SaveWrite
<1>4. /\ i \in Item /\ call[h].entity \in Row /\ call[h].columns \in SUBSET Column
      /\ row[i] \in Row
  BY <1>1, <1>3 DEF Call, Locals
<1>5. row' = [row EXCEPT ![i] = r]
  BY <1>1, <1>2 DEF SaveWrite, WriteRow, Write
<1>6. row'[i] = r /\ \A j \in Item : j # i => row'[j] = row[j]
  BY <1>3, <1>4, <1>5
<1> QED
  BY <1>1, <1>2, <1>3, <1>4, <1>6

(* A save undoes another's write only if it was made between the save's    *)
(* load and its SELECT, with any number of handlers on any number of rows. *)
THEOREM SavesKeepOthersHolds == Spec => SavesKeepOthers
<1> DEFINE KeepsOthers ==
      \A h \in Handler :
        call[h].pc = "commit" /\ call'[h].pc # "commit" /\ row' # row
          => \A c \in Column :
               row'[call[h].item][c] # row[call[h].item][c]
                 => \/ c \in call[h].edited
                    \/ call[h].item \in call[h].overtaken
<1>1. ASSUME OnboardingInv, [Next]_vars
      PROVE  [KeepsOthers]_vars
  <2> SUFFICES ASSUME Next, NEW h \in Handler, call[h].pc = "commit",
                      call'[h].pc # "commit", row' # row,
                      call[h].item \notin call[h].overtaken,
                      NEW c \in Column, c \notin call[h].edited
               PROVE  row'[call[h].item][c] = row[call[h].item][c]
    BY <1>1
  <2>1. PICK g \in Handler : HandlerStep(g)
    BY DEF Next, HandlerStep
  <2>2. g = h
    <3> SUFFICES ASSUME g # h PROVE FALSE
      OBVIOUS
    <3>1. Respects(g)
      BY <1>1, <2>1, HandlerStepKeeps DEF Keeps
    <3>2. PICK b \in SUBSET Item : call'[h] = [call[h] EXCEPT !.overtaken = b]
      BY <3>1 DEF Respects, Overtakes
    <3>3. call[h] \in Call
      BY <1>1 DEF OnboardingInv, Handlers
    <3> QED
      BY <3>2, <3>3 DEF Call
  <2>3. SaveWrite(h)
    BY <2>1, <2>2, RowWriters DEF Insert, DisableTargets, OmitTargets
  <2>4. PICK i : i = call[h].item
    OBVIOUS
  <2>5. /\ call[h].columns \subseteq call[h].edited /\ row[i] \in Row
        /\ row'[i] = Merged(i, call[h].entity, call[h].columns)
    BY <1>1, <2>3, <2>4, SaveLeaves DEF Editing
  <2>6. row'[i][c] = row[i][c]
    BY <2>5 DEF Merged, Column, Row
  <2> QED
    BY <2>4, <2>6
<1> QED
  BY <1>1, OnboardingInvHolds, PTL DEF Spec, SavesKeepOthers

(* Nobody leaves a confidential client without a secret, but for a save    *)
(* that another ran into, with any number of clients and of handlers.      *)
THEOREM ConfidentialHasSecretHolds == Spec => ConfidentialHasSecret
<1> DEFINE HasSecret ==
      \A i \in Item :
        LockedOut(i)' /\ ~LockedOut(i)
          => \E h \in Handler : /\ call[h].pc = "commit"
                                /\ call[h].item = i
                                /\ \/ i \in call[h].overtaken
                                   \/ row'[i] # call[h].entity
<1>1. ASSUME OnboardingInv, [Next]_vars
      PROVE  [HasSecret]_vars
  <2> SUFFICES ASSUME Next, NEW i \in Item, LockedOut(i)', ~LockedOut(i)
               PROVE  \E h \in Handler :
                        /\ call[h].pc = "commit"
                        /\ call[h].item = i
                        /\ i \in call[h].overtaken \/ row'[i] # call[h].entity
    BY <1>1
  <2>1. row'[i] # row[i] /\ row' # row
    BY DEF LockedOut, Owned
  <2>2. PICK h \in Handler : HandlerStep(h)
    BY DEF Next, HandlerStep
  <2>3. \/ SaveWrite(h)
        \/ Insert(h)
        \/ DisableTargets(h) \/ OmitTargets(h)
    BY <2>1, <2>2, RowWriters
  <2>4. /\ row[i] \in Row /\ row \in [Item -> Row]
        /\ call[h] \in Call /\ Locals(call[h]) /\ Editing(h)
    BY <1>1 DEF OnboardingInv, TypeOK, SecretTypeOK, Handlers
  <2>5. CASE SaveWrite(h)
    <3>1. call[h].item = i
      BY <1>1, <2>1, <2>5, SaveLeaves
    <3>2. PICK r : r = row'[i]
      OBVIOUS
    <3>3. /\ call[h].pc = "commit" /\ r = Merged(i, call[h].entity, call[h].columns)
          /\ call[h].entity \in Row /\ call[h].columns \in SUBSET Column
      BY <1>1, <2>5, <3>1, <3>2, SaveLeaves
    <3>4. /\ r.type = IF "type" \in call[h].columns
                      THEN call[h].entity.type ELSE row[i].type
          /\ r.secret = IF "secret" \in call[h].columns
                        THEN call[h].entity.secret ELSE row[i].secret
      BY <2>4, <3>3, MergedType
    <3>5. r.type = "confidential" /\ r.secret = 0
      BY <3>2 DEF LockedOut
    <3>6. Owned(i)
      BY <2>4, <3>1, <3>3 DEF Editing
    <3>7. ~(row[i].type = "confidential" /\ row[i].secret = 0)
      BY <3>6 DEF LockedOut
    <3>8. i \in call[h].overtaken \/ r # call[h].entity
      BY <2>4, <3>1, <3>3, <3>4, <3>5, <3>7 DEF Editing
    <3> QED
      BY <3>1, <3>2, <3>3, <3>8
  <2>6. CASE Insert(h)
    <3>1. row' = [row EXCEPT ![call[h].item] = call[h].entity] \/ row' = row
      BY <2>6 DEF Insert, WriteRow, Write
    <3>2. row'[i] = call[h].entity
      BY <2>1, <2>4, <3>1
    <3> QED
      BY <2>4, <2>6, <3>2 DEF Insert, Editing, LockedOut
  <2>7. CASE DisableTargets(h) \/ OmitTargets(h)
    <3>1. PICK T : /\ T \in SUBSET Item
                   /\ row' = Disabled(T)
      BY <2>4, <2>7 DEF DisableTargets, OmitTargets, Write, Call
    <3>2. /\ row'[i].type = row[i].type /\ row'[i].secret = row[i].secret
          /\ row'[i] = row[i] \/ Owned(i)
      BY <1>1, <3>1, DisabledIs DEF Disabled
    <3> QED
      BY <2>1, <3>2 DEF LockedOut
  <2> QED
    BY <2>3, <2>5, <2>6, <2>7
<1> QED
  BY <1>1, OnboardingInvHolds, PTL DEF Spec, ConfidentialHasSecret
=============================================================================
