---------------------------- MODULE SigningKeys ----------------------------
(***************************************************************************)
(* The keys that sign tokens: the table signing_keys and what each process *)
(* keeps of it in memory (SigningKeyService).  A process reads the table   *)
(* once, when it starts.  If no key is active it makes one.  The code      *)
(* never retires or deletes a key: every stored key is active.             *)
(***************************************************************************)
EXTENDS Naturals

CONSTANTS Process, \* the processes of the server
          MaxKey   \* bounds the keys ever made; one per process is enough

ASSUME MaxKeyAssumption == MaxKey \in Nat

VARIABLES stored,  \* the keys of the table: 1..stored, in order of creation
          process  \* what each process is doing and knows

keyVars == <<stored, process>>

Key == 1..MaxKey

(* active signs, known are the keys it can verify with and publishes;      *)
(* behind is history: others inserted keys since it read the table.        *)
ProcessState == [pc : {"down", "insert", "running"},
                 active : Key \cup {0}, known : SUBSET Key,
                 behind : BOOLEAN]

Down == [pc |-> "down", active |-> 0, known |-> {}, behind |-> FALSE]

-----------------------------------------------------------------------------
(* Mutant of LoadKeys: only the active key is registered.                  *)
LoadKeysActive(p) ==
  /\ process[p].pc = "down"
  /\ process' = [process EXCEPT ![p] =
       IF stored = 0 THEN [Down EXCEPT !.pc = "insert"]
       ELSE [Down EXCEPT !.pc = "running", !.active = stored, !.known = {stored}]]
  /\ UNCHANGED stored

(* loadOrCreate: the newest active key signs, all keys verify.             *)
LoadKeys(p) ==
  /\ process[p].pc = "down"
  /\ process' = [process EXCEPT ![p] =
       IF stored = 0 THEN [Down EXCEPT !.pc = "insert"]
       ELSE [Down EXCEPT !.pc = "running", !.active = stored, !.known = 1..stored]]
  /\ UNCHANGED stored

(* generateAndPersist: the process knows what it found, nothing, and its   *)
(* own key.                                                                *)
InsertKey(p) ==
  /\ process[p].pc = "insert"
  /\ stored < MaxKey
  /\ stored' = stored + 1
  /\ process' = [q \in Process |->
       IF q = p
       THEN [process[p] EXCEPT !.pc = "running", !.active = stored + 1,
                               !.known = {stored + 1}]
       ELSE [process[q] EXCEPT !.behind = process[q].pc # "down"]]

(* A process stops, at any point, and is started again.                    *)
StopProcess(p) ==
  /\ process[p].pc # "down"
  /\ process' = [process EXCEPT ![p] = Down]
  /\ UNCHANGED stored

KeyInit == stored = 0 /\ process = [p \in Process |-> Down]

KeyNext == \E p \in Process : LoadKeys(p) \/ InsertKey(p) \/ StopProcess(p)

KeySpec == KeyInit /\ [][KeyNext]_keyVars

-----------------------------------------------------------------------------
Running == {p \in Process : process[p].pc = "running"}

(* Type invariant of the keys.                                             *)
KeyTypeOK == /\ stored \in 0..MaxKey
             /\ process \in [Process -> ProcessState]

(* A token that one process signs can be verified by every other, in       *)
(* whatever order they start, fail and make keys, unless the key was       *)
(* inserted after the other read the table; restarting that one helps.     *)
(* (loadOrCreate; jwks exposes all keys "so consumers can still verify     *)
(* access tokens signed by a previous key").                               *)
KeysKnown ==
  \A p, q \in Running :
    process[p].active \in process[q].known \/ process[q].behind
=============================================================================
