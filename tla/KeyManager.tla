----------------------------- MODULE KeyManager -----------------------------
(***************************************************************************)
(* The clients a node knows (src/k2k/keys.rs and its callers): their keys  *)
(* in memory, where signatures are checked, and a row per client in the    *)
(* record store, which has the status as well.  A file of an older version *)
(* is imported at a start that finds no rows, and is never deleted.        *)
(*                                                                         *)
(* A mutex is held through every registration and every check; decisions   *)
(* of the administrator go to the store without it.                        *)
(***************************************************************************)
EXTENDS Naturals

CONSTANTS
  Peers,            \* ids of clients
  Keys,
  NoKey,
  NoRow,
  MaxRegistrations, \* bound on registrations
  MaxEnds           \* bound on failures and ends of the process

ASSUME KeyManagerAssumption ==
  /\ NoKey \notin Keys
  /\ NoRow \notin [key : Keys, status : {"approved", "pending", "rejected"}]
  /\ MaxRegistrations \in Nat /\ MaxEnds \in Nat

VARIABLES
  manager,  \* where the start or a registration stands
  keyFiles, \* how far the node's own two key files have been written
  json,     \* the clients of the older version's file
  rows,     \* k2k_client, in the record store
  memory,   \* registered_clients
  call,     \* the registration under way
  toImport, \* clients of the file that have still to be imported
  registrations, ends,
  settled,  \* history: what a client was told last of her key and status
  unsaved   \* history: clients whose registration failed at the store

keyVars  == <<manager, keyFiles, json, rows, memory, call, toImport, registrations, ends, settled, unsaved>>
bounds   == <<registrations, ends>>
history  == <<settled, unsaved>>

NoCall   == [peer |-> NoKey, row |-> NoRow]
Nobody   == [p \in Peers |-> NoKey]
AllFiles == 4  \* each of the two files is created and then filled

KeysInit ==
  /\ manager = "off" /\ keyFiles = 0
  /\ json \in [Peers -> Keys \cup {NoKey}]
  /\ rows = [p \in Peers |-> NoRow]
  /\ memory = Nobody /\ call = NoCall /\ toImport = {}
  /\ registrations = 0 /\ ends = 0
  /\ settled = [p \in Peers |-> NoRow] /\ unsaved = {}

Switch(from, to) == manager = from /\ manager' = to
Failing          == ends < MaxEnds /\ ends' = ends + 1
InFile           == {p \in Peers : json[p] # NoKey}
NoRows           == \A p \in Peers : rows[p] = NoRow
KeyOf(row)       == IF row = NoRow THEN NoKey ELSE row.key
-----------------------------------------------------------------------------
(* KeyManager::new.                                                          *)
\* Without a private key file a pair is generated and saved; else both are read.
Generate ==
  /\ Switch("off", "save") /\ keyFiles = 0
  /\ UNCHANGED <<keyFiles, json, rows, memory, call, toImport, bounds, history>>

SaveKeys ==
  /\ manager = "save" /\ keyFiles' = keyFiles + 1
  /\ manager' = IF keyFiles' = AllFiles THEN "clients" ELSE "save"
  /\ UNCHANGED <<json, rows, memory, call, toImport, bounds, history>>

LoadKeys ==
  /\ Switch("off", "clients") /\ keyFiles = AllFiles
  /\ UNCHANGED <<keyFiles, json, rows, memory, call, toImport, bounds, history>>

\* Seeded fault: whatever is in the file is imported.
ImportAgain  == TRUE
ImportNeeded == NoRows

LoadClients ==
  /\ Switch("clients", "up") /\ ~(ImportNeeded /\ InFile # {})
  /\ memory' = [p \in Peers |-> KeyOf(rows[p])]
  /\ UNCHANGED <<keyFiles, json, rows, call, toImport, bounds, history>>

BeginImport ==
  /\ Switch("clients", "import") /\ ImportNeeded /\ InFile # {}
  /\ toImport' = InFile
  /\ UNCHANGED <<keyFiles, json, rows, memory, call, bounds, history>>

ImportClient(p) ==
  /\ manager = "import" /\ p \in toImport
  /\ rows' = [rows EXCEPT ![p] = [key |-> json[p], status |-> "approved"]]
  /\ toImport' = toImport \ {p}
  /\ UNCHANGED <<manager, keyFiles, json, memory, call, bounds, history>>

EndImport ==
  /\ Switch("import", "up") /\ toImport = {}
  /\ memory' = json
  /\ UNCHANGED <<keyFiles, json, rows, call, toImport, bounds, history>>
-----------------------------------------------------------------------------
(* register_client: memory first, then the store.  The status is approved if *)
(* the client knows the secret.  A registration replaces an earlier one.     *)
\* Seeded fault: who is known keeps her key.
KeptKey(p, k)    == IF memory[p] = NoKey THEN k ELSE memory[p]
Remembered(p, k) == k

RegisterClient(p, k, status) ==
  /\ Switch("up", "persist")
  /\ registrations < MaxRegistrations /\ registrations' = registrations + 1
  /\ memory' = [memory EXCEPT ![p] = Remembered(p, k)]
  /\ call' = [peer |-> p, row |-> [key |-> k, status |-> status]]
  /\ UNCHANGED <<keyFiles, json, rows, toImport, ends, history>>

Persist ==
  /\ Switch("persist", "up")
  /\ rows' = [rows EXCEPT ![call.peer] = call.row]
  /\ settled' = [settled EXCEPT ![call.peer] = call.row]
  /\ unsaved' = unsaved \ {call.peer}
  /\ call' = NoCall
  /\ UNCHANGED <<keyFiles, json, memory, toImport, bounds>>

FailPersist ==
  /\ Switch("persist", "up") /\ Failing
  /\ unsaved' = unsaved \cup {call.peer}
  /\ call' = NoCall
  /\ UNCHANGED <<keyFiles, json, rows, memory, toImport, registrations, settled>>

\* The administrator approves or rejects, also while somebody registers.
Decide(p, status) ==
  /\ manager \in {"up", "persist"}
  /\ rows[p] # NoRow /\ rows[p].status # status
  /\ rows' = [rows EXCEPT ![p].status = status]
  /\ settled' = [settled EXCEPT ![p] = [key |-> rows[p].key, status |-> status]]
  /\ UNCHANGED <<manager, keyFiles, json, memory, call, toImport, bounds, unsaved>>

\* The process ends, or a start fails at the store or at a file.
End ==
  /\ manager # "off" /\ manager' = "off" /\ Failing
  /\ memory' = Nobody /\ call' = NoCall /\ toImport' = {} /\ unsaved' = {}
  /\ UNCHANGED <<keyFiles, json, rows, registrations, settled>>

KeysNext ==
  \/ Generate \/ SaveKeys \/ LoadKeys \/ LoadClients \/ BeginImport \/ EndImport
  \/ Persist \/ FailPersist \/ End
  \/ \E p \in Peers :
       \/ ImportClient(p)
       \/ \E k \in Keys, status \in {"approved", "pending"} : RegisterClient(p, k, status)
       \/ \E status \in {"approved", "rejected"} : Decide(p, status)

KeysSpec == KeysInit /\ [][KeysNext]_keyVars
-----------------------------------------------------------------------------
(* What was answered to a registration or decided by the administrator last  *)
(* stands, through every restart: no start puts the older version's clients  *)
(* back over it, however often it begins and wherever it breaks off.         *)
DecisionsStand == \A p \in Peers : settled[p] # NoRow => rows[p] = settled[p]

(* Whenever a signature may be checked, the key it is checked with is that   *)
(* of the row that has the client's status; unless her last registration     *)
(* since the start failed at the store, which leaves the new key in memory.  *)
MemoryFollowsStore ==
  manager = "up" => \A p \in Peers \ unsaved : memory[p] = KeyOf(rows[p])
=============================================================================
