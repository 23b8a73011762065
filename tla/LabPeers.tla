------------------------------ MODULE LabPeers ------------------------------
(***************************************************************************)
(* What the harnesses of the labs share: labrpc, the Persister of          *)
(* raft/persister.go, and the replicated servers under test.               *)
(*                                                                         *)
(* Instance k of server i is <<i, k>>; it also names its labrpc Server     *)
(* object and the Persister it was started with.  Its end for server j is  *)
(* <<i, k, j>>, where the code draws a random name.  <<i, 0>> is the copy  *)
(* of the Persister that a harness holds between two instances.            *)
(* A server is external code: a handler adds its request to the server's   *)
(* state and saves that before it returns; where snapshots are in use the  *)
(* server may move its state into one at any time.  Kill only sets a flag: *)
(* an old instance goes on calling, answering and saving.                  *)
(***************************************************************************)
EXTENDS LabRPC, TLC

CONSTANTS MaxStarts,   \* bound: instances of a server
          Snapshots    \* whether servers save snapshots

VARIABLES started,     \* number of instances of a server so far
          saved,       \* cfg.saved: the Persister the harness holds
          store,       \* per Persister: raftstate and snapshot
          memory       \* per instance: what it knows

pvars == <<started, saved, store, memory>>

endnames(i, j) == <<i, started[i], j>>

EnableAll(S, yes) ==
  enabled' = [e \in DOMAIN enabled |-> IF e \in S THEN yes ELSE enabled[e]]

(* Persister: MakePersister, Copy, SaveRaftState, SaveStateAndSnapshot *)
MakePersister == [raftstate |-> {}, snapshot |-> {}]

Copy(p) == store[p]

SaveRaftState(p, state) == [p EXCEPT !.raftstate = state]

SaveStateAndSnapshot(p, state, snapshot) == [p EXCEPT !.raftstate = state, !.snapshot = snapshot]

Persisted(p) == store[p].raftstate \cup store[p].snapshot

(* The state a harness begins with: all servers started, no calls. *)
AllStarted ==
  /\ servers = [i \in Servers |-> <<i, 1>>]
  /\ used = {<<i, 1>> : i \in Servers}
  /\ done = FALSE /\ dispatcher = TRUE /\ exited = FALSE
  /\ call = [c \in Calls |-> NoCall]
  /\ handler = [c \in Calls |-> "none"]
  /\ started = [i \in Servers |-> 1]
  /\ saved = servers
  /\ store = [p \in Servers \X (0 .. MaxStarts) |-> MakePersister]
  /\ memory = [o \in Objects |-> {}]

HandlerSaves(c) ==
  LET o == call[c].obj
  IN  /\ RunHandler(c)
      /\ memory' = [memory EXCEPT ![o] = @ \cup {c}]
      /\ store' = [store EXCEPT ![o] = SaveRaftState(@, memory'[o] \ @.snapshot)]
      /\ UNCHANGED <<started, saved>>

PeerSnapshots(o) ==
  /\ Snapshots /\ o \in used /\ store[o].snapshot # memory[o]
  /\ store' = [store EXCEPT ![o] = SaveStateAndSnapshot(@, {}, memory[o])]
  /\ UNCHANGED <<netVars, done, dispatcher, call, handler, started, saved, memory>>

-----------------------------------------------------------------------------
PeersTypeOK ==
  /\ reliable \in BOOLEAN /\ ends \subseteq Ends /\ used \subseteq Objects
  /\ enabled \in [Ends -> BOOLEAN]
  /\ connections \in [Ends -> Servers \cup {nil}]
  /\ servers \in [Servers -> Objects \cup {nil}]
  /\ handler \in [Calls -> {"none", "started", "replies", "returned"}]
  /\ started \in [Servers -> 1 .. MaxStarts]
  /\ saved \in [Servers -> DOMAIN store]
  /\ memory \in [Objects -> SUBSET Calls]
  /\ \A p \in DOMAIN store : store[p].raftstate \subseteq Calls /\ store[p].snapshot \subseteq Calls

Positive(c) == At(c, "returned") /\ call[c].ok
=============================================================================
