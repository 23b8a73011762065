------------------------------ MODULE Topology ------------------------------
(***************************************************************************)
(* What kvraft/config.go promises a test about which servers reach which:  *)
(* a server that is shut down reaches nobody and is reached by nobody, a   *)
(* partition leaves exactly the links within its two parts.                *)
(***************************************************************************)
CONSTANT Nodes

VARIABLE linked

Init == linked = Nodes \X Nodes

Isolate(i) == linked' = {p \in linked : i \notin {p[1], p[2]}}

Split(P) == linked' = (P \X P) \cup ((Nodes \ P) \X (Nodes \ P))

Next == (\E i \in Nodes : Isolate(i)) \/ (\E P \in SUBSET Nodes : Split(P))

Spec == Init /\ [][Next]_linked
=============================================================================
