--------------------------- MODULE MCRaftAgreement ---------------------------
(* A correct Raft of two servers under all functions of the harness, also  *)
(* with two leaders one after the other; three servers and three terms,    *)
(* for checkOneLeader; a Raft that does anything.                          *)
EXTENDS RaftAgreement

Correct == [N |-> 2, MaxIndex |-> 2, MaxTerm |-> 1, MaxRounds |-> 1, Faulty |-> FALSE]
Retried == [N |-> 2, MaxIndex |-> 1, MaxTerm |-> 2, MaxRounds |-> 1, Faulty |-> FALSE]
Elections == [N |-> 3, MaxIndex |-> 0, MaxTerm |-> 3, MaxRounds |-> 1, Faulty |-> FALSE]
Wrong == [N |-> 2, MaxIndex |-> 2, MaxTerm |-> 0, MaxRounds |-> 0, Faulty |-> TRUE]
MCSizes == {Correct, Retried, Elections, Wrong}
=============================================================================
