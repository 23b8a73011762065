----------------------------- MODULE MCPorcupine -----------------------------
(* All small histories of one key, for the search; of two, for checkParallel. *)
EXTENDS Porcupine

Get(out) == [op |-> "get", value |-> 0, out |-> out]
Put(v) == [op |-> "put", value |-> v, out |-> <<>>]
App(v) == [op |-> "append", value |-> v, out |-> <<>>]

MixedOps == {Get(<<>>), Get(<<1>>), Get(<<1, 2>>), Get(<<2>>), Put(1), Put(2), App(2)}
TwoOps == {Get(<<1>>), Put(1)}

MCCases ==
  {[keys |-> {1}, ops |-> MixedOps, sizes |-> 0..3, verbose |-> {TRUE}, timers |-> {FALSE},
    apis |-> {"operations", "events"}],
   [keys |-> {1, 2}, ops |-> TwoOps, sizes |-> {3}, verbose |-> BOOLEAN, timers |-> BOOLEAN,
    apis |-> {"operations"}]}
=============================================================================
