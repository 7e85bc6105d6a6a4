---------------------------- MODULE MCCbfClient ----------------------------
(* Two branches over a common block, with a retarget at height 3.  The slow *)
(* branch b keeps its difficulty; the fast branch a has to raise it, so that *)
(* it is the shorter one and has more work.  Block x3 is a3 without the      *)
(* retarget.  Branch a creates and spends the outpoint in one block, branch  *)
(* b in two.                                                                 *)
EXTENDS CbfClient

MCParams ==
    [genesis |-> "g0", interval |-> 3, timespan |-> 8, spacing |-> 2, median |-> 11, limit |-> 12,
     base |-> 2, space |-> 64, minDifficulty |-> FALSE, noRetargeting |-> FALSE]

Block(prev, time, bits, hash) == [prev |-> prev, time |-> time, bits |-> bits, hash |-> hash]

MCHeader ==
    [g0 |-> Block("none", 0, 12, 0), g1 |-> Block("g0", 1, 12, 9),
     a2 |-> Block("g1", 2, 12, 12), a3 |-> Block("a2", 2, 3, 3), x3 |-> Block("a2", 3, 12, 5),
     b2 |-> Block("g1", 8, 12, 7), b3 |-> Block("b2", 5, 12, 11), b4 |-> Block("b3", 9, 12, 8)]

MCServed == {<< >>, <<"g1">>, <<"g1", "a2">>, <<"g1", "a2", "a3">>, <<"g1", "a2", "x3">>,
             <<"g1", "b2">>, <<"g1", "b2", "b3">>, <<"g1", "b2", "b3", "b4">>}

MCContent ==
    [g1 |-> <<"anchor">>, a2 |-> <<"create", "spend", "anchor">>, a3 |-> << >>, x3 |-> <<"spend">>,
     b2 |-> << >>, b3 |-> <<"anchor", "create">>, b4 |-> <<"spend">>]
=============================================================================
