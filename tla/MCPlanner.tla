----------------------------- MODULE MCPlanner ------------------------------
(***************************************************************************)
(* Search, and the Timeline it drives, on two sites: a fast one that can   *)
(* submit at once and a slow one that waits in the queue.  What varies is  *)
(* the corpus, the attempts, the H schedule, balancing, the objective and  *)
(* alpha.                                                                  *)
(***************************************************************************)
EXTENDS Search

CONSTANTS near, far

MCSites == {near, far}

Probe(wait) == [ok |-> TRUE, age |-> 1, by |-> "me", wait |-> wait]

Shape(gpus, wall, probe) == [gpus |-> gpus, wall |-> wall, probe |-> probe]

\* Of each way not to be admitted there is one.
MCShapes ==
    (near :> {Shape(1, 7, Probe(0)), Shape(2, 11, Probe(1)), Shape(1, 9, NoProbe),
              Shape(1, 10, [Probe(0) EXCEPT !.by = "other"]),
              Shape(2, 9, [Probe(0) EXCEPT !.age = 3])}) @@
    (far :> {Shape(1, 7, Probe(4)), Shape(2, 12, Probe(6)), Shape(4, 12, Probe(0)),
             Shape(1, 12, [Probe(0) EXCEPT !.ok = FALSE]), Shape(1, 1, Probe(0))})

MCSubmitter == (near :> "me") @@ (far :> "me")

MCGeometry ==
    (<<near, 1>> :> [step |-> 1, batch |-> 1]) @@
    (<<near, 2>> :> [step |-> 1, batch |-> 2]) @@
    (<<far, 1>> :> [step |-> 4, batch |-> 1]) @@
    (<<far, 2>> :> [step |-> 2, batch |-> 1])

MCEvalFix == (near :> 0) @@ (far :> 1)

MCStartup == (near :> 1) @@ (far :> 1)

MCXfer == (near :> 1) @@ (far :> 0)

Configs ==
    [blocks : {4, 8, 30}, attempts : {4, 9}, trace : {<<1>>, <<1, 2>>},
     balance : {"auto", "on"}, objective : {"federated"}, alpha : {<<1, 4>>}]
    \cup
    [blocks : {30}, attempts : {9}, trace : {<<1>>}, balance : {"auto"},
     objective : {"federated"}, alpha : {<<2, 5>>, <<2, 1>>}]
    \cup
    [blocks : {16}, attempts : {9}, trace : {<<1>>}, balance : {"auto"},
     objective : {"tokens"}, alpha : {<<1, 4>>}]

MCInit == SearchInit(Configs)

MCSpec == MCInit /\ [][SearchNext]_searchVars
=============================================================================
