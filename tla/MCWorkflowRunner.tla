-------------------------- MODULE MCWorkflowRunner --------------------------
(* Workflows of WorkflowRunner for TLC.                                     *)
EXTENDS WorkflowRunner

Pairs == Pipelines \X Pipelines
Upward == {q \in Pairs : q[1] < q[2]}

(* Every acyclic graph with every kind of edge and gate.                    *)
Unattended ==
  [pairs |-> Upward, asking |-> {}, on |-> Completions, gates |-> GateValues]

(* Every graph of success edges behind two human gates, cycles and loops    *)
(* too: parseWorkflow does not ask for an acyclic one.                      *)
Circular ==
  [pairs |-> Pairs, asking |-> {1, 2}, on |-> {"success"}, gates |-> {"open"}]

(* Every acyclic graph whose first pipeline asks.                               *)
Attended ==
  [pairs |-> Upward, asking |-> {1}, on |-> Completions,
   gates |-> GateValues]

AllShapes == {Unattended, Circular, Attended}
OneQuestion == {Attended}
=============================================================================
