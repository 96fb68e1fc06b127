--------------------------- MODULE MCRunScheduler ---------------------------
(* Small installations of RunScheduler for TLC.                             *)
EXTENDS RunScheduler

(* Processes: a server beside a worker, one of each role.                   *)
ServerAndWorker == [i \in Instances |-> IF i = "p1" THEN "server" ELSE "worker"]
AllRoles ==
  [i \in Instances |->
     CASE i = "p1" -> "server" [] i = "p2" -> "worker" [] OTHER -> "scheduler"]

OwnIds == [i \in Instances |-> i]
SharedId == [i \in Instances |-> "local"]

OneSlot == [i \in Instances |-> 1]
TwoSlots == [i \in Instances |-> 2]

OneWorkflow == [r \in Runs |-> "w"]
(* Run 1 holds the only slot while runs 2 and 3 of another workflow wait.   *)
TwoWorkflows == [r \in Runs |-> IF r = 1 THEN "v" ELSE "w"]

QueueOverlap == [w \in Workflows |-> "queue"]
MixedOverlap == [w \in Workflows |-> IF w = "v" THEN "parallel" ELSE "queue"]

(* Bound: a crash or a resume, not both, beside the cancels; and no write    *)
(* back of an old record is overtaken, as it is in two_recover, cancel_race. *)
OneInterruption == crashes + resumes <= 1 /\ NothingOvertaken
=============================================================================
