---------------------------- MODULE MCTriggerTicks ----------------------------
(* Small installations of TriggerTicks for TLC.                             *)
EXTENDS TriggerTicks

CONSTANTS c1, c2   \* the ticks of the cron coordinator; the others poll

Coordinators == [c \in Ticks |-> IF c \in {c1, c2} THEN "cron" ELSE "poll"]

WithCron(c) == [triggers |-> {"cron"}, catchUp |-> c, onFirstPoll |-> "prime"]
WithPoll(p) == [triggers |-> {"poll"}, catchUp |-> "none", onFirstPoll |-> p]
OneTrigger == {WithCron("all"), WithCron("one"), WithCron("none"),
               WithPoll("prime"), WithPoll("fire")}
Firing == {WithPoll("fire")}

(* No definition tells two items, or two cron ticks, apart.                 *)
Symmetry == Permutations(Items) \cup Permutations({c1, c2})
=============================================================================
