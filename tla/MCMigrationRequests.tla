------------------------- MODULE MCMigrationRequests -------------------------
(* Small sets of requests of MigrationRequests for TLC.                     *)
EXTENDS MigrationRequests

(* A migration, a second request with its key, and the history page's.     *)
KeyFor == [r \in Requests |-> IF r \in {"first", "again"} THEN "key" ELSE NoKey]
Kinds(first, again, undo) ==
  [r \in Requests |-> CASE r = "first" -> first [] r = "again" -> again [] OTHER -> undo]

(* A retry with the same body beside a revert, on MySQL, PostgreSQL and SQL *)
(* Server; and one that leaves out continueOnError, beside a force-migrate, *)
(* on Oracle.                                                              *)
Mixed ==
  {[kind |-> Kinds("atomic", "atomic", "revert"), other |-> {},
    transactional |-> e[1], silent |-> e[2]]
     : e \in {<<FALSE, FALSE>>, <<TRUE, FALSE>>, <<TRUE, TRUE>>}}
  \cup {[kind |-> Kinds("continue", "atomic", "force"), other |-> {"again"},
         transactional |-> FALSE, silent |-> TRUE]}

TwoObjects == [s \in Steps |-> s]
=============================================================================
