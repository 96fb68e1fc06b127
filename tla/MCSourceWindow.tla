--------------------------- MODULE MCSourceWindow ---------------------------
(* Small pipelines of SourceWindow for TLC.                                 *)
EXTENDS SourceWindow

NoRetries == [s \in Targets |-> 0]
(* The dead-letter sink has a retry policy, the others have none.           *)
DeadLettersRetry == [s \in Targets |-> IF s \in DeadLetters THEN 1 ELSE 0]
=============================================================================
