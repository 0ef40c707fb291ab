--------------------------- MODULE MCOutboxRunner ---------------------------
(* Instances of OutboxRunner for TLC: three rows, of which the first two      *)
(* belong to one Assignment, and up to two resume intents.                    *)
EXTENDS OutboxRunner, TLC

CONSTANTS i1, i2, a, b

TwoAssignments == (1 :> a) @@ (2 :> a) @@ (3 :> b)
=============================================================================
