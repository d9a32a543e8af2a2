---------------------------- MODULE MCTaskDelivery ----------------------------
(***************************************************************************)
(* Instances of TaskDelivery for TLC.                                      *)
(***************************************************************************)
EXTENDS TaskDelivery, TLC

\* Workers are interchangeable.
Symmetry == Permutations(Workers)

\* Names as callers write them.
Plain(text) == [text |-> text, padded |-> FALSE]

Task(id, q, key, max_attempts, timeout) ==
    [task_id |-> id, queue_name |-> q, assignment_id |-> Plain(id), idempotency_key |-> key,
     attempt |-> 1, max_attempts |-> max_attempts, visibility_timeout |-> timeout]

\* A retried task and one with a single attempt in the same queue, and one
\* validate_task refuses.
SharedQueue ==
    {Task("a", Plain("q"), Plain("a"), 2, 2), Task("b", Plain("q"), Plain("b"), 1, 1),
     Task("c", Plain("q"), Plain("c"), 1, 0)}
=============================================================================
