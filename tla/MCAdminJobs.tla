----------------------------- MODULE MCAdminJobs -----------------------------
(* Three jobs: two requests with one idempotency key, of a type that may be  *)
(* retried, and one of a type that may not.                                  *)
EXTENDS AdminJobs

CONSTANTS j1, j2, j3, key, probe, replay

MCJobs == {j1, j2, j3}
MCKeyOf == [j \in MCJobs |-> IF j = j3 THEN None ELSE key]
MCTypeOf == [j \in MCJobs |-> IF j = j3 THEN replay ELSE probe]
MCRetryable == {probe}
===============================================================================
