--------------------------- MODULE MCRateLimiter ----------------------------
(***************************************************************************)
(* An instance of RateLimiter for TLC: submits at two replicas, one ahead  *)
(* of the other, and a poll.                                               *)
(***************************************************************************)
EXTENDS RateLimiter, TLC

CONSTANTS slow1, slow2, fast, poll

MCOffset == [r \in Request |-> IF r = fast THEN 2 ELSE 0]

MCMethods == [r \in Request |-> IF r = poll THEN "get" ELSE "submit"]

\* The submits at one replica are interchangeable.
SameReplica == Permutations({slow1, slow2})
=============================================================================
