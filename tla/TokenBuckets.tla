---------------------------- MODULE TokenBuckets ----------------------------
(***************************************************************************)
(* What the rate limiter promises: as if every API key and every project   *)
(* had a token bucket that always existed, was full at first, and filled   *)
(* at a steady rate up to its burst.  A request of some cost passes only   *)
(* when the bucket of its key and the bucket of its project both hold that *)
(* many tokens, and takes them from both.                                  *)
(***************************************************************************)
EXTENDS Integers

CONSTANTS
  Bucket,      \* identities of keys and of projects
  Pair,        \* the <<key, project>> pairs requests come with
  Cost,        \* costs of a request
  Burst, Rate  \* of each bucket

VARIABLE tokens

Sooner(a, b) == IF a < b THEN a ELSE b

\* What a bucket with n tokens holds t units of time later.
Refilled(b, n, t) == Sooner(Burst[b], n + t * Rate[b])

Init == tokens = [b \in Bucket |-> Burst[b]]

Pass(pair, cost) ==
  /\ \A b \in {pair[1], pair[2]} : tokens[b] >= cost
  /\ tokens' = [b \in Bucket |-> IF b \in {pair[1], pair[2]}
                                 THEN tokens[b] - cost ELSE tokens[b]]

Tick == tokens' = [b \in Bucket |-> Refilled(b, tokens[b], 1)]

Next == Tick \/ \E pair \in Pair, cost \in Cost : Pass(pair, cost)

Spec == Init /\ [][Next]_tokens
=============================================================================
