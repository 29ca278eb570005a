---------------------------- MODULE MCSubmission ----------------------------
(* Small instances of Submission for TLC. *)
EXTENDS Submission, TLC

CONSTANTS i1, i2, t1, t2, j1, j2, j3, w1, w2, r1, r2, r3

Symmetry ==
  Permutations(Transmissions) \union Permutations(Jobs) \union Permutations(Refs)
    \union Permutations(Workers)

EveryFault == AllFaults
\* The session stays open and KSeF stays reachable.
StableSession == {"transient", "lost", "refused", "pollError", "crash"}
Oversized == {"oversized"}
WorkerFaults == {"refused", "lost", "pollError", "crash"}
Unavailable == {"probe", "session", "unauthorized"}
=============================================================================
