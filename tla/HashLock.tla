------------------------------ MODULE HashLock ------------------------------
(***************************************************************************)
(* What the two settlement contracts have in common: payment hashes, the   *)
(* preimages they are the SHA-256 of, and a clock.  Each contract has its  *)
(* own names for the rest, so that one module can extend both.             *)
(***************************************************************************)
EXTENDS Integers

CONSTANTS
    Hash, Preimage,
    Sha256,     \* Sha256[p] is the hash of p
    MaxTime     \* bound on the clock

ASSUME HashLockAssumption ==
    /\ Sha256 \in [Preimage -> Hash]
    /\ MaxTime \in Nat
=============================================================================
