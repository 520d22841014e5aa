------------------------------ MODULE Protocol ------------------------------
(***************************************************************************)
(* The target of a job (src/src/stratum/protocol.rs): pools send it in 4   *)
(* bytes, which MiningJob::from_params expands to the 8 that a hash is     *)
(* compared with, or in 8, which are taken as they are.                    *)
(***************************************************************************)
EXTENDS Naturals

CONSTANT Word  \* 2^32: the values of u32; those of u64 are its square

ASSUME WordAssumption == Word \in Nat \ {0}

Max32 == Word - 1
Max64 == Word * Word - 1

(* The 8 bytes of a target of 4; zero stands for "any hash".               *)
Expand(t) == IF t = 0 THEN Max64 ELSE Max64 \div (Max32 \div t)

(* The upper 8 bytes of the hash, as a number, are below the target.       *)
IsShare(hash, target) == hash < target

(* The 4 bytes in which a pool sends a difficulty.                         *)
SentFor(difficulty) == Max32 \div difficulty

-----------------------------------------------------------------------------
(* Two integer divisions, the pool's and the miner's, cost no share:       *)
(* whatever difficulty the pool sends in 4 bytes, every hash submitted     *)
(* meets it whatever its lower bytes, and no hash is kept back that meets  *)
(* the 4 bytes as they were sent.                                          *)
TargetsAreExact ==
  \A d \in 1 .. Max32, hash \in 0 .. Max64 :
    /\ IsShare(hash, Expand(SentFor(d))) => (hash + 1) * d <= Word * Word
    /\ hash \div Word < SentFor(d) => IsShare(hash, Expand(SentFor(d)))
=============================================================================
