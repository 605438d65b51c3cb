-------------------------- MODULE MCHysteriaConfig --------------------------
(* Constants of HysteriaConfig for TLC.                                    *)
EXTENDS HysteriaConfig

T == INSTANCE TLC

MCManagedAuth == {"alice", "alice and bob"}

\* No step or property tells one generated password from another.
MCSymmetry == T!Permutations(Secrets)
=============================================================================
