---------------------------- MODULE MCUploads ----------------------------
(* Symmetry for model checking Uploads.                                    *)
EXTENDS Uploads, TLC

Symmetry == Permutations(Caller) \cup Permutations(Key) \cup Permutations(Verifier)
=============================================================================
