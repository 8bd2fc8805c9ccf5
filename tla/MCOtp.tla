-------------------------------- MODULE MCOtp --------------------------------
(* Small instances of Otp. *)
EXTENDS Otp, TLC

CONSTANTS r1, r2, q1, q2, q3, b1, u1

Symmetry == Permutations(Requests) \cup Permutations(Verifies)
=============================================================================
