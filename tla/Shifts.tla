------------------------------- MODULE Shifts -------------------------------
(***************************************************************************)
(* Shifts and masks of unsigned integers, as the encoders of               *)
(* crates/transport/src/native_proto.rs and crates/proto/src/address.rs    *)
(* use them.                                                               *)
(***************************************************************************)
EXTENDS Integers

Pow2[n \in Nat] == IF n = 0 THEN 1 ELSE 2 * Pow2[n - 1]

\* x >> n, and the n lowest bits of x
Shr(x, n) == x \div Pow2[n]
Low(x, n) == x % Pow2[n]
=============================================================================
