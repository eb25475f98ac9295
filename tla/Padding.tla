------------------------------ MODULE Padding ------------------------------
(***************************************************************************)
(* The zeroes after an object, a part or a directory of a package.         *)
(***************************************************************************)
EXTENDS Integers

\* The multiple of pad that comes at n or next.
Padded(n, pad) == n + ((pad - (n % pad)) % pad)
=============================================================================
