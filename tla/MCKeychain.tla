----------------------------- MODULE MCKeychain -----------------------------
(* A key that fits one entry, and sessions of two, two and three chunks. *)
EXTENDS Keychain

CONSTANTS key, short, other, long

MCSize == [v \in Values |-> CASE v = key -> 0 [] v = long -> 3 [] OTHER -> 2]
=============================================================================
