---------------------------- MODULE SecretStore -----------------------------
(***************************************************************************)
(* What keychain.rs promises of one secret: whatever happens, a read finds *)
(* a whole value or none.  A write may lose the value it replaces, as a    *)
(* delete does, and then puts the value it was asked to store, at once or  *)
(* not at all.                                                             *)
(***************************************************************************)
CONSTANTS Values, Absent

VARIABLES
    secret,     \* what a read returns
    asked       \* the value the last write was asked to store; Absent: a delete

Init == secret = Absent /\ asked = Absent

Ask == asked' \in Values \cup {Absent} /\ UNCHANGED secret
Lose == secret' = Absent /\ UNCHANGED asked
Store == secret = Absent /\ secret' = asked /\ UNCHANGED asked

Next == Ask \/ Lose \/ Store

Spec == Init /\ [][Next]_<<secret, asked>>
=============================================================================
