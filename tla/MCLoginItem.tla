---------------------------- MODULE MCLoginItem ----------------------------
(* The instance of LoginItem for TLC. *)
EXTENDS LoginItem

MCFaults == {"register", "intent", "engine", "noAccount"}
=============================================================================
