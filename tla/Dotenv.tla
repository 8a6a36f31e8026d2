------------------------------- MODULE Dotenv -------------------------------
(***************************************************************************)
(* dotenv.rs: Gate's lines in a `.env` the user edits too.  What Gate owns *)
(* of a key is <<>>, or <<v>> for the line that holds v; <<None>> is the   *)
(* key by its name alone.                                                  *)
(***************************************************************************)
EXTENDS ToolValues

Owns(owned, value) == owned # <<>> /\ owned[1] \in {None, value}

(* A line of Gate's is never brought up to date.                           *)
AddOnly(env, want, owned) ==
    LET added == {k \in DOMAIN want : env[k] = None}
    IN  [env |-> [k \in DOMAIN env |-> IF k \in added THEN want[k] ELSE env[k]],
         added |-> added,
         values |-> [k \in DOMAIN want |-> IF k \in added \/ Owns(owned[k], env[k]) THEN env[k] ELSE None]]

(* A key the file lacks is added, one that still holds Gate's value is     *)
(* brought up to date, any other is the user's.                            *)
AddVars(env, want, owned) ==
    LET added == {k \in DOMAIN want : env[k] = None}
        ours == added \cup {k \in DOMAIN want : Owns(owned[k], env[k])}
    IN  [env |-> [k \in DOMAIN env |-> IF k \in ours THEN want[k] ELSE env[k]],
         added |-> added,
         values |-> [k \in DOMAIN want |-> IF k \in ours THEN want[k] ELSE None]]

RemoveOwned(env, owned) ==
    [k \in DOMAIN env |-> IF Owns(owned[k], env[k]) THEN None ELSE env[k]]
=============================================================================
