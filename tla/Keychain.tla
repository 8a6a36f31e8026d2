------------------------------ MODULE Keychain ------------------------------
(***************************************************************************)
(* One secret in the system's credential store: crates/core/src/           *)
(* keychain.rs.  A value too long for one entry is split over chunk        *)
(* entries, which a manifest in the base entry counts.  STORE_LOCK makes   *)
(* the operations of a process one at a time, so a step is one call to the *)
(* store, which the store may refuse, or after which the process may be    *)
(* killed.  A piece of a value is the value with the piece's place in it.  *)
(*                                                                         *)
(* Left out: a second process in the same secret at the same moment, which *)
(* the lock does not reach, the witness cache (module Session has it), and *)
(* the backends of the tests.                                              *)
(***************************************************************************)
EXTENDS Naturals

CONSTANTS
    Values,     \* secrets
    Absent,     \* no value
    Size,       \* the chunks each is split into; 0: it fits the base entry
    Limit,      \* no value has more
    MaxCuts     \* bound: kills and refused calls

ASSUME AbsentAssumption == Absent \notin Values
ASSUME LimitAssumption == Limit \in Nat
ASSUME SizeAssumption == Size \in [Values -> 0..Limit]
ASSUME CutsAssumption == MaxCuts \in Nat

VARIABLES
    base,       \* the base entry: empty, a whole value, or a manifest
    chunk,      \* the chunk entries, by number
    call,       \* the call the running operation makes next, or "idle"
    asked,      \* the value the last set was called with; Absent: a delete
    named,      \* chunks the manifest that `remove` found counts
    at,         \* the chunk to be deleted or written next
    wrote,      \* chunks a failed set has to take back
    cuts,       \* kills and refused calls so far
    clean       \* history: the last operation was neither killed nor refused

keychainVars == <<base, chunk, call, asked, named, at, wrote, cuts, clean>>

Empty == [kind |-> "empty", value |-> Absent, count |-> 0]
Single(v) == [kind |-> "single", value |-> v, count |-> 0]
Manifest(n) == [kind |-> "manifest", value |-> Absent, count |-> n]

NoPiece == [value |-> Absent, place |-> 0]
Piece(v, i) == [value |-> v, place |-> i]

Pieces == {Piece(v, i) : v \in Values, i \in 0..Limit}

StoreCalls == {"idle", "look", "unname", "unchunk", "sweep", "single", "chunk", "name",
               "takeBack"}

KeychainTypeOK ==
    /\ base \in {Empty} \cup {Single(v) : v \in Values} \cup {Manifest(n) : n \in 0..Limit}
    /\ chunk \in [0..Limit -> {NoPiece} \cup Pieces]
    /\ call \in StoreCalls
    /\ asked \in Values \cup {Absent}
    /\ named \in 0..Limit /\ at \in 0..Limit /\ wrote \in 0..Limit
    /\ cuts \in Nat /\ clean \in BOOLEAN

KeychainInit ==
    /\ base = Empty /\ chunk = [i \in 0..Limit |-> NoPiece]
    /\ call = "idle" /\ asked = Absent /\ named = 0 /\ at = 0 /\ wrote = 0
    /\ cuts = 0 /\ clean = TRUE

-----------------------------------------------------------------------------

\* set of a value, or delete.
SetOrDelete(v) ==
    /\ call = "idle"
    /\ call' = "look" /\ asked' = v /\ clean' = TRUE
    /\ UNCHANGED <<base, chunk, named, at, wrote, cuts>>

\* remove: the manifest's count, the base entry, the chunks it named from the
\* last to the first, and then whatever follows them up to a gap.
Count ==
    /\ call = "look"
    /\ named' = base.count
    /\ call' = "unname"
    /\ UNCHANGED <<base, chunk, asked, at, wrote, cuts, clean>>

Unname ==
    /\ call = "unname"
    /\ base' = Empty
    /\ at' = named
    /\ call' = "unchunk"
    /\ UNCHANGED <<chunk, asked, named, wrote, cuts, clean>>

Unchunk ==
    /\ call = "unchunk"
    /\ IF at = 0
       THEN call' = "sweep" /\ at' = named /\ UNCHANGED chunk
       ELSE chunk' = [chunk EXCEPT ![at - 1] = NoPiece] /\ at' = at - 1 /\ UNCHANGED call
    /\ UNCHANGED <<base, asked, named, wrote, cuts, clean>>

\* What follows `remove`: a delete is done, a set writes.
Removed == IF asked = Absent THEN "idle" ELSE IF Size[asked] = 0 THEN "single" ELSE "chunk"

Sweep ==
    /\ call = "sweep"
    /\ IF chunk[at] = NoPiece
       THEN call' = Removed /\ at' = 0 /\ UNCHANGED chunk
       ELSE chunk' = [chunk EXCEPT ![at] = NoPiece] /\ at' = at + 1 /\ UNCHANGED call
    /\ UNCHANGED <<base, asked, named, wrote, cuts, clean>>

SetSingle ==
    /\ call = "single"
    /\ base' = Single(asked)
    /\ call' = "idle"
    /\ UNCHANGED <<chunk, asked, named, at, wrote, cuts, clean>>

\* Mistake: the manifest before the last of the chunks.
SetChunkNamed ==
    /\ call = "chunk"
    /\ chunk' = [chunk EXCEPT ![at] = Piece(asked, at)]
    /\ at' = at + 1
    /\ call' = IF at + 1 = Size[asked] THEN "name" ELSE "chunk"
    /\ base' = Manifest(Size[asked])
    /\ UNCHANGED <<asked, named, wrote, cuts, clean>>

\* The chunks in order, and the manifest last.
SetChunk ==
    /\ call = "chunk"
    /\ chunk' = [chunk EXCEPT ![at] = Piece(asked, at)]
    /\ at' = at + 1
    /\ call' = IF at + 1 = Size[asked] THEN "name" ELSE "chunk"
    /\ UNCHANGED <<base, asked, named, wrote, cuts, clean>>

Name ==
    /\ call = "name"
    /\ base' = Manifest(Size[asked])
    /\ call' = "idle"
    /\ UNCHANGED <<chunk, asked, named, at, wrote, cuts, clean>>

\* A failed write takes back the chunks it wrote, the first one first.
TakeBack ==
    /\ call = "takeBack"
    /\ IF at = wrote
       THEN call' = "idle" /\ UNCHANGED <<chunk, at>>
       ELSE chunk' = [chunk EXCEPT ![at] = NoPiece] /\ at' = at + 1 /\ UNCHANGED call
    /\ UNCHANGED <<base, asked, named, wrote, cuts, clean>>

Cut == cuts < MaxCuts /\ cuts' = cuts + 1 /\ clean' = FALSE

\* The store refuses the call: most often the operation fails there and then; a
\* sweep is given up and the operation goes on; a write of several chunks takes
\* back those it has written, and doing that it skips what it cannot delete.
CallRefused ==
    /\ call # "idle" /\ Cut
    /\ \/ call \in {"look", "unname", "unchunk", "single"} /\ call' = "idle" /\ UNCHANGED <<at, wrote>>
       \/ call = "sweep" /\ call' = Removed /\ at' = 0 /\ UNCHANGED wrote
       \/ call \in {"chunk", "name"} /\ call' = "takeBack" /\ at' = 0 /\ wrote' = at
       \/ call = "takeBack" /\ at < wrote /\ at' = at + 1 /\ UNCHANGED <<call, wrote>>
    /\ UNCHANGED <<base, chunk, asked, named>>

Kill ==
    /\ call # "idle" /\ Cut
    /\ call' = "idle"
    /\ UNCHANGED <<base, chunk, asked, named, at, wrote>>

KeychainNext ==
    \/ \E v \in Values \cup {Absent} : SetOrDelete(v)
    \/ Count \/ Unname \/ Unchunk \/ Sweep \/ SetSingle \/ SetChunk \/ Name \/ TakeBack
    \/ CallRefused \/ Kill

KeychainSpec == KeychainInit /\ [][KeychainNext]_keychainVars

-----------------------------------------------------------------------------

\* A manifest that names the pieces of v, all of them.
Assembles(v) ==
    /\ base = Manifest(Size[v])
    /\ \A i \in 0..Limit : i < Size[v] => chunk[i] = Piece(v, i)

Torn == [torn |-> base]

\* get: the whole value, none, or what is neither.
Get ==
    IF base.kind # "manifest" THEN base.value
    ELSE IF \E v \in Values : Assembles(v) THEN CHOOSE v \in Values : Assembles(v)
    ELSE Torn

\* However an operation is cut short, and however often, a read finds a whole
\* value, the one it was asked to store, or none: never a manifest naming
\* chunks that are gone, nor pieces of two values (keychain.rs:307).
Register == INSTANCE SecretStore WITH secret <- Get
Atomic == Register!Spec

\* A set that succeeded has replaced the secret and a delete that succeeded has
\* removed it, over whatever earlier cuts had left (keychain.rs:358, 426).
Completed == call = "idle" /\ clean => Get = asked
=============================================================================
