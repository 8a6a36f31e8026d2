----------------------------- MODULE MCSession ------------------------------
(* Small instances of Session for TLC. *)
EXTENDS Session

MCOne == {"app"}

\* The refresh loop, the windows and a view that lists organizations.
MCThreads == {"loop", "ui", "observer"}
MCHome == [t \in MCThreads |-> "app"]
MCRoles == [t \in MCThreads |-> CASE t = "loop" -> {"tick"}
                                  [] t = "ui" -> {"signIn", "signOut"}
                                  [] t = "observer" -> {"orgs"}]
MCFaults == {"offline", "unreadable"}

\* Two threads for everything but the lists, with every fault a run admits, for
\* liveness.
MCLiveThreads == {"loop", "ui"}
MCLiveHome == [t \in MCLiveThreads |-> "app"]
MCLiveRoles == [t \in MCLiveThreads |-> IF t = "loop" THEN {"tick", "recheck"}
                                        ELSE {"signIn", "signOut"}]
MCLiveFaults == {"offline", "unreadable", "refused", "revoke"}
=============================================================================
