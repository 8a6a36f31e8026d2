--------------------------- MODULE MCHelperDaemon ---------------------------
(* Small instances of HelperDaemon for TLC: the app and one command line. *)
EXTENDS HelperDaemon

MCProcs == {"app", "cli"}
MCCli == {"cli"}
MCFaults == {"kill", "daemon", "engine", "noEngine", "slow", "unwritable", "untrusted",
             "token", "stays"}
MCCalls == [p \in MCProcs |-> IF p = "cli" THEN {"enable", "disable"}
                            ELSE {"enable", "switch", "status", "push"}]
=============================================================================
