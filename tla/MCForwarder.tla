---------------------------- MODULE MCForwarder ----------------------------
(***************************************************************************)
(* The app, its watcher and a command line, and two ports.  Operations do  *)
(* not overlap, so it does not matter which thread of a process calls one: *)
(* the app ensures and stops, and the command drains.                      *)
(***************************************************************************)
EXTENDS Forwarder

MCPorts == {"p1", "p2"}
MCCalls == [t \in Threads |-> CASE t = "fore" -> {"ensure", "stop"}
                                [] t = "watch" -> {"supervise"}
                                [] t = "cli" -> {"drain"}]
MCFaults == {"agent", "unwritable", "unmarked", "uninstallable"}
=============================================================================
