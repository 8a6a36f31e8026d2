------------------------- MODULE MCDesktopManager --------------------------
(* Small instances of DesktopManager for TLC. *)
EXTENDS DesktopManager, TLC

CONSTANTS t1, t2, GW1, GW2

MCThreads == {t1, t2}
MCOneThread == {t1}
MCSymmetry == Permutations(MCThreads)
MCOneProxy == {"off"}
MCProxies == {"off", "corp"}
MCEnvs == {"unset", "mine"}
MCOneEnv == {"unset"}
MCOneForwarder == {"fwdA"}
MCForwarders == {"fwdA", "fwdB"}
MCOneGateway == {GW1}
MCAllOps == {"enable", "disable", "quit", "switch", "untrust"}
MCOnOff == {"enable", "disable"}

\* Everything that may go wrong except a revert that fails, a launch that does
\* not reconcile, and a setting changed under an operation or over Gate's.
MCCustodyFaults == {"precondition", "taken", "start", "startThread", "crash", "point",
                    "untrust", "kill", "forwarderStart"}
MCExportFaults == {"crash", "start", "forwarder", "kill"}
MCForwarderFaults == {"forwarder"}
=============================================================================
