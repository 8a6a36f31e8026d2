---------------------------- MODULE ProxyCustody ----------------------------
(***************************************************************************)
(* What Gate Connect promises about the machine's system-proxy setting,    *)
(* whatever its engine, its threads and its process do: the setting is     *)
(* either somebody else's or Gate's own loopback PAC, and when it stops    *)
(* being Gate's it is exactly the setting Gate replaced.                   *)
(***************************************************************************)
CONSTANTS Settings,   \* what the setting may be when it is not Gate's; Gate is not one of them
          Gate        \* the setting that names Gate's loopback PAC

VARIABLES setting,    \* the machine's system-proxy setting now
          replaced    \* the last setting that was not Gate's

vars == <<setting, replaced>>

Init == setting \in Settings /\ replaced = setting

\* Gate points the machine at its PAC.
TakeOver == setting \in Settings /\ setting' = Gate /\ UNCHANGED replaced

\* Gate gives the machine back exactly what it replaced.
GiveBack == setting = Gate /\ setting' = replaced /\ UNCHANGED replaced

\* A setting that is not Gate's becomes another one: the user's own edit, or
\* the system proxy forced off.  While the setting is Gate's only GiveBack may
\* end that.
Change ==
    /\ setting \in Settings
    /\ setting' \in Settings
    /\ replaced' = setting'

Next == TakeOver \/ GiveBack \/ Change

Spec == Init /\ [][Next]_vars
=============================================================================
