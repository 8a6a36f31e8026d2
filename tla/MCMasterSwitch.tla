--------------------------- MODULE MCMasterSwitch ---------------------------
(***************************************************************************)
(* The catalogue TLC checks: a family of a tool and a domain, a family of  *)
(* a domain alone, and a tool no family maps (provider.rs, providers()).   *)
(***************************************************************************)
EXTENDS MasterSwitch

MCFamilies == {"anthropic", "openrouter"}
MCTools == {"claude", "opencode"}
MCDomains == {"anthropic.d", "openrouter.d"}
MCToolsOf == [f \in MCFamilies |-> IF f = "anthropic" THEN {"claude"} ELSE {}]
MCDomainsOf == [f \in MCFamilies |-> IF f = "anthropic" THEN {"anthropic.d"} ELSE {"openrouter.d"}]
MCRequiresEngine == {"claude"}
MCNoFaults == {}

==============================================================================
