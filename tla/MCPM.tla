-------------------------------- MODULE MCPM --------------------------------
(* One application with two modules, one of which uses the other.           *)
EXTENDS PMLaunch
MCDeps == [t \in Titles |-> CASE t = "app" -> {"module", "base"} \cap Titles
                              [] t = "module" -> {"base"}
                              [] OTHER -> {}]
=============================================================================
