------------------------- MODULE MCExclusiveAccess -------------------------
(***************************************************************************)
(* ExclusiveAccess: a guest with guests nested two deep in its callbacks,  *)
(* on one Simulator.                                                       *)
(***************************************************************************)
EXTENDS ExclusiveAccess

OneSim == [g \in {"outer", "inner", "innermost"} |-> "sim"]
Depth == [g \in {"outer", "inner", "innermost"} |->
             CASE g = "outer" -> 0 [] g = "inner" -> 1 [] g = "innermost" -> 2]
AllMethods == [g \in {"outer", "inner", "innermost"} |-> {"llsc", "ldadd", "casp", "cas", "swp"}]
=============================================================================
