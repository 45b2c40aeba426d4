------------------------------- MODULE MCTools -------------------------------
(* Small instances of ToolCalls for TLC: two tools that fall back on each   *)
(* other.                                                                   *)
EXTENDS ToolCalls

CONSTANTS search, page

MCFallback == [t \in Tools |-> IF t = search THEN page ELSE search]
=============================================================================
