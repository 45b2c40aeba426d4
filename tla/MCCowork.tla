------------------------------- MODULE MCCowork -------------------------------
(* Small instances of Cowork, and of the contract it keeps, for TLC.        *)
EXTENDS CoworkRefinement

CONSTANTS atlas, bolt   \* two teammates

MCAgents == {atlas, bolt}
MCThreads == {"chat"}
MCNoThreads == {}
MCRows == 1 .. 4
MCMessageIds == 1 .. 4
MCTaskIds == 1 .. 2
MCSymmetry == Permutations(MCAgents)
=============================================================================
