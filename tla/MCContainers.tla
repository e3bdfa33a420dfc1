---------------------------- MODULE MCContainers ----------------------------
(* The two containers for TLC.  They share nothing, so that a behaviour    *)
(* uses either the stacks or the maps.  The elements of the maps are       *)
(* addresses, with room for every key in every map at the same time, and   *)
(* the null pointer is no reference.                                       *)
EXTENDS Stack, UnorderedMap, FiniteSets

MCElements == 1 .. Cardinality(Maps) * Cardinality(Keys)

MCInit == StackInit /\ MapInit

MCNext ==
  \/ MapInit /\ StackNext /\ UNCHANGED mapVars
  \/ StackInit /\ MapNext /\ UNCHANGED stackVars

MCSpec == MCInit /\ [][MCNext]_<<stackVars, mapVars>>
=============================================================================
