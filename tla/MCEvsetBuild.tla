---------------------------- MODULE MCEvsetBuild ----------------------------
(***************************************************************************)
(* EvsetBuild for model checking: every pool of the given sizes whose      *)
(* lines fall into two congruence classes.  Renaming the classes changes   *)
(* nothing the builder can observe, so the last line, the first target,    *)
(* is taken to be of class 1.                                              *)
(***************************************************************************)

EXTENDS EvsetBuild

CONSTANTS MCSizes   \* the pool sizes

MCPools == {p \in UNION {[1..n -> 1..2] : n \in MCSizes} :
              DOMAIN p # {} => p[Cardinality(DOMAIN p)] = 1}

=============================================================================
