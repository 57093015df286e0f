----------------------------- MODULE MCRefinement ----------------------------
(***************************************************************************)
(* A small instance of EngineRefinement for TLC.                           *)
(***************************************************************************)
EXTENDS EngineRefinement, MCEngine
=============================================================================
