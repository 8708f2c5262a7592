--------------------------- MODULE MCRuntimeRunner ---------------------------
(***************************************************************************)
(* Small instances of RuntimeRunner for TLC.                               *)
(***************************************************************************)
EXTENDS RuntimeRunner
=============================================================================
