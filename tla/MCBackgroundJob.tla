-------------------------- MODULE MCBackgroundJob --------------------------
(***************************************************************************)
(* Requests are interchangeable, and so are processes.  Symmetry is left   *)
(* out, since the run checks a liveness property.                          *)
(***************************************************************************)
EXTENDS BackgroundJob
=============================================================================
