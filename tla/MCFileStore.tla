------------------------------ MODULE MCFileStore ----------------------------
(* Instances of FileStore.                                                 *)
EXTENDS FileStore

CONSTANTS p1, p2, p3
=============================================================================
