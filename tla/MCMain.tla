-------------------------------- MODULE MCMain -------------------------------
(* Instances of EventMain.                                                 *)
EXTENDS EventMain

\* The steps in which a signal is handled as intended.
GoodHits == {"sleep", "hk", "save"}
=============================================================================
