----------------------------- MODULE MCOffline -----------------------------
(* The programs on one database, on the lists of MCEngine.                  *)
EXTENDS MCEngine, Offline
=============================================================================
