------------------------------ MODULE StoreSchemas ------------------------------
(* The two databases side by side: the explorer's, which records its version,  *)
(* and the block cache, which never does.                                      *)
EXTENDS ExplorerSchema, CacheSchema

(* Whichever of the two databases is opened, and whatever other opener is on   *)
(* its way through the same steps or died there, its statements find the       *)
(* tables and columns that they name (migrate, run_migrations).                *)
OpenedIsComplete == OpenIsHead /\ ReadyIsComplete
===============================================================================
