--------------------------- MODULE MCServiceManager ---------------------------
(* Small instances of ServiceManager; the cfg files give all its constants. *)
EXTENDS ServiceManager
==============================================================================
