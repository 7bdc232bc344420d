---------------------------- MODULE MCCacheFiles ----------------------------
(* Small instances of CacheFiles for TLC; the .cfg files give the bounds. *)
EXTENDS CacheFiles
=============================================================================
