--------------------------- MODULE MCCacheUpdater ---------------------------
(* CacheUpdater, checked: the constants get their values in the .cfg.      *)
EXTENDS CacheUpdater
=============================================================================
