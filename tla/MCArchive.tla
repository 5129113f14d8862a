----------------------------- MODULE MCArchive -----------------------------
\* Archive on a small city, for TLC.
EXTENDS Archive
=============================================================================
