-------------------------- MODULE MCClickhouseSink --------------------------
(* ClickhouseSink, checked: the constants get their values in the .cfg.    *)
EXTENDS ClickhouseSink
=============================================================================
