------------------------------ MODULE MCRiders ------------------------------
EXTENDS Riders
=============================================================================
