------------------------------ MODULE MCHedge ------------------------------
EXTENDS Hedge
=============================================================================
