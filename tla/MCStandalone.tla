---------------------------- MODULE MCStandalone ----------------------------
EXTENDS Standalone
=============================================================================
