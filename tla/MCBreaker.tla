------------------------------ MODULE MCBreaker ------------------------------
EXTENDS Breaker
=============================================================================
