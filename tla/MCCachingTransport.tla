------------------------- MODULE MCCachingTransport -------------------------
EXTENDS CachingTransport

MCPolicies == {[TTL |-> 1, SWR |-> 1, size |-> 1]}
=============================================================================
