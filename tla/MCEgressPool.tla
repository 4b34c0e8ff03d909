---------------------------- MODULE MCEgressPool ----------------------------
EXTENDS EgressPool
=============================================================================
