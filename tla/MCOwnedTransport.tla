-------------------------- MODULE MCOwnedTransport --------------------------
EXTENDS OwnedTransport

CONSTANTS d1
=============================================================================
