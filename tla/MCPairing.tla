----------------------------- MODULE MCPairing -----------------------------
EXTENDS Pairing, TLC
=============================================================================
