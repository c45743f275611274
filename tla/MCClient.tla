------------------------------ MODULE MCClient ------------------------------
EXTENDS ClientInv
=============================================================================
