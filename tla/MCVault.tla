------------------------------ MODULE MCVault -------------------------------
EXTENDS Vault, TLC

CONSTANTS r1, t1

MCText == r1 :> t1
=============================================================================
