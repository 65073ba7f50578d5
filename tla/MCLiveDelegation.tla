-------------------------- MODULE MCLiveDelegation --------------------------
EXTENDS LiveDelegationProperties
MCDelegation == {"d1"}
MCTurn == {1, 2}
=============================================================================
