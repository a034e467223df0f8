-------------------------------- MODULE MCDns --------------------------------
EXTENDS Dns

\* Two of the descriptors share a slot.
Collide == [k \in Keys |-> k % 2]
=============================================================================
