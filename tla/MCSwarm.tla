------------------------------ MODULE MCSwarm ------------------------------
EXTENDS Swarm
=============================================================================
