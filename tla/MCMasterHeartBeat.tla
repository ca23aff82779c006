------------------------- MODULE MCMasterHeartBeat -------------------------
EXTENDS MasterHeartBeat
=============================================================================
