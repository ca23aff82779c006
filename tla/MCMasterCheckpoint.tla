------------------------- MODULE MCMasterCheckpoint -------------------------
EXTENDS MasterCheckpoint
=============================================================================
