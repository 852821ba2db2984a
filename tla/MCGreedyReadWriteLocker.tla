---------------------- MODULE MCGreedyReadWriteLocker ----------------------
EXTENDS GreedyReadWriteLocker
=============================================================================
