-------------------------------- MODULE MCTick --------------------------------
EXTENDS Tick, TLC
=============================================================================
