--------------------------------- MODULE MC_Daq ---------------------------------
EXTENDS Daq
================================================================================
