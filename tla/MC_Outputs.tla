------------------------------- MODULE MC_Outputs -------------------------------
EXTENDS Outputs

WorkDef == 0..2
AnglesDef == {-1, 200, 256}
ColoursDef == {<<1, 255, 0, 0>>}
================================================================================
