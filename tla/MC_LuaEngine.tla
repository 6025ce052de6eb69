------------------------------ MODULE MC_LuaEngine ------------------------------
EXTENDS LuaEngine

\* Timers 0 and 1, the latter behind a cut to 8 bits from either side.
NumbersDef == {-255, 0, 257}
================================================================================
