----------------------------- MODULE MC_Datalogger -----------------------------
EXTENDS Datalogger

MCPayloads == 0..(MaxCalls + 1)
================================================================================
