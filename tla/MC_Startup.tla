------------------------------- MODULE MC_Startup -------------------------------
EXTENDS Startup
================================================================================
