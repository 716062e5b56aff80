------------------------------ MODULE MC_Focus ------------------------------
EXTENDS FocusClient, TLC
=============================================================================
