------------------------------- MODULE MCBridge -------------------------------
EXTENDS Bridge
=============================================================================
