------------------------------- MODULE MCMedia -------------------------------
EXTENDS Media
==============================================================================
