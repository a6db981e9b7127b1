------------------------------- MODULE MCLock -------------------------------
EXTENDS Lock
=============================================================================
