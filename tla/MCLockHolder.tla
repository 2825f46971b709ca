----------------------------- MODULE MCLockHolder -----------------------------
EXTENDS LockHolder, TLC
=============================================================================
