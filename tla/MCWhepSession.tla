---------------------------- MODULE MCWhepSession ----------------------------
EXTENDS WhepSession
=============================================================================
