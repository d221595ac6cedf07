---------------------------- MODULE MCBackground ----------------------------
EXTENDS Background
=============================================================================
