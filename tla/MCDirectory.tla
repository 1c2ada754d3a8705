---------------------------- MODULE MCDirectory ----------------------------
EXTENDS Directory

Names1to3 == 1..3
=============================================================================
