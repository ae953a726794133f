-------------------------- MODULE MCLocalOrderBook --------------------------
\* Model checking of LocalOrderBook; the constants are those of the .cfg files.
EXTENDS LocalOrderBook
=============================================================================
