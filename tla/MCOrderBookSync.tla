--------------------------- MODULE MCOrderBookSync ---------------------------
\* Model checking of OrderBookSync; the constants are those of the .cfg files.
EXTENDS OrderBookSync
=============================================================================
