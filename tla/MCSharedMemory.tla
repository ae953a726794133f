--------------------------- MODULE MCSharedMemory ---------------------------
\* SharedMemory for TLC; the kinds of consumer are those of the .cfg files.
EXTENDS SharedMemory
=============================================================================
