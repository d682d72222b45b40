---------------------------- MODULE MCCompaction ----------------------------
\* Compaction for TLC.
EXTENDS Compaction
=============================================================================
