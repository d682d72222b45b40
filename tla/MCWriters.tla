------------------------------ MODULE MCWriters ------------------------------
\* Instances of Writers for TLC.
EXTENDS Writers

=============================================================================
