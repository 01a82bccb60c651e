----------------------------- MODULE MCRelayCore -----------------------------
\* TLC instances of RelayCore; each .cfg gives the constants their values.
EXTENDS RelayProperties, TLC

\* Connections, edits and names are interchangeable in the safety runs.
Symmetry == Permutations(Conn) \cup Permutations(Edit) \cup Permutations(Name)
==============================================================================
