--------------------------- MODULE MCSshConnection ---------------------------
EXTENDS SshConnection, TLC

\* Channels are interchangeable, and so are grants (safety runs only).
Symmetry == Permutations(Channels) \cup Permutations(Grants)
=============================================================================
