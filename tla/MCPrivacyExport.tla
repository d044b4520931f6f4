--------------------------- MODULE MCPrivacyExport ---------------------------
EXTENDS PrivacyExport, TLC

\* Web requests are interchangeable, and so are subjects.
Interchangeable == Permutations(Webs) \cup Permutations(Leavers) \cup Permutations(Users \ Leavers)
=============================================================================
