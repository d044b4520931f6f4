--------------------------- MODULE MCPasswordReset ---------------------------
\* The instance of MCPasswordReset.cfg.  Liveness is checked with the safety
\* properties, so no symmetry is declared.
EXTENDS PasswordReset
=============================================================================
