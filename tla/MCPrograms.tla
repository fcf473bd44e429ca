----------------------------- MODULE MCPrograms -----------------------------
EXTENDS Programs
=============================================================================
