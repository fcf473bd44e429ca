----------------------------- MODULE MCVictims -----------------------------
EXTENDS Victims
=============================================================================
