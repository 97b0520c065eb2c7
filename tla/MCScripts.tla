----------------------------- MODULE MCScripts -----------------------------
EXTENDS Scripts
=============================================================================
