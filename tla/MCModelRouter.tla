---------------------------- MODULE MCModelRouter ----------------------------
EXTENDS ModelRouter
=============================================================================
