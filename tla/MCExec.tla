------------------------------- MODULE MCExec -------------------------------
EXTENDS Exec
=============================================================================
