----------------------------- MODULE MCRegisters -----------------------------
EXTENDS RegisterProperties
=============================================================================
