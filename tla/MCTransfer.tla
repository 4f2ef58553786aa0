------------------------------ MODULE MCTransfer ------------------------------
EXTENDS Transfer
=============================================================================
