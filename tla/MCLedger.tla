------------------------------ MODULE MCLedger ------------------------------
EXTENDS Ledger

MCPremine == <<2, 3>>
=============================================================================
