------------------------------ MODULE MCTimeouts ------------------------------
EXTENDS Timeouts, TLC

CONSTANTS p1, bad
===============================================================================
