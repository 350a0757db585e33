---------------------------- MODULE MCOutboxDrill ----------------------------
EXTENDS OutboxDrill, TLC

CONSTANTS w1, w2
===============================================================================
