---------------------------- MODULE MCSettleRetry ----------------------------
EXTENDS SettleRetry, TLC

CONSTANTS c1, c2, j1, j2

\* Two requests race for the first order.
MCRequests == {<<1, c1>>, <<1, c2>>, <<2, c1>>}
===============================================================================
