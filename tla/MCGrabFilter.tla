----------------------------- MODULE MCGrabFilter -----------------------------
EXTENDS GrabFilter, TLC

CONSTANTS u1, u2, o1, r1, r2, w1
===============================================================================
