----------------------------- MODULE MCBooksDrills -----------------------------
EXTENDS BooksDrills, TLC

CONSTANTS mint, platform, publisher, customer
===============================================================================
