---------------------------- MODULE MCDeliveryDrills ----------------------------
EXTENDS DeliveryDrills, TLC

CONSTANTS c1, c2, j1, j2

MCRequests == Orders \X Clients
===============================================================================
