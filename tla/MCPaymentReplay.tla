--------------------------- MODULE MCPaymentReplay ---------------------------
EXTENDS PaymentReplay, TLC

CONSTANTS mint, platform, run, bob, r1, r2

\* Another user pays, opens a dispute and is compensated.
MCTraffic ==
  {[op |-> "callback", event |-> "bobs", pid |-> "bobs", user |-> bob, amount |-> 1, signed |-> TRUE],
   [op |-> "dispute", payment |-> 1, user |-> bob],
   [op |-> "compensate", dispute |-> 1, key |-> "bobs"]}
===============================================================================
