------------------------------ MODULE MCEvidence ------------------------------
EXTENDS Evidence

\* The documented command line, one without warm-up that runs on, one for the mode
\* that is not part of the report, and one that names a mode twice.
MCInvocations ==
  {[modes |-> <<"on", "off">>, warmups |-> 1, runs |-> Required],
   [modes |-> <<"off", "on">>, warmups |-> 0, runs |-> Required + 1],
   [modes |-> <<"current">>, warmups |-> 0, runs |-> Required],
   [modes |-> <<"off", "on", "off">>, warmups |-> 1, runs |-> Required]}
===============================================================================
