SPECIFICATION EvidenceSpec
CONSTANTS
  Required = 2
  Levels = 2
  Rates = {1, 2}
  Invocations <- MCInvocations
  Sessions = 2
  Flaws = 1
INVARIANTS
  ReportRestsOnRuns
  CapacityIsMeasured
