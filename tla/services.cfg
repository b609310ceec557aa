SPECIFICATION Spec
INVARIANTS
  OneOutcomeTold ReplayIsLatest TextRulesAgree OverallIsEarned PushedOnce
  IgnoranceNeverPasses PassedOnSight PermitsConserved EndsSettled
  NoEventSkipped ConsumedWasSeen RemoteStartedOnce StatisticsAddUp
  DegradedIsNoted OnlyReliableCallsRun
PROPERTY RetiredIsNotHinted
CHECK_DEADLOCK FALSE
