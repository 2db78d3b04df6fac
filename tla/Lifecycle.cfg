SPECIFICATION FairSpec
CONSTANT MaxInFlight = 3
INVARIANT TypeOK
INVARIANT StopsOnlyWhenTold
PROPERTY TerminatesOnceDone
PROPERTY MetricsServerTakesProcessDown
