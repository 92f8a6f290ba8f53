SPECIFICATION PollingSpec
CONSTANTS
  Id = {a, b}
  MaxReports = 3
  MaxFired = 2
INVARIANTS TypeOK PendingIsSignalled SleeperIsWoken
PROPERTIES ImplementsMailbox WaitReturns ReportIsDelivered
