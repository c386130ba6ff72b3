SPECIFICATION FairSpec
CONSTANTS
  Fetches = {1, 2, 3}
  Domains = {"d1", "d2"}
  DomainOf <- DomainPlan
  CrawlDelay <- DelayPlan
  PerHost = 2
  Global = 1
  MinInterval = 1
  MaxDelay = 2
  MaxDomains = 1
  MaxRequests <- HopPlan
  MaxRequest = 1
  LastArrival <- ArrivalPlan
  Calls = {1, 2, 3}
  CallOf <- Self
  Workers = 1
  Quota = 2
  MaxDeaths = 1
INVARIANTS SlotsAccounted GateAccounted NoParseOutlivesItsCall
PROPERTIES PaceKept NobodyElseCutsACallShort EveryFetchEnds
