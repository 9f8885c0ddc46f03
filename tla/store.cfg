SPECIFICATION FairSpec
CONSTANTS
  t1 = t1
  t2 = t2
  t3 = t3
  p1 = p1
  p2 = p2
  Threads = {t1, t2, t3}
  Processes = {p1, p2}
  Kept <- Outside
  Deployments <- AllDeployments
INVARIANTS IndexIsNewest HistoryCoversIndex NoDuplicates SummariesMatchFiles
PROPERTIES TornStaysTorn AllEmitted
CHECK_DEADLOCK FALSE
