\* Two tasks use one client for requests of every kind.
SPECIFICATION FairSpec
CONSTANTS
  t1 = t1
  t2 = t2
  Calls <- TwoTasks
  MaxTokens = 2
  ErrorLists <- ShortErrorLists
  Parameters <- EdgeParameters
  Passed <- OwnSet
  Offered <- ReadAndControl
CHECK_DEADLOCK FALSE
INVARIANTS TypeOK HeadersBelongTogether LogoutMeansLogout DefaultsWhole
PROPERTIES ImplementsTokenStore  CallsEnd
