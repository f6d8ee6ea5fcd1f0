\* The queue lengths of the code.
SPECIFICATION FairSpec
CONSTANTS
  AmLength = 16
  NmLength = 16
  WdLength = 8
  MaxWifiEvents = 4
INVARIANTS
  TypeOK
  ReadyMeansWifi
  AnsweredOnce
  FailsOnlyAfterTimeout
PROPERTIES
  LossOnlyDuringStart
  StartEnds
  LinkSettles
CHECK_DEADLOCK FALSE
