CONSTANTS
  ticker = ticker
  refresh = refresh
  Announcers = {ticker, refresh}
  MaxSockets = 6
  MaxCloses = 5
  InBind = {"announce", "close", "stop"}
SPECIFICATION FairSpec
INVARIANTS TypeOK OneLoop HeldIsRead QuietAfterStop
PROPERTY RecoversInTurn
CHECK_DEADLOCK FALSE
