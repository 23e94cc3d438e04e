\* One page (pages share nothing but the channel's count), a channel of two
\* reports: it lags when its connection is full and three more are sent.
CONSTANTS
  Browsers = {b1}
  CAPACITY = 2
  ROOM = 2
  MaxReports = 7
  MaxAsked = 2
SPECIFICATION FairDashboardSpec
PROPERTIES
  ImplementsFeed
  ConnectionsEnd
CHECK_DEADLOCK FALSE
