SPECIFICATION Spec
CONSTANTS
  t1 = t1
  IoThread = {t1}
  kMaxRetryTimes = 2
  MaxStops = 2
  MaxKeepAlives = 3
  MaxWriteErrors = 2
PROPERTIES
  ReportsInOrder
CHECK_DEADLOCK FALSE
