SPECIFICATION FairSpec
CONSTANTS
  t1 = t1
  t2 = t2
  IoThread = {t1, t2}
  kMaxRetryTimes = 2
  MaxStops = 2
  MaxKeepAlives = 2
  MaxWriteErrors = 2
INVARIANTS
  TypeOK
  SingleExchange
  AnswersFront
  LoginIsUnderWay
PROPERTY LoginAnswered
CHECK_DEADLOCK FALSE
