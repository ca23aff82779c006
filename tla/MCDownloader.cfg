\* It stops when every address or every connection is lost to the pools.
CONSTANTS
  Addr = {a1}
  Thread = {t1, t2}
  NoAddr = NoAddr
  ProxyIpCount = 1
  ProxyIpLoadCount = 1
  FailedTimes = 0
  DeadTimes = 1
  MaxDeads = 1
  MaxRelease = 1
  Account = {c1, c2}
  AccountCount = 2
  MaxVisit = 2
  NoConn = NoConn
CHECK_DEADLOCK FALSE
SPECIFICATION Spec
INVARIANTS
  TypeOK
  OneHolder
  CountedIsAvailable
  OverLimitWasPunished
  ConnInOnePlace
PROPERTIES
  PoolComesBack
