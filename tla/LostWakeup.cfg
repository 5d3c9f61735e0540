SPECIFICATION FairSpec
CONSTANTS
  t1 = t1
  t2 = t2
  t3 = t3
  v1 = v1
  v2 = v2
  v3 = v3
  NoValue = NoValue
  NoThread = NoThread
  Threads = {t1, t2}
  Values = {v1}
PROPERTY SleeperIsWoken
