SPECIFICATION FairSpec
CONSTANTS
  t1 = t1
  k1 = k1
  v1 = v1
  w1 = w1
  w2 = w2
  NULL_VALUE = NULL_VALUE
  Keys <- MCKeys
  Values <- MCValues
  KeySize <- MCKeySize
  ValueSize <- MCValueSize
  TopicIds <- MCTopicIds
  SubscriberIds = {"s1"}
  Subscribed <- MCAllTopics
  Transient <- MCAllTopics
  PublishedKey <- MCSharedKey
  FromVersions = {0}
  Workers <- MCWorkers
  Handlers = {"h1", "h2"}
  MaxQueue = 1
  MaxMissed = 1
  MaxRegistrations = 2
  MaxVersion = 1
INVARIANTS
  RegisteredIsTracked
  NoLostSubscriber
PROPERTIES
  
  OnlyOwnFailureUnregisters
CHECK_DEADLOCK FALSE
