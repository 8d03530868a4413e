SPECIFICATION FairSpec
CONSTANTS
  Apps = {"t1"}
  Natives = {"n1", "n2", "n3"}
  Adapters = {"a1", "a2"}
  AdapterOf <- NativesOfTwo
  Joined = {"a1"}
  Free = "free"
  MaxContexts = 2
INVARIANTS TypeOK CallsUseLiveReferences ReferencesBalanced RegisteredCallbacksDeliver
CHECK_DEADLOCK FALSE
PROPERTIES ReleaseExcludesCalls EveryCallEnds
