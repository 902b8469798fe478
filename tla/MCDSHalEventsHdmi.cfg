SPECIFICATION HeSpec
CONSTANTS
  EventSinks = {"s1", "s2"}
  MaxCreations = 2
  MaxRaised = 2
  MaxRequests = 3
INVARIANTS
  HdmiCallbacksReachTheLiving
CHECK_DEADLOCK FALSE
