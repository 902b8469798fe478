SPECIFICATION LifecycleSpec
CONSTANTS
  Sinks = {"s1", "s2"}
  Callers = {"a1", "a2"}
  Workers = {"w1", "w2"}
  MaxChanges = 2
  MaxRegister = 2
  EventSinks = {"s1", "s2"}
  MaxCreations = 2
  MaxRaised = 2
  MaxRequests = 3
  MaxActivations = 2
  MaxMissing = 1
INVARIANTS
  SinksAreAccountedFor
  EventsFindTheFacade
  
  CleanWhenDown
  OldOnesAreKept
PROPERTIES
  ImplementsAnnouncement
  ChangesAreConcluded
  DroppedSinksAreDestroyed
  DispatchReturns
  DeathIsNoticed
CHECK_DEADLOCK FALSE
