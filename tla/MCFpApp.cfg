SPECIFICATION FairSpec
CONSTANTS
  Keys = {1}
  Callers = {c1}
  None = None
  MaxFaults = 2
INVARIANTS
  ProvidersCanSign
  RegisteredIsOnChain
  
  AnsweredOnce
PROPERTIES
  RequestAnswered
  
  RegistrationRecorded
CHECK_DEADLOCK FALSE
