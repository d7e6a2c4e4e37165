CONSTANTS
  Worker = {w1, w2}
  Server = Server
  Outputs <- MCOutputs
  Faults = {"create", "accept", "malloc", "recv", "pipe", "fork", "read", "waitpid"}
  MaxClients = 3
SPECIFICATION FairSpec
INVARIANTS OnePlace LogInOrder NobodyWaitsInVain DescriptorsAccounted
PROPERTIES EveryRequestEnds
CHECK_DEADLOCK FALSE
