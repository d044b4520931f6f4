SPECIFICATION Spec
CONSTANTS
  Processes <- MCProcesses
  Subscriptions <- MCSubscriptions
  Consumers <- MCConsumers
  p1 = p1
  p2 = p2
  s1 = s1
  s2 = s2
  MaxMessages = 2
  BatchLimit = 2
  MaxFaults = 1
  None = None
PROPERTIES
  SettlesOnlyHandled
