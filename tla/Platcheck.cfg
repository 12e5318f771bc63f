SPECIFICATION Spec
CONSTANTS
  Devices <- SomeDevices
  Hosts <- SomeHosts
  MaxChanges = 2
INVARIANTS IsolationSound Trustworthy
CHECK_DEADLOCK FALSE
