\* Two processes, three calls; a system call fails, a process is killed, the
\* power goes.
CONSTANTS
  Writers = {w1, w2}
  MaxCalls = 3
  MaxFaults = 1
  MaxKills = 1
  MaxOutages = 1
SPECIFICATION FairSpec
PROPERTIES
  ImplementsLog
  CallsReturn
CHECK_DEADLOCK FALSE
