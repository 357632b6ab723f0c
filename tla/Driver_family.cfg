\* Three inputs of every kind, three packets in all.
CONSTANTS
  MaxPackets = 3
  MaxFiles = 3
SPECIFICATION Spec
INVARIANT ObservationSelects
\* the run has ended
CHECK_DEADLOCK FALSE
