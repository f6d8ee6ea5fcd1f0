\* Two messages with up to two members, four pulses, reports that get lost.
SPECIFICATION FairSpec
CONSTANTS
  Valves <- MCValves
  QueueLength = 8
  MaxTokens = 2
  MaxMessages = 2
  MaxPulses = 4
INVARIANTS
  TypeOK
  PeriodicOnce
  CommandObeyed
PROPERTIES
  FlowDropsByReset
  StateReported
CHECK_DEADLOCK FALSE
