\* Two messages, two tool calls, two things that fail.
CONSTANTS
  None = None
  MaxMessages = 2
  MaxCalls = 2
  MaxFaults = 2
SPECIFICATION FairSpec
INVARIANTS TypeOK ContextIsTranscript DeliveredOnceInOrder CallsAnswered
PROPERTIES NoneOverlooked EveryRunEnds
