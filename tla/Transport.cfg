\* One connection from the first byte to the last, the replay filter, and a
\* client that is refused.
SPECIFICATION Spec
CHECK_DEADLOCK FALSE
CONSTANTS
  Window = 1  Limit = 3
  QueueSize = 1  PipeSize = 2  Silence = 1
  Senders = {"router", "tun"}
  MaxOnline = 2  BanAfter = 2  Unsentinel = {"no_address"}
INVARIANTS AnswersTrue PacketsOnce RefusalsTold
PROPERTY DeadConnNoticed
