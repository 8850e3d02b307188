SPECIFICATION Spec
CONSTANTS
  Clients = {c1, c2}
  Workers = 1
  MaxRegs = 3
  Changing = {"PingService"}
  Users = {c2}
  Fragile = {c1}
  Pings = 1
CHECK_DEADLOCK FALSE
INVARIANTS AnswerExplained TallyTrue Answered
