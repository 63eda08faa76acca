SPECIFICATION Spec
CONSTANTS
  Sessions = {s1, s2}
  Keys = {k1, k2}
  Technicians = {t1}
  NoKey = NoKey
  None = None
  Requests <- AgendaRequests
  ExpiringKeys = {}
  MaxVersion = 4
  AgendaOverlaps = TRUE
PROPERTIES
  TerminalIsFinal
