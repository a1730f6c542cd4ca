CONSTANTS
  p = p
  q = q
  sender = sender
  receiver = receiver
  log = log
  go = go
  ping = ping
  pong = pong
  note = note
  seen = seen
  Processes = {p, q}
  Agents = {sender, receiver, log}
  Home <- MCHome
  Main <- ProtocolFirst
  Accepts <- MCAccepts
  Beliefs = {seen}
  Routes <- PingPongLog
  Calls <- MCCalls
  MayEnd = {p, q}
  Here = Here
  ToSender = ToSender
  Nobody = Nobody
  Backlog = 1
  MaxSends = 4
SPECIFICATION FairSpec
INVARIANTS TypeOK RightSender OnePlace
PROPERTIES ImplementsBus StartedSurvive SendersReturn MessagesArrive
CHECK_DEADLOCK FALSE
