CONSTANTS
  p = p
  q = q
  sender = sender
  receiver = receiver
  log = log
  go = go
  ping = ping
  pong = pong
  note = note
  seen = seen
  Processes = {p, q}
  Agents = {sender, receiver, log}
  Home <- MCHome
  Main <- ProtocolFirst
  Accepts <- MCAccepts
  Beliefs = {seen}
  Routes <- PingPong
  Calls = {}
  MayEnd = {}
  Here = Here
  ToSender = ToSender
  Nobody = Nobody
  Backlog = 1
  MaxSends = 1
SPECIFICATION FairSpec
INVARIANTS NoProcessTerminates
CHECK_DEADLOCK FALSE
