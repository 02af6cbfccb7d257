SPECIFICATION Spec
CONSTANTS
  Streams = {s1}
  Ucs = {u1}
  Devices = {d1}
  NoUcs = NoUcs
  Peer = Peer
  Loopback = {s1}
  Compatible = {u1}
  Asking = {s1}
  MaxTelemetry = 1
PROPERTIES RequestsAnswered
CHECK_DEADLOCK FALSE
