SPECIFICATION Spec
CONSTANTS
  Streams = {s1, s2}
  Ucs = {u1}
  Devices = {d1}
  NoUcs = NoUcs
  Peer = Peer
  Loopback = {s1}
  Compatible = {u1}
  Asking = {s1}
  MaxTelemetry = 1
INVARIANTS PrimaryHasVehicles
CHECK_DEADLOCK FALSE
