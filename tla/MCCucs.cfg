SPECIFICATION Spec
CONSTANTS
  Streams = {s1, s2, s3}
  Ucs = {u1, u2}
  Devices = {d1}
  NoUcs = NoUcs
  Peer = Peer
  Loopback = {s1, s2}
  Compatible = {u1}
  Asking = {s1}
  MaxTelemetry = 1
INVARIANTS TypeOK PrimaryExists DevicesKnowConnections DevicesAnnounced TelemetryCurrent DetectorFollowsServers
PROPERTIES AnnouncedOnce
CHECK_DEADLOCK FALSE
