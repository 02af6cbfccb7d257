----------------------------- MODULE CucsProofs -----------------------------
(***************************************************************************)
(* Proofs about Cucs, for any number of connections, servers and devices.  *)
(***************************************************************************)
EXTENDS Cucs, TLAPS

\* The definitions every step needs.
USE DEF connection_vars, device_vars, server_vars, request_vars

\* The devices there are or were.
Known_devices == vehicles \cup retired

\* Nothing is registered or pending on a connection that is not in the map.
ErasedEmpty ==
  \A s \in Streams \ ucs_connections :
     registered_devices[s] = {} /\ pending_registrations[s] = {}

\* A stream that has not been used has not registered.
UnusedUnregistered == \A s \in Streams \ used : ucs_id[s] = NoUcs

\* What is pending or registered, and what servers and devices were told of, is about
\* devices there are or were.
OnlyKnownDevices ==
  /\ \A s \in Streams : registered_devices[s] \cup pending_registrations[s] \cup server_devices[s]
                           \subseteq Known_devices
  /\ \A d \in Devices \ Known_devices : ucs_info[d] = {}

\* Registrations are sent only to registered servers, of devices there are or were.
AnnouncedKnown ==
  \A s \in Streams, d \in Devices :
     <<s, d>> \in announced => ucs_id[s] # NoUcs /\ d \in Known_devices

\* Nothing is registered or pending on a connection whose server is not known yet.
UnregisteredEmpty ==
  \A s \in Streams : ucs_id[s] = NoUcs =>
     /\ registered_devices[s] = {} /\ pending_registrations[s] = {}
     /\ server_devices[s] = {}

\* A registration that is pending of a device that is gone: its Unregister_device was dropped.
PendingDropped ==
  \A s \in Streams : \A d \in pending_registrations[s] \ vehicles : <<s, d>> \in dropped

\* The inductive invariant.
IndInv == /\ TypeOK
          /\ PrimaryExists
          /\ ErasedEmpty
          /\ UnusedUnregistered
          /\ OnlyKnownDevices
          /\ DevicesKnowConnections
          /\ AnnouncedKnown
          /\ UnregisteredEmpty
          /\ PendingDropped
          /\ DevicesAnnounced
          /\ TelemetryCurrent
          /\ DetectorFollowsServers

-----------------------------------------------------------------------------
(* The initial state.                                                      *)

LEMMA InitIndInv == Init => IndInv
<1> SUFFICES ASSUME Init PROVE IndInv
  OBVIOUS
<1>1. TypeOK
  <2>1. 0 \in Telemetry
    BY TelemetryAssumption DEF Telemetry
  <2> QED
    BY <2>1 DEF Init, TypeOK
<1>2. PrimaryExists /\ ErasedEmpty /\ UnusedUnregistered
  BY DEF Init, PrimaryExists, ErasedEmpty, UnusedUnregistered
<1>3. OnlyKnownDevices /\ DevicesKnowConnections /\ AnnouncedKnown
  BY DEF Init, OnlyKnownDevices, DevicesKnowConnections, AnnouncedKnown, Known_devices
<1>4. UnregisteredEmpty /\ PendingDropped /\ DevicesAnnounced /\ TelemetryCurrent
        /\ DetectorFollowsServers
  BY DEF Init, UnregisteredEmpty, PendingDropped, DevicesAnnounced, TelemetryCurrent, DetectorFollowsServers,
         Sole, Known
<1> QED
  BY <1>1, <1>2, <1>3, <1>4 DEF IndInv

-----------------------------------------------------------------------------
(* The type invariant.                                                     *)

LEMMA SuccessorsType ==
  ASSUME TypeOK, NEW s \in Streams, NEW P \in Successors(s), ucs_id[s] # NoUcs
  PROVE  P \subseteq {t \in ucs_connections \ {s} : ucs_id[t] = ucs_id[s]}
BY DEF Successors, ConnectionsOf

LEMMA TypeClose ==
  ASSUME TypeOK, NEW s \in Streams, Connection_fails(s)
  PROVE  TypeOK'
<1>1. primary' \subseteq {t \in ucs_connections' : ucs_id'[t] # NoUcs}
  BY SuccessorsType DEF TypeOK, Connection_fails, Close_ucs_stream, Found
<1>2. ucs_info' \in [Devices -> SUBSET Streams]
  BY DEF TypeOK, Connection_fails, Close_ucs_stream, Found, Notify_device_about_ucs_connections
<1> QED
  BY <1>1, <1>2 DEF TypeOK, Connection_fails, Close_ucs_stream, Found

LEMMA TypeRegisterPeer ==
  ASSUME TypeOK, NEW s \in Streams, NEW u \in Ucs, Register_peer(s, u)
  PROVE  TypeOK'
<1>1. primary' \subseteq {t \in ucs_connections' : ucs_id'[t] # NoUcs}
  BY UcsAssumption DEF TypeOK, Register_peer, NewPrimaries, ConnectionsOf, Reading
<1> QED
  BY <1>1 DEF TypeOK, Register_peer, Reading, Send_vehicle_registrations

LEMMA TypeIncoming ==
  ASSUME TypeOK, NEW s \in Streams, On_incoming_connection(s)
  PROVE  TypeOK'
BY DEF TypeOK, On_incoming_connection

LEMMA UpdateType ==
  ASSUME NEW A, NEW B, NEW C, NEW f \in [A -> [B -> C]], NEW a \in A, NEW b \in B, NEW c \in C
  PROVE  [f EXCEPT ![a][b] = c] \in [A -> [B -> C]]
OBVIOUS

LEMMA TypeServer ==
  ASSUME TypeOK, NEW s \in Streams, NEW d \in Devices
  PROVE  /\ Registration_ok(s, d) => TypeOK'
         /\ Registration_failed(s, d) => TypeOK'
         /\ Device_responds(s, d) => TypeOK'
         /\ Request_aborted(s, d) => TypeOK'
<1>2. ASSUME Registration_ok(s, d) PROVE TypeOK'
  <2>1. seen' \in [Streams -> [Devices -> Telemetry]]
    <3>1. CASE d \in vehicles
      <4>1. seen' = [seen EXCEPT ![s][d] = telemetry_cache[d]]
        BY <1>2, <3>1 DEF Registration_ok, Send_cached_telemetry
      <4>2. seen \in [Streams -> [Devices -> Telemetry]] /\ telemetry_cache[d] \in Telemetry
        BY DEF TypeOK
      <4> QED
        BY <4>1, <4>2, UpdateType
    <3>2. CASE d \notin vehicles
      BY <1>2, <3>2 DEF TypeOK, Registration_ok
    <3> QED
      BY <3>1, <3>2
  <2>2. ucs_info' \in [Devices -> SUBSET Streams]
    <3>1. ucs_info \in [Devices -> SUBSET Streams] /\ ucs_connections \subseteq Streams
      BY DEF TypeOK
    <3>2. CASE d \in vehicles
      <4>1. ucs_info' = Notify_device_about_ucs_connections({d}, ucs_connections,
                                                            registered_devices')
        BY <1>2, <3>2 DEF Registration_ok
      <4> QED
        BY <3>1, <4>1 DEF Notify_device_about_ucs_connections
    <3>3. CASE d \notin vehicles
      BY <1>2, <3>1, <3>3 DEF Registration_ok
    <3> QED
      BY <3>2, <3>3
  <2>3. /\ registered_devices' \in [Streams -> SUBSET Devices]
        /\ pending_registrations' \in [Streams -> SUBSET Devices]
        /\ server_devices' \in [Streams -> SUBSET Devices]
    BY <1>2 DEF TypeOK, Registration_ok
  <2>4. /\ ucs_connections' \subseteq used' /\ used' \subseteq Streams
        /\ broken' \subseteq ucs_connections' /\ completed' \subseteq broken'
    BY <1>2 DEF TypeOK, Registration_ok, Reading
  <2>5. UNCHANGED <<ucs_connections, ucs_id, primary, vehicles, retired, telemetry_cache,
                    announced, refused, dropped, waiting, at_device, detector, enabled>>
    BY <1>2 DEF Registration_ok
  <2> QED
    BY <2>1, <2>2, <2>3, <2>4, <2>5 DEF TypeOK
<1>3. ASSUME Registration_failed(s, d) PROVE TypeOK'
  BY <1>3 DEF TypeOK, Registration_failed, Reading
<1>4. ASSUME Device_responds(s, d) PROVE TypeOK'
  BY <1>4 DEF TypeOK, Device_responds
<1>5. ASSUME Request_aborted(s, d) PROVE TypeOK'
  BY <1>5 DEF TypeOK, Request_aborted
<1> QED
  BY <1>2, <1>3, <1>4, <1>5

LEMMA TypeDevice ==
  ASSUME TypeOK, NEW d \in Devices
  PROVE  /\ On_register_vehicle(d) => TypeOK'
         /\ On_unregister_vehicle(d) => TypeOK'
         /\ On_send_ucs_message(d) => TypeOK'
<1>1. ASSUME On_register_vehicle(d) PROVE TypeOK'
  BY <1>1 DEF TypeOK, On_register_vehicle, Broadcast_message_to_ucs
<1>2. ASSUME On_unregister_vehicle(d) PROVE TypeOK'
  BY <1>2 DEF TypeOK, On_unregister_vehicle
<1>3. ASSUME On_send_ucs_message(d) PROVE TypeOK'
  BY <1>3, TelemetryAssumption DEF TypeOK, On_send_ucs_message, Telemetry
<1> QED
  BY <1>1, <1>2, <1>3

LEMMA TypeStep == TypeOK /\ [Next]_vars => TypeOK'
<1> SUFFICES ASSUME TypeOK, [Next]_vars PROVE TypeOK'
  OBVIOUS
<1>1. ASSUME NEW s \in Streams, ServerStep(s) PROVE TypeOK'
  <2>1. ASSUME NEW d \in Devices \cup {Peer}, On_ucs_message(s, d) PROVE TypeOK'
    BY <2>1 DEF TypeOK, On_ucs_message, Reading
  <2>2. ASSUME NEW u \in Ucs, Register_peer(s, u) PROVE TypeOK'
    BY <2>2, TypeRegisterPeer
  <2>3. ASSUME NEW d \in Devices, Registration_ok(s, d) \/ Registration_failed(s, d)
        PROVE  TypeOK'
    BY <2>3, TypeServer
  <2>4. ASSUME On_incoming_connection(s) PROVE TypeOK'
    BY <2>4, TypeIncoming
  <2> QED
    BY <1>1, <2>1, <2>2, <2>3, <2>4 DEF ServerStep
<1>2. ASSUME NEW s \in Streams, Connection_fails(s) PROVE TypeOK'
  BY <1>2, TypeClose
<1>3. ASSUME NEW d \in Devices, DeviceStep(d) PROVE TypeOK'
  BY <1>3, TypeDevice, TypeServer DEF DeviceStep
<1>4. ASSUME NEW expired \in SUBSET Streams, NEW queue \in SUBSET expired,
             On_timer(expired, queue)
      PROVE  TypeOK'
  BY <1>4 DEF TypeOK, On_timer
<1>5. ASSUME Process_on_disable PROVE TypeOK'
  BY <1>5 DEF TypeOK, Process_on_disable
<1>6. ASSUME UNCHANGED vars PROVE TypeOK'
  BY <1>6 DEF TypeOK, vars
<1> QED
  BY <1>1, <1>2, <1>3, <1>4, <1>5, <1>6 DEF Next

-----------------------------------------------------------------------------
(* Which steps change what.                                                *)

\* The steps that change connections.
LEMMA ConnectionSteps ==
  ASSUME [Next]_vars
  PROVE  \/ \E s \in Streams : On_incoming_connection(s)
         \/ \E s \in Streams, u \in Ucs : Register_peer(s, u)
         \/ \E s \in Streams : Connection_fails(s)
         \/ Process_on_disable
         \/ UNCHANGED <<ucs_connections, used, ucs_id, primary>>
<1>1. ASSUME NEW s \in Streams, NEW d \in Devices \cup {Peer},
             \/ Registration_ok(s, d) \/ Registration_failed(s, d) \/ On_ucs_message(s, d)
             \/ Device_responds(s, d) \/ Request_aborted(s, d)
      PROVE  UNCHANGED <<ucs_connections, used, ucs_id, primary>>
  BY <1>1 DEF Registration_ok, Registration_failed, On_ucs_message, Device_responds,
              Request_aborted
<1>2. ASSUME NEW d \in Devices,
             On_register_vehicle(d) \/ On_unregister_vehicle(d) \/ On_send_ucs_message(d)
      PROVE  UNCHANGED <<ucs_connections, used, ucs_id, primary>>
  BY <1>2 DEF On_register_vehicle, On_unregister_vehicle, On_send_ucs_message
<1>3. ASSUME NEW expired, NEW queue, On_timer(expired, queue)
      PROVE  UNCHANGED <<ucs_connections, used, ucs_id, primary>>
  BY <1>3 DEF On_timer
<1>4. ASSUME NEW s \in Streams, ServerStep(s)
      PROVE  \/ On_incoming_connection(s)
             \/ \E u \in Ucs : Register_peer(s, u)
             \/ UNCHANGED <<ucs_connections, used, ucs_id, primary>>
  BY <1>1, <1>4 DEF ServerStep
<1>5. ASSUME NEW d \in Devices, DeviceStep(d)
      PROVE  UNCHANGED <<ucs_connections, used, ucs_id, primary>>
  BY <1>1, <1>2, <1>5 DEF DeviceStep
<1>6. CASE UNCHANGED vars
  BY <1>6 DEF vars
<1> QED
  BY <1>3, <1>4, <1>5, <1>6 DEF Next

-----------------------------------------------------------------------------
(* A connected server has a primary connection.                            *)

LEMMA PrimaryClose ==
  ASSUME TypeOK, PrimaryExists, NEW s \in Streams, Connection_fails(s)
  PROVE  PrimaryExists'
<1> SUFFICES ASSUME NEW r \in ucs_connections \ {s}, ucs_id[r] # NoUcs
             PROVE  \E t \in primary' : ucs_id[t] = ucs_id[r]
  BY DEF PrimaryExists, Connection_fails, Close_ucs_stream
<1>1. CASE s \in primary /\ ucs_id[r] = ucs_id[s]
  <2>1. PICK P \in Successors(s) : primary' = (primary \ {s}) \cup P
    BY <1>1 DEF Connection_fails, Close_ucs_stream
  <2>2. P # {}
    BY <1>1, <2>1 DEF Successors, ConnectionsOf
  <2>3. P \subseteq {t \in ucs_connections \ {s} : ucs_id[t] = ucs_id[s]}
    BY <1>1, SuccessorsType
  <2> QED
    BY <1>1, <2>1, <2>2, <2>3
<1>2. CASE s \in primary /\ ucs_id[r] # ucs_id[s]
  BY <1>2 DEF PrimaryExists, Connection_fails, Close_ucs_stream
<1>3. CASE s \notin primary
  BY <1>3 DEF PrimaryExists, Connection_fails, Close_ucs_stream
<1> QED
  BY <1>1, <1>2, <1>3

LEMMA PrimaryRegisterPeer ==
  ASSUME TypeOK, PrimaryExists, NEW s \in Streams, NEW u \in Ucs, Register_peer(s, u)
  PROVE  PrimaryExists'
<1>1. /\ s \in ucs_connections /\ ucs_id[s] = NoUcs /\ s \notin primary
      /\ ucs_id' = [ucs_id EXCEPT ![s] = u] /\ ucs_connections' = ucs_connections
      /\ primary' \in NewPrimaries(s, u)
  BY DEF TypeOK, Register_peer, Reading, Unregistered
<1>2. \A t \in primary : t \in Streams /\ t # s /\ ucs_id'[t] = ucs_id[t]
  BY <1>1 DEF TypeOK
<1>3. \E t \in primary' : ucs_id'[t] = u
  <2>1. CASE ConnectionsOf(u) = {}
    BY <1>1, <2>1 DEF TypeOK, NewPrimaries
  <2>2. CASE ConnectionsOf(u) # {}
    <3>1. PICK r \in ucs_connections : ucs_id[r] = u
      BY <2>2 DEF ConnectionsOf
    <3>2. PICK t \in primary : ucs_id[t] = u
      BY <3>1, UcsAssumption DEF PrimaryExists
    <3>3. ConnectionsOf(u) \cap primary # {}
      BY <3>2 DEF TypeOK, ConnectionsOf
    <3>4. PICK q \in ConnectionsOf(u) \cap primary :
             primary' = IF q \notin Loopback \/ s \in Loopback
                        THEN (primary \ {q}) \cup {s} ELSE primary
      BY <1>1, <2>2, <3>3 DEF NewPrimaries
    <3>5. CASE primary' = primary
      BY <1>2, <3>2, <3>5
    <3>6. CASE primary' = (primary \ {q}) \cup {s}
      BY <1>1, <3>6 DEF TypeOK
    <3> QED
      BY <3>4, <3>5, <3>6
  <2> QED
    BY <2>1, <2>2
<1>4. ASSUME NEW t \in primary, ucs_id[t] # u PROVE t \in primary'
  BY <1>1, <1>4 DEF NewPrimaries, ConnectionsOf
<1> SUFFICES ASSUME NEW r \in ucs_connections, ucs_id'[r] # NoUcs
             PROVE  \E t \in primary' : ucs_id'[t] = ucs_id'[r]
  BY <1>1 DEF PrimaryExists
<1>5. CASE ucs_id'[r] = u
  BY <1>3, <1>5
<1>6. CASE ucs_id'[r] # u
  <2>1. ucs_id'[r] = ucs_id[r]
    BY <1>1, <1>6 DEF TypeOK
  <2>2. PICK t \in primary : ucs_id[t] = ucs_id[r]
    BY <2>1 DEF PrimaryExists
  <2> QED
    BY <1>2, <1>4, <1>6, <2>1, <2>2
<1> QED
  BY <1>5, <1>6

LEMMA PrimaryStep ==
  ASSUME TypeOK, PrimaryExists, UnusedUnregistered, [Next]_vars
  PROVE  PrimaryExists'
<1>1. ASSUME NEW s \in Streams, On_incoming_connection(s) PROVE PrimaryExists'
  BY <1>1 DEF PrimaryExists, UnusedUnregistered, On_incoming_connection
<1>2. ASSUME Process_on_disable PROVE PrimaryExists'
  BY <1>2 DEF PrimaryExists, Process_on_disable
<1>3. ASSUME UNCHANGED <<ucs_connections, used, ucs_id, primary>> PROVE PrimaryExists'
  BY <1>3 DEF PrimaryExists
<1> QED
  BY <1>1, <1>2, <1>3, PrimaryClose, PrimaryRegisterPeer, ConnectionSteps

LEMMA UnusedStep ==
  ASSUME TypeOK, UnusedUnregistered, [Next]_vars
  PROVE  UnusedUnregistered'
<1>1. ASSUME NEW s \in Streams, On_incoming_connection(s) PROVE UnusedUnregistered'
  BY <1>1 DEF UnusedUnregistered, On_incoming_connection
<1>2. ASSUME NEW s \in Streams, NEW u \in Ucs, Register_peer(s, u) PROVE UnusedUnregistered'
  BY <1>2 DEF TypeOK, UnusedUnregistered, Register_peer, Reading
<1>3. ASSUME NEW s \in Streams, Connection_fails(s) PROVE UnusedUnregistered'
  BY <1>3 DEF UnusedUnregistered, Connection_fails
<1>4. ASSUME Process_on_disable PROVE UnusedUnregistered'
  BY <1>4 DEF UnusedUnregistered, Process_on_disable
<1>5. ASSUME UNCHANGED <<ucs_connections, used, ucs_id, primary>> PROVE UnusedUnregistered'
  BY <1>5 DEF UnusedUnregistered
<1> QED
  BY <1>1, <1>2, <1>3, <1>4, <1>5, ConnectionSteps

-----------------------------------------------------------------------------
(* Registrations, and what devices are told.                               *)

\* What the invariants on registrations speak about.
registration_vars == <<ucs_connections, ucs_id, registered_devices, pending_registrations,
                       vehicles, retired, ucs_info, announced, server_devices>>

\* The invariants on registrations.
Registrations == ErasedEmpty /\ OnlyKnownDevices /\ DevicesKnowConnections /\ AnnouncedKnown

\* The steps that leave registrations alone.
LEMMA OtherSteps ==
  ASSUME NEW s, NEW d
  PROVE  /\ On_ucs_message(s, d) => UNCHANGED registration_vars
         /\ Device_responds(s, d) => UNCHANGED registration_vars
         /\ Request_aborted(s, d) => UNCHANGED registration_vars
         /\ On_send_ucs_message(d) => UNCHANGED registration_vars
         /\ On_timer(s, d) => UNCHANGED registration_vars
         /\ UNCHANGED vars => UNCHANGED registration_vars
BY DEF On_ucs_message, Device_responds, Request_aborted, On_send_ucs_message, On_timer, vars,
       registration_vars

LEMMA UnchangedRegistrations ==
  ASSUME Registrations, UNCHANGED registration_vars
  PROVE  Registrations'
BY DEF Registrations, registration_vars, ErasedEmpty, OnlyKnownDevices, DevicesKnowConnections,
       AnnouncedKnown, Known_devices

LEMMA IncomingRegistrations ==
  ASSUME TypeOK, Registrations, NEW s \in Streams, On_incoming_connection(s)
  PROVE  Registrations'
<1>1. ErasedEmpty'
  BY DEF Registrations, ErasedEmpty, On_incoming_connection
<1>2. DevicesKnowConnections'
  BY DEF TypeOK, Registrations, ErasedEmpty, DevicesKnowConnections, On_incoming_connection
<1>3. OnlyKnownDevices' /\ AnnouncedKnown'
  BY DEF Registrations, OnlyKnownDevices, AnnouncedKnown, Known_devices, On_incoming_connection
<1> QED
  BY <1>1, <1>2, <1>3 DEF Registrations

LEMMA CloseRegistrations ==
  ASSUME TypeOK, Registrations, NEW s \in Streams, Connection_fails(s)
  PROVE  Registrations'
<1>1. ErasedEmpty'
  BY DEF TypeOK, Registrations, ErasedEmpty, Connection_fails, Close_ucs_stream
<1>2. OnlyKnownDevices'
  BY DEF TypeOK, Registrations, OnlyKnownDevices, Known_devices, Connection_fails,
         Close_ucs_stream, Notify_device_about_ucs_connections
<1>3. DevicesKnowConnections'
  <2> SUFFICES ASSUME NEW d \in vehicles
               PROVE  ucs_info'[d] = {t \in ucs_connections' : d \in registered_devices'[t]}
    BY DEF DevicesKnowConnections, Connection_fails
  <2>1. CASE d \in registered_devices[s]
    BY <2>1 DEF TypeOK, Connection_fails, Close_ucs_stream, Notify_device_about_ucs_connections
  <2>2. CASE d \notin registered_devices[s]
    <3>1. ucs_info'[d] = {t \in ucs_connections : d \in registered_devices[t]}
      BY <2>2 DEF TypeOK, Registrations, DevicesKnowConnections, Connection_fails,
                  Close_ucs_stream, Notify_device_about_ucs_connections
    <3>2. /\ ucs_connections' = ucs_connections \ {s}
          /\ \A t \in ucs_connections \ {s} : registered_devices'[t] = registered_devices[t]
      BY DEF TypeOK, Connection_fails, Close_ucs_stream
    <3> QED
      BY <2>2, <3>1, <3>2
  <2> QED
    BY <2>1, <2>2
<1>4. AnnouncedKnown'
  BY DEF Registrations, AnnouncedKnown, Known_devices, Connection_fails
<1> QED
  BY <1>1, <1>2, <1>3, <1>4 DEF Registrations

LEMMA PeerRegistrations ==
  ASSUME TypeOK, Registrations, NEW s \in Streams, NEW u \in Ucs, Register_peer(s, u)
  PROVE  Registrations'
<1>1. ErasedEmpty'
  BY DEF TypeOK, Registrations, ErasedEmpty, Register_peer, Reading, Send_vehicle_registrations
<1>2. OnlyKnownDevices'
  BY DEF TypeOK, Registrations, OnlyKnownDevices, Known_devices, Register_peer,
         Send_vehicle_registrations
<1>3. DevicesKnowConnections'
  BY DEF Registrations, DevicesKnowConnections, Register_peer
<1>4. AnnouncedKnown'
  BY UcsAssumption DEF TypeOK, Registrations, AnnouncedKnown, Known_devices, Register_peer,
                       Send_vehicle_registrations
<1> QED
  BY <1>1, <1>2, <1>3, <1>4 DEF Registrations

LEMMA OkRegistrations ==
  ASSUME TypeOK, Registrations, NEW s \in Streams, NEW d \in Devices, Registration_ok(s, d)
  PROVE  Registrations'
<1>1. ErasedEmpty'
  BY DEF TypeOK, Registrations, ErasedEmpty, Registration_ok, Reading
<1>2. OnlyKnownDevices'
  BY DEF TypeOK, Registrations, OnlyKnownDevices, Known_devices, Registration_ok,
         Notify_device_about_ucs_connections
<1>3. DevicesKnowConnections'
  <2> SUFFICES ASSUME NEW e \in vehicles
               PROVE  ucs_info'[e] = {t \in ucs_connections : e \in registered_devices'[t]}
    BY DEF DevicesKnowConnections, Registration_ok
  <2>1. CASE d \notin vehicles
    BY <2>1 DEF Registrations, DevicesKnowConnections, Registration_ok
  <2>2. CASE d \in vehicles /\ e = d
    BY <2>2 DEF TypeOK, Registration_ok, Notify_device_about_ucs_connections
  <2>3. CASE d \in vehicles /\ e # d
    <3>1. ucs_info'[e] = ucs_info[e]
      BY <2>3 DEF TypeOK, Registration_ok, Notify_device_about_ucs_connections
    <3>2. \A t \in ucs_connections : e \in registered_devices'[t] <=> e \in registered_devices[t]
      BY <2>3 DEF TypeOK, Registration_ok
    <3> QED
      BY <3>1, <3>2 DEF Registrations, DevicesKnowConnections
  <2> QED
    BY <2>1, <2>2, <2>3
<1>4. AnnouncedKnown'
  BY DEF Registrations, AnnouncedKnown, Known_devices, Registration_ok
<1> QED
  BY <1>1, <1>2, <1>3, <1>4 DEF Registrations

LEMMA FailedRegistrations ==
  ASSUME TypeOK, Registrations, NEW s \in Streams, NEW d \in Devices, Registration_failed(s, d)
  PROVE  Registrations'
BY DEF TypeOK, Registrations, ErasedEmpty, OnlyKnownDevices, DevicesKnowConnections,
       AnnouncedKnown, Known_devices, Registration_failed

LEMMA VehicleRegistrations ==
  ASSUME TypeOK, Registrations, NEW d \in Devices, On_register_vehicle(d)
  PROVE  Registrations'
<1>1. ErasedEmpty'
  BY DEF TypeOK, Registrations, ErasedEmpty, On_register_vehicle, Broadcast_message_to_ucs
<1>2. OnlyKnownDevices'
  BY DEF TypeOK, Registrations, OnlyKnownDevices, Known_devices, On_register_vehicle
<1>3. DevicesKnowConnections'
  BY DEF TypeOK, Registrations, OnlyKnownDevices, Known_devices, DevicesKnowConnections,
         On_register_vehicle
<1>4. AnnouncedKnown'
  BY UcsAssumption DEF TypeOK, Registrations, AnnouncedKnown, Known_devices,
                       On_register_vehicle, Sendable, Broadcast_message_to_ucs
<1> QED
  BY <1>1, <1>2, <1>3, <1>4 DEF Registrations

LEMMA UnregisterRegistrations ==
  ASSUME TypeOK, Registrations, NEW d \in Devices, On_unregister_vehicle(d)
  PROVE  Registrations'
<1>1. ErasedEmpty'
  BY DEF TypeOK, Registrations, ErasedEmpty, On_unregister_vehicle
<1>2. OnlyKnownDevices'
  BY DEF TypeOK, Registrations, OnlyKnownDevices, Known_devices, On_unregister_vehicle
<1>3. DevicesKnowConnections'
  BY DEF TypeOK, Registrations, DevicesKnowConnections, On_unregister_vehicle
<1>4. AnnouncedKnown'
  BY DEF TypeOK, Registrations, AnnouncedKnown, Known_devices, On_unregister_vehicle
<1> QED
  BY <1>1, <1>2, <1>3, <1>4 DEF Registrations

LEMMA DisableRegistrations ==
  ASSUME TypeOK, Registrations, Process_on_disable
  PROVE  Registrations'
BY DEF TypeOK, Registrations, ErasedEmpty, OnlyKnownDevices, DevicesKnowConnections,
       AnnouncedKnown, Known_devices, Process_on_disable

LEMMA RegistrationsStep ==
  ASSUME TypeOK, Registrations, [Next]_vars
  PROVE  Registrations'
<1>1. ASSUME NEW s \in Streams, ServerStep(s) PROVE Registrations'
  <2>1. ASSUME NEW d \in Devices \cup {Peer}, On_ucs_message(s, d) PROVE Registrations'
    BY <2>1, OtherSteps, UnchangedRegistrations
  <2> QED
    BY <1>1, <2>1, IncomingRegistrations, PeerRegistrations, OkRegistrations,
       FailedRegistrations DEF ServerStep
<1>2. ASSUME NEW d \in Devices, DeviceStep(d) PROVE Registrations'
  <2>1. ASSUME NEW s \in Streams, Device_responds(s, d) \/ Request_aborted(s, d)
        PROVE  Registrations'
    BY <2>1, OtherSteps, UnchangedRegistrations
  <2>2. ASSUME On_send_ucs_message(d) PROVE Registrations'
    BY <2>2, OtherSteps, UnchangedRegistrations
  <2> QED
    BY <1>2, <2>1, <2>2, VehicleRegistrations, UnregisterRegistrations DEF DeviceStep
<1>3. ASSUME NEW expired, NEW queue, On_timer(expired, queue) PROVE Registrations'
  BY <1>3, OtherSteps, UnchangedRegistrations
<1>4. CASE UNCHANGED vars
  BY <1>4, OtherSteps, UnchangedRegistrations
<1> QED
  BY <1>1, <1>2, <1>3, <1>4, CloseRegistrations, DisableRegistrations DEF Next

-----------------------------------------------------------------------------
(* What a server with one connection knows of the devices.                 *)

\* What the invariants on such a server speak about, beside the connections.
knowledge_vars == <<ucs_connections, ucs_id, registered_devices, pending_registrations,
                    vehicles, refused, seen, telemetry_cache, server_devices, dropped>>

Knowledge == UnregisteredEmpty /\ PendingDropped /\ DevicesAnnounced /\ TelemetryCurrent

\* The steps that leave all of this alone.
LEMMA KnowledgeUnchanged ==
  ASSUME NEW s, NEW d,
         \/ On_ucs_message(s, d) \/ Device_responds(s, d) \/ Request_aborted(s, d)
         \/ On_timer(s, d) \/ UNCHANGED vars
  PROVE  UNCHANGED knowledge_vars
BY DEF On_ucs_message, Device_responds, Request_aborted, On_timer, vars, knowledge_vars

\* They preserve what is known.
LEMMA UnchangedKnowledge ==
  ASSUME Knowledge, UNCHANGED knowledge_vars
  PROVE  Knowledge'
BY DEF Knowledge, UnregisteredEmpty, PendingDropped, DevicesAnnounced, TelemetryCurrent, Sole,
       Known, knowledge_vars

\* The only connection of a server is primary, so what is broadcast is sent there.
LEMMA SoleIsPrimary ==
  ASSUME TypeOK, PrimaryExists, NEW s \in Streams, Sole(s)
  PROVE  s \in primary /\ Sendable(s)
<1>1. PICK t \in primary : ucs_id[t] = ucs_id[s]
  BY DEF PrimaryExists, Sole, Known
<1>2. t \in Streams
  BY DEF TypeOK
<1> QED
  BY <1>1, <1>2 DEF Sole, Sendable

\* A new connection is not known.
LEMMA IncomingKnowledge ==
  ASSUME TypeOK, UnusedUnregistered, Knowledge, NEW r \in Streams, On_incoming_connection(r)
  PROVE  Knowledge'
<1>1. ASSUME NEW s \in Streams, Sole(s)' PROVE Sole(s)
  BY <1>1 DEF Sole, Known, UnusedUnregistered, On_incoming_connection
<1> QED
  BY <1>1 DEF Knowledge, UnregisteredEmpty, PendingDropped, DevicesAnnounced, TelemetryCurrent,
              On_incoming_connection

\* A connection that is closed is not known any more; the others keep what they have.
LEMMA CloseKnowledge ==
  ASSUME TypeOK, Knowledge, NEW r \in Streams, Connection_fails(r)
  PROVE  Knowledge'
<1>1. ASSUME NEW s \in Streams, Sole(s)' PROVE Sole(s) /\ s # r
  BY <1>1 DEF Sole, Known, Connection_fails, Close_ucs_stream
<1>2. /\ registered_devices' = [registered_devices EXCEPT ![r] = {}]
      /\ pending_registrations' = [pending_registrations EXCEPT ![r] = {}]
      /\ server_devices' = [server_devices EXCEPT ![r] = {}]
      /\ UNCHANGED <<ucs_id, vehicles, refused, seen, telemetry_cache, dropped>>
  BY DEF Connection_fails, Close_ucs_stream
<1>3. UnregisteredEmpty' /\ PendingDropped'
  BY <1>2 DEF TypeOK, Knowledge, UnregisteredEmpty, PendingDropped
<1>4. DevicesAnnounced' /\ TelemetryCurrent'
  BY <1>1, <1>2 DEF TypeOK, Knowledge, DevicesAnnounced, TelemetryCurrent
<1> QED
  BY <1>3, <1>4 DEF Knowledge

\* A compatible server that registers is sent all vehicles, and has none before.
LEMMA PeerKnowledge ==
  ASSUME TypeOK, Knowledge, NEW r \in Streams, NEW u \in Ucs, Register_peer(r, u)
  PROVE  Knowledge'
<1>1. /\ ucs_id[r] = NoUcs /\ ucs_id' = [ucs_id EXCEPT ![r] = u]
      /\ Send_vehicle_registrations(r, u)
      /\ UNCHANGED <<ucs_connections, registered_devices, vehicles, refused, seen,
                     telemetry_cache, server_devices, dropped>>
  BY DEF Register_peer, Unregistered
<1>2. registered_devices[r] = {} /\ server_devices[r] = {} /\ \A s \in Streams \ {r} : ucs_id'[s] = ucs_id[s]
  BY <1>1 DEF TypeOK, Knowledge, UnregisteredEmpty
<1>3. \A s \in Streams \ {r} : pending_registrations'[s] = pending_registrations[s]
  BY <1>1 DEF TypeOK, Send_vehicle_registrations
<1>4. UnregisteredEmpty'
  BY <1>1, <1>2, <1>3, UcsAssumption DEF TypeOK, Knowledge, UnregisteredEmpty
<1>5. ASSUME NEW s \in Streams, Sole(s)', s # r PROVE Sole(s)
  BY <1>1, <1>2, <1>5, UcsAssumption DEF Sole, Known
<1>6. ASSUME Sole(r)' PROVE vehicles \subseteq pending_registrations'[r]
  <2>1. u \in Compatible
    BY <1>1, <1>6 DEF Sole, TypeOK
  <2> QED
    BY <1>1, <2>1 DEF Send_vehicle_registrations, TypeOK
<1>7. DevicesAnnounced'
  BY <1>1, <1>2, <1>3, <1>5, <1>6 DEF Knowledge, DevicesAnnounced
<1>8. TelemetryCurrent'
  BY <1>1, <1>2, <1>5 DEF Knowledge, TelemetryCurrent
<1>9. PendingDropped'
  BY <1>1 DEF TypeOK, Knowledge, PendingDropped, Send_vehicle_registrations
<1> QED
  BY <1>4, <1>7, <1>8, <1>9 DEF Knowledge

\* A device that is accepted is sent with its cached telemetry.
LEMMA OkKnowledge ==
  ASSUME TypeOK, Knowledge, NEW r \in Streams, NEW d \in Devices, Registration_ok(r, d)
  PROVE  Knowledge'
<1>1. /\ UNCHANGED <<ucs_connections, ucs_id, vehicles, refused, telemetry_cache, dropped>>
      /\ d \in pending_registrations[r]
      /\ pending_registrations' = [pending_registrations EXCEPT ![r] = @ \ {d}]
      /\ server_devices' = [server_devices EXCEPT ![r] = @ \cup {d}]
  BY DEF Registration_ok
<1>0. PendingDropped'
  BY <1>1 DEF TypeOK, Knowledge, PendingDropped
<1>2. CASE d \in vehicles
  <2>1. /\ registered_devices' = [registered_devices EXCEPT ![r] = @ \cup {d}]
        /\ seen' = [seen EXCEPT ![r][d] = telemetry_cache[d]]
    BY <1>2 DEF Registration_ok, Send_cached_telemetry
  <2>2. UnregisteredEmpty'
    BY <1>1, <2>1 DEF TypeOK, Knowledge, UnregisteredEmpty
  <2>3. DevicesAnnounced'
    BY <1>1, <1>2, <2>1 DEF TypeOK, Knowledge, DevicesAnnounced, Sole, Known
  <2>4. seen'[r][d] = telemetry_cache[d]
    BY <2>1 DEF TypeOK
  <2>5. \A s \in Streams, e \in Devices : s # r \/ e # d => seen'[s][e] = seen[s][e]
    BY <2>1 DEF TypeOK
  <2>6. \A s \in Streams : Sole(s)' => Sole(s)
    BY <1>1 DEF Sole, Known
  <2>7. TelemetryCurrent'
    BY <1>1, <2>1, <2>4, <2>5, <2>6 DEF TypeOK, Knowledge, TelemetryCurrent
  <2> QED
    BY <1>0, <2>2, <2>3, <2>7 DEF Knowledge
<1>3. CASE d \notin vehicles
  <2>1. UNCHANGED <<registered_devices, seen>> /\ <<r, d>> \in dropped
    BY <1>1, <1>3 DEF Registration_ok, Knowledge, PendingDropped
  <2>2. UnregisteredEmpty' /\ TelemetryCurrent'
    BY <1>1, <2>1 DEF TypeOK, Knowledge, UnregisteredEmpty, TelemetryCurrent, Sole, Known
  <2>3. DevicesAnnounced'
    <3> SUFFICES ASSUME NEW s \in Streams, Sole(s)'
                 PROVE  /\ \A e \in vehicles : \/ e \in registered_devices[s] \cup pending_registrations'[s]
                                                \/ <<s, e>> \in refused
                        /\ registered_devices[s] = server_devices'[s] \cap vehicles
                        /\ \A e \in server_devices'[s] \ vehicles : <<s, e>> \in dropped
      BY <1>1, <2>1 DEF DevicesAnnounced
    <3>1. Sole(s)
      BY <1>1 DEF Sole, Known
    <3>2. /\ \A e \in vehicles : e \in pending_registrations[s] => e \in pending_registrations'[s]
          /\ server_devices'[s] \cap vehicles = server_devices[s] \cap vehicles
          /\ \A e \in server_devices'[s] : e \in server_devices[s] \/ (s = r /\ e = d)
      BY <1>1, <1>3 DEF TypeOK
    <3> QED
      BY <2>1, <3>1, <3>2 DEF Knowledge, DevicesAnnounced
  <2> QED
    BY <1>0, <2>2, <2>3 DEF Knowledge
<1> QED
  BY <1>2, <1>3

\* A device that is not accepted is refused.
LEMMA FailedKnowledge ==
  ASSUME TypeOK, Knowledge, NEW r \in Streams, NEW d \in Devices, Registration_failed(r, d)
  PROVE  Knowledge'
<1>1. /\ UNCHANGED <<ucs_connections, ucs_id, vehicles, registered_devices, telemetry_cache, seen,
                     server_devices, dropped>>
      /\ pending_registrations' = [pending_registrations EXCEPT ![r] = @ \ {d}]
      /\ refused' = refused \cup {<<r, d>>}
  BY DEF Registration_failed, connection_vars
<1>2. PendingDropped' /\ UnregisteredEmpty'
  BY <1>1 DEF TypeOK, Knowledge, PendingDropped, UnregisteredEmpty
<1>3. \A s \in Streams : Sole(s)' => Sole(s)
  BY <1>1 DEF Sole, Known
<1>4. TelemetryCurrent'
  BY <1>1, <1>3 DEF Knowledge, TelemetryCurrent
<1>5. \A s \in Streams : \A e \in pending_registrations[s] :
         e \in pending_registrations'[s] \/ <<s, e>> \in refused'
  BY <1>1 DEF TypeOK
<1>6. DevicesAnnounced'
  BY <1>1, <1>3, <1>5 DEF Knowledge, DevicesAnnounced
<1> QED
  BY <1>2, <1>4, <1>6 DEF Knowledge

\* A new vehicle is broadcast, and with that sent to every server with one connection.
LEMMA VehicleKnowledge ==
  ASSUME TypeOK, PrimaryExists, OnlyKnownDevices, Knowledge, NEW d \in Devices,
         On_register_vehicle(d)
  PROVE  Knowledge'
<1> DEFINE receivers == {s \in primary : Sendable(s)}
<1>1. /\ vehicles' = vehicles \cup {d}
      /\ pending_registrations' = [s \in Streams |->
             pending_registrations[s] \cup IF s \in receivers THEN {d} ELSE {}]
      /\ UNCHANGED <<ucs_connections, ucs_id, registered_devices, refused, seen,
                     telemetry_cache, server_devices, dropped>>
  BY DEF On_register_vehicle, Broadcast_message_to_ucs
<1>0. \A s \in Streams : d \notin server_devices[s]
  BY DEF On_register_vehicle, OnlyKnownDevices, Known_devices
<1>2. \A s \in Streams : Sole(s)' => Sole(s)
  BY <1>1 DEF Sole, Known
<1>3. \A s \in Streams : Sole(s) => s \in receivers
  BY SoleIsPrimary
<1>4. \A s \in receivers : ucs_id[s] # NoUcs
  BY UcsAssumption DEF Sendable
<1> HIDE DEF receivers
<1>5. UnregisteredEmpty' /\ PendingDropped' /\ TelemetryCurrent'
  BY <1>1, <1>2, <1>4 DEF TypeOK, Knowledge, UnregisteredEmpty, PendingDropped, TelemetryCurrent
<1>6. DevicesAnnounced'
  BY <1>0, <1>1, <1>2, <1>3 DEF TypeOK, Knowledge, DevicesAnnounced
<1> QED
  BY <1>5, <1>6 DEF Knowledge

\* A vehicle that goes away is taken off the servers with one connection it is on.
LEMMA UnregisterKnowledge ==
  ASSUME TypeOK, PrimaryExists, Knowledge, NEW d \in Devices, On_unregister_vehicle(d)
  PROVE  Knowledge'
<1> DEFINE receivers == {s \in primary : SendableFor(s, d)}
           Without(f) == [s \in Streams |-> IF s \in receivers THEN f[s] \ {d} ELSE f[s]]
<1>1. /\ vehicles' = vehicles \ {d}
      /\ registered_devices' = Without(registered_devices)
      /\ pending_registrations' = Without(pending_registrations)
      /\ server_devices' = Without(server_devices)
      /\ dropped' = dropped \cup
           ({s \in Streams \ receivers : d \in pending_registrations[s]} \X {d})
      /\ UNCHANGED <<ucs_connections, ucs_id, refused, seen, telemetry_cache>>
  BY DEF On_unregister_vehicle, Broadcast_message_to_ucs
<1>2. \A s \in Streams : Sole(s)' => Sole(s)
  BY <1>1 DEF Sole, Known
<1>3. \A s \in Streams : Sole(s) /\ d \in registered_devices[s] => s \in receivers
  BY SoleIsPrimary DEF SendableFor
<1> HIDE DEF receivers
<1>4. UnregisteredEmpty' /\ PendingDropped' /\ TelemetryCurrent'
  BY <1>1, <1>2 DEF TypeOK, Knowledge, UnregisteredEmpty, PendingDropped, TelemetryCurrent
<1>5. DevicesAnnounced'
  BY <1>1, <1>2, <1>3 DEF TypeOK, Knowledge, DevicesAnnounced
<1> QED
  BY <1>4, <1>5 DEF Knowledge

\* Telemetry goes to every server with one connection the vehicle is registered with.
LEMMA TelemetryKnowledge ==
  ASSUME TypeOK, PrimaryExists, Knowledge, NEW d \in Devices, On_send_ucs_message(d)
  PROVE  Knowledge'
<1>1. /\ telemetry_cache' = [telemetry_cache EXCEPT ![d] = @ + 1]
      /\ seen' = [s \in Streams |->
                    IF s \in primary /\ SendableFor(s, d)
                    THEN [seen[s] EXCEPT ![d] = telemetry_cache[d] + 1] ELSE seen[s]]
      /\ UNCHANGED <<ucs_connections, ucs_id, registered_devices, pending_registrations,
                     vehicles, refused, server_devices, dropped>>
  BY DEF On_send_ucs_message, Broadcast_message_to_ucs
<1>2. \A s \in Streams : Sole(s)' => Sole(s)
  BY <1>1 DEF Sole, Known
<1>3. UnregisteredEmpty' /\ PendingDropped' /\ DevicesAnnounced'
  BY <1>1, <1>2 DEF Knowledge, UnregisteredEmpty, PendingDropped, DevicesAnnounced
<1>4. ASSUME NEW s \in Streams, Sole(s), NEW e \in registered_devices[s]
      PROVE  seen'[s][e] = telemetry_cache'[e]
  <2>1. e \in Devices /\ seen[s][e] = telemetry_cache[e]
    BY <1>4 DEF TypeOK, Knowledge, TelemetryCurrent
  <2>2. e = d => s \in primary /\ SendableFor(s, d)
    BY <1>4, SoleIsPrimary DEF SendableFor
  <2> QED
    BY <1>1, <2>1, <2>2 DEF TypeOK
<1>5. TelemetryCurrent'
  BY <1>1, <1>2, <1>4 DEF TelemetryCurrent
<1> QED
  BY <1>3, <1>5 DEF Knowledge

\* Every step preserves what servers with one connection know.
LEMMA KnowledgeStep ==
  ASSUME TypeOK, PrimaryExists, UnusedUnregistered, OnlyKnownDevices, Knowledge, [Next]_vars
  PROVE  Knowledge'
<1>1. ASSUME NEW s, NEW d,
             \/ On_ucs_message(s, d) \/ Device_responds(s, d) \/ Request_aborted(s, d)
             \/ On_timer(s, d) \/ UNCHANGED vars
      PROVE  Knowledge'
  BY <1>1, KnowledgeUnchanged, UnchangedKnowledge
<1>2. ASSUME NEW s \in Streams, ServerStep(s) PROVE Knowledge'
  BY <1>1, <1>2, IncomingKnowledge, PeerKnowledge, OkKnowledge, FailedKnowledge DEF ServerStep
<1>3. ASSUME NEW d \in Devices, DeviceStep(d) PROVE Knowledge'
  BY <1>1, <1>3, VehicleKnowledge, UnregisterKnowledge, TelemetryKnowledge DEF DeviceStep
<1>4. ASSUME Process_on_disable PROVE Knowledge'
  BY <1>4 DEF Process_on_disable, Knowledge, UnregisteredEmpty, PendingDropped,
              DevicesAnnounced, TelemetryCurrent, Sole, Known
<1> QED
  BY <1>1, <1>2, <1>3, <1>4, CloseKnowledge DEF Next

-----------------------------------------------------------------------------
(* The transport detector.                                                 *)

\* Only connections, Register_peer and Process_on_disable concern the detector.
LEMMA DetectorSteps ==
  ASSUME [Next]_vars
  PROVE  \/ \E s \in Streams : On_incoming_connection(s)
         \/ \E s \in Streams, u \in Ucs : Register_peer(s, u)
         \/ \E s \in Streams : Connection_fails(s)
         \/ Process_on_disable
         \/ UNCHANGED <<ucs_connections, ucs_id, detector, enabled>>
<1>1. ASSUME NEW s \in Streams, NEW d \in Devices \cup {Peer},
             \/ Registration_ok(s, d) \/ Registration_failed(s, d) \/ On_ucs_message(s, d)
             \/ Device_responds(s, d) \/ Request_aborted(s, d)
      PROVE  UNCHANGED <<ucs_connections, ucs_id, detector, enabled>>
  BY <1>1 DEF Registration_ok, Registration_failed, On_ucs_message, Device_responds,
              Request_aborted
<1>2. ASSUME NEW d \in Devices,
             On_register_vehicle(d) \/ On_unregister_vehicle(d) \/ On_send_ucs_message(d)
      PROVE  UNCHANGED <<ucs_connections, ucs_id, detector, enabled>>
  BY <1>2 DEF On_register_vehicle, On_unregister_vehicle, On_send_ucs_message
<1>3. ASSUME NEW expired, NEW queue, On_timer(expired, queue)
      PROVE  UNCHANGED <<ucs_connections, ucs_id, detector, enabled>>
  BY <1>3 DEF On_timer
<1>4. ASSUME NEW s \in Streams, ServerStep(s)
      PROVE  \/ On_incoming_connection(s)
             \/ \E u \in Ucs : Register_peer(s, u)
             \/ UNCHANGED <<ucs_connections, ucs_id, detector, enabled>>
  BY <1>1, <1>4 DEF ServerStep
<1>5. ASSUME NEW d \in Devices, DeviceStep(d)
      PROVE  UNCHANGED <<ucs_connections, ucs_id, detector, enabled>>
  BY <1>1, <1>2, <1>5 DEF DeviceStep
<1>6. CASE UNCHANGED vars
  BY <1>6 DEF vars
<1> QED
  BY <1>3, <1>4, <1>5, <1>6 DEF Next

\* A server that has a connection already has activated the detector, so that a second
\* connection need not, and the detector is switched off only with the last one.
LEMMA DetectorStep ==
  ASSUME TypeOK, UnusedUnregistered, DetectorFollowsServers, [Next]_vars
  PROVE  DetectorFollowsServers'
<1>1. ASSUME NEW s \in Streams, On_incoming_connection(s) PROVE DetectorFollowsServers'
  BY <1>1 DEF On_incoming_connection, UnusedUnregistered, DetectorFollowsServers
<1>2. ASSUME NEW s \in Streams, NEW u \in Ucs, Register_peer(s, u)
      PROVE  DetectorFollowsServers'
  <2>1. /\ s \in ucs_connections /\ UNCHANGED <<ucs_connections, enabled>>
        /\ detector' = (detector \/ Activates(u))
    BY <1>2 DEF Register_peer, Reading
  <2>2. enabled => detector'
    <3>1. CASE ConnectionsOf(u) = {}
      BY <2>1, <3>1 DEF Activates
    <3>2. CASE ConnectionsOf(u) # {}
      BY <2>1, <3>2, UcsAssumption DEF DetectorFollowsServers, ConnectionsOf
    <3> QED
      BY <3>1, <3>2
  <2> QED
    BY <2>1, <2>2 DEF DetectorFollowsServers
<1>3. ASSUME NEW s \in Streams, Connection_fails(s) PROVE DetectorFollowsServers'
  BY <1>3 DEF Connection_fails, Close_ucs_stream, Found, DetectorFollowsServers
<1>4. ASSUME Process_on_disable PROVE DetectorFollowsServers'
  BY <1>4 DEF Process_on_disable, DetectorFollowsServers
<1>5. ASSUME UNCHANGED <<ucs_connections, ucs_id, detector, enabled>>
      PROVE  DetectorFollowsServers'
  BY <1>5 DEF DetectorFollowsServers
<1> QED
  BY <1>1, <1>2, <1>3, <1>4, <1>5, DetectorSteps

-----------------------------------------------------------------------------
(* The theorems.                                                           *)

\* IndInv holds in every state of the processor.
THEOREM Invariance == Spec => []IndInv
<1>1. IndInv /\ [Next]_vars => IndInv'
  BY TypeStep, PrimaryStep, UnusedStep, RegistrationsStep, KnowledgeStep, DetectorStep
     DEF IndInv, Registrations, Knowledge
<1> QED
  BY InitIndInv, <1>1, PTL DEF Spec

\* Every variable has its type: a primary connection is one of a known server and is
\* still in the map, through all that Close_ucs_stream and Register_peer do to the flag.
THEOREM TypeCorrect == Spec => []TypeOK
BY Invariance, PTL DEF IndInv

\* A server with any number of connections has a primary one as long as it is
\* connected, also when more than one became primary in Close_ucs_stream.
THEOREM AlwaysPrimary == Spec => []PrimaryExists
BY Invariance, PTL DEF IndInv

\* Devices are told about every change of their connections.
THEOREM DevicesInformed == Spec => []DevicesKnowConnections
BY Invariance, PTL DEF IndInv

\* A compatible server with one connection has registered exactly the vehicles there are, up
\* to registrations on their way, refused ones, and devices that were unregistered while
\* their registration was on its way, in whatever order servers register, vehicles come and
\* go and connections break.
THEOREM ServersKnowDevices == Spec => []DevicesAnnounced
BY Invariance, PTL DEF IndInv

\* Such a server has the latest telemetry of its devices: the gap between Register_device
\* and its answer is closed by Send_cached_telemetry.
THEOREM TelemetryReaches == Spec => []TelemetryCurrent
BY Invariance, PTL DEF IndInv

\* Close_ucs_stream and Register_peer together keep the transport detector on exactly as
\* long as its users need it.
THEOREM DetectorCorrect == Spec => []DetectorFollowsServers
BY Invariance, PTL DEF IndInv

\* No connection is sent a device twice.
THEOREM NoSecondAnnouncement == Spec => AnnouncedOnce
<1>1. IndInv /\ [Next]_vars
        => [\A s \in Streams, d \in Devices :
              d \in pending_registrations'[s] \ pending_registrations[s]
                => <<s, d>> \notin announced]_vars
  <2> SUFFICES ASSUME IndInv, [Next]_vars, NEW s \in Streams, NEW d \in Devices,
                      d \in pending_registrations'[s] \ pending_registrations[s]
               PROVE  <<s, d>> \notin announced
    OBVIOUS
  <2>1. ASSUME NEW r \in Streams, NEW u \in Ucs, Register_peer(r, u)
        PROVE  <<s, d>> \notin announced
    BY <2>1 DEF IndInv, TypeOK, AnnouncedKnown, Register_peer, Unregistered,
                Send_vehicle_registrations
  <2>2. ASSUME NEW e \in Devices, On_register_vehicle(e) PROVE <<s, d>> \notin announced
    BY <2>2 DEF IndInv, TypeOK, AnnouncedKnown, Known_devices, On_register_vehicle
  <2>3. ASSUME NEW r, NEW e,
               \/ On_incoming_connection(r) \/ On_ucs_message(r, e) \/ Device_responds(r, e)
               \/ Request_aborted(r, e) \/ On_send_ucs_message(e) \/ On_timer(r, e)
               \/ UNCHANGED vars
        PROVE  FALSE
    BY <2>3 DEF On_incoming_connection, On_ucs_message, Device_responds, Request_aborted,
                On_send_ucs_message, On_timer, vars
  <2>4. ASSUME NEW r \in Streams, NEW e \in Devices,
               \/ Registration_ok(r, e) \/ Registration_failed(r, e)
               \/ Connection_fails(r) \/ On_unregister_vehicle(e) \/ Process_on_disable
        PROVE  FALSE
    <3>1. pending_registrations \in [Streams -> SUBSET Devices]
      BY DEF IndInv, TypeOK
    <3>2. CASE Registration_ok(r, e) \/ Registration_failed(r, e)
      BY <3>1, <3>2 DEF Registration_ok, Registration_failed
    <3>3. CASE Connection_fails(r)
      BY <3>1, <3>3 DEF Connection_fails, Close_ucs_stream
    <3>4. CASE On_unregister_vehicle(e)
      BY <3>1, <3>4 DEF On_unregister_vehicle
    <3>5. CASE Process_on_disable
      BY <3>5 DEF Process_on_disable
    <3> QED BY <2>4, <3>2, <3>3, <3>4, <3>5
  <2>5. ASSUME NEW r \in Streams, ServerStep(r) PROVE <<s, d>> \notin announced
    BY <2>1, <2>3, <2>4, <2>5 DEF ServerStep
  <2>6. ASSUME NEW e \in Devices, DeviceStep(e) PROVE <<s, d>> \notin announced
    BY <2>2, <2>3, <2>4, <2>6 DEF DeviceStep
  <2> QED
    BY <2>3, <2>4, <2>5, <2>6 DEF Next
<1> QED
  BY Invariance, <1>1, PTL DEF Spec, AnnouncedOnce
=============================================================================
