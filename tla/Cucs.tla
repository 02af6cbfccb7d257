-------------------------------- MODULE Cucs --------------------------------
(***************************************************************************)
(* Cucs_processor: the connections with UCS servers and the devices that   *)
(* are registered with them (src/cucs_processor.cpp).                      *)
(*                                                                         *)
(* Everything the processor does runs in the thread of its worker, so one  *)
(* action is one handler: a completed read, a failed write, the timer, a   *)
(* request of a device.  What interleaves are the messages of several      *)
(* servers on several connections, the answers of the devices, connections *)
(* that break, and devices that come and go.  The servers are external.    *)
(* A read completes here with a whole message; the reader of the length    *)
(* prefix is not part of this module.                                      *)
(***************************************************************************)
EXTENDS Naturals, FiniteSets

CONSTANTS Streams,      \* stream ids: the connections that may ever be made
          Ucs,          \* the ids of the servers
          Devices,      \* session ids of the devices
          NoUcs,        \* the ucs_id of a connection that has not registered
          Peer,         \* device id 0: the VSM itself
          Loopback,     \* connections with a loopback address
          Compatible,   \* servers of a supported version
          Asking,       \* bound: connections whose server makes requests
          MaxTelemetry  \* bound: values of the telemetry of a device

ASSUME StreamAssumption == Loopback \subseteq Streams
ASSUME UcsAssumption == NoUcs \notin Ucs /\ Compatible \subseteq Ucs
ASSUME DeviceAssumption == Peer \notin Devices
ASSUME TelemetryAssumption == MaxTelemetry \in Nat

VARIABLES ucs_connections,  \* the streams in the map
          broken,           \* those whose stream On_timer has closed
          completed,        \* broken ones with a read that completed before that
          used,             \* stream ids given out so far
          ucs_id,           \* of each stream; kept after the connection is erased
          primary,          \* the set of primary connections
          registered_devices, pending_registrations,  \* of each stream
          vehicles, retired,  \* devices registered now, and no more
          telemetry_cache,    \* of each device
          ucs_info,           \* the streams each device was last told about
          detector,           \* Transport_detector is active
          enabled,            \* FALSE after Process_on_disable
          announced,          \* what servers were sent: Register_device ...
          refused,            \* ... those they refused ...
          seen,               \* ... and the last telemetry
          server_devices,     \* what the server at the other end has registered
          dropped,            \* Unregister_device not sent as the registration was pending
          waiting,            \* requests a server waits for a response to
          at_device           \* those a device has yet to answer

connection_vars == <<ucs_connections, broken, used, ucs_id, primary>>
device_vars == <<registered_devices, pending_registrations, vehicles, retired,
                 telemetry_cache, ucs_info>>
server_vars == <<announced, refused, seen, server_devices, dropped>>
request_vars == <<waiting, at_device>>
vars == <<connection_vars, completed, device_vars, server_vars, request_vars, detector,
          enabled>>

-----------------------------------------------------------------------------
Telemetry == 0 .. MaxTelemetry

\* Each variable has its type; a primary connection is a registered one.
TypeOK == /\ ucs_connections \subseteq used /\ used \subseteq Streams
          /\ broken \subseteq ucs_connections /\ completed \subseteq broken
          /\ ucs_id \in [Streams -> Ucs \cup {NoUcs}]
          /\ primary \subseteq {s \in ucs_connections : ucs_id[s] # NoUcs}
          /\ registered_devices \in [Streams -> SUBSET Devices]
          /\ pending_registrations \in [Streams -> SUBSET Devices]
          /\ vehicles \subseteq Devices /\ retired \subseteq Devices
          /\ telemetry_cache \in [Devices -> Telemetry]
          /\ ucs_info \in [Devices -> SUBSET Streams]
          /\ announced \subseteq Streams \X Devices /\ refused \subseteq Streams \X Devices
          /\ seen \in [Streams -> [Devices -> Telemetry]]
          /\ server_devices \in [Streams -> SUBSET Devices]
          /\ dropped \subseteq Streams \X Devices
          /\ waiting \subseteq Streams \X (Devices \cup {Peer})
          /\ at_device \subseteq Streams \X Devices
          /\ detector \in BOOLEAN
          /\ enabled \in BOOLEAN

Init == /\ ucs_connections = {} /\ broken = {} /\ completed = {} /\ used = {}
        /\ ucs_id = [s \in Streams |-> NoUcs]
        /\ primary = {}
        /\ registered_devices = [s \in Streams |-> {}]
        /\ pending_registrations = [s \in Streams |-> {}]
        /\ vehicles = {} /\ retired = {}
        /\ telemetry_cache = [d \in Devices |-> 0]
        /\ ucs_info = [d \in Devices |-> {}]
        /\ announced = {} /\ refused = {} /\ dropped = {}
        /\ server_devices = [s \in Streams |-> {}]
        /\ seen = [s \in Streams |-> [d \in Devices |-> 0]]
        /\ waiting = {} /\ at_device = {}
        /\ detector = FALSE
        /\ enabled = TRUE

-----------------------------------------------------------------------------
Known(s) == s \in ucs_connections /\ ucs_id[s] # NoUcs

\* The connections with server u.
ConnectionsOf(u) == {s \in ucs_connections : ucs_id[s] = u}

\* Send_ucs_message sends nothing but Register_peer to an unknown server, and nothing
\* to an incompatible one; s is in the map.
Sendable(s) == ucs_id[s] \in Compatible

\* A message of device d goes only to connections d is registered with.
SendableFor(s, d) == Sendable(s) /\ (d = Peer \/ d \in registered_devices[s])

\* Broadcast_message_to_ucs: the connections it sends to.
Broadcast_message_to_ucs == primary

\* Mutant: the devices are told of the connections before the change.
Notify_device_about_ucs_connections_Before(D, connections, registered) ==
  [d \in Devices |-> IF d \in D \cap vehicles
                     THEN {s \in ucs_connections : d \in registered_devices[s]}
                     ELSE ucs_info[d]]

\* What devices have been told when Notify_device_about_ucs_connections has been called for
\* those of D, with these connections and the devices registered there.
Notify_device_about_ucs_connections(D, connections, registered) ==
  [d \in Devices |-> IF d \in D \cap vehicles
                     THEN {s \in connections : d \in registered[s]}
                     ELSE ucs_info[d]]

-----------------------------------------------------------------------------
(* Closing a connection.                                                   *)

\* Mutant: only a loopback connection takes over.
Successors_Loopback(s) ==
  {(ConnectionsOf(ucs_id[s]) \cap Loopback) \ {s}}

\* Mutant: the connection is erased after the search.
Successors_Self(s) == {{t} : t \in ConnectionsOf(ucs_id[s])}

\* When a primary connection is erased, all other loopback connections with its
\* server become primary; if there is none, whichever is found first does.
Successors(s) ==
  LET others == ConnectionsOf(ucs_id[s]) \ {s}
  IN IF others \cap Loopback # {} THEN {others \cap Loopback}
     ELSE IF others # {} THEN {{t} : t \in others}
     ELSE {{}}

Found(s) == s \in ucs_connections

\* The vehicles' transport detector is switched off with the last connection.
Close_ucs_stream(s) ==
  /\ Found(s)
  /\ ucs_connections' = ucs_connections \ {s}
  /\ broken' = broken \ {s} /\ completed' = completed \ {s}
  /\ \/ s \in primary /\ \E P \in Successors(s) : primary' = (primary \ {s}) \cup P
     \/ s \notin primary /\ UNCHANGED primary
  /\ registered_devices' = [registered_devices EXCEPT ![s] = {}]
  /\ pending_registrations' = [pending_registrations EXCEPT ![s] = {}]
  /\ ucs_info' = Notify_device_about_ucs_connections(registered_devices[s], ucs_connections',
                                                     registered_devices')
  /\ detector' = IF ucs_connections' = {} THEN FALSE ELSE detector

\* A read or a write fails, a message cannot be parsed or is too long, or the peer is
\* not a server.  A server drops the devices of a connection that ends.
Connection_fails(s) ==
  /\ Close_ucs_stream(s)
  /\ waiting' = {w \in waiting : w[1] # s}
  /\ server_devices' = [server_devices EXCEPT ![s] = {}]
  /\ UNCHANGED <<used, ucs_id, vehicles, retired, telemetry_cache, announced, refused, seen,
                 dropped, at_device, enabled>>

\* On_timer closes the streams that have been silent for too long, registered or not;
\* their pending reads fail later, unless they have completed already (queue).
On_timer(expired, queue) ==
  /\ enabled
  /\ expired \subseteq ucs_connections \ broken
  /\ expired # {}
  /\ broken' = broken \cup expired
  /\ queue \subseteq expired
  /\ completed' = completed \cup queue
  /\ UNCHANGED <<ucs_connections, used, ucs_id, primary, device_vars, server_vars,
                 request_vars, detector, enabled>>

\* A read with a message completes: the stream is open, or it was when the read completed.
Reading(s) == /\ s \in ucs_connections \ (broken \ completed)
              /\ completed' = completed \ {s}

-----------------------------------------------------------------------------
(* Messages of a server.                                                   *)

On_incoming_connection(s) ==
  /\ enabled
  /\ s \notin used
  /\ used' = used \cup {s}
  /\ ucs_connections' = ucs_connections \cup {s}
  /\ UNCHANGED <<broken, completed, ucs_id, primary, device_vars, server_vars,
                 request_vars, detector, enabled>>

\* A new connection with a server that is connected already becomes primary instead
\* of the primary one found first, unless that is local and the new one is not.
NewPrimaries(s, u) ==
  LET others == ConnectionsOf(u)
  IN IF others = {} THEN {primary \cup {s}}
     ELSE IF others \cap primary = {} THEN {primary}
     ELSE {IF t \notin Loopback \/ s \in Loopback
           THEN (primary \ {t}) \cup {s} ELSE primary : t \in others \cap primary}

\* Mutant: Register_peer is accepted again.
Unregistered_Again(s) == TRUE

Unregistered(s) == ucs_id[s] = NoUcs

\* All known vehicles are sent to server u, if it is compatible.
Send_vehicle_registrations(s, u) ==
  LET sent == IF u \in Compatible THEN vehicles ELSE {}
  IN /\ pending_registrations' = [pending_registrations EXCEPT ![s] = @ \cup sent]
     /\ announced' = announced \cup ({s} \X sent)

\* Mutant: the detector is activated with the first connection.
Activates_First(u) == Cardinality(ucs_connections) = 1

\* The detector is activated with the first connection of a server.
Activates(u) == ConnectionsOf(u) = {}

\* Register_peer of server u.
Register_peer(s, u) ==
  /\ Reading(s)
  /\ Unregistered(s)
  /\ primary' \in NewPrimaries(s, u)
  /\ ucs_id' = [ucs_id EXCEPT ![s] = u]
  /\ Send_vehicle_registrations(s, u)
  /\ detector' = (detector \/ Activates(u))
  /\ UNCHANGED <<ucs_connections, broken, used, registered_devices, vehicles, retired,
                 telemetry_cache, ucs_info, refused, seen, server_devices, dropped,
                 request_vars, enabled>>

\* Mutant: what was sent while the registration was pending is not sent again.
Send_cached_telemetry_None(s, d) == UNCHANGED seen

Send_cached_telemetry(s, d) == seen' = [seen EXCEPT ![s][d] = telemetry_cache[d]]

\* The server accepts a device: STATUS_OK for a pending registration.  The device is
\* told, and the server is sent the cached telemetry.  When the device is gone by now, the
\* pending entry is erased and the server keeps the device.
Registration_ok(s, d) ==
  /\ Reading(s)
  /\ d \in pending_registrations[s]
  /\ pending_registrations' = [pending_registrations EXCEPT ![s] = @ \ {d}]
  /\ IF d \in vehicles
     THEN /\ registered_devices' = [registered_devices EXCEPT ![s] = @ \cup {d}]
          /\ ucs_info' = Notify_device_about_ucs_connections({d}, ucs_connections,
                                                             registered_devices')
          /\ Send_cached_telemetry(s, d)
     ELSE UNCHANGED <<registered_devices, ucs_info, seen>>
  /\ server_devices' = [server_devices EXCEPT ![s] = @ \cup {d}]
  /\ UNCHANGED <<connection_vars, vehicles, retired, telemetry_cache, announced, refused,
                 dropped, request_vars, detector, enabled>>

\* Any other final code.
Registration_failed(s, d) ==
  /\ Reading(s)
  /\ d \in pending_registrations[s]
  /\ pending_registrations' = [pending_registrations EXCEPT ![s] = @ \ {d}]
  /\ refused' = refused \cup {<<s, d>>}
  /\ UNCHANGED <<connection_vars, registered_devices, vehicles, retired, telemetry_cache,
                 ucs_info, announced, seen, server_devices, dropped, request_vars, detector,
                 enabled>>

\* On_ucs_message: a request of the server that requires a response.  A known device
\* answers later; for an unknown one, and for the VSM itself, the response is sent
\* at once, if Send_ucs_message lets it through.  Bound: one request at a time per
\* connection and device.
On_ucs_message(s, d) ==
  /\ Reading(s) /\ Known(s)
  /\ s \in Asking /\ <<s, d>> \notin waiting
  /\ IF d \in vehicles
     THEN /\ waiting' = waiting \cup {<<s, d>>}
          /\ at_device' = at_device \cup {<<s, d>>}
     ELSE /\ waiting' = IF SendableFor(s, d) THEN waiting ELSE waiting \cup {<<s, d>>}
          /\ UNCHANGED at_device
  /\ UNCHANGED <<connection_vars, device_vars, server_vars, detector, enabled>>

\* The completion handler of the request: Send_ucs_message_ptr.
Device_responds(s, d) ==
  /\ enabled
  /\ <<s, d>> \in at_device
  /\ at_device' = at_device \ {<<s, d>>}
  /\ waiting' = IF s \in ucs_connections /\ SendableFor(s, d)
                THEN waiting \ {<<s, d>>} ELSE waiting
  /\ UNCHANGED <<connection_vars, completed, device_vars, server_vars, detector, enabled>>

\* A device that is disabled aborts the request instead: the handler is not called.
Request_aborted(s, d) ==
  /\ <<s, d>> \in at_device
  /\ at_device' = at_device \ {<<s, d>>}
  /\ UNCHANGED <<connection_vars, completed, device_vars, server_vars, waiting, detector,
                 enabled>>

-----------------------------------------------------------------------------
(* Requests of devices.                                                    *)

On_register_vehicle(d) ==
  /\ enabled
  /\ d \notin vehicles \cup retired
  /\ vehicles' = vehicles \cup {d}
  /\ LET receivers == {s \in Broadcast_message_to_ucs : Sendable(s)}
     IN /\ pending_registrations' = [s \in Streams |->
              pending_registrations[s] \cup IF s \in receivers THEN {d} ELSE {}]
        /\ announced' = announced \cup (receivers \X {d})
  /\ UNCHANGED <<connection_vars, completed, registered_devices, retired, telemetry_cache,
                 ucs_info, refused, seen, server_devices, dropped, request_vars, detector,
                 enabled>>

\* Mutant: a device is forgotten by the connection, and the server is not told.
On_unregister_vehicle_Silent(d) ==
  /\ d \in vehicles
  /\ vehicles' = vehicles \ {d}
  /\ retired' = retired \cup {d}
  /\ registered_devices' = [s \in Streams |-> registered_devices[s] \ {d}]
  /\ dropped' = dropped \cup ({s \in Streams : d \in pending_registrations[s]} \X {d})
  /\ UNCHANGED <<connection_vars, completed, pending_registrations, telemetry_cache, ucs_info,
                 announced, refused, seen, server_devices, request_vars, detector, enabled>>

\* The device is forgotten; connections it is registered with are sent Unregister_device.
\* Where its registration is pending that message is dropped, and nothing is sent later.
On_unregister_vehicle(d) ==
  /\ d \in vehicles
  /\ vehicles' = vehicles \ {d}
  /\ retired' = retired \cup {d}
  /\ LET receivers == {s \in Broadcast_message_to_ucs : SendableFor(s, d)}
         Without(f) == [s \in Streams |-> IF s \in receivers THEN f[s] \ {d} ELSE f[s]]
     IN /\ registered_devices' = Without(registered_devices)
        /\ pending_registrations' = Without(pending_registrations)
        /\ server_devices' = Without(server_devices)
        /\ dropped' = dropped \cup
             ({s \in Streams \ receivers : d \in pending_registrations[s]} \X {d})
  /\ UNCHANGED <<connection_vars, completed, telemetry_cache, ucs_info, announced, refused,
                 seen, request_vars, detector, enabled>>

\* A device sends telemetry: it is cached, and sent where the device is registered.  A
\* device that was unregistered meanwhile is ignored.
On_send_ucs_message(d) ==
  /\ d \in vehicles
  /\ telemetry_cache[d] < MaxTelemetry
  /\ telemetry_cache' = [telemetry_cache EXCEPT ![d] = @ + 1]
  /\ seen' = [s \in Streams |->
                IF s \in Broadcast_message_to_ucs /\ SendableFor(s, d)
                THEN [seen[s] EXCEPT ![d] = telemetry_cache[d] + 1] ELSE seen[s]]
  /\ UNCHANGED <<connection_vars, completed, registered_devices, pending_registrations,
                 vehicles, retired, ucs_info, announced, refused, server_devices, dropped,
                 request_vars, detector, enabled>>

\* The processor is disabled.  A debug build aborts when there are vehicles left.
Process_on_disable ==
  /\ enabled
  /\ enabled' = FALSE
  /\ vehicles' = {} /\ retired' = retired \cup vehicles
  /\ ucs_connections' = {} /\ broken' = {} /\ completed' = {} /\ primary' = {}
  /\ registered_devices' = [s \in Streams |-> {}]
  /\ pending_registrations' = [s \in Streams |-> {}]
  /\ server_devices' = [s \in Streams |-> {}]
  /\ waiting' = {} /\ at_device' = {}
  /\ UNCHANGED <<used, ucs_id, telemetry_cache, ucs_info, announced, refused, seen, dropped,
                 detector>>

-----------------------------------------------------------------------------
ServerStep(s) ==
  \/ On_incoming_connection(s)
  \/ \E u \in Ucs : Register_peer(s, u)
  \/ \E d \in Devices : Registration_ok(s, d) \/ Registration_failed(s, d)
  \/ \E d \in Devices \cup {Peer} : On_ucs_message(s, d)

DeviceStep(d) ==
  \/ On_register_vehicle(d) \/ On_unregister_vehicle(d) \/ On_send_ucs_message(d)
  \/ \E s \in Streams : Device_responds(s, d) \/ Request_aborted(s, d)

Next == \/ \E s \in Streams : ServerStep(s) \/ Connection_fails(s)
        \/ \E d \in Devices : DeviceStep(d)
        \/ \E expired \in SUBSET Streams : \E queue \in SUBSET expired : On_timer(expired, queue)
        \/ Process_on_disable

Spec == Init /\ [][Next]_vars

-----------------------------------------------------------------------------
(* Properties.                                                             *)

\* A server that is connected always has a primary connection, however its connections
\* come, register and break: broadcasts reach it.
PrimaryExists ==
  \A s \in ucs_connections :
     ucs_id[s] # NoUcs => \E t \in primary : ucs_id[t] = ucs_id[s]

\* What a device was last told by Handle_ucs_info is the set of connections it is
\* registered with.
DevicesKnowConnections ==
  \A d \in vehicles :
     ucs_info[d] = {s \in ucs_connections : d \in registered_devices[s]}

\* s is the only connection its server has ever made.
Sole(s) == /\ Known(s) /\ ucs_id[s] \in Compatible
           /\ \A t \in Streams \ {s} : ucs_id[t] # ucs_id[s]

\* A server with one connection knows every device: each vehicle is registered, being
\* registered or refused there, in whichever order server and vehicle have appeared.  Of
\* the vehicles the server has just those the VSM takes for registered, and of devices that
\* are gone only those that were unregistered while their registration was pending: their
\* Unregister_device was dropped, and nothing is sent later.
DevicesAnnounced ==
  \A s \in Streams : Sole(s) =>
     /\ \A d \in vehicles : \/ d \in registered_devices[s] \cup pending_registrations[s]
                            \/ <<s, d>> \in refused
     /\ registered_devices[s] = server_devices[s] \cap vehicles
     /\ \A d \in server_devices[s] \ vehicles : <<s, d>> \in dropped

\* A server with one connection has the latest telemetry of every device registered
\* there, although what is sent while a registration is pending is not sent to it.
TelemetryCurrent ==
  \A s \in Streams : Sole(s) =>
     \A d \in registered_devices[s] : seen[s][d] = telemetry_cache[d]

\* A device is sent to a connection at most once.
AnnouncedOnce ==
  [][\A s \in Streams, d \in Devices :
       d \in pending_registrations'[s] \ pending_registrations[s]
         => <<s, d>> \notin announced]_vars

\* The transport detector of the vehicles is on while a server is connected, and off
\* when there is no connection at all (ucs.transport_detector_on_when_diconnected
\* is not set).
DetectorFollowsServers ==
  enabled => /\ (\E s \in ucs_connections : ucs_id[s] # NoUcs) => detector
             /\ ucs_connections = {} => ~detector

\* "ucs will wait for response on this message", and "Message not passed to vehicle.
\* Send response.": On_ucs_message leaves no request of a compatible server without an
\* answer, other than those a device is to answer.
RequestsAnswered ==
  [][\A s \in Streams, d \in Devices \cup {Peer} :
       On_ucs_message(s, d) /\ ucs_id[s] \in Compatible /\ <<s, d>> \in waiting'
         => <<s, d>> \in at_device']_vars

\* "VSM will use this as primary connection": every vehicle is registered, being
\* registered or refused there, for else nothing of it is sent to the server.
PrimaryHasVehicles ==
  \A s \in primary : \A d \in vehicles :
     ucs_id[s] \in Compatible =>
       d \in registered_devices[s] \cup pending_registrations[s] \/ <<s, d>> \in refused

=============================================================================
