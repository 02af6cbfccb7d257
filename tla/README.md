# A TLA+ development of the VSM C++ SDK

The SDK is what vehicle specific modules (VSMs) are written with: programs that
stand between a vehicle and one or more UCS servers. Its core is an asynchronous
runtime. Work is a *request*, a request travels through *containers*, threads
sleep on *waiters*, and every part of the SDK (timers, sockets, files, the
connection with the servers, devices) is a container that other parts submit
requests to. This directory has models of that core, of the processor that
talks to the servers, of timers and timeouts, and proofs about them.

The second half of the repository is the Python under `src/tools`: `mavgen`, which
generates the SDK's MAVLink code and a Wireshark dissector from XML definitions, the
schema validator `minixsv` and the XML layer `genxmlif` it ships with, and `cpplint`,
which every build runs over the sources. They are sequential programs with much state
that lives longer than the step that made it, and are modelled as such.

Paths below are relative to the repository, `src/...` being its source directory.

## 1. Inventory

| Component | State | Operations | Hard behaviour | What makes it correct |
|---|---|---|---|---|
| **Request** `src/request.cpp`, `include/ugcs/vsm/request_container.h` | status, four handlers, completion context, `completion_processed`, `completion_delivered` | setters, `Process`, `Complete`, `Cancel`, `Abort`, `Wait_done` | handlers run and submissions happen without the lock; `Complete`, `Abort`, `Cancel` and disabling race | each handler once; one submission for completion; done handler never lost; abort is final; always gets done |
| **Request_container** `src/request_container.cpp` | queue, `is_enabled`, `disable_ongoing`, `abort_ongoing` | `Submit_request`, `Process_requests`, `Enable`, `Disable`, `Abort_requests`, `Processing_loop` | several threads pop from one queue; submissions while the queue is being aborted | a request is handled by one thread; nothing gets into a disabled container; `Disable` returns |
| **Request_waiter** `src/request_waiter.cpp` | mutex, condition variable | `Locker`, `Notify`, `Wait_and_process` | the predicate releases the mutex while handlers run | no lost wakeup |
| **Request_worker, Request_context** `src/request_worker.cpp`, `src/request_context.cpp` | thread, list of containers | `On_enable`, `On_disable`, `Process_request` | reads a request's status without its lock | chooses the right argument of `Process` |
| **Cucs_processor** `src/cucs_processor.cpp` | connections, primary flags, registered devices and pending registrations per connection, vehicles, telemetry cache | accept, read, `On_ucs_message`, `Close_ucs_stream`, `On_timer`, register / unregister / send of devices, disable | several servers with several connections each, which come, register and break while devices come, answer and go | a connected server has a primary connection and knows every device with its latest telemetry; devices know their connections; requests are answered |
| **Device, Vehicle** `src/device.cpp`, `src/vehicle.cpp` | contexts, command map, properties | `Register`, `Unregister`, `On_ucs_message`, commit of telemetry, `Disable` | disabled while the processor still submits to it; progress and final response by different queues | one final response per request |
| **Timer_processor, Operation_waiter** `src/timer_processor.cpp`, `src/operation_waiter.cpp` | tree of timers, running flag; the operation and its timeout timer | create, fire, re-arm, cancel; timeout, wait, abort | cancel between a handler's return and the re-arming; a timeout racing the completion | every timer request completed; exactly one of timeout and completion |
| **Socket_processor, Piped_request_waiter** `src/socket_processor.cpp`, `src/piped_request_waiter.cpp` | streams with queues of reads, writes, accepts; the notification pipe | connect, listen, accept, read, write, close, cancel | `select` loop with requests, closing with operations pending | every operation completes once, in order; no lost notification |
| **Transport_detector** `src/transport_detector.cpp` | detectors, ports and their states | add detector, activate, timer, open, detection timeout | a detector that times out while the connection is being made | a port is offered to each detector, and released |
| **Service_discovery_processor** `src/service_discovery_processor.cpp` | services, seekers, sockets | advertise, search, notify, timers | multicast is lossy and unordered | a service found is reported once |
| **File_processor, Shared_mutex_file** `src/file_processor.cpp`, `src/shared_mutex_file.cpp` | a worker and a queue per stream | open, read, write, lock, close | closing with operations pending; locking between processes | every operation completes |
| **Mavlink decoder and demuxer, Text_stream_filter, Io_buffer** | decoder state, buffers | decode, demux, match, slice | frames split anywhere; lines matched with a timeout | the frames found do not depend on how the bytes are split |
| **cpplint** `tools/cpplint.py` | cleansed lines, stack of blocks and of `#if`s, include sections, function length, suppressions, filters, options, error counts | one pass per file over its lines; configuration files; errors; exit code | state kept from line to line is saved and restored by `#if`/`#else`/`#endif`; state kept from file to file is global | its view of blocks and of code is the compiler's; filters and suppressions of a file come from that file, its directories and the command line |
| **mavgen** `tools/mavgen/mavgen.py` | files, enumerations, messages; the generated dissector: offset, header length, bytes to keep | validate, parse, merge, generate for C++, Lua, Python; dissect | one layout computed in four ways; enumerations from several files; frames cut anywhere | the languages agree with the wire; every frame is shown once |
| **minixsv** `tools/mavgen/lib/minixsv` | lookup tables, errors, IDs, keys, pending references | load schemas, check elements, particles, attributes, types, keys | trees that change while they are walked, loaded twice; greedy matching without undo; errors that do not stop it | accepts the valid documents and no others (it does not: section 4) |
| **genxmlif** `tools/mavgen/lib/genxmlif` | trees, caches of children | get, insert, remove, move children | a cache of an element that is changed through another | a cache never lies |
| **Properties, Subsystem, logging, platform code, geometry** | configuration and system calls | parse, print, system calls | none that several steps are needed for | |

How they interact: every arrow is `Submit_request` to a container, and the answer
is a second submission, to the completion context of the request. `Cucs_processor`
runs everything in one thread of a worker that serves both its completion context
and its processor container; devices register, send telemetry and answer requests
by submitting to it, and it submits requests of a server to the context of the
device. Timers and sockets call back the same way. The only shared state is that
of a request (its mutex) and of a container (the mutex of its waiter).

In the tools every arrow is a call. `mavgen` has `minixsv` validate each definition
file against a schema before it parses any; `minixsv` reads schema files and documents
as trees of `genxmlif` and rearranges these. What `mavgen` writes is compiled into the
SDK, imported by Python programs, or run by Wireshark. `cpplint` is on its own.

The hazards, each at its line, are listed in `PROJECT.json`.

## 2. Plan

1. *Done.* `RequestLifecycle`, `Request`, `RequestProofs`: everything else rests on requests.
2. *Done.* `RequestContainer`, `RequestContainerProofs`: queue, mutex, condition variable
   and threads.
3. *Done.* `Cucs`, `CucsProofs`: the connections, servers and devices.
4. *Done.* `TimerLifecycle`, `Timer`, `OperationWaiter`, `TimerProofs`,
   `OperationWaiterProofs`: timers and the timeouts of operations.
5. *Done.* `CpplintText`, `CpplintNesting`, `Cpplint`, `CpplintProofs` (with `FoldTheorems`): the
   linter as a program over files.
6. *Done.* `XsSchema`, `XsValidator`, `XsReference`, `MavgenDefs`, `Dissector`, `Mavgen`:
   from definition files to generated code, with the validator on the way.
7. `Device`: `Device` and `Vehicle` with their contexts, composed with the part of
   `Cucs` that submits to them. `Disable` racing with submissions; one final response.
8. `Sockets`: `Socket_processor` with `Piped_request_waiter`: streams, their queues,
   closing and cancelling; an abstract specification of an asynchronous stream
   (operations complete in order, once) that it implements.
9. `TransportDetector`: ports, detectors, the detection timeout, activation by `Cucs`.
10. `Streams`: framing of UCS messages (varint, integer widths), the Mavlink decoder,
   `Text_stream_filter`, `Io_buffer`: operators against reference definitions, over all
   ways to split a bounded input; one run.
11. `ServiceDiscovery`, `FileProcessor`.
12. Proofs: *done* for `MavgenDefs` and `Dissector` (`MavgenProofs`); left are the invariants of
    `Device` and `Sockets`. `minixsv` stays with TLC (section 5).

## 3. The modules

### RequestLifecycle and Request

`RequestLifecycle` is what a user may rely on: created, processing, finished,
delivering, delivered, or aborted at any point before the completion callback
starts. `Request` is the code.

* `req[r]` has the members of `Request` with their names. A handler is a Boolean
  (set or moved out); the done handler also remembers that it was called.
* A request is in up to three queues in its life: the one its user chose, its
  completion context by `Complete()`, and its completion context by `Abort()`.
  `entry[r][o]` is where the entry of each of these *origins* is, `dest[r][o]` the
  container. A thread in the middle of an operation is the location of the entry it
  holds (`"popped"`, `"process"`, `"delivering"`, `"drain"`...), so the number of
  threads is not bounded. `owned` are the requests whose processor has yet to call
  `Complete()`.
* One action is one critical section. `Complete` and `Abort` unlock before they
  submit, so `Submit_to_completion` is a step of its own; `Process_request` of a
  worker reads the status without the lock, so it is separate from `Process(true)`
  (`ProcessWork`), `Process(false)` (`ProcessNotification`) and either of an aborted
  request (`ProcessAborted`). `CompletionReturns` is the second critical section of
  `Process(false)`.
* `phase[c]` is where a container is: `Enable`, `Disable` (which here is
  `Set_disabled`), `Abort_requests` with its rounds (`AbortTaken`, `AbortResumes`,
  `AbortRoundEnds`). `Kind[c]` is the container's type.
* Every exception of the code and every assertion is an element of `faults`, which
  only grows; the code goes on as a release build does.

Left out: names and arguments of handlers, `Set_waiter`, the order in a queue (next
module), enabling a container a second time (no container of the SDK is).

### RequestContainer

The same containers seen from the threads. `request_queue`, `is_enabled` and
`abort_ongoing` are the members; `mutex` is the mutex of the shared waiter, a
variable because a consumer holds it from one container to the next and into
`cond_var.wait`. Consumers are the threads in `Wait_and_process`: the
`Processing_loop` of a worker, or a `Wait_done()` caller that drains the completion
context of its request. Their steps are those of the predicate: `Lock`,
`Process_requests` (pop, unlock), `Process_request`, `Relock`, `NextContainer`,
`RoundEnds`, `Decide`, `Sleep`; `SpuriousWakeup` is always possible. `Notify` wakes
every sleeper and takes the mutex. A consumer handles what it has popped in the steps
`Process_request` (which argument `Process()` gets), `Process` or `Process_notification`,
`Deliver`, `Complete_now` and `Complete_submits`; `Complete()` may also come later from the
request's user (`Complete_later`).

`Abort` is the critical section of `Request::Abort()`, `Abort_submits` its submission to the
completion context. Both are done by users (`Aborters`, `Abort_request`) at any time, and by
`Abort_requests()` (`Abort_taken`). `Set_disabled`, `Join`, `Abort_requests`,
`Abort_taken`, `Drain`, `Abort_round` and `Disable_ends` are `Disable`; any number of
containers may be in it at once.

Requests are reduced to `processed`, `done`, `aborted` and `finalized`, their
details being in `Request`. A user aborts a given request once. Left out: timeouts of
`Wait_and_process`, and `requests_limit`, which every caller leaves 0.

### Cucs

`Cucs_processor` has one thread, so one action is one handler; what interleaves are
its inputs. `ucs_connections`, `ucs_id`, `primary`, `registered_devices`,
`pending_registrations`, `vehicles`, `telemetry_cache` are the members of the
processor and of `Server_context`. `broken` are the connections whose stream
`On_timer` has closed while a read is pending, `completed` those among them whose
read had completed before (its handler still runs). The servers are external:
`announced`, `refused`, `seen`, `waiting` are what they were sent, refused, saw last
and wait for; `server_devices` are the devices a server has on a connection, from the moment it
answers a registration with STATUS_OK until it gets an `Unregister_device` or the
connection is closed. An `Unregister_device` for a device whose registration is pending
is not sent, since the device is not in `registered_devices` yet; these are in `dropped`. `at_device` are the requests a device has yet to answer, `ucs_info`
what `Handle_ucs_info` told it.

* `On_incoming_connection`, `Register_peer`, `Registration_ok`,
  `Registration_failed`, `On_ucs_message`: messages of a server. A new connection
  takes over as primary unless the primary one is local and the new one is not
  (`NewPrimaries`).
* `Connection_fails` is every path to `Close_ucs_stream`; `Successors` are the
  connections that become primary. Connections are kept in a map by stream id, and
  which one is found first is left open.
* `On_register_vehicle`, `On_unregister_vehicle`, `On_send_ucs_message`,
  `Device_responds`, `Request_aborted`: what devices do. `Process_on_disable` ends it,
with vehicles still there or not (the code asserts that there are none).

Left out: the reader of the length prefix, and progress reports with the branch of
`On_send_ucs_message` for a given stream id, which change no state here; the contents of messages. Telemetry is a counter per device.

### TimerLifecycle, Timer and OperationWaiter

`TimerLifecycle` is what a user of `Timer_processor` may rely on: an armed timer is
called or stopped, and a stopped one is never called. `Timer` is the code.

* The processor's tree maps a tick to one timer; `attached_timers` of that timer are
  the others of the same tick. When it is canceled one of them takes its place
  (`Get_attached`). `is_running` and `fire_time` are the members of `Timer`, `request[t]` is how far
  the timer's last request has got. The clock is `now`; a millisecond has `Millisecond` units
  of it. `Get_ticks` truncates to milliseconds, so timers with different times may share
  a tick; the delay until the first timer is truncated too, so it may fire less than one
  millisecond before its time (`Expired`), and one attached to it less than two (`NotEarly`).
* `loc` and `cur` are where the processor's thread is: `Process_request`,
  `Timer_process_handler` (which looks at `Is_running()`), `Place_timer` (which fires
  the timer or inserts it, though it may be canceled by then), `On_wait_and_process`.
* `handler[t]` is where `Timer_handler` is. It runs in a thread of the user's
  container and re-arms the timer in several steps, `Check_running`, `Rearm`,
  `Create_request`, `Submit_request`, between which the timer may be canceled.
* `Cancel_timer` looks for the timer at its `fire_time`, which `Rearm` writes without
  a lock: while it does, any tick may be read (`Read_ticks`).
* One action is one critical section of `tree_lock`, of the timer's mutex or of the
  request's. `On_disable`, `Join`, `Cancel_first` and `Abort_requests` are `Disable`.

`OperationWaiter` extends `Timer` with `Operation_waiter::Timeout`: an operation (its
status and done handler), the steps of `Timeout()` (create the timer, set the done
handler), `Timeout_cbk` (reset the done handler, cancel the operation) and
`Request_done_cbk`, which cancels the timer. All other steps of `Timer` go on meanwhile.

Left out: containers of handlers that are disabled, and calling `Timeout()` twice.

### CpplintText, CpplintNesting and Cpplint

A line is a record of what cpplint's regular expressions find in it: its tokens that
open, close or introduce blocks, comments and raw strings, a directive, the header it
includes, its NOLINT comments, its width. What a line looks like otherwise is left out.

* `CpplintText` is `CleansedLines`: `CleanseRawStrings`, `RemoveMultiLineComments`,
  `CleanseComments`, and a lexer of one pass, `Lex`, to compare them with.
* `CpplintNesting` is `NestingState`: `Update` consumes the tokens of a line, with class and
  namespace heads, access labels, assembler blocks; `UpdatePreprocessor` saves the stack of
  blocks at `#if` and restores it at `#else`, `#elif` and `#endif`.
* `Cpplint` is the program: `ProcessFile` (or `SkipFile`) with `ProcessConfigOverrides`,
  `ProcessLine` for every line, `FinishFile`, `Exit`. `lint` is `_cpplint_state`, `opts`
  the global options, `nolint` the suppressions, `includes`, `function`, `nesting` the
  states with these names. `conds`, `taken`, `seen`, `dups` and `tangled` are history for the
  properties. Every message goes through `Report` with its filters and counts.

Left out: checks of one line that keep no state (spacing, casts, style of operators).

### XsSchema, XsValidator and XsReference

* `XsSchema` has the trees of `genxmlif` with the children of each root and its cache of
  them, the error handler, and the expansion of `include`, `redefine` and `import`.
  A raised exception is `abort`. `validateXmlSchema` expands the tree that the validation of
  the document then expands, and enters into tables, a second time: so it is in the code.
* `XsValidator` has one operator per method of `XsValBase`, under its name. They take the
  validation state `v` (errors, values set by default, IDs, keys, references) and the place
  in the list of children, and return both, or a `TagException`. Values have the types of a
  constant, `BuiltinTypes`, which maps what is written to the value it stands for.
* `XsReference` says what XML Schema calls a valid document. It uses nothing of the validation, only
  the lookup tables: types and their derivation (`DerivedFrom`), the value a text
  stands for (`Denotes`), attribute uses and wildcards (`Uses`, `Wildcards`), content
  models (`Ends` is the set of places where a particle may end, for all ways to match it), and keys,
  over all elements and the types they get (`TypedValues`, `Tuples`, `Referable`). `Overlooked` and
  `Refusable` are the kinds of documents for which `minixsv` decides otherwise (section 4).

Left out: the rules for a schema file itself (`xsvalSchema.py`), facets and lexical forms,
lists and unions, white space, XInclude.

### MavgenDefs, Dissector and Mavgen

* `MavgenDefs`: parsing (`MlEnum`, `MlMessage`, `MlType`, `SortFields`, merging) and the
  generators. Generated text is modelled by the declarations it makes, in the order that
  matters: where a later one replaces an earlier one (Lua tables, Python classes) the order
  of the dictionaries is a parameter.
* `Dissector`: the Lua text at the end of `GenerateLuaOutput`. `turn` is one turn of its outer
  loop; `kept` is what Wireshark keeps of the buffer for the next call. `CaptureSegment` and
  `DissectBuffer` are the dissector at work on a stream that arrives in segments, and
  `StreamTiled` says what it has shown and kept of it between two calls.
* `Mavgen`: the program. `Main`, then `ReadSchema` and `ValidateFile` for each file, `ParseInput`
  for each file, `GenerateOutput` for any order of the dictionaries (which Python 2 leaves
  open), and for Lua `Capture` and `Dissect`, the steps of `Dissector` with the generated table.

Left out: the arithmetic of the checksum (`x25crc`; the model has the sequence of what is
summed), comments, file system errors. Two simplifications concern definition files that do not
occur: names are told apart by case, although generated names are lower-cased (`mavgen.py:476`), and a
message has at most one `<extensions/>`, as its schema demands. A frame with an unknown id gets a header in the
dissector's tree, which is not counted as a frame shown.

## 4. Runs

| Run | Checks | Shows |
|---|---|---|
| `request` | `TypeOK`, `NoInvalidCall`, `SubmittedOnce`, `DoneHandlerCalled`, `DestructorAssertions`, `AbortIsFinal`, `ImplementsLifecycle`, `QueuedGetsDone`, `AbortGetsFinalized` | passes. However `Complete`, `Cancel`, `Abort` and disabling interleave, a request is handled in sequence, submitted for completion once, ends done, and implements the lifecycle |
| `container` | `TypeOK`, `NoLostWakeup`, `OnePlace`, `OnlyAbortedLeft`, `DisabledForGood` | passes. A sleeper with something to do has a `Notify` coming; two consumers of one queue never handle one request twice; with a user who aborts while the container is disabled, nothing enters it after `Abort_requests()`, and what it has left is fully aborted |
| `container_live` | `SubmittedGetsDone`, `DisableReturns`, `WaitDoneReturns` | passes with fair threads |
| `cucs` | `TypeOK`, `PrimaryExists`, `DevicesKnowConnections`, `DevicesAnnounced`, `TelemetryCurrent`, `DetectorFollowsServers`, `AnnouncedOnce` | passes. A connected server has a primary connection; a server with one connection knows the devices and their latest telemetry, in whichever order servers, devices, answers and failures come; of devices that are gone it keeps only those whose unregistration was dropped |
| `timer` | `OpTypeOK`, `TreeSound`, `FireCompletes`, `NoTimeoutLeft`, `NotEarly`, `ImplementsTimer`, `ArmedGetsCalled` | passes. Whatever is canceled while it is fired, placed, re-armed or replaced, the tree is sound and no timer is forgotten or called two milliseconds early; an operation that ends leaves no timeout behind |
| `cpplint` | `NestingFollowsTaken`, `CleanseAgrees`, `DuplicatesReal`, `FileIsolated` | passes. The stack of blocks is the one of the first branches, however `#if`s are nested and unbalanced; what is cleansed is what a lexer drops; no filter and no suppression leaks from file to file |
| `mavgen` | `LayoutAgrees`, `EnumsAgree`, `StreamDissected`, `ValidationExact`, `SchemaLoaded` | passes. The three languages, computed in different ways, agree with one definition of the wire; the dissector does not depend on segments; `minixsv` agrees with `XsReference` but for the listed exceptions; moving subtrees leaves no stale cache |
| `request_assert` | `AbortAssertion` | violated: the assertion at the end of `Abort()` can fail |
| `request_cancel` | `CancellationFiredOnAbort` | violated: `Abort()` never calls the cancellation handler |
| `cucs_response` | `RequestsAnswered` | violated: the response for an unknown device is dropped |
| `cucs_registration` | `PrimaryHasVehicles` | violated: a connection that takes over as primary lacks devices |
| `timer_cancel` | `CanceledGetsReleased` | violated: the request of a canceled timer may never end |

No run is checked for deadlock: a program whose containers are all
disabled, or whose users ask for nothing more, stops; so does a tool when it is done.

**Findings.** (1) `Abort()` unlocks, then submits and asserts that the status is
still `ABORT_PENDING`; a thread that holds another queue entry of the request may
have finalized the abort in between. (2) `Abort()` sets the status before it tests it
for `PROCESSING`, so the cancellation handler is not called, contrary to
`request_container.h`. (3) `Send_ucs_message` drops every message with a device that
is not registered with the connection, and with it the answer
`STATUS_INVALID_SESSION_ID` that `On_ucs_message` prepares for exactly such devices.
(4) A device that registers while a server has two connections is sent to the
primary one only; when that closes, the other becomes primary without it.
`DevicesAnnounced` and `TelemetryCurrent` are therefore stated for servers with one
connection.
(5) A timer that is canceled after its handler returned true and before
`Create_request` has set the new request keeps that request: `Destroy` had nothing to
abort, `Timer_process_handler` drops the timer without completing or aborting it,
and the request, whose handlers hold the timer, stays in processing. The tutorial
(`doc/pages/tutorials/hello_world_vsm.dox`) cancels timers "to avoid memory leaks".

**What was met while proving.** The assertion in `Abort_requests()` that no new requests are
generated (`request_container.cpp:185`) does not hold, nor is a disabled container always empty. A user's
`Abort()` submits to the completion context of the request, also when that is in
`Abort_requests()`; and a `Request_worker` that is both processor and completion context
(`request_worker.h:46`) gets the requests back that it aborts. `Abort_requests()` then makes another
round, which the assertion forbids, or ends because the request is `ABORTED` by now, and `Disable()` throws
that requests are still present. In the model these are the faults
`"abort_generated"` and `"disable_not_empty"`. What does hold of every routing and every user is
`DisabledForGood`, that nothing enters once `Abort_requests()` is over, and `OnlyAbortedLeft`, that what
is left is in `ABORTED`, so that no handler and no waiting thread depends on it.

**What `DevicesAnnounced` excepts.** A device that is unregistered while its registration is pending at a
server: its `Unregister_device` is dropped by the filter at `cucs_processor.cpp:572`, the
server's STATUS_OK then only erases the pending entry (line 297), and the server keeps the device until the
connection is closed. The property says that this is the only way in which the server's devices and those
of the VSM differ.

**Exceptions in the properties.** A completion context that is disabled while a
processor still works refuses the request with an exception (`"refused"`,
`"submit"`); `QueuedGetsDone`, `AbortGetsFinalized`, `DestructorAssertions` and the
liveness properties of `RequestContainer` except such requests, and so show that
this is the only way to lose one.

The properties of the tools have exceptions too, and each is a behaviour of the code:

* `CleanseAgrees` is for `Regular` texts: a line of a raw string that starts like a comment
  is taken for one. `DuplicatesReal` excepts files in which an `#else` follows a
  conditional nested in its branch: `ResetSection` then empties the wrong list.
  `FileIsolated` is about filters, suppressions of lines and suppressions of a whole file only: line length,
  headers and extensions set by a `CPPLINT.cfg` stay in force for later files
  (`cpplint.py:5832-5841`, `559-564`), and an outer one overrides a nested one.
* `LayoutAgrees` and `StreamDissected` are for definitions with distinct ids (Lua) or names
  (Python): `mavgen` refuses neither, and which is in force depends on the order of a
  dictionary. Two files with one base name define one class twice in C++. The generation of Lua
  fails for a field without description and for an empty array.
* `ValidationExact` excepts what `minixsv` really does otherwise than XML Schema says. TLC finds a
  document for every item below when it is taken off the list.
  Accepted though invalid (`Overlooked`): an `xsi:type` that is simple or not derived from the declared type
  (`xsvalBase.py:598-609`); text in a type with `complexContent` (`_checkMixed` is commented out,
  lines 406-407); any value of an element with `xsi:nil="false"`; `xsi:nil` on an element of the ur-type;
  undeclared elements for a wildcard without `processContents`, which is strict; what is inside of
  an undeclared element; a reference to a key of another element with the same declaration, as keys are
  kept by declaration; a field that has no simple type because it is mixed, of the ur-type or undeclared.
  Refused though valid (`Refusable`): content models for which taking all that fits is wrong (an alternative
  that may be empty hides those after it, a repetition takes what its successor needs); an
  attribute that is prohibited and admitted by a wildcard; a field that is an attribute without
  a type, of restricted simple content, or typed by `xsi:type`; a reference between fields of
  which no type is derived from the other.
* `SchemaLoaded` asks for equal tables of both loads only without `redefine` (which the
  second load undoes, since the first definition of a name wins and that is now the
  original) and without two components of one name.

### Bounds

* `request`: one request, three containers (a processor, a completion context, a
  worker that is both). Requests share nothing but the phases of containers, and each
  container type appears; the safety properties are proved for any number.
* `container`: a worker thread and a `Wait_done()` caller that pop from the worker's one container, the
  smallest system in which two threads do; two requests, since one has to be in the queue
  when another one is submitted to a container that aborts its queue. One is processed
  and completed in the worker, so that what is aborted comes back to it, and a user aborts it at
  any time; the other has no completion context. `container_live` has a worker thread
  that serves two containers, disabled at any time, also together, one request that is processed in one and completed in
  the other, and no user who aborts: what a user aborts is done at once. More
  requests, users and containers are left to the proofs.
* `cucs`: three connections, because a closing primary connection must leave two others for
  the choice to matter, two of them local; two servers, one of an unsupported
  version; one device. `MaxTelemetry` = 1: one update, before, while or after the
  registration is pending. `Asking` restricts which connections make requests, and
  each has at most one per device outstanding: requests do not influence each other.
  A stream id and a session id are used once, as in the code until the counters wrap.
* `timer`: the timer of the timeout and one more, periodic one, which share a tick, so
  each may be attached to the other; `MaxTime` = 5 lets the periodic one be armed
  again, and `Millisecond` = 2 has times between the ticks. Two threads cancel, one of them
  the thread of the done handler. A third timer would only matter for who takes over, which the proofs cover. `MaxTime` also bounds how
  often a handler returns true. `timer_cancel` has one timer and one thread.

* `cpplint`: every file of five lines over a small alphabet of blocks and conditionals, or
  of includes and conditionals; shorter ones over all kinds of lines; three lines of
  up to two comment and raw string marks, and a line of four marks with another behind it, so
  that a raw string may end and another one begin on one line. Three lines are what a raw string
  needs to begin in one, span one and end in one; five are an `#if` with two branches and something in each.
  Inputs of up to four files, with nested, unreadable and excluding configurations.
* `mavgen`: families of inputs, each for one part. Content models of depth two with every
  combination of repetitions, over words of up to three elements, so that each repetition
  can be taken, left and exceeded; attributes of two elements; up to two items and a
  reference for keys; one element for derived types, `xsi:type` and `xsi:nil`; fields of every
  kind of type under a key, a unique constraint and a reference; keys in two elements of one
  declaration; two directives of fifteen around the root of a schema; messages of up to three fields with the extensions
  anywhere; an enumeration in two files; streams of two pieces cut anywhere. Left out are
  schema files that include the root of their own tree, or a file that they redefine
  before: the first load does not count the root as included, and the second leaves a
  redefined type without a base.

### Fairness

* `Cpplint` and `Mavgen` are sequential programs with safety properties only, and of `Cucs` only
  safety properties are checked: servers and devices owe nothing.

* `Request`: weak fairness of the steps of the SDK's threads for each queue entry,
  of `Disable` once called, and of `Complete` for what a processor accepted: that is
  the contract of a processor. Nobody has to submit, cancel, abort, enable or disable.
* `RequestContainer`: strong fairness of each thread, since it competes for a mutex:
  a thread that could get it again and again does. Users need not submit, and nobody
  has to call `Disable`.
* `Timer`, `OperationWaiter`: weak fairness of time, of the processor's thread, of each
  handler thread and each canceling thread, and of `Disable` once called; handlers
  return, but need not return true. The operation need not end, and nobody has to cancel.

## 5. Proofs

All theorems are for any sets of requests, containers, consumers, connections, servers,
devices, timers and canceling threads, from the named assumptions of the modules: kinds of containers
(`KindAssumption`), a null context that is no container, threads, requests and containers
with names of their own (`ThreadAssumption`), requests routed to containers
(`RouteAssumption`) of kinds that take them, users who abort one request each, consumers that are the thread of a container or wait for a request
that has a completion context (`ConsumerAssumption`), `Loopback` and `Compatible`
subsets, `Peer` no device, `NoUcs` no server, `NoTimer` no timer, intervals and
`MaxTime` natural numbers and `Millisecond` a positive one, the timeout's timer and the done handler's thread among the
timers and threads (`TimeoutAssumption`), for `cpplint` command lines and files of which filters,
configuration files and options are finite sequences (`InputAssumption`, `OptionAssumption`).
Finiteness is not needed otherwise.

`RequestProofs` proves `TypeCorrect`, `NeverInvalid`, `OneSubmission`,
`DoneHandlerNotLeft`, `DestructorSafe`, `AbortFinal` and `Refinement`. None of the invariants is
inductive: whether `Process(false)` throws depends on which queue entry the thread
holds, and that on what `Complete` and `Abort` did before. `IndInv` adds, per
request:

* `MembersOK`: the members agree with each other (a delivered request has no
  completion handler; a context without a handler does not exist; ...);
* `RunsOK`, `OwnedOK`: handlers set have not run; the processor owns what is being processed;
* `UserEntryOK`, `CompleteEntryOK`, `AbortEntryOK`: which states of a request are
  possible for each place of each entry. In particular `Complete`'s entry exists only
  with `completion_processed` and `Abort`'s only without, hence `SubmittedOnce`;
* `HandlerReachable`: a completion handler that is still there has an entry that
  leads to it, hence `DestructorAssertions`.

`FrameLemma` says that the invariant of a request depends on that request alone, so
every action is proved for the request it is about, one lemma per action, split
along the action's cases; only moving a whole queue (`TakenLemma`) concerns several.
`AbortFinal` is an action property from the same invariant. `Refinement` is
`ImplementsLifecycle`: every step moves at most one request to another stage of
`RequestLifecycle` (`Progresses`), one lemma per action again; the stage depends on
the members of the request only, and which moves are legal on `IndInv`: it says for each entry
in which stage a thread that holds it can find the request.

`RequestContainerProofs` proves `TypeCorrect`, `WakeupNotLost`, `AtMostOnePlace`,
`StaysDisabled` and `LeftAborted`, for any routing of requests and any users who abort. The inductive
invariant `Inv` has four parts, each inductive relative to those before it:

* `TypeInv`: types, where each kind of thread can be and return to, what a consumer holds, and
  that only what was aborted and has a completion context is submitted by `Abort()` (`AborterOK`, `DisablerOK`);
* `PlaceInv`: a request that is not aborted is in one place and there once, queues, `requests_copy`s,
  consumers and its user being the places. An aborted one may be in several: this is where the
  submission of `Abort()` is allowed for;
* `DisableInv`: the flags of a container against the thread that disables it (`FlagsOK`), and what is
  left in a queue after `Abort_requests()` is finalized (`LeftOK`), which holds because its last look at the
  queue and the reset of `abort_ongoing` are one critical section. `NothingEnters`, and
  with it `StaysDisabled`, follows from the flags: neither `is_enabled` nor `abort_ongoing` is set again;
* `WakeInv`: what a consumer has found while it holds the mutex is still true when it decides
  to sleep (`ScanOK`), and from then on whatever it would wake up for comes with a thread that is
  about to notify (`SleepOK`). `NoLostWakeup` alone is not inductive: it says nothing of the
  time between the predicate and the wait, and nothing of *who* notifies. A user who is about to notify
  may be overtaken by the consumer that pops and processes the request; that the sleepers need
  no longer be told then is `PlaceInv`. `ActsAs` says what a step may do to the other
  consumers, and is shown of every action.

`CucsProofs` proves `TypeCorrect`, `AlwaysPrimary`, `DevicesInformed`,
`NoSecondAnnouncement`, `ServersKnowDevices`, `TelemetryReaches` and `DetectorCorrect`.
`PrimaryExists` is inductive with `TypeOK`, but the proof has to
look at all three ways in which the set of primary connections changes: closing
(`PrimaryClose`), registering (`PrimaryRegisterPeer`), disabling. The
others need `IndInv`, which adds that connections not in the map have no
devices (`ErasedEmpty`) and those not yet made no server (`UnusedUnregistered`), that only devices the processor knows
are pending or registered anywhere (`OnlyKnownDevices`), and that what was announced
is such a device, to a registered server (`AnnouncedKnown`): so neither a new device
nor a newly registered connection finds itself announced already.
What a server with one connection knows (`Knowledge`) needs `UnregisteredEmpty` too, that
nothing is registered or pending on a connection whose server is not known yet: when
`Register_peer` makes it the one connection of a server, everything there is becomes pending
at once; and `PendingDropped`, that a device pending on a connection is a vehicle or had its
unregistration dropped there, so that a late STATUS_OK adds to the server's devices only what
`DevicesAnnounced` allows. The set of connections of a server changes by closing and registering only; the
other steps are proved connection by connection. `DetectorFollowsServers` needs
the types and `UnusedUnregistered`.

`TimerProofs` proves `TypeCorrect`, `SoundTree`, `LegalFire`, `NeverEarly` and
`Refinement`. `TreeSound` alone says too little about the timers outside the tree:
`IndInv` adds, per timer,

* `TreeInv`: one that is in the tree or attached is at its `fire_time`, hence once,
  its handler does not run, the thread does not hold it, and its request is being
  processed or, if the timer is canceled, aborted;
* `AttachedInv`: only timers of the tree have others attached;
* `CurInv`: the timer the thread holds satisfies the same, outside the tree;
* `HandlerInv`: which request a timer has while `Timer_handler` runs, and that a
  completed request is that of a running timer less than two milliseconds from its time.

Two timers at one tick are less than a millisecond apart (`SameTick`), and one that is fired is less than a
millisecond early; hence the two milliseconds of `NeverEarly`, which is as much as can be proved.

So re-arming, which writes `fire_time` and replaces the request without the lock,
only happens to timers outside the tree (`OutOfTree`), and a canceling thread that reads a
wrong tick meanwhile removes nothing. `FireLemma` covers both callers of `Fire`,
`CancelLemma` both callers of `Cancel_timer`. `Refinement` maps each timer to its
stage (`StageOf`): one lemma for steps that move no stage, one for canceling, the rest by cases.

`OperationWaiterProofs` proves `OpTypeCorrect`, `TimeoutNotLeft` and `TimeoutUsesTimers`. The last one
says that operation and timeout do to the timers only what `Timer` allows (`OpSpec => Spec`), so
that all of `TimerProofs` holds here. `OpInv` adds to the invariant of `Timer` that the timeout's timer
is made by `Timeout()` alone and never re-armed (`TimeoutTimerOK`), that the done handler is called only
by an operation that is done (`DoneHandlerOK`), that its thread cancels this timer or finds
it stopped (`CancellationOK`), and that a done handler which was reset was reset by
`Timeout_cbk`, that is by the timer's own handler, which stops the timer (`ResetOK`).

`CpplintProofs` proves `NestingCorrect`, `DuplicatesCorrect` and `FilesIsolated`, for files of any lines. What a line does to the stack
apart from its directive (`UpdateStack`) is left open: the first two are about conditionals.

* `NestingInv`: `pp_stack` has one entry for every open conditional, with `seen_else` exactly in
  those that are past their first branch, and the outermost of those keeps in
  `before_else` the stack to go on with (`Matches`). `NestingFollowsTaken` is not inductive because it says nothing of the time
  inside of `#else`, where `#endif` finds the stack again.
* `DuplicateInv`: every entry of the list of includes stands for an include that is
  compatible with the branches open now, and an entry that `#else` would leave in the list, because it is not in
  the last part, lies outside of the innermost conditional, unless another one was inside
  of that (`ListOK`, `Recorded`). Conditionals are told apart by their lines, and every one but the innermost has
  one inside (`CondsOK`): after `#endif` the enclosing one therefore promises nothing about its entries any more,
  which is where the condition `~tangled` of `DuplicatesReal` comes from.

* `IsolatedInv`: between files the filters in use are those of the command line; while a file is read
  they are in the backup, and in use are these and then those of its configuration files, the
  nearest last; its suppressions, of lines and of the whole file, come from its own lines. `FileIsolated` says this of the file that is
  being read only, and is preserved by the step to the next file just because of the backup. That
  `ProcessConfigOverrides`, which goes from the file upwards, puts every filter of a directory in front
  of what it has and stops at `set noparent` or an exclusion, ends with the filters of
  `ConfigFilters`, which goes downwards, is induction on the files and in each on its options
  (`OptionsLemma`, `OverridesLemma`, `FiltersLemma`).

`FoldTheorems` is what such inductions rest on. `FoldLeft` is a recursive function on sets of indices:
`FoldExists` shows that there is one for a sequence of any length, and the lemma `FoldRuns` that its value
is the last of the results after 0, 1, ... elements, about which `IntervalInduction` proves what a proof
needs. A module instantiates it once for every operator it folds.

`MavgenProofs` proves, for what `mavgen.py` generates:

* `StreamIsTiled`: for every stream of bytes (`Byte8`), every way to cut it into segments and every
  table whose fields have offsets and sizes (`IsTable`), `StreamSpec => []StreamTiled`. The
  invariant `TileInv` holds inside of calls too: the buffer is the part of the stream from some position
  `b` on to what was captured, and the frames of all calls tile the stream up to the place where
  the call is. `TurnLemma` says what one turn does: it passes over junk and then ends the call, passes one byte
  more, or shows a frame. `PayloadLemma` says that a frame complete in the buffer has the bytes
  it has in the stream, `GrowLemma` that frames and junk remain so when more bytes arrive: this is
  where junk with a preamble and an unknown id has to be complete. `header_len` may be left from
  an earlier frame when no preamble is found: the call then asks for one more segment and keeps no byte.
* `PayloadCovered`: the calls of `addle` for a message follow one another from 0 to the length that
  `generate_payload_dissector` computes separately; by induction on the fields. From it
  `TableLemma`, that generated tables satisfy `IsTable`, and `GeneratedStreamIsTiled`. Both are for
  messages with fields of the twelve types (`IsMessage`), as `MlType` makes them.
* `EnumValuesAgree`: the running counts of `GeneratePyEnum` and of the Lua tables give the values that
  the enumerators of C++ have, defined without counting (`CppPairs`); by induction on the entries.

Only model-checked: liveness under fairness (`QueuedGetsDone`, `AbortGetsFinalized`,
`SubmittedGetsDone`, `DisableReturns`, `WaitDoneReturns`,
`ArmedGetsCalled`), which the prover has no rules for; and six properties of the tools. Those of `Mavgen` are about
modules with recursive operators, which the prover cannot read; for `StreamDissected`,
`LayoutAgrees` and `EnumsAgree` the theorems of `MavgenProofs` prove the part that is about the dissector
and the generators, and TLC checks it against the definition files. `ValidationExact` and
`SchemaLoaded` are about the recursion of the validator itself. `CleanseAgrees` compares two passes
over all lines, with a loop over the tokens of each inside of both: the induction has not been attempted.

## 6. Not modelled

Planned in section 2: sockets, detector, devices and vehicles, stream
algorithms, service discovery, files. Not planned: `Properties` and `Property` (sequential parsing
and typed values), platform code (system calls of one operating system), logging, start-up,
geometry (floating point), and of the tools what section 3 leaves out.
