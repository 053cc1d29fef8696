# TLA+ models of the uCentral gateway RTTY tunnel and RADSEC proxy

This directory holds TLA+ models of the concurrent parts of `src/`. It also holds
the TLC configurations that check those models. Each model is translated from the
C++ source. `PROJECT.json` records the details:

- the source lines behind every definition (`map`);
- every run and what it expects;
- the mutants that show each property can fail;
- the findings and the hazards.

## The system

The code in `src/` has three concurrent parts.

1. **The RTTY tunnel.** This relays a remote terminal session between a device
   and a browser client.
   - `src/src/rttys/RTTYS_server.cpp` (`RTTYS_server`) owns three things:
     - the session table `EndPoints_` (id → `RTTYS_EndPoint`);
     - the notification queue `ResponseQueue_`;
     - the set of devices whose registration has not been matched yet
       (`ConnectingDevices_`), plus the lists of failed devices and clients.
   - Four threads act on this state:
     - A REST call creates a session (`CreateEndPoint`).
     - The **reactor** thread runs `onAccept` for each new device socket, and the
       read and close callbacks of every device.
     - The **notification processor** `run()` takes the notifications off the
       queue under `LocalMutex_`: device connection, device registration, client
       registration, and device or client disconnection.
     - The **reaper** `onTimer` runs every few seconds. It closes and erases stale
       endpoints and empties the failed lists.
   - Each device connection (`src/src/rttys/RTTYS_device.cpp`) does three things:
     - It starts a detached thread that runs `CompleteConnection` (the TLS
       handshake and handler registration). The processor calls the same function
       again when it sees the `device_connection` notification.
     - It parses the rtty frame stream in `onSocketReadable`. A frame is a 1-byte
       type, a 2-byte big-endian length and the payload. Register, login,
       termdata and heartbeat frames have handlers; the other types are no-ops.
     - It ends with `EndConnection`, which sends a `device_disconnection`
       notification.
   - Connections and endpoints are kept alive by `shared_ptr`s. These are held
     by queued notifications, `ConnectingDevices_`, the failed lists and the
     endpoints, so an object dies when the last of them lets go.
   - `RTTYS_EndPoint` and `RTTYS_ClientConnection` are not in `src/`. Their
     methods used by `run()` are modelled from the spec (`spec_modelled` in the
     map):
     - `Join`, `Login`, `SetDevice`, `SetClient`;
     - `ValidDevice`, `ValidClient`, `TooOld`;
     - `DisconnectDevice`, `DisconnectClient`.
2. **The RADSEC proxy** (`src/src/RADSEC_server.h`, and an older
   `src/src/RADSECserver.h`). This is a TLS client to a RADIUS server. It has a
   reconnect/keepalive thread, reactor callbacks for data, error and shutdown,
   and `Connect`/`Disconnect` sharing a `Connected_` flag.
3. **Sequential glue.** REST handlers, configuration, the telemetry
   declarations and the RTTY web server's page serving. None of these is
   modelled (see below).

## Modules

| Module | Models | State | Actions |
|---|---|---|---|
| `DeviceCodec` | `RTTYS_device.cpp` `onSocketReadable` and the `do_msgType*` handlers | `inBuf` (bytes received, not consumed), `waiting` (`waiting_for_bytes_`), `lastCmd` (`last_command_`), `open`, and what the handlers produced: `fwd` (bytes sent to the client), `disp` (headers parsed), `regs`, `logins`; on the outbound side `sid` (`sid_`), `out` (frames written to the device) and `calls` | `onSocketReadable` (a read of 1..`MaxChunk` bytes followed by the whole parse loop), `onPeerClosed` (a 0-byte read), `onSocketShutdown`, `KeyStrokes`, `WindowSize`, `Login`, `Logout` |
| `RTTYServer` | `RTTYS_server.cpp` (`CreateEndPoint`, `onAccept`, `CreateNewClient`, `run`, `onTimer`) and the device connection's lifecycle | `endpoints`, `queue` (`ResponseQueue_`), `connecting` (`ConnectingDevices_`), `failedDevices`, `failedClients`, and per-device and per-client state | one action per operation and per branch of `run()`; `ConstructorThread` for the detached `CompleteConnection`; `Age` for the passing of an endpoint's staleness time |
| `RTTYLocks` | the locks of the tunnel: `LocalMutex_` (`RTTYS_server.cpp`) and each device's `M_` (`RTTYS_device.cpp`) | `local` (holder of `LocalMutex_`), `m` (holder of each `M_`), `phase` of each device, `queue`, `pending`, the endpoint (`ep`, `epDev`), `failed`, and one program counter per thread: `rpc` (device reactor), `proc` (processor), `jan` (reaper), `cpc` (a client's `SendKeyStrokes`/`WindowSize`) | `onAccept`, `Dispatch`/`ReadLock`/`ReadFrames`/`SendToClient`/`EndInCallback`/`ReadClose` (the reactor's dispatch of `onSocketReadable`), `CtorComplete` (the constructor's thread), `DestructorLock`/`DestructorEnd` (the device destructor, used by every destroying step), `ProcDequeue`/`ProcLock`/`ProcHandshake`/`ProcDestroy`/`ProcRelease`/`ProcNext` (`run()`), `JanitorSweep`/`JanitorDestroy`/`JanitorRelease` (`onTimer`), `ClientLock`/`ClientSend` (`SendKeyStrokes`, `WindowSize`), `Age` |
| `RTTYSession` | the endpoint state machine of spec section 4.2 (the `RTTYS_EndPoint` source is not in `src/`) | `session` (free, waiting, joined, reaped per id) and `handshakes` | `Create`, `Join`, `Reap` |
| `RADSECProxy` | `src/src/RADSEC_server.h`: `run()` (reconnect and keep-alive), `Connect`, `Disconnect` from `onData`/`onError`/`onShutdown`, `Stop` | `connected` (`Connected_`), `tryAgain` (`TryAgain_`), `sock`, `handlers`, `link` (the network), `rt` (reconnect thread), `rx` (reactor inside `Disconnect`), `st` (the thread in `Stop`), `certs` | `Wake`, `RunConnect`, `Connect`, `RunKeepAlive`, `KeepAliveSend`, `ReactorDisconnect`/`ReactorTeardown`, `StopBegin`/`StopCheck`/`StopLock`/`StopTeardown`/`StopJoin`, and the environment's `Break` |

`MC_DeviceCodec`, `MC_RTTYServer` and `MC_RTTYLocks` instantiate these modules
with small constants. `RADSECProxy` has only numeric constants, which its
configs set directly.

### How the lock model follows the code

`RTTYLocks` keeps the shared-state logic of `RTTYServer` only as far as it
decides which thread drops a device's last `shared_ptr`. That thread runs the
destructor, and the destructor takes `M_`.

- Holding and waiting are state. A thread at a step whose guard names a lock
  that another thread holds is blocked.
- The reactor first dispatches a readable notification to the device
  (`Dispatch`). Poco's observer holds its own mutex during the callback, and
  `removeEventHandler` waits for that mutex, so a callback in flight keeps
  `EndConnection` waiting (`InCallback`).
- `onSocketReadable` then takes `M_` (`ReadLock`). Forwarding terminal data
  takes `LocalMutex_` in `RTTYS_server::SendToClient`.
- A read of 0 bytes, a failed frame or a vanished endpoint ends the connection
  inside the callback (`EndInCallback`): `valid_` is cleared and the
  `device_disconnection` notification is queued at once, but the socket is
  closed and `M_` released only in a later step (`ReadClose`).
- The destructor takes `M_` only while `valid_` holds (`RTTYS_device.cpp:55`):
  `DestructorLock` then `DestructorEnd` for an open device, and
  `DestructorEnd` alone for one whose connection has already ended. Every
  destroying step of the processor and the reaper goes through these two.
- `run()` and `onTimer` take `LocalMutex_` and may then run destructors.
  A `device_disconnection` notification calls the endpoint's
  `DisconnectDevice`, which drops the endpoint's reference.
- `run()` keeps its last notification in `NextNotification` until the next
  dequeue (`HeldNote`): assigning the next notification (line 221), after the
  `lock_guard` has ended, is what drops the previous one, so a device can also
  be destroyed outside the lock.
- A client's `SendKeyStrokes` or `WindowSize` takes `LocalMutex_`, looks up
  the endpoint's device and sends on it inside the lock (`ClientLock`, then
  `ClientSend`). The lock is what keeps the device alive during the send.
- Devices in the constant `Silent` never finish the TLS handshake. The
  handshake loop in `CompleteConnection` then never returns, whether it runs on
  the constructor's thread or on the processor.

### How the RADSEC model follows the code

The code's waits are modelled as follows:

- A `trySleep` may end at any time (`Wake`).
- A keep-alive may or may not be due (`RunKeepAlive`).
- `Disconnect`'s unlocked test of `Connected_` is one step and its locked body
  another, for both the reactor and `Stop`. For `Stop` the locked body is two
  steps: taking `LocalMutex_` (`StopLock`) and the teardown (`StopTeardown`),
  whose `removeEventHandler` waits until no reactor callback is in flight.
- `LocalMutex_` is held by `run()` from its `lock_guard` through `Connect`.

The network is an environment. It breaks an open connection at most
`MaxBreaks` times and refuses a connect at most `MaxFailedConnects` times.
`certs` says whether the configured key and certificates load. Loading them is
outside `Connect`'s `try`, so a failure ends `run()`.

### How the codec model follows the code

The frame stream the device sends is fixed by the constant `Frames`. A run
explores every way of cutting it into reads of 1..`MaxChunk` bytes, and
interleaves the peer closing the socket anywhere in between. `ReadLoop` is the
`while` loop of `onSocketReadable`, written as a recursive operator. One
`onSocketReadable` step runs the loop to completion; the code does the same
under `M_`.

Lengths are kept in their C++ types:

- `HeaderLen` decodes the two length bytes as `char`. `inBuf_` is declared
  in `RTTYS_device.h`, which is not in the repository, but its uses show
  `char` elements: `ReadString` reads it into a `char C`, and line 109 casts
  its `begin()` to `unsigned char *`. With `CharSigned` TRUE, bytes ≥ 0x80
  are negative, as on x86_64. Every run uses `CharSigned = TRUE`.
- `msg_len` is a `size_t`. A negative model value `v` stands for `2^64 + v`, and
  `SizeLess` compares such values.

The outbound side is modelled by what each call writes. `KeyStrokes`,
`WindowSize`, `Login`, `Logout`, the heartbeat reply and the register
acknowledgement append a frame (command, three header bytes, payload length)
to `out`. The header bytes are computed with `Bitwise` as the code does
(`(len & 0xff00) >> 8`, `len & 0x00ff`). The session id used by `WindowSize`
and `Logout` is the `sid_` that the login response set. `MaxCalls` bounds the
number of outbound calls.

A `sendBytes` on the device socket may write short or throw; the register
acknowledgement and the heartbeat reply then end the connection
(`good = false`). With `SendMayFail` TRUE, each read chooses whether its sends
succeed.

### How the server model follows the code

Each branch of `run()` is an action. It takes the head of the queue and does what
the branch does under `LocalMutex_`. It finishes with `Settle`. `run()` keeps
the notification it has processed in `NextNotification` until it dequeues the
next one (line 221), so `held` records that notification and `Settle` makes it
the new `held`. This releases the previous notification's references and
destroys every object that has no owner left.
A device destroyed while open closes without sending a notification, because its
destructor calls `EndConnection(false)`.

`onAccept` and the device's reads run on one reactor thread, so they are atomic
with respect to each other. `run()` and `onTimer` hold `LocalMutex_`, so their
steps are atomic too. The detached constructor thread is the one truly parallel
actor, and it is modelled as its own action.

## Runs

| Run | Config | Expect | What it shows |
|---|---|---|---|
| codec_termdata | `MC_DeviceCodec_termdata.cfg` | pass | The stream has 13 termdata frames (short ones and empty ones, every length below 0x80) and a heartbeat. Reads are 1..4 bytes, and each read's sends may fail. For every cut, the bytes forwarded to the client are a prefix of the payloads, and equal all of them once the stream is delivered on an open connection (`TermDataIntegrity`). This holds because a read never ends inside a header: termdata payloads are drained as they arrive. Every frame written back to the device, by the heartbeat reply or by any outbound call at any point of the stream, has a length field equal to its payload length (`OutboundFramesWellFormed`). |
| codec_boundary | `MC_DeviceCodec_boundary.cfg` | violation | `ReadBoundaryInvariant`: the connection's outcome should not depend on how the stream was cut. It does: a 1-byte read of a header makes `onSocketReadable` set `good=false` and close the device (`RTTYS_device.cpp:119`). The stream is a device's start of session: a register frame, the login answer and terminal output. The same property also catches two more cut dependencies, which TLC reaches once reads are kept off header boundaries (checked with a guard added to a copy of `onSocketReadable`). A read ending right after the register header registers an empty id and parses the id bytes as a header (`RTTYS_device.cpp:310`). A read ending right after the login header leaves `sid_` unset and parses the login payload as a second register frame (`RTTYS_device.cpp:341`). |
| codec_logout | `MC_DeviceCodec_logout.cfg` | violation | `FramesInOrder`: the headers parsed should be the frames' headers. A logout frame's payload is never drained, so its byte `0` is parsed as a register header (`RTTYS_device.cpp:349`). |
| codec_signed | `MC_DeviceCodec_signed.cfg` | violation | `TermDataIntegrity` with x86's signed `char`. A 129-byte termdata frame has the length byte 0x81, which decodes to -127. `msg_len` wraps in `size_t`, `waiting_for_bytes_` is set from it, and the next frame's header is forwarded to the client as terminal data (`RTTYS_device.cpp:115`). The spec allows lengths up to 65535. |
| server_safety | `MC_RTTYServer_safety.cfg` | pass | See the properties below this table. |
| server_leak | `MC_RTTYServer_leak.cfg` | violation | `ConnectingResolved`, under weak fairness of `run()` and `onTimer`. A device parked in `ConnectingDevices_` whose connection has ended (its handshake failed, or it closed before registering) should eventually leave it; spec section 3 says pending entries are cleared on each reaper pass. It never does (`RTTYS_server.cpp:208`): only a successful registration removes it, and `onTimer` clears only the failed lists. |
| locks_uaf | `MC_RTTYLocks_uaf.cfg` | violation | `NoUseAfterFree`: no device is destroyed while the reactor is inside its callback or a client is sending on it. Device d1 is attached. Its read callback ends the connection: `EndConnection` clears `valid_` and queues the disconnection, but the socket is not yet closed and `M_` is still held. The session ages and the reaper erases the endpoint. The destructor sees `valid_` false, skips `M_` and frees d1 under the running callback (`RTTYS_device.cpp:55`). The processor's `DisconnectDevice` can do the same. |
| locks_cycle | `MC_RTTYLocks_cycle.cfg` | violation | `NoLockCycle`. The reaper holds `LocalMutex_`, erases the endpoint and runs d1's destructor, which takes `M_`. Meanwhile the reactor has dispatched d1's read callback, which waits for `M_`. The destructor's `EndConnection` waits in `removeEventHandler` for that callback. The reactor and the reaper deadlock, and every later user of `LocalMutex_` hangs too. The model also has the older cycle: a callback holding `M_` waits for `LocalMutex_` in `SendToClient`. |
| locks_handshake | `MC_RTTYLocks_handshake.cfg` | violation | `HandshakeReturns`: a device that opens TCP and never completes TLS keeps `run()` in `CompleteConnection`, with `LocalMutex_` held, for ever (`RTTYS_server.cpp:201,209`). The spec says the handshake runs on a helper that does not stall dispatch. |
| proxy_stop | `RADSECProxy_stop.cfg` | violation | `StopTerminates`: a `Stop()` that has begun returns. The network breaks the connection, and the reactor's `onError` enters `Disconnect`. `Stop()` takes `LocalMutex_` in its own `Disconnect` and waits in `removeEventHandler` for the callback in flight, which waits for `LocalMutex_` (`RADSEC_server.h:317`, `319`). Stop never returns. |
| proxy_reconnect | `RADSECProxy_reconnect.cfg` | violation | `ReconnectAfterLoss`. The reactor's `Disconnect` closes the socket after `run()` tested `Connected_`. The keep-alive `sendBytes` (`RADSEC_server.h:65`, outside any `try`) then throws out of `run()`, and the proxy never reconnects. |
| proxy_stoprace | `RADSECProxy_stoprace.cfg` | violation | `StopLeavesNothing`. `Stop()` runs while `run()` is inside `Connect`. Stop sees `Connected_` false and skips the teardown. Connect then registers the handlers, and the destructor frees the object under the reactor (`RADSEC_server.h:46`, `170`). |

The server_safety run checks, with one session id, two devices and one client,
under every interleaving of accepts, constructor
threads, registrations, client creation, closes, ageing, the processor and the
reaper:

- a session whose device and client are both valid and attached is joined
  (`PairedImpliesJoined`). Both registration branches of `run()` must join,
  in whichever order the device and the client arrive;
- the session table implements `RTTYSession` (`SessionSpec`, checked as a
  `PROPERTY`). The refinement mapping `SessionPhase` reads an id as:
  - free, if the REST layer has not used it;
  - reaped, if it is used and absent from `EndPoints_`;
  - otherwise joined or waiting, by its joined flag.

  `handshakes` is the live endpoint's `Login()` count. So every step of
  `run()`, `onTimer` and `CreateEndPoint` is one of these:
  - a creation of a free id;
  - the one join of a waiting session, which sends exactly one handshake;
  - a reaping;
  - a step that leaves the session unchanged.

Every property of a passing run has a mutant in `PROJECT.json`. Each mutant is a
plausible bug in one mapped definition, and TLC finds it:

- termdata drained before it is sent (`TermDataIntegrity`);
- `waiting_for_bytes_` decreased instead of reset once a partial payload is
  complete (`TypeOK`);
- the `KeyStrokes` length bytes written in swapped order
  (`OutboundFramesWellFormed`);
- `Join()` omitted on device registration (`PairedImpliesJoined`);
- `DisconnectDevice` also resetting the joined flag (`SessionSpec`);
- `EndConnection` keying the notification wrongly (`TypeOK`).

## Bounds and why they suffice

- **Codec.**
  - The termdata run has 14 frames of 0..8 bytes with reads of 1..4 bytes.
    This makes payloads split at every offset and a header arrive together
    with the end of the previous payload. Every length is below 0x80, so
    the run shows what holds wherever `char` signedness plays no part.
  - The signed run has a 129-byte frame between two short ones: the
    smallest length whose byte is ≥ 0x80.
  - The boundary run uses the 3-frame start-of-session stream (20 bytes) with
    reads of 1..4 bytes, so every frame can be cut inside its header or its
    payload.
  - The logout run uses 3 frames with reads up to 16 bytes, which is enough for
    several frames to share one read.
- **Server.**
  - The safety run has one session id, two devices, one client and
    `MaxSessions = 1`. Two devices are needed for replacement, for a stale
    device and for a second device registration racing the join. A second
    client takes the run past five minutes.
  - Registrations before creation and after reaping still reach the unmatched
    branches.
  - Devices and clients are symmetric model values, and the safety run checks
    only safety (`SessionSpec` is a safety property), so it uses symmetry
    reduction. It reaches 235,986 distinct states in about 25 seconds. The
    leak run checks a liveness property and uses no symmetry.
- **Locks.** The uaf run has three devices and one session, so a device can be
  attached while a second is replaced and a third is parked or failed. The
  cycle and handshake runs need only two. Every destruction path occurs:
  SetDevice replacing a device, `DisconnectDevice`, the reaper erasing the
  endpoint, the reaper clearing FailedDevices, and the processor dropping its
  notification. One client thread sends on the attached device. locks_uaf
  reaches its violation in 20 steps, locks_cycle in 18.
- **RADSEC.** The stop run allows one network failure and one refused
  connect, enough for a reactor callback to be in `Disconnect` when `Stop()`
  begins. The other runs allow one of each too.

## Fairness

- `DeviceCodec` checks only safety and has no fairness.
- `RTTYServer` (`FairSpec`): `run()` and `onTimer` have weak fairness.
  `run()` is the dedicated `rt:manager` thread, which blocks only while the
  queue is empty, and `onTimer` is a periodic `Poco::Timer`. This assumes
  `CompleteConnection` returns; locks_handshake shows a silent device can
  keep it from returning. Accepts, registrations, closes and ageing are the
  environment's and have no fairness.
- `RTTYLocks`:
  - The processor and the constructor threads have weak fairness. They are
    dedicated OS threads.
  - The reactor, the reaper and ageing have none. `HandshakeReturns` concerns
    the processor alone, and a stalled reactor cannot excuse it.
- `RADSECProxy`:
  - `run()`, the reactor and a `Stop()` that has begun have weak fairness.
    Each is a dedicated thread or loop.
  - Calling `Stop()`, and network failures, have none.

Deadlock checking is off only where the system really stops. In `RTTYLocks`,
the bounded workload ends, or the lock cycle (reported by locks_cycle) freezes
every thread. In `RADSECProxy`, `Stop()` returns, or `run()` has died and the
network has no failure left.

## Not modelled

- **Re-used session ids.** `CreateEndPoint` assigns `EndPoints_[Id]`
  unconditionally (`RTTYS_server.cpp:298`), so an id created twice replaces a
  live endpoint. The models take each id to be created once; which ids the
  REST layer repeats is decided outside `src/`.
- **The replacing device's login.** A device that registers for a session
  already joined replaces the attached device without `Login()`
  (`RTTYS_server.cpp:187`). Spec section 4.2 logs a device in only when the
  session is first joined, as the code does, so no run asserts more.
- **Failed clients.** A client parked in `FailedClients` is also held by
  `run()`'s last notification until the next dequeue, so it can stay open
  while the queue is empty. `RTTYServer` keeps that reference (`held`) but
  states no bound on it.
- **Short sends in the server model.** `DeviceCodec` models a failed
  `sendBytes` of the register and heartbeat replies; `RTTYServer` and
  `RTTYLocks` take a device's reads as succeeding or ending the connection.
- **Defects recorded as hazards, without a counterexample run.** Each of these
  would need a violation run of its own. They are listed as hazards in
  `PROJECT.json`, with what a run would check:
  - a late disconnection of a replaced device detaches the device that
    replaced it (`RTTYS_server.cpp:177`);
  - a heartbeat that arrives before the browser attaches closes the device
    (`RTTYS_device.cpp:393`);
  - `RADSEC_server::SendData` uses `Socket_` without the lock while `Connect`
    replaces it (`RADSEC_server.h:81`);
  - `RTTYS_server::Stop` can block in `join` (`RTTYS_server.cpp:100`).
- **Concurrent writes to a device socket.** `KeyStrokes`, `WindowSize` and
  `Login` write to `socket_` without `M_` (the guards are commented out,
  `RTTYS_device.cpp:209,228,252`), while the reactor writes the heartbeat and
  register replies under `M_`. Two writers can interleave their bytes. The
  models write a frame atomically; byte-level interleaving of `sendBytes` is
  below their level.
- **`RTTYLocks` omits client creation and disconnection notifications.** These
  do not decide who destroys a device. `RTTYServer` has them.
- **Start/Stop** of `RTTYS_server`. `Stop` calls `ResponseQueue_.wakeUpAll()`,
  which wakes `run()` only while it waits on an empty queue, so joining the
  thread can hang (`RTTYS_server.cpp:97-112`).
- **`RTTYS_WebServer.cpp`.** This is HTTP page serving. Its only effect on
  sessions is the client creation modelled by `CreateNewClient`.
- **`RESTAPI_*.cpp`, `SubSystemServer.cpp` and `TelemetryStream.h`.** These are
  sequential request, storage and configuration code, and declarations.
- **`RADSEC_server::SendData`.** It changes no state, but it reads `Socket_`
  without the lock while `Connect` replaces it.
- **`RADSECserver.h`.** No file of `src/` includes it, so it is not built;
  `RADSEC_server.h` is its successor and is the one modelled.

## Plan

This is in order of importance.

1. `DeviceCodec`. Done, with the failed-send path of the register and
   heartbeat replies.
2. `RTTYServer`, with `run()`'s held notification. Done.
3. `RTTYLocks`: `LocalMutex_`, each device's `M_`, the reactor's dispatch and
   `valid_`. Done.
4. `RADSECProxy`, with `removeEventHandler`'s wait for a callback. Done.
5. `RTTYSession`: the endpoint state machine, refined by `RTTYServer`. Done.
   A later step can add the attached sides to it.
6. Stale disconnection: a disconnect notification of a replaced device must not
   detach the device that replaced it.
7. A codec run with no paired client, for the early heartbeat.
