------------------------------ MODULE RTTYServer ------------------------------
(***************************************************************************)
(* The session engine of the remote-terminal tunnel: RTTYS_server's        *)
(* session table EndPoints_, its notification processor run(), the reaper  *)
(* onTimer, CreateEndPoint, onAccept and CreateNewClient                   *)
(* (src/src/rttys/RTTYS_server.cpp), together with the lifecycle events of *)
(* the device connections (src/src/rttys/RTTYS_device.cpp) and of the      *)
(* client connections that feed its queue.                                 *)
(*                                                                         *)
(* Every step of run(), onTimer and CreateEndPoint holds LocalMutex_ for   *)
(* its whole body, so each is one atomic action.  Connection objects are   *)
(* model values; an object is destroyed when the last shared_ptr to it (in *)
(* a queued notification, the notification run() holds, ConnectingDevices_,*)
(* a failed list or an endpoint) goes away, and a device destroyed while valid_ closes its     *)
(* socket without notifying (~RTTYS_Device_ConnectionHandler).             *)
(***************************************************************************)
EXTENDS Naturals, Sequences, FiniteSets

CONSTANTS
    Ids,           \* session ids handed out by the REST layer
    Devices,       \* device connection objects (one per accepted socket / TID)
    Clients,       \* client (WebSocket) connection objects
    MaxSessions,   \* rtty.maxsessions; 0 means no limit
    None

ASSUME /\ MaxSessions \in Nat
       /\ None \notin Ids \cup Devices \cup Clients

NoteTypes == {"device_connection", "device_registration", "client_registration",
              "device_disconnection", "client_disconnection"}

Note(t, i, d, c) == [type |-> t, id |-> i, dev |-> d, cli |-> c]

Notification == [type : NoteTypes, id : Ids \cup {None},
                 dev : Devices \cup {None}, cli : Clients \cup {None}]

\* An RTTYS_EndPoint: the attached sides, the joined flag, whether it has
\* outlived the staleness threshold, and how often Login() was run.
EndPoint == [device : Devices \cup {None}, client : Clients \cup {None},
             joined : BOOLEAN, old : BOOLEAN, logins : Nat]

NewEndPoint == [device |-> None, client |-> None, joined |-> FALSE,
                old |-> FALSE, logins |-> 0]

\* Device object states: not yet accepted, accepted (no socket handlers),
\* open (valid_, handlers installed), closed (EndConnection has run).
DevState == [st : {"none", "accepted", "open", "closed"},
             id : Ids \cup {None},    \* Id_, set by the register frame
             thread : BOOLEAN,        \* the constructor's thread is pending
             login : BOOLEAN]         \* Login() was sent on this connection

CliState == [st : {"none", "open", "closed"}, id : Ids \cup {None}]

VARIABLES
    endpoints,     \* EndPoints_: id -> EndPoint, or None when absent
    queue,         \* ResponseQueue_
    connecting,    \* ConnectingDevices_ (keyed by TID = the device object)
    failedDevices, \* FailedDevices
    failedClients, \* FailedClients
    device,        \* per device object
    client,        \* per client object
    created,       \* ids the REST layer has already used (history)
    held           \* run()'s NextNotification: <<>> or the last one dequeued

vars == <<endpoints, queue, connecting, failedDevices, failedClients,
          device, client, created, held>>

-----------------------------------------------------------------------------
Live == {i \in Ids : endpoints[i] # None}

ValidDevice(e) == e.device # None /\ device[e.device].st = "open"
ValidClient(e) == e.client # None /\ client[e.client].st = "open"

\* RTTYS_EndPoint::TooOld: past the staleness threshold, or both sides gone
\* after the session was joined.
TooOld(e) == e.old \/ (e.joined /\ e.device = None /\ e.client = None)

\* The shared_ptrs that keep a connection object alive, in a given state;
\* q is the queue behind the notification run() holds.
DevOwners(eps, q, conn, fd) ==
    conn \cup fd \cup {eps[i].device : i \in {j \in Ids : eps[j] # None}}
        \cup {q[k].dev : k \in {j \in DOMAIN q : q[j].type = "device_connection"}}
CliOwners(eps, q, fc) ==
    fc \cup {eps[i].client : i \in {j \in Ids : eps[j] # None}}
       \cup {q[k].cli : k \in {j \in DOMAIN q : q[j].type = "client_registration"}}

\* Objects that lose their last owner are destroyed: an open device's
\* destructor runs EndConnection(false), which closes without notifying.
DestroyDevices(dv, before, after) ==
    [d \in Devices |-> IF d \in before \ after /\ dv[d].st = "open"
                       THEN [dv[d] EXCEPT !.st = "closed"] ELSE dv[d]]
DestroyClients(cl, before, after) ==
    [c \in Clients |-> IF c \in before \ after /\ cl[c].st = "open"
                       THEN [cl[c] EXCEPT !.st = "closed"] ELSE cl[c]]

\* RTTYS_Device_ConnectionHandler::CompleteConnection on device d: the TLS
\* handshake either completes (handlers installed) or throws, and then
\* EndConnection notifies a disconnection.  On a socket already closed,
\* valid_ is set, peerAddress() throws and EndConnection notifies again.
CompleteOutcomes(d, dv) ==
    LET fail == [dev |-> [dv EXCEPT ![d].st = "closed"],
                 notes |-> <<Note("device_disconnection", dv[d].id, None, None)>>]
    IN  CASE dv[d].st = "accepted" ->
                 {[dev |-> [dv EXCEPT ![d].st = "open"], notes |-> <<>>], fail}
          [] dv[d].st = "open"   -> {[dev |-> dv, notes |-> <<>>]}
          [] dv[d].st = "closed" -> {fail}

\* RTTYS_EndPoint::Join + Login: the session joins and Login() is sent to
\* the device, which records it if its connection is valid.
JoinLogin(e, dv) ==
    [ep  |-> [e EXCEPT !.joined = TRUE, !.logins = @ + 1],
     dev |-> IF dv[e.device].st = "open"
             THEN [dv EXCEPT ![e.device].login = TRUE] ELSE dv]

-----------------------------------------------------------------------------
Init ==
    /\ endpoints = [i \in Ids |-> None]
    /\ queue = <<>>
    /\ connecting = {}
    /\ failedDevices = {}
    /\ failedClients = {}
    /\ device = [d \in Devices |-> [st |-> "none", id |-> None,
                                    thread |-> FALSE, login |-> FALSE]]
    /\ client = [c \in Clients |-> [st |-> "none", id |-> None]]
    /\ created = {}
    /\ held = <<>>

\* CreateEndPoint: refused when the session limit is reached.  The REST
\* layer issues every session id once.
CreateEndPoint(i) ==
    /\ i \notin created
    /\ ~(MaxSessions # 0 /\ Cardinality(Live) = MaxSessions)
    /\ endpoints' = [endpoints EXCEPT ![i] = NewEndPoint]
    /\ created' = created \cup {i}
    /\ UNCHANGED <<queue, connecting, failedDevices, failedClients, device, client, held>>

\* onAccept: a device socket is accepted, its handler object created (the
\* constructor starts a detached thread running CompleteConnection) and a
\* device_connection notification queued (holding the object).  onAccept
\* runs on the device reactor's thread, which also runs every
\* onSocketReadable, so no frame of the device is read before it returns.
onAccept(d) ==
    /\ device[d].st = "none"
    /\ device' = [device EXCEPT ![d] = [@ EXCEPT !.st = "accepted",
                                                  !.thread = TRUE]]
    /\ queue' = Append(queue, Note("device_connection", None, d, None))
    /\ UNCHANGED <<endpoints, connecting, failedDevices, failedClients, client, created, held>>

\* The detached thread of the device constructor runs CompleteConnection.
ConstructorThread(d) ==
    /\ device[d].thread
    /\ \E r \in CompleteOutcomes(d, device) :
        /\ device' = [r.dev EXCEPT ![d].thread = FALSE]
        /\ queue' = queue \o r.notes
    /\ UNCHANGED <<endpoints, connecting, failedDevices, failedClients, client, created, held>>

\* do_msgTypeRegister on an open connection: Id_ is set and a
\* device_registration notification is queued.
DeviceRegister(d, i) ==
    /\ device[d].st = "open"
    /\ device[d].id = None
    /\ device' = [device EXCEPT ![d].id = i]
    /\ queue' = Append(queue, Note("device_registration", i, d, None))
    /\ UNCHANGED <<endpoints, connecting, failedDevices, failedClients, client, created, held>>

\* Mutant: the disconnection keyed by the connection object, not Id_.
DeviceEndConnection_WrongKey(d) ==
    /\ device[d].st = "open"
    /\ device' = [device EXCEPT ![d].st = "closed"]
    /\ queue' = Append(queue, Note("device_disconnection", d, None, None))
    /\ UNCHANGED <<endpoints, connecting, failedDevices, failedClients, client, created, held>>

\* EndConnection with notification: the device closed, a frame failed to
\* parse, or a send failed.
DeviceEndConnection(d) ==
    /\ device[d].st = "open"
    /\ device' = [device EXCEPT ![d].st = "closed"]
    /\ queue' = Append(queue, Note("device_disconnection", device[d].id, None, None))
    /\ UNCHANGED <<endpoints, connecting, failedDevices, failedClients, client, created, held>>

\* CreateNewClient: a browser's WebSocket for session i.
CreateNewClient(c, i) ==
    /\ client[c].st = "none"
    /\ client' = [client EXCEPT ![c] = [st |-> "open", id |-> i]]
    /\ queue' = Append(queue, Note("client_registration", i, None, c))
    /\ UNCHANGED <<endpoints, connecting, failedDevices, failedClients, device, created, held>>

\* The client connection closes and notifies its disconnection.
ClientClose(c) ==
    /\ client[c].st = "open"
    /\ client' = [client EXCEPT ![c].st = "closed"]
    /\ queue' = Append(queue, Note("client_disconnection", client[c].id, None, None))
    /\ UNCHANGED <<endpoints, connecting, failedDevices, failedClients, device, created, held>>

\* Time passes an endpoint's staleness threshold.
Age(i) ==
    /\ endpoints[i] # None
    /\ ~endpoints[i].old
    /\ endpoints' = [endpoints EXCEPT ![i].old = TRUE]
    /\ UNCHANGED <<queue, connecting, failedDevices, failedClients, device, client, created, held>>

-----------------------------------------------------------------------------
(***************************************************************************)
(* The notification processor run(): waitDequeueNotification assigns the   *)
(* head of ResponseQueue_ to NextNotification (line 221), which releases   *)
(* the notification held until then, and the new one is applied under      *)
(* LocalMutex_.  It stays held, with the connection it points to, until    *)
(* the next dequeue.  Objects that lose their last owner are destroyed.    *)
(***************************************************************************)
Settle(eps, q, h, conn, fd, fc, dv, cl) ==
    /\ endpoints' = eps
    /\ queue' = q
    /\ held' = h
    /\ connecting' = conn
    /\ failedDevices' = fd
    /\ failedClients' = fc
    /\ device' = DestroyDevices(dv, DevOwners(endpoints, held \o queue, connecting, failedDevices),
                                    DevOwners(eps, h \o q, conn, fd))
    /\ client' = DestroyClients(cl, CliOwners(endpoints, held \o queue, failedClients),
                                    CliOwners(eps, h \o q, fc))
    /\ UNCHANGED created

Found(n) == n.id \in Ids /\ endpoints[n.id] # None

\* device_connection (its id matches no session): the device is parked in
\* ConnectingDevices_ and CompleteConnection runs.
ProcessDeviceConnection ==
    /\ queue # <<>>
    /\ Head(queue).type = "device_connection"
    /\ LET d == Head(queue).dev IN
       \E r \in CompleteOutcomes(d, device) :
          Settle(endpoints, Tail(queue) \o r.notes, <<Head(queue)>>, connecting \cup {d},
                 failedDevices, failedClients, r.dev, client)

\* Mutant: only the client registration joins a session.
ProcessDeviceRegistration_NoJoin ==
    /\ queue # <<>>
    /\ Head(queue).type = "device_registration"
    /\ Found(Head(queue))
    /\ LET n == Head(queue)
           e == [endpoints[n.id] EXCEPT !.device = n.dev]
       IN  IF n.dev \in connecting
           THEN Settle([endpoints EXCEPT ![n.id] = e], Tail(queue), <<Head(queue)>>,
                       connecting \ {n.dev}, failedDevices, failedClients,
                       device, client)
           ELSE Settle(endpoints, Tail(queue), <<Head(queue)>>, connecting, failedDevices,
                       failedClients, device, client)

\* device_registration for a live session: a device found in
\* ConnectingDevices_ is attached (SetDevice) and removed from it, and the
\* session joins if it has not yet and its client is valid.
ProcessDeviceRegistration ==
    /\ queue # <<>>
    /\ Head(queue).type = "device_registration"
    /\ Found(Head(queue))
    /\ LET n  == Head(queue)
           e  == [endpoints[n.id] EXCEPT !.device = n.dev]
           jl == IF ~e.joined /\ ValidClient(e) THEN JoinLogin(e, device)
                 ELSE [ep |-> e, dev |-> device]
       IN  IF n.dev \in connecting
           THEN Settle([endpoints EXCEPT ![n.id] = jl.ep], Tail(queue), <<Head(queue)>>,
                       connecting \ {n.dev}, failedDevices, failedClients,
                       jl.dev, client)
           ELSE Settle(endpoints, Tail(queue), <<Head(queue)>>, connecting, failedDevices,
                       failedClients, device, client)

\* client_registration for a live session: SetClient, then join if the
\* session has not yet and its device is valid.
ProcessClientRegistration ==
    /\ queue # <<>>
    /\ Head(queue).type = "client_registration"
    /\ Found(Head(queue))
    /\ LET n  == Head(queue)
           e  == [endpoints[n.id] EXCEPT !.client = n.cli]
           jl == IF ~e.joined /\ ValidDevice(e) THEN JoinLogin(e, device)
                 ELSE [ep |-> e, dev |-> device]
       IN  Settle([endpoints EXCEPT ![n.id] = jl.ep], Tail(queue), <<Head(queue)>>, connecting,
                  failedDevices, failedClients, jl.dev, client)

\* Mutant: DisconnectDevice also resets the joined flag.
ProcessDeviceDisconnection_Unjoin ==
    /\ queue # <<>>
    /\ Head(queue).type = "device_disconnection"
    /\ Found(Head(queue))
    /\ Settle([endpoints EXCEPT ![Head(queue).id].device = None,
                                ![Head(queue).id].joined = FALSE], Tail(queue), <<Head(queue)>>,
              connecting, failedDevices, failedClients, device, client)

\* device_disconnection for a live session: DisconnectDevice.
ProcessDeviceDisconnection ==
    /\ queue # <<>>
    /\ Head(queue).type = "device_disconnection"
    /\ Found(Head(queue))
    /\ Settle([endpoints EXCEPT ![Head(queue).id].device = None], Tail(queue), <<Head(queue)>>,
              connecting, failedDevices, failedClients, device, client)

\* client_disconnection for a live session: DisconnectClient.
ProcessClientDisconnection ==
    /\ queue # <<>>
    /\ Head(queue).type = "client_disconnection"
    /\ Found(Head(queue))
    /\ Settle([endpoints EXCEPT ![Head(queue).id].client = None], Tail(queue), <<Head(queue)>>,
              connecting, failedDevices, failedClients, device, client)

\* A registration for no live session goes to the failed lists; a
\* disconnection for no live session is dropped.
ProcessUnmatched ==
    /\ queue # <<>>
    /\ Head(queue).type # "device_connection"
    /\ ~Found(Head(queue))
    /\ LET n == Head(queue) IN
       Settle(endpoints, Tail(queue), <<Head(queue)>>, connecting,
              IF n.type = "device_registration" THEN failedDevices \cup {n.dev}
                                                ELSE failedDevices,
              IF n.type = "client_registration" THEN failedClients \cup {n.cli}
                                                ELSE failedClients,
              device, client)

\* onTimer: every TooOld endpoint is erased, and the failed lists cleared.
onTimer ==
    Settle([i \in Ids |-> IF i \in Live /\ TooOld(endpoints[i]) THEN None
                          ELSE endpoints[i]],
           queue, held, connecting, {}, {}, device, client)

\* The branches of run(), each under LocalMutex_.
Processor ==
    \/ ProcessDeviceConnection
    \/ ProcessDeviceRegistration
    \/ ProcessClientRegistration
    \/ ProcessDeviceDisconnection
    \/ ProcessClientDisconnection
    \/ ProcessUnmatched

Next ==
    \/ \E i \in Ids : CreateEndPoint(i) \/ Age(i)
    \/ \E d \in Devices : onAccept(d) \/ ConstructorThread(d) \/ DeviceEndConnection(d)
    \/ \E d \in Devices, i \in Ids : DeviceRegister(d, i)
    \/ \E c \in Clients : ClientClose(c)
    \/ \E c \in Clients, i \in Ids : CreateNewClient(c, i)
    \/ Processor
    \/ onTimer

Spec == Init /\ [][Next]_vars

\* run() is the dedicated rt:manager thread, blocked only in
\* waitDequeueNotification while the queue is empty; onTimer is a periodic
\* Poco::Timer.  Both are weakly fair; CompleteConnection is taken to
\* return (locks_handshake shows a silent device can stall it).  Accepts,
\* registrations, closes and ageing are the environment's and need not
\* happen.
FairSpec == Spec /\ WF_vars(Processor) /\ WF_vars(onTimer)

-----------------------------------------------------------------------------
TypeOK ==
    /\ endpoints \in [Ids -> EndPoint \cup {None}]
    /\ queue \in Seq(Notification)
    /\ connecting \subseteq Devices
    /\ failedDevices \subseteq Devices
    /\ failedClients \subseteq Clients
    /\ device \in [Devices -> DevState]
    /\ client \in [Clients -> CliState]
    /\ created \subseteq Ids
    /\ held \in Seq(Notification) /\ Len(held) <= 1

\* Pairing (spec section 8): whichever order the device and the client
\* registrations are processed in, a session whose attached device and
\* client are both valid is joined.
PairedImpliesJoined ==
    \A i \in Live : ValidDevice(endpoints[i]) /\ ValidClient(endpoints[i])
                        => endpoints[i].joined

\* Pending devices (spec section 3: pending entries have a bounded lifetime
\* and are cleared by the reaper): a device parked in ConnectingDevices_
\* by run() whose connection has ended -- its handshake failed or the
\* device closed -- eventually leaves it, under a fair processor and timer.
ConnectingResolved ==
    \A d \in Devices :
        (d \in connecting /\ device[d].st = "closed") ~> d \notin connecting

-----------------------------------------------------------------------------
(***************************************************************************)
(* Refinement: the session table seen per id.  An id the REST layer has    *)
(* not used is free, one used but erased is reaped, and a live one is      *)
(* joined or waiting by its joined flag; the handshakes sent are the       *)
(* endpoint's Login() count while it is live.                              *)
(***************************************************************************)
SessionPhase(i) ==
    CASE i \notin created     -> "free"
      [] endpoints[i] = None  -> "reaped"
      [] endpoints[i].joined  -> "joined"
      [] OTHER                -> "waiting"

Session == INSTANCE RTTYSession
               WITH session    <- [i \in Ids |-> SessionPhase(i)],
                    handshakes <- [i \in Ids |-> IF endpoints[i] = None THEN 0
                                                 ELSE endpoints[i].logins]

\* The session table implements the endpoint state machine: whatever the
\* order of registrations, disconnections and reaper passes in run() and
\* onTimer, an id is created once, joins at most once and only while
\* waiting, sends the login handshake exactly when it joins, never falls
\* back from joined to waiting, and stays gone once erased.
SessionSpec == Session!Spec

=============================================================================
