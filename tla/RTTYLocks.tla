------------------------------ MODULE RTTYLocks ------------------------------
(***************************************************************************)
(* The locks of the RTTY tunnel: RTTYS_server's LocalMutex_ and each       *)
(* device connection's M_, with the threads that take them.                *)
(*   - the device reactor thread: onAccept, and onSocketReadable, which    *)
(*     holds M_ and forwards terminal data through                         *)
(*     RTTYS_server::SendToClient, which takes LocalMutex_, and ends the   *)
(*     connection with EndConnection, which queues a disconnection;        *)
(*   - the notification processor run(), which holds LocalMutex_ while it  *)
(*     handles a notification (a device_connection runs the blocking TLS   *)
(*     handshake of CompleteConnection there);                             *)
(*   - the reaper onTimer, which holds LocalMutex_ while it erases stale   *)
(*     endpoints and clears FailedDevices;                                 *)
(*   - the detached thread each device's constructor starts, which runs    *)
(*     CompleteConnection;                                                 *)
(*   - the client side, where the browser's input reaches                  *)
(*     RTTYS_server::SendKeyStrokes or WindowSize, which hold LocalMutex_  *)
(*     while the device's KeyStrokes or WindowSize sends on its socket.   *)
(* A device connection is destroyed by the thread that drops its last      *)
(* shared_ptr; its destructor takes M_ only while valid_.  One session id  *)
(* is modelled; the devices are Devices, and those in Silent never answer *)
(* the TLS handshake.                                                      *)
(***************************************************************************)
EXTENDS Naturals, FiniteSets, Sequences

CONSTANTS Devices, Silent, None

ASSUME Silent \subseteq Devices /\ None \notin Devices

Threads == {"reactor", "janitor", "processor", "client"}

\* The two outbound operations the client side forwards to the device.
ClientOps == {"keystrokes", "winsize"}

VARIABLES
    local,      \* the thread holding LocalMutex_, or None
    m,          \* m[d]: the thread holding device d's M_, or None
    phase,      \* phase[d]: "absent", "connecting", "ready" (handlers added), "closed", "gone"
    registered, \* registered[d]: d's register frame has been read
    queue,      \* ResponseQueue_: device_connection and device_registration notifications
    pending,    \* the devices in ConnectingDevices_
    ep,         \* the endpoint: "live", "old" (TooOld) or "erased"
    epDev,      \* the device the endpoint holds, or None
    failed,     \* the devices in FailedDevices
    rpc,        \* the reactor thread: [pc, dev]
    jan,        \* the reaper: [pc, todo]
    proc,       \* the processor: [pc, note, todo]
    cpc         \* the client side: [pc, op, dev]

vars == <<local, m, phase, registered, queue, pending, ep, epDev, failed, rpc, jan, proc, cpc>>

Note(t, d) == [type |-> t, dev |-> d]

NoNote == Note("none", None)

(* The processor's notification is the AutoPtr NextNotification: it keeps *)
(* its device alive until waitDequeueNotification returns the next one    *)
(* and the assignment at line 221 releases it.                            *)
HeldNote == proc.note

(* The shared_ptrs to d: device_connection notifications (queued or held), *)
(* which carry NewDevice, ConnectingDevices_, the endpoint and            *)
(* FailedDevices.  A registration or disconnection carries Id_ and this. *)
Owned(d, q, hn, pend, dev, fail) ==
    \/ \E i \in 1..Len(q) : q[i] = Note("device_connection", d)
    \/ hn = Note("device_connection", d)
    \/ d \in pend
    \/ dev = d
    \/ d \in fail

(* The devices that a step leaves with no owner: their destructor runs on *)
(* the thread that took the step.                                          *)
Orphans(q, hn, pend, dev, fail) ==
    {d \in Devices : phase[d] \notin {"absent", "gone"}
                     /\ ~Owned(d, q, hn, pend, dev, fail)
                     /\ d \notin jan.todo \cup proc.todo}

(* The reactor is inside a callback of d: NObserver::notify holds the     *)
(* observer's mutex from the dispatch until the callback returns.         *)
InCallback(d) == rpc.pc # "idle" /\ rpc.dev = d

Init ==
    /\ local = None
    /\ m = [d \in Devices |-> None]
    /\ phase = [d \in Devices |-> "absent"]
    /\ registered = [d \in Devices |-> FALSE]
    /\ queue = << >>
    /\ pending = {}
    /\ ep = "live"
    /\ epDev = None
    /\ failed = {}
    /\ rpc = [pc |-> "idle", dev |-> None]
    /\ jan = [pc |-> "idle", todo |-> {}]
    /\ proc = [pc |-> "idle", note |-> NoNote, todo |-> {}]
    /\ cpc = [pc |-> "idle", op |-> "keystrokes", dev |-> None]

-----------------------------------------------------------------------------
(* The device reactor thread.                                              *)

(* onAccept: construct the connection (its constructor starts the          *)
(* CompleteConnection thread) and queue a device_connection.               *)
onAccept(d) ==
    /\ rpc.pc = "idle"
    /\ phase[d] = "absent"
    /\ phase' = [phase EXCEPT ![d] = "connecting"]
    /\ queue' = Append(queue, Note("device_connection", d))
    /\ UNCHANGED <<local, m, registered, pending, ep, epDev, failed, rpc, jan, proc, cpc>>

(* The reactor dispatches a readable (or shutdown) notification to a       *)
(* handler registered by CompleteConnection: NObserver calls the member    *)
(* function on the object it holds by reference.                           *)
Dispatch(d) ==
    /\ rpc.pc = "idle"
    /\ phase[d] = "ready"
    /\ rpc' = [pc |-> "dispatch", dev |-> d]
    /\ UNCHANGED <<local, m, phase, registered, queue, pending, ep, epDev, failed, jan, proc, cpc>>

(* onSocketReadable's first statement, Guard G(M_).                        *)
ReadLock ==
    /\ rpc.pc = "dispatch"
    /\ m[rpc.dev] = None
    /\ m' = [m EXCEPT ![rpc.dev] = "reactor"]
    /\ rpc' = [rpc EXCEPT !.pc = "read"]
    /\ UNCHANGED <<local, phase, registered, queue, pending, ep, epDev, failed, jan, proc, cpc>>

(* EndConnection() with M_ held: valid_ = false, the handlers are removed  *)
(* (the reactor's own callback does not wait for itself), and the         *)
(* disconnection is queued; socket_.close() is still to come.             *)
EndInCallback(d) ==
    /\ phase' = [phase EXCEPT ![d] = "closed"]
    /\ queue' = Append(queue, Note("device_disconnection", d))
    /\ rpc' = [rpc EXCEPT !.pc = "closing"]

(* The frames of one read: a register frame queues a device_registration  *)
(* (do_msgTypeRegister); termdata after registration goes to SendToClient; *)
(* other frames end the callback, releasing M_; a zero-byte read, a bad    *)
(* frame or a failed send ends the connection.                            *)
ReadFrames ==
    /\ rpc.pc = "read"
    /\ LET d == rpc.dev IN
       \/ /\ ~registered[d]
          /\ registered' = [registered EXCEPT ![d] = TRUE]
          /\ queue' = Append(queue, Note("device_registration", d))
          /\ m' = [m EXCEPT ![d] = None]
          /\ rpc' = [pc |-> "idle", dev |-> None]
          /\ UNCHANGED phase
       \/ /\ registered[d]
          /\ rpc' = [rpc EXCEPT !.pc = "send"]
          /\ UNCHANGED <<m, phase, registered, queue>>
       \/ /\ m' = [m EXCEPT ![d] = None]
          /\ rpc' = [pc |-> "idle", dev |-> None]
          /\ UNCHANGED <<phase, registered, queue>>
       \/ /\ EndInCallback(d)
          /\ UNCHANGED <<m, registered>>
    /\ UNCHANGED <<local, pending, ep, epDev, failed, jan, proc, cpc>>

(* RTTYS_server::SendToClient: take LocalMutex_, find the endpoint, send, *)
(* release.  When the endpoint is gone it returns false and the callback  *)
(* ends with EndConnection; otherwise the Guard releases M_.              *)
SendToClient ==
    /\ rpc.pc = "send"
    /\ local = None
    /\ IF ep = "erased"
       THEN /\ EndInCallback(rpc.dev)
            /\ UNCHANGED m
       ELSE /\ m' = [m EXCEPT ![rpc.dev] = None]
            /\ rpc' = [pc |-> "idle", dev |-> None]
            /\ UNCHANGED <<phase, queue>>
    /\ UNCHANGED <<local, registered, pending, ep, epDev, failed, jan, proc, cpc>>

(* The rest of EndConnection, socket_.close(), then the Guard's           *)
(* destructor unlocks M_ and the callback returns.                        *)
ReadClose ==
    /\ rpc.pc = "closing"
    /\ m' = [m EXCEPT ![rpc.dev] = None]
    /\ rpc' = [pc |-> "idle", dev |-> None]
    /\ UNCHANGED <<local, phase, registered, queue, pending, ep, epDev, failed, jan, proc, cpc>>

-----------------------------------------------------------------------------
(* The constructor's detached thread: CompleteConnection completes the     *)
(* handshake and adds the handlers, unless the device never answers.      *)
CtorComplete(d) ==
    /\ phase[d] = "connecting"
    /\ d \notin Silent
    /\ phase' = [phase EXCEPT ![d] = "ready"]
    /\ UNCHANGED <<local, m, registered, queue, pending, ep, epDev, failed, rpc, jan, proc, cpc>>

(* ~RTTYS_Device_ConnectionHandler on thread t.  Only if(valid_) does it  *)
(* take M_ and run EndConnection(false), whose removeEventHandler waits   *)
(* for a callback of the object in progress on the reactor.  Once the     *)
(* connection has ended (valid_ false) the object is freed at once.       *)
DestructorLock(t, d) ==
    /\ phase[d] = "ready"
    /\ m[d] = None
    /\ \A e \in Devices : m[e] # t
    /\ m' = [m EXCEPT ![d] = t]
    /\ UNCHANGED phase

DestructorEnd(t, d) ==
    \/ /\ phase[d] = "ready"
       /\ m[d] = t
       /\ ~InCallback(d)
       /\ phase' = [phase EXCEPT ![d] = "gone"]
       /\ m' = [m EXCEPT ![d] = None]
    \/ /\ phase[d] \in {"connecting", "closed"}
       /\ phase' = [phase EXCEPT ![d] = "gone"]
       /\ UNCHANGED m

-----------------------------------------------------------------------------
(* The notification processor, run().                                      *)

(* NextNotification = waitDequeueNotification(): the next notification   *)
(* replaces the one held, and the destructor of a device that only the    *)
(* old one kept alive runs here, before the lock is taken.                *)
ProcDequeue ==
    /\ proc.pc = "idle"
    /\ queue # << >>
    /\ queue' = Tail(queue)
    /\ proc' = [pc |-> "free", note |-> Head(queue),
                todo |-> Orphans(Tail(queue), Head(queue), pending, epDev, failed)]
    /\ UNCHANGED <<local, m, phase, registered, pending, ep, epDev, failed, rpc, jan, cpc>>

(* lock_guard Lock(LocalMutex_) once the released objects are destroyed.  *)
ProcNext ==
    /\ proc.pc = "free"
    /\ proc.todo = {}
    /\ proc' = [proc EXCEPT !.pc = "lock"]
    /\ UNCHANGED <<local, m, phase, registered, queue, pending, ep, epDev, failed, rpc, jan, cpc>>

(* With LocalMutex_ held: a device_connection (the id is not a session)   *)
(* parks the device in ConnectingDevices_ and calls CompleteConnection;   *)
(* a device_registration found in the table moves the device from         *)
(* ConnectingDevices_ to the endpoint (SetDevice drops the previous one), *)
(* and one not found goes to FailedDevices; a device_disconnection whose  *)
(* Id_ names the live session runs DisconnectDevice, which drops the      *)
(* endpoint's device.                                                     *)
ProcLock ==
    /\ proc.pc = "lock"
    /\ local = None
    /\ local' = "processor"
    /\ LET n == proc.note
           d == n.dev
           found == ep # "erased" /\ registered[d]
       IN
       \/ /\ n.type = "device_connection"
          /\ pending' = pending \cup {d}
          /\ proc' = [proc EXCEPT !.pc = "handshake"]
          /\ UNCHANGED <<epDev, failed>>
       \/ /\ n.type = "device_registration"
          /\ ep # "erased"
          /\ IF d \in pending
                THEN /\ epDev' = d
                     /\ pending' = pending \ {d}
                ELSE UNCHANGED <<epDev, pending>>
          /\ proc' = [proc EXCEPT !.pc = "destroy",
                         !.todo = Orphans(queue, n, pending', epDev', failed)]
          /\ UNCHANGED failed
       \/ /\ n.type = "device_registration"
          /\ ep = "erased"
          /\ failed' = failed \cup {d}
          /\ proc' = [proc EXCEPT !.pc = "destroy"]
          /\ UNCHANGED <<epDev, pending>>
       \/ /\ n.type = "device_disconnection"
          /\ epDev' = IF found THEN None ELSE epDev
          /\ proc' = [proc EXCEPT !.pc = "destroy",
                         !.todo = Orphans(queue, n, pending, epDev', failed)]
          /\ UNCHANGED <<pending, failed>>
    /\ UNCHANGED <<m, phase, registered, queue, ep, rpc, jan, cpc>>

(* CompleteConnection on the processor: the blocking handshake loop       *)
(* (while (true) completeHandshake) ends only when the device answers.    *)
ProcHandshake ==
    /\ proc.pc = "handshake"
    /\ proc.note.dev \notin Silent
    /\ phase' = [phase EXCEPT ![proc.note.dev] =
                    IF @ = "connecting" THEN "ready" ELSE @]
    /\ proc' = [proc EXCEPT !.pc = "destroy"]
    /\ UNCHANGED <<local, m, registered, queue, pending, ep, epDev, failed, rpc, jan, cpc>>

(* A destructor step of a device the processor orphaned: with LocalMutex_ *)
(* held in the handler, or before it in the dequeue.                      *)
ProcDestroy(d) ==
    /\ proc.pc \in {"destroy", "free"}
    /\ d \in proc.todo
    /\ \/ /\ DestructorLock("processor", d)
          /\ UNCHANGED proc
       \/ /\ DestructorEnd("processor", d)
          /\ proc' = [proc EXCEPT !.todo = @ \ {d}]
    /\ UNCHANGED <<local, registered, queue, pending, ep, epDev, failed, rpc, jan, cpc>>

(* The lock_guard releases LocalMutex_; the notification stays held.      *)
ProcRelease ==
    /\ proc.pc = "destroy"
    /\ proc.todo = {}
    /\ local' = None
    /\ proc' = [proc EXCEPT !.pc = "idle"]
    /\ UNCHANGED <<m, phase, registered, queue, pending, ep, epDev, failed, rpc, jan, cpc>>

-----------------------------------------------------------------------------
(* The reaper, onTimer: under LocalMutex_ erase the endpoint if TooOld     *)
(* (its device is released), clear FailedDevices, run the destructors of   *)
(* what that orphaned, release.                                            *)
JanitorSweep ==
    /\ jan.pc = "idle"
    /\ local = None
    /\ local' = "janitor"
    /\ ep' = IF ep = "old" THEN "erased" ELSE ep
    /\ epDev' = IF ep = "old" THEN None ELSE epDev
    /\ failed' = {}
    /\ jan' = [pc |-> "destroy", todo |-> Orphans(queue, HeldNote, pending, epDev', {})]
    /\ UNCHANGED <<m, phase, registered, queue, pending, rpc, proc, cpc>>

JanitorDestroy(d) ==
    /\ jan.pc = "destroy"
    /\ d \in jan.todo
    /\ \/ /\ DestructorLock("janitor", d)
          /\ UNCHANGED jan
       \/ /\ DestructorEnd("janitor", d)
          /\ jan' = [jan EXCEPT !.todo = @ \ {d}]
    /\ UNCHANGED <<local, registered, queue, pending, ep, epDev, failed, rpc, proc, cpc>>

JanitorRelease ==
    /\ jan.pc = "destroy"
    /\ jan.todo = {}
    /\ local' = None
    /\ jan' = [pc |-> "idle", todo |-> {}]
    /\ UNCHANGED <<m, phase, registered, queue, pending, ep, epDev, failed, rpc, proc, cpc>>

(* The session passes its staleness threshold (TooOld).                    *)
Age ==
    /\ ep = "live"
    /\ ep' = "old"
    /\ UNCHANGED <<local, m, phase, registered, queue, pending, epDev, failed, rpc, jan, proc, cpc>>

-----------------------------------------------------------------------------
(* The client side: RTTYS_server::SendKeyStrokes and WindowSize.           *)

(* lock_guard Lock(LocalMutex_), then EndPoints_.find(Id): a live session  *)
(* with a device forwards the call to it.  A missing session returns      *)
(* false at once, which changes nothing.                                   *)
ClientLock(op) ==
    /\ cpc.pc = "idle"
    /\ local = None
    /\ ep # "erased"
    /\ epDev # None
    /\ local' = "client"
    /\ cpc' = [pc |-> "send", op |-> op, dev |-> epDev]
    /\ UNCHANGED <<m, phase, registered, queue, pending, ep, epDev, failed, rpc, jan, proc>>

(* The device's KeyStrokes or WindowSize: return false unless valid_, else *)
(* sendBytes on socket_ without M_ (the Guard G(M_) is commented out), any *)
(* exception caught; then the lock_guard releases LocalMutex_.             *)
ClientSend ==
    /\ cpc.pc = "send"
    /\ local' = IF local = "client" THEN None ELSE local
    /\ cpc' = [cpc EXCEPT !.pc = "idle", !.dev = None]
    /\ UNCHANGED <<m, phase, registered, queue, pending, ep, epDev, failed, rpc, jan, proc>>

Client == ClientSend \/ \E op \in ClientOps : ClientLock(op)

-----------------------------------------------------------------------------
Reactor ==
    \/ \E d \in Devices : onAccept(d) \/ Dispatch(d)
    \/ ReadLock \/ ReadFrames \/ SendToClient \/ ReadClose

Processor ==
    \/ ProcDequeue \/ ProcLock \/ ProcHandshake \/ ProcRelease \/ ProcNext
    \/ \E d \in Devices : ProcDestroy(d)

Janitor ==
    JanitorSweep \/ JanitorRelease \/ \E d \in Devices : JanitorDestroy(d)

Next ==
    \/ Reactor
    \/ \E d \in Devices : CtorComplete(d)
    \/ Processor
    \/ Janitor
    \/ Client
    \/ Age

(* Each thread is a dedicated OS thread; the reaper is a periodic timer.   *)
Spec == Init /\ [][Next]_vars
        /\ WF_vars(Processor)
        /\ \A d \in Devices : WF_vars(CtorComplete(d))
-----------------------------------------------------------------------------
TypeOK ==
    /\ local \in Threads \cup {None}
    /\ m \in [Devices -> Threads \cup {None}]
    /\ phase \in [Devices -> {"absent", "connecting", "ready", "closed", "gone"}]
    /\ pending \subseteq Devices /\ failed \subseteq Devices
    /\ epDev \in Devices \cup {None}
    /\ ep \in {"live", "old", "erased"}
    /\ rpc \in [pc : {"idle", "dispatch", "read", "send", "closing"},
               dev : Devices \cup {None}]
    /\ cpc \in [pc : {"idle", "send"}, op : ClientOps, dev : Devices \cup {None}]

(* No thread runs on a destroyed connection.  The reactor is inside a    *)
(* callback of the object from its dispatch until the callback returns:   *)
(* the processor, the reaper and the processor's dequeue must not run the  *)
(* destructor to its end meanwhile, and the client side, which reaches    *)
(* the device through the endpoint with LocalMutex_ held, must find it    *)
(* alive in KeyStrokes and WindowSize, which do not take M_.              *)
NoUseAfterFree ==
    /\ rpc.pc # "idle" => phase[rpc.dev] # "gone"
    /\ cpc.pc = "send" => phase[cpc.dev] # "gone"

Todo(t) == IF t = "janitor" THEN jan.todo ELSE proc.todo

(* No two threads wait for each other.  onSocketReadable takes M_ then   *)
(* LocalMutex_ (SendToClient), while run() and onTimer take LocalMutex_    *)
(* and then, in a destructor, M_; and a destructor holding M_ waits in     *)
(* removeEventHandler for the callback in progress, which waits for M_.    *)
NoLockCycle ==
    /\ ~ /\ rpc.pc = "send"
         /\ \E t \in {"janitor", "processor"} :
               /\ local = t
               /\ Todo(t) # {}
               /\ \A d \in Todo(t) : m[d] = "reactor"
    /\ ~ /\ rpc.pc = "dispatch"
         /\ m[rpc.dev] \in {"janitor", "processor"}

(* The processor always gets past a device's TLS handshake, so one device *)
(* cannot hold LocalMutex_, and with it every session, for ever: the      *)
(* handshake is to run on a helper task that does not stall the others.  *)
HandshakeReturns == (proc.pc = "handshake") ~> (proc.pc # "handshake")
====
