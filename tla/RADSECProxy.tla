----------------------------- MODULE RADSECProxy -----------------------------
(***************************************************************************)
(* The RADSEC proxy connection of src/src/RADSEC_server.h: the reconnect   *)
(* and keep-alive thread (run), the reactor callbacks onData, onError and  *)
(* onShutdown that tear the connection down through Disconnect, and Stop,  *)
(* called by the destructor from another thread.  Time is abstracted: a    *)
(* trySleep may end at any moment, and a keep-alive may or may not be due. *)
(* The network is an environment that breaks the current connection at    *)
(* most MaxBreaks times and refuses at most MaxFailedConnects connects.    *)
(***************************************************************************)
EXTENDS Naturals

CONSTANTS
    MaxBreaks,          \* network failures of an established connection
    MaxFailedConnects   \* connect or TLS handshake failures

ASSUME MaxBreaks \in Nat /\ MaxFailedConnects \in Nat

VARIABLES
    connected,  \* Connected_
    tryAgain,   \* TryAgain_
    sock,       \* state of *Socket_: "none" (absent or never connected), "open", "closed"
    link,       \* the network path under the current socket: "up" or "down"
    handlers,   \* onData/onError/onShutdown registered with Reactor_ for Socket_
    rt,         \* the reconnect thread running run()
    rx,         \* the reactor thread: "idle", or "checked" inside Disconnect
    st,         \* the thread calling Stop()
    breaks,     \* network failures so far
    fails,      \* failed connects so far
    certs       \* Server_'s key and certificates parse (fixed by the configuration)

vars == <<connected, tryAgain, sock, link, handlers, rt, rx, st, breaks, fails, certs>>

(* Program points of run(): "sleep" in trySleep, "loop" at the top of the  *)
(* loop body, "connect" inside Connect() holding LocalMutex_, "send" about  *)
(* to send a keep-alive, "exited" after the loop, "dead" after an          *)
(* exception left run().                                                   *)
RunPCs == {"sleep", "loop", "connect", "send", "exited", "dead"}

StopPCs == {"running", "disconnect", "checked", "locked", "join", "stopped"}

(* LocalMutex_ (a recursive_mutex) is held by the reconnect thread from    *)
(* run()'s lock_guard to the end of Connect(), and by Stop() in            *)
(* Disconnect; the reactor's locked part of Disconnect is one step.        *)
LockFree == rt # "connect" /\ st # "locked"

Init ==
    /\ connected = FALSE
    /\ tryAgain = TRUE
    /\ sock = "none"
    /\ link = "up"
    /\ handlers = FALSE
    /\ rt = "sleep"
    /\ rx = "idle"
    /\ st = "running"
    /\ breaks = 0
    /\ fails = 0
    /\ certs \in BOOLEAN

(* The body of Disconnect() under LocalMutex_: remove the three handlers,  *)
(* close the socket, clear Connected_.                                     *)
Teardown ==
    /\ handlers' = FALSE
    /\ sock' = "closed"
    /\ connected' = FALSE

(* trySleep returns (timeout or Stop's wakeUp) and while (TryAgain_) is    *)
(* evaluated.                                                              *)
Wake ==
    /\ rt = "sleep"
    /\ rt' = IF tryAgain THEN "loop" ELSE "exited"
    /\ UNCHANGED <<connected, tryAgain, sock, link, handlers, rx, st, breaks, fails, certs>>

(* !Connected_: lock_guard G(LocalMutex_) and Connect(), which returns false *)
(* at once when TryAgain_ has been cleared.                                *)
RunConnect ==
    /\ rt = "loop"
    /\ ~connected
    /\ LockFree
    /\ rt' = IF tryAgain THEN "connect" ELSE "sleep"
    /\ UNCHANGED <<connected, tryAgain, sock, link, handlers, rx, st, breaks, fails, certs>>

(* The rest of Connect().  Loading the key and certificates is outside the *)
(* try block: a failure there leaves run() by an exception.  A connect or  *)
(* handshake failure is caught; Socket_ is already the new, unconnected    *)
(* socket.  On success the handlers are added and Connected_ is set.      *)
Connect ==
    /\ rt = "connect"
    /\ \/ /\ ~certs
          /\ rt' = "dead"
          /\ UNCHANGED <<connected, sock, link, handlers, fails>>
       \/ /\ certs
          /\ fails < MaxFailedConnects
          /\ fails' = fails + 1
          /\ sock' = "none"
          /\ rt' = "sleep"
          /\ UNCHANGED <<connected, link, handlers>>
       \/ /\ certs
          /\ sock' = "open"
          /\ link' = "up"
          /\ handlers' = TRUE
          /\ connected' = TRUE
          /\ rt' = "sleep"
          /\ UNCHANGED fails
    /\ UNCHANGED <<tryAgain, rx, st, breaks, certs>>

(* Connected_: when the keep-alive interval has passed a status packet is *)
(* sent, otherwise the thread goes back to sleep.  Neither branch locks.  *)
RunKeepAlive ==
    /\ rt = "loop"
    /\ connected
    /\ rt' \in {"send", "sleep"}
    /\ UNCHANGED <<connected, tryAgain, sock, link, handlers, rx, st, breaks, fails, certs>>

(* Socket_->sendBytes outside any try block: on a closed socket it throws, *)
(* on a broken link it may throw or be buffered; a throw ends run().       *)
KeepAliveSend ==
    /\ rt = "send"
    /\ rt' \in IF sock = "open" /\ link = "up" THEN {"sleep"}
               ELSE IF sock = "open" THEN {"sleep", "dead"}
               ELSE {"dead"}
    /\ UNCHANGED <<connected, tryAgain, sock, link, handlers, rx, st, breaks, fails, certs>>

(* The reactor sees the broken connection and calls onError, onShutdown,  *)
(* or onData with a short read; each calls Disconnect(), whose first act  *)
(* is the unlocked test of Connected_.                                     *)
ReactorDisconnect ==
    /\ rx = "idle"
    /\ handlers
    /\ link = "down"
    /\ connected
    /\ rx' = "checked"
    /\ UNCHANGED <<connected, tryAgain, sock, link, handlers, rt, st, breaks, fails, certs>>

(* The reactor takes LocalMutex_ and tears down; removeEventHandler called *)
(* from the reactor's own callback does not wait for that callback.        *)
ReactorTeardown ==
    /\ rx = "checked"
    /\ LockFree
    /\ Teardown
    /\ rx' = "idle"
    /\ UNCHANGED <<tryAgain, link, rt, st, breaks, fails, certs>>

(* Stop(): clear TryAgain_, Disconnect(), wake the thread and join it.     *)
StopBegin ==
    /\ st = "running"
    /\ tryAgain' = FALSE
    /\ st' = "disconnect"
    /\ UNCHANGED <<connected, sock, link, handlers, rt, rx, breaks, fails, certs>>

StopCheck ==
    /\ st = "disconnect"
    /\ st' = IF connected THEN "checked" ELSE "join"
    /\ UNCHANGED <<connected, tryAgain, sock, link, handlers, rt, rx, breaks, fails, certs>>

StopLock ==
    /\ st = "checked"
    /\ LockFree
    /\ st' = "locked"
    /\ UNCHANGED <<connected, tryAgain, sock, link, handlers, rt, rx, breaks, fails, certs>>

(* removeEventHandler from Stop's thread: Poco's NObserver::disable takes  *)
(* the observer mutex that notify holds while a callback runs, so the      *)
(* teardown waits until no callback of this object is in progress.        *)
StopTeardown ==
    /\ st = "locked"
    /\ rx = "idle"
    /\ Teardown
    /\ st' = "join"
    /\ UNCHANGED <<tryAgain, link, rt, rx, breaks, fails, certs>>

StopJoin ==
    /\ st = "join"
    /\ rt \in {"exited", "dead"}
    /\ st' = "stopped"
    /\ UNCHANGED <<connected, tryAgain, sock, link, handlers, rt, rx, breaks, fails, certs>>

(* The network: the peer or the path fails, or a read returns fewer than  *)
(* the 20 bytes of a RADIUS header (onData treats both alike).            *)
Break ==
    /\ sock = "open"
    /\ link = "up"
    /\ breaks < MaxBreaks
    /\ link' = "down"
    /\ breaks' = breaks + 1
    /\ UNCHANGED <<connected, tryAgain, sock, handlers, rt, rx, st, fails, certs>>

Thread ==
    Wake \/ RunConnect \/ Connect \/ RunKeepAlive \/ KeepAliveSend

Reactor == ReactorDisconnect \/ ReactorTeardown

Stopper == StopCheck \/ StopLock \/ StopTeardown \/ StopJoin

Next == Thread \/ Reactor \/ StopBegin \/ Stopper \/ Break

(* run() is a dedicated thread and the reactor a dedicated loop, so each  *)
(* of their enabled steps is eventually taken; a Stop() that has begun    *)
(* runs on.  Nothing forces Stop() to be called or the network to fail.   *)
Fairness == WF_vars(Thread) /\ WF_vars(Reactor) /\ WF_vars(Stopper)

Spec == Init /\ [][Next]_vars /\ Fairness

-----------------------------------------------------------------------------

TypeOK ==
    /\ connected \in BOOLEAN
    /\ tryAgain \in BOOLEAN
    /\ sock \in {"none", "open", "closed"}
    /\ link \in {"up", "down"}
    /\ handlers \in BOOLEAN
    /\ rt \in RunPCs
    /\ rx \in {"idle", "checked"}
    /\ st \in StopPCs
    /\ breaks \in 0..MaxBreaks
    /\ fails \in 0..MaxFailedConnects
    /\ certs \in BOOLEAN

(* Once Stop() has begun, it returns: its Disconnect completes, the       *)
(* reconnect thread leaves its loop and join() completes, whatever         *)
(* Connect, the keep-alive or the reactor's callbacks were doing.          *)
StopTerminates == (st = "disconnect") ~> (st = "stopped")

(* While TryAgain_ is set and the configuration is usable, a lost         *)
(* connection is re-established: run()'s loop exists to reconnect after   *)
(* the reactor resets the connection ("Resetting the connection.").       *)
ReconnectAfterLoss == (certs /\ tryAgain /\ ~connected) ~> (connected \/ ~tryAgain)

(* When Stop() returns, the connection is closed and no handler of this   *)
(* object is left in the reactor, since the destructor frees the object   *)
(* next.                                                                  *)
StopLeavesNothing == st = "stopped" => ~handlers /\ ~connected
=============================================================================
