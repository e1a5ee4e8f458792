----------------------------- MODULE IpcServer -----------------------------
(***************************************************************************)
(* The IPC thread of haptic-server/src/ipc.rs: it accepts connections,     *)
(* binds each to an instance id with its Hello, stamps and forwards        *)
(* commands into the engine's ring, and turns every lost connection into a *)
(* DisconnectInstance that is retried until the ring takes it.             *)
(*                                                                         *)
(* One pass of listen_loop_at is accept ; visit every client ; cleanup ;   *)
(* status ; flush.  The peers and the engine run between any two steps of  *)
(* it.  The engine is abstract here: it pops commands and remembers which  *)
(* instances it has registered and how the outputs are routed.             *)
(*                                                                         *)
(* Of a client's queued status bytes only this is kept: whether there are  *)
(* any, whether they overflowed, and which routing they show.              *)
(*                                                                         *)
(* Definitions named Faulty... are not part of the model: each is a bug    *)
(* that a property has to catch, next to the definition it spoils.         *)
(***************************************************************************)
EXTENDS HapticProtocol

CONSTANTS
  Conn,        \* connections that may exist at one time
  Message,     \* the frames the peers of this instance of the model write
  Capacity,    \* COMMAND_QUEUE_CAPACITY
  Reserve,     \* CRITICAL_COMMAND_RESERVE
  InboxBound   \* bound on the frames a socket buffer holds

ASSUME IpcAssumption ==
  /\ None \notin Conn
  /\ Message \subseteq Frame
  /\ Capacity \in Nat /\ Reserve \in Nat /\ InboxBound \in Nat

VARIABLES
  command_queue,       \* the SPSC ring to the engine
  peer_open,           \* conn -> the client process still has its end open
  inbox,               \* conn -> frames written and not yet read
  link,                \* conn -> where the server's end is
  instance_id,         \* conn -> id bound by its Hello, or None
  wants_status,        \* conn -> it identified as an Observer
  greeted,             \* conn -> it has been sent layout and routing
  status_output,       \* conn -> what its queue of status bytes holds
  shown,               \* conn -> routing in the newest frame queued for it
  at,                  \* where the loop is
  todo,                \* clients this pass has yet to visit
  current,             \* the client being decoded
  frames,              \* its frames read and not yet dispatched
  active_instances,    \* ids reserved by the server
  pending_disconnects, \* ids whose DisconnectInstance awaits the ring
  routes,              \* mirror of the engine's monitor routing
  routing_dirty,       \* observers have not been told the routing
  registered,          \* engine: registered instances
  monitor_routes       \* engine: monitor routing

peers    == <<peer_open, inbox, link>>
identity == <<instance_id, active_instances, pending_disconnects>>
status   == <<wants_status, greeted, status_output, shown, routing_dirty>>
loop     == <<at, todo, current, frames>>
engine   == <<registered, monitor_routes>>
ipcVars  == <<peers, identity, status, loop, routes>>
vars     == <<command_queue, ipcVars, engine>>

Routing == [Transducer -> Transducer]

TypeOK ==
  /\ command_queue \in Seq(EngineCommand)
  /\ Len(command_queue) <= Capacity
  /\ peer_open \in [Conn -> BOOLEAN]
  /\ inbox \in [Conn -> Seq(Frame)]
  /\ link \in [Conn -> {"closed", "backlog", "client", "dropped"}]
  /\ instance_id \in [Conn -> Instance \cup {None}]
  /\ wants_status \in [Conn -> BOOLEAN]
  /\ greeted \in [Conn -> BOOLEAN]
  /\ status_output \in [Conn -> {"empty", "pending", "overflowed"}]
  /\ shown \in [Conn -> Routing \cup {None}]
  /\ at \in {"accept", "visit", "decode", "cleanup", "status", "flush"}
  /\ todo \in SUBSET Conn
  /\ current \in Conn \cup {None}
  /\ frames \in Seq(Frame)
  /\ active_instances \in SUBSET Instance
  /\ pending_disconnects \in Seq(Instance)
  /\ routes \in Routing
  /\ routing_dirty \in BOOLEAN
  /\ registered \in SUBSET Instance
  /\ monitor_routes \in Routing

-----------------------------------------------------------------------------
(***************************************************************************)
(* The client processes.                                                   *)
(***************************************************************************)
Connect(c) ==
  /\ link[c] = "closed"
  /\ link' = [link EXCEPT ![c] = "backlog"]
  /\ peer_open' = [peer_open EXCEPT ![c] = TRUE]
  /\ UNCHANGED <<command_queue, inbox, identity, status, loop, routes, engine>>

Send(c, m) ==
  /\ peer_open[c]
  /\ link[c] \in {"backlog", "client"}
  /\ Len(inbox[c]) < InboxBound
  /\ inbox' = [inbox EXCEPT ![c] = Append(@, m)]
  /\ UNCHANGED <<command_queue, peer_open, link, identity, status, loop, routes,
                 engine>>

Close(c) ==
  /\ peer_open[c]
  /\ peer_open' = [peer_open EXCEPT ![c] = FALSE]
  /\ link' = [link EXCEPT ![c] = IF @ = "dropped" THEN "closed" ELSE @]
  /\ UNCHANGED <<command_queue, inbox, identity, status, loop, routes, engine>>

-----------------------------------------------------------------------------
(***************************************************************************)
(* Shared pieces of the loop.                                              *)
(***************************************************************************)
Clients == {c \in Conn : link[c] = "client"}

FreePlaces == Capacity - Len(command_queue)

Push(cmd) == command_queue' = Append(command_queue, cmd)

Critical(kind) == kind \in {"Hello", "NoteOff", "Panic"}

\* Owes no cleanup.
FaultyDropClient(c, id) ==
  /\ link' = [link EXCEPT ![c] = IF peer_open[c] THEN "dropped" ELSE "closed"]
  /\ inbox' = [inbox EXCEPT ![c] = <<>>]
  /\ instance_id' = [instance_id EXCEPT ![c] = None]
  /\ wants_status' = [wants_status EXCEPT ![c] = FALSE]
  /\ greeted' = [greeted EXCEPT ![c] = FALSE]
  /\ status_output' = [status_output EXCEPT ![c] = "empty"]
  /\ shown' = [shown EXCEPT ![c] = None]
  /\ UNCHANGED <<peer_open, pending_disconnects, routing_dirty>>

\* retain_mut drops the client; when it was bound to id, cleanup is owed.
DropClient(c, id) ==
  /\ link' = [link EXCEPT ![c] = IF peer_open[c] THEN "dropped" ELSE "closed"]
  /\ inbox' = [inbox EXCEPT ![c] = <<>>]
  /\ instance_id' = [instance_id EXCEPT ![c] = None]
  /\ wants_status' = [wants_status EXCEPT ![c] = FALSE]
  /\ greeted' = [greeted EXCEPT ![c] = FALSE]
  /\ status_output' = [status_output EXCEPT ![c] = "empty"]
  /\ shown' = [shown EXCEPT ![c] = None]
  /\ pending_disconnects' = IF id = None THEN pending_disconnects
                            ELSE Append(pending_disconnects, id)
  /\ UNCHANGED <<peer_open, routing_dirty>>

-----------------------------------------------------------------------------
(***************************************************************************)
(* accept: at most one connection per pass.                                *)
(***************************************************************************)
Accept(c) ==
  /\ at = "accept"
  /\ link[c] = "backlog"
  /\ link' = [link EXCEPT ![c] = "client"]
  /\ at' = "visit"
  /\ todo' = Clients \cup {c}
  /\ UNCHANGED <<command_queue, peer_open, inbox, identity, status, current,
                 frames, routes, engine>>

\* Nobody is waiting, or accept() failed: the loop goes on either way.
AcceptNone ==
  /\ at = "accept"
  /\ at' = "visit"
  /\ todo' = Clients
  /\ UNCHANGED <<command_queue, peers, identity, status, current, frames, routes,
                 engine>>

\* The new stream cannot be made nonblocking: it is closed, and the loop starts
\* the next pass at once.
AcceptFail(c) ==
  /\ at = "accept"
  /\ link[c] = "backlog"
  /\ link' = [link EXCEPT ![c] = IF peer_open[c] THEN "dropped" ELSE "closed"]
  /\ inbox' = [inbox EXCEPT ![c] = <<>>]
  /\ UNCHANGED <<command_queue, peer_open, identity, status, loop, routes, engine>>

(***************************************************************************)
(* handle_client: read to the end of what the socket holds, then dispatch. *)
(***************************************************************************)
\* Releases the id before the engine has been told.
FaultyReadEnd(c) ==
  /\ at = "visit" /\ c \in todo
  /\ DropClient(c, instance_id[c])
  /\ active_instances' = active_instances \ {instance_id[c]}
  /\ todo' = todo \ {c}
  /\ UNCHANGED <<command_queue, at, current, frames, routes, engine>>

\* The read loop meets the end of the stream, or an error, before it stops: the
\* client is dropped and what it wrote before is never decoded.
ReadEnd(c) ==
  /\ at = "visit" /\ c \in todo
  /\ DropClient(c, instance_id[c])
  /\ todo' = todo \ {c}
  /\ UNCHANGED <<command_queue, at, current, frames, active_instances, routes,
                 engine>>

ReadFrames(c) ==
  /\ at = "visit" /\ c \in todo
  /\ peer_open[c]
  /\ at' = "decode"
  /\ current' = c
  /\ frames' = inbox[c]
  /\ inbox' = [inbox EXCEPT ![c] = <<>>]
  /\ UNCHANGED <<command_queue, peer_open, link, identity, status, todo, routes,
                 engine>>

VisitDone ==
  /\ at = "visit" /\ todo = {}
  /\ at' = "cleanup"
  /\ UNCHANGED <<command_queue, peers, identity, status, todo, current, frames,
                 routes, engine>>

\* The frame being dispatched, and the id its client is bound to.
Decoding == at = "decode" /\ frames # <<>>
Bound == instance_id[current]
NextFrame ==
  /\ frames' = Tail(frames)
  /\ UNCHANGED <<at, todo, current>>
LeaveClient ==
  /\ at' = "visit"
  /\ todo' = todo \ {current}
  /\ current' = None
  /\ frames' = <<>>

DecodeDone ==
  /\ at = "decode" /\ frames = <<>>
  /\ LeaveClient
  /\ UNCHANGED <<command_queue, peers, identity, status, routes, engine>>

\* An undecodable frame, or an invalid command of an identified client.
SkipFrame ==
  /\ Decoding
  /\ LET m == Head(frames)
     IN  \/ m.kind = "Undecodable"
         \/ m.kind = "InvalidCommand" /\ Bound # None
  /\ NextFrame
  /\ UNCHANGED <<command_queue, peers, identity, status, routes, engine>>

\* Accepts an id that another client holds.
FaultyMustRejectRepeated(m) ==
  \/ m.kind \in {"Oversized", "InvalidHello"}
  \/ m.kind = "Hello" /\ Bound # None
  \/ m.kind \notin {"Hello", "Undecodable"} /\ Bound = None

\* Accepts an id whose cleanup is still owed.
FaultyMustRejectLive(m) ==
  \/ m.kind \in {"Oversized", "InvalidHello"}
  \/ m.kind = "Hello"
       /\ (Bound # None \/ \E c \in Conn : instance_id[c] = m.body.id)
  \/ m.kind \notin {"Hello", "Undecodable"} /\ Bound = None

MustReject(m) ==
  \/ m.kind \in {"Oversized", "InvalidHello"}
  \/ m.kind = "Hello" /\ (Bound # None \/ m.body.id \in active_instances)
  \/ m.kind \notin {"Hello", "Undecodable"} /\ Bound = None

RejectClient ==
  /\ Decoding
  /\ MustReject(Head(frames))
  /\ DropClient(current, Bound)
  /\ LeaveClient
  /\ UNCHANGED <<command_queue, active_instances, routes, engine>>

\* The acknowledgement is queued only after the registration is in the ring.
Hello ==
  /\ Decoding
  /\ LET m == Head(frames)
     IN  /\ m.kind = "Hello" /\ ~MustReject(m)
         /\ FreePlaces > 0
         /\ Push(FromWire(m, m.body.id))
         /\ instance_id' = [instance_id EXCEPT ![current] = m.body.id]
         /\ active_instances' = active_instances \cup {m.body.id}
         /\ wants_status' = [wants_status EXCEPT
                               ![current] = (m.body.role = "Observer")]
         /\ status_output' = [status_output EXCEPT ![current] = "pending"]
  /\ NextFrame
  /\ UNCHANGED <<peers, pending_disconnects, greeted, shown, routing_dirty, routes,
                 engine>>

\* The ring is full: the id is already reserved, so the dropped client leaves
\* it to the cleanup.
HelloOverflow ==
  /\ Decoding
  /\ LET m == Head(frames)
     IN  /\ m.kind = "Hello" /\ ~MustReject(m)
         /\ FreePlaces <= 0
         /\ active_instances' = active_instances \cup {m.body.id}
         /\ DropClient(current, m.body.id)
  /\ LeaveClient
  /\ UNCHANGED <<command_queue, routes, engine>>

Performance(m) == m.kind \notin
  {"Hello", "InvalidHello", "InvalidCommand", "Undecodable", "Oversized"}

FaultyAdmitted(m) ==
  /\ FreePlaces > 0
  /\ Critical(m.kind) \/ FreePlaces >= Reserve

Admitted(m) ==
  /\ FreePlaces > 0
  /\ Critical(m.kind) \/ FreePlaces > Reserve

\* Mirrors the route and forgets to tell the observers.
FaultyForward ==
  /\ Decoding
  /\ LET m == Head(frames)
     IN  /\ Performance(m) /\ Bound # None
         /\ Admitted(m)
         /\ Push(FromWire(m, Bound))
         /\ routes' = IF m.kind = "SetMonitorRoute"
                      THEN [routes EXCEPT ![m.body.output] = m.body.source]
                      ELSE routes
  /\ NextFrame
  /\ UNCHANGED <<peers, identity, status, engine>>

Forward ==
  /\ Decoding
  /\ LET m == Head(frames)
     IN  /\ Performance(m) /\ Bound # None
         /\ Admitted(m)
         /\ Push(FromWire(m, Bound))
         /\ IF m.kind = "SetMonitorRoute"
            THEN /\ routes' = [routes EXCEPT ![m.body.output] = m.body.source]
                 /\ routing_dirty' = TRUE
            ELSE UNCHANGED <<routes, routing_dirty>>
  /\ NextFrame
  /\ UNCHANGED <<peers, identity, wants_status, greeted, status_output, shown,
                 engine>>

\* Mirrors a route that the ring never took.
FaultyShed ==
  /\ Decoding
  /\ LET m == Head(frames)
     IN  /\ Performance(m) /\ Bound # None /\ ~Admitted(m)
         /\ routes' = IF m.kind = "SetMonitorRoute"
                      THEN [routes EXCEPT ![m.body.output] = m.body.source]
                      ELSE routes
  /\ NextFrame
  /\ UNCHANGED <<command_queue, peers, identity, status, engine>>

\* Non-critical at the reserve, or anything at a full ring: lost silently.
Shed ==
  /\ Decoding
  /\ LET m == Head(frames) IN Performance(m) /\ Bound # None /\ ~Admitted(m)
  /\ NextFrame
  /\ UNCHANGED <<command_queue, peers, identity, status, routes, engine>>

(***************************************************************************)
(* Cleanup: an id is released once its DisconnectInstance is in the ring.  *)
(***************************************************************************)
\* Writes past the end of the ring.
FaultyCleanupPushUnbounded ==
  /\ at = "cleanup"
  /\ pending_disconnects # <<>>
  /\ Push(Disconnect(Head(pending_disconnects)))
  /\ pending_disconnects' = Tail(pending_disconnects)
  /\ active_instances' = active_instances \ {Head(pending_disconnects)}
  /\ UNCHANGED <<peers, instance_id, status, loop, routes, engine>>

\* Pops the id before it tries the push, and loses it at a full ring.
FaultyCleanupPushLossy ==
  /\ at = "cleanup"
  /\ pending_disconnects # <<>>
  /\ IF FreePlaces > 0 THEN Push(Disconnect(Head(pending_disconnects)))
     ELSE UNCHANGED command_queue
  /\ pending_disconnects' = Tail(pending_disconnects)
  /\ active_instances' = active_instances \ {Head(pending_disconnects)}
  /\ UNCHANGED <<peers, instance_id, status, loop, routes, engine>>

CleanupPush ==
  /\ at = "cleanup"
  /\ pending_disconnects # <<>>
  /\ FreePlaces > 0
  /\ Push(Disconnect(Head(pending_disconnects)))
  /\ pending_disconnects' = Tail(pending_disconnects)
  /\ active_instances' = active_instances \ {Head(pending_disconnects)}
  /\ UNCHANGED <<peers, instance_id, status, loop, routes, engine>>

CleanupDone ==
  /\ at = "cleanup"
  /\ pending_disconnects = <<>> \/ FreePlaces <= 0
  /\ at' = "status"
  /\ UNCHANGED <<command_queue, peers, identity, status, todo, current, frames,
                 routes, engine>>

(***************************************************************************)
(* Status: greet new observers, then broadcast the routing if it changed   *)
(* (or the device became known); levels, outputs or a layout may follow.   *)
(***************************************************************************)
Observers == {c \in Clients : wants_status[c]}

\* queue_status_frame gives up on an observer whose backlog would grow above
\* MAX_CLIENT_STATUS_BYTES; one without a backlog has room for a whole pass.
ServeStatus(device_changed, other_broadcast) ==
  LET new    == {c \in Observers : ~greeted[c]}
      routed == IF routing_dirty \/ device_changed THEN Observers ELSE new
      sent   == IF other_broadcast THEN Observers ELSE routed
  IN  /\ at = "status"
      /\ greeted' = [c \in Conn |-> greeted[c] \/ c \in new]
      /\ \E over \in SUBSET {c \in sent : status_output[c] = "pending"} :
           /\ shown' = [c \in Conn |-> IF c \in routed \ over THEN routes
                                        ELSE shown[c]]
           /\ status_output' =
                [c \in Conn |-> IF c \in over THEN "overflowed"
                                ELSE IF c \in sent THEN "pending"
                                ELSE status_output[c]]
      /\ routing_dirty' = FALSE
      /\ at' = "flush"
      /\ todo' = Clients
      /\ UNCHANGED <<command_queue, peers, identity, wants_status, current, frames,
                     routes, engine>>

\* Everything is written, or the socket would block and some bytes stay.
FlushWrite(c) ==
  /\ at = "flush" /\ c \in todo
  /\ status_output[c] # "overflowed"
  /\ \E left \in {"empty", status_output[c]} :
       status_output' = [status_output EXCEPT ![c] = left]
  /\ todo' = todo \ {c}
  /\ UNCHANGED <<command_queue, peers, identity, wants_status, greeted, shown,
                 routing_dirty, at, current, frames, routes, engine>>

\* A terminal write error, or an overflowed backlog.
FlushFail(c) ==
  /\ at = "flush" /\ c \in todo
  /\ status_output[c] # "empty"
  /\ DropClient(c, instance_id[c])
  /\ todo' = todo \ {c}
  /\ UNCHANGED <<command_queue, at, current, frames, active_instances, routes,
                 engine>>

FlushDone ==
  /\ at = "flush" /\ todo = {}
  /\ at' = "accept"
  /\ UNCHANGED <<command_queue, peers, identity, status, todo, current, frames,
                 routes, engine>>

IpcStep ==
  \/ \E c \in Conn : \/ Accept(c) \/ AcceptFail(c) \/ ReadEnd(c) \/ ReadFrames(c)
                     \/ FlushWrite(c) \/ FlushFail(c)
  \/ AcceptNone \/ VisitDone \/ DecodeDone \/ SkipFrame \/ RejectClient
  \/ Hello \/ HelloOverflow \/ Forward \/ Shed \/ CleanupPush \/ CleanupDone
  \/ \E device_changed, other_broadcast \in BOOLEAN :
       ServeStatus(device_changed, other_broadcast)
  \/ FlushDone

PeerStep ==
  \E c \in Conn : Connect(c) \/ Close(c) \/ \E m \in Message : Send(c, m)

-----------------------------------------------------------------------------
(***************************************************************************)
(* The engine, as far as the IPC thread depends on it.                     *)
(***************************************************************************)
EnginePop ==
  /\ command_queue # <<>>
  /\ command_queue' = Tail(command_queue)
  /\ LET cmd == Head(command_queue)
     IN  /\ registered' =
              CASE cmd.kind = "RegisterInstance"   -> registered \cup {cmd.id}
                [] cmd.kind = "DisconnectInstance" -> registered \ {cmd.id}
                [] OTHER -> registered
         /\ monitor_routes' =
              IF cmd.kind = "SetMonitorRoute"
              THEN [monitor_routes EXCEPT ![cmd.body.output] = cmd.body.source]
              ELSE monitor_routes
  /\ UNCHANGED ipcVars

IpcInit ==
  /\ peer_open = [c \in Conn |-> FALSE]
  /\ inbox = [c \in Conn |-> <<>>]
  /\ link = [c \in Conn |-> "closed"]
  /\ instance_id = [c \in Conn |-> None]
  /\ wants_status = [c \in Conn |-> FALSE]
  /\ greeted = [c \in Conn |-> FALSE]
  /\ status_output = [c \in Conn |-> "empty"]
  /\ shown = [c \in Conn |-> None]
  /\ at = "accept" /\ todo = {} /\ current = None /\ frames = <<>>
  /\ active_instances = {}
  /\ pending_disconnects = <<>>
  /\ routes = [p \in Transducer |-> p]
  /\ routing_dirty = FALSE

Init ==
  /\ command_queue = <<>>
  /\ IpcInit
  /\ registered = {}
  /\ monitor_routes = [p \in Transducer |-> p]

Next == IpcStep \/ PeerStep \/ EnginePop

Spec == Init /\ [][Next]_vars

-----------------------------------------------------------------------------
(***************************************************************************)
(* Properties.  The engine sees, for every instance, the registrations and *)
(* disconnections in ring order; OpenBefore(i, k) says that i is           *)
(* registered by the time the command at place k is applied.               *)
(***************************************************************************)
Places == 1..Len(command_queue)

IsDisconnect(i, k) ==
  command_queue[k].kind = "DisconnectInstance" /\ command_queue[k].id = i

IsRegister(i, k) ==
  command_queue[k].kind = "RegisterInstance" /\ command_queue[k].id = i

OpenBefore(i, k) ==
  \/ i \in registered /\ \A l \in Places : l < k => ~IsDisconnect(i, l)
  \/ \E j \in Places :
       /\ j < k /\ IsRegister(i, j)
       /\ \A l \in Places : j < l /\ l < k => ~IsDisconnect(i, l)

EndOfRing == Len(command_queue) + 1

\* An id is reserved exactly while one connection is bound to it or one cleanup
\* is owed for it, never two of them: a second client cannot take the id of a
\* live one, and no cleanup is owed twice or for a live client.
OneHolderPerId ==
  /\ \A i \in Instance :
       i \in active_instances <=>
         \/ \E c \in Conn : instance_id[c] = i
         \/ \E k \in DOMAIN pending_disconnects : pending_disconnects[k] = i
  /\ \A c, d \in Conn :
       c # d /\ instance_id[c] # None => instance_id[c] # instance_id[d]
  /\ \A j, k \in DOMAIN pending_disconnects :
       j # k => pending_disconnects[j] # pending_disconnects[k]
  /\ \A c \in Conn : \A k \in DOMAIN pending_disconnects :
       instance_id[c] # pending_disconnects[k]

\* In ring order an instance is registered before its first command, is not
\* registered twice without a disconnection between, and nothing stamped with
\* its id follows the disconnection.
SessionOrder ==
  \A k \in Places :
    LET cmd == command_queue[k]
    IN  /\ cmd.kind = "RegisterInstance" => ~OpenBefore(cmd.id, k)
        /\ cmd.kind \notin {"RegisterInstance", "DisconnectInstance", "Panic"}
             => OpenBefore(cmd.id, k)

\* A bound client stays registered once the engine has applied the whole ring:
\* the delayed cleanup of an older connection is always ahead of its Hello.
LiveClientsStayRegistered ==
  \A c \in Conn : instance_id[c] # None => OpenBefore(instance_id[c], EndOfRing)

\* No registration outlives its connection: an instance that the engine will
\* still have after the whole ring is reserved by a client or owed a cleanup.
NoRegistrationLeak ==
  \A i \in Instance : OpenBefore(i, EndOfRing) => i \in active_instances

CriticalCommand(cmd) == cmd.kind \in
  {"RegisterInstance", "DisconnectInstance", "NoteOff", "Panic"}

\* The last places of the ring only ever hold lifecycle commands, so MPE and
\* parameter floods cannot crowd them out.
ReserveHoldsCriticalOnly ==
  \A k \in Places : k > Capacity - Reserve => CriticalCommand(command_queue[k])

RouteCommand(p, k) ==
  command_queue[k].kind = "SetMonitorRoute" /\ command_queue[k].body.output = p

\* The routing mirror is what the engine will have once it has applied the
\* ring, also when updates were shed on the way.
RoutesMirrorEngine ==
  \A p \in Transducer :
    \/ \E k \in Places :
         /\ RouteCommand(p, k)
         /\ routes[p] = command_queue[k].body.source
         /\ \A l \in Places : l > k => ~RouteCommand(p, l)
    \/ /\ \A k \in Places : ~RouteCommand(p, k)
       /\ routes[p] = monitor_routes[p]

\* Unless the loop still owes a broadcast, the newest routing queued for a
\* greeted observer that is not about to be dropped is the current one.
ObserversAreUpToDate ==
  \A c \in Conn :
    greeted[c] =>
      /\ wants_status[c]
      /\ \/ routing_dirty
         \/ shown[c] = routes
         \/ status_output[c] = "overflowed"
=============================================================================
