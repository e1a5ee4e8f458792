--------------------------- MODULE IpcServerProofs ---------------------------
(***************************************************************************)
(* Proofs about the IPC thread, for every number of connections, ids and   *)
(* ring places.                                                            *)
(***************************************************************************)
EXTENDS IpcServer, TLAPS

(***************************************************************************)
(* Shapes of frames and commands.                                          *)
(***************************************************************************)
\* The kind of a frame says which body it has.
LEMMA FrameShape ==
  ASSUME NEW m \in Frame
  PROVE  /\ m.kind = "Hello" => m.body \in HelloBody
         /\ m.kind = "SetMonitorRoute" => m.body \in RouteBody
         /\ Performance(m) => m \in PerformanceCommand
BY DEF Frame, HapticCommand, RefusedFrame, PerformanceCommand, Performance

\* A Hello becomes the registration of the id it announces.
LEMMA HelloBecomesRegister ==
  ASSUME NEW m \in Frame, m.kind = "Hello", NEW id \in Instance
  PROVE  /\ FromWire(m, id) \in EngineCommand
         /\ FromWire(m, id).kind = "RegisterInstance"
         /\ FromWire(m, id).id = m.body.id
<1>1. m.body.id \in Instance /\ m.body.config \in InstanceConfig
  BY FrameShape DEF HelloBody
<1>2. FromWire(m, id) = [kind |-> "RegisterInstance", id |-> m.body.id,
                         body |-> m.body.config]
  BY DEF FromWire
<1> QED BY <1>1, <1>2 DEF EngineCommand

\* Any other command keeps its kind and is stamped with the bound id, except
\* Panic, which carries none.
LEMMA PerformanceIsStamped ==
  ASSUME NEW m \in Frame, Performance(m), NEW id \in Instance
  PROVE  /\ FromWire(m, id) \in EngineCommand
         /\ FromWire(m, id).kind = m.kind
         /\ FromWire(m, id).body = m.body
         /\ m.kind # "Panic" => FromWire(m, id).id = id
<1>1. m \in PerformanceCommand /\ m.kind # "Hello"
  BY FrameShape DEF Performance
<1>2. CASE m.kind = "Panic"
  <2>1. FromWire(m, id) = [kind |-> "Panic", id |-> None, body |-> None]
    BY <1>2 DEF FromWire
  <2>2. m.body = None
    BY <1>1, <1>2 DEF PerformanceCommand
  <2> QED BY <1>2, <2>1, <2>2 DEF EngineCommand
<1>3. CASE m.kind # "Panic"
  <2>1. FromWire(m, id) = [kind |-> m.kind, id |-> id, body |-> m.body]
    BY <1>1, <1>3 DEF FromWire
  <2>2. [kind |-> m.kind, id |-> id, body |-> m.body] \in EngineCommand
    BY <1>1, <1>3 DEF PerformanceCommand, EngineCommand
  <2> QED BY <1>3, <2>1, <2>2
<1> QED BY <1>2, <1>3

-----------------------------------------------------------------------------
(***************************************************************************)
(* Type correctness, with the one fact the types need: the loop decodes    *)
(* only with a client at hand.                                             *)
(***************************************************************************)
DecodesClient == at = "decode" => current \in Conn

TypeInv == TypeOK /\ DecodesClient

\* The initial state is well typed.
LEMMA TypeInit == Init => TypeInv
<1> SUFFICES ASSUME Init PROVE TypeInv
  OBVIOUS
<1>1. command_queue \in Seq(EngineCommand) /\ Len(command_queue) <= Capacity
  BY IpcAssumption DEF Init
<1>2. pending_disconnects \in Seq(Instance) /\ frames \in Seq(Frame)
  BY DEF Init, IpcInit
<1>3. inbox \in [Conn -> Seq(Frame)]
  BY DEF Init, IpcInit
<1>4. routes \in Routing /\ monitor_routes \in Routing
  BY DEF Init, IpcInit, Routing
<1> QED BY <1>1, <1>2, <1>3, <1>4 DEF Init, IpcInit, TypeOK, TypeInv, DecodesClient

\* A push into a ring with room is well typed.
LEMMA PushTyped ==
  ASSUME TypeOK, FreePlaces > 0, NEW cmd \in EngineCommand, Push(cmd)
  PROVE  /\ command_queue' \in Seq(EngineCommand)
         /\ Len(command_queue') <= Capacity
         /\ Len(command_queue') = Len(command_queue) + 1
BY IpcAssumption DEF TypeOK, FreePlaces, Push

\* Dropping a client leaves the peer and status variables well typed.
LEMMA DropTyped ==
  ASSUME TypeOK, NEW c \in Conn, NEW id \in Instance \cup {None}, DropClient(c, id)
  PROVE  /\ link' \in [Conn -> {"closed", "backlog", "client", "dropped"}]
         /\ inbox' \in [Conn -> Seq(Frame)]
         /\ instance_id' \in [Conn -> Instance \cup {None}]
         /\ wants_status' \in [Conn -> BOOLEAN]
         /\ greeted' \in [Conn -> BOOLEAN]
         /\ status_output' \in [Conn -> {"empty", "pending", "overflowed"}]
         /\ shown' \in [Conn -> Routing \cup {None}]
         /\ pending_disconnects' \in Seq(Instance)
         /\ peer_open' \in [Conn -> BOOLEAN]
         /\ routing_dirty' \in BOOLEAN
<1>1. <<>> \in Seq(Frame)
  OBVIOUS
<1>2. pending_disconnects' \in Seq(Instance)
  BY DEF TypeOK, DropClient
<1> QED BY <1>1, <1>2 DEF TypeOK, DropClient

\* The frame being dispatched is one, and its client may be bound to an id.
LEMMA DecodingTyped ==
  ASSUME TypeInv, Decoding
  PROVE  /\ Head(frames) \in Frame
         /\ Tail(frames) \in Seq(Frame)
         /\ current \in Conn
         /\ Bound \in Instance \cup {None}
BY DEF TypeInv, TypeOK, DecodesClient, Decoding, Bound

\* What the peers do is well typed.
LEMMA PeerTyped == TypeInv /\ PeerStep => TypeInv'
<1> SUFFICES ASSUME TypeInv, NEW c \in Conn,
                    Connect(c) \/ Close(c) \/ \E m \in Message : Send(c, m)
             PROVE  TypeInv'
  BY DEF PeerStep
<1> USE DEF TypeInv, TypeOK, DecodesClient, identity, status, loop, engine
<1>1. CASE Connect(c)
  BY <1>1 DEF Connect
<1>2. CASE Close(c)
  BY <1>2 DEF Close
<1>3. ASSUME NEW m \in Message, Send(c, m) PROVE TypeInv'
  <2>1. Append(inbox[c], m) \in Seq(Frame)
    BY IpcAssumption
  <2>2. inbox' \in [Conn -> Seq(Frame)]
    BY <1>3, <2>1 DEF Send
  <2> QED BY <1>3, <2>2 DEF Send
<1> QED BY <1>1, <1>2, <1>3

\* So are the steps of the loop that concern one connection.
LEMMA ConnectionTyped ==
  ASSUME TypeInv, NEW c \in Conn,
         Accept(c) \/ AcceptFail(c) \/ ReadEnd(c) \/ ReadFrames(c)
           \/ FlushWrite(c) \/ FlushFail(c)
  PROVE  TypeInv'
<1>0. instance_id[c] \in Instance \cup {None}
  BY DEF TypeInv, TypeOK
<1>1. CASE Accept(c)
  BY <1>1 DEF Accept, Clients, TypeInv, TypeOK, DecodesClient, identity, status, engine
<1>2. CASE ReadEnd(c)
  BY <1>0, <1>2, DropTyped DEF ReadEnd, TypeInv, TypeOK, DecodesClient, engine
<1>3. CASE ReadFrames(c)
  <2>1. <<>> \in Seq(Frame)
    OBVIOUS
  <2>2. inbox' \in [Conn -> Seq(Frame)] /\ frames' \in Seq(Frame)
    BY <1>3, <2>1 DEF ReadFrames, TypeInv, TypeOK
  <2> QED BY <1>3, <2>2 DEF ReadFrames, TypeInv, TypeOK, DecodesClient, identity,
          status, engine
<1>4. CASE FlushWrite(c)
  BY <1>4 DEF FlushWrite, TypeInv, TypeOK, DecodesClient, identity, peers, engine
<1>5. CASE FlushFail(c)
  BY <1>0, <1>5, DropTyped DEF FlushFail, TypeInv, TypeOK, DecodesClient, engine
<1>6. CASE AcceptFail(c)
  <2>1. <<>> \in Seq(Frame)
    OBVIOUS
  <2>2. inbox' \in [Conn -> Seq(Frame)]
    BY <1>6, <2>1 DEF AcceptFail, TypeInv, TypeOK
  <2> QED BY <1>6, <2>2 DEF AcceptFail, TypeInv, TypeOK, DecodesClient, identity, status,
          loop, engine
<1> QED BY <1>1, <1>2, <1>3, <1>4, <1>5, <1>6

\* So is the dispatch of one frame.
LEMMA DispatchTyped ==
  ASSUME TypeInv, SkipFrame \/ RejectClient \/ Hello \/ HelloOverflow \/ Forward \/ Shed
  PROVE  TypeInv'
<1> DEFINE m == Head(frames)
<1>0. /\ Decoding /\ m \in Frame /\ Tail(frames) \in Seq(Frame)
      /\ current \in Conn /\ Bound \in Instance \cup {None}
  BY DecodingTyped DEF SkipFrame, RejectClient, Hello, HelloOverflow, Forward, Shed
<1>1. CASE SkipFrame \/ Shed
  BY <1>0, <1>1 DEF SkipFrame, Shed, NextFrame, TypeInv, TypeOK, DecodesClient,
     peers, identity, status, engine
<1>2. CASE RejectClient
  <2>1. frames' \in Seq(Frame)
    BY <1>2 DEF RejectClient, LeaveClient
  <2> QED BY <1>0, <1>2, <2>1, DropTyped DEF RejectClient, LeaveClient, TypeInv, TypeOK,
             DecodesClient, engine
<1>3. CASE Hello
  <2>1. m.kind = "Hello" /\ m.body.id \in Instance
    BY <1>0, <1>3, FrameShape DEF Hello, HelloBody
  <2>2. FromWire(m, m.body.id) \in EngineCommand
    BY <1>0, <2>1, HelloBecomesRegister
  <2>3. command_queue' \in Seq(EngineCommand) /\ Len(command_queue') <= Capacity
    BY <1>3, <2>2, PushTyped DEF Hello, TypeInv
  <2> QED BY <1>0, <1>3, <2>1, <2>3 DEF Hello, NextFrame, TypeInv, TypeOK, DecodesClient,
             peers, engine
<1>4. CASE HelloOverflow
  <2>1. m.body.id \in Instance
    BY <1>0, <1>4, FrameShape DEF HelloOverflow, HelloBody
  <2>2. frames' \in Seq(Frame)
    BY <1>4 DEF HelloOverflow, LeaveClient
  <2>3. DropClient(current, m.body.id)
    BY <1>4 DEF HelloOverflow
  <2> QED BY <1>0, <1>4, <2>1, <2>2, <2>3, DropTyped DEF HelloOverflow, LeaveClient,
             TypeInv, TypeOK, DecodesClient, engine
<1>5. CASE Forward
  <2>1. Performance(m) /\ Bound \in Instance /\ FreePlaces > 0 /\ Push(FromWire(m, Bound))
    BY <1>0, <1>5 DEF Forward, Admitted
  <2>2. FromWire(m, Bound) \in EngineCommand
    BY <1>0, <2>1, PerformanceIsStamped
  <2>3. command_queue' \in Seq(EngineCommand) /\ Len(command_queue') <= Capacity
    BY <2>1, <2>2, PushTyped DEF TypeInv
  <2>4. routes' \in Routing /\ routing_dirty' \in BOOLEAN
    <3>1. CASE m.kind = "SetMonitorRoute"
      BY <1>0, <1>5, <3>1, FrameShape DEF Forward, RouteBody, Routing, TypeInv, TypeOK
    <3>2. CASE m.kind # "SetMonitorRoute"
      BY <1>5, <3>2 DEF Forward, TypeInv, TypeOK
    <3> QED BY <3>1, <3>2
  <2> QED BY <1>0, <1>5, <2>3, <2>4 DEF Forward, NextFrame, TypeInv, TypeOK,
             DecodesClient, peers, identity, engine
<1> QED BY <1>1, <1>2, <1>3, <1>4, <1>5

\* And every step of the loop.
LEMMA LoopTyped == TypeInv /\ IpcStep => TypeInv'
<1> SUFFICES ASSUME TypeInv, IpcStep PROVE TypeInv'
  OBVIOUS
<1>1. ASSUME NEW c \in Conn,
             Accept(c) \/ AcceptFail(c) \/ ReadEnd(c) \/ ReadFrames(c)
           \/ FlushWrite(c) \/ FlushFail(c)
      PROVE  TypeInv'
  BY <1>1, ConnectionTyped
<1>2. CASE SkipFrame \/ RejectClient \/ Hello \/ HelloOverflow \/ Forward \/ Shed
  BY <1>2, DispatchTyped
<1>3. CASE AcceptNone \/ VisitDone \/ CleanupDone \/ FlushDone
  BY <1>3 DEF AcceptNone, VisitDone, CleanupDone, FlushDone, Clients, TypeInv, TypeOK,
     DecodesClient, peers, identity, status, engine
<1>4. CASE DecodeDone
  BY <1>4 DEF DecodeDone, LeaveClient, TypeInv, TypeOK, DecodesClient, peers, identity,
     status, engine
<1>5. CASE CleanupPush
  <2>1. Head(pending_disconnects) \in Instance
    BY <1>5 DEF CleanupPush, TypeInv, TypeOK
  <2>2. Disconnect(Head(pending_disconnects)) \in EngineCommand
    BY <2>1 DEF Disconnect, EngineCommand
  <2>3. command_queue' \in Seq(EngineCommand) /\ Len(command_queue') <= Capacity
    BY <1>5, <2>2, PushTyped DEF CleanupPush, TypeInv
  <2>4. pending_disconnects' \in Seq(Instance)
    BY <1>5 DEF CleanupPush, TypeInv, TypeOK
  <2> QED BY <1>5, <2>3, <2>4 DEF CleanupPush, TypeInv, TypeOK, DecodesClient, peers,
             status, loop, engine
<1>6. ASSUME NEW d \in BOOLEAN, NEW o \in BOOLEAN, ServeStatus(d, o)
      PROVE  TypeInv'
  BY <1>6 DEF ServeStatus, Observers, Clients, TypeInv, TypeOK, DecodesClient, peers,
     identity, engine
<1> QED BY <1>1, <1>2, <1>3, <1>4, <1>5, <1>6 DEF IpcStep

\* Every step of the peers, the loop and the engine is well typed.
LEMMA TypeStep == TypeInv /\ [Next]_vars => TypeInv'
<1> SUFFICES ASSUME TypeInv, [Next]_vars PROVE TypeInv'
  OBVIOUS
<1>1. CASE IpcStep
  BY <1>1, LoopTyped
<1>2. CASE PeerStep
  BY <1>2, PeerTyped
<1>3. CASE EnginePop
  <2>1. Head(command_queue) \in EngineCommand
    BY <1>3 DEF EnginePop, TypeInv, TypeOK
  <2>2. command_queue' \in Seq(EngineCommand) /\ Len(command_queue') <= Capacity
    BY <1>3, IpcAssumption DEF EnginePop, TypeInv, TypeOK
  <2>3. registered' \in SUBSET Instance
    BY <1>3, <2>1 DEF EnginePop, TypeInv, TypeOK, EngineCommand
  <2>4. monitor_routes' \in Routing
    <3>1. CASE Head(command_queue).kind = "SetMonitorRoute"
      <4>1. Head(command_queue).body \in RouteBody
        BY <2>1, <3>1 DEF EngineCommand
      <4> QED BY <1>3, <3>1, <4>1 DEF EnginePop, RouteBody, Routing, TypeInv, TypeOK
    <3>2. CASE Head(command_queue).kind # "SetMonitorRoute"
      BY <1>3, <3>2 DEF EnginePop, TypeInv, TypeOK
    <3> QED BY <3>1, <3>2
  <2> QED BY <1>3, <2>2, <2>3, <2>4 DEF EnginePop, TypeInv, TypeOK, DecodesClient,
             ipcVars, peers, identity, status, loop
<1>4. CASE UNCHANGED vars
  BY <1>4 DEF vars, ipcVars, peers, identity, status, loop, engine, TypeInv, TypeOK,
     DecodesClient
<1> QED BY <1>1, <1>2, <1>3, <1>4 DEF Next

\* Every reachable state of the IPC thread is well typed, and it never pushes
\* past the end of the ring.
THEOREM TypeCorrect == Spec => []TypeOK
<1>1. TypeInv => TypeOK
  BY DEF TypeInv
<1> QED BY <1>1, TypeInit, TypeStep, PTL DEF Spec

-----------------------------------------------------------------------------
(***************************************************************************)
(* Identities: an id has at most one holder, a connection or an owed       *)
(* cleanup, and is reserved exactly while it has one.                      *)
(***************************************************************************)
\* A dropped client hands its id to the cleanup queue: the id keeps one holder.
LEMMA DropKeepsHolder ==
  ASSUME TypeOK, OneHolderPerId, NEW c \in Conn, DropClient(c, instance_id[c]),
         UNCHANGED active_instances
  PROVE  OneHolderPerId'
<1>1. \A d \in Conn : instance_id'[d] = IF d = c THEN None ELSE instance_id[d]
  BY DEF DropClient, TypeOK
<1>2. CASE instance_id[c] = None
  <2>1. pending_disconnects' = pending_disconnects /\ instance_id' = instance_id
    BY <1>2 DEF DropClient, TypeOK
  <2> QED BY <2>1 DEF OneHolderPerId
<1>3. CASE instance_id[c] # None
  <2>1. /\ DOMAIN pending_disconnects = 1..Len(pending_disconnects)
        /\ Len(pending_disconnects) \in Nat
        /\ DOMAIN pending_disconnects' = 1..(Len(pending_disconnects) + 1)
        /\ \A k \in DOMAIN pending_disconnects :
             pending_disconnects'[k] = pending_disconnects[k]
        /\ pending_disconnects'[Len(pending_disconnects) + 1] = instance_id[c]
    BY <1>3 DEF DropClient, TypeOK
  <2>2. \A i : (\E k \in DOMAIN pending_disconnects' : pending_disconnects'[k] = i)
                <=> i = instance_id[c]
                     \/ \E k \in DOMAIN pending_disconnects : pending_disconnects[k] = i
    BY <2>1
  <2>3. \A i \in Instance :
          i \in active_instances' <=>
            \/ \E d \in Conn : instance_id'[d] = i
            \/ \E k \in DOMAIN pending_disconnects' : pending_disconnects'[k] = i
    BY <1>1, <2>2, ProtocolAssumption DEF OneHolderPerId
  <2>4. \A d, e \in Conn :
          d # e /\ instance_id'[d] # None => instance_id'[d] # instance_id'[e]
    BY <1>1 DEF OneHolderPerId
  <2>5. \A j, k \in DOMAIN pending_disconnects' :
          j # k => pending_disconnects'[j] # pending_disconnects'[k]
    BY <2>1 DEF OneHolderPerId
  <2>6. \A d \in Conn : \A k \in DOMAIN pending_disconnects' :
          instance_id'[d] # pending_disconnects'[k]
    <3> SUFFICES ASSUME NEW d \in Conn, NEW k \in DOMAIN pending_disconnects'
                 PROVE  instance_id'[d] # pending_disconnects'[k]
      OBVIOUS
    <3>1. CASE k = Len(pending_disconnects) + 1
      BY <1>1, <1>3, <2>1, <3>1 DEF OneHolderPerId
    <3>2. CASE k # Len(pending_disconnects) + 1
      <4>1. k \in DOMAIN pending_disconnects
        BY <2>1, <3>2
      <4>2. pending_disconnects[k] \in Instance
        BY <4>1 DEF TypeOK
      <4> QED BY <1>1, <2>1, <4>1, <4>2, ProtocolAssumption DEF OneHolderPerId
    <3> QED BY <3>1, <3>2
  <2> QED BY <2>3, <2>4, <2>5, <2>6 DEF OneHolderPerId
<1> QED BY <1>2, <1>3

\* The id of a Hello that met a full ring was free, and is now owed a cleanup.
LEMMA OverflowKeepsHolder ==
  ASSUME TypeInv, OneHolderPerId, HelloOverflow
  PROVE  OneHolderPerId'
<1> DEFINE i0 == Head(frames).body.id
<1>0. /\ current \in Conn /\ i0 \in Instance
      /\ DropClient(current, i0) /\ active_instances' = active_instances \cup {i0}
      /\ instance_id[current] = None /\ i0 \notin active_instances
  <2>1. Head(frames) \in Frame /\ current \in Conn
    BY DecodingTyped DEF HelloOverflow
  <2> QED BY <2>1, FrameShape DEF HelloOverflow, HelloBody, MustReject, Bound
<1>1. instance_id' = instance_id
  BY <1>0 DEF DropClient, TypeInv, TypeOK
<1>2. /\ DOMAIN pending_disconnects = 1..Len(pending_disconnects)
      /\ Len(pending_disconnects) \in Nat
      /\ DOMAIN pending_disconnects' = 1..(Len(pending_disconnects) + 1)
      /\ \A k \in DOMAIN pending_disconnects :
           pending_disconnects'[k] = pending_disconnects[k]
      /\ pending_disconnects'[Len(pending_disconnects) + 1] = i0
  BY <1>0, ProtocolAssumption DEF DropClient, TypeInv, TypeOK
<1>3. /\ \A c \in Conn : instance_id[c] # i0
      /\ \A k \in DOMAIN pending_disconnects : pending_disconnects[k] # i0
  BY <1>0 DEF OneHolderPerId
<1>4. \A i \in Instance :
        i \in active_instances' <=>
          \/ \E d \in Conn : instance_id'[d] = i
          \/ \E k \in DOMAIN pending_disconnects' : pending_disconnects'[k] = i
  BY <1>0, <1>1, <1>2 DEF OneHolderPerId
<1>5. \A j, k \in DOMAIN pending_disconnects' :
        j # k => pending_disconnects'[j] # pending_disconnects'[k]
  BY <1>2, <1>3 DEF OneHolderPerId
<1>6. \A d \in Conn : \A k \in DOMAIN pending_disconnects' :
        instance_id'[d] # pending_disconnects'[k]
  BY <1>1, <1>2, <1>3 DEF OneHolderPerId
<1> QED BY <1>1, <1>4, <1>5, <1>6 DEF OneHolderPerId

\* Every step keeps the invariant.
LEMMA HolderStep == TypeInv /\ OneHolderPerId /\ [Next]_vars => OneHolderPerId'
<1> SUFFICES ASSUME TypeInv, OneHolderPerId, [Next]_vars PROVE OneHolderPerId'
  OBVIOUS
<1>0. TypeOK
  BY DEF TypeInv
<1>1. CASE UNCHANGED <<instance_id, active_instances, pending_disconnects>>
  BY <1>1 DEF OneHolderPerId
<1>2. ASSUME NEW c \in Conn, ReadEnd(c) \/ FlushFail(c) PROVE OneHolderPerId'
  BY <1>0, <1>2, DropKeepsHolder DEF ReadEnd, FlushFail
<1>3. CASE RejectClient
  BY <1>0, <1>3, DecodingTyped, DropKeepsHolder DEF RejectClient, Bound
<1>4. CASE Hello
  <2> DEFINE i0 == Head(frames).body.id
  <2>1. Head(frames) \in Frame /\ current \in Conn
    BY <1>4, DecodingTyped DEF Hello
  <2>2. /\ i0 \in Instance /\ i0 \notin active_instances
        /\ active_instances' = active_instances \cup {i0}
        /\ instance_id[current] = None
        /\ UNCHANGED pending_disconnects
    BY <1>4, <2>1, FrameShape DEF Hello, HelloBody, MustReject, Bound
  <2>3. \A d \in Conn : instance_id'[d] = IF d = current THEN i0 ELSE instance_id[d]
    BY <1>0, <1>4 DEF Hello, TypeOK
  <2>4. \A c \in Conn : instance_id[c] # i0
    BY <2>2 DEF OneHolderPerId
  <2>5. \A k \in DOMAIN pending_disconnects : pending_disconnects[k] # i0
    BY <2>2 DEF OneHolderPerId
  <2>6. \A i \in Instance :
          i \in active_instances' <=>
            \/ \E d \in Conn : instance_id'[d] = i
            \/ \E k \in DOMAIN pending_disconnects' : pending_disconnects'[k] = i
    BY <2>1, <2>2, <2>3, ProtocolAssumption DEF OneHolderPerId
  <2>7. \A c, d \in Conn :
          c # d /\ instance_id'[c] # None => instance_id'[c] # instance_id'[d]
    BY <2>2, <2>3, <2>4 DEF OneHolderPerId
  <2>8. \A c \in Conn : \A k \in DOMAIN pending_disconnects' :
          instance_id'[c] # pending_disconnects'[k]
    BY <2>2, <2>3, <2>5 DEF OneHolderPerId
  <2> QED BY <2>2, <2>6, <2>7, <2>8 DEF OneHolderPerId
<1>5. CASE HelloOverflow
  BY <1>5, OverflowKeepsHolder
<1>6. CASE CleanupPush
  <2> DEFINE i0 == Head(pending_disconnects)
  <2>1. /\ i0 = pending_disconnects[1]
        /\ DOMAIN pending_disconnects = 1..Len(pending_disconnects)
        /\ Len(pending_disconnects) \in Nat /\ Len(pending_disconnects) > 0
        /\ DOMAIN pending_disconnects' = 1..(Len(pending_disconnects) - 1)
        /\ \A k \in DOMAIN pending_disconnects' :
             pending_disconnects'[k] = pending_disconnects[k + 1]
    BY <1>0, <1>6 DEF CleanupPush, TypeOK
  <2>2. /\ active_instances' = active_instances \ {i0}
        /\ UNCHANGED instance_id
    BY <1>6 DEF CleanupPush
  <2>3. \A k \in DOMAIN pending_disconnects' : k + 1 \in DOMAIN pending_disconnects
                                                 /\ k + 1 # 1
    BY <2>1
  <2>4. \A k \in DOMAIN pending_disconnects \ {1} :
          k - 1 \in DOMAIN pending_disconnects' /\ (k - 1) + 1 = k
    BY <2>1
  <2>5. \A i : (\E k \in DOMAIN pending_disconnects' : pending_disconnects'[k] = i)
          <=> \E k \in DOMAIN pending_disconnects \ {1} : pending_disconnects[k] = i
    BY <2>1, <2>3, <2>4
  <2>6. 1 \in DOMAIN pending_disconnects
    BY <2>1
  <2>7. \A i \in Instance :
          i \in active_instances' <=>
            \/ \E d \in Conn : instance_id'[d] = i
            \/ \E k \in DOMAIN pending_disconnects' : pending_disconnects'[k] = i
    <3> SUFFICES ASSUME NEW i \in Instance
                 PROVE  i \in active_instances' <=>
                          \/ \E d \in Conn : instance_id[d] = i
                          \/ \E k \in DOMAIN pending_disconnects \ {1} :
                               pending_disconnects[k] = i
      BY <2>2, <2>5
    <3>1. CASE i = i0
      <4>1. \A d \in Conn : instance_id[d] # i
        BY <2>1, <2>6, <3>1 DEF OneHolderPerId
      <4>2. \A k \in DOMAIN pending_disconnects \ {1} : pending_disconnects[k] # i
        BY <2>1, <2>6, <3>1 DEF OneHolderPerId
      <4> QED BY <2>2, <3>1, <4>1, <4>2
    <3>2. CASE i # i0
      <4>1. \A k \in DOMAIN pending_disconnects : pending_disconnects[k] = i => k # 1
        BY <2>1, <3>2
      <4> QED BY <2>2, <3>2, <4>1 DEF OneHolderPerId
    <3> QED BY <3>1, <3>2
  <2>8. \A j, k \in DOMAIN pending_disconnects' :
          j # k => pending_disconnects'[j] # pending_disconnects'[k]
    <3> SUFFICES ASSUME NEW j \in DOMAIN pending_disconnects',
                        NEW k \in DOMAIN pending_disconnects', j # k
                 PROVE  pending_disconnects[j + 1] # pending_disconnects[k + 1]
      BY <2>1
    <3>1. j + 1 # k + 1
      BY <2>1
    <3> QED BY <2>3, <3>1 DEF OneHolderPerId
  <2>9. \A c \in Conn : \A k \in DOMAIN pending_disconnects' :
          instance_id'[c] # pending_disconnects'[k]
    BY <2>1, <2>2, <2>3 DEF OneHolderPerId
  <2> QED BY <2>2, <2>7, <2>8, <2>9 DEF OneHolderPerId
<1> QED
  BY <1>1, <1>2, <1>3, <1>4, <1>5, <1>6
  DEF Next, IpcStep, PeerStep, EnginePop, Connect, Close, Send, Accept, AcceptFail, AcceptNone,
      ReadFrames, VisitDone, DecodeDone, SkipFrame, Forward, Shed, CleanupDone,
      ServeStatus, FlushWrite, FlushDone, vars, ipcVars, identity

\* No id is held at first.
LEMMA HolderInit == Init => OneHolderPerId
BY ProtocolAssumption DEF Init, IpcInit, OneHolderPerId

\* At every moment an id belongs to at most one live connection or one owed
\* cleanup, and the server reserves exactly those ids.
THEOREM AlwaysOneHolderPerId == Spec => []OneHolderPerId
BY HolderInit, TypeInit, TypeStep, HolderStep, PTL DEF Spec

-----------------------------------------------------------------------------
(***************************************************************************)
(* The ring: what a push and a pop do to what the engine will see.         *)
(***************************************************************************)
\* A push leaves every place alone and adds one.
LEMMA PushPlaces ==
  ASSUME TypeOK, NEW cmd \in EngineCommand, Push(cmd)
  PROVE  /\ Len(command_queue) \in Nat
         /\ Len(command_queue') = Len(command_queue) + 1
         /\ \A k \in Places : command_queue'[k] = command_queue[k]
         /\ command_queue'[Len(command_queue) + 1] = cmd
BY DEF TypeOK, Push, Places

\* A pop moves every place one nearer to the head.
LEMMA PopPlaces ==
  ASSUME TypeOK, command_queue # <<>>, command_queue' = Tail(command_queue)
  PROVE  /\ Len(command_queue) \in Nat \ {0}
         /\ Len(command_queue') = Len(command_queue) - 1
         /\ \A k \in 1..(Len(command_queue) - 1) :
              command_queue'[k] = command_queue[k + 1]
         /\ Head(command_queue) = command_queue[1]
BY DEF TypeOK

\* What is open before a place of the ring is not changed by a push behind it.
LEMMA PushKeepsOpen ==
  ASSUME TypeOK, NEW cmd \in EngineCommand, Push(cmd), UNCHANGED registered,
         NEW i, NEW k \in 1..EndOfRing
  PROVE  OpenBefore(i, k)' <=> OpenBefore(i, k)
<1>1. \A l \in Int : l < k => (l \in Places <=> l \in Places')
  BY PushPlaces DEF Places, EndOfRing
<1>2. \A l \in Places : command_queue'[l] = command_queue[l]
  BY PushPlaces
<1>3. k \in Int /\ Places \subseteq Int /\ Places' \subseteq Int
  BY PushPlaces DEF Places, EndOfRing
<1>4. \A l \in Int : l < k => /\ l \in Places =>
                                 /\ IsDisconnect(i, l)' <=> IsDisconnect(i, l)
                                 /\ IsRegister(i, l)' <=> IsRegister(i, l)
  BY <1>2 DEF IsDisconnect, IsRegister
<1> QED BY <1>1, <1>3, <1>4 DEF OpenBefore

\* At the end of the ring the pushed command decides for its own instance.
LEMMA PushOpensOrCloses ==
  ASSUME TypeOK, NEW cmd \in EngineCommand, Push(cmd), UNCHANGED registered, NEW i
  PROVE  OpenBefore(i, EndOfRing)' <=>
           \/ cmd.kind = "RegisterInstance" /\ cmd.id = i
           \/ /\ OpenBefore(i, EndOfRing)
              /\ ~(cmd.kind = "DisconnectInstance" /\ cmd.id = i)
<1>1. PICK n \in Nat : Len(command_queue) = n /\ Len(command_queue') = n + 1
  BY PushPlaces
<1>2. Places = 1..n /\ Places' = 1..(n + 1) /\ EndOfRing = n + 1 /\ EndOfRing' = n + 2
  BY <1>1 DEF Places, EndOfRing
<1>3. \A l \in 1..n : /\ IsDisconnect(i, l)' <=> IsDisconnect(i, l)
                      /\ IsRegister(i, l)' <=> IsRegister(i, l)
  BY <1>2, PushPlaces DEF IsDisconnect, IsRegister
<1>4. /\ IsDisconnect(i, n + 1)' <=> cmd.kind = "DisconnectInstance" /\ cmd.id = i
      /\ IsRegister(i, n + 1)' <=> cmd.kind = "RegisterInstance" /\ cmd.id = i
  BY <1>1, PushPlaces DEF IsDisconnect, IsRegister
<1>5. OpenBefore(i, EndOfRing)' <=>
        \/ i \in registered /\ \A l \in 1..(n + 1) : ~IsDisconnect(i, l)'
        \/ \E j \in 1..(n + 1) :
             /\ IsRegister(i, j)'
             /\ \A l \in 1..(n + 1) : j < l => ~IsDisconnect(i, l)'
  BY <1>1, <1>2 DEF OpenBefore
<1>6. OpenBefore(i, EndOfRing) <=>
        \/ i \in registered /\ \A l \in 1..n : ~IsDisconnect(i, l)
        \/ \E j \in 1..n :
             /\ IsRegister(i, j)
             /\ \A l \in 1..n : j < l => ~IsDisconnect(i, l)
  BY <1>1, <1>2 DEF OpenBefore
<1>7. \A l : l \in 1..(n + 1) <=> l \in 1..n \/ l = n + 1
  BY <1>1
<1>8. \A l \in 1..n : l < n + 1 /\ ~(n + 1 < l)
  BY <1>1
<1>9. CASE cmd.kind = "DisconnectInstance" /\ cmd.id = i
  BY <1>1, <1>4, <1>5, <1>7, <1>8, <1>9
<1>10. CASE cmd.kind = "RegisterInstance" /\ cmd.id = i
  BY <1>1, <1>4, <1>5, <1>7, <1>8, <1>10
<1>11. CASE ~IsDisconnect(i, n + 1)' /\ ~IsRegister(i, n + 1)'
  <2>1. (\A l \in 1..(n + 1) : ~IsDisconnect(i, l)') <=> \A l \in 1..n : ~IsDisconnect(i, l)
    BY <1>3, <1>7, <1>11
  <2>2. ASSUME NEW j \in 1..n
        PROVE  (\A l \in 1..(n + 1) : j < l => ~IsDisconnect(i, l)') <=>
                 \A l \in 1..n : j < l => ~IsDisconnect(i, l)
    BY <1>3, <1>7, <1>11
  <2>3. (\E j \in 1..(n + 1) :
           /\ IsRegister(i, j)'
           /\ \A l \in 1..(n + 1) : j < l => ~IsDisconnect(i, l)') <=>
        \E j \in 1..n :
          /\ IsRegister(i, j)
          /\ \A l \in 1..n : j < l => ~IsDisconnect(i, l)
    BY <1>3, <1>7, <1>11, <2>2
  <2> QED BY <1>4, <1>5, <1>6, <1>11, <2>1, <2>3
<1> QED BY <1>4, <1>9, <1>10, <1>11

\* The engine's registry after a pop, and the rest of the ring, open the same
\* instances one place nearer to the head.
LEMMA PopShiftsOpen ==
  ASSUME TypeOK, EnginePop, NEW i \in Instance, NEW k \in 1..Len(command_queue)
  PROVE  OpenBefore(i, k)' <=> OpenBefore(i, k + 1)
<1> DEFINE n == Len(command_queue)
<1>0. command_queue # <<>> /\ command_queue' = Tail(command_queue)
  BY DEF EnginePop
<1>1. n \in Nat \ {0} /\ Places = 1..n /\ Places' = 1..(n - 1) /\ k \in Int
  BY <1>0, PopPlaces DEF Places
<1>2. \A l \in 1..(n - 1) : /\ IsDisconnect(i, l)' <=> IsDisconnect(i, l + 1)
                            /\ IsRegister(i, l)' <=> IsRegister(i, l + 1)
  BY <1>0, PopPlaces DEF IsDisconnect, IsRegister
<1>3. i \in registered' <=> IsRegister(i, 1) \/ (i \in registered /\ ~IsDisconnect(i, 1))
  <2>1. Head(command_queue) = command_queue[1]
    BY <1>0, PopPlaces
  <2> QED BY <2>1 DEF EnginePop, IsDisconnect, IsRegister
<1>4. OpenBefore(i, k)' <=>
        \/ i \in registered' /\ \A l \in 1..(n - 1) : l < k => ~IsDisconnect(i, l + 1)
        \/ \E j \in 1..(n - 1) :
             /\ j < k /\ IsRegister(i, j + 1)
             /\ \A l \in 1..(n - 1) : j < l /\ l < k => ~IsDisconnect(i, l + 1)
  BY <1>1, <1>2 DEF OpenBefore
<1>5. OpenBefore(i, k + 1) <=>
        \/ i \in registered /\ \A l \in 1..n : l < k + 1 => ~IsDisconnect(i, l)
        \/ \E j \in 1..n :
             /\ j < k + 1 /\ IsRegister(i, j)
             /\ \A l \in 1..n : j < l /\ l < k + 1 => ~IsDisconnect(i, l)
  BY <1>1 DEF OpenBefore
<1>6. /\ \A l \in 1..(n - 1) : l + 1 \in 1..n /\ (l < k <=> l + 1 < k + 1) /\ 1 < l + 1
      /\ \A l \in 1..n : l # 1 => l - 1 \in 1..(n - 1) /\ (l - 1) + 1 = l
      /\ 1 \in 1..n /\ 1 < k + 1
  BY <1>1
<1>7. (\A l \in 1..n : l < k + 1 => ~IsDisconnect(i, l)) <=>
        ~IsDisconnect(i, 1)
        /\ \A l \in 1..(n - 1) : l < k => ~IsDisconnect(i, l + 1)
  BY <1>6
<1>8. (\A l \in 1..n : 1 < l /\ l < k + 1 => ~IsDisconnect(i, l)) <=>
        \A l \in 1..(n - 1) : l < k => ~IsDisconnect(i, l + 1)
  <2>1. \A l \in 1..n : 1 < l => l # 1
    BY <1>1
  <2> QED BY <1>6, <2>1
<1>9. \A j \in 1..(n - 1) :
        (\A l \in 1..n : j + 1 < l /\ l < k + 1 => ~IsDisconnect(i, l)) <=>
          \A l \in 1..(n - 1) : j < l /\ l < k => ~IsDisconnect(i, l + 1)
  <2> SUFFICES ASSUME NEW j \in 1..(n - 1)
               PROVE (\A l \in 1..n : j + 1 < l /\ l < k + 1 => ~IsDisconnect(i, l)) <=>
                       \A l \in 1..(n - 1) : j < l /\ l < k => ~IsDisconnect(i, l + 1)
    OBVIOUS
  <2>1. \A l \in 1..(n - 1) : j < l <=> j + 1 < l + 1
    BY <1>1
  <2>2. \A l \in 1..n : j + 1 < l => l # 1
    BY <1>1
  <2> QED BY <1>6, <2>1, <2>2
<1>10. (\E j \in 1..n :
          /\ j < k + 1 /\ IsRegister(i, j)
          /\ \A l \in 1..n : j < l /\ l < k + 1 => ~IsDisconnect(i, l)) <=>
         \/ IsRegister(i, 1) /\ \A l \in 1..(n - 1) : l < k => ~IsDisconnect(i, l + 1)
         \/ \E j \in 1..(n - 1) :
              /\ j < k /\ IsRegister(i, j + 1)
              /\ \A l \in 1..(n - 1) : j < l /\ l < k => ~IsDisconnect(i, l + 1)
  <2> DEFINE From(j) == /\ j < k + 1 /\ IsRegister(i, j)
                        /\ \A l \in 1..n : j < l /\ l < k + 1 => ~IsDisconnect(i, l)
             Shifted(j) ==
               /\ j < k /\ IsRegister(i, j + 1)
               /\ \A l \in 1..(n - 1) : j < l /\ l < k => ~IsDisconnect(i, l + 1)
  <2>1. From(1) <=> /\ IsRegister(i, 1)
                    /\ \A l \in 1..(n - 1) : l < k => ~IsDisconnect(i, l + 1)
    BY <1>6, <1>8
  <2>2. \A j \in 1..(n - 1) : From(j + 1) <=> Shifted(j)
    BY <1>6, <1>9
  <2> HIDE DEF From, Shifted
  <2>3. (\E j \in 1..n : From(j)) <=> From(1) \/ \E j \in 1..(n - 1) : From(j + 1)
    <3>1. ASSUME NEW j \in 1..n, From(j)
          PROVE  From(1) \/ \E x \in 1..(n - 1) : From(x + 1)
      <4>1. CASE j = 1
        BY <3>1, <4>1
      <4>2. CASE j # 1
        <5>1. j - 1 \in 1..(n - 1) /\ (j - 1) + 1 = j
          BY <1>6, <4>2
        <5> QED BY <3>1, <5>1
      <4> QED BY <4>1, <4>2
    <3> QED BY <1>6, <3>1
  <2>4. (\E j \in 1..n : From(j)) <=>
          \/ /\ IsRegister(i, 1)
             /\ \A l \in 1..(n - 1) : l < k => ~IsDisconnect(i, l + 1)
          \/ \E j \in 1..(n - 1) : Shifted(j)
    BY <2>1, <2>2, <2>3
  <2> QED BY <2>4 DEF From, Shifted
<1> QED BY <1>3, <1>4, <1>5, <1>7, <1>10

-----------------------------------------------------------------------------
(***************************************************************************)
(* Sessions: in ring order every instance registers, plays and            *)
(* disconnects, over and over, and the reserved ids are the open ones.     *)
(***************************************************************************)
\* The four are inductive only together: a Hello may register because no
\* unreserved id is open, and a command may be forwarded because every bound
\* id is.
SessionInv ==
  /\ TypeInv /\ OneHolderPerId
  /\ SessionOrder /\ LiveClientsStayRegistered /\ NoRegistrationLeak

\* The part of it that speaks of the ring.
RingInv == SessionOrder /\ LiveClientsStayRegistered /\ NoRegistrationLeak

\* What a command requires of the commands ahead of it.
FitsAfter(cmd, k) ==
  /\ cmd.kind = "RegisterInstance" => ~OpenBefore(cmd.id, k)
  /\ cmd.kind \notin {"RegisterInstance", "DisconnectInstance", "Panic"}
       => OpenBefore(cmd.id, k)

\* A push keeps the order if the new command fits at the end of the ring.
LEMMA PushKeepsOrder ==
  ASSUME TypeOK, SessionOrder, NEW cmd \in EngineCommand, Push(cmd),
         UNCHANGED registered, FitsAfter(cmd, EndOfRing)
  PROVE  SessionOrder'
<1>1. PICK n \in Nat : Len(command_queue) = n /\ Len(command_queue') = n + 1
  BY PushPlaces
<1>2. Places = 1..n /\ Places' = 1..(n + 1) /\ EndOfRing = n + 1
  BY <1>1 DEF Places, EndOfRing
<1>3. \A k \in 1..(n + 1) : \A i : OpenBefore(i, k)' <=> OpenBefore(i, k)
  BY <1>2, PushKeepsOpen
<1> SUFFICES ASSUME NEW k \in 1..(n + 1)
             PROVE  /\ command_queue'[k].kind = "RegisterInstance" =>
                         ~OpenBefore(command_queue'[k].id, k)
                    /\ command_queue'[k].kind
                           \notin {"RegisterInstance", "DisconnectInstance", "Panic"} =>
                         OpenBefore(command_queue'[k].id, k)
  BY <1>2, <1>3 DEF SessionOrder
<1>4. CASE k = n + 1
  <2>1. command_queue'[k] = cmd
    BY <1>1, <1>4, PushPlaces
  <2> QED BY <1>2, <1>4, <2>1 DEF FitsAfter
<1>5. CASE k # n + 1
  <2>1. k \in Places /\ command_queue'[k] = command_queue[k]
    BY <1>2, <1>5, PushPlaces
  <2> QED BY <2>1 DEF SessionOrder
<1> QED BY <1>4, <1>5

\* Nothing changes for the ring when neither it nor the identities do.
LEMMA RingUnmoved ==
  ASSUME RingInv, UNCHANGED <<command_queue, registered, instance_id, active_instances>>
  PROVE  RingInv'
BY DEF RingInv, SessionOrder, LiveClientsStayRegistered, NoRegistrationLeak, OpenBefore,
       EndOfRing, Places, IsDisconnect, IsRegister

\* Losing a client gives up a binding and reserves no fewer ids.
LEMMA UnboundKeepsRing ==
  ASSUME RingInv, UNCHANGED <<command_queue, registered>>,
         \A c \in Conn : instance_id'[c] # None => instance_id'[c] = instance_id[c],
         active_instances \subseteq active_instances'
  PROVE  RingInv'
BY DEF RingInv, SessionOrder, LiveClientsStayRegistered, NoRegistrationLeak, OpenBefore,
       EndOfRing, Places, IsDisconnect, IsRegister

\* The steps that push keep it.
LEMMA PushKeepsRing ==
  ASSUME SessionInv, Hello \/ Forward \/ CleanupPush
  PROVE  RingInv'
<1> DEFINE m == Head(frames)
<1>0. TypeOK /\ TypeInv /\ OneHolderPerId /\ SessionOrder
      /\ LiveClientsStayRegistered /\ NoRegistrationLeak
  BY DEF SessionInv, TypeInv
<1>1. CASE Hello
  <2>1. m \in Frame /\ current \in Conn
    BY <1>0, <1>1, DecodingTyped DEF Hello
  <2>2. m.kind = "Hello" /\ m.body.id \in Instance
    BY <1>1, <2>1, FrameShape DEF Hello, HelloBody
  <2>3. PICK cmd \in EngineCommand :
          /\ cmd = FromWire(m, m.body.id)
          /\ cmd.kind = "RegisterInstance" /\ cmd.id = m.body.id
    BY <2>1, <2>2, HelloBecomesRegister
  <2>4. /\ Push(cmd) /\ UNCHANGED registered
        /\ cmd.id \notin active_instances
        /\ active_instances' = active_instances \cup {cmd.id}
        /\ \A c \in Conn :
             instance_id'[c] = IF c = current THEN cmd.id ELSE instance_id[c]
    BY <1>0, <1>1, <2>1, <2>2, <2>3 DEF Hello, MustReject, engine, TypeOK
  <2>5. SessionOrder'
    <3>1. ~OpenBefore(cmd.id, EndOfRing)
      BY <1>0, <2>2, <2>3, <2>4 DEF NoRegistrationLeak
    <3> QED BY <1>0, <2>3, <2>4, <3>1, PushKeepsOrder DEF FitsAfter
  <2>6. \A i : OpenBefore(i, EndOfRing)' <=> i = cmd.id \/ OpenBefore(i, EndOfRing)
    BY <1>0, <2>3, <2>4, PushOpensOrCloses
  <2>7. LiveClientsStayRegistered'
    <3> SUFFICES ASSUME NEW c \in Conn, instance_id'[c] # None
                 PROVE  OpenBefore(instance_id[c], EndOfRing)'
      BY DEF LiveClientsStayRegistered
    <3>1. PICK i : i = instance_id'[c]
      OBVIOUS
    <3>2. OpenBefore(i, EndOfRing)'
      BY <1>0, <2>4, <2>6, <3>1 DEF LiveClientsStayRegistered
    <3> QED BY <3>1, <3>2
  <2>8. NoRegistrationLeak'
    BY <1>0, <2>4, <2>6 DEF NoRegistrationLeak
  <2> QED BY <2>5, <2>7, <2>8 DEF RingInv
<1>2. CASE Forward
  <2>1. /\ m \in Frame /\ current \in Conn /\ Bound \in Instance
        /\ Performance(m) /\ Push(FromWire(m, Bound))
    BY <1>0, <1>2, DecodingTyped DEF Forward
  <2>2. PICK cmd \in EngineCommand :
          /\ cmd = FromWire(m, Bound) /\ cmd.kind = m.kind
          /\ m.kind # "Panic" => cmd.id = Bound
    BY <2>1, PerformanceIsStamped
  <2>3. cmd.kind \notin {"RegisterInstance", "DisconnectInstance"}
    BY <2>1, <2>2, FrameShape DEF PerformanceCommand
  <2>4. Push(cmd) /\ UNCHANGED <<registered, instance_id, active_instances>>
    BY <1>2, <2>1, <2>2 DEF Forward, identity, engine
  <2>5. SessionOrder'
    <3>1. OpenBefore(Bound, EndOfRing)
      BY <1>0, <2>1, ProtocolAssumption DEF LiveClientsStayRegistered, Bound
    <3> QED BY <1>0, <2>2, <2>3, <2>4, <3>1, PushKeepsOrder DEF FitsAfter
  <2>6. \A i : OpenBefore(i, EndOfRing)' <=> OpenBefore(i, EndOfRing)
    BY <1>0, <2>3, <2>4, PushOpensOrCloses
  <2>7. LiveClientsStayRegistered'
    <3> SUFFICES ASSUME NEW c \in Conn, instance_id'[c] # None
                 PROVE  OpenBefore(instance_id[c], EndOfRing)'
      BY DEF LiveClientsStayRegistered
    <3>1. PICK i : i = instance_id'[c]
      OBVIOUS
    <3>2. OpenBefore(i, EndOfRing)'
      BY <1>0, <2>4, <2>6, <3>1 DEF LiveClientsStayRegistered
    <3> QED BY <3>1, <3>2
  <2>8. NoRegistrationLeak'
    BY <1>0, <2>4, <2>6 DEF NoRegistrationLeak
  <2> QED BY <2>5, <2>7, <2>8 DEF RingInv
<1>3. CASE CleanupPush
  <2>1. PICK i0 \in Instance : i0 = Head(pending_disconnects)
    BY <1>0, <1>3 DEF CleanupPush, TypeOK
  <2>2. PICK cmd \in EngineCommand :
          cmd = Disconnect(i0) /\ cmd.kind = "DisconnectInstance" /\ cmd.id = i0
    <3>1. Disconnect(i0).kind = "DisconnectInstance" /\ Disconnect(i0).id = i0
      BY DEF Disconnect
    <3>2. Disconnect(i0) \in EngineCommand
      BY <2>1 DEF Disconnect, EngineCommand
    <3> HIDE DEF Disconnect
    <3> QED BY <3>1, <3>2
  <2>3. /\ Push(cmd) /\ UNCHANGED <<registered, instance_id>>
        /\ active_instances' = active_instances \ {i0}
    BY <1>3, <2>1, <2>2 DEF CleanupPush, engine
  <2>4. SessionOrder'
    BY <1>0, <2>2, <2>3, PushKeepsOrder DEF FitsAfter
  <2>5. \A i : OpenBefore(i, EndOfRing)' <=> i # i0 /\ OpenBefore(i, EndOfRing)
    BY <1>0, <2>2, <2>3, PushOpensOrCloses
  <2>6. \A c \in Conn : instance_id[c] # i0
    <3>1. 1 \in DOMAIN pending_disconnects /\ pending_disconnects[1] = i0
      BY <1>0, <1>3, <2>1 DEF CleanupPush, TypeOK
    <3> QED BY <1>0, <3>1 DEF OneHolderPerId
  <2>7. LiveClientsStayRegistered'
    <3> SUFFICES ASSUME NEW c \in Conn, instance_id'[c] # None
                 PROVE  OpenBefore(instance_id[c], EndOfRing)'
      BY DEF LiveClientsStayRegistered
    <3>1. PICK i : i = instance_id'[c]
      OBVIOUS
    <3>2. OpenBefore(i, EndOfRing)'
      BY <1>0, <2>3, <2>5, <2>6, <3>1 DEF LiveClientsStayRegistered
    <3> QED BY <3>1, <3>2
  <2>8. NoRegistrationLeak'
    BY <1>0, <2>3, <2>5 DEF NoRegistrationLeak
  <2> QED BY <2>4, <2>7, <2>8 DEF RingInv
<1> QED BY <1>1, <1>2, <1>3

\* A pop takes from the ring what it adds to the engine's registry, so that
\* every command behind it still finds the same instances registered.
LEMMA PopKeepsRing ==
  ASSUME TypeOK, RingInv, EnginePop
  PROVE  RingInv'
<1>0. SessionOrder /\ LiveClientsStayRegistered /\ NoRegistrationLeak
      /\ command_queue # <<>> /\ command_queue' = Tail(command_queue)
      /\ UNCHANGED <<instance_id, active_instances>>
  BY DEF RingInv, EnginePop, ipcVars, identity
<1>1. PICK n \in Nat \ {0} :
        /\ Len(command_queue) = n /\ Len(command_queue') = n - 1
        /\ \A k \in 1..(n - 1) : command_queue'[k] = command_queue[k + 1]
  BY <1>0, PopPlaces
<1>2. /\ Places = 1..n /\ Places' = 1..(n - 1)
      /\ EndOfRing = n + 1 /\ EndOfRing' = n
  BY <1>1 DEF Places, EndOfRing
<1>3. \A i \in Instance : \A k \in 1..n : OpenBefore(i, k)' <=> OpenBefore(i, k + 1)
  BY <1>1, PopShiftsOpen
<1>4. \A i \in Instance : OpenBefore(i, EndOfRing)' <=> OpenBefore(i, EndOfRing)
  BY <1>1, <1>2, <1>3
<1>5. SessionOrder'
  <2> SUFFICES ASSUME NEW k \in 1..(n - 1)
               PROVE  /\ command_queue'[k].kind = "RegisterInstance" =>
                           ~OpenBefore(command_queue[k].id, k)'
                      /\ command_queue'[k].kind
                             \notin {"RegisterInstance", "DisconnectInstance", "Panic"} =>
                           OpenBefore(command_queue[k].id, k)'
    BY <1>2 DEF SessionOrder
  <2>1. k \in 1..n /\ k + 1 \in 1..n
    BY <1>1
  <2>2. command_queue[k + 1] \in EngineCommand
    BY <1>1, <2>1 DEF TypeOK
  <2>3. PICK cmd \in EngineCommand : cmd = command_queue[k + 1]
    BY <2>2
  <2>4. cmd = command_queue'[k]
    BY <1>1, <2>3
  <2>5. /\ cmd.kind = "RegisterInstance" => ~OpenBefore(cmd.id, k + 1)
        /\ cmd.kind \notin {"RegisterInstance", "DisconnectInstance", "Panic"} =>
             OpenBefore(cmd.id, k + 1)
    BY <1>0, <1>2, <2>1, <2>3 DEF SessionOrder
  <2>6. cmd.kind # "Panic" => cmd.id \in Instance
    BY DEF EngineCommand
  <2>7. cmd.id \in Instance => (OpenBefore(cmd.id, k)' <=> OpenBefore(cmd.id, k + 1))
    BY <1>3, <2>1
  <2> QED BY <2>4, <2>5, <2>6, <2>7
<1>6. LiveClientsStayRegistered'
  <2> SUFFICES ASSUME NEW c \in Conn, instance_id'[c] # None
               PROVE  OpenBefore(instance_id[c], EndOfRing)'
    BY DEF LiveClientsStayRegistered
  <2>1. PICK i : i = instance_id[c]
    OBVIOUS
  <2>2. i \in Instance /\ i = instance_id'[c]
    BY <1>0, <2>1 DEF TypeOK
  <2>3. OpenBefore(i, EndOfRing)'
    BY <1>0, <1>4, <2>1, <2>2 DEF LiveClientsStayRegistered
  <2> QED BY <2>2, <2>3
<1>7. NoRegistrationLeak'
  BY <1>0, <1>4 DEF NoRegistrationLeak
<1> QED BY <1>5, <1>6, <1>7 DEF RingInv

\* A dropped connection is only unbound.
LEMMA DropUnbinds ==
  ASSUME TypeOK, NEW c \in Conn, NEW id, DropClient(c, id)
  PROVE  \A d \in Conn : instance_id'[d] # None => instance_id'[d] = instance_id[d]
BY DEF TypeOK, DropClient

\* Nothing is open before the first command.
LEMMA SessionInit == Init => RingInv
<1> SUFFICES ASSUME Init PROVE RingInv
  OBVIOUS
<1>1. Len(command_queue) = 0 /\ Places = {} /\ registered = {}
  BY DEF Init, Places
<1>2. \A i, k : ~OpenBefore(i, k)
  BY <1>1 DEF OpenBefore
<1> QED BY <1>1, <1>2 DEF Init, IpcInit, RingInv, SessionOrder, LiveClientsStayRegistered,
       NoRegistrationLeak

\* Every step keeps the sessions in order.
LEMMA RingStep == SessionInv /\ [Next]_vars => RingInv'
<1> SUFFICES ASSUME SessionInv, [Next]_vars PROVE RingInv'
  OBVIOUS
<1>0. TypeOK /\ TypeInv /\ RingInv
  BY DEF SessionInv, TypeInv, RingInv
<1>1. CASE Hello \/ Forward \/ CleanupPush
  BY <1>1, PushKeepsRing
<1>2. CASE EnginePop
  BY <1>0, <1>2, PopKeepsRing
<1>3. ASSUME NEW c \in Conn, ReadEnd(c) \/ FlushFail(c) PROVE RingInv'
  <2>1. DropClient(c, instance_id[c])
        /\ UNCHANGED <<command_queue, registered, active_instances>>
    BY <1>3 DEF ReadEnd, FlushFail, engine
  <2> QED BY <1>0, <2>1, DropUnbinds, UnboundKeepsRing
<1>4. CASE RejectClient \/ HelloOverflow
  <2>1. current \in Conn
    BY <1>0, <1>4, DecodingTyped DEF RejectClient, HelloOverflow
  <2>2. \E id : DropClient(current, id)
    BY <1>4 DEF RejectClient, HelloOverflow
  <2>3. UNCHANGED <<command_queue, registered>>
        /\ active_instances \subseteq active_instances'
    BY <1>4 DEF RejectClient, HelloOverflow, engine
  <2> QED BY <1>0, <2>1, <2>2, <2>3, DropUnbinds, UnboundKeepsRing
<1>5. ASSUME NEW c \in Conn, Accept(c) \/ AcceptFail(c) \/ ReadFrames(c) \/ FlushWrite(c)
      PROVE  RingInv'
  BY <1>0, <1>5, RingUnmoved DEF Accept, AcceptFail, ReadFrames, FlushWrite, identity, engine
<1>6. CASE PeerStep
  BY <1>0, <1>6, RingUnmoved DEF PeerStep, Connect, Close, Send, identity, engine
<1>7. CASE AcceptNone \/ VisitDone \/ DecodeDone \/ SkipFrame \/ Shed
           \/ CleanupDone \/ FlushDone
  BY <1>0, <1>7, RingUnmoved DEF AcceptNone, VisitDone, DecodeDone, SkipFrame, Shed,
     CleanupDone, FlushDone, identity, engine
<1>8. ASSUME NEW d \in BOOLEAN, NEW o \in BOOLEAN, ServeStatus(d, o) PROVE RingInv'
  BY <1>0, <1>8, RingUnmoved DEF ServeStatus, identity, engine
<1>9. CASE UNCHANGED vars
  BY <1>0, <1>9, RingUnmoved DEF vars, ipcVars, identity, engine
<1> QED BY <1>1, <1>2, <1>3, <1>4, <1>5, <1>6, <1>7, <1>8, <1>9 DEF Next, IpcStep

\* The inductive invariant of the sessions.
LEMMA SessionInvariant == Spec => []SessionInv
<1>1. Init => SessionInv
  BY TypeInit, HolderInit, SessionInit DEF SessionInv, RingInv
<1>2. SessionInv /\ [Next]_vars => SessionInv'
  <2> SUFFICES ASSUME SessionInv, [Next]_vars PROVE SessionInv'
    OBVIOUS
  <2>1. TypeInv' /\ OneHolderPerId' /\ RingInv'
    BY TypeStep, HolderStep, RingStep DEF SessionInv
  <2> QED BY <2>1 DEF SessionInv, RingInv
<1> QED BY <1>1, <1>2, PTL DEF Spec

\* In ring order an instance is registered before its first command and nothing
\* of it follows its disconnection, whatever clients come and go.
THEOREM SessionsAlwaysOrdered == Spec => []SessionOrder
<1>1. SessionInv => SessionOrder
  BY DEF SessionInv
<1> QED BY <1>1, SessionInvariant, PTL

\* The delayed cleanup of an older connection never removes the registration of
\* the client that took its id over.
THEOREM LiveClientsAlwaysRegistered == Spec => []LiveClientsStayRegistered
<1>1. SessionInv => LiveClientsStayRegistered
  BY DEF SessionInv
<1> QED BY <1>1, SessionInvariant, PTL

\* No registration outlives its connection and its cleanup.
THEOREM NeverLeaksRegistration == Spec => []NoRegistrationLeak
<1>1. SessionInv => NoRegistrationLeak
  BY DEF SessionInv
<1> QED BY <1>1, SessionInvariant, PTL

-----------------------------------------------------------------------------
(***************************************************************************)
(* The reserve: only lifecycle commands reach the last places of the ring. *)
(***************************************************************************)
\* A push is harmless if it is critical or leaves the reserve free.
LEMMA PushKeepsReserve ==
  ASSUME TypeOK, ReserveHoldsCriticalOnly, NEW cmd \in EngineCommand, Push(cmd),
         CriticalCommand(cmd) \/ FreePlaces > Reserve
  PROVE  ReserveHoldsCriticalOnly'
<1>1. PICK n \in Nat : Len(command_queue) = n /\ Len(command_queue') = n + 1
  BY PushPlaces
<1>2. Places = 1..n /\ Places' = 1..(n + 1)
  BY <1>1 DEF Places
<1> SUFFICES ASSUME NEW k \in 1..(n + 1), k > Capacity - Reserve
             PROVE  CriticalCommand(command_queue'[k])
  BY <1>2 DEF ReserveHoldsCriticalOnly, CriticalCommand
<1>3. CASE k = n + 1
  <2>1. ~(FreePlaces > Reserve)
    BY <1>1, <1>3, IpcAssumption DEF FreePlaces
  <2>2. command_queue'[k] = cmd
    BY <1>1, <1>3, PushPlaces
  <2> QED BY <2>1, <2>2
<1>4. CASE k # n + 1
  <2>1. k \in Places /\ command_queue'[k] = command_queue[k]
    BY <1>2, <1>4, PushPlaces
  <2> QED BY <2>1 DEF ReserveHoldsCriticalOnly
<1> QED BY <1>3, <1>4

\* A pop moves commands out of the reserve, never into it.
LEMMA PopKeepsReserve ==
  ASSUME TypeOK, ReserveHoldsCriticalOnly, EnginePop
  PROVE  ReserveHoldsCriticalOnly'
<1>1. command_queue # <<>> /\ command_queue' = Tail(command_queue)
  BY DEF EnginePop
<1>2. PICK n \in Nat \ {0} :
        /\ Len(command_queue) = n /\ Len(command_queue') = n - 1
        /\ \A k \in 1..(n - 1) : command_queue'[k] = command_queue[k + 1]
  BY <1>1, PopPlaces
<1> SUFFICES ASSUME NEW k \in 1..(n - 1), k > Capacity - Reserve
             PROVE  CriticalCommand(command_queue'[k])
  BY <1>2 DEF Places, ReserveHoldsCriticalOnly, CriticalCommand
<1>3. k + 1 \in Places /\ k + 1 > Capacity - Reserve
  BY <1>2, IpcAssumption DEF Places
<1> QED BY <1>2, <1>3 DEF ReserveHoldsCriticalOnly

\* Every step keeps the reserve.
LEMMA ReserveStep ==
  TypeInv /\ ReserveHoldsCriticalOnly /\ [Next]_vars => ReserveHoldsCriticalOnly'
<1> SUFFICES ASSUME TypeInv, ReserveHoldsCriticalOnly, [Next]_vars
             PROVE  ReserveHoldsCriticalOnly'
  OBVIOUS
<1> DEFINE m == Head(frames)
<1>0. TypeOK
  BY DEF TypeInv
<1>1. CASE UNCHANGED command_queue
  BY <1>1 DEF ReserveHoldsCriticalOnly, Places, CriticalCommand
<1>2. CASE EnginePop
  BY <1>0, <1>2, PopKeepsReserve
<1>3. CASE Hello
  <2>1. m \in Frame /\ m.kind = "Hello" /\ m.body.id \in Instance
    BY <1>3, DecodingTyped, FrameShape DEF Hello, HelloBody
  <2>2. PICK cmd \in EngineCommand :
          cmd = FromWire(m, m.body.id) /\ cmd.kind = "RegisterInstance"
    BY <2>1, HelloBecomesRegister
  <2> QED BY <1>0, <1>3, <2>2, PushKeepsReserve DEF Hello, CriticalCommand
<1>4. CASE Forward
  <2>1. /\ m \in Frame /\ Bound \in Instance
        /\ Performance(m) /\ Admitted(m) /\ Push(FromWire(m, Bound))
    BY <1>4, DecodingTyped DEF Forward
  <2>2. PICK cmd \in EngineCommand : cmd = FromWire(m, Bound) /\ cmd.kind = m.kind
    BY <2>1, PerformanceIsStamped
  <2>3. CriticalCommand(cmd) \/ FreePlaces > Reserve
    BY <2>1, <2>2 DEF Admitted, Critical, CriticalCommand, Performance
  <2> QED BY <1>0, <2>1, <2>2, <2>3, PushKeepsReserve
<1>5. CASE CleanupPush
  <2>1. Head(pending_disconnects) \in Instance
    BY <1>0, <1>5 DEF CleanupPush, TypeOK
  <2>2. PICK cmd \in EngineCommand :
          cmd = Disconnect(Head(pending_disconnects)) /\ cmd.kind = "DisconnectInstance"
    <3>1. Disconnect(Head(pending_disconnects)).kind = "DisconnectInstance"
      BY DEF Disconnect
    <3>2. Disconnect(Head(pending_disconnects)) \in EngineCommand
      BY <2>1 DEF Disconnect, EngineCommand
    <3> HIDE DEF Disconnect
    <3> QED BY <3>1, <3>2
  <2> QED BY <1>0, <1>5, <2>2, PushKeepsReserve DEF CleanupPush, CriticalCommand
<1> QED
  BY <1>1, <1>2, <1>3, <1>4, <1>5
  DEF Next, IpcStep, PeerStep, Connect, Close, Send, Accept, AcceptFail, AcceptNone, ReadEnd,
      ReadFrames, VisitDone, DecodeDone, SkipFrame, RejectClient, HelloOverflow, Shed,
      CleanupDone, ServeStatus, FlushWrite, FlushFail, FlushDone, vars

\* However many MPE and parameter commands the clients send, the last places of
\* the ring are only ever used by registrations, disconnections, NoteOffs and
\* Panic.
THEOREM ReserveAlwaysCritical == Spec => []ReserveHoldsCriticalOnly
<1>1. Init => ReserveHoldsCriticalOnly
  BY DEF Init, ReserveHoldsCriticalOnly, Places
<1> QED BY <1>1, TypeInit, TypeStep, ReserveStep, PTL DEF Spec

-----------------------------------------------------------------------------
(***************************************************************************)
(* The routing mirror: routes is what the engine will have once it has     *)
(* applied the ring.                                                       *)
(***************************************************************************)
\* The mirrored route of one output.
Mirrors(p) ==
  \/ \E k \in Places :
       /\ RouteCommand(p, k)
       /\ routes[p] = command_queue[k].body.source
       /\ \A l \in Places : l > k => ~RouteCommand(p, l)
  \/ /\ \A k \in Places : ~RouteCommand(p, k)
     /\ routes[p] = monitor_routes[p]

LEMMA MirrorsDef == RoutesMirrorEngine <=> \A p \in Transducer : Mirrors(p)
BY DEF RoutesMirrorEngine, Mirrors

\* A push keeps the mirror of an output that it does not route.
LEMMA PushKeepsMirror ==
  ASSUME TypeOK, NEW cmd \in EngineCommand, Push(cmd), UNCHANGED monitor_routes,
         NEW p \in Transducer, Mirrors(p), routes'[p] = routes[p],
         ~(cmd.kind = "SetMonitorRoute" /\ cmd.body.output = p)
  PROVE  Mirrors(p)'
<1>1. PICK n \in Nat : Len(command_queue) = n /\ Len(command_queue') = n + 1
  BY PushPlaces
<1>2. Places = 1..n /\ Places' = 1..(n + 1)
  BY <1>1 DEF Places
<1>3. \A k \in 1..n : command_queue'[k] = command_queue[k]
  BY <1>2, PushPlaces
<1>4. \A k \in 1..n : RouteCommand(p, k)' <=> RouteCommand(p, k)
  BY <1>3 DEF RouteCommand
<1>5. ~RouteCommand(p, n + 1)'
  BY <1>1, PushPlaces DEF RouteCommand
<1>6. \A l \in Places' : l \in Places \/ l = n + 1
  BY <1>2
<1>7. CASE \E k \in Places :
             /\ RouteCommand(p, k)
             /\ routes[p] = command_queue[k].body.source
             /\ \A l \in Places : l > k => ~RouteCommand(p, l)
  <2>1. PICK k \in Places :
             /\ RouteCommand(p, k)
             /\ routes[p] = command_queue[k].body.source
             /\ \A l \in Places : l > k => ~RouteCommand(p, l)
    BY <1>7
  <2>2. k \in Places' /\ RouteCommand(p, k)'
    BY <1>2, <1>4, <2>1
  <2>3. (routes[p] = command_queue[k].body.source)'
    BY <1>2, <1>3, <2>1
  <2>4. \A l \in Places' : l > k => ~RouteCommand(p, l)'
    BY <1>2, <1>4, <1>5, <1>6, <2>1
  <2> QED BY <2>2, <2>3, <2>4 DEF Mirrors
<1>8. CASE /\ \A k \in Places : ~RouteCommand(p, k)
           /\ routes[p] = monitor_routes[p]
  <2>1. \A k \in Places' : ~RouteCommand(p, k)'
    BY <1>2, <1>4, <1>5, <1>6, <1>8
  <2>2. (routes[p] = monitor_routes[p])'
    BY <1>8
  <2> QED BY <2>1, <2>2 DEF Mirrors
<1> QED BY <1>7, <1>8 DEF Mirrors

\* A pushed route is mirrored.
LEMMA PushedRouteIsMirrored ==
  ASSUME TypeOK, NEW cmd \in EngineCommand, Push(cmd), NEW p \in Transducer,
         cmd.kind = "SetMonitorRoute", cmd.body.output = p,
         routes'[p] = cmd.body.source
  PROVE  Mirrors(p)'
<1>1. PICK n \in Nat : Len(command_queue) = n /\ Len(command_queue') = n + 1
  BY PushPlaces
<1>2. Places' = 1..(n + 1) /\ command_queue'[n + 1] = cmd
  BY <1>1, PushPlaces DEF Places
<1>3. n + 1 \in Places' /\ RouteCommand(p, n + 1)'
  BY <1>2 DEF RouteCommand
<1>4. (routes[p] = command_queue[n + 1].body.source)'
  BY <1>2
<1>5. \A l \in Places' : ~(l > n + 1)
  BY <1>2
<1> QED BY <1>3, <1>4, <1>5 DEF Mirrors

\* A pop hands the route it removes to the engine.
LEMMA PopKeepsMirror ==
  ASSUME TypeOK, EnginePop, NEW p \in Transducer, Mirrors(p)
  PROVE  Mirrors(p)'
<1> DEFINE cmd == Head(command_queue)
<1>0. command_queue # <<>> /\ command_queue' = Tail(command_queue) /\ routes' = routes
  BY DEF EnginePop, ipcVars
<1>1. PICK n \in Nat \ {0} :
        /\ Len(command_queue) = n /\ Len(command_queue') = n - 1
        /\ \A k \in 1..(n - 1) : command_queue'[k] = command_queue[k + 1]
  BY <1>0, PopPlaces
<1>2. Places = 1..n /\ Places' = 1..(n - 1)
  BY <1>1 DEF Places
<1>3. \A k \in 1..(n - 1) : RouteCommand(p, k)' <=> RouteCommand(p, k + 1)
  BY <1>1 DEF RouteCommand
<1>4. cmd = command_queue[1] /\ cmd \in EngineCommand
  BY <1>0, PopPlaces DEF TypeOK
<1>5. RouteCommand(p, 1) => monitor_routes'[p] = command_queue[1].body.source
  BY <1>4 DEF EnginePop, RouteCommand, TypeOK, Routing
<1>6. ~RouteCommand(p, 1) => monitor_routes'[p] = monitor_routes[p]
  BY <1>4 DEF EnginePop, RouteCommand, TypeOK, Routing
<1>7. \A k \in Places \ {1} : k - 1 \in Places' /\ (k - 1) + 1 = k
  BY <1>2
<1>8. \A k \in Places' : k + 1 \in Places /\ k + 1 # 1
  BY <1>2
<1>9. CASE \E k \in Places \ {1} :
             /\ RouteCommand(p, k)
             /\ routes[p] = command_queue[k].body.source
             /\ \A l \in Places : l > k => ~RouteCommand(p, l)
  <2>1. PICK k \in Places \ {1} :
             /\ RouteCommand(p, k)
             /\ routes[p] = command_queue[k].body.source
             /\ \A l \in Places : l > k => ~RouteCommand(p, l)
    BY <1>9
  <2>2. k - 1 \in Places' /\ k - 1 \in 1..(n - 1) /\ (k - 1) + 1 = k
    BY <1>2, <1>7
  <2>3. RouteCommand(p, k - 1)'
    BY <1>3, <2>1, <2>2
  <2>4. (routes[p] = command_queue[k - 1].body.source)'
    BY <1>0, <1>1, <2>1, <2>2
  <2>5. \A l \in Places' : l > k - 1 => ~RouteCommand(p, l)'
    <3> SUFFICES ASSUME NEW l \in 1..(n - 1), l > k - 1 PROVE ~RouteCommand(p, l)'
      BY <1>2
    <3>1. l + 1 \in Places /\ l + 1 > k
      BY <1>2, <2>2
    <3> QED BY <1>3, <2>1, <3>1
  <2> QED BY <2>2, <2>3, <2>4, <2>5 DEF Mirrors
<1>10. CASE /\ RouteCommand(p, 1)
            /\ routes[p] = command_queue[1].body.source
            /\ \A l \in Places : l > 1 => ~RouteCommand(p, l)
  <2>1. \A k \in Places' : ~RouteCommand(p, k)'
    <3> SUFFICES ASSUME NEW k \in 1..(n - 1) PROVE ~RouteCommand(p, k)'
      BY <1>2
    <3>1. k + 1 \in Places /\ k + 1 > 1
      BY <1>2
    <3> QED BY <1>3, <1>10, <3>1
  <2>2. (routes[p] = monitor_routes[p])'
    BY <1>0, <1>5, <1>10
  <2> QED BY <2>1, <2>2 DEF Mirrors
<1>11. CASE /\ \A k \in Places : ~RouteCommand(p, k)
            /\ routes[p] = monitor_routes[p]
  <2>1. \A k \in Places' : ~RouteCommand(p, k)'
    BY <1>2, <1>3, <1>8, <1>11
  <2>2. 1 \in Places
    BY <1>2
  <2>3. (routes[p] = monitor_routes[p])'
    BY <1>0, <1>6, <1>11, <2>2
  <2> QED BY <2>1, <2>3 DEF Mirrors
<1> QED BY <1>9, <1>10, <1>11 DEF Mirrors

\* Every step keeps the mirror.
LEMMA MirrorStep == TypeInv /\ RoutesMirrorEngine /\ [Next]_vars => RoutesMirrorEngine'
<1> SUFFICES ASSUME TypeInv, RoutesMirrorEngine, [Next]_vars,
                    NEW p \in Transducer
             PROVE  Mirrors(p)'
  BY DEF RoutesMirrorEngine, Mirrors
<1> DEFINE m == Head(frames)
<1>0. TypeOK /\ Mirrors(p)
  BY MirrorsDef DEF TypeInv
<1>1. CASE UNCHANGED <<command_queue, routes, monitor_routes>>
  BY <1>0, <1>1 DEF Mirrors, RouteCommand, Places
<1>2. CASE EnginePop
  BY <1>0, <1>2, PopKeepsMirror
<1>3. CASE Hello
  <2>1. m \in Frame /\ m.kind = "Hello" /\ m.body.id \in Instance
    BY <1>3, DecodingTyped, FrameShape DEF Hello, HelloBody
  <2>2. PICK cmd \in EngineCommand :
          cmd = FromWire(m, m.body.id) /\ cmd.kind = "RegisterInstance"
    BY <2>1, HelloBecomesRegister
  <2>3. Push(cmd) /\ UNCHANGED monitor_routes /\ routes'[p] = routes[p]
    BY <1>3, <2>2 DEF Hello, engine
  <2> QED BY <1>0, <2>2, <2>3, PushKeepsMirror
<1>4. CASE Forward
  <2>1. /\ m \in Frame /\ Bound \in Instance
        /\ Performance(m) /\ Push(FromWire(m, Bound))
    BY <1>4, DecodingTyped DEF Forward
  <2>2. PICK cmd \in EngineCommand :
          cmd = FromWire(m, Bound) /\ cmd.kind = m.kind /\ cmd.body = m.body
    BY <2>1, PerformanceIsStamped
  <2>3. Push(cmd) /\ UNCHANGED monitor_routes
    BY <1>4, <2>1, <2>2 DEF Forward, engine
  <2>4. CASE m.kind = "SetMonitorRoute" /\ m.body.output = p
    <3>1. routes'[p] = cmd.body.source
      BY <1>0, <1>4, <2>2, <2>4 DEF Forward, TypeOK, Routing
    <3> QED BY <1>0, <2>2, <2>3, <2>4, <3>1, PushedRouteIsMirrored
  <2>5. CASE ~(m.kind = "SetMonitorRoute" /\ m.body.output = p)
    <3>1. routes'[p] = routes[p]
      BY <1>0, <1>4, <2>5 DEF Forward, TypeOK, Routing
    <3> QED BY <1>0, <2>2, <2>3, <2>5, <3>1, PushKeepsMirror
  <2> QED BY <2>4, <2>5
<1>5. CASE CleanupPush
  <2>1. Head(pending_disconnects) \in Instance
    BY <1>0, <1>5 DEF CleanupPush, TypeOK
  <2>2. PICK cmd \in EngineCommand :
          cmd = Disconnect(Head(pending_disconnects)) /\ cmd.kind = "DisconnectInstance"
    <3>1. Disconnect(Head(pending_disconnects)).kind = "DisconnectInstance"
      BY DEF Disconnect
    <3>2. Disconnect(Head(pending_disconnects)) \in EngineCommand
      BY <2>1 DEF Disconnect, EngineCommand
    <3> HIDE DEF Disconnect
    <3> QED BY <3>1, <3>2
  <2>3. Push(cmd) /\ UNCHANGED monitor_routes /\ routes'[p] = routes[p]
    BY <1>5, <2>2 DEF CleanupPush, engine
  <2> QED BY <1>0, <2>2, <2>3, PushKeepsMirror
<1> QED
  BY <1>1, <1>2, <1>3, <1>4, <1>5
  DEF Next, IpcStep, PeerStep, Connect, Close, Send, Accept, AcceptFail, AcceptNone, ReadEnd,
      ReadFrames, VisitDone, DecodeDone, SkipFrame, RejectClient, HelloOverflow, Shed,
      CleanupDone, ServeStatus, FlushWrite, FlushFail, FlushDone, vars, ipcVars, engine

\* The routing the observers are shown is the one the engine will have, also when
\* the ring shed updates on the way.
THEOREM RoutesAlwaysMirrored == Spec => []RoutesMirrorEngine
<1>1. Init => RoutesMirrorEngine
  BY DEF Init, IpcInit, RoutesMirrorEngine, Places, RouteCommand
<1> QED BY <1>1, TypeInit, TypeStep, MirrorStep, PTL DEF Spec

-----------------------------------------------------------------------------
(***************************************************************************)
(* Observers.  Only a connected and bound client observes, the loop visits *)
(* and decodes only connected clients, and whoever overflows in the status *)
(* phase is dropped in the flush behind it.                                *)
(***************************************************************************)
ObserverInv ==
  /\ at \in {"visit", "decode"} => \A c \in todo : link[c] = "client"
  /\ at = "decode" => current \in todo
  /\ \A c \in Conn : wants_status[c] => link[c] = "client" /\ instance_id[c] # None
  /\ \A c \in Conn : status_output[c] = "overflowed" => at = "flush" /\ c \in todo
  /\ ObserversAreUpToDate

\* Nobody observes at first.
LEMMA ObserverInit == Init => ObserverInv
BY DEF Init, IpcInit, ObserverInv, ObserversAreUpToDate

\* A client that is dropped neither observes nor is greeted; the others stay.
LEMMA DropKeepsObservers ==
  ASSUME TypeOK, ObserverInv, NEW c \in Conn, NEW id, DropClient(c, id), UNCHANGED routes
  PROVE  /\ \A d \in Conn :
              wants_status'[d] => link'[d] = "client" /\ instance_id'[d] # None
         /\ ObserversAreUpToDate'
         /\ \A d \in Conn : d # c => link'[d] = link[d]
         /\ \A d \in Conn :
              status_output'[d] = "overflowed" => d # c /\ status_output[d] = "overflowed"
<1>1. \A d \in Conn :
        /\ d = c => ~wants_status'[d] /\ ~greeted'[d] /\ status_output'[d] = "empty"
        /\ d # c => /\ link'[d] = link[d] /\ instance_id'[d] = instance_id[d]
                    /\ wants_status'[d] = wants_status[d] /\ greeted'[d] = greeted[d]
                    /\ status_output'[d] = status_output[d] /\ shown'[d] = shown[d]
  BY DEF DropClient, TypeOK
<1>2. UNCHANGED <<routes, routing_dirty>>
  BY DEF DropClient
<1> QED BY <1>1, <1>2 DEF ObserverInv, ObserversAreUpToDate

\* Every step keeps the invariant.
LEMMA ObserverStep == TypeInv /\ ObserverInv /\ [Next]_vars => ObserverInv'
<1> SUFFICES ASSUME TypeInv, ObserverInv, [Next]_vars PROVE ObserverInv'
  OBVIOUS
<1>0. TypeOK
  BY DEF TypeInv
<1> USE DEF ObserverInv, ObserversAreUpToDate
<1>1. CASE UNCHANGED <<link, instance_id, status, at, todo, current, routes>>
  BY <1>1 DEF status
<1>2. ASSUME NEW c \in Conn, Connect(c) \/ Close(c) PROVE ObserverInv'
  BY <1>0, <1>2 DEF Connect, Close, identity, status, loop, TypeOK
<1>3. ASSUME NEW c \in Conn, Accept(c) \/ AcceptFail(c) PROVE ObserverInv'
  BY <1>0, <1>3 DEF Accept, AcceptFail, Clients, identity, status, loop, TypeOK
<1>4. ASSUME NEW c \in Conn, ReadEnd(c) PROVE ObserverInv'
  <2>1. DropClient(c, instance_id[c]) /\ UNCHANGED <<routes, at, current>>
    BY <1>4 DEF ReadEnd
  <2>2. todo' = todo \ {c} /\ at = "visit" /\ todo \subseteq Conn
    BY <1>0, <1>4 DEF ReadEnd, TypeOK
  <2> HIDE DEF ObserversAreUpToDate
  <2> QED BY <1>0, <2>1, <2>2, DropKeepsObservers
<1>5. ASSUME NEW c \in Conn, ReadFrames(c) PROVE ObserverInv'
  BY <1>0, <1>5 DEF ReadFrames, identity, status, TypeOK
<1>6. CASE AcceptNone \/ VisitDone \/ CleanupDone \/ FlushDone
  BY <1>0, <1>6 DEF AcceptNone, VisitDone, CleanupDone, FlushDone, Clients, peers,
     identity, status, TypeOK
<1>7. CASE DecodeDone
  BY <1>0, <1>7 DEF DecodeDone, LeaveClient, peers, identity, status, TypeOK
<1>8. CASE RejectClient \/ HelloOverflow
  <2>1. PICK id : DropClient(current, id)
    BY <1>8 DEF RejectClient, HelloOverflow
  <2>2. /\ at' = "visit" /\ todo' = todo \ {current} /\ at = "decode" /\ UNCHANGED routes
        /\ current \in Conn /\ todo \subseteq Conn
    BY <1>0, <1>8, DecodingTyped DEF RejectClient, HelloOverflow, LeaveClient, Decoding, TypeOK
  <2> HIDE DEF ObserversAreUpToDate
  <2> QED BY <1>0, <2>1, <2>2, DropKeepsObservers
<1>9. CASE Hello
  <2>1. Head(frames) \in Frame /\ current \in Conn /\ at = "decode"
    BY <1>9, DecodingTyped DEF Hello, Decoding
  <2>2. Head(frames).body.id \in Instance /\ instance_id[current] = None
    BY <1>9, <2>1, FrameShape DEF Hello, HelloBody, MustReject, Bound
  <2>3. link[current] = "client" /\ ~greeted[current]
    BY <2>1, <2>2
  <2>4. /\ instance_id' = [instance_id EXCEPT ![current] = Head(frames).body.id]
        /\ status_output' = [status_output EXCEPT ![current] = "pending"]
        /\ UNCHANGED <<link, greeted, shown, routing_dirty, routes, at, todo, current>>
    BY <1>9 DEF Hello, NextFrame, peers
  <2>5. \A d \in Conn : d # current => wants_status'[d] = wants_status[d]
    BY <1>0, <1>9 DEF Hello, TypeOK
  <2>6. \A d \in Conn : d # current => instance_id'[d] = instance_id[d]
                                         /\ status_output'[d] = status_output[d]
    BY <1>0, <2>4 DEF TypeOK
  <2>7. instance_id'[current] # None
    BY <1>0, <2>1, <2>2, <2>4, ProtocolAssumption DEF TypeOK
  <2> QED BY <2>1, <2>3, <2>4, <2>5, <2>6, <2>7
<1>10. CASE Forward
  <2>1. UNCHANGED <<link, instance_id, wants_status, greeted, status_output, shown, at,
                    todo, current>>
    BY <1>10 DEF Forward, NextFrame, peers, identity
  <2>2. routing_dirty' = TRUE \/ UNCHANGED <<routes, routing_dirty>>
    BY <1>10 DEF Forward
  <2> QED BY <2>1, <2>2
<1>11. CASE CleanupPush
  BY <1>11 DEF CleanupPush, peers, status, loop
<1>12. ASSUME NEW d \in BOOLEAN, NEW o \in BOOLEAN, ServeStatus(d, o) PROVE ObserverInv'
  <2> DEFINE new    == {c \in Observers : ~greeted[c]}
             routed == IF routing_dirty \/ d THEN Observers ELSE new
             sent   == IF o THEN Observers ELSE routed
  <2>1. /\ greeted' = [c \in Conn |-> greeted[c] \/ c \in new]
        /\ at' = "flush"
        /\ UNCHANGED <<link, instance_id, wants_status, current, routes>>
    BY <1>12 DEF ServeStatus, peers, identity
  <2>2. PICK over \in SUBSET {c \in sent : status_output[c] = "pending"} :
          /\ shown' = [c \in Conn |-> IF c \in routed \ over THEN routes ELSE shown[c]]
          /\ status_output' = [c \in Conn |-> IF c \in over THEN "overflowed"
                                               ELSE IF c \in sent THEN "pending"
                                               ELSE status_output[c]]
    BY <1>12 DEF ServeStatus
  <2>3. over \subseteq sent /\ routed \subseteq sent /\ sent \subseteq Observers
    OBVIOUS
  <2>4. ASSUME NEW c \in Conn, greeted'[c]
        PROVE  wants_status'[c] /\ (shown'[c] = routes' \/ status_output'[c] = "overflowed")
    <3>1. greeted[c] \/ c \in new
      BY <2>1, <2>4
    <3>2. c \in Observers
      BY <1>0, <3>1 DEF Observers, Clients, TypeOK
    <3>3. CASE c \in over
      BY <2>1, <2>2, <3>2, <3>3 DEF Observers
    <3>4. CASE c \in routed \ over
      BY <2>1, <2>2, <3>2, <3>4 DEF Observers
    <3>5. CASE c \notin routed
      <4>1. greeted[c] /\ ~routing_dirty
        BY <3>1, <3>2, <3>5
      <4>2. shown[c] = routes \/ status_output[c] = "overflowed"
        BY <4>1
      <4>3. shown'[c] = shown[c]
        BY <2>2, <3>5
      <4>4. status_output[c] # "overflowed"
        BY <1>12 DEF ServeStatus
      <4> QED BY <2>1, <3>2, <4>2, <4>3, <4>4 DEF Observers
    <3> QED BY <3>3, <3>4, <3>5
  <2>5. ASSUME NEW c \in Conn, status_output'[c] = "overflowed" PROVE c \in todo'
    <3>1. c \in over
      BY <1>12, <2>2, <2>5 DEF ServeStatus
    <3> QED BY <1>12, <2>3, <3>1 DEF ServeStatus, Observers
  <2>6. ObserversAreUpToDate'
    BY <2>4
  <2> HIDE DEF ObserversAreUpToDate, new, routed, sent
  <2> QED BY <2>1, <2>5, <2>6
<1>13. ASSUME NEW c \in Conn, FlushWrite(c) PROVE ObserverInv'
  BY <1>0, <1>13 DEF FlushWrite, peers, identity, TypeOK
<1>14. ASSUME NEW c \in Conn, FlushFail(c) PROVE ObserverInv'
  <2>1. DropClient(c, instance_id[c]) /\ UNCHANGED <<routes, at, current>> /\ at = "flush"
        /\ todo' = todo \ {c}
    BY <1>14 DEF FlushFail
  <2> HIDE DEF ObserversAreUpToDate
  <2> QED BY <1>0, <2>1, DropKeepsObservers
<1>15. CASE SkipFrame \/ Shed
  BY <1>15 DEF SkipFrame, Shed, NextFrame, peers, identity, status
<1>16. CASE EnginePop
  BY <1>16 DEF EnginePop, ipcVars, peers, identity, status, loop
<1>17. ASSUME NEW c \in Conn, NEW m \in Message, Send(c, m) PROVE ObserverInv'
  BY <1>17 DEF Send, identity, status, loop
<1>18. CASE UNCHANGED vars
  BY <1>18 DEF vars, ipcVars, peers, identity, status, loop
<1> QED
  BY <1>2, <1>3, <1>4, <1>5, <1>6, <1>7, <1>8, <1>9, <1>10, <1>11, <1>12, <1>13,
     <1>14, <1>15, <1>16, <1>17, <1>18
  DEF Next, IpcStep, PeerStep

\* Whatever routes change and whoever stops reading, a greeted observer has the
\* current routing in its newest frame, is still owed a broadcast, or is dropped.
THEOREM ObserversAlwaysUpToDate == Spec => []ObserversAreUpToDate
<1>1. ObserverInv => ObserversAreUpToDate
  BY DEF ObserverInv
<1> QED BY <1>1, TypeInit, TypeStep, ObserverInit, ObserverStep, PTL DEF Spec
=============================================================================
