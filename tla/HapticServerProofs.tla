------------------------- MODULE HapticServerProofs -------------------------
(***************************************************************************)
(* Proofs about the composed server: as long as the registry has an entry  *)
(* for every id, it implements IpcServer and StimulusEngine, so what is    *)
(* proved of each half against an abstract other one holds against the     *)
(* real one; and what a vanished client leaves behind can still be ended.  *)
(*                                                                         *)
(* The lemmas of the two halves are taken over by instantiating their      *)
(* proof modules with the server's variables.                              *)
(***************************************************************************)
EXTENDS HapticServer, FiniteSetTheorems, TLAPS

EngineProofs == INSTANCE StimulusEngineProofs

IpcProofs == INSTANCE IpcServerProofs WITH registered <- EngineProofs!Registered

\* The assumptions of both halves are those of the server.
LEMMA HalvesAssume ==
  /\ EngineProofs!ProtocolAssumption /\ EngineProofs!EngineAssumption
  /\ EngineProofs!OwnerAssumption
  /\ IpcProofs!ProtocolAssumption /\ IpcProofs!IpcAssumption
<1>1. EngineProofs!ProtocolAssumption /\ IpcProofs!ProtocolAssumption
  BY ProtocolAssumption DEF InstanceConfig, StimulusType, EngineProofs!InstanceConfig,
     EngineProofs!StimulusType, IpcProofs!InstanceConfig, IpcProofs!StimulusType
<1>2. EngineProofs!EngineAssumption
  BY ServerAssumption DEF IsFiniteSet, EngineProofs!IsFiniteSet
<1>3. EngineProofs!OwnerAssumption
  BY ServerAssumption DEF Engine!VoiceOwner, EngineProofs!VoiceOwner
<1>4. IpcProofs!IpcAssumption
  BY ServerAssumption DEF Frame, HapticCommand, PerformanceCommand, RefusedFrame,
     HelloBody, KeyBody, NoteOnBody, MpeBody, TypeBody, RouteBody, ClientRole,
     InstanceConfig, StimulusType, IpcProofs!Frame, IpcProofs!HapticCommand,
     IpcProofs!PerformanceCommand, IpcProofs!RefusedFrame, IpcProofs!HelloBody,
     IpcProofs!KeyBody, IpcProofs!NoteOnBody, IpcProofs!MpeBody, IpcProofs!TypeBody,
     IpcProofs!RouteBody, IpcProofs!ClientRole, IpcProofs!InstanceConfig,
     IpcProofs!StimulusType
<1> QED BY <1>1, <1>2, <1>3, <1>4
\* What the server runs is what the proof modules speak of.
LEMMA SameEngine ==
  /\ Engine!Init <=> EngineProofs!Init
  /\ Engine!EngineStep <=> EngineProofs!EngineStep
BY DEF Engine!StimulusType, Engine!InstanceConfig, Engine!DefaultConfig, Engine!Slot,
     Engine!SilentVoice, Engine!IsActive, Engine!IsReleasing, Engine!Held,
     Engine!NoteOnVoice, Engine!NoteOffVoice, Engine!StepEnvelope,
     Engine!ProcessVoice, Engine!Registered, Engine!ConfigOf, Engine!CanClaim,
     Engine!Store, Engine!OwnedBy, Engine!PoolOf, Engine!Playing,
     Engine!UpdateVoices, Engine!AllocationSeq, Engine!StealBefore,
     Engine!FreeSlots, Engine!SlotFor, Engine!Pop, Engine!RegisterInstance,
     Engine!DisconnectInstance, Engine!StartVoice, Engine!NoteOn, Engine!NoteOff,
     Engine!MpeUpdate, Engine!SetStimulusType, Engine!SetSpeed, Engine!SetDecay,
     Engine!SetMonitorRoute, Engine!Panic, Engine!FinishDrain, Engine!RenderFrame,
     Engine!EndBlock, Engine!DrainCommand, Engine!EngineStep, Engine!EngineInit,
     Engine!Init, Engine!Cardinality, EngineProofs!StimulusType,
     EngineProofs!InstanceConfig, EngineProofs!DefaultConfig, EngineProofs!Slot,
     EngineProofs!SilentVoice, EngineProofs!IsActive, EngineProofs!IsReleasing,
     EngineProofs!Held, EngineProofs!NoteOnVoice, EngineProofs!NoteOffVoice,
     EngineProofs!StepEnvelope, EngineProofs!ProcessVoice, EngineProofs!Registered,
     EngineProofs!ConfigOf, EngineProofs!CanClaim, EngineProofs!Store,
     EngineProofs!OwnedBy, EngineProofs!PoolOf, EngineProofs!Playing,
     EngineProofs!UpdateVoices, EngineProofs!AllocationSeq,
     EngineProofs!StealBefore, EngineProofs!FreeSlots, EngineProofs!SlotFor,
     EngineProofs!Pop, EngineProofs!RegisterInstance,
     EngineProofs!DisconnectInstance, EngineProofs!StartVoice, EngineProofs!NoteOn,
     EngineProofs!NoteOff, EngineProofs!MpeUpdate, EngineProofs!SetStimulusType,
     EngineProofs!SetSpeed, EngineProofs!SetDecay, EngineProofs!SetMonitorRoute,
     EngineProofs!Panic, EngineProofs!FinishDrain, EngineProofs!RenderFrame,
     EngineProofs!EndBlock, EngineProofs!DrainCommand, EngineProofs!EngineStep,
     EngineProofs!EngineInit, EngineProofs!Init, EngineProofs!Cardinality

LEMMA SameIpc ==
  /\ Ipc!Init <=> IpcProofs!Init
  /\ Ipc!IpcStep <=> IpcProofs!IpcStep
  /\ [Ipc!Next]_(Ipc!vars) <=> [IpcProofs!Next]_(IpcProofs!vars)
BY DEF Engine!Registered, EngineProofs!Registered, Ipc!FromWire, Ipc!Disconnect, Ipc!peers, Ipc!identity, Ipc!status, Ipc!loop,
     Ipc!engine, Ipc!ipcVars, Ipc!vars, Ipc!Connect, Ipc!Send, Ipc!Close,
     Ipc!Clients, Ipc!FreePlaces, Ipc!Push, Ipc!Critical, Ipc!DropClient,
     Ipc!Accept, Ipc!AcceptNone, Ipc!AcceptFail, Ipc!ReadEnd, Ipc!ReadFrames,
     Ipc!VisitDone, Ipc!Decoding, Ipc!Bound, Ipc!NextFrame, Ipc!LeaveClient,
     Ipc!DecodeDone, Ipc!SkipFrame, Ipc!MustReject, Ipc!RejectClient, Ipc!Hello,
     Ipc!HelloOverflow, Ipc!Performance, Ipc!Admitted, Ipc!Forward, Ipc!Shed,
     Ipc!CleanupPush, Ipc!CleanupDone, Ipc!Observers, Ipc!ServeStatus,
     Ipc!FlushWrite, Ipc!FlushFail, Ipc!FlushDone, Ipc!IpcStep, Ipc!PeerStep,
     Ipc!EnginePop, Ipc!IpcInit, Ipc!Init, Ipc!Next, IpcProofs!FromWire,
     IpcProofs!Disconnect, IpcProofs!peers, IpcProofs!identity, IpcProofs!status,
     IpcProofs!loop, IpcProofs!engine, IpcProofs!ipcVars, IpcProofs!vars,
     IpcProofs!Connect, IpcProofs!Send, IpcProofs!Close, IpcProofs!Clients,
     IpcProofs!FreePlaces, IpcProofs!Push, IpcProofs!Critical, IpcProofs!DropClient,
     IpcProofs!Accept, IpcProofs!AcceptNone, IpcProofs!AcceptFail,
     IpcProofs!ReadEnd, IpcProofs!ReadFrames, IpcProofs!VisitDone,
     IpcProofs!Decoding, IpcProofs!Bound, IpcProofs!NextFrame,
     IpcProofs!LeaveClient, IpcProofs!DecodeDone, IpcProofs!SkipFrame,
     IpcProofs!MustReject, IpcProofs!RejectClient, IpcProofs!Hello,
     IpcProofs!HelloOverflow, IpcProofs!Performance, IpcProofs!Admitted,
     IpcProofs!Forward, IpcProofs!Shed, IpcProofs!CleanupPush,
     IpcProofs!CleanupDone, IpcProofs!Observers, IpcProofs!ServeStatus,
     IpcProofs!FlushWrite, IpcProofs!FlushFail, IpcProofs!FlushDone,
     IpcProofs!IpcStep, IpcProofs!PeerStep, IpcProofs!EnginePop, IpcProofs!IpcInit,
     IpcProofs!Init, IpcProofs!Next
-----------------------------------------------------------------------------
(***************************************************************************)
(* The engine against the IPC thread's picture of it.                      *)
(***************************************************************************)
\* The command at the head of the ring: a registration is of an instance that is
\* not registered, any other command of one that is.
LEMMA HeadFollowsSession ==
  ASSUME IpcProofs!SessionInv, command_queue # <<>>
  PROVE  LET cmd == Head(command_queue)
         IN  /\ cmd.kind = "RegisterInstance" => cmd.id \notin EngineProofs!Registered
             /\ cmd.kind \notin {"RegisterInstance", "DisconnectInstance", "Panic"}
                  => cmd.id \in EngineProofs!Registered
<1>1. IpcProofs!TypeOK /\ IpcProofs!SessionOrder
  BY DEF IpcProofs!SessionInv, IpcProofs!TypeInv
<1>2. 1 \in IpcProofs!Places /\ command_queue[1] = Head(command_queue)
  BY <1>1 DEF IpcProofs!TypeOK, IpcProofs!Places
<1>3. ~\E j \in IpcProofs!Places : j < 1
  BY <1>1 DEF IpcProofs!TypeOK, IpcProofs!Places
<1>4. \A i : IpcProofs!OpenBefore(i, 1) <=> i \in EngineProofs!Registered
  BY <1>3 DEF IpcProofs!OpenBefore
<1> QED BY <1>1, <1>2, <1>4 DEF IpcProofs!SessionOrder

\* With an entry for every id, one that is not registered finds a free entry.
LEMMA EntryForEveryId ==
  ASSUME Cardinality(Instance) <= RegistrySize, EngineProofs!TypeOK, NEW i \in Instance
  PROVE  EngineProofs!CanClaim(i)
<1> SUFFICES ASSUME i \notin EngineProofs!Registered
             PROVE  EngineProofs!Cardinality(EngineProofs!Registered) < RegistrySize
  BY DEF EngineProofs!CanClaim
<1>1. IsFiniteSet(Instance) /\ RegistrySize \in Nat
  BY ServerAssumption
<1>2. /\ EngineProofs!Registered \subseteq Instance
      /\ EngineProofs!Registered # Instance
  BY DEF EngineProofs!Registered
<1>3. /\ Cardinality(EngineProofs!Registered) < Cardinality(Instance)
      /\ Cardinality(Instance) \in Nat /\ Cardinality(EngineProofs!Registered) \in Nat
  BY <1>1, <1>2, FS_Subset, FS_CardinalityType
<1>4. EngineProofs!Cardinality(EngineProofs!Registered)
        = Cardinality(EngineProofs!Registered)
  BY DEF EngineProofs!Cardinality, Cardinality
<1> QED BY <1>1, <1>3, <1>4

\* Applying a command of the ring is what the IPC thread takes it for: it
\* registers, disconnects or routes, and every other command neither makes nor
\* removes an entry.
LEMMA PopIsEnginePop ==
  ASSUME Cardinality(Instance) <= RegistrySize, EngineProofs!TypeOK,
         IpcProofs!SessionInv, EngineProofs!DrainCommand, UNCHANGED ipcVars
  PROVE  IpcProofs!EnginePop
<1> DEFINE cmd == Head(command_queue)
           R == EngineProofs!Registered
<1>1. /\ command_queue # <<>> /\ command_queue' = Tail(command_queue)
      /\ UNCHANGED IpcProofs!ipcVars
  BY DEF EngineProofs!DrainCommand, EngineProofs!RegisterInstance,
     EngineProofs!DisconnectInstance, EngineProofs!NoteOn, EngineProofs!NoteOff,
     EngineProofs!MpeUpdate, EngineProofs!SetStimulusType, EngineProofs!SetSpeed,
     EngineProofs!SetDecay, EngineProofs!SetMonitorRoute, EngineProofs!Panic,
     EngineProofs!Pop, ipcVars, IpcProofs!ipcVars, IpcProofs!peers,
     IpcProofs!identity, IpcProofs!status, IpcProofs!loop
<1>2. cmd \in EngineProofs!EngineCommand
  BY <1>1 DEF EngineProofs!TypeOK
<1>3. /\ cmd.kind # "Panic" => cmd.id \in Instance
      /\ cmd.kind = "RegisterInstance" => cmd.body \in EngineProofs!InstanceConfig
  BY <1>2, HalvesAssume, EngineProofs!CommandShape
<1>4. instances \in [Instance -> EngineProofs!InstanceConfig \cup {None}]
      /\ None \notin EngineProofs!InstanceConfig
  BY HalvesAssume DEF EngineProofs!TypeOK, EngineProofs!ProtocolAssumption
<1>5. /\ R' = CASE cmd.kind = "RegisterInstance"   -> R \cup {cmd.id}
                [] cmd.kind = "DisconnectInstance" -> R \ {cmd.id}
                [] OTHER -> R
      /\ monitor_routes' = IF cmd.kind = "SetMonitorRoute"
                           THEN [monitor_routes EXCEPT ![cmd.body.output] = cmd.body.source]
                           ELSE monitor_routes
  <2>1. CASE EngineProofs!RegisterInstance
    <3>1. cmd.kind = "RegisterInstance" /\ monitor_routes' = monitor_routes
      BY <2>1 DEF EngineProofs!RegisterInstance, EngineProofs!Pop
    <3>2. instances' = [instances EXCEPT ![cmd.id] = cmd.body]
      BY <2>1, <1>3, <3>1, EntryForEveryId DEF EngineProofs!RegisterInstance, EngineProofs!Store
    <3>3. R' = R \cup {cmd.id}
      BY <1>3, <1>4, <3>1, <3>2 DEF EngineProofs!Registered
    <3> QED BY <3>1, <3>3
  <2>2. CASE EngineProofs!DisconnectInstance
    <3>1. cmd.kind = "DisconnectInstance" /\ monitor_routes' = monitor_routes
          /\ instances' = [instances EXCEPT ![cmd.id] = None]
      BY <2>2 DEF EngineProofs!DisconnectInstance, EngineProofs!Pop
    <3>2. R' = R \ {cmd.id}
      BY <1>3, <1>4, <3>1 DEF EngineProofs!Registered
    <3> QED BY <3>1, <3>2
  <2>3. CASE EngineProofs!SetStimulusType \/ EngineProofs!SetSpeed \/ EngineProofs!SetDecay
    <3>1. /\ cmd.kind \in {"SetStimulusType", "SetSpeed", "SetDecay"}
          /\ monitor_routes' = monitor_routes
      BY <2>3 DEF EngineProofs!SetStimulusType, EngineProofs!SetSpeed,
         EngineProofs!SetDecay, EngineProofs!Pop
    <3>2. cmd.id \in R
      BY <1>1, <3>1, HeadFollowsSession
    <3>3. \E x : instances' = [instances EXCEPT ![cmd.id] = x] /\ x # None
      <4>1. instances[cmd.id] # None
        BY <3>2 DEF EngineProofs!Registered
      <4>2. EngineProofs!ConfigOf(cmd.id) \in EngineProofs!InstanceConfig
        BY <1>3, <3>1, HalvesAssume, EngineProofs!ConfigTyped
      <4>3. PICK x : EngineProofs!Store(cmd.id, x) /\ x \in EngineProofs!InstanceConfig
        <5>1. CASE EngineProofs!SetStimulusType
          <6>1. cmd.kind = "SetStimulusType"
            BY <5>1 DEF EngineProofs!SetStimulusType, EngineProofs!Pop
          <6>2. cmd.body.type \in EngineProofs!StimulusType
            BY <1>2, <6>1 DEF EngineProofs!EngineCommand, EngineProofs!TypeBody
          <6> QED BY <4>2, <5>1, <6>2 DEF EngineProofs!SetStimulusType, EngineProofs!InstanceConfig
        <5>2. CASE EngineProofs!SetSpeed
          <6>1. cmd.kind = "SetSpeed"
            BY <5>2 DEF EngineProofs!SetSpeed, EngineProofs!Pop
          <6>2. cmd.body \in Speed
            BY <1>2, <6>1 DEF EngineProofs!EngineCommand
          <6> QED BY <4>2, <5>2, <6>2 DEF EngineProofs!SetSpeed, EngineProofs!InstanceConfig
        <5>3. CASE EngineProofs!SetDecay
          <6>1. cmd.kind = "SetDecay"
            BY <5>3 DEF EngineProofs!SetDecay, EngineProofs!Pop
          <6>2. cmd.body \in Decay
            BY <1>2, <6>1 DEF EngineProofs!EngineCommand
          <6> QED BY <4>2, <5>3, <6>2 DEF EngineProofs!SetDecay, EngineProofs!InstanceConfig
        <5> QED BY <2>3, <5>1, <5>2, <5>3
      <4> QED BY <1>4, <3>2, <4>3 DEF EngineProofs!Store, EngineProofs!CanClaim
    <3>4. R' = R
      BY <1>4, <3>2, <3>3 DEF EngineProofs!Registered
    <3> QED BY <3>1, <3>4
  <2>4. CASE EngineProofs!SetMonitorRoute
    <3>1. cmd.kind = "SetMonitorRoute" /\ R' = R
          /\ monitor_routes' = [monitor_routes EXCEPT ![cmd.body.output] = cmd.body.source]
      BY <2>4 DEF EngineProofs!SetMonitorRoute, EngineProofs!Pop, EngineProofs!Registered
    <3> QED BY <3>1
  <2>5. CASE EngineProofs!NoteOn \/ EngineProofs!NoteOff \/ EngineProofs!MpeUpdate
             \/ EngineProofs!Panic
    <3>1. /\ cmd.kind \in {"NoteOn", "NoteOff", "MpeUpdate", "Panic"}
          /\ R' = R /\ monitor_routes' = monitor_routes
      BY <2>5 DEF EngineProofs!NoteOn, EngineProofs!NoteOff, EngineProofs!MpeUpdate,
         EngineProofs!Panic, EngineProofs!Pop, EngineProofs!Registered
    <3> QED BY <3>1
  <2> QED BY <2>1, <2>2, <2>3, <2>4, <2>5 DEF EngineProofs!DrainCommand
<1> QED BY <1>1, <1>5 DEF IpcProofs!EnginePop
\* Every step of the server is one of the IPC thread, its clients or its picture
\* of the engine; and one of the callback, or one that leaves its state alone.
LEMMA StepOfBothHalves ==
  ASSUME Cardinality(Instance) <= RegistrySize, EngineProofs!TypeOK,
         IpcProofs!SessionInv, [Next]_vars
  PROVE  /\ [IpcProofs!Next]_(IpcProofs!vars)
         /\ EngineProofs!EngineStep \/ UNCHANGED callback
<1>1. CASE IpcThread
  <2>1. [Ipc!Next]_(Ipc!vars) /\ UNCHANGED callback
    BY <1>1 DEF IpcThread, Ipc!Next
  <2> QED BY <2>1, SameIpc
<1>2. CASE ClientStep
  <2>1. Ipc!PeerStep /\ UNCHANGED callback
    BY <1>2 DEF ClientStep, ClientConnect, ClientClose, ClientSend, Ipc!PeerStep
  <2>2. [Ipc!Next]_(Ipc!vars)
    BY <2>1 DEF Ipc!Next
  <2> QED BY <2>1, <2>2, SameIpc
<1>3. CASE AudioCallback
  <2>1. EngineProofs!EngineStep /\ UNCHANGED ipcVars
    BY <1>3, SameEngine DEF AudioCallback
  <2>2. CASE EngineProofs!DrainCommand
    BY <2>1, <2>2, PopIsEnginePop DEF IpcProofs!Next
  <2>3. CASE EngineProofs!FinishDrain \/ EngineProofs!RenderFrame \/ EngineProofs!EndBlock
    <3>1. UNCHANGED <<command_queue, instances, monitor_routes>>
      BY <2>3 DEF EngineProofs!FinishDrain, EngineProofs!RenderFrame, EngineProofs!EndBlock
    <3>2. UNCHANGED IpcProofs!vars
      BY <2>1, <3>1 DEF ipcVars, IpcProofs!vars, IpcProofs!ipcVars, IpcProofs!engine,
         IpcProofs!peers, IpcProofs!identity, IpcProofs!status, IpcProofs!loop,
         EngineProofs!Registered
    <3> QED BY <2>1, <3>2
  <2> QED BY <2>1, <2>2, <2>3 DEF EngineProofs!EngineStep
<1>4. CASE UNCHANGED vars
  <2>1. UNCHANGED IpcProofs!vars /\ UNCHANGED callback
    BY <1>4 DEF vars, callback, ipcVars, IpcProofs!vars, IpcProofs!ipcVars,
       IpcProofs!engine, IpcProofs!peers, IpcProofs!identity, IpcProofs!status,
       IpcProofs!loop, EngineProofs!Registered
  <2> QED BY <2>1
<1> QED BY <1>1, <1>2, <1>3, <1>4 DEF Next

\* The invariants of both halves: the tables and types of the engine, and the
\* sessions of the IPC thread.
HalvesInv == EngineProofs!SlotInv /\ IpcProofs!SessionInv

LEMMA HalvesInit == Init => HalvesInv
<1> SUFFICES ASSUME Init PROVE HalvesInv
  OBVIOUS
<1>1. EngineProofs!Init
  BY SameEngine DEF Init
<1>2. EngineProofs!SlotInv
  BY <1>1, HalvesAssume, EngineProofs!TypeInit, EngineProofs!SlotInit DEF EngineProofs!SlotInv
<1>3. EngineProofs!Registered = {}
  BY <1>1 DEF EngineProofs!Init, EngineProofs!EngineInit, EngineProofs!Registered
<1>4. Ipc!IpcInit /\ command_queue = <<>> /\ monitor_routes = [p \in Transducer |-> p]
  BY <1>1 DEF Init, EngineProofs!Init, EngineProofs!EngineInit
<1>5. IpcProofs!Init
  BY <1>3, <1>4 DEF Ipc!IpcInit, IpcProofs!Init, IpcProofs!IpcInit
<1>6. IpcProofs!SessionInv
  BY <1>5, HalvesAssume, IpcProofs!TypeInit, IpcProofs!HolderInit, IpcProofs!SessionInit
     DEF IpcProofs!SessionInv, IpcProofs!RingInv
<1> QED BY <1>2, <1>6 DEF HalvesInv

LEMMA HalvesStep ==
  ASSUME Cardinality(Instance) <= RegistrySize, HalvesInv, [Next]_vars
  PROVE  HalvesInv'
<1>0. EngineProofs!SlotInv /\ EngineProofs!TypeOK /\ IpcProofs!SessionInv
  BY DEF HalvesInv, EngineProofs!SlotInv
<1>1. [IpcProofs!Next]_(IpcProofs!vars)
  BY <1>0, StepOfBothHalves
<1>2. IpcProofs!TypeInv' /\ IpcProofs!OneHolderPerId' /\ IpcProofs!RingInv'
  BY <1>0, <1>1, HalvesAssume, IpcProofs!TypeStep, IpcProofs!HolderStep,
     IpcProofs!RingStep DEF IpcProofs!SessionInv
<1>3. IpcProofs!SessionInv'
  BY <1>2 DEF IpcProofs!SessionInv, IpcProofs!RingInv
<1>4. CASE EngineProofs!EngineStep
  <2>1. [EngineProofs!Next]_(EngineProofs!vars)
    BY <1>4 DEF EngineProofs!Next
  <2>2. EngineProofs!SlotInv'
    BY <1>0, <2>1, HalvesAssume, EngineProofs!TypeStep, EngineProofs!SlotStep
       DEF EngineProofs!SlotInv
  <2> QED BY <1>3, <2>2 DEF HalvesInv
<1>5. CASE UNCHANGED callback
  <2>1. /\ command_queue' \in Seq(IpcProofs!EngineCommand)
        /\ Len(command_queue') <= Capacity
    BY <1>2 DEF IpcProofs!TypeInv, IpcProofs!TypeOK
  <2>2. IpcProofs!EngineCommand = EngineProofs!EngineCommand
    BY DEF IpcProofs!EngineCommand, IpcProofs!InstanceConfig, IpcProofs!StimulusType,
       IpcProofs!NoteOnBody, IpcProofs!KeyBody, IpcProofs!MpeBody, IpcProofs!TypeBody,
       IpcProofs!RouteBody, EngineProofs!EngineCommand, EngineProofs!InstanceConfig,
       EngineProofs!StimulusType, EngineProofs!NoteOnBody, EngineProofs!KeyBody,
       EngineProofs!MpeBody, EngineProofs!TypeBody, EngineProofs!RouteBody
  <2>3. EngineProofs!TypeOK'
    BY <1>0, <1>5, <2>1, <2>2 DEF callback, EngineProofs!TypeOK
  <2>4. EngineProofs!SlotsAgree' /\ EngineProofs!SoundingIsOccupied' /\ EngineProofs!SeqOrder'
    BY <1>0, <1>5 DEF callback, EngineProofs!SlotInv, EngineProofs!SlotsAgree,
       EngineProofs!SoundingIsOccupied, EngineProofs!SeqOrder
  <2> QED BY <1>3, <2>3, <2>4 DEF HalvesInv, EngineProofs!SlotInv
<1> QED BY <1>0, <1>4, <1>5, StepOfBothHalves

LEMMA HalvesInvariant ==
  ASSUME Cardinality(Instance) <= RegistrySize PROVE Spec => []HalvesInv
<1> QED BY HalvesInit, HalvesStep, PTL DEF Spec

\* The composed server behaves, towards its clients and the ring, as IpcServer
\* says with the engine's registry for its registrations, whatever the pools,
\* the ring and the clients, if the registry has an entry for every id.
THEOREM ServerImplementsIpc ==
  ASSUME Cardinality(Instance) <= RegistrySize PROVE Spec => ImplementsIpc
<1>1. Init => Ipc!Init
  <2> SUFFICES ASSUME Init PROVE Ipc!Init
    OBVIOUS
  <2>1. Engine!Registered = {}
    BY DEF Init, Engine!Init, Engine!EngineInit, Engine!Registered
  <2>2. command_queue = <<>> /\ monitor_routes = [p \in Transducer |-> p] /\ Ipc!IpcInit
    BY DEF Init, Engine!Init, Engine!EngineInit
  <2> QED BY <2>1, <2>2 DEF Ipc!Init
<1>2. HalvesInv /\ [Next]_vars => [Ipc!Next]_(Ipc!vars)
  <2> SUFFICES ASSUME HalvesInv, [Next]_vars PROVE [Ipc!Next]_(Ipc!vars)
    OBVIOUS
  <2>1. EngineProofs!TypeOK /\ IpcProofs!SessionInv
    BY DEF HalvesInv, EngineProofs!SlotInv
  <2>2. [IpcProofs!Next]_(IpcProofs!vars)
    BY <2>1, StepOfBothHalves
  <2> QED BY <2>2, SameIpc
<1> QED BY <1>1, <1>2, HalvesInvariant, PTL DEF Spec, ImplementsIpc, Ipc!Spec
-----------------------------------------------------------------------------
(***************************************************************************)
(* Held voices.                                                            *)
(***************************************************************************)
\* A held voice belongs to a registered instance and has its configuration.
HeldOf(s) ==
  EngineProofs!Held(stimuli[s]) =>
    /\ owners[s].id \in EngineProofs!Registered
    /\ stimuli[s].decay = instances[owners[s].id].decay
    /\ s \in TravellingSlot => stimuli[s].speed = instances[owners[s].id].speed

HeldInv == \A s \in EngineProofs!Slot : HeldOf(s)

\* A released voice is not held; another change of a voice neither holds nor
\* releases it.
LEMMA HeldVoices ==
  \A v \in EngineProofs!Voice :
    /\ ~EngineProofs!Held(EngineProofs!NoteOffVoice(v))
    /\ \A x : /\ EngineProofs!Held([v EXCEPT !.speed = x]) = EngineProofs!Held(v)
              /\ [v EXCEPT !.speed = x].decay = v.decay
              /\ [v EXCEPT !.speed = x].speed = x
    /\ \A x : /\ EngineProofs!Held([v EXCEPT !.decay = x]) = EngineProofs!Held(v)
              /\ [v EXCEPT !.decay = x].decay = x
              /\ [v EXCEPT !.decay = x].speed = v.speed
BY DEF EngineProofs!Voice, EngineProofs!Held, EngineProofs!NoteOffVoice,
   EngineProofs!EnvelopeState

\* A frame holds no voice that was not held, and keeps the configuration of one.
LEMMA ProcessedVoice ==
  ASSUME NEW v \in EngineProofs!Voice, NEW s,
         EngineProofs!Held(EngineProofs!ProcessVoice(s, v))
  PROVE  /\ EngineProofs!Held(v)
         /\ EngineProofs!ProcessVoice(s, v).decay = v.decay
         /\ EngineProofs!ProcessVoice(s, v).speed = v.speed
<1> DEFINE w == EngineProofs!StepEnvelope(v)
           p == EngineProofs!ProcessVoice(s, v)
<1>1. /\ w.env \in {"Attack", "Sustain"} => v.env \in {"Attack", "Sustain"}
      /\ w.decay = v.decay /\ w.speed = v.speed
      /\ DOMAIN w = DOMAIN v
  <2>1. CASE v.env = "Attack"
    BY <2>1 DEF EngineProofs!StepEnvelope, EngineProofs!Voice
  <2>2. CASE v.env = "Release"
    BY <2>2 DEF EngineProofs!StepEnvelope, EngineProofs!Voice
  <2>3. CASE v.env \notin {"Attack", "Release"}
    BY <2>3 DEF EngineProofs!StepEnvelope
  <2> QED BY <2>1, <2>2, <2>3
<1>2. p.env = w.env /\ p.decay = w.decay /\ p.speed = w.speed
  <2>1. p = w \/ \E n : p = [w EXCEPT !.tail = n]
    BY DEF EngineProofs!ProcessVoice
  <2>2. DOMAIN w = {"env", "time", "level", "tail", "speed", "decay", "mpe"}
    BY <1>1 DEF EngineProofs!Voice
  <2> HIDE DEF w, p
  <2> QED BY <2>1, <2>2
<1> HIDE DEF w
<1> QED BY <1>1, <1>2 DEF EngineProofs!Held
\* A command keeps it: notes start with the configuration of an instance that is
\* registered, live updates reach the voices, and a registration finds none.
LEMMA HeldDrain ==
  ASSUME HalvesInv, HeldInv, EngineProofs!DrainCommand
  PROVE  HeldInv'
<1> DEFINE cmd == Head(command_queue)
           R == EngineProofs!Registered
           Own == EngineProofs!OwnedBy(cmd.id)
           NewConfig == [EngineProofs!ConfigOf(cmd.id) EXCEPT !.kind = cmd.body.type]
<1>0. /\ EngineProofs!TypeOK /\ EngineProofs!SlotsAgree /\ EngineProofs!SoundingIsOccupied
      /\ IpcProofs!SessionInv
  BY DEF HalvesInv, EngineProofs!SlotInv
<1>1. command_queue # <<>> /\ cmd \in EngineProofs!EngineCommand
  BY <1>0 DEF EngineProofs!DrainCommand, EngineProofs!RegisterInstance,
     EngineProofs!DisconnectInstance, EngineProofs!NoteOn, EngineProofs!NoteOff,
     EngineProofs!MpeUpdate, EngineProofs!SetStimulusType, EngineProofs!SetSpeed,
     EngineProofs!SetDecay, EngineProofs!SetMonitorRoute, EngineProofs!Panic,
     EngineProofs!Pop, EngineProofs!TypeOK
<1>2. cmd.kind # "Panic" => cmd.id \in Instance
  BY <1>1, HalvesAssume, EngineProofs!CommandShape
<1>3. /\ cmd.kind = "RegisterInstance" => cmd.id \notin R
      /\ cmd.kind \notin {"RegisterInstance", "DisconnectInstance", "Panic"} => cmd.id \in R
  BY <1>0, <1>1, HeadFollowsSession
<1>4. /\ instances \in [Instance -> EngineProofs!InstanceConfig \cup {None}]
      /\ None \notin EngineProofs!InstanceConfig
      /\ stimuli \in [EngineProofs!Slot -> EngineProofs!Voice]
      /\ owners \in [EngineProofs!Slot -> EngineProofs!VoiceOwner \cup {None}]
  BY <1>0, HalvesAssume DEF EngineProofs!TypeOK, EngineProofs!ProtocolAssumption
<1>5. \A s \in EngineProofs!Slot :
        EngineProofs!Held(stimuli[s]) => owners[s] # None /\ owners[s].id \in Instance
  BY <1>0, <1>4 DEF EngineProofs!SlotsAgree, EngineProofs!SoundingIsOccupied,
     EngineProofs!Held, EngineProofs!IsActive, EngineProofs!VoiceOwner
<1> SUFFICES ASSUME NEW s \in EngineProofs!Slot PROVE HeldOf(s)'
  BY DEF HeldInv, EngineProofs!Slot
<1>6. stimuli[s] \in EngineProofs!Voice /\ HeldOf(s)
  BY <1>4 DEF HeldInv
<1> HIDE DEF cmd
<1>7. CASE EngineProofs!RegisterInstance
  <2>1. cmd.kind = "RegisterInstance" /\ UNCHANGED <<stimuli, owners>>
    BY <1>7 DEF cmd, EngineProofs!RegisterInstance, EngineProofs!Pop
  <2>2. cmd.body # None /\ cmd.id \in Instance
    BY <1>1, <1>2, <1>4, <2>1, HalvesAssume, EngineProofs!CommandShape
  <2>3. instances' = instances \/ instances' = [instances EXCEPT ![cmd.id] = cmd.body]
    BY <1>7 DEF cmd, EngineProofs!RegisterInstance, EngineProofs!Store
  <2> SUFFICES ASSUME EngineProofs!Held(stimuli[s]) PROVE HeldOf(s)'
    BY <2>1 DEF HeldOf
  <2>4. owners[s].id \in R /\ owners[s].id # cmd.id
    BY <1>3, <1>6, <2>1 DEF HeldOf
  <2>5. instances'[owners[s].id] = instances[owners[s].id] /\ owners[s].id \in R'
    BY <1>4, <2>2, <2>3, <2>4 DEF EngineProofs!Registered
  <2> QED BY <1>6, <2>1, <2>5 DEF HeldOf
<1>8. CASE EngineProofs!DisconnectInstance
  <2>1. /\ cmd.kind = "DisconnectInstance" /\ UNCHANGED owners
        /\ instances' = [instances EXCEPT ![cmd.id] = None]
        /\ stimuli'[s] = IF s \in Own THEN EngineProofs!NoteOffVoice(stimuli[s]) ELSE stimuli[s]
    BY <1>8 DEF cmd, EngineProofs!DisconnectInstance, EngineProofs!Pop, EngineProofs!UpdateVoices
  <2> SUFFICES ASSUME EngineProofs!Held(stimuli'[s]) PROVE HeldOf(s)'
    BY DEF HeldOf
  <2>2. s \notin Own /\ stimuli'[s] = stimuli[s]
    BY <1>6, <2>1, HeldVoices
  <2>3. owners[s] # None /\ owners[s].id # cmd.id /\ owners[s].id \in R
    BY <1>5, <1>6, <2>2 DEF HeldOf, EngineProofs!OwnedBy
  <2>4. instances'[owners[s].id] = instances[owners[s].id] /\ owners[s].id \in R'
    BY <1>4, <2>1, <2>3 DEF EngineProofs!Registered
  <2> QED BY <1>6, <2>1, <2>2, <2>4 DEF HeldOf
<1>9. CASE EngineProofs!NoteOn
  <2>1. cmd.kind = "NoteOn" /\ UNCHANGED instances
    BY <1>9 DEF cmd, EngineProofs!NoteOn, EngineProofs!Pop
  <2>2. cmd.id \in R /\ cmd.id \in Instance
    BY <1>2, <1>3, <2>1
  <2>3. EngineProofs!ConfigOf(cmd.id) = instances[cmd.id]
    BY <2>2 DEF EngineProofs!ConfigOf, EngineProofs!Registered
  <2>4. PICK t \in EngineProofs!Slot :
          /\ stimuli' = [stimuli EXCEPT ![t] =
                           EngineProofs!NoteOnVoice(instances[cmd.id], cmd.body.mpe)]
          /\ owners' = [owners EXCEPT ![t] =
               [id |-> cmd.id, channel |-> cmd.body.channel,
                note |-> cmd.body.note, seq |-> next_seq]]
    BY <1>9, <2>3 DEF cmd, EngineProofs!NoteOn, EngineProofs!StartVoice, EngineProofs!PoolOf,
       EngineProofs!Slot
  <2>5. CASE s = t
    <3>1. owners'[s].id = cmd.id
      BY <1>4, <2>4, <2>5
    <3>2. /\ stimuli'[s].decay = instances[cmd.id].decay
          /\ stimuli'[s].speed = instances[cmd.id].speed
      BY <1>4, <2>4, <2>5 DEF EngineProofs!NoteOnVoice, EngineProofs!SilentVoice
    <3> QED BY <2>1, <2>2, <3>1, <3>2 DEF HeldOf, EngineProofs!Registered
  <2>6. CASE s # t
    <3>1. owners'[s] = owners[s] /\ stimuli'[s] = stimuli[s]
      BY <1>4, <2>4, <2>6
    <3> QED BY <1>6, <2>1, <3>1 DEF HeldOf, EngineProofs!Registered
  <2> QED BY <2>5, <2>6
<1>10. CASE EngineProofs!NoteOff
  <2>1. /\ UNCHANGED <<owners, instances>>
        /\ stimuli'[s] = stimuli[s] \/ stimuli'[s] = EngineProofs!NoteOffVoice(stimuli[s])
    BY <1>10 DEF cmd, EngineProofs!NoteOff, EngineProofs!UpdateVoices
  <2> QED BY <1>6, <2>1, HeldVoices DEF HeldOf, EngineProofs!Registered
<1>11. CASE EngineProofs!MpeUpdate
  <2>1. /\ UNCHANGED <<owners, instances>>
        /\ stimuli'[s] = stimuli[s] \/ stimuli'[s] = [stimuli[s] EXCEPT !.mpe = cmd.body.mpe]
    BY <1>11 DEF cmd, EngineProofs!MpeUpdate, EngineProofs!UpdateVoices
  <2> SUFFICES ASSUME EngineProofs!Held(stimuli'[s]) PROVE HeldOf(s)'
    BY DEF HeldOf
  <2>2. /\ EngineProofs!Held(stimuli[s])
        /\ stimuli'[s].decay = stimuli[s].decay /\ stimuli'[s].speed = stimuli[s].speed
    BY <1>6, <2>1 DEF EngineProofs!Voice, EngineProofs!Held
  <2> QED BY <1>6, <2>1, <2>2 DEF HeldOf, EngineProofs!Registered
<1>12. CASE EngineProofs!SetStimulusType
  <2>1. /\ cmd.kind = "SetStimulusType" /\ UNCHANGED <<owners, stimuli>>
        /\ EngineProofs!Store(cmd.id, NewConfig)
    BY <1>12 DEF cmd, EngineProofs!SetStimulusType, EngineProofs!Pop
  <2>2. cmd.id \in R /\ cmd.id \in Instance
    BY <1>2, <1>3, <2>1
  <2>3. /\ instances' = [instances EXCEPT ![cmd.id] = [@ EXCEPT !.kind = cmd.body.type]]
        /\ instances[cmd.id] \in EngineProofs!InstanceConfig
    BY <1>4, <2>1, <2>2 DEF EngineProofs!Store, EngineProofs!CanClaim, EngineProofs!ConfigOf,
       EngineProofs!Registered
  <2>4. \A i \in R : /\ i \in R' /\ instances'[i].decay = instances[i].decay
                     /\ instances'[i].speed = instances[i].speed
    <3>1. [instances[cmd.id] EXCEPT !.kind = cmd.body.type] # None
      <4>1. cmd.body.type \in EngineProofs!StimulusType
        BY <1>1, <2>1 DEF EngineProofs!EngineCommand, EngineProofs!TypeBody
      <4> QED BY <1>4, <2>3, <4>1 DEF EngineProofs!InstanceConfig
    <3> QED BY <1>4, <2>2, <2>3, <3>1 DEF EngineProofs!Registered, EngineProofs!InstanceConfig
  <2> QED BY <1>6, <2>1, <2>4 DEF HeldOf
<1>13. CASE EngineProofs!SetSpeed
  <2>1. /\ cmd.kind = "SetSpeed" /\ UNCHANGED owners
        /\ EngineProofs!Store(cmd.id, [EngineProofs!ConfigOf(cmd.id) EXCEPT !.speed = cmd.body])
        /\ stimuli'[s] = IF s \in Own \cap TravellingSlot
                         THEN [stimuli[s] EXCEPT !.speed = cmd.body] ELSE stimuli[s]
    BY <1>13 DEF cmd, EngineProofs!SetSpeed, EngineProofs!Pop, EngineProofs!UpdateVoices
  <2>2. cmd.id \in R /\ cmd.id \in Instance
    BY <1>2, <1>3, <2>1
  <2>3. /\ instances' = [instances EXCEPT ![cmd.id] = [@ EXCEPT !.speed = cmd.body]]
        /\ instances[cmd.id] \in EngineProofs!InstanceConfig
    BY <1>4, <2>1, <2>2 DEF EngineProofs!Store, EngineProofs!CanClaim, EngineProofs!ConfigOf,
       EngineProofs!Registered
  <2>4. \A i \in R : /\ i \in R' /\ instances'[i].decay = instances[i].decay
                     /\ instances'[i].speed = IF i = cmd.id THEN cmd.body ELSE instances[i].speed
    <3>1. [instances[cmd.id] EXCEPT !.speed = cmd.body] # None
      <4>1. cmd.body \in Speed
        BY <1>1, <2>1 DEF EngineProofs!EngineCommand
      <4> QED BY <1>4, <2>3, <4>1 DEF EngineProofs!InstanceConfig
    <3> QED BY <1>4, <2>2, <2>3, <3>1 DEF EngineProofs!Registered, EngineProofs!InstanceConfig
  <2> SUFFICES ASSUME EngineProofs!Held(stimuli'[s]) PROVE HeldOf(s)'
    BY DEF HeldOf
  <2>5. EngineProofs!Held(stimuli[s]) /\ stimuli'[s].decay = stimuli[s].decay
    BY <1>6, <2>1, HeldVoices
  <2>6. s \in Own <=> owners[s].id = cmd.id
    BY <1>5, <2>5 DEF EngineProofs!OwnedBy
  <2>7. s \in TravellingSlot =>
          stimuli'[s].speed = IF owners[s].id = cmd.id THEN cmd.body ELSE stimuli[s].speed
    BY <1>6, <2>1, <2>6, HeldVoices
  <2> QED BY <1>6, <2>1, <2>4, <2>5, <2>7 DEF HeldOf
<1>14. CASE EngineProofs!SetDecay
  <2>1. /\ cmd.kind = "SetDecay" /\ UNCHANGED owners
        /\ EngineProofs!Store(cmd.id, [EngineProofs!ConfigOf(cmd.id) EXCEPT !.decay = cmd.body])
        /\ stimuli'[s] = IF s \in Own
                         THEN [stimuli[s] EXCEPT !.decay = cmd.body] ELSE stimuli[s]
    BY <1>14 DEF cmd, EngineProofs!SetDecay, EngineProofs!Pop, EngineProofs!UpdateVoices
  <2>2. cmd.id \in R /\ cmd.id \in Instance
    BY <1>2, <1>3, <2>1
  <2>3. /\ instances' = [instances EXCEPT ![cmd.id] = [@ EXCEPT !.decay = cmd.body]]
        /\ instances[cmd.id] \in EngineProofs!InstanceConfig
    BY <1>4, <2>1, <2>2 DEF EngineProofs!Store, EngineProofs!CanClaim, EngineProofs!ConfigOf,
       EngineProofs!Registered
  <2>4. \A i \in R : /\ i \in R' /\ instances'[i].speed = instances[i].speed
                     /\ instances'[i].decay = IF i = cmd.id THEN cmd.body ELSE instances[i].decay
    <3>1. [instances[cmd.id] EXCEPT !.decay = cmd.body] # None
      <4>1. cmd.body \in Decay
        BY <1>1, <2>1 DEF EngineProofs!EngineCommand
      <4> QED BY <1>4, <2>3, <4>1 DEF EngineProofs!InstanceConfig
    <3> QED BY <1>4, <2>2, <2>3, <3>1 DEF EngineProofs!Registered, EngineProofs!InstanceConfig
  <2> SUFFICES ASSUME EngineProofs!Held(stimuli'[s]) PROVE HeldOf(s)'
    BY DEF HeldOf
  <2>5. EngineProofs!Held(stimuli[s]) /\ stimuli'[s].speed = stimuli[s].speed
    BY <1>6, <2>1, HeldVoices
  <2>6. s \in Own <=> owners[s].id = cmd.id
    BY <1>5, <2>5 DEF EngineProofs!OwnedBy
  <2>7. stimuli'[s].decay = IF owners[s].id = cmd.id THEN cmd.body ELSE stimuli[s].decay
    BY <1>6, <2>1, <2>6, HeldVoices
  <2> QED BY <1>6, <2>1, <2>4, <2>5, <2>7 DEF HeldOf
<1>15. CASE EngineProofs!SetMonitorRoute
  BY <1>6, <1>15 DEF EngineProofs!SetMonitorRoute, HeldOf, EngineProofs!Registered
<1>16. CASE EngineProofs!Panic
  <2>1. ~EngineProofs!Held(stimuli'[s])
    BY <1>16 DEF EngineProofs!Panic, EngineProofs!SilentVoice, EngineProofs!Held
  <2> QED BY <2>1 DEF HeldOf
<1> QED BY <1>7, <1>8, <1>9, <1>10, <1>11, <1>12, <1>13, <1>14, <1>15, <1>16
        DEF EngineProofs!DrainCommand
\* Frames and the reap hold nothing; clients and IPC thread do not touch voices.
LEMMA HeldStep ==
  ASSUME HalvesInv, HeldInv, EngineProofs!EngineStep \/ UNCHANGED callback
  PROVE  HeldInv'
<1>0. EngineProofs!TypeOK /\ EngineProofs!SoundingIsOccupied
  BY DEF HalvesInv, EngineProofs!SlotInv
<1>1. CASE EngineProofs!DrainCommand
  BY <1>1, HeldDrain
<1> SUFFICES ASSUME ~EngineProofs!DrainCommand, NEW s \in EngineProofs!Slot,
                    EngineProofs!Held(stimuli'[s])
             PROVE  HeldOf(s)'
  BY <1>1 DEF HeldInv, HeldOf, EngineProofs!Slot
<1>2. stimuli[s] \in EngineProofs!Voice /\ HeldOf(s)
  BY <1>0 DEF HeldInv, EngineProofs!TypeOK
<1>3. CASE EngineProofs!FinishDrain \/ UNCHANGED callback
  BY <1>2, <1>3 DEF EngineProofs!FinishDrain, callback, HeldOf, EngineProofs!Registered
<1>4. CASE EngineProofs!RenderFrame
  <2>1. /\ UNCHANGED <<owners, instances>>
        /\ \/ stimuli'[s] = stimuli[s]
           \/ stimuli'[s] = EngineProofs!ProcessVoice(s, stimuli[s])
    BY <1>4 DEF EngineProofs!RenderFrame
  <2>2. /\ EngineProofs!Held(stimuli[s])
        /\ stimuli'[s].decay = stimuli[s].decay /\ stimuli'[s].speed = stimuli[s].speed
    BY <1>2, <2>1, ProcessedVoice
  <2> QED BY <1>2, <2>1, <2>2 DEF HeldOf, EngineProofs!Registered
<1>5. CASE EngineProofs!EndBlock
  <2>1. UNCHANGED <<stimuli, instances>>
        /\ owners'[s] = IF active_mask[s] THEN owners[s] ELSE None
    BY <1>5 DEF EngineProofs!EndBlock
  <2>2. active_mask[s]
    BY <1>0, <2>1 DEF EngineProofs!SoundingIsOccupied, EngineProofs!Held, EngineProofs!IsActive
  <2> QED BY <1>2, <2>1, <2>2 DEF HeldOf, EngineProofs!Registered
<1> QED BY <1>1, <1>3, <1>4, <1>5 DEF EngineProofs!EngineStep

LEMMA HeldInvariant ==
  ASSUME Cardinality(Instance) <= RegistrySize PROVE Spec => [](HalvesInv /\ HeldInv)
<1>1. Init => HeldInv
  <2> SUFFICES ASSUME Init, NEW s \in EngineProofs!Slot PROVE HeldOf(s)
    BY DEF HeldInv
  <2>1. EngineProofs!Init
    BY SameEngine DEF Init
  <2>2. ~EngineProofs!Held(stimuli[s])
    BY <2>1 DEF EngineProofs!Init, EngineProofs!EngineInit, EngineProofs!SilentVoice,
       EngineProofs!Held
  <2> QED BY <2>2 DEF HeldOf
<1>2. HalvesInv /\ HeldInv /\ [Next]_vars => HeldInv'
  BY HeldStep, StepOfBothHalves DEF HalvesInv, EngineProofs!SlotInv
<1> QED BY <1>1, <1>2, HalvesInvariant, PTL DEF Spec

\* No voice is held that nobody can end: its instance is registered, and it has a
\* client, a cleanup owed, or its DisconnectInstance in the ring.
THEOREM HeldVoicesAlwaysAccountedFor ==
  ASSUME Cardinality(Instance) <= RegistrySize PROVE Spec => []HeldVoicesAreAccountedFor
<1>1. HalvesInv /\ HeldInv => HeldVoicesAreAccountedFor
  <2> SUFFICES ASSUME HalvesInv, HeldInv, NEW s \in Engine!Slot, Engine!Held(stimuli[s])
               PROVE  LET i == owners[s].id
                      IN  /\ i \in Engine!Registered
                          /\ \/ i \in active_instances
                             \/ \E k \in Ipc!Places : Ipc!IsDisconnect(i, k)
    BY DEF HeldVoicesAreAccountedFor
  <2> DEFINE i == owners[s].id
  <2>1. i \in EngineProofs!Registered
    BY DEF HeldInv, HeldOf, Engine!Slot, EngineProofs!Slot, Engine!Held, EngineProofs!Held
  <2>2. i \in Instance
    BY <2>1 DEF EngineProofs!Registered
  <2>3. CASE \E k \in IpcProofs!Places : IpcProofs!IsDisconnect(i, k)
    BY <2>1, <2>3 DEF Engine!Registered, EngineProofs!Registered, Ipc!Places,
       IpcProofs!Places, Ipc!IsDisconnect, IpcProofs!IsDisconnect
  <2>4. CASE ~\E k \in IpcProofs!Places : IpcProofs!IsDisconnect(i, k)
    <3>1. IpcProofs!OpenBefore(i, IpcProofs!EndOfRing)
      BY <2>1, <2>4 DEF IpcProofs!OpenBefore
    <3>2. i \in active_instances
      BY <2>2, <3>1 DEF HalvesInv, IpcProofs!SessionInv, IpcProofs!NoRegistrationLeak
    <3> QED BY <2>1, <3>2 DEF Engine!Registered, EngineProofs!Registered
  <2> QED BY <2>3, <2>4
<1> QED BY <1>1, HeldInvariant, PTL

\* Note-on configuration and live updates never drift apart.
THEOREM HeldVoicesAlwaysFollowConfig ==
  ASSUME Cardinality(Instance) <= RegistrySize PROVE Spec => []HeldVoicesFollowConfig
<1>1. HalvesInv /\ HeldInv => HeldVoicesFollowConfig
  <2> SUFFICES ASSUME HalvesInv, HeldInv, NEW s \in Engine!Slot, Engine!Held(stimuli[s])
               PROVE  LET config == Engine!ConfigOf(owners[s].id)
                      IN  /\ stimuli[s].decay = config.decay
                          /\ s \in TravellingSlot => stimuli[s].speed = config.speed
    BY DEF HeldVoicesFollowConfig
  <2>1. HeldOf(s) /\ EngineProofs!Held(stimuli[s])
    BY DEF HeldInv, Engine!Slot, EngineProofs!Slot, Engine!Held, EngineProofs!Held
  <2>2. Engine!ConfigOf(owners[s].id) = instances[owners[s].id]
    BY <2>1 DEF HeldOf, EngineProofs!Registered, Engine!ConfigOf
  <2> QED BY <2>1, <2>2 DEF HeldOf
<1> QED BY <1>1, HeldInvariant, PTL

-----------------------------------------------------------------------------
(***************************************************************************)
(* The notes under way.  The engine's module bounds the NoteOns it is      *)
(* given; here the clients are bounded, so a NoteOn has to be followed     *)
(* from the socket through the IPC thread to the ring.                     *)
(***************************************************************************)
NoteOns(s) == {k \in DOMAIN s : s[k].kind = "NoteOn"}

\* Where a NoteOn can wait: in the ring, among the frames read, in a socket.
Underway(ring, read, box) ==
       {<<"ring", None, k>> : k \in NoteOns(ring)}
  \cup {<<"read", None, k>> : k \in NoteOns(read)}
  \cup {<<"socket", p[1], p[2]>> :
          p \in {q \in Conn \X Nat : q[2] \in NoteOns(box[q[1]])}}

\* A set that another can be mapped into one to one is not larger.
LEMMA NotLarger ==
  ASSUME NEW S, NEW T, IsFiniteSet(T), NEW f \in [S -> T],
         \A a, b \in S : f[a] = f[b] => a = b
  PROVE  IsFiniteSet(S) /\ Cardinality(S) \in Nat /\ Cardinality(S) <= Cardinality(T)
<1>1. f \in Injection(S, T)
  BY DEF Injection, IsInjective
<1> QED BY <1>1, FS_Injection, FS_CardinalityType

\* Every member of Underway is one of three kinds.
LEMMA UnderwayMember ==
  ASSUME NEW ring, NEW read, NEW box, NEW t
  PROVE  t \in Underway(ring, read, box) <=>
           \/ \E k \in NoteOns(ring) : t = <<"ring", None, k>>
           \/ \E k \in NoteOns(read) : t = <<"read", None, k>>
           \/ \E c \in Conn, k \in Nat : k \in NoteOns(box[c]) /\ t = <<"socket", c, k>>
<1>1. \A c \in Conn, k \in Nat : <<c, k>>[1] = c /\ <<c, k>>[2] = k
  OBVIOUS
<1>2. (\E p \in {q \in Conn \X Nat : q[2] \in NoteOns(box[q[1]])} :
          t = <<"socket", p[1], p[2]>>)
       <=> \E c \in Conn, k \in Nat : k \in NoteOns(box[c]) /\ t = <<"socket", c, k>>
  <2>1. ASSUME NEW p \in {q \in Conn \X Nat : q[2] \in NoteOns(box[q[1]])},
               t = <<"socket", p[1], p[2]>>
        PROVE  \E c \in Conn, k \in Nat : k \in NoteOns(box[c]) /\ t = <<"socket", c, k>>
    BY <2>1
  <2>2. ASSUME NEW c \in Conn, NEW k \in Nat, k \in NoteOns(box[c]), t = <<"socket", c, k>>
        PROVE  \E p \in {q \in Conn \X Nat : q[2] \in NoteOns(box[q[1]])} :
                 t = <<"socket", p[1], p[2]>>
    <3>1. <<c, k>> \in {q \in Conn \X Nat : q[2] \in NoteOns(box[q[1]])}
      BY <2>2
    <3> QED BY <2>2, <3>1
  <2> QED BY <2>1, <2>2
<1> QED BY <1>2 DEF Underway

\* NoteOns of a sequence, of its tail and of the sequence with one more element.
LEMMA NoteOnPlaces ==
  ASSUME NEW X, NEW s \in Seq(X)
  PROVE  /\ NoteOns(s) \subseteq Nat \ {0}
         /\ s # <<>> => /\ \A k \in NoteOns(Tail(s)) : k + 1 \in NoteOns(s)
                        /\ 1 \in NoteOns(s) <=> Head(s).kind = "NoteOn"
         /\ \A x \in X : NoteOns(Append(s, x)) =
              NoteOns(s) \cup IF x.kind = "NoteOn" THEN {Len(s) + 1} ELSE {}
         /\ Len(s) + 1 \notin NoteOns(s)
<1>1. ASSUME s # <<>>
      PROVE  /\ \A k \in NoteOns(Tail(s)) : k + 1 \in NoteOns(s)
             /\ 1 \in NoteOns(s) <=> Head(s).kind = "NoteOn"
  BY <1>1 DEF NoteOns
<1>2. ASSUME NEW x \in X
      PROVE  NoteOns(Append(s, x)) =
               NoteOns(s) \cup IF x.kind = "NoteOn" THEN {Len(s) + 1} ELSE {}
  <2>1. /\ DOMAIN Append(s, x) = DOMAIN s \cup {Len(s) + 1}
        /\ \A k \in DOMAIN s : Append(s, x)[k] = s[k]
        /\ Append(s, x)[Len(s) + 1] = x
        /\ Len(s) + 1 \notin DOMAIN s
    OBVIOUS
  <2> QED BY <2>1 DEF NoteOns
<1>3. NoteOns(s) \subseteq Nat \ {0} /\ Len(s) + 1 \notin NoteOns(s)
  BY DEF NoteOns
<1> QED BY <1>1, <1>2, <1>3

\* Dispatching a frame: it leaves the frames read, and if it is a NoteOn, and
\* only then, a NoteOn may enter the ring.
LEMMA DispatchUnderway ==
  ASSUME NEW X, NEW ring \in Seq(X), NEW ring2 \in Seq(X),
         NEW Y, NEW read \in Seq(Y), read # <<>>, NEW box,
         NoteOns(ring2) \subseteq NoteOns(ring) \cup
           IF Head(read).kind = "NoteOn" THEN {Len(ring) + 1} ELSE {},
         IsFiniteSet(Underway(ring, read, box))
  PROVE  LET V == Underway(ring2, Tail(read), box)
         IN  /\ IsFiniteSet(V) /\ Cardinality(V) \in Nat
             /\ Cardinality(V) <= Cardinality(Underway(ring, read, box))
<1> DEFINE U == Underway(ring, read, box)
           V == Underway(ring2, Tail(read), box)
           n == <<"ring", None, Len(ring) + 1>>
           f == [t \in V |-> IF t[1] = "read" THEN <<"read", None, t[3] + 1>>
                             ELSE IF t = n THEN <<"read", None, 1>> ELSE t]
           Back(u) == IF u[1] # "read" THEN u
                      ELSE IF u[3] = 1 THEN n ELSE <<"read", None, u[3] - 1>>
<1>1. ASSUME NEW t \in V
      PROVE  \/ /\ t = n
                /\ Head(read).kind = "NoteOn"
             \/ \E k \in NoteOns(ring) : t = <<"ring", None, k>> /\ k # Len(ring) + 1
             \/ \E k \in NoteOns(Tail(read)) : t = <<"read", None, k>> /\ k \in Nat \ {0}
             \/ \E c \in Conn, k \in Nat : k \in NoteOns(box[c]) /\ t = <<"socket", c, k>>
  <2>1. Tail(read) \in Seq(Y)
    OBVIOUS
  <2>2. ASSUME NEW k \in NoteOns(ring2)
        PROVE  \/ k = Len(ring) + 1 /\ Head(read).kind = "NoteOn"
               \/ k \in NoteOns(ring) /\ k # Len(ring) + 1
    BY <2>2, NoteOnPlaces
  <2>3. ASSUME NEW k \in NoteOns(Tail(read)) PROVE k \in Nat \ {0}
    BY <2>1, NoteOnPlaces
  <2> QED BY <1>1, <2>2, <2>3, UnderwayMember
<1>2. ASSUME NEW t \in V PROVE f[t] \in U /\ Back(f[t]) = t
  <2>1. CASE t = n /\ Head(read).kind = "NoteOn"
    <3>1. f[t] = <<"read", None, 1>> /\ Back(<<"read", None, 1>>) = n
      BY <2>1
    <3>2. <<"read", None, 1>> \in U
      BY <2>1, UnderwayMember, NoteOnPlaces
    <3> HIDE DEF f, U, Back, n
    <3> QED BY <2>1, <3>1, <3>2
  <2>2. ASSUME NEW k \in NoteOns(ring), t = <<"ring", None, k>>, k # Len(ring) + 1
        PROVE  f[t] = t /\ t \in U /\ Back(t) = t
    BY <2>2, UnderwayMember
  <2>3. ASSUME NEW k \in NoteOns(Tail(read)), t = <<"read", None, k>>, k \in Nat \ {0}
        PROVE  f[t] \in U /\ Back(f[t]) = t
    <3>1. f[t] = <<"read", None, k + 1>> /\ k + 1 \in NoteOns(read)
      BY <2>3, NoteOnPlaces
    <3>2. <<"read", None, k + 1>> \in U
      BY <3>1, UnderwayMember
    <3>3. Back(<<"read", None, k + 1>>) = <<"read", None, k>>
      BY <2>3
    <3> HIDE DEF f, U, V, Back
    <3> QED BY <2>3, <3>1, <3>2, <3>3
  <2>4. ASSUME NEW c \in Conn, NEW k \in Nat, k \in NoteOns(box[c]), t = <<"socket", c, k>>
        PROVE  f[t] = t /\ t \in U /\ Back(t) = t
    BY <2>4, UnderwayMember
  <2> HIDE DEF f, U, V, n, Back
  <2> QED BY <1>1, <2>1, <2>2, <2>3, <2>4
<1>3. f \in [V -> U]
  BY <1>2
<1>4. ASSUME NEW a \in V, NEW b \in V, f[a] = f[b] PROVE a = b
  <2> HIDE DEF f, V, Back, U
  <2> QED BY <1>2, <1>4
<1> HIDE DEF f, U, V, n
<1>5. IsFiniteSet(U)
  BY DEF U
<1> QED BY <1>3, <1>4, <1>5, NotLarger DEF U, V

\* Reading a socket moves its NoteOns into the thread.
LEMMA ReadUnderway ==
  ASSUME NEW ring, NEW read, NEW X, NEW box \in [Conn -> Seq(X)], NEW c \in Conn,
         NEW box2,
         \A d \in Conn : \A k \in NoteOns(box2[d]) : d # c /\ k \in NoteOns(box[d]),
         IsFiniteSet(Underway(ring, read, box))
  PROVE  LET V == Underway(ring, box[c], box2)
         IN  /\ IsFiniteSet(V) /\ Cardinality(V) \in Nat
             /\ Cardinality(V) <= Cardinality(Underway(ring, read, box))
<1> DEFINE U == Underway(ring, read, box)
           V == Underway(ring, box[c], box2)
           f == [t \in V |-> IF t[1] = "read" THEN <<"socket", c, t[3]>> ELSE t]
           Back(u) == IF u[1] = "socket" /\ u[2] = c THEN <<"read", None, u[3]>> ELSE u
<1>1. ASSUME NEW t \in V
      PROVE  \/ \E k \in NoteOns(ring) : t = <<"ring", None, k>> /\ f[t] = t
             \/ \E k \in NoteOns(box[c]) : /\ t = <<"read", None, k>>
                                           /\ f[t] = <<"socket", c, k>> /\ k \in Nat
             \/ \E d \in Conn \ {c}, k \in Nat :
                  k \in NoteOns(box[d]) /\ t = <<"socket", d, k>> /\ f[t] = t
  <2>1. CASE \E k \in NoteOns(ring) : t = <<"ring", None, k>>
    BY <2>1
  <2>2. ASSUME NEW k \in NoteOns(box[c]), t = <<"read", None, k>>
        PROVE  f[t] = <<"socket", c, k>> /\ k \in Nat
    <3>1. box[c] \in Seq(X)
      OBVIOUS
    <3> QED BY <2>2, <3>1, NoteOnPlaces
  <2>3. ASSUME NEW d \in Conn, NEW k \in NoteOns(box2[d]), t = <<"socket", d, k>>
        PROVE  d \in Conn \ {c} /\ k \in NoteOns(box[d]) /\ f[t] = t
    BY <2>3
  <2>4. \/ \E k \in NoteOns(ring) : t = <<"ring", None, k>>
        \/ \E k \in NoteOns(box[c]) : t = <<"read", None, k>>
        \/ \E d \in Conn, k \in Nat :
             k \in NoteOns(box2[d]) /\ t = <<"socket", d, k>>
    BY UnderwayMember
  <2> HIDE DEF f, V
  <2> QED BY <2>1, <2>2, <2>3, <2>4
<1>2. f \in [V -> U]
  <2>1. ASSUME NEW t \in V PROVE f[t] \in U
    <3>1. CASE \E k \in NoteOns(ring) : t = <<"ring", None, k>> /\ f[t] = t
      BY <3>1, UnderwayMember
    <3>2. ASSUME NEW k \in NoteOns(box[c]), f[t] = <<"socket", c, k>>, k \in Nat
          PROVE  f[t] \in U
      BY <3>2, UnderwayMember
    <3>3. CASE \E d \in Conn \ {c}, k \in Nat :
                 k \in NoteOns(box[d]) /\ t = <<"socket", d, k>> /\ f[t] = t
      BY <3>3, UnderwayMember
    <3> HIDE DEF f, V, U
    <3> QED BY <1>1, <3>1, <3>2, <3>3
  <2> QED BY <2>1
<1>3. ASSUME NEW t \in V PROVE Back(f[t]) = t
  <2>1. CASE \E k \in NoteOns(ring) : t = <<"ring", None, k>> /\ f[t] = t
    BY <2>1
  <2>2. CASE \E k \in NoteOns(box[c]) : t = <<"read", None, k>> /\ f[t] = <<"socket", c, k>>
    BY <2>2
  <2>3. CASE \E d \in Conn \ {c}, k \in Nat : t = <<"socket", d, k>> /\ f[t] = t
    BY <2>3
  <2> HIDE DEF f, V, Back
  <2> QED BY <1>1, <1>3, <2>1, <2>2, <2>3
<1>4. ASSUME NEW a \in V, NEW b \in V, f[a] = f[b] PROVE a = b
  <2> HIDE DEF f, V, Back
  <2> QED BY <1>3, <1>4
<1> HIDE DEF f, U, V
<1>5. IsFiniteSet(U)
  BY DEF U
<1> QED BY <1>2, <1>4, <1>5, NotLarger DEF U, V

\* Applying a command takes its NoteOn, if it is one, from the notes under way.
LEMMA PopUnderway ==
  ASSUME NEW X, NEW ring \in Seq(X), ring # <<>>, NEW read, NEW box,
         IsFiniteSet(Underway(ring, read, box))
  PROVE  LET V == Underway(Tail(ring), read, box)
         IN  /\ IsFiniteSet(V) /\ Cardinality(V) \in Nat
             /\ Cardinality(V) + (IF Head(ring).kind = "NoteOn" THEN 1 ELSE 0)
                  <= Cardinality(Underway(ring, read, box))
<1> DEFINE W == Underway(ring, read, box)
           first == <<"ring", None, 1>>
           U == W \ {first}
           V == Underway(Tail(ring), read, box)
           f == [t \in V |-> IF t[1] = "ring" THEN <<"ring", None, t[3] + 1>> ELSE t]
           Back(u) == IF u[1] = "ring" THEN <<"ring", None, u[3] - 1>> ELSE u
<1>1. Tail(ring) \in Seq(X)
  OBVIOUS
<1>2. ASSUME NEW t \in V PROVE f[t] \in U /\ Back(f[t]) = t
  <2>1. ASSUME NEW k \in NoteOns(Tail(ring)), t = <<"ring", None, k>>
        PROVE  f[t] \in U /\ Back(f[t]) = t
    <3>1. /\ f[t] = <<"ring", None, k + 1>> /\ k + 1 \in NoteOns(ring)
          /\ k \in Nat \ {0}
      BY <1>1, <2>1, NoteOnPlaces
    <3>2. <<"ring", None, k + 1>> \in U
      BY <3>1, UnderwayMember
    <3>3. Back(<<"ring", None, k + 1>>) = <<"ring", None, k>>
      BY <3>1
    <3> HIDE DEF f, U, V, Back
    <3> QED BY <2>1, <3>1, <3>2, <3>3
  <2>2. ASSUME NEW k \in NoteOns(read), t = <<"read", None, k>>
        PROVE  f[t] = t /\ t \in U /\ Back(t) = t
    BY <2>2, UnderwayMember
  <2>3. ASSUME NEW c \in Conn, NEW k \in Nat, k \in NoteOns(box[c]), t = <<"socket", c, k>>
        PROVE  f[t] = t /\ t \in U /\ Back(t) = t
    BY <2>3, UnderwayMember
  <2> HIDE DEF f, U, Back
  <2> QED BY <2>1, <2>2, <2>3, UnderwayMember
<1>3. f \in [V -> U]
  BY <1>2
<1>4. ASSUME NEW a \in V, NEW b \in V, f[a] = f[b] PROVE a = b
  <2> HIDE DEF f, V, Back, U
  <2> QED BY <1>2, <1>4
<1>5. Head(ring).kind = "NoteOn" => first \in W
  BY NoteOnPlaces, UnderwayMember
<1> HIDE DEF f, W, V, first
<1>6. IsFiniteSet(W) /\ Cardinality(W) \in Nat
  BY FS_CardinalityType DEF W
<1>7. /\ IsFiniteSet(U) /\ Cardinality(U) \in Nat
      /\ Cardinality(U) = IF first \in W THEN Cardinality(W) - 1 ELSE Cardinality(W)
  BY <1>6, FS_RemoveElement, FS_CardinalityType
<1> HIDE DEF U
<1>8. IsFiniteSet(V) /\ Cardinality(V) \in Nat /\ Cardinality(V) <= Cardinality(U)
  BY <1>3, <1>4, <1>7, NotLarger
<1> QED BY <1>5, <1>6, <1>7, <1>8 DEF V, W

\* box2 has no NoteOn that box has not, unless m was written to socket c.
OnlyWritten(box, box2, c, m) ==
  \A d \in Conn : \A k \in NoteOns(box2[d]) :
    \/ k \in NoteOns(box[d])
    \/ d = c /\ k = Len(box[c]) + 1 /\ m.kind = "NoteOn"

\* A frame written to a socket adds at most one.
LEMMA SendUnderway ==
  ASSUME NEW ring, NEW read, NEW box, NEW box2, NEW c \in Conn, NEW m,
         OnlyWritten(box, box2, c, m), IsFiniteSet(Underway(ring, read, box))
  PROVE  LET V == Underway(ring, read, box2)
         IN  /\ IsFiniteSet(V) /\ Cardinality(V) \in Nat
             /\ Cardinality(V) <= Cardinality(Underway(ring, read, box))
                                    + IF m.kind = "NoteOn" THEN 1 ELSE 0
<1> DEFINE U == Underway(ring, read, box)
           V == Underway(ring, read, box2)
           new == <<"socket", c, Len(box[c]) + 1>>
           W == IF m.kind = "NoteOn" THEN U \cup {new} ELSE U
<1>1. V \subseteq W
  <2> SUFFICES ASSUME NEW t \in V PROVE t \in W
    OBVIOUS
  <2>1. CASE \E k \in NoteOns(ring) : t = <<"ring", None, k>>
    BY <2>1, UnderwayMember
  <2>2. CASE \E k \in NoteOns(read) : t = <<"read", None, k>>
    BY <2>2, UnderwayMember
  <2>3. ASSUME NEW d \in Conn, NEW k \in Nat, t = <<"socket", d, k>>,
               k \in NoteOns(box2[d])
        PROVE  t \in W
    <3>1. k \in NoteOns(box[d]) => t \in U
      BY <2>3, UnderwayMember
    <3> QED BY <2>3, <3>1 DEF OnlyWritten
  <2>4. \/ \E k \in NoteOns(ring) : t = <<"ring", None, k>>
        \/ \E k \in NoteOns(read) : t = <<"read", None, k>>
        \/ \E d \in Conn, k \in Nat :
             /\ k \in NoteOns(box2[d])
             /\ t = <<"socket", d, k>>
    BY UnderwayMember
  <2> HIDE DEF V, W
  <2> QED BY <2>1, <2>2, <2>3, <2>4
<1> HIDE DEF V, new, U
<1>2. IsFiniteSet(U) /\ Cardinality(U) \in Nat
  BY FS_CardinalityType DEF U
<1>3. /\ IsFiniteSet(W) /\ Cardinality(W) \in Nat
      /\ Cardinality(W) <= Cardinality(U) + IF m.kind = "NoteOn" THEN 1 ELSE 0
  <2>1. CASE m.kind = "NoteOn"
    <3>1. W = U \cup {new}
      BY <2>1
    <3> HIDE DEF W
    <3>2. /\ IsFiniteSet(W)
          /\ Cardinality(W) = IF new \in U THEN Cardinality(U) ELSE Cardinality(U) + 1
      BY <1>2, <3>1, FS_AddElement
    <3> QED BY <1>2, <2>1, <3>2
  <2>2. CASE m.kind # "NoteOn"
    BY <1>2, <2>2
  <2> QED BY <2>1, <2>2
<1> HIDE DEF W
<1>4. IsFiniteSet(V) /\ Cardinality(V) \in Nat /\ Cardinality(V) <= Cardinality(W)
  BY <1>1, <1>3, FS_Subset, FS_CardinalityType
<1> QED BY <1>2, <1>3, <1>4 DEF U, V

\* The NoteOns of the ring are under way, and a NoteOn about to be dispatched is
\* one more.
LEMMA RingUnderway ==
  ASSUME NEW X, NEW ring \in Seq(X), NEW Y, NEW read \in Seq(Y), NEW box,
         IsFiniteSet(Underway(ring, read, box))
  PROVE  /\ Cardinality(NoteOns(ring)) \in Nat
         /\ Cardinality(NoteOns(ring)) <= Cardinality(Underway(ring, read, box))
         /\ read # <<>> /\ Head(read).kind = "NoteOn" =>
              Cardinality(NoteOns(ring)) < Cardinality(Underway(ring, read, box))
<1> DEFINE W == Underway(ring, read, box)
           next == <<"read", None, 1>>
           U == W \ {next}
           f == [k \in NoteOns(ring) |-> <<"ring", None, k>>]
<1>1. f \in [NoteOns(ring) -> U]
  BY UnderwayMember
<1>2. ASSUME NEW a \in NoteOns(ring), NEW b \in NoteOns(ring), f[a] = f[b] PROVE a = b
  BY <1>2
<1>3. read # <<>> /\ Head(read).kind = "NoteOn" => next \in W
  BY NoteOnPlaces, UnderwayMember
<1> HIDE DEF f, W, next
<1>4. IsFiniteSet(W) /\ Cardinality(W) \in Nat
  BY FS_CardinalityType DEF W
<1>5. /\ IsFiniteSet(U) /\ Cardinality(U) \in Nat
      /\ Cardinality(U) = IF next \in W THEN Cardinality(W) - 1 ELSE Cardinality(W)
  BY <1>4, FS_RemoveElement, FS_CardinalityType
<1> HIDE DEF U
<1>6. Cardinality(NoteOns(ring)) \in Nat /\ Cardinality(NoteOns(ring)) <= Cardinality(U)
  BY <1>1, <1>2, <1>5, NotLarger
<1> QED BY <1>3, <1>4, <1>5, <1>6 DEF W

\* Nothing that loses NoteOns makes more of them.
LEMMA LostUnderway ==
  ASSUME NEW ring, NEW read, NEW box, NEW ring2, NEW read2, NEW box2,
         NoteOns(ring2) \subseteq NoteOns(ring), NoteOns(read2) \subseteq NoteOns(read),
         \A c \in Conn : NoteOns(box2[c]) \subseteq NoteOns(box[c]),
         IsFiniteSet(Underway(ring, read, box))
  PROVE  LET V == Underway(ring2, read2, box2)
         IN  /\ IsFiniteSet(V) /\ Cardinality(V) \in Nat
             /\ Cardinality(V) <= Cardinality(Underway(ring, read, box))
<1>1. Underway(ring2, read2, box2) \subseteq Underway(ring, read, box)
  <2> SUFFICES ASSUME NEW t \in Underway(ring2, read2, box2)
               PROVE  t \in Underway(ring, read, box)
    OBVIOUS
  <2>1. ASSUME NEW k \in NoteOns(ring2), t = <<"ring", None, k>>
        PROVE  t \in Underway(ring, read, box)
    BY <2>1, UnderwayMember
  <2>2. ASSUME NEW k \in NoteOns(read2), t = <<"read", None, k>>
        PROVE  t \in Underway(ring, read, box)
    BY <2>2, UnderwayMember
  <2>3. ASSUME NEW c \in Conn, NEW k \in Nat, k \in NoteOns(box2[c]), t = <<"socket", c, k>>
        PROVE  t \in Underway(ring, read, box)
    BY <2>3, UnderwayMember
  <2> QED BY <2>1, <2>2, <2>3, UnderwayMember
<1> QED BY <1>1, FS_Subset, FS_CardinalityType

\* The NoteOns under way in the server.
Notes == Underway(command_queue, frames, inbox)

\* A NoteOn that has been written is applied, lost or still under way.
CountInv ==
  /\ IsFiniteSet(Notes) /\ Cardinality(Notes) \in Nat
  /\ notes_sent \in 0..MaxNotes
  /\ next_seq + Cardinality(Notes) <= notes_sent

\* The types that the count rests on.
LEMMA CountTypes ==
  ASSUME HalvesInv
  PROVE  /\ command_queue \in Seq(IpcProofs!EngineCommand)
         /\ frames \in Seq(IpcProofs!Frame)
         /\ inbox \in [Conn -> Seq(IpcProofs!Frame)]
         /\ next_seq \in Nat /\ MaxNotes \in Nat /\ Capacity \in Nat
BY ServerAssumption
   DEF HalvesInv, EngineProofs!SlotInv, EngineProofs!TypeOK, IpcProofs!SessionInv,
       IpcProofs!TypeInv, IpcProofs!TypeOK

\* The thread gives the ring only commands, one at a time and while there is
\* room, and a NoteOn only for a NoteOn it dispatches.
LEMMA WhatIsPushed ==
  ASSUME HalvesInv, IpcProofs!IpcStep
  PROVE  \/ UNCHANGED command_queue
         \/ \E cmd \in IpcProofs!EngineCommand :
              /\ Len(command_queue) < Capacity
              /\ command_queue' = Append(command_queue, cmd)
              /\ cmd.kind = "NoteOn" =>
                   /\ frames # <<>> /\ Head(frames).kind = "NoteOn"
                   /\ UNCHANGED inbox /\ frames' = Tail(frames)
              /\ \/ UNCHANGED <<frames, inbox>>
                 \/ frames # <<>> /\ frames' = Tail(frames) /\ UNCHANGED inbox
<1>1. IpcProofs!TypeInv
  BY DEF HalvesInv, IpcProofs!SessionInv
<1>2. CASE IpcProofs!CleanupPush
  <2>1. Head(pending_disconnects) \in Instance
    BY <1>1, <1>2 DEF IpcProofs!CleanupPush, IpcProofs!TypeInv, IpcProofs!TypeOK
  <2>2. /\ IpcProofs!Disconnect(Head(pending_disconnects)) \in IpcProofs!EngineCommand
        /\ IpcProofs!Disconnect(Head(pending_disconnects)).kind = "DisconnectInstance"
    BY <2>1 DEF IpcProofs!Disconnect, IpcProofs!EngineCommand
  <2>3. Len(command_queue) < Capacity
    BY <1>2, CountTypes DEF IpcProofs!CleanupPush, IpcProofs!FreePlaces
  <2>4. /\ UNCHANGED <<frames, inbox>>
        /\ command_queue' = Append(command_queue,
                                   IpcProofs!Disconnect(Head(pending_disconnects)))
    BY <1>2 DEF IpcProofs!CleanupPush, IpcProofs!Push, IpcProofs!loop, IpcProofs!peers
  <2> QED BY <2>2, <2>3, <2>4
<1>3. CASE IpcProofs!Hello
  <2> DEFINE m == Head(frames)
             cmd == IpcProofs!FromWire(m, m.body.id)
  <2>1. m \in IpcProofs!Frame /\ m.kind = "Hello" /\ frames # <<>>
    BY <1>1, <1>3, HalvesAssume, IpcProofs!DecodingTyped DEF IpcProofs!Hello, IpcProofs!Decoding
  <2>2. m.body.id \in Instance
    BY <2>1, HalvesAssume, IpcProofs!FrameShape DEF IpcProofs!HelloBody
  <2>3. cmd \in IpcProofs!EngineCommand /\ cmd.kind = "RegisterInstance"
    BY <2>1, <2>2, HalvesAssume, IpcProofs!HelloBecomesRegister
  <2>4. Len(command_queue) < Capacity
    BY <1>3, CountTypes DEF IpcProofs!Hello, IpcProofs!FreePlaces
  <2>5. /\ UNCHANGED inbox /\ frames' = Tail(frames)
        /\ command_queue' = Append(command_queue, cmd)
    BY <1>3 DEF IpcProofs!Hello, IpcProofs!Push, IpcProofs!NextFrame, IpcProofs!peers
  <2> QED BY <2>1, <2>3, <2>4, <2>5
<1>4. CASE IpcProofs!Forward
  <2> DEFINE m == Head(frames)
             cmd == IpcProofs!FromWire(m, IpcProofs!Bound)
  <2>1. m \in IpcProofs!Frame /\ IpcProofs!Performance(m) /\ frames # <<>>
    BY <1>1, <1>4, HalvesAssume, IpcProofs!DecodingTyped DEF IpcProofs!Forward, IpcProofs!Decoding
  <2>2. IpcProofs!Bound \in Instance
    BY <1>1, <1>4, HalvesAssume, IpcProofs!DecodingTyped DEF IpcProofs!Forward
  <2>3. cmd \in IpcProofs!EngineCommand /\ cmd.kind = m.kind
    BY <2>1, <2>2, HalvesAssume, IpcProofs!PerformanceIsStamped
  <2>4. Len(command_queue) < Capacity
    BY <1>4, CountTypes DEF IpcProofs!Forward, IpcProofs!Admitted, IpcProofs!FreePlaces
  <2>5. /\ UNCHANGED inbox /\ frames' = Tail(frames)
        /\ command_queue' = Append(command_queue, cmd)
    BY <1>4 DEF IpcProofs!Forward, IpcProofs!Push, IpcProofs!NextFrame, IpcProofs!peers
  <2> QED BY <2>1, <2>3, <2>4, <2>5
<1>5. CASE ~(IpcProofs!CleanupPush \/ IpcProofs!Hello \/ IpcProofs!Forward)
  BY <1>5 DEF IpcProofs!IpcStep, IpcProofs!Accept, IpcProofs!AcceptFail,
     IpcProofs!ReadEnd, IpcProofs!ReadFrames, IpcProofs!FlushWrite,
     IpcProofs!FlushFail, IpcProofs!AcceptNone, IpcProofs!VisitDone,
     IpcProofs!DecodeDone, IpcProofs!SkipFrame, IpcProofs!RejectClient,
     IpcProofs!HelloOverflow, IpcProofs!Shed, IpcProofs!CleanupDone,
     IpcProofs!ServeStatus, IpcProofs!FlushDone
<1> QED BY <1>2, <1>3, <1>4, <1>5

\* A step of the thread that pushes nothing reads a socket, dispatches a frame or
\* throws frames away.
LEMMA WhatIsRead ==
  ASSUME HalvesInv, IpcProofs!IpcStep, UNCHANGED command_queue
  PROVE  \/ frames # <<>> /\ frames' = Tail(frames) /\ UNCHANGED inbox
         \/ \E c \in Conn : /\ frames' = inbox[c]
                            /\ inbox' = [inbox EXCEPT ![c] = <<>>]
         \/ /\ frames' \in {frames, <<>>}
            /\ UNCHANGED inbox \/ \E c \in Conn : inbox' = [inbox EXCEPT ![c] = <<>>]
<1> DEFINE Thrown == /\ frames' \in {frames, <<>>}
                     /\ \/ UNCHANGED inbox
                        \/ \E c \in Conn : inbox' = [inbox EXCEPT ![c] = <<>>]
           Dispatched == frames # <<>> /\ frames' = Tail(frames) /\ UNCHANGED inbox
<1>1. IpcProofs!TypeInv
  BY DEF HalvesInv, IpcProofs!SessionInv
<1>2. ASSUME NEW c \in Conn, IpcProofs!ReadFrames(c)
      PROVE  frames' = inbox[c] /\ inbox' = [inbox EXCEPT ![c] = <<>>]
  BY <1>2 DEF IpcProofs!ReadFrames
<1>3. CASE IpcProofs!SkipFrame \/ IpcProofs!Shed
  <2>1. Dispatched
    BY <1>3 DEF IpcProofs!SkipFrame, IpcProofs!Shed, IpcProofs!Decoding,
       IpcProofs!NextFrame, IpcProofs!peers
  <2> QED BY <2>1
<1>4. CASE IpcProofs!CleanupPush \/ IpcProofs!Hello \/ IpcProofs!Forward
  <2>1. PICK x : command_queue' = Append(command_queue, x)
    BY <1>4 DEF IpcProofs!CleanupPush, IpcProofs!Hello, IpcProofs!Forward, IpcProofs!Push
  <2>2. Len(command_queue') = Len(command_queue) + 1 /\ Len(command_queue) \in Nat
    BY <2>1, CountTypes
  <2> QED BY <2>2
<1>5. CASE IpcProofs!RejectClient \/ IpcProofs!HelloOverflow
  <2>1. current \in Conn
    BY <1>1, <1>5, HalvesAssume, IpcProofs!DecodingTyped
       DEF IpcProofs!RejectClient, IpcProofs!HelloOverflow
  <2>2. frames' = <<>> /\ inbox' = [inbox EXCEPT ![current] = <<>>]
    BY <1>5 DEF IpcProofs!RejectClient, IpcProofs!HelloOverflow, IpcProofs!DropClient,
       IpcProofs!LeaveClient
  <2>3. Thrown
    BY <2>1, <2>2
  <2> QED BY <2>3
<1>6. ASSUME NEW c \in Conn,
             \/ IpcProofs!AcceptFail(c) \/ IpcProofs!ReadEnd(c) \/ IpcProofs!FlushFail(c)
      PROVE  Thrown
  <2>1. UNCHANGED frames /\ inbox' = [inbox EXCEPT ![c] = <<>>]
    BY <1>6 DEF IpcProofs!AcceptFail, IpcProofs!ReadEnd, IpcProofs!FlushFail,
       IpcProofs!DropClient, IpcProofs!loop
  <2> QED BY <2>1
<1>7. ASSUME NEW c \in Conn, IpcProofs!Accept(c) \/ IpcProofs!FlushWrite(c)
      PROVE  Thrown
  BY <1>7 DEF IpcProofs!Accept, IpcProofs!FlushWrite, IpcProofs!peers
<1>8. CASE \/ IpcProofs!AcceptNone \/ IpcProofs!VisitDone \/ IpcProofs!DecodeDone
           \/ IpcProofs!CleanupDone \/ IpcProofs!FlushDone
  <2>1. Thrown
    BY <1>8 DEF IpcProofs!AcceptNone, IpcProofs!VisitDone, IpcProofs!DecodeDone,
       IpcProofs!CleanupDone, IpcProofs!FlushDone, IpcProofs!peers, IpcProofs!LeaveClient
  <2> QED BY <2>1
<1>9. ASSUME NEW d, NEW o, IpcProofs!ServeStatus(d, o) PROVE Thrown
  BY <1>9 DEF IpcProofs!ServeStatus, IpcProofs!peers
<1> QED BY <1>2, <1>3, <1>4, <1>5, <1>6, <1>7, <1>8, <1>9 DEF IpcProofs!IpcStep

\* The thread makes no NoteOn.
LEMMA IpcKeepsCount ==
  ASSUME HalvesInv, CountInv, IpcProofs!IpcStep
  PROVE  /\ IsFiniteSet(Notes') /\ Cardinality(Notes') \in Nat
         /\ Cardinality(Notes') <= Cardinality(Notes)
<1>1. IsFiniteSet(Underway(command_queue, frames, inbox))
  BY DEF CountInv, Notes
<1>2. NoteOns(<<>>) = {}
  BY DEF NoteOns
<1>3. /\ command_queue \in Seq(IpcProofs!EngineCommand) /\ frames \in Seq(IpcProofs!Frame)
      /\ inbox \in [Conn -> Seq(IpcProofs!Frame)]
  BY CountTypes
<1> DEFINE V == Underway(command_queue', frames', inbox')
           Kept == /\ IsFiniteSet(V) /\ Cardinality(V) \in Nat
                   /\ Cardinality(V) <= Cardinality(Underway(command_queue, frames, inbox))
<1>4. ASSUME UNCHANGED command_queue, frames # <<>>, frames' = Tail(frames), UNCHANGED inbox
      PROVE  Kept
  <2>1. Underway(command_queue, Tail(frames), inbox) = V
    BY <1>4
  <2>2. NoteOns(command_queue) \subseteq NoteOns(command_queue) \cup
          IF Head(frames).kind = "NoteOn" THEN {Len(command_queue) + 1} ELSE {}
    OBVIOUS
  <2> HIDE DEF V
  <2> QED BY <1>1, <1>3, <1>4, <2>1, <2>2, DispatchUnderway
<1>5. ASSUME UNCHANGED command_queue, NEW c \in Conn, frames' = inbox[c],
             inbox' = [inbox EXCEPT ![c] = <<>>]
      PROVE  Kept
  <2>1. Underway(command_queue, inbox[c], inbox') = V
    BY <1>5
  <2>2. \A d \in Conn : \A k \in NoteOns(inbox'[d]) : d # c /\ k \in NoteOns(inbox[d])
    BY <1>2, <1>3, <1>5
  <2> HIDE DEF V
  <2> QED BY <1>1, <1>3, <2>1, <2>2, ReadUnderway
<1>6. ASSUME UNCHANGED command_queue, frames' \in {frames, <<>>},
             UNCHANGED inbox \/ \E c \in Conn : inbox' = [inbox EXCEPT ![c] = <<>>]
      PROVE  Kept
  <2>1. NoteOns(frames') \subseteq NoteOns(frames) /\ NoteOns(command_queue') \subseteq NoteOns(command_queue)
    BY <1>2, <1>6
  <2>2. \A d \in Conn : NoteOns(inbox'[d]) \subseteq NoteOns(inbox[d])
    BY <1>2, <1>3, <1>6
  <2> QED BY <1>1, <2>1, <2>2, LostUnderway
<1>7. ASSUME NEW cmd \in IpcProofs!EngineCommand,
             command_queue' = Append(command_queue, cmd),
             cmd.kind = "NoteOn" => /\ frames # <<>> /\ Head(frames).kind = "NoteOn"
                                    /\ UNCHANGED inbox /\ frames' = Tail(frames),
             \/ UNCHANGED <<frames, inbox>>
             \/ frames # <<>> /\ frames' = Tail(frames) /\ UNCHANGED inbox
      PROVE  Kept
  <2>1. NoteOns(command_queue') =
          NoteOns(command_queue) \cup IF cmd.kind = "NoteOn" THEN {Len(command_queue) + 1} ELSE {}
    BY <1>3, <1>7, NoteOnPlaces
  <2>2. CASE frames # <<>> /\ frames' = Tail(frames) /\ UNCHANGED inbox
    <3>1. Underway(command_queue', Tail(frames), inbox) = V
      BY <2>2
    <3>2. command_queue' \in Seq(IpcProofs!EngineCommand)
      BY <1>3, <1>7
    <3>3. NoteOns(command_queue') \subseteq NoteOns(command_queue) \cup
            IF Head(frames).kind = "NoteOn" THEN {Len(command_queue) + 1} ELSE {}
      BY <1>7, <2>1
    <3> HIDE DEF V
    <3> QED BY <1>1, <1>3, <2>2, <3>1, <3>2, <3>3, DispatchUnderway
  <2>3. CASE UNCHANGED <<frames, inbox>> /\ cmd.kind # "NoteOn"
    <3>1. NoteOns(command_queue') \subseteq NoteOns(command_queue)
      BY <2>1, <2>3
    <3> QED BY <1>1, <2>3, <3>1, LostUnderway
  <2> QED BY <1>7, <2>2, <2>3
<1>8. Kept
  <2> HIDE DEF Kept
  <2>1. CASE UNCHANGED command_queue
    BY <1>4, <1>5, <1>6, <2>1, WhatIsRead
  <2>2. CASE ~UNCHANGED command_queue
    BY <1>7, <2>2, WhatIsPushed
  <2> QED BY <2>1, <2>2
<1>9. Notes' = V
  BY DEF Notes, Underway, NoteOns
<1> QED BY <1>8, <1>9 DEF Notes

LEMMA CountInit == Init => CountInv
<1> SUFFICES ASSUME Init PROVE CountInv
  OBVIOUS
<1>1. command_queue = <<>> /\ next_seq = 0 /\ frames = <<>> /\ notes_sent = 0
      /\ inbox = [c \in Conn |-> <<>>]
  BY DEF Init, Engine!Init, Engine!EngineInit, Ipc!IpcInit
<1>2. NoteOns(<<>>) = {}
  BY DEF NoteOns
<1>3. Notes = {}
  <2> SUFFICES ASSUME NEW t \in Notes PROVE FALSE
    OBVIOUS
  <2>1. /\ NoteOns(command_queue) = {} /\ NoteOns(frames) = {}
        /\ \A c \in Conn : NoteOns(inbox[c]) = {}
    BY <1>1, <1>2
  <2> QED BY <2>1, UnderwayMember DEF Notes
<1>4. IsFiniteSet(Notes) /\ Cardinality(Notes) = 0
  BY <1>3, FS_EmptySet
<1> QED BY <1>1, <1>4, ServerAssumption DEF CountInv

\* Only NoteOn counts a voice.
LEMMA CallbackKeepsCount ==
  ASSUME HalvesInv, CountInv, EngineProofs!EngineStep, UNCHANGED <<ipcVars, notes_sent>>
  PROVE  CountInv'
<1>1. /\ IsFiniteSet(Underway(command_queue, frames, inbox))
      /\ command_queue \in Seq(IpcProofs!EngineCommand) /\ next_seq \in Nat
  BY CountTypes DEF CountInv, Notes
<1>2. UNCHANGED <<frames, inbox>>
  BY DEF ipcVars
<1>3. CASE EngineProofs!DrainCommand
  <2>1. /\ command_queue # <<>> /\ command_queue' = Tail(command_queue)
        /\ next_seq' = next_seq + IF Head(command_queue).kind = "NoteOn" THEN 1 ELSE 0
    BY <1>1, <1>3 DEF EngineProofs!DrainCommand, EngineProofs!RegisterInstance,
       EngineProofs!DisconnectInstance, EngineProofs!NoteOn, EngineProofs!NoteOff,
       EngineProofs!MpeUpdate, EngineProofs!SetStimulusType, EngineProofs!SetSpeed,
       EngineProofs!SetDecay, EngineProofs!SetMonitorRoute, EngineProofs!Panic,
       EngineProofs!Pop
  <2> DEFINE V == Underway(Tail(command_queue), frames, inbox)
  <2>2. /\ IsFiniteSet(V) /\ Cardinality(V) \in Nat
        /\ Cardinality(V) + (IF Head(command_queue).kind = "NoteOn" THEN 1 ELSE 0)
             <= Cardinality(Underway(command_queue, frames, inbox))
    BY <1>1, <2>1, PopUnderway
  <2>3. Notes' = V
    BY <1>2, <2>1 DEF Notes, Underway, NoteOns
  <2> HIDE DEF V
  <2> QED BY <1>1, <2>1, <2>2, <2>3 DEF CountInv, Notes
<1>4. CASE EngineProofs!FinishDrain \/ EngineProofs!RenderFrame \/ EngineProofs!EndBlock
  <2>1. UNCHANGED <<command_queue, next_seq>>
    BY <1>4 DEF EngineProofs!FinishDrain, EngineProofs!RenderFrame, EngineProofs!EndBlock
  <2>2. Notes' = Notes
    BY <1>2, <2>1 DEF Notes, Underway, NoteOns
  <2> QED BY <2>1, <2>2 DEF CountInv
<1> QED BY <1>3, <1>4 DEF EngineProofs!EngineStep

\* Every NoteOn that a client writes is counted.
LEMMA ClientKeepsCount ==
  ASSUME HalvesInv, CountInv, ClientStep
  PROVE  CountInv'
<1>1. /\ IsFiniteSet(Underway(command_queue, frames, inbox))
      /\ inbox \in [Conn -> Seq(IpcProofs!Frame)] /\ next_seq \in Nat /\ MaxNotes \in Nat
  BY CountTypes DEF CountInv, Notes
<1>2. ASSUME NEW c \in Conn, ClientConnect(c) \/ ClientClose(c) PROVE CountInv'
  <2>1. UNCHANGED <<command_queue, frames, inbox, next_seq, notes_sent>>
    BY <1>2 DEF ClientConnect, ClientClose, Ipc!Connect, Ipc!Close, callback, Ipc!loop
  <2>2. Notes' = Notes
    BY <2>1 DEF Notes, Underway, NoteOns
  <2> QED BY <2>1, <2>2 DEF CountInv
<1>3. ASSUME NEW c \in Conn, NEW m \in Message, ClientSend(c, m) PROVE CountInv'
  <2>1. /\ UNCHANGED <<command_queue, frames, next_seq>>
        /\ inbox' = [inbox EXCEPT ![c] = Append(inbox[c], m)]
    BY <1>3 DEF ClientSend, Ipc!Send, callback, Ipc!loop
  <2>0. PICK box2 : box2 = inbox'
    OBVIOUS
  <2>2. IF m.kind = "NoteOn" THEN notes_sent < MaxNotes /\ notes_sent' = notes_sent + 1
                             ELSE notes_sent' = notes_sent
    BY <1>3 DEF ClientSend
  <2>3. m \in IpcProofs!Frame
    BY HalvesAssume DEF IpcProofs!IpcAssumption
  <2>4. OnlyWritten(inbox, box2, c, m)
    <3> SUFFICES ASSUME NEW d \in Conn, NEW k \in NoteOns(box2[d])
                 PROVE  \/ k \in NoteOns(inbox[d])
                        \/ d = c /\ k = Len(inbox[c]) + 1 /\ m.kind = "NoteOn"
      BY DEF OnlyWritten
    <3>1. CASE d # c
      BY <1>1, <2>0, <2>1, <3>1
    <3>2. CASE d = c
      <4>1. inbox[c] \in Seq(IpcProofs!Frame) /\ box2[d] = Append(inbox[c], m)
        BY <1>1, <2>0, <2>1, <3>2
      <4>2. NoteOns(box2[d]) = NoteOns(inbox[c])
              \cup IF m.kind = "NoteOn" THEN {Len(inbox[c]) + 1} ELSE {}
        BY <2>3, <4>1, NoteOnPlaces
      <4> QED BY <3>2, <4>2
    <3> QED BY <3>1, <3>2
  <2> DEFINE V == Underway(command_queue, frames, box2)
  <2>5. /\ IsFiniteSet(V) /\ Cardinality(V) \in Nat
        /\ Cardinality(V) <= Cardinality(Underway(command_queue, frames, inbox))
                               + IF m.kind = "NoteOn" THEN 1 ELSE 0
    BY <1>1, <2>4, SendUnderway
  <2>6. Notes' = V
    BY <2>0, <2>1 DEF Notes, Underway, NoteOns
  <2> HIDE DEF V
  <2> QED BY <1>1, <2>1, <2>2, <2>5, <2>6 DEF CountInv, Notes
<1> QED BY <1>2, <1>3 DEF ClientStep

LEMMA CountStep ==
  ASSUME HalvesInv, CountInv, [Next]_vars PROVE CountInv'
<1>1. CASE IpcThread
  <2>1. IpcProofs!IpcStep /\ UNCHANGED <<next_seq, notes_sent>>
    BY <1>1, SameIpc DEF IpcThread, callback
  <2>2. /\ IsFiniteSet(Notes') /\ Cardinality(Notes') \in Nat
        /\ Cardinality(Notes') <= Cardinality(Notes)
    BY <2>1, IpcKeepsCount
  <2>3. next_seq \in Nat
    BY CountTypes
  <2> QED BY <2>1, <2>2, <2>3 DEF CountInv
<1>2. CASE AudioCallback
  BY <1>2, SameEngine, CallbackKeepsCount DEF AudioCallback
<1>3. CASE ClientStep
  BY <1>3, ClientKeepsCount
<1>4. CASE UNCHANGED vars
  <2>1. UNCHANGED <<command_queue, frames, inbox, next_seq, notes_sent>>
    BY <1>4 DEF vars, ipcVars, callback
  <2>2. Notes' = Notes
    BY <2>1 DEF Notes, Underway, NoteOns
  <2> QED BY <2>1, <2>2 DEF CountInv
<1> QED BY <1>1, <1>2, <1>3, <1>4 DEF Next

\* A step of the server is one of the engine or its producer, or leaves the
\* engine and the ring alone.
LEMMA StepOfEngine ==
  ASSUME HalvesInv, CountInv, [Next]_vars PROVE [Engine!Next]_(Engine!vars)
<1>1. CASE IpcThread
  <2>1. IpcProofs!IpcStep /\ UNCHANGED callback
    BY <1>1, SameIpc DEF IpcThread
  <2>2. CASE UNCHANGED command_queue
    BY <2>1, <2>2 DEF callback, Engine!vars, Engine!callback
  <2>3. ASSUME NEW cmd \in IpcProofs!EngineCommand, Len(command_queue) < Capacity,
               command_queue' = Append(command_queue, cmd),
               cmd.kind = "NoteOn" => frames # <<>> /\ Head(frames).kind = "NoteOn"
        PROVE  [Engine!Next]_(Engine!vars)
    <3>1. cmd \in Engine!EngineCommand
      BY DEF IpcProofs!EngineCommand, IpcProofs!InstanceConfig, IpcProofs!StimulusType,
         IpcProofs!NoteOnBody, IpcProofs!KeyBody, IpcProofs!MpeBody, IpcProofs!TypeBody,
         IpcProofs!RouteBody, Engine!EngineCommand, Engine!InstanceConfig,
         Engine!StimulusType, Engine!NoteOnBody, Engine!KeyBody, Engine!MpeBody,
         Engine!TypeBody, Engine!RouteBody
    <3>2. Engine!NoteOnsQueued = Cardinality(NoteOns(command_queue))
      BY DEF Engine!NoteOnsQueued, NoteOns, Engine!Cardinality, Cardinality
    <3>3. cmd.kind = "NoteOn" => next_seq + Engine!NoteOnsQueued < MaxNotes
      <4> SUFFICES ASSUME cmd.kind = "NoteOn"
                   PROVE  next_seq + Engine!NoteOnsQueued < MaxNotes
        OBVIOUS
      <4>1. /\ IsFiniteSet(Underway(command_queue, frames, inbox))
            /\ command_queue \in Seq(IpcProofs!EngineCommand)
            /\ frames \in Seq(IpcProofs!Frame)
            /\ next_seq \in Nat /\ MaxNotes \in Nat
        BY CountTypes DEF CountInv, Notes
      <4>2. /\ Cardinality(NoteOns(command_queue)) \in Nat
            /\ Cardinality(NoteOns(command_queue)) < Cardinality(Notes)
        BY <2>3, <4>1, RingUnderway DEF Notes
      <4> QED BY <3>2, <4>1, <4>2 DEF CountInv
    <3>4. Engine!PushCommand(cmd)
      BY <2>1, <2>3, <3>3 DEF Engine!PushCommand, Engine!callback, callback
    <3> QED BY <3>1, <3>4 DEF Engine!Next
  <2> QED BY <2>1, <2>2, <2>3, WhatIsPushed
<1>2. CASE AudioCallback
  BY <1>2 DEF AudioCallback, Engine!Next
<1>3. CASE ClientStep
  <2>1. UNCHANGED <<command_queue, callback>>
    <3>1. ASSUME NEW c \in Conn, ClientConnect(c) \/ ClientClose(c)
          PROVE  UNCHANGED <<command_queue, callback>>
      BY <3>1 DEF ClientConnect, ClientClose, Ipc!Connect, Ipc!Close
    <3>2. ASSUME NEW c \in Conn, NEW m \in Message, ClientSend(c, m)
          PROVE  UNCHANGED <<command_queue, callback>>
      BY <3>2 DEF ClientSend, Ipc!Send
    <3> QED BY <1>3, <3>1, <3>2 DEF ClientStep
  <2> QED BY <2>1 DEF callback, Engine!vars, Engine!callback
<1>4. CASE UNCHANGED vars
  BY <1>4 DEF vars, callback, Engine!vars, Engine!callback
<1> QED BY <1>1, <1>2, <1>3, <1>4 DEF Next

\* The engine of the composed server is driven as StimulusEngine says, so what is
\* proved of the engine with an arbitrary producer holds behind this IPC thread:
\* the ring never overflows, and no more NoteOns are applied than were written.
THEOREM ServerImplementsEngine ==
  ASSUME Cardinality(Instance) <= RegistrySize PROVE Spec => ImplementsEngine
<1>1. Init => Engine!Init
  BY DEF Init
<1>2. HalvesInv /\ CountInv /\ [Next]_vars => CountInv' /\ [Engine!Next]_(Engine!vars)
  BY CountStep, StepOfEngine
<1> QED BY <1>1, <1>2, CountInit, HalvesInvariant, PTL
        DEF Spec, ImplementsEngine, Engine!Spec
=============================================================================
