------------------------ MODULE StimulusEngineProofs ------------------------
(***************************************************************************)
(* Proofs about the engine, for every number of slots, instances and       *)
(* frames.                                                                 *)
(***************************************************************************)
EXTENDS StimulusEngine, FiniteSetTheorems, TLAPS

(***************************************************************************)
(* What the head of the ring looks like, by kind.                          *)
(***************************************************************************)
\* Each kind of engine command has the id and the body its arm in
\* apply_command reads.
LEMMA CommandShape ==
  ASSUME NEW cmd \in EngineCommand
  PROVE  /\ cmd.kind # "Panic" => cmd.id \in Instance
         /\ cmd.kind = "RegisterInstance" => cmd.body \in InstanceConfig
         /\ cmd.kind = "NoteOn" => cmd.body \in NoteOnBody
         /\ cmd.kind = "NoteOff" => cmd.body \in KeyBody
         /\ cmd.kind = "MpeUpdate" => cmd.body \in MpeBody
         /\ cmd.kind = "SetStimulusType" => cmd.body \in TypeBody
         /\ cmd.kind = "SetSpeed" => cmd.body \in Speed
         /\ cmd.kind = "SetDecay" => cmd.body \in Decay
         /\ cmd.kind = "SetMonitorRoute" => cmd.body \in RouteBody
BY DEF EngineCommand

\* A pop hands out a well-formed command and leaves a well-formed, shorter ring.
LEMMA PopTyped ==
  ASSUME TypeOK, NEW kind, Pop(kind)
  PROVE  /\ Head(command_queue) \in EngineCommand
         /\ Head(command_queue).kind = kind
         /\ command_queue' \in Seq(EngineCommand)
         /\ Len(command_queue') <= Capacity
         /\ phase = "drain"
BY EngineAssumption DEF TypeOK, Pop

\* The configuration used for an instance is well formed, registered or not.
LEMMA ConfigTyped ==
  ASSUME TypeOK, NEW i \in Instance
  PROVE  ConfigOf(i) \in InstanceConfig
BY ProtocolAssumption DEF TypeOK, ConfigOf, DefaultConfig, InstanceConfig, StimulusType

\* Storing a well-formed configuration keeps the registry well formed.
LEMMA StoreTyped ==
  ASSUME TypeOK, NEW i \in Instance, NEW config \in InstanceConfig, Store(i, config)
  PROVE  instances' \in [Instance -> InstanceConfig \cup {None}]
BY DEF TypeOK, Store

\* The operations on one voice yield a voice.
LEMMA VoiceTyped ==
  /\ SilentVoice \in Voice
  /\ \A config \in InstanceConfig, m \in Mpe : NoteOnVoice(config, m) \in Voice
  /\ \A v \in Voice : NoteOffVoice(v) \in Voice
  /\ \A v \in Voice, m \in Mpe : [v EXCEPT !.mpe = m] \in Voice
  /\ \A v \in Voice, x \in Speed : [v EXCEPT !.speed = x] \in Voice
  /\ \A v \in Voice, x \in Decay : [v EXCEPT !.decay = x] \in Voice
  /\ \A v \in Voice, s \in Slot : ProcessVoice(s, v) \in Voice
<1>1. SilentVoice \in Voice
  BY ProtocolAssumption DEF SilentVoice, Voice, EnvelopeState
<1>2. \A config \in InstanceConfig, m \in Mpe : NoteOnVoice(config, m) \in Voice
  BY <1>1 DEF NoteOnVoice, Voice, EnvelopeState, InstanceConfig
<1>3. \A v \in Voice : NoteOffVoice(v) \in Voice
  BY DEF NoteOffVoice, Voice, EnvelopeState
<1>4. /\ \A v \in Voice, m \in Mpe : [v EXCEPT !.mpe = m] \in Voice
      /\ \A v \in Voice, x \in Speed : [v EXCEPT !.speed = x] \in Voice
      /\ \A v \in Voice, x \in Decay : [v EXCEPT !.decay = x] \in Voice
  BY DEF Voice
<1>5. \A v \in Voice : StepEnvelope(v) \in Voice
  <2> SUFFICES ASSUME NEW v \in Voice
               PROVE  StepEnvelope(v) \in Voice
    OBVIOUS
  <2>1. CASE v.env = "Attack"
    <3>1. StepEnvelope(v) =
            [v EXCEPT !.time = @ + 1, !.level = 1,
                      !.env = IF v.time + 1 >= AttackFrames THEN "Sustain" ELSE @]
      BY <2>1 DEF StepEnvelope
    <3>2. v.time + 1 \in Nat /\ 1 \in 0..1
      BY DEF Voice
    <3> QED BY <3>1, <3>2 DEF Voice, EnvelopeState
  <2>2. CASE v.env = "Release"
    <3>1. StepEnvelope(v) =
            IF v.level = 0 \/ v.time + 1 >= ReleaseFrames
            THEN [v EXCEPT !.time = @ + 1, !.level = 0, !.env = "Idle"]
            ELSE [v EXCEPT !.time = @ + 1]
      BY <2>2 DEF StepEnvelope
    <3>2. v.time + 1 \in Nat /\ 0 \in 0..1
      BY DEF Voice
    <3>3. [v EXCEPT !.time = @ + 1, !.level = 0, !.env = "Idle"] \in Voice
      BY <3>2 DEF Voice, EnvelopeState
    <3>4. [v EXCEPT !.time = @ + 1] \in Voice
      BY <3>2 DEF Voice
    <3> QED BY <3>1, <3>3, <3>4
  <2>3. CASE v.env \notin {"Attack", "Release"}
    BY <2>3 DEF StepEnvelope
  <2> QED BY <2>1, <2>2, <2>3
<1>6. \A v \in Voice, s \in Slot : ProcessVoice(s, v) \in Voice
  <2> SUFFICES ASSUME NEW v \in Voice, NEW s \in Slot
               PROVE  ProcessVoice(s, v) \in Voice
    OBVIOUS
  <2>1. StepEnvelope(v) \in Voice
    BY <1>5
  <2> QED
    BY <2>1, EngineAssumption DEF ProcessVoice, Voice
<1> QED BY <1>1, <1>2, <1>3, <1>4, <1>6

-----------------------------------------------------------------------------
(***************************************************************************)
(* Type correctness.                                                       *)
(***************************************************************************)
\* The initial state is well typed.
LEMMA TypeInit == Init => TypeOK
BY EngineAssumption, ProtocolAssumption, VoiceTyped DEF Init, EngineInit, TypeOK

\* An arm of apply_command leaves the engine well typed.
LEMMA TypeDrain == TypeOK /\ DrainCommand => TypeOK'
<1> SUFFICES ASSUME TypeOK, DrainCommand PROVE TypeOK'
  OBVIOUS
<1> USE PopTyped DEF TypeOK
<1> DEFINE cmd == Head(command_queue)
<1>1. CASE RegisterInstance
  <2>1. cmd \in EngineCommand /\ cmd.kind = "RegisterInstance"
    BY <1>1 DEF RegisterInstance
  <2>2. instances' \in [Instance -> InstanceConfig \cup {None}]
    BY <1>1, <2>1, CommandShape, StoreTyped DEF RegisterInstance
  <2> QED BY <1>1, <2>2 DEF RegisterInstance
<1>2. CASE DisconnectInstance
  <2>1. stimuli' \in [Slot -> Voice]
    BY <1>2, VoiceTyped DEF DisconnectInstance, UpdateVoices
  <2> QED BY <1>2, <2>1 DEF DisconnectInstance
<1>3. CASE NoteOn
  <2>1. cmd \in EngineCommand /\ cmd.kind = "NoteOn"
    BY <1>3 DEF NoteOn
  <2>2. cmd.id \in Instance /\ cmd.body \in NoteOnBody
    BY <2>1, CommandShape
  <2>3. ConfigOf(cmd.id) \in InstanceConfig
    BY <2>2, ConfigTyped
  <2>4. NoteOnVoice(ConfigOf(cmd.id), cmd.body.mpe) \in Voice
    BY <2>2, <2>3, VoiceTyped DEF NoteOnBody
  <2>5. [id |-> cmd.id, channel |-> cmd.body.channel,
         note |-> cmd.body.note, seq |-> next_seq] \in VoiceOwner
    BY <2>2 DEF NoteOnBody, VoiceOwner
  <2>6. PICK s \in Slot :
          /\ active_mask' = [active_mask EXCEPT ![s] = TRUE]
          /\ stimuli' = [stimuli EXCEPT ![s] =
                           NoteOnVoice(ConfigOf(cmd.id), cmd.body.mpe)]
          /\ owners' = [owners EXCEPT ![s] =
                [id |-> cmd.id, channel |-> cmd.body.channel,
                 note |-> cmd.body.note, seq |-> next_seq]]
    BY <1>3 DEF NoteOn, StartVoice, PoolOf, Slot
  <2>7. stimuli' \in [Slot -> Voice] /\ active_mask' \in [Slot -> BOOLEAN]
    BY <2>4, <2>6
  <2>8. owners' \in [Slot -> VoiceOwner \cup {None}]
    BY <2>5, <2>6
  <2> QED BY <1>3, <2>7, <2>8 DEF NoteOn
<1>4. CASE NoteOff
  <2>1. stimuli' \in [Slot -> Voice]
    BY <1>4, VoiceTyped DEF NoteOff, UpdateVoices
  <2> QED BY <1>4, <2>1 DEF NoteOff
<1>5. CASE MpeUpdate
  <2>1. cmd.body.mpe \in Mpe
    BY <1>5, CommandShape DEF MpeUpdate, MpeBody
  <2>2. stimuli' \in [Slot -> Voice]
    BY <1>5, <2>1, VoiceTyped DEF MpeUpdate, UpdateVoices
  <2> QED BY <1>5, <2>2 DEF MpeUpdate
<1>6. CASE SetStimulusType
  <2>1. cmd.id \in Instance /\ cmd.body.type \in StimulusType
    BY <1>6, CommandShape DEF SetStimulusType, TypeBody
  <2>2. [ConfigOf(cmd.id) EXCEPT !.kind = cmd.body.type] \in InstanceConfig
    BY <2>1, ConfigTyped DEF InstanceConfig
  <2>3. instances' \in [Instance -> InstanceConfig \cup {None}]
    BY <1>6, <2>1, <2>2, StoreTyped DEF SetStimulusType
  <2> QED BY <1>6, <2>3 DEF SetStimulusType
<1>7. CASE SetSpeed
  <2>1. cmd.id \in Instance /\ cmd.body \in Speed
    BY <1>7, CommandShape DEF SetSpeed
  <2>2. [ConfigOf(cmd.id) EXCEPT !.speed = cmd.body] \in InstanceConfig
    BY <2>1, ConfigTyped DEF InstanceConfig
  <2>3. instances' \in [Instance -> InstanceConfig \cup {None}]
    BY <1>7, <2>1, <2>2, StoreTyped DEF SetSpeed
  <2>4. stimuli' \in [Slot -> Voice]
    BY <1>7, <2>1, VoiceTyped DEF SetSpeed, UpdateVoices
  <2> QED BY <1>7, <2>3, <2>4 DEF SetSpeed
<1>8. CASE SetDecay
  <2>1. cmd.id \in Instance /\ cmd.body \in Decay
    BY <1>8, CommandShape DEF SetDecay
  <2>2. [ConfigOf(cmd.id) EXCEPT !.decay = cmd.body] \in InstanceConfig
    BY <2>1, ConfigTyped DEF InstanceConfig
  <2>3. instances' \in [Instance -> InstanceConfig \cup {None}]
    BY <1>8, <2>1, <2>2, StoreTyped DEF SetDecay
  <2>4. stimuli' \in [Slot -> Voice]
    BY <1>8, <2>1, VoiceTyped DEF SetDecay, UpdateVoices
  <2> QED BY <1>8, <2>3, <2>4 DEF SetDecay
<1>9. CASE SetMonitorRoute
  <2>1. cmd.body \in RouteBody
    BY <1>9, CommandShape DEF SetMonitorRoute
  <2> QED BY <1>9, <2>1 DEF SetMonitorRoute, RouteBody
<1>10. CASE Panic
  BY <1>10, VoiceTyped DEF Panic
<1> QED BY <1>1, <1>2, <1>3, <1>4, <1>5, <1>6, <1>7, <1>8, <1>9, <1>10
        DEF DrainCommand

\* So does every other step.
LEMMA TypeStep == TypeOK /\ [Next]_vars => TypeOK'
<1> SUFFICES ASSUME TypeOK, [Next]_vars PROVE TypeOK'
  OBVIOUS
<1>1. CASE DrainCommand
  BY <1>1, TypeDrain
<1>2. CASE FinishDrain
  BY <1>2 DEF FinishDrain, TypeOK
<1>3. CASE RenderFrame
  <2>1. active_mask' \in [Slot -> BOOLEAN]
    BY <1>3 DEF RenderFrame, TypeOK
  <2>2. stimuli' \in [Slot -> Voice]
    BY <1>3, VoiceTyped DEF RenderFrame, TypeOK
  <2> QED BY <1>3, <2>1, <2>2 DEF RenderFrame, TypeOK
<1>4. CASE EndBlock
  BY <1>4 DEF EndBlock, TypeOK
<1>5. ASSUME NEW cmd \in EngineCommand, PushCommand(cmd) PROVE TypeOK'
  <2>1. /\ command_queue' \in Seq(EngineCommand)
        /\ Len(command_queue') <= Capacity
    BY <1>5, EngineAssumption DEF PushCommand, TypeOK
  <2> QED BY <1>5, <2>1 DEF PushCommand, callback, TypeOK
<1>6. CASE UNCHANGED vars
  BY <1>6 DEF vars, callback, TypeOK
<1> QED BY <1>1, <1>2, <1>3, <1>4, <1>5, <1>6 DEF Next, EngineStep

\* Every reachable state of the engine is well typed, whatever is pushed.
THEOREM TypeCorrect == Spec => []TypeOK
BY TypeInit, TypeStep, PTL DEF Spec

-----------------------------------------------------------------------------
(***************************************************************************)
(* Slots: the owner tables, the masks and the voices tell the same story.  *)
(***************************************************************************)
\* The three slot invariants are each inductive on top of the types.
SlotInv == TypeOK /\ SlotsAgree /\ SoundingIsOccupied /\ SeqOrder

\* Releasing, bending or retuning a voice never wakes one that has ended, so a
\* walk over the owner table leaves the occupied slots as they are.
LEMMA QuietWalk ==
  ASSUME TypeOK, SoundingIsOccupied,
         UNCHANGED active_mask,
         \A s \in Slot : IsActive(stimuli'[s]) => IsActive(stimuli[s])
  PROVE  SoundingIsOccupied'
BY DEF SoundingIsOccupied, IsActive

\* The operations a walk applies are of that kind.
LEMMA QuietVoice ==
  \A v \in Voice :
    /\ IsActive(NoteOffVoice(v)) => IsActive(v)
    /\ \A m \in Mpe : IsActive([v EXCEPT !.mpe = m]) = IsActive(v)
    /\ \A x \in Speed : IsActive([v EXCEPT !.speed = x]) = IsActive(v)
    /\ \A x \in Decay : IsActive([v EXCEPT !.decay = x]) = IsActive(v)
BY DEF IsActive, NoteOffVoice, Voice, EnvelopeState

\* Nothing but a NoteOn, a Panic, a frame or the reap moves a slot.
LEMMA SlotsUnmoved ==
  ASSUME SlotsAgree, SeqOrder,
         UNCHANGED <<phase, active_mask, owners, next_seq>>
  PROVE  SlotsAgree' /\ SeqOrder'
BY DEF SlotsAgree, SeqOrder

\* No voice sounds at power-on.
LEMMA SlotInit == Init => SlotsAgree /\ SoundingIsOccupied /\ SeqOrder
BY DEF Init, EngineInit, SlotsAgree, SoundingIsOccupied, SeqOrder, SilentVoice,
       IsActive

\* An arm of apply_command keeps the slot invariants.
LEMMA SlotDrain ==
  SlotInv /\ DrainCommand => SlotsAgree' /\ SoundingIsOccupied' /\ SeqOrder'
<1> SUFFICES ASSUME SlotInv, DrainCommand
             PROVE  SlotsAgree' /\ SoundingIsOccupied' /\ SeqOrder'
  OBVIOUS
<1>0. TypeOK /\ TypeOK' /\ SlotsAgree /\ SoundingIsOccupied /\ SeqOrder
  BY TypeDrain DEF SlotInv
<1> DEFINE cmd == Head(command_queue)
<1>1. CASE RegisterInstance
  BY <1>0, <1>1, SlotsUnmoved, QuietWalk DEF RegisterInstance
<1>2. CASE DisconnectInstance
  <2>1. \A s \in Slot : IsActive(stimuli'[s]) => IsActive(stimuli[s])
    BY <1>0, <1>2, QuietVoice DEF DisconnectInstance, UpdateVoices, TypeOK
  <2> QED BY <1>0, <1>2, <2>1, SlotsUnmoved, QuietWalk DEF DisconnectInstance
<1>3. CASE NoteOn
  <2>1. PICK s \in Slot :
          /\ active_mask' = [active_mask EXCEPT ![s] = TRUE]
          /\ stimuli' = [stimuli EXCEPT ![s] =
                           NoteOnVoice(ConfigOf(cmd.id), cmd.body.mpe)]
          /\ owners' = [owners EXCEPT ![s] =
                [id |-> cmd.id, channel |-> cmd.body.channel,
                 note |-> cmd.body.note, seq |-> next_seq]]
    BY <1>3 DEF NoteOn, StartVoice, PoolOf, Slot
  <2>2. /\ owners'[s] \in VoiceOwner
        /\ owners'[s].seq = next_seq
        /\ \A t \in Slot \ {s} : owners'[t] = owners[t]
    <3>1. owners'[s] = [id |-> cmd.id, channel |-> cmd.body.channel,
                        note |-> cmd.body.note, seq |-> next_seq]
      BY <1>0, <2>1 DEF TypeOK
    <3>2. cmd \in EngineCommand /\ cmd.kind = "NoteOn"
      BY <1>0, <1>3, PopTyped DEF NoteOn
    <3>3. cmd.id \in Instance /\ cmd.body \in NoteOnBody
      BY <3>2, CommandShape
    <3>4. owners'[s] \in VoiceOwner
      BY <1>0, <3>1, <3>3 DEF VoiceOwner, NoteOnBody, TypeOK
    <3>5. \A t \in Slot \ {s} : owners'[t] = owners[t]
      BY <1>0, <2>1 DEF TypeOK
    <3> QED BY <3>1, <3>4, <3>5
  <2>3. owners'[s] # None
    BY <2>2, OwnerAssumption
  <2>4. phase = "drain" /\ phase' = "drain" /\ next_seq' = next_seq + 1
    BY <1>3 DEF NoteOn, Pop
  <2>5. SlotsAgree'
    BY <1>0, <2>1, <2>2, <2>3, <2>4 DEF SlotsAgree, TypeOK
  <2>6. SoundingIsOccupied'
    BY <1>0, <2>1 DEF SoundingIsOccupied, TypeOK
  <2>7. SeqOrder'
    <3> SUFFICES ASSUME NEW t \in Slot, NEW u \in Slot,
                        owners'[t] # None, owners'[u] # None
                 PROVE  /\ owners'[t].seq < next_seq'
                        /\ t # u => owners'[t].seq # owners'[u].seq
      BY DEF SeqOrder
    <3>1. \A x \in Slot \ {s} :
            owners'[x] # None => owners'[x].seq \in Nat /\ owners'[x].seq < next_seq
      BY <1>0, <2>2 DEF SeqOrder, TypeOK, VoiceOwner
    <3>2. next_seq \in Nat
      BY <1>0 DEF TypeOK
    <3>3. CASE t # s /\ u # s
      BY <1>0, <2>2, <2>4, <3>1, <3>2, <3>3 DEF SeqOrder
    <3>4. CASE t = s \/ u = s
      BY <2>2, <2>4, <3>1, <3>2, <3>4
    <3> QED BY <3>3, <3>4
  <2> QED BY <2>5, <2>6, <2>7
<1>4. CASE NoteOff
  <2>1. \A s \in Slot : IsActive(stimuli'[s]) => IsActive(stimuli[s])
    BY <1>0, <1>4, QuietVoice DEF NoteOff, UpdateVoices, TypeOK
  <2> QED BY <1>0, <1>4, <2>1, SlotsUnmoved, QuietWalk DEF NoteOff
<1>5. CASE MpeUpdate
  <2>1. cmd.body.mpe \in Mpe
    BY <1>0, <1>5, PopTyped, CommandShape DEF MpeUpdate, MpeBody
  <2>2. \A s \in Slot : IsActive(stimuli'[s]) => IsActive(stimuli[s])
    BY <1>0, <1>5, <2>1, QuietVoice DEF MpeUpdate, UpdateVoices, TypeOK
  <2> QED BY <1>0, <1>5, <2>2, SlotsUnmoved, QuietWalk DEF MpeUpdate
<1>6. CASE SetStimulusType
  BY <1>0, <1>6, SlotsUnmoved, QuietWalk DEF SetStimulusType
<1>7. CASE SetSpeed
  <2>1. cmd.body \in Speed
    BY <1>0, <1>7, PopTyped, CommandShape DEF SetSpeed
  <2>2. \A s \in Slot : IsActive(stimuli'[s]) => IsActive(stimuli[s])
    BY <1>0, <1>7, <2>1, QuietVoice DEF SetSpeed, UpdateVoices, TypeOK
  <2> QED BY <1>0, <1>7, <2>2, SlotsUnmoved, QuietWalk DEF SetSpeed
<1>8. CASE SetDecay
  <2>1. cmd.body \in Decay
    BY <1>0, <1>8, PopTyped, CommandShape DEF SetDecay
  <2>2. \A s \in Slot : IsActive(stimuli'[s]) => IsActive(stimuli[s])
    BY <1>0, <1>8, <2>1, QuietVoice DEF SetDecay, UpdateVoices, TypeOK
  <2> QED BY <1>0, <1>8, <2>2, SlotsUnmoved, QuietWalk DEF SetDecay
<1>9. CASE SetMonitorRoute
  BY <1>0, <1>9, SlotsUnmoved, QuietWalk DEF SetMonitorRoute
<1>10. CASE Panic
  BY <1>10 DEF Panic, SlotsAgree, SoundingIsOccupied, SeqOrder, SilentVoice, IsActive
<1> QED BY <1>1, <1>2, <1>3, <1>4, <1>5, <1>6, <1>7, <1>8, <1>9, <1>10
        DEF DrainCommand

\* Frames, the reap and the producer keep them as well.
LEMMA SlotStep ==
  SlotInv /\ [Next]_vars => SlotsAgree' /\ SoundingIsOccupied' /\ SeqOrder'
<1> SUFFICES ASSUME SlotInv, [Next]_vars
             PROVE  SlotsAgree' /\ SoundingIsOccupied' /\ SeqOrder'
  OBVIOUS
<1>0. TypeOK /\ SlotsAgree /\ SoundingIsOccupied /\ SeqOrder
  BY DEF SlotInv
<1>1. CASE DrainCommand
  BY <1>1, SlotDrain
<1>2. CASE FinishDrain
  BY <1>0, <1>2 DEF FinishDrain, SlotsAgree, SoundingIsOccupied, SeqOrder
<1>3. CASE RenderFrame
  <2>1. SoundingIsOccupied'
    <3> SUFFICES ASSUME NEW s \in Slot, ~active_mask'[s]
                 PROVE  ~IsActive(stimuli'[s])
      BY DEF SoundingIsOccupied, IsActive
    <3>1. stimuli'[s] = stimuli[s]
      BY <1>3 DEF RenderFrame
    <3>2. ~active_mask[s] \/ ~IsActive(stimuli[s])
      BY <1>3 DEF RenderFrame
    <3> QED BY <1>0, <3>1, <3>2 DEF SoundingIsOccupied
  <2>2. SlotsAgree' /\ SeqOrder'
    BY <1>0, <1>3 DEF RenderFrame, SlotsAgree, SeqOrder
  <2> QED BY <2>1, <2>2
<1>4. CASE EndBlock
  BY <1>0, <1>4 DEF EndBlock, SlotsAgree, SoundingIsOccupied, SeqOrder
<1>5. ASSUME NEW cmd \in EngineCommand, PushCommand(cmd)
      PROVE  SlotsAgree' /\ SoundingIsOccupied' /\ SeqOrder'
  BY <1>0, <1>5 DEF PushCommand, callback, SlotsAgree, SoundingIsOccupied, SeqOrder
<1>6. CASE UNCHANGED vars
  BY <1>0, <1>6 DEF vars, callback, SlotsAgree, SoundingIsOccupied, SeqOrder
<1> QED BY <1>1, <1>2, <1>3, <1>4, <1>5, <1>6 DEF Next, EngineStep

\* SlotInv is inductive.
LEMMA SlotInvariant == Spec => []SlotInv
<1>1. Init => SlotInv
  BY TypeInit, SlotInit DEF SlotInv
<1>2. SlotInv /\ [Next]_vars => SlotInv'
  BY TypeStep, SlotStep DEF SlotInv
<1> QED BY <1>1, <1>2, PTL DEF Spec

\* The owner tables and the pools' masks agree in every reachable state.
THEOREM SlotsAlwaysAgree == Spec => []SlotsAgree
BY SlotInvariant, PTL DEF SlotInv

\* No sounding voice is ever outside the slots that process_all visits.
THEOREM SoundingAlwaysOccupied == Spec => []SoundingIsOccupied
BY SlotInvariant, PTL DEF SlotInv

\* Allocation numbers always order the owned slots strictly.
THEOREM SeqAlwaysOrders == Spec => []SeqOrder
BY SlotInvariant, PTL DEF SlotInv

-----------------------------------------------------------------------------
(***************************************************************************)
(* The registry.                                                           *)
(***************************************************************************)
\* A store claims at most one entry, and only when instance_config_mut found
\* one free.
LEMMA StoreBounded ==
  ASSUME TypeOK, RegistryBounded,
         NEW i \in Instance, NEW config \in InstanceConfig, Store(i, config)
  PROVE  RegistryBounded'
<1>1. IsFiniteSet(Registered)
  BY EngineAssumption, FS_Subset DEF Registered
<1>2. CASE ~CanClaim(i)
  BY <1>2 DEF Store, RegistryBounded, Registered
<1>3. CASE CanClaim(i)
  <2>1. Registered' = Registered \cup {i}
    BY <1>3, ProtocolAssumption DEF Store, Registered, TypeOK
  <2>2. CASE i \in Registered
    <3>1. Registered' = Registered
      BY <2>1, <2>2
    <3> QED BY <3>1 DEF RegistryBounded
  <2>3. CASE i \notin Registered
    <3>1. Cardinality(Registered) < RegistrySize
      BY <1>3, <2>3 DEF CanClaim
    <3>2. Cardinality(Registered') = Cardinality(Registered) + 1
      BY <1>1, <2>1, <2>3, FS_AddElement
    <3>3. Cardinality(Registered) \in Nat
      BY <1>1, FS_CardinalityType
    <3> QED BY <3>1, <3>2, <3>3, EngineAssumption DEF RegistryBounded
  <2> QED BY <2>2, <2>3
<1> QED BY <1>2, <1>3

\* The registry is empty at start, and every step keeps it within its size.
LEMMA RegistryStep == TypeOK /\ RegistryBounded /\ [Next]_vars => RegistryBounded'
<1> SUFFICES ASSUME TypeOK, RegistryBounded, [Next]_vars PROVE RegistryBounded'
  OBVIOUS
<1> DEFINE cmd == Head(command_queue)
<1>1. CASE RegisterInstance
  <2>1. cmd.id \in Instance /\ cmd.body \in InstanceConfig
    BY <1>1, PopTyped, CommandShape DEF RegisterInstance
  <2> QED BY <1>1, <2>1, StoreBounded DEF RegisterInstance
<1>2. CASE DisconnectInstance
  <2>1. Registered' \subseteq Registered
    BY <1>2 DEF DisconnectInstance, Registered, TypeOK
  <2>2. IsFiniteSet(Registered)
    BY EngineAssumption, FS_Subset DEF Registered
  <2>3. /\ Cardinality(Registered') <= Cardinality(Registered)
        /\ Cardinality(Registered) \in Nat /\ Cardinality(Registered') \in Nat
    BY <2>1, <2>2, FS_Subset, FS_CardinalityType
  <2> QED BY <2>3, EngineAssumption DEF RegistryBounded
<1>3. CASE SetStimulusType
  <2>1. cmd.id \in Instance /\ cmd.body \in TypeBody
    BY <1>3, PopTyped, CommandShape DEF SetStimulusType
  <2>2. [ConfigOf(cmd.id) EXCEPT !.kind = cmd.body.type] \in InstanceConfig
    BY <2>1, ConfigTyped DEF InstanceConfig, TypeBody
  <2> QED BY <1>3, <2>1, <2>2, StoreBounded DEF SetStimulusType
<1>4. CASE SetSpeed
  <2>1. cmd.id \in Instance /\ cmd.body \in Speed
    BY <1>4, PopTyped, CommandShape DEF SetSpeed
  <2>2. [ConfigOf(cmd.id) EXCEPT !.speed = cmd.body] \in InstanceConfig
    BY <2>1, ConfigTyped DEF InstanceConfig
  <2> QED BY <1>4, <2>1, <2>2, StoreBounded DEF SetSpeed
<1>5. CASE SetDecay
  <2>1. cmd.id \in Instance /\ cmd.body \in Decay
    BY <1>5, PopTyped, CommandShape DEF SetDecay
  <2>2. [ConfigOf(cmd.id) EXCEPT !.decay = cmd.body] \in InstanceConfig
    BY <2>1, ConfigTyped DEF InstanceConfig
  <2> QED BY <1>5, <2>1, <2>2, StoreBounded DEF SetDecay
<1>6. CASE UNCHANGED instances
  BY <1>6 DEF RegistryBounded, Registered
<1> QED
  BY <1>1, <1>2, <1>3, <1>4, <1>5, <1>6
  DEF Next, EngineStep, DrainCommand, NoteOn, NoteOff, MpeUpdate, SetMonitorRoute,
      Panic, FinishDrain, RenderFrame, EndBlock, PushCommand, vars, callback

\* However many instances announce themselves, the fixed registry suffices.
THEOREM RegistryAlwaysBounded == Spec => []RegistryBounded
<1>1. Init => RegistryBounded
  <2> SUFFICES ASSUME Init PROVE RegistryBounded
    OBVIOUS
  <2>1. Registered = {}
    BY DEF Init, EngineInit, Registered
  <2> QED BY <2>1, FS_EmptySet, EngineAssumption DEF RegistryBounded
<1> QED BY <1>1, RegistryStep, TypeCorrect, PTL DEF Spec

-----------------------------------------------------------------------------
(***************************************************************************)
(* What a step may never do.                                               *)
(***************************************************************************)
\* A step that shortens the ring during the drain is the arm of the command at
\* its head.
LEMMA AppliesIsDrain ==
  ASSUME TypeOK, [Next]_vars, Applies
  PROVE  DrainCommand
<1>1. Len(command_queue') = Len(command_queue) - 1
  BY DEF TypeOK, Applies
<1>2. Len(command_queue) \in Nat
  BY DEF TypeOK
<1>3. \A cmd \in EngineCommand : Len(Append(command_queue, cmd)) = Len(command_queue) + 1
  BY DEF TypeOK
<1>4. command_queue' # command_queue
  BY <1>1, <1>2
<1>5. ~FinishDrain /\ ~RenderFrame /\ ~EndBlock /\ ~UNCHANGED vars
  BY <1>4 DEF FinishDrain, RenderFrame, EndBlock, vars, Applies
<1>6. ASSUME NEW cmd \in EngineCommand PROVE ~PushCommand(cmd)
  BY <1>1, <1>2, <1>3 DEF PushCommand
<1> QED BY <1>5, <1>6 DEF Next, EngineStep

\* A released voice is not held.
LEMMA ReleasedIsNotHeld == \A v \in Voice : ~Held(NoteOffVoice(v))
BY DEF Held, NoteOffVoice, Voice, EnvelopeState

\* A NoteOff that is applied leaves no voice of its key held in either pool.
LEMMA ReachedStep == TypeOK /\ [Next]_vars => Reached
<1> DEFINE cmd == Head(command_queue)
<1> SUFFICES ASSUME TypeOK, [Next]_vars, Applies, NEW s \in Slot, Named(s, cmd)
             PROVE  ~Held(stimuli'[s])
  BY DEF Reached
<1>1. DrainCommand
  BY AppliesIsDrain
<1>2. stimuli[s] \in Voice
  BY DEF TypeOK
<1>3. CASE cmd.kind = "NoteOff"
  <2>1. NoteOff
    BY <1>1, <1>3 DEF DrainCommand, RegisterInstance, DisconnectInstance, NoteOn,
       MpeUpdate, SetStimulusType, SetSpeed, SetDecay, SetMonitorRoute, Panic, Pop
  <2>2. s \in Playing(cmd.id, cmd.body.channel, cmd.body.note)
    BY <1>3 DEF Named, Playing, OwnedBy
  <2>3. stimuli'[s] = NoteOffVoice(stimuli[s])
    BY <2>1, <2>2 DEF NoteOff, UpdateVoices
  <2> QED BY <1>2, <2>3, ReleasedIsNotHeld
<1>4. CASE cmd.kind = "DisconnectInstance"
  <2>1. DisconnectInstance
    BY <1>1, <1>4 DEF DrainCommand, RegisterInstance, NoteOff, NoteOn,
       MpeUpdate, SetStimulusType, SetSpeed, SetDecay, SetMonitorRoute, Panic, Pop
  <2>2. s \in OwnedBy(cmd.id)
    BY DEF Named, OwnedBy
  <2>3. stimuli'[s] = NoteOffVoice(stimuli[s])
    BY <2>1, <2>2 DEF DisconnectInstance, UpdateVoices
  <2> QED BY <1>2, <2>3, ReleasedIsNotHeld
<1> QED BY <1>3, <1>4 DEF Named

\* A NoteOff or a DisconnectInstance reaches every voice it names, in both
\* pools.
THEOREM ReleaseAlwaysReaches == Spec => ReleaseReachesEveryVoice
BY ReachedStep, TypeCorrect, PTL DEF Spec, ReleaseReachesEveryVoice

\* A NoteOn takes a sounding slot only when no free one is left.
LEMMA LastResortStep == SlotInv /\ [Next]_vars => LastResort
<1> DEFINE cmd == Head(command_queue)
<1> SUFFICES ASSUME SlotInv, [Next]_vars,
                    NEW s \in Slot, StolenFrom(s), Held(stimuli[s]),
                    NEW t \in PoolWith(s)
             PROVE  /\ active_mask[t]
                    /\ ~IsReleasing(stimuli[t])
                    /\ owners[t].seq >= owners[s].seq
  BY DEF LastResort
<1>0. TypeOK /\ SlotsAgree /\ SeqOrder
  BY DEF SlotInv
<1>1. NoteOn
  BY <1>0 DEF StolenFrom, Next, EngineStep, DrainCommand, RegisterInstance,
     DisconnectInstance, NoteOff, MpeUpdate, SetStimulusType, SetSpeed, SetDecay,
     SetMonitorRoute, Panic, FinishDrain, RenderFrame, EndBlock, PushCommand, vars,
     callback, TypeOK
<1>2. PICK pool \in {WaveSlot, TravellingSlot} :
        \E u \in pool :
          /\ SlotFor(u, pool)
          /\ owners' = [owners EXCEPT ![u] =
                [id |-> cmd.id, channel |-> cmd.body.channel,
                 note |-> cmd.body.note, seq |-> next_seq]]
  BY <1>1 DEF NoteOn, StartVoice, PoolOf
<1>3. s \in pool /\ SlotFor(s, pool)
  BY <1>0, <1>2 DEF StolenFrom, TypeOK, Slot
<1>4. t \in pool /\ t \in Slot
  BY <1>2, <1>3, EngineAssumption DEF PoolWith, Slot
<1>5. active_mask[s]
  BY <1>0, <1>1 DEF SlotsAgree, StolenFrom, NoteOn, Pop
<1>6. /\ FreeSlots(pool) = {}
      /\ \A u \in pool \ {s} : StealBefore(s, u)
  BY <1>3, <1>5 DEF SlotFor, FreeSlots
<1>7. active_mask[t] /\ owners[t] # None
  BY <1>0, <1>4, <1>6 DEF FreeSlots, SlotsAgree
<1>8. ~IsReleasing(stimuli[s])
  BY DEF Held, IsReleasing
<1>9. AllocationSeq(s) = owners[s].seq /\ AllocationSeq(t) = owners[t].seq
  BY <1>7 DEF AllocationSeq, StolenFrom
<1>10. owners[s].seq \in Nat /\ owners[t].seq \in Nat
  BY <1>0, <1>4, <1>7 DEF TypeOK, VoiceOwner, StolenFrom
<1>11. CASE t = s
  BY <1>7, <1>8, <1>10, <1>11
<1>12. CASE t # s
  <2>1. StealBefore(s, t)
    BY <1>4, <1>6, <1>12
  <2> QED BY <1>7, <1>8, <1>9, <1>10, <2>1 DEF StealBefore
<1> QED BY <1>11, <1>12

\* A held voice is stolen only from a full pool in which nothing releases and
\* nothing is older.
THEOREM StealIsAlwaysLastResort == Spec => StealIsLastResort
BY LastResortStep, SlotInvariant, PTL DEF Spec, StealIsLastResort

\* A command of one instance touches nothing that another one owns.
LEMMA IsolatedStep == TypeOK /\ [Next]_vars => Isolated
<1> DEFINE cmd == Head(command_queue)
<1> SUFFICES ASSUME TypeOK, [Next]_vars, Applies PROVE TouchesOwn(cmd)
  BY DEF Isolated
<1>0. DrainCommand
  BY AppliesIsDrain
<1>1. CASE RegisterInstance
  BY <1>1 DEF RegisterInstance, TouchesOwn, Store, TypeOK
<1>2. CASE DisconnectInstance
  BY <1>2 DEF DisconnectInstance, TouchesOwn, UpdateVoices, TypeOK
<1>3. CASE NoteOn
  <2>1. PICK s \in Slot :
          /\ stimuli' = [stimuli EXCEPT ![s] =
                           NoteOnVoice(ConfigOf(cmd.id), cmd.body.mpe)]
          /\ owners' = [owners EXCEPT ![s] =
                [id |-> cmd.id, channel |-> cmd.body.channel,
                 note |-> cmd.body.note, seq |-> next_seq]]
    BY <1>3 DEF NoteOn, StartVoice, PoolOf, Slot
  <2>2. owners'[s] = [id |-> cmd.id, channel |-> cmd.body.channel,
                      note |-> cmd.body.note, seq |-> next_seq]
    BY <2>1 DEF TypeOK
  <2>3. owners'[s] \in VoiceOwner
    <3>1. cmd.id \in Instance /\ cmd.body \in NoteOnBody
      BY <1>3, PopTyped, CommandShape DEF NoteOn
    <3> QED BY <2>2, <3>1 DEF VoiceOwner, NoteOnBody, TypeOK
  <2>4. TakenBy(s, cmd)
    BY <1>3, <2>2, <2>3, OwnerAssumption DEF TakenBy, NoteOn, Pop
  <2>5. \A t \in Slot \ {s} : stimuli'[t] = stimuli[t] /\ owners'[t] = owners[t]
    BY <2>1 DEF TypeOK
  <2> QED BY <1>3, <2>4, <2>5 DEF NoteOn, TouchesOwn
<1>4. CASE NoteOff
  BY <1>4 DEF NoteOff, TouchesOwn, UpdateVoices, Playing, TypeOK
<1>5. CASE MpeUpdate
  BY <1>5 DEF MpeUpdate, TouchesOwn, UpdateVoices, TypeOK
<1>6. CASE SetStimulusType
  BY <1>6 DEF SetStimulusType, TouchesOwn, Store, TypeOK
<1>7. CASE SetSpeed
  BY <1>7 DEF SetSpeed, TouchesOwn, UpdateVoices, Store, TypeOK
<1>8. CASE SetDecay
  BY <1>8 DEF SetDecay, TouchesOwn, UpdateVoices, Store, TypeOK
<1>9. CASE SetMonitorRoute
  BY <1>9 DEF SetMonitorRoute, TouchesOwn
<1>10. CASE Panic
  BY <1>10 DEF Panic, Pop, TouchesOwn
<1> QED BY <1>0, <1>1, <1>2, <1>3, <1>4, <1>5, <1>6, <1>7, <1>8, <1>9, <1>10
        DEF DrainCommand

\* A command never disturbs the voices, owners or configuration of another
\* instance, except by Panic and by taking a slot for its note.
THEOREM AlwaysIsolated == Spec => Isolation
BY IsolatedStep, TypeCorrect, PTL DEF Spec, Isolation
=============================================================================
