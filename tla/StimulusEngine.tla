--------------------------- MODULE StimulusEngine ---------------------------
(***************************************************************************)
(* The engine half of haptic-server/src/engine.rs: two fixed pools of      *)
(* voices, their owner tables, the per-instance configuration registry and *)
(* the audio callback that drains the command ring, renders frames and     *)
(* reaps finished voices.                                                  *)
(*                                                                         *)
(* One audio block is drain* ; frame* ; reap.  The IPC thread may push     *)
(* between any two of these steps, so each is an action of its own.        *)
(* Sample arithmetic is abstracted: a voice keeps its envelope state, the  *)
(* frame count of that state, whether its level is above zero and how many *)
(* frames of propagation tail remain.                                      *)
(*                                                                         *)
(* Definitions named Faulty... are not part of the model: each is a bug    *)
(* that a property below has to catch, next to the definition it spoils.   *)
(***************************************************************************)
EXTENDS HapticProtocol

CONSTANTS
  WaveSlot,        \* slots of the Wave pool (indices)
  TravellingSlot,  \* slots of the TravellingWave pool
  RegistrySize,    \* MAX_INSTANCES
  Capacity,        \* COMMAND_QUEUE_CAPACITY
  AttackFrames,    \* frames until the attack ramp reaches 1
  ReleaseFrames,   \* frames until the release ramp reaches 0
  TailFrames,      \* frames until the latest scattered arrival is consumed
  MaxNotes         \* bound on the NoteOns of a behaviour (caps next_seq)

ASSUME EngineAssumption ==
  /\ WaveSlot \subseteq Nat /\ IsFiniteSet(WaveSlot)
  /\ TravellingSlot \subseteq Nat /\ IsFiniteSet(TravellingSlot)
  /\ WaveSlot \cap TravellingSlot = {}
  /\ WaveSlot # {} /\ TravellingSlot # {}
  /\ IsFiniteSet(Instance)
  /\ RegistrySize \in Nat /\ Capacity \in Nat /\ MaxNotes \in Nat
  /\ AttackFrames \in Nat /\ ReleaseFrames \in Nat /\ TailFrames \in Nat

Slot == WaveSlot \cup TravellingSlot

VoiceOwner == [id: Instance, channel: Channel, note: Note, seq: Nat]

ASSUME OwnerAssumption == None \notin VoiceOwner

EnvelopeState == {"Idle", "Attack", "Sustain", "Release"}

Voice == [env: EnvelopeState, time: Nat, level: 0..1, tail: Nat,
          speed: Speed, decay: Decay, mpe: Mpe]

VARIABLES
  command_queue,   \* the SPSC ring from the IPC thread
  phase,           \* where the audio callback is: "drain" or "render"
  stimuli,         \* the voice in each slot
  active_mask,     \* which slots the pools consider occupied
  owners,          \* who plays in each slot
  next_seq,        \* allocation counter
  instances,       \* per-instance configuration; None when unregistered
  monitor_routes   \* physical output -> logical channel

callback == <<phase, stimuli, active_mask, owners, next_seq, instances,
              monitor_routes>>
vars == <<command_queue, callback>>

TypeOK ==
  /\ command_queue \in Seq(EngineCommand)
  /\ Len(command_queue) <= Capacity
  /\ phase \in {"drain", "render"}
  /\ stimuli \in [Slot -> Voice]
  /\ active_mask \in [Slot -> BOOLEAN]
  /\ owners \in [Slot -> VoiceOwner \cup {None}]
  /\ next_seq \in Nat
  /\ instances \in [Instance -> InstanceConfig \cup {None}]
  /\ monitor_routes \in [Transducer -> Transducer]

-----------------------------------------------------------------------------
(***************************************************************************)
(* One voice.                                                              *)
(***************************************************************************)
SilentVoice ==
  [env |-> "Idle", time |-> 0, level |-> 0, tail |-> 0,
   speed |-> DefaultSpeed, decay |-> DefaultDecay, mpe |-> DefaultMpe]

IsActive(v) == v.env # "Idle" \/ v.tail > 0

IsReleasing(v) == v.env = "Release" \/ (v.env = "Idle" /\ v.tail > 0)

Held(v) == v.env \in {"Attack", "Sustain"}

NoteOnVoice(config, mpe) ==
  [SilentVoice EXCEPT !.env = "Attack", !.speed = config.speed,
                      !.decay = config.decay, !.mpe = mpe]

\* The level is kept, so a voice released before its first frame has none.
NoteOffVoice(v) ==
  IF v.env = "Idle" THEN v ELSE [v EXCEPT !.env = "Release", !.time = 0]

StepEnvelope(v) ==
  CASE v.env = "Attack" ->
         [v EXCEPT !.time = @ + 1, !.level = 1,
                   !.env = IF v.time + 1 >= AttackFrames THEN "Sustain" ELSE @]
    [] v.env = "Release" ->
         IF v.level = 0 \/ v.time + 1 >= ReleaseFrames
         THEN [v EXCEPT !.time = @ + 1, !.level = 0, !.env = "Idle"]
         ELSE [v EXCEPT !.time = @ + 1]
    [] OTHER -> v

\* Only a Wave voice has delay lines, hence a tail that outlives its source.
ProcessVoice(s, v) ==
  LET w == StepEnvelope(v)
  IN  IF s \in TravellingSlot THEN w
      ELSE [w EXCEPT !.tail = IF w.env # "Idle" THEN TailFrames
                              ELSE IF @ > 0 THEN @ - 1 ELSE 0]

-----------------------------------------------------------------------------
(***************************************************************************)
(* Registry and owner tables.                                              *)
(***************************************************************************)
Registered == {i \in Instance : instances[i] # None}

ConfigOf(i) == IF instances[i] = None THEN DefaultConfig ELSE instances[i]

CanClaim(i) == i \in Registered \/ Cardinality(Registered) < RegistrySize

Store(i, config) ==
  instances' = IF CanClaim(i) THEN [instances EXCEPT ![i] = config]
               ELSE instances

OwnedBy(i) == {s \in Slot : owners[s] # None /\ owners[s].id = i}

PoolOf(kind) == IF kind = "Wave" THEN WaveSlot ELSE TravellingSlot

\* Forgets that instances share channels and notes.
FaultyPlayingAny(i, channel, note) ==
  {s \in Slot : owners[s] # None /\ owners[s].channel = channel
                                 /\ owners[s].note = note}

\* Looks only in the pool of the instance's present stimulus type.
FaultyPlayingHere(i, channel, note) ==
  {s \in OwnedBy(i) \cap PoolOf(ConfigOf(i).kind) :
     owners[s].channel = channel /\ owners[s].note = note}

Playing(i, channel, note) ==
  {s \in OwnedBy(i) : owners[s].channel = channel /\ owners[s].note = note}

UpdateVoices(S, Op(_)) ==
  stimuli' = [s \in Slot |-> IF s \in S THEN Op(stimuli[s]) ELSE stimuli[s]]

AllocationSeq(s) == IF owners[s] = None THEN 0 ELSE owners[s].seq

\* Oldest first, releasing or not.
FaultyStealBefore(s, t) ==
  \/ AllocationSeq(s) < AllocationSeq(t)
  \/ AllocationSeq(s) = AllocationSeq(t) /\ s < t

\* steal_candidate compares (releasing, Reverse(seq)) and keeps the first.
StealBefore(s, t) ==
  LET rs == IsReleasing(stimuli[s])
      rt == IsReleasing(stimuli[t])
  IN  \/ rs /\ ~rt
      \/ rs = rt /\ AllocationSeq(s) < AllocationSeq(t)
      \/ rs = rt /\ AllocationSeq(s) = AllocationSeq(t) /\ s < t

FreeSlots(pool) == {s \in pool : ~active_mask[s]}

\* The lowest free slot, or the victim when the pool is full.
SlotFor(s, pool) ==
  IF FreeSlots(pool) # {}
  THEN s \in FreeSlots(pool) /\ \A t \in FreeSlots(pool) : s <= t
  ELSE \A t \in pool \ {s} : StealBefore(s, t)

-----------------------------------------------------------------------------
(***************************************************************************)
(* drain_commands: one pop, then the arm of apply_command for its kind.    *)
(***************************************************************************)
Pop(kind) ==
  /\ phase = "drain"
  /\ command_queue # <<>>
  /\ Head(command_queue).kind = kind
  /\ command_queue' = Tail(command_queue)

RegisterInstance ==
  /\ Pop("RegisterInstance")
  /\ LET cmd == Head(command_queue) IN Store(cmd.id, cmd.body)
  /\ UNCHANGED <<phase, stimuli, active_mask, owners, next_seq, monitor_routes>>

\* Keeps the registry entry.
FaultyDisconnectInstance ==
  /\ Pop("DisconnectInstance")
  /\ UpdateVoices(OwnedBy(Head(command_queue).id), NoteOffVoice)
  /\ UNCHANGED <<phase, active_mask, owners, next_seq, instances, monitor_routes>>

DisconnectInstance ==
  /\ Pop("DisconnectInstance")
  /\ LET cmd == Head(command_queue)
     IN  /\ UpdateVoices(OwnedBy(cmd.id), NoteOffVoice)
         /\ instances' = [instances EXCEPT ![cmd.id] = None]
  /\ UNCHANGED <<phase, active_mask, owners, next_seq, monitor_routes>>

\* The free or stolen slot is reset, re-armed and given its new owner.
StartVoice(cmd) ==
  LET config == ConfigOf(cmd.id)
      pool   == PoolOf(config.kind)
  IN  \E s \in pool :
        /\ SlotFor(s, pool)
        /\ active_mask' = [active_mask EXCEPT ![s] = TRUE]
        /\ stimuli' = [stimuli EXCEPT ![s] = NoteOnVoice(config, cmd.body.mpe)]
        /\ owners' = [owners EXCEPT ![s] =
             [id |-> cmd.id, channel |-> cmd.body.channel,
              note |-> cmd.body.note, seq |-> next_seq]]

NoteOn ==
  /\ Pop("NoteOn")
  /\ StartVoice(Head(command_queue))
  /\ next_seq' = next_seq + 1
  /\ UNCHANGED <<phase, instances, monitor_routes>>

\* Every voice of the key is released; ownership stays until the reap.
NoteOff ==
  /\ Pop("NoteOff")
  /\ LET cmd == Head(command_queue)
     IN  UpdateVoices(Playing(cmd.id, cmd.body.channel, cmd.body.note),
                      NoteOffVoice)
  /\ UNCHANGED <<phase, active_mask, owners, next_seq, instances, monitor_routes>>

MpeUpdate ==
  /\ Pop("MpeUpdate")
  /\ LET cmd == Head(command_queue)
         S == {s \in OwnedBy(cmd.id) : owners[s].channel = cmd.body.channel}
     IN  UpdateVoices(S, LAMBDA v : [v EXCEPT !.mpe = cmd.body.mpe])
  /\ UNCHANGED <<phase, active_mask, owners, next_seq, instances, monitor_routes>>

SetStimulusType ==
  /\ Pop("SetStimulusType")
  /\ LET cmd == Head(command_queue)
     IN  Store(cmd.id, [ConfigOf(cmd.id) EXCEPT !.kind = cmd.body.type])
  /\ UNCHANGED <<phase, stimuli, active_mask, owners, next_seq, monitor_routes>>

\* Retunes future notes only.
FaultySetSpeed ==
  /\ Pop("SetSpeed")
  /\ LET cmd == Head(command_queue)
     IN  Store(cmd.id, [ConfigOf(cmd.id) EXCEPT !.speed = cmd.body])
  /\ UNCHANGED <<phase, stimuli, active_mask, owners, next_seq, monitor_routes>>

\* Live travelling waves follow the new scale; live Wave voices keep theirs.
SetSpeed ==
  /\ Pop("SetSpeed")
  /\ LET cmd == Head(command_queue)
     IN  /\ Store(cmd.id, [ConfigOf(cmd.id) EXCEPT !.speed = cmd.body])
         /\ UpdateVoices(OwnedBy(cmd.id) \cap TravellingSlot,
                         LAMBDA v : [v EXCEPT !.speed = cmd.body])
  /\ UNCHANGED <<phase, active_mask, owners, next_seq, monitor_routes>>

SetDecay ==
  /\ Pop("SetDecay")
  /\ LET cmd == Head(command_queue)
     IN  /\ Store(cmd.id, [ConfigOf(cmd.id) EXCEPT !.decay = cmd.body])
         /\ UpdateVoices(OwnedBy(cmd.id),
                         LAMBDA v : [v EXCEPT !.decay = cmd.body])
  /\ UNCHANGED <<phase, active_mask, owners, next_seq, monitor_routes>>

\* Takes a zero-based channel for a one-based one.
FaultySetMonitorRoute ==
  /\ Pop("SetMonitorRoute")
  /\ LET cmd == Head(command_queue)
     IN  monitor_routes' =
           [monitor_routes EXCEPT ![cmd.body.output] = cmd.body.source + 1]
  /\ UNCHANGED <<phase, stimuli, active_mask, owners, next_seq, instances>>

SetMonitorRoute ==
  /\ Pop("SetMonitorRoute")
  /\ LET cmd == Head(command_queue)
     IN  monitor_routes' =
           [monitor_routes EXCEPT ![cmd.body.output] = cmd.body.source]
  /\ UNCHANGED <<phase, stimuli, active_mask, owners, next_seq, instances>>

Panic ==
  /\ Pop("Panic")
  /\ stimuli' = [s \in Slot |-> SilentVoice]
  /\ active_mask' = [s \in Slot |-> FALSE]
  /\ owners' = [s \in Slot |-> None]
  /\ UNCHANGED <<phase, next_seq, instances, monitor_routes>>

\* pop() found the ring empty: the block goes on to render.
FinishDrain ==
  /\ phase = "drain"
  /\ command_queue = <<>>
  /\ phase' = "render"
  /\ UNCHANGED <<command_queue, stimuli, active_mask, owners, next_seq,
                 instances, monitor_routes>>

\* process_all: an occupied slot whose voice ended is freed one frame later.
RenderFrame ==
  /\ phase = "render"
  /\ active_mask' = [s \in Slot |-> active_mask[s] /\ IsActive(stimuli[s])]
  /\ stimuli' = [s \in Slot |-> IF active_mask'[s] THEN ProcessVoice(s, stimuli[s])
                                ELSE stimuli[s]]
  /\ UNCHANGED <<command_queue, phase, owners, next_seq, instances,
                 monitor_routes>>

\* Leaves stale owners behind.
FaultyEndBlock ==
  /\ phase = "render"
  /\ phase' = "drain"
  /\ UNCHANGED <<command_queue, stimuli, active_mask, owners, next_seq, instances,
                 monitor_routes>>

\* reap_finished_voices at the end of process_block.
EndBlock ==
  /\ phase = "render"
  /\ phase' = "drain"
  /\ owners' = [s \in Slot |-> IF active_mask[s] THEN owners[s] ELSE None]
  /\ UNCHANGED <<command_queue, stimuli, active_mask, next_seq, instances,
                 monitor_routes>>

DrainCommand ==
  \/ RegisterInstance \/ DisconnectInstance \/ NoteOn \/ NoteOff \/ MpeUpdate
  \/ SetStimulusType \/ SetSpeed \/ SetDecay \/ SetMonitorRoute \/ Panic

EngineStep == DrainCommand \/ FinishDrain \/ RenderFrame \/ EndBlock

-----------------------------------------------------------------------------
(***************************************************************************)
(* The engine on its own: the producer end of the ring may push any        *)
(* command while there is room.                                            *)
(***************************************************************************)
NoteOnsQueued ==
  Cardinality({k \in DOMAIN command_queue : command_queue[k].kind = "NoteOn"})

PushCommand(cmd) ==
  /\ Len(command_queue) < Capacity
  /\ cmd.kind = "NoteOn" => next_seq + NoteOnsQueued < MaxNotes
  /\ command_queue' = Append(command_queue, cmd)
  /\ UNCHANGED callback

EngineInit ==
  /\ phase = "drain"
  /\ stimuli = [s \in Slot |-> SilentVoice]
  /\ active_mask = [s \in Slot |-> FALSE]
  /\ owners = [s \in Slot |-> None]
  /\ next_seq = 0
  /\ instances = [i \in Instance |-> None]
  /\ monitor_routes = [p \in Transducer |-> p]

Init == command_queue = <<>> /\ EngineInit

Next == EngineStep \/ \E cmd \in EngineCommand : PushCommand(cmd)

Spec == Init /\ [][Next]_vars

-----------------------------------------------------------------------------
(***************************************************************************)
(* Properties.                                                             *)
(***************************************************************************)

\* The owner tables and the pools' masks agree: an occupied slot has an owner,
\* and between blocks an owned slot is occupied.  note_off, mpe_update and
\* disconnect_instance walk the owners and never look at the mask, so a stale
\* owner would let a command reach a slot that plays nothing.
SlotsAgree ==
  \A s \in Slot :
    /\ active_mask[s] => owners[s] # None
    /\ phase = "drain" /\ owners[s] # None => active_mask[s]

\* A voice that still sounds is in an occupied slot: process_all skips the
\* others, so such a voice would freeze with its energy in the delay lines.
SoundingIsOccupied ==
  \A s \in Slot : IsActive(stimuli[s]) => active_mask[s]

\* Allocation numbers are distinct and below the counter, so that steal_candidate
\* never has to break a tie by slot index.
SeqOrder ==
  \A s, t \in Slot :
    owners[s] # None /\ owners[t] # None =>
      /\ owners[s].seq < next_seq
      /\ s # t => owners[s].seq # owners[t].seq

\* The registry never holds more than its fixed number of entries.
RegistryBounded == Cardinality(Registered) <= RegistrySize

\* The step takes slot s from one note and gives it to another.
StolenFrom(s) ==
  owners[s] # None /\ owners'[s] # None /\ owners'[s] # owners[s]

PoolWith(s) == IF s \in WaveSlot THEN WaveSlot ELSE TravellingSlot

\* A held voice loses its slot to a new note only when every slot of its pool is
\* occupied, none of them is releasing, and no other voice is older
\* (allocate_slot, then steal_candidate).
LastResort ==
  \A s \in Slot : StolenFrom(s) /\ Held(stimuli[s]) =>
    \A t \in PoolWith(s) :
      /\ active_mask[t]
      /\ ~IsReleasing(stimuli[t])
      /\ owners[t].seq >= owners[s].seq
StealIsLastResort == [][LastResort]_vars

\* The step applies the command at the head of the ring.
Applies == phase = "drain" /\ command_queue # <<>>
                           /\ command_queue' = Tail(command_queue)

\* The step gives slot s to the note of the NoteOn cmd.
TakenBy(s, cmd) ==
  /\ cmd.kind = "NoteOn"
  /\ owners'[s] # None /\ owners'[s].id = cmd.id /\ owners'[s].seq = next_seq

\* A command touches nobody else: apart from Panic and from the slot a NoteOn
\* takes, it changes only voices and configuration of the instance it is
\* stamped with, and it never changes a slot's owner.
TouchesOwn(cmd) ==
  /\ \A i \in Instance : instances'[i] # instances[i] => i = cmd.id
  /\ cmd.kind # "Panic" => \A s \in Slot :
       /\ stimuli'[s] # stimuli[s] => s \in OwnedBy(cmd.id) \/ TakenBy(s, cmd)
       /\ owners'[s] # owners[s] => TakenBy(s, cmd)
Isolated == Applies => TouchesOwn(Head(command_queue))
Isolation == [][Isolated]_vars

\* After a NoteOff nothing of that key is held in either pool, however often the
\* key was struck and whatever stimulus type the instance has now; after a
\* DisconnectInstance nothing of that instance is held.
Named(s, cmd) ==
  /\ owners[s] # None /\ owners[s].id = cmd.id
  /\ \/ cmd.kind = "DisconnectInstance"
     \/ /\ cmd.kind = "NoteOff"
        /\ owners[s].channel = cmd.body.channel
        /\ owners[s].note = cmd.body.note
Reached ==
  Applies => \A s \in Slot : Named(s, Head(command_queue)) => ~Held(stimuli'[s])
ReleaseReachesEveryVoice == [][Reached]_vars
=============================================================================
