--------------------------- MODULE HapticProtocol ---------------------------
(***************************************************************************)
(* The vocabulary shared by the IPC thread and the audio engine: what a    *)
(* client may write on its socket (haptic-protocol/src/lib.rs) and what    *)
(* the IPC thread puts in the engine's command ring (engine.rs).           *)
(*                                                                         *)
(* Payloads are abstract.  Speed stands for the three travelling-wave      *)
(* scale parameters (wave speed, scale mode, wavelength), Decay for the    *)
(* distance-decay pair, Mpe for the three MPE dimensions.  Velocity and    *)
(* timestamps never influence control and are left out.                    *)
(***************************************************************************)
EXTENDS Integers, Sequences, FiniteSets

CONSTANTS
  Instance,      \* non-zero instance ids that clients announce
  Channel,       \* MIDI channels
  Note,          \* MIDI notes
  Mpe,           \* MPE values
  Speed,         \* spatial-scale settings
  Decay,         \* distance-decay settings
  Transducer,    \* indices of logical channels and of physical outputs
  DefaultMpe,    \* MpeData::default()
  DefaultSpeed,  \* DEFAULT_WAVE_SPEED and its companions
  DefaultDecay,  \* DistanceDecay::default()
  None           \* Rust's Option::None, and an absent payload

StimulusType == {"Wave", "TravellingWave"}

ClientRole == {"Controller", "Observer"}

InstanceConfig == [kind: StimulusType, speed: Speed, decay: Decay]

DefaultConfig ==
  [kind |-> "Wave", speed |-> DefaultSpeed, decay |-> DefaultDecay]

ASSUME ProtocolAssumption ==
  /\ DefaultMpe \in Mpe
  /\ DefaultSpeed \in Speed
  /\ DefaultDecay \in Decay
  /\ None \notin Instance
  /\ None \notin InstanceConfig

(***************************************************************************)
(* Wire commands.  The body holds exactly the fields of the variant.       *)
(***************************************************************************)
HelloBody  == [id: Instance, role: ClientRole, config: InstanceConfig]
KeyBody    == [channel: Channel, note: Note]
NoteOnBody == [channel: Channel, note: Note, mpe: Mpe]
MpeBody    == [channel: Channel, mpe: Mpe]
TypeBody   == [type: StimulusType]
RouteBody  == [output: Transducer, source: Transducer]

\* Each Parameter variant is a kind of its own, so that the engine's match on
\* it is one action per arm.
PerformanceCommand ==
       [kind: {"NoteOn"},            body: NoteOnBody]
  \cup [kind: {"NoteOff"},           body: KeyBody]
  \cup [kind: {"MpeUpdate"},         body: MpeBody]
  \cup [kind: {"SetStimulusType"},   body: TypeBody]
  \cup [kind: {"SetSpeed"},          body: Speed]
  \cup [kind: {"SetDecay"},          body: Decay]
  \cup [kind: {"SetMonitorRoute"},   body: RouteBody]
  \cup [kind: {"Panic"},             body: {None}]

HapticCommand == [kind: {"Hello"}, body: HelloBody] \cup PerformanceCommand

\* What validate_command and FrameDecoder::next_frame can refuse: a command
\* with a value out of range, a well-framed payload that does not
\* deserialize, and a length prefix above MAX_FRAME_SIZE.
RefusedFrame ==
  [kind: {"InvalidHello", "InvalidCommand", "Undecodable", "Oversized"},
   body: {None}]

Frame == HapticCommand \cup RefusedFrame

(***************************************************************************)
(* Engine commands: wire commands stamped with the instance id bound to    *)
(* the connection they arrived on.  Panic carries no id.                   *)
(***************************************************************************)
EngineCommand ==
       [kind: {"RegisterInstance"},   id: Instance, body: InstanceConfig]
  \cup [kind: {"DisconnectInstance"}, id: Instance, body: {None}]
  \cup [kind: {"NoteOn"},             id: Instance, body: NoteOnBody]
  \cup [kind: {"NoteOff"},            id: Instance, body: KeyBody]
  \cup [kind: {"MpeUpdate"},          id: Instance, body: MpeBody]
  \cup [kind: {"SetStimulusType"},    id: Instance, body: TypeBody]
  \cup [kind: {"SetSpeed"},           id: Instance, body: Speed]
  \cup [kind: {"SetDecay"},           id: Instance, body: Decay]
  \cup [kind: {"SetMonitorRoute"},    id: Instance, body: RouteBody]
  \cup [kind: {"Panic"},              id: {None},   body: {None}]

FromWire(command, id) ==
  CASE command.kind = "Hello" ->
         [kind |-> "RegisterInstance", id |-> command.body.id,
          body |-> command.body.config]
    [] command.kind = "Panic" ->
         [kind |-> "Panic", id |-> None, body |-> None]
    [] OTHER ->
         [kind |-> command.kind, id |-> id, body |-> command.body]

Disconnect(id) == [kind |-> "DisconnectInstance", id |-> id, body |-> None]
=============================================================================
