---------------------------- MODULE HapticServer ----------------------------
(***************************************************************************)
(* haptic-server as main.rs assembles it: client processes, the IPC thread *)
(* and the audio callback, joined by the command ring.  The IPC module's   *)
(* abstract engine is replaced by the real one.                            *)
(***************************************************************************)
EXTENDS HapticProtocol

CONSTANTS
  Conn, Message, Capacity, Reserve, InboxBound,
  WaveSlot, TravellingSlot, RegistrySize,
  AttackFrames, ReleaseFrames, TailFrames, MaxNotes

VARIABLES
  command_queue,
  peer_open, inbox, link, instance_id, wants_status, greeted, status_output,
  shown, at, todo, current, frames, active_instances, pending_disconnects, routes,
  routing_dirty,
  phase, stimuli, active_mask, owners, next_seq, instances, monitor_routes,
  notes_sent       \* NoteOns written by the peers so far; at most MaxNotes

Engine == INSTANCE StimulusEngine

Ipc == INSTANCE IpcServer WITH registered <- Engine!Registered

ASSUME ServerAssumption ==
  /\ None \notin Conn /\ None \notin Engine!VoiceOwner
  /\ Message \subseteq Frame
  /\ WaveSlot \subseteq Nat /\ IsFiniteSet(WaveSlot) /\ WaveSlot # {}
  /\ TravellingSlot \subseteq Nat /\ IsFiniteSet(TravellingSlot) /\ TravellingSlot # {}
  /\ WaveSlot \cap TravellingSlot = {}
  /\ IsFiniteSet(Instance)
  /\ {Capacity, Reserve, InboxBound, RegistrySize, MaxNotes,
      AttackFrames, ReleaseFrames, TailFrames} \subseteq Nat

ipcVars == <<peer_open, inbox, link, instance_id, wants_status, greeted,
             status_output, shown, at, todo, current, frames, active_instances,
             pending_disconnects, routes, routing_dirty>>
callback == <<phase, stimuli, active_mask, owners, next_seq, instances,
              monitor_routes>>
vars == <<command_queue, ipcVars, callback, notes_sent>>

Init == Engine!Init /\ Ipc!IpcInit /\ notes_sent = 0

IpcThread ==
  /\ UNCHANGED <<callback, notes_sent>>
  /\ Ipc!IpcStep

AudioCallback ==
  /\ Engine!EngineStep
  /\ UNCHANGED <<ipcVars, notes_sent>>

ClientSend(c, m) ==
  /\ UNCHANGED callback
  /\ IF m.kind = "NoteOn"
     THEN notes_sent < MaxNotes /\ notes_sent' = notes_sent + 1
     ELSE UNCHANGED notes_sent
  /\ Ipc!Send(c, m)

ClientConnect(c) == UNCHANGED <<callback, notes_sent>> /\ Ipc!Connect(c)

ClientClose(c) == UNCHANGED <<callback, notes_sent>> /\ Ipc!Close(c)

ClientStep ==
  \E c \in Conn : \/ ClientConnect(c) \/ ClientClose(c)
                  \/ \E m \in Message : ClientSend(c, m)

Next == IpcThread \/ AudioCallback \/ ClientStep

Spec == Init /\ [][Next]_vars

\* The IPC loop sleeps a millisecond and runs again, the device asks for block
\* after block, and a block is long enough that some contain a render frame.
\* Nothing is assumed of the clients.
Fairness ==
  /\ WF_vars(IpcThread)
  /\ WF_vars(AudioCallback)
  /\ SF_vars(Engine!RenderFrame /\ UNCHANGED <<ipcVars, notes_sent>>)

FairSpec == Spec /\ Fairness

-----------------------------------------------------------------------------
(***************************************************************************)
(* Properties.                                                             *)
(***************************************************************************)

\* Each half behaves as its own module says, with the other as environment, so
\* what is shown of IpcServer and StimulusEngine holds of the server.
ImplementsIpc == Ipc!Spec
ImplementsEngine == Engine!Spec

\* A note sustains only as long as somebody can end it: the instance it belongs
\* to is registered, and it is reserved by a live connection or by a cleanup,
\* or its DisconnectInstance is on its way.
HeldVoicesAreAccountedFor ==
  \A s \in Engine!Slot : Engine!Held(stimuli[s]) =>
    LET i == owners[s].id
    IN  /\ i \in Engine!Registered
        /\ \/ i \in active_instances
           \/ \E k \in Ipc!Places : Ipc!IsDisconnect(i, k)

\* A held voice sounds with its instance's current decay, and a travelling wave
\* with its current scale: live updates and note-on configuration never drift
\* apart, over reconnections included.
HeldVoicesFollowConfig ==
  \A s \in Engine!Slot : Engine!Held(stimuli[s]) =>
    LET config == Engine!ConfigOf(owners[s].id)
    IN  /\ stimuli[s].decay = config.decay
        /\ s \in TravellingSlot => stimuli[s].speed = config.speed

\* No connection is bound to i and no frame waits to be read.
Vanished(i) ==
  \A c \in Conn : instance_id[c] # i /\ inbox[c] = <<>> /\ link[c] # "backlog"

\* Once the clients have fallen silent, everything a vanished client left
\* behind is reclaimed: its voices, its registry entry and its reserved id.
VanishedClientsAreReclaimed ==
  \A i \in Instance :
    <>[]Vanished(i) =>
      <>[](/\ i \notin active_instances
           /\ i \notin Engine!Registered
           /\ Engine!OwnedBy(i) = {})
=============================================================================
