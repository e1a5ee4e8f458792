------------------------------ MODULE WaveVoice ------------------------------
(***************************************************************************)
(* One Wave voice of haptic-server/src/engine.rs with its delay lines: the *)
(* source envelope, the propagation tail that keeps the slot until the     *)
(* last scattered arrival has been heard, and the pool's mask bit.         *)
(*                                                                         *)
(* The source moves between frames.  Its speed is capped at half the wave  *)
(* speed, so a delay changes by at most half a frame per frame; delays are *)
(* counted in half frames.  Adopting a reloaded layout moves the           *)
(* transducers instead, by any distance (LayoutMoves).                     *)
(***************************************************************************)
EXTENDS DelayLine

CONSTANTS Transducer,   \* the transducers, one delay line each
          MaxDelay,     \* bound on a delay, in half frames
          LayoutMoves   \* may the engine adopt a layout while a voice lives?

ASSUME VoiceAssumption ==
  /\ Transducer # {} /\ MaxDelay \in Nat /\ LayoutMoves \in BOOLEAN

HalfFrames == 0..MaxDelay

(***************************************************************************)
(* Definitions named Faulty... are not part of the model: each is a bug    *)
(* that a property below has to catch, next to the definition it spoils.   *)
(***************************************************************************)
VARIABLES
  active_mask,            \* the pool considers the slot occupied
  env_state,              \* the source envelope
  motion_needs_jump,      \* the next frame places the source outright
  delay,                  \* source to transducer, in half frames
  delay_lines,            \* one line per transducer
  tail_frames_remaining,  \* frames until the latest arrival is consumed
  heard                   \* what the latest frame took from each line

vars == <<active_mask, env_state, motion_needs_jump, delay, delay_lines,
          tail_frames_remaining, heard>>

EnvelopeState == {"Idle", "Attack", "Sustain", "Release"}

TypeOK ==
  /\ active_mask \in BOOLEAN
  /\ env_state \in EnvelopeState
  /\ motion_needs_jump \in BOOLEAN
  /\ delay \in [Transducer -> HalfFrames]
  /\ delay_lines \in [Transducer -> Line]
  /\ tail_frames_remaining \in 0..(Size - 1)
  /\ heard \in [Transducer -> SUBSET Tap]

Init ==
  /\ active_mask = FALSE
  /\ env_state = "Idle"
  /\ motion_needs_jump = FALSE
  /\ delay = [t \in Transducer |-> 0]
  /\ delay_lines = [t \in Transducer |-> NewLine]
  /\ tail_frames_remaining = 0
  /\ heard = [t \in Transducer |-> {}]

IsActive == env_state # "Idle" \/ tail_frames_remaining > 0

-----------------------------------------------------------------------------
\* reset, then note_on: a fresh slot and a stolen one are prepared alike.
NoteOn ==
  /\ active_mask' = TRUE
  /\ delay_lines' = [t \in Transducer |-> Reset(delay_lines[t])]
  /\ env_state' = "Attack"
  /\ motion_needs_jump' = TRUE
  /\ tail_frames_remaining' = 0
  /\ UNCHANGED <<delay, heard>>

\* begin_release
NoteOff ==
  /\ env_state # "Idle"
  /\ env_state' = "Release"
  /\ UNCHANGED <<active_mask, motion_needs_jump, delay, delay_lines,
                 tail_frames_remaining, heard>>

\* step_envelope, with its ramps abstracted to "some frame ends them".
StepEnvelope ==
  env_state' \in CASE env_state = "Attack"  -> {"Attack", "Sustain"}
                   [] env_state = "Release" -> {"Release", "Idle"}
                   [] OTHER -> {env_state}

\* Faulty: the source follows its target without a speed limit.
FaultyMoveSource ==
  /\ delay' \in [Transducer -> HalfFrames]
  /\ motion_needs_jump' = FALSE

\* The motion controller places the source, or moves it below half of c; a
\* layout adopted since the last frame moves the transducers.
MoveSource ==
  /\ delay' \in [Transducer -> HalfFrames]
  /\ ~motion_needs_jump /\ ~LayoutMoves =>
       \A t \in Transducer : delay'[t] - delay[t] \in -1..1
  /\ motion_needs_jump' = FALSE

WholeFrames(d) == d \div 2

CeilFrames(d) == (d + 1) \div 2

LatestArrival(d) ==
  IF CeilFrames(d) + Taps + Half < Size - 1 THEN CeilFrames(d) + Taps + Half ELSE Size - 1

\* Faulty: the subtraction does not saturate.
FaultyRenewTail ==
  IF env_state' # "Idle"
  THEN \E t \in Transducer :
         /\ tail_frames_remaining' = LatestArrival(delay'[t])
         /\ \A u \in Transducer :
              LatestArrival(delay'[u]) <= tail_frames_remaining'
  ELSE tail_frames_remaining' = tail_frames_remaining - 1

\* The tail outlasts the arrivals of every transducer while the source
\* emits, and runs out once it has stopped.
RenewTail ==
  IF env_state' # "Idle"
  THEN \E t \in Transducer :
         /\ tail_frames_remaining' = LatestArrival(delay'[t])
         /\ \A u \in Transducer :
              LatestArrival(delay'[u]) <= tail_frames_remaining'
  ELSE tail_frames_remaining' =
         IF tail_frames_remaining > 0 THEN tail_frames_remaining - 1 ELSE 0

\* One frame of process_all for a slot whose voice still sounds.  Any frame
\* of an active source is taken to carry energy.
Process ==
  /\ active_mask /\ IsActive
  /\ StepEnvelope
  /\ MoveSource
  /\ \E written \in {[t \in Transducer |->
          Scatter(delay_lines[t], env_state' # "Idle", WholeFrames(delay'[t]))]} :
       /\ heard' = [t \in Transducer |-> Read(written[t])]
       /\ delay_lines' = [t \in Transducer |-> Consumed(written[t])]
  /\ RenewTail
  /\ UNCHANGED active_mask

\* process_all's other branch: the slot of a finished voice is given back.
Reap ==
  /\ active_mask /\ ~IsActive
  /\ active_mask' = FALSE
  /\ UNCHANGED <<env_state, motion_needs_jump, delay, delay_lines,
                 tail_frames_remaining, heard>>

\* reset_all
Panic ==
  /\ active_mask' = FALSE
  /\ delay_lines' = [t \in Transducer |-> Reset(delay_lines[t])]
  /\ env_state' = "Idle"
  /\ motion_needs_jump' = TRUE
  /\ tail_frames_remaining' = 0
  /\ UNCHANGED <<delay, heard>>

Next == NoteOn \/ NoteOff \/ Process \/ Reap \/ Panic

Spec == Init /\ [][Next]_vars

-----------------------------------------------------------------------------
(***************************************************************************)
(* Properties.                                                             *)
(***************************************************************************)
Arrivals == INSTANCE ArrivalSchedule
              WITH schedule <- [t \in Transducer |-> ScheduleOf(delay_lines[t])]

\* Every delay line delivers the arrivals its emissions scheduled, each in
\* its own frame, whatever an earlier voice left in the ring: lazily cleaned
\* cells, the wrapping pointer and the wrapping epoch are unobservable.
LinesKeepTheSchedule == Arrivals!Spec

\* A voice that no longer counts as active has nothing left to be heard:
\* is_active ends only after the last arrival at every transducer.
TailCoversArrivals ==
  ~IsActive => \A t \in Transducer : \A k \in Cell : ScheduleOf(delay_lines[t])[k] = {}
=============================================================================
