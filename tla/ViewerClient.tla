----------------------------- MODULE ViewerClient -----------------------------
(***************************************************************************)
(* The viewer as a client (haptic-viewer/src/main.rs): its UI thread, which*)
(* draws frame after frame and plays a test note, and its reader thread,   *)
(* which connects, reads the status and reconnects.  They share a writer   *)
(* behind a lock; the UI writes to the socket with the lock held.          *)
(*                                                                         *)
(* The server is an environment that keeps what haptic-server does for one *)
(* instance: it reads a frame and applies it, sheds what finds no place,   *)
(* tells the observer of its output, drops the connection, releases the    *)
(* notes of a dropped connection after a while, crashes and returns.       *)
(*                                                                         *)
(* The wave speed stands for all parameters of InstanceConfig, the note    *)
(* for note and velocity.  The user gives at most MaxInputs inputs; faults *)
(* of the server are at most MaxFaults.  Definitions named Faulty... are   *)
(* not part of the model: each is a bug that a property has to catch, next *)
(* to the definition it spoils.                                            *)
(***************************************************************************)
EXTENDS Naturals, Sequences

CONSTANTS
  Note, Speed,
  FirstNote, FirstSpeed,  \* TestControls::default()
  DefaultSpeed,   \* InstanceConfig::default(), another one
  None,
  SocketFrames,   \* frames the socket buffers in each direction
  MaxInputs,      \* bound on the inputs of the user
  MaxFaults,      \* bound on the crashes and drops
  UiMayStall      \* may a disconnection pass that no frame of the UI sees?

ASSUME ViewerAssumption ==
  /\ {DefaultSpeed, FirstSpeed} \subseteq Speed /\ FirstNote \in Note
  /\ None \notin Note \cup Speed
  /\ SocketFrames \in Nat \ {0} /\ MaxInputs \in Nat /\ MaxFaults \in Nat
  /\ UiMayStall \in BOOLEAN

StimulusType == {"Wave", "TravellingWave"}
Sliders == [note: Note, stimulus_type: StimulusType, wave_speed: Speed]

Command ==
  [kind: {"Hello", "MpeUpdate", "MonitorRoute"}, value: {None}]
    \cup [kind: {"NoteOn", "NoteOff"}, value: Note]
    \cup [kind: {"SetSpeed"}, value: Speed]
    \cup [kind: {"SetType"}, value: StimulusType]

Cmd(kind, value) == [kind |-> kind, value |-> value]

VARIABLES
  \* the UI thread
  ui,               \* "idle", then "controls", "table", "retrigger", "live", "end"
  saw,              \* the connected of this frame's snapshot
  pointer_down,
  todo,             \* commands this step of the frame still has to send
  holding,          \* it writes to the socket with the lock held
  test,             \* the sliders of TestControls
  playing,
  sounding_params,
  last_live_config,
  inputs,           \* inputs so far (not in the code)
  \* Shared
  connected,
  writer,           \* is there a writer?
  \* the reader thread
  reader,           \* "dialling", "greeting", "reading", "asleep"
  frame_seen,       \* a frame since it fell asleep: "none", "begun", "over"
  \* the connection, and the server's view of it
  link,             \* "none", "open", "closed" by the server
  inbox,            \* commands the server has not read
  status,           \* messages the reader has not read
  up,               \* the server runs
  session,          \* its registration: "none", "mine", "old" until cleaned up
  engine,           \* the instance's configuration and held voices
  shed,             \* a command of this session was shed (not in the code)
  faults            \* faults so far (not in the code)

uiVars == <<ui, saw, pointer_down, test, playing, sounding_params,
            last_live_config, inputs>>
sendVars == <<todo, holding>>
serverVars == <<up, session, engine, shed, faults>>
vars == <<uiVars, sendVars, connected, writer, reader, frame_seen, link, inbox,
          status, serverVars>>

Voice == [note: Note, stimulus_type: StimulusType, wave_speed: Speed]
Engine == [stimulus_type: StimulusType, wave_speed: Speed, voices: SUBSET Voice]

FreshEngine == [stimulus_type |-> "Wave", wave_speed |-> DefaultSpeed, voices |-> {}]

\* What a change has to be retriggered for: a Wave note keeps its speed.
Desired(t) ==
  <<t.note, t.stimulus_type, IF t.stimulus_type = "Wave" THEN t.wave_speed ELSE None>>

TypeOK ==
  /\ ui \in {"idle", "controls", "table", "retrigger", "live", "end"}
  /\ saw \in BOOLEAN /\ pointer_down \in BOOLEAN
  /\ todo \in Seq(Command) /\ holding \in BOOLEAN
  /\ holding => writer /\ todo # <<>> /\ ui # "idle"
  /\ test \in Sliders /\ playing \in Note \cup {None}
  /\ sounding_params \in Note \X StimulusType \X (Speed \cup {None})
  /\ last_live_config \in Speed
  /\ inputs \in 0..MaxInputs
  /\ connected \in BOOLEAN /\ writer \in BOOLEAN
  /\ writer => connected
  /\ reader \in {"dialling", "greeting", "reading", "asleep"}
  /\ frame_seen \in {"none", "begun", "over"}
  /\ link \in {"none", "open", "closed"}
  /\ inbox \in Seq(Command) /\ Len(inbox) <= SocketFrames
  /\ status \in Seq({"HelloAccepted", "OutputState"}) /\ Len(status) <= SocketFrames
  /\ up \in BOOLEAN /\ session \in {"none", "mine", "old"}
  /\ engine \in Engine
  /\ shed \in BOOLEAN /\ faults \in 0..MaxFaults

Init ==
  /\ ui = "idle" /\ saw = FALSE /\ pointer_down = FALSE
  /\ todo = <<>> /\ holding = FALSE
  /\ test = [note |-> FirstNote, stimulus_type |-> "Wave", wave_speed |-> FirstSpeed]
  /\ playing = None
  /\ sounding_params = Desired(test) /\ last_live_config = FirstSpeed
  /\ inputs = 0
  /\ connected = FALSE /\ writer = FALSE
  /\ reader = "dialling" /\ frame_seen = "none"
  /\ link = "none" /\ inbox = <<>> /\ status = <<>>
  /\ up \in BOOLEAN /\ session = "none" /\ engine = FreshEngine
  /\ shed = FALSE /\ faults = 0

-----------------------------------------------------------------------------
(***************************************************************************)
(* The UI thread: update() and the TestControls.                           *)
(***************************************************************************)
stopCommands == IF playing = None THEN <<>> ELSE <<Cmd("NoteOff", playing)>>

\* send_config, the stimulus type, the note.
startCommands == <<Cmd("SetSpeed", test.wave_speed),
                   Cmd("SetType", test.stimulus_type), Cmd("NoteOn", test.note)>>

Elsewhere == <<connected, writer, reader, link, inbox, status, serverVars>>

\* The snapshot a frame is drawn from.
BeginFrame ==
  /\ ui = "idle" /\ ui' = "controls"
  /\ saw' = connected
  /\ pointer_down' \in BOOLEAN
  /\ frame_seen' = IF reader = "asleep" /\ frame_seen = "none" THEN "begun"
                   ELSE frame_seen
  /\ UNCHANGED <<sendVars, test, playing, sounding_params, last_live_config,
                 inputs, Elsewhere>>

Input == inputs < MaxInputs /\ inputs' = inputs + 1

PressStop ==
  /\ playing # None
  /\ todo' = stopCommands /\ playing' = None
  /\ UNCHANGED <<test, sounding_params>>

PressStart ==
  /\ playing = None
  /\ todo' = startCommands /\ playing' = test.note
  /\ sounding_params' = Desired(test)
  /\ UNCHANGED test

MoveSliders ==
  /\ test' \in Sliders \ {test}
  /\ UNCHANGED <<playing, sounding_params, todo>>

\* The controls are disabled in a frame that began disconnected.
Controls ==
  /\ ui = "controls" /\ ui' = "table"
  /\ \/ saw /\ Input /\ (PressStop \/ PressStart \/ MoveSliders)
     \/ UNCHANGED <<inputs, test, playing, sounding_params, todo>>
  /\ UNCHANGED <<saw, pointer_down, last_live_config, holding, frame_seen, Elsewhere>>

\* The table is not: a route can be dropped on it, or the source dragged.
Table ==
  /\ ui = "table" /\ todo = <<>> /\ ui' = "retrigger"
  /\ \/ Input /\ todo' = <<Cmd("MonitorRoute", None)>>
     \/ Input /\ playing # None /\ todo' = <<Cmd("MpeUpdate", None)>>
     \/ UNCHANGED <<inputs, todo>>
  /\ UNCHANGED <<saw, pointer_down, test, playing, sounding_params,
                 last_live_config, holding, frame_seen, Elsewhere>>

Retrigger ==
  /\ ui = "retrigger" /\ todo = <<>> /\ ui' = "live"
  /\ IF playing # None /\ Desired(test) # sounding_params /\ ~pointer_down
     THEN /\ todo' = stopCommands \o startCommands
          /\ playing' = test.note /\ sounding_params' = Desired(test)
     ELSE UNCHANGED <<todo, playing, sounding_params>>
  /\ UNCHANGED <<saw, pointer_down, test, last_live_config, inputs, holding,
                 frame_seen, Elsewhere>>

LiveConfig ==
  /\ ui = "live" /\ todo = <<>> /\ ui' = "end"
  /\ todo' = IF test.wave_speed # last_live_config
             THEN <<Cmd("SetSpeed", test.wave_speed)>> ELSE <<>>
  /\ last_live_config' = test.wave_speed
  /\ UNCHANGED <<saw, pointer_down, test, playing, sounding_params, inputs,
                 holding, frame_seen, Elsewhere>>

\* Faulty: a frame that began disconnected keeps the note it plays.
FaultyEndFrame ==
  /\ ui = "end" /\ todo = <<>> /\ ui' = "idle"
  /\ frame_seen' = IF frame_seen = "begun" THEN "over" ELSE frame_seen
  /\ UNCHANGED <<saw, pointer_down, test, playing, sounding_params,
                 last_live_config, inputs, sendVars, Elsewhere>>

EndFrame ==
  /\ ui = "end" /\ todo = <<>> /\ ui' = "idle"
  /\ playing' = IF saw THEN playing ELSE None
  /\ frame_seen' = IF frame_seen = "begun" THEN "over" ELSE frame_seen
  /\ UNCHANGED <<saw, pointer_down, test, sounding_params, last_live_config,
                 inputs, sendVars, Elsewhere>>

\* send_command: without a writer the command is dropped.
TakeLock ==
  /\ todo # <<>> /\ ~holding
  /\ IF writer THEN holding' = TRUE /\ UNCHANGED todo
     ELSE todo' = Tail(todo) /\ UNCHANGED holding
  /\ UNCHANGED <<uiVars, frame_seen, Elsewhere>>

\* write_all blocks while the socket is full and fails when the other end is gone.
WriteFrame ==
  /\ holding
  /\ \/ /\ link = "open" /\ Len(inbox) < SocketFrames
        /\ inbox' = Append(inbox, Head(todo)) /\ UNCHANGED writer
     \/ link # "open" /\ writer' = FALSE /\ UNCHANGED inbox
  /\ todo' = Tail(todo) /\ holding' = FALSE
  /\ UNCHANGED <<uiVars, connected, reader, frame_seen, link, status, serverVars>>

Ui == BeginFrame \/ Controls \/ Table \/ Retrigger \/ LiveConfig \/ EndFrame
        \/ TakeLock \/ WriteFrame

-----------------------------------------------------------------------------
(***************************************************************************)
(* The reader thread.                                                      *)
(***************************************************************************)
Connect ==
  /\ reader = "dialling" /\ up
  /\ reader' = "greeting" /\ link' = "open" /\ inbox' = <<>> /\ status' = <<>>
  /\ UNCHANGED <<uiVars, sendVars, connected, writer, frame_seen, serverVars>>

SendHello ==
  /\ reader = "greeting"
  /\ IF link = "open"
     THEN /\ inbox' = Append(inbox, Cmd("Hello", None)) /\ reader' = "reading"
          /\ UNCHANGED frame_seen
     ELSE reader' = "asleep" /\ frame_seen' = "none" /\ UNCHANGED inbox
  /\ UNCHANGED <<uiVars, sendVars, connected, writer, link, status, serverVars>>

ReadStatus ==
  /\ reader = "reading" /\ status # <<>> /\ ~holding
  /\ status' = Tail(status)
  /\ IF Head(status) = "HelloAccepted"
     THEN connected' = TRUE /\ writer' = TRUE
     ELSE UNCHANGED <<connected, writer>>
  /\ UNCHANGED <<uiVars, sendVars, reader, frame_seen, link, inbox, serverVars>>

\* Faulty: the end of the connection is noted without the lock.
FaultyReadEnd ==
  /\ reader = "reading" /\ link = "closed"
  /\ connected' = FALSE /\ writer' = FALSE
  /\ reader' = "asleep" /\ frame_seen' = "none"
  /\ UNCHANGED <<uiVars, sendVars, link, inbox, status, serverVars>>

\* End of stream, or a reset that loses what is unread.
ReadEnd ==
  /\ reader = "reading" /\ link = "closed" /\ ~holding
  /\ connected' = FALSE /\ writer' = FALSE
  /\ reader' = "asleep" /\ frame_seen' = "none"
  /\ UNCHANGED <<uiVars, sendVars, link, inbox, status, serverVars>>

\* The thread sleeps for half a second, long enough for a frame of the UI
\* from its beginning to its end, unless the UI stalls.
WakeUp ==
  /\ reader = "asleep"
  /\ UiMayStall \/ frame_seen = "over"
  /\ reader' = "dialling" /\ link' = "none"
  /\ UNCHANGED <<uiVars, sendVars, connected, writer, frame_seen, inbox, status,
                 serverVars>>

Reader == Connect \/ SendHello \/ ReadStatus \/ ReadEnd \/ WakeUp

-----------------------------------------------------------------------------
(***************************************************************************)
(* The server, for this one instance.                                      *)
(***************************************************************************)
Viewer == <<uiVars, sendVars, connected, writer, reader, frame_seen>>

\* What a command does to the instance.
Applied(e, cmd) ==
  CASE cmd.kind = "SetSpeed" ->
         [e EXCEPT !.wave_speed = cmd.value,
                   !.voices = {IF v.stimulus_type = "Wave" THEN v
                               ELSE [v EXCEPT !.wave_speed = cmd.value] : v \in @}]
    [] cmd.kind = "SetType" -> [e EXCEPT !.stimulus_type = cmd.value]
    [] cmd.kind = "NoteOn"  ->
         [e EXCEPT !.voices = @ \cup {[note |-> cmd.value,
                                       stimulus_type |-> e.stimulus_type,
                                       wave_speed |-> e.wave_speed]}]
    [] cmd.kind = "NoteOff" -> [e EXCEPT !.voices = {v \in @ : v.note # cmd.value}]
    [] OTHER -> e

\* A Hello is accepted unless the id is still reserved for a lost connection.
ReadHello ==
  /\ link = "open" /\ inbox # <<>> /\ Head(inbox).kind = "Hello"
  /\ inbox' = Tail(inbox)
  /\ IF session = "none"
     THEN /\ session' = "mine" /\ engine' = FreshEngine /\ shed' = FALSE
          /\ status' = Append(status, "HelloAccepted") /\ UNCHANGED link
     ELSE link' = "closed" /\ UNCHANGED <<session, engine, shed, status>>
  /\ UNCHANGED <<Viewer, up, faults>>

\* Faulty: the server writes its status before it reads on, and waits for room.
FaultyReadCommand ==
  /\ link = "open" /\ inbox # <<>> /\ session = "mine"
  /\ Len(status) < SocketFrames
  /\ inbox' = Tail(inbox) /\ engine' = Applied(engine, Head(inbox))
  /\ UNCHANGED <<Viewer, link, status, up, session, shed, faults>>

\* The loop reads a connection whatever the state of its status output.
ReadCommand ==
  /\ link = "open" /\ inbox # <<>> /\ session = "mine"
  /\ inbox' = Tail(inbox) /\ engine' = Applied(engine, Head(inbox))
  /\ UNCHANGED <<Viewer, link, status, up, session, shed, faults>>

\* At the reserve, or, a NoteOff, in a full ring: the connection stays.
ShedCommand ==
  /\ link = "open" /\ inbox # <<>> /\ session = "mine"
  /\ inbox' = Tail(inbox) /\ shed' = TRUE
  /\ UNCHANGED <<Viewer, link, status, up, session, engine, faults>>

TellOutput ==
  /\ link = "open" /\ session = "mine" /\ Len(status) < SocketFrames
  /\ status' = Append(status, "OutputState")
  /\ UNCHANGED <<Viewer, link, inbox, serverVars>>

Fault == faults < MaxFaults /\ faults' = faults + 1

\* A full status backlog, an invalid frame, a failed write.
DropClient ==
  /\ Fault /\ link = "open"
  /\ link' = "closed"
  /\ session' = IF session = "mine" THEN "old" ELSE session
  /\ UNCHANGED <<Viewer, inbox, status, up, engine, shed>>

\* The DisconnectInstance owed for a dropped connection is applied.
CleanUp ==
  /\ session = "old"
  /\ session' = "none" /\ engine' = FreshEngine
  /\ UNCHANGED <<Viewer, link, inbox, status, up, shed, faults>>

Crash ==
  /\ Fault /\ up /\ up' = FALSE
  /\ link' = IF link = "open" THEN "closed" ELSE link
  /\ session' = "none" /\ engine' = FreshEngine
  /\ UNCHANGED <<Viewer, inbox, status, shed>>

Start ==
  /\ ~up /\ up' = TRUE
  /\ UNCHANGED <<Viewer, link, inbox, status, session, engine, shed, faults>>

ServerReads == ReadHello \/ ReadCommand

Server == ServerReads \/ ShedCommand \/ TellOutput \/ DropClient \/ CleanUp
            \/ Crash \/ Start

Next == Ui \/ Reader \/ Server

Spec == Init /\ [][Next]_vars

\* The UI repaints continuously, the reader's waits end, and a server that runs
\* reads its connections and cleans up; nothing makes it start.
FairSpec ==
  Spec /\ WF_vars(Ui) /\ WF_vars(Reader) /\ WF_vars(ServerReads) /\ WF_vars(CleanUp)

-----------------------------------------------------------------------------
(***************************************************************************)
(* Properties.                                                             *)
(***************************************************************************)
\* Between two frames, on a connection that stands and lost no command.
Settled ==
  /\ ui = "idle" /\ connected /\ writer
  /\ link = "open" /\ session = "mine" /\ ~shed

\* What a sequence of commands does to an engine, one after the other.
After(e, cmds) ==
  LET after[k \in 0..Len(cmds)] ==
        IF k = 0 THEN e ELSE Applied(after[k - 1], cmds[k])
  IN  after[Len(cmds)]

\* What the engine will have once the socket is read.
Heard == After(engine, inbox).voices

\* What sounds is what the controls show: no test note is left sounding, and a
\* note that plays has the note, type and speed of the sliders once the pointer
\* is up, over retriggers, live updates, lost connections and restarts.
SoundsAsShown ==
  Settled =>
    /\ playing = None => Heard = {}
    /\ playing # None /\ ~pointer_down => Heard = {test}

\* The viewer never freezes: its frames go on although it writes under the lock
\* its reader needs, and once a server stays up the viewer stays connected.
ViewerStaysAlive ==
  /\ []<>(ui = "idle")
  /\ <>[]up => <>[]connected
=============================================================================
