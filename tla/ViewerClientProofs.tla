-------------------------- MODULE ViewerClientProofs --------------------------
(***************************************************************************)
(* Type correctness of the viewer and its connection, with what it rests   *)
(* on: nothing is written before the Hello has been accepted, so a Hello   *)
(* is alone in its socket and its acknowledgement finds room; and the UI   *)
(* holds the lock only while it has a writer and something to write.  Then *)
(* SoundsAsShown, from an account of all that is on its way to the engine: *)
(* what the server will have once it has read the socket and what the UI   *)
(* is about to write is at every moment what the UI remembers to have sent.*)
(***************************************************************************)
EXTENDS ViewerClient, WellFoundedInduction, TLAPS

\* A Hello the server has not read is alone on a fresh connection.
HelloAlone ==
  \A k \in DOMAIN inbox : inbox[k].kind = "Hello" =>
    Len(inbox) = 1 /\ status = <<>> /\ ~writer /\ session # "mine"

UiCommand == {cmd \in Command : cmd.kind # "Hello"}

GreetInv ==
  /\ reader # "reading" => ~writer /\ ~connected
  /\ link = "open" => reader \in {"greeting", "reading"}
  /\ reader = "greeting" => inbox = <<>> /\ status = <<>>
  /\ session = "mine" => link = "open" /\ reader = "reading"
  /\ todo \in Seq(UiCommand)
  /\ ui \in {"idle", "controls"} => todo = <<>>
  /\ HelloAlone

TypeInv == TypeOK /\ GreetInv

\* The commands the UI sends are commands.
LEMMA CommandsTyped ==
  ASSUME TypeOK
  PROVE  /\ stopCommands \in Seq(UiCommand) /\ startCommands \in Seq(UiCommand)
         /\ Desired(test) \in Note \X StimulusType \X (Speed \cup {None})
         /\ <<Cmd("MonitorRoute", None)>> \in Seq(UiCommand)
         /\ <<Cmd("MpeUpdate", None)>> \in Seq(UiCommand)
         /\ <<Cmd("SetSpeed", test.wave_speed)>> \in Seq(UiCommand)
         /\ Cmd("Hello", None) \in Command
<1>1. /\ test \in Sliders /\ playing \in Note \cup {None}
      /\ \A n \in Note : Cmd("NoteOn", n) \in UiCommand /\ Cmd("NoteOff", n) \in UiCommand
      /\ \A s \in Speed : Cmd("SetSpeed", s) \in UiCommand
      /\ \A t \in StimulusType : Cmd("SetType", t) \in UiCommand
      /\ \A k \in {"MpeUpdate", "MonitorRoute"} : Cmd(k, None) \in UiCommand
      /\ Cmd("Hello", None) \in Command
  BY DEF TypeOK, Cmd, Command, UiCommand
<1>2. test.note \in Note /\ test.stimulus_type \in StimulusType /\ test.wave_speed \in Speed
  BY <1>1 DEF Sliders
<1>3. stopCommands \in Seq(UiCommand)
  BY <1>1 DEF stopCommands
<1>4. startCommands \in Seq(UiCommand)
  BY <1>1, <1>2 DEF startCommands
<1>5. Desired(test) \in Note \X StimulusType \X (Speed \cup {None})
  BY <1>2 DEF Desired
<1> QED BY <1>1, <1>2, <1>3, <1>4, <1>5

LEMMA TypeInit == Init => TypeInv
<1> SUFFICES ASSUME Init PROVE TypeInv
  OBVIOUS
<1>1. test \in Sliders
  BY ViewerAssumption DEF Init, Sliders, StimulusType
<1>2. sounding_params \in Note \X StimulusType \X (Speed \cup {None})
  BY <1>1 DEF Init, Desired, Sliders
<1>3. FreshEngine \in Engine /\ engine = FreshEngine
  BY ViewerAssumption DEF Init, Engine, FreshEngine, StimulusType
<1>4. TypeOK
  <2>1. 0 \in 0..MaxInputs /\ 0 \in 0..MaxFaults /\ FirstSpeed \in Speed /\ SocketFrames >= 0
    BY ViewerAssumption
  <2>2. <<>> \in Seq(Command) /\ <<>> \in Seq({"HelloAccepted", "OutputState"}) /\ Len(<<>>) = 0
    OBVIOUS
  <2>3. /\ todo \in Seq(Command) /\ inbox \in Seq(Command) /\ Len(inbox) <= SocketFrames
        /\ status \in Seq({"HelloAccepted", "OutputState"}) /\ Len(status) <= SocketFrames
    BY <2>1, <2>2 DEF Init
  <2>4. /\ inputs \in 0..MaxInputs /\ faults \in 0..MaxFaults
        /\ last_live_config \in Speed /\ playing \in Note \cup {None}
    BY <2>1 DEF Init
  <2>5. /\ ui = "idle" /\ saw = FALSE /\ pointer_down = FALSE /\ holding = FALSE
        /\ connected = FALSE /\ writer = FALSE /\ shed = FALSE /\ up \in BOOLEAN
        /\ reader = "dialling" /\ frame_seen = "none" /\ link = "none" /\ session = "none"
    BY DEF Init
  <2> QED BY <1>1, <1>2, <1>3, <2>3, <2>4, <2>5 DEF TypeOK
<1>5. GreetInv
  BY DEF Init, GreetInv, HelloAlone
<1> QED BY <1>4, <1>5 DEF TypeInv

\* The frame of the UI.
LEMMA UiTyped == TypeInv /\ Ui => TypeInv'
<1> SUFFICES ASSUME TypeInv, Ui PROVE TypeInv'
  OBVIOUS
<1>0. TypeOK /\ GreetInv
  BY DEF TypeInv
<1>a. Seq(UiCommand) \subseteq Seq(Command) /\ UiCommand \subseteq Command
  BY DEF UiCommand
<1> USE <1>a DEF GreetInv, HelloAlone
<1>1. CASE BeginFrame
  BY <1>0, <1>1 DEF BeginFrame, TypeOK, TypeInv, sendVars, Elsewhere, serverVars
<1>2. CASE Controls
  <2>1. /\ UNCHANGED <<saw, pointer_down, last_live_config, holding, frame_seen, Elsewhere>>
        /\ ui = "controls" /\ ui' = "table" /\ todo = <<>> /\ ~holding
    BY <1>0, <1>2 DEF Controls, TypeOK
  <2>2. /\ test' \in Sliders /\ playing' \in Note \cup {None}
        /\ sounding_params' \in Note \X StimulusType \X (Speed \cup {None})
        /\ todo' \in Seq(UiCommand) /\ inputs' \in 0..MaxInputs
    <3>1. CASE UNCHANGED <<inputs, test, playing, sounding_params, todo>>
      BY <1>0, <3>1 DEF TypeOK
    <3>2. CASE Input /\ PressStop
      BY <1>0, <3>2, CommandsTyped, ViewerAssumption DEF TypeOK, Input, PressStop
    <3>3. CASE Input /\ PressStart
      <4>1. playing' \in Note
        BY <1>0, <3>3 DEF TypeOK, Sliders, PressStart
      <4> QED BY <1>0, <3>3, <4>1, CommandsTyped, ViewerAssumption DEF TypeOK, Input, PressStart
    <3>4. CASE Input /\ MoveSliders
      BY <1>0, <3>4, ViewerAssumption DEF TypeOK, Input, MoveSliders
    <3> QED BY <1>2, <3>1, <3>2, <3>3, <3>4 DEF Controls
  <2>3. TypeOK'
    BY <1>0, <2>1, <2>2 DEF TypeOK, Elsewhere, serverVars
  <2>4. GreetInv'
    BY <1>0, <2>1, <2>2 DEF Elsewhere, serverVars
  <2> QED BY <2>3, <2>4 DEF TypeInv
<1>3. CASE Table
  <2>1. /\ UNCHANGED <<saw, pointer_down, test, playing, sounding_params,
                       last_live_config, holding, frame_seen, Elsewhere>>
        /\ ui' = "retrigger" /\ ~holding
    BY <1>0, <1>3 DEF Table, TypeOK
  <2>2. todo' \in Seq(UiCommand) /\ inputs' \in 0..MaxInputs
    <3>1. CASE UNCHANGED <<inputs, todo>>
      BY <1>0, <3>1 DEF TypeOK
    <3>2. CASE /\ Input
               /\ \/ todo' = <<Cmd("MonitorRoute", None)>>
                  \/ todo' = <<Cmd("MpeUpdate", None)>>
      <4>1. inputs' \in 0..MaxInputs
        BY <1>0, <3>2, ViewerAssumption DEF TypeOK, Input
      <4> QED BY <1>0, <3>2, <4>1, CommandsTyped
    <3> QED BY <1>3, <3>1, <3>2 DEF Table
  <2>3. TypeOK'
    BY <1>0, <2>1, <2>2 DEF TypeOK, Elsewhere, serverVars
  <2>4. GreetInv'
    BY <1>0, <2>1, <2>2 DEF Elsewhere, serverVars
  <2> QED BY <2>3, <2>4 DEF TypeInv
<1>4. CASE Retrigger
  <2>1. /\ UNCHANGED <<saw, pointer_down, test, last_live_config, inputs, holding,
                       frame_seen, Elsewhere>>
        /\ ui' = "live" /\ ~holding
    BY <1>0, <1>4 DEF Retrigger, TypeOK
  <2>2. /\ todo' \in Seq(UiCommand) /\ playing' \in Note \cup {None}
        /\ sounding_params' \in Note \X StimulusType \X (Speed \cup {None})
    <3>1. CASE UNCHANGED <<todo, playing, sounding_params>>
      BY <1>0, <3>1 DEF TypeOK
    <3>2. CASE /\ todo' = stopCommands \o startCommands
               /\ playing' = test.note /\ sounding_params' = Desired(test)
      <4>1. playing' \in Note
        BY <1>0, <3>2 DEF TypeOK, Sliders
      <4>2. stopCommands \o startCommands \in Seq(UiCommand)
        BY <1>0, CommandsTyped
      <4> QED BY <1>0, <3>2, <4>1, <4>2, CommandsTyped
    <3> QED BY <1>4, <3>1, <3>2 DEF Retrigger
  <2>3. TypeOK'
    BY <1>0, <2>1, <2>2 DEF TypeOK, Elsewhere, serverVars
  <2>4. GreetInv'
    BY <1>0, <2>1, <2>2 DEF Elsewhere, serverVars
  <2> QED BY <2>3, <2>4 DEF TypeInv
<1>5. CASE LiveConfig
  <2>1. /\ UNCHANGED <<saw, pointer_down, test, playing, sounding_params, inputs,
                       holding, frame_seen, Elsewhere>>
        /\ ui' = "end" /\ ~holding
    BY <1>0, <1>5 DEF LiveConfig, TypeOK
  <2>2. todo' \in Seq(UiCommand) /\ last_live_config' \in Speed
    BY <1>0, <1>5, CommandsTyped DEF LiveConfig, TypeOK, Sliders
  <2>3. TypeOK'
    BY <1>0, <2>1, <2>2 DEF TypeOK, Elsewhere, serverVars
  <2>4. GreetInv'
    BY <1>0, <2>1, <2>2 DEF Elsewhere, serverVars
  <2> QED BY <2>3, <2>4 DEF TypeInv
<1>6. CASE EndFrame
  BY <1>0, <1>6 DEF EndFrame, TypeOK, TypeInv, sendVars, Elsewhere, serverVars
<1>7. CASE TakeLock
  <2>1. /\ todo' \in Seq(UiCommand) /\ ui \notin {"idle", "controls"}
        /\ holding' => writer /\ todo' # <<>>
        /\ holding' \in BOOLEAN
    <3>1. CASE writer
      BY <1>0, <1>7, <3>1 DEF TakeLock, TypeOK
    <3>2. CASE ~writer
      <4>1. todo # <<>> /\ todo' = Tail(todo) /\ ~holding /\ holding' = holding
        BY <1>7, <3>2 DEF TakeLock
      <4>2. Tail(todo) \in Seq(UiCommand) /\ ui \notin {"idle", "controls"}
        BY <1>0, <4>1
      <4>3. ~holding' /\ holding' \in BOOLEAN
        BY <1>0, <4>1 DEF TypeOK
      <4> QED BY <4>1, <4>2, <4>3
    <3> QED BY <3>1, <3>2
  <2>2. UNCHANGED <<uiVars, frame_seen, Elsewhere>>
    BY <1>7 DEF TakeLock
  <2>3. TypeOK'
    BY <1>0, <2>1, <2>2 DEF TypeOK, uiVars, Elsewhere, serverVars
  <2>4. GreetInv'
    BY <1>0, <2>1, <2>2 DEF uiVars, Elsewhere, serverVars
  <2> QED BY <2>3, <2>4 DEF TypeInv
<1>8. CASE WriteFrame
  <2>1. /\ todo' \in Seq(UiCommand) /\ Head(todo) \in UiCommand /\ writer /\ ~holding'
        /\ ui \notin {"idle", "controls"}
    BY <1>0, <1>8 DEF WriteFrame, TypeOK
  <2>2. CASE link = "open" /\ Len(inbox) < SocketFrames
             /\ inbox' = Append(inbox, Head(todo)) /\ UNCHANGED writer
    <3>1. inbox' \in Seq(Command) /\ Len(inbox') <= SocketFrames
      BY <1>0, <2>1, <2>2, ViewerAssumption DEF TypeOK
    <3>2. \A k \in DOMAIN inbox' : inbox'[k].kind # "Hello"
      BY <1>0, <2>1, <2>2 DEF TypeOK, UiCommand
    <3>3. TypeOK'
      BY <1>0, <1>8, <2>1, <2>2, <3>1 DEF WriteFrame, TypeOK, uiVars, serverVars
    <3>4. GreetInv'
      BY <1>0, <1>8, <2>1, <2>2, <3>2 DEF WriteFrame, uiVars, serverVars, TypeOK
    <3> QED BY <3>3, <3>4 DEF TypeInv
  <2>3. CASE link # "open" /\ writer' = FALSE /\ UNCHANGED inbox
    <3>1. /\ UNCHANGED <<uiVars, connected, reader, frame_seen, link, status, serverVars>>
          /\ writer' = FALSE /\ UNCHANGED inbox /\ holding' = FALSE
      BY <1>8, <2>3 DEF WriteFrame
    <3>2. TypeOK'
      <4>1. ~writer' /\ ~holding' /\ writer' \in BOOLEAN /\ holding' \in BOOLEAN
        BY <3>1
      <4> QED BY <1>0, <2>1, <3>1, <4>1 DEF TypeOK, uiVars, serverVars
    <3>3. GreetInv'
      BY <1>0, <2>1, <3>1 DEF uiVars, serverVars
    <3> QED BY <3>2, <3>3 DEF TypeInv
  <2> QED BY <1>8, <2>2, <2>3 DEF WriteFrame
<1> QED BY <1>1, <1>2, <1>3, <1>4, <1>5, <1>6, <1>7, <1>8 DEF Ui

\* The reader thread.
LEMMA ReaderTyped == TypeInv /\ Reader => TypeInv'
<1> SUFFICES ASSUME TypeInv, Reader PROVE TypeInv'
  OBVIOUS
<1>0. TypeOK /\ GreetInv
  BY DEF TypeInv
<1> USE DEF GreetInv, HelloAlone
<1>1. CASE Connect
  <2>1. /\ UNCHANGED <<uiVars, sendVars, connected, writer, frame_seen, serverVars>>
        /\ reader' = "greeting" /\ link' = "open" /\ inbox' = <<>> /\ status' = <<>>
        /\ reader = "dialling"
    BY <1>1 DEF Connect
  <2>2. TypeOK'
    <3>1. /\ inbox' \in Seq(Command) /\ Len(inbox') = 0
          /\ status' \in Seq({"HelloAccepted", "OutputState"}) /\ Len(status') = 0
          /\ 0 <= SocketFrames
      BY <2>1, ViewerAssumption
    <3> QED BY <1>0, <2>1, <3>1 DEF TypeOK, uiVars, sendVars, serverVars
  <2>3. GreetInv'
    BY <1>0, <2>1 DEF uiVars, sendVars, serverVars
  <2> QED BY <2>2, <2>3 DEF TypeInv
<1>2. CASE SendHello
  <2>1. /\ UNCHANGED <<uiVars, sendVars, connected, writer, link, status, serverVars>>
        /\ reader = "greeting" /\ inbox = <<>> /\ status = <<>>
        /\ ~writer /\ ~connected /\ session # "mine"
    BY <1>0, <1>2 DEF SendHello
  <2>2. CASE link = "open"
    <3>1. /\ inbox' = <<Cmd("Hello", None)>> /\ reader' = "reading" /\ UNCHANGED frame_seen
      BY <1>2, <2>1, <2>2 DEF SendHello
    <3>2. /\ inbox' \in Seq(Command) /\ Len(inbox') = 1 /\ 1 <= SocketFrames
      BY <1>0, <3>1, CommandsTyped, ViewerAssumption
    <3>3. TypeOK'
      BY <1>0, <2>1, <3>1, <3>2 DEF TypeOK, uiVars, sendVars, serverVars
    <3>4. GreetInv'
      BY <1>0, <2>1, <2>2, <3>1, <3>2 DEF uiVars, sendVars, serverVars
    <3> QED BY <3>3, <3>4 DEF TypeInv
  <2>3. CASE link # "open"
    <3>1. reader' = "asleep" /\ frame_seen' = "none" /\ UNCHANGED inbox
      BY <1>2, <2>3 DEF SendHello
    <3>2. TypeOK'
      BY <1>0, <2>1, <3>1 DEF TypeOK, uiVars, sendVars, serverVars
    <3>3. GreetInv'
      BY <1>0, <2>1, <2>3, <3>1 DEF uiVars, sendVars, serverVars
    <3> QED BY <3>2, <3>3 DEF TypeInv
  <2> QED BY <2>2, <2>3
<1>3. CASE ReadStatus
  <2>1. /\ UNCHANGED <<uiVars, sendVars, reader, frame_seen, link, inbox, serverVars>>
        /\ reader = "reading" /\ status # <<>> /\ status' = Tail(status) /\ ~holding
    BY <1>3 DEF ReadStatus
  <2>2. /\ status' \in Seq({"HelloAccepted", "OutputState"}) /\ Len(status') <= SocketFrames
    BY <1>0, <2>1, ViewerAssumption DEF TypeOK
  <2>3. \/ connected' = TRUE /\ writer' = TRUE
        \/ UNCHANGED <<connected, writer>>
    BY <1>3 DEF ReadStatus
  <2>4. TypeOK'
    <3>1. ~holding' /\ holding' \in BOOLEAN
      BY <1>0, <2>1 DEF TypeOK, sendVars
    <3>2. /\ UNCHANGED <<ui, saw, pointer_down, todo, test, playing, sounding_params,
                         last_live_config, inputs, reader, frame_seen, link, inbox>>
          /\ UNCHANGED <<up, session, engine, shed, faults>>
      BY <2>1 DEF uiVars, sendVars, serverVars
    <3>3. CASE connected' = TRUE /\ writer' = TRUE
      BY <1>0, <2>2, <3>1, <3>2, <3>3 DEF TypeOK
    <3>4. CASE UNCHANGED <<connected, writer>>
      BY <1>0, <2>2, <3>1, <3>2, <3>4 DEF TypeOK
    <3> QED BY <2>3, <3>3, <3>4
  <2>5. \A k \in DOMAIN inbox : inbox[k].kind # "Hello"
    <3>1. status # <<>>
      BY <2>1
    <3>2. \A k \in DOMAIN inbox : inbox[k].kind = "Hello" => status = <<>>
      BY <1>0
    <3> QED BY <3>1, <3>2
  <2>6. GreetInv'
    BY <1>0, <2>1, <2>5 DEF uiVars, sendVars, serverVars
  <2> QED BY <2>4, <2>6 DEF TypeInv
<1>4. CASE ReadEnd
  <2>1. /\ UNCHANGED <<uiVars, sendVars, link, inbox, status, serverVars>>
        /\ reader' = "asleep" /\ frame_seen' = "none" /\ link = "closed" /\ ~holding
        /\ connected' = FALSE /\ writer' = FALSE
    BY <1>4 DEF ReadEnd
  <2>2. connected' \in BOOLEAN /\ writer' \in BOOLEAN /\ ~writer' /\ ~connected'
    BY <2>1
  <2>3. TypeOK'
    BY <1>0, <2>1, <2>2 DEF TypeOK, uiVars, sendVars, serverVars
  <2>4. GreetInv'
    BY <1>0, <2>1, <2>2 DEF uiVars, sendVars, serverVars
  <2> QED BY <2>3, <2>4 DEF TypeInv
<1>5. CASE WakeUp
  <2>1. /\ UNCHANGED <<uiVars, sendVars, connected, writer, frame_seen, inbox, status,
                       serverVars>>
        /\ reader = "asleep" /\ reader' = "dialling" /\ link' = "none"
    BY <1>5 DEF WakeUp
  <2>2. TypeOK'
    BY <1>0, <2>1 DEF TypeOK, uiVars, sendVars, serverVars
  <2>3. GreetInv'
    BY <1>0, <2>1 DEF uiVars, sendVars, serverVars
  <2> QED BY <2>2, <2>3 DEF TypeInv
<1> QED BY <1>1, <1>2, <1>3, <1>4, <1>5 DEF Reader

\* A command leaves an engine.
LEMMA AppliedTyped ==
  ASSUME NEW e \in Engine, NEW cmd \in Command PROVE Applied(e, cmd) \in Engine
<1>1. CASE cmd.kind = "SetSpeed"
  <2>1. cmd.value \in Speed
    BY <1>1 DEF Command
  <2>2. {IF v.stimulus_type = "Wave" THEN v ELSE [v EXCEPT !.wave_speed = cmd.value] :
           v \in e.voices} \subseteq Voice
    BY <2>1 DEF Engine, Voice
  <2> QED BY <1>1, <2>1, <2>2 DEF Applied, Engine
<1>2. CASE cmd.kind = "SetType"
  <2>1. cmd.value \in StimulusType
    BY <1>2 DEF Command
  <2> QED BY <1>2, <2>1 DEF Applied, Engine
<1>3. CASE cmd.kind = "NoteOn"
  <2>1. [note |-> cmd.value, stimulus_type |-> e.stimulus_type,
         wave_speed |-> e.wave_speed] \in Voice
    BY <1>3 DEF Command, Engine, Voice
  <2> QED BY <1>3, <2>1 DEF Applied, Engine
<1>4. CASE cmd.kind = "NoteOff"
  BY <1>4 DEF Applied, Engine
<1>5. CASE cmd.kind \notin {"SetSpeed", "SetType", "NoteOn", "NoteOff"}
  BY <1>5 DEF Applied
<1> QED BY <1>1, <1>2, <1>3, <1>4, <1>5

\* The server, which changes nothing of the viewer.
LEMMA ServerTyped == TypeInv /\ Server => TypeInv'
<1> SUFFICES ASSUME TypeInv, Server PROVE TypeInv'
  OBVIOUS
<1>0. TypeOK /\ GreetInv /\ FreshEngine \in Engine
  BY ViewerAssumption DEF TypeInv, FreshEngine, Engine, StimulusType
<1>a. UNCHANGED Viewer
  BY DEF Server, ServerReads, ReadHello, ReadCommand, ShedCommand, TellOutput,
     DropClient, CleanUp, Crash, Start
<1> USE DEF GreetInv, HelloAlone
<1>1. CASE ReadHello
  <2>1. /\ Len(inbox) = 1 /\ status = <<>> /\ ~writer /\ ~holding
        /\ inbox' = <<>> /\ UNCHANGED <<up, faults>> /\ reader = "reading"
    <3>1. inbox \in Seq(Command) /\ inbox # <<>> /\ Head(inbox).kind = "Hello"
          /\ link = "open" /\ inbox' = Tail(inbox) /\ UNCHANGED <<up, faults>>
      BY <1>0, <1>1 DEF ReadHello, TypeOK
    <3>2. 1 \in DOMAIN inbox /\ inbox[1].kind = "Hello"
      BY <3>1
    <3>3. Len(inbox) = 1 /\ status = <<>> /\ ~writer
      BY <1>0, <3>2
    <3> QED BY <1>0, <3>1, <3>3 DEF TypeOK
  <2>2. CASE session = "none"
    <3>1. /\ session' = "mine" /\ engine' = FreshEngine /\ shed' = FALSE
          /\ status' = <<"HelloAccepted">> /\ UNCHANGED link /\ link = "open"
      BY <1>1, <2>1, <2>2 DEF ReadHello
    <3>2. /\ inbox' \in Seq(Command) /\ Len(inbox') = 0
          /\ status' \in Seq({"HelloAccepted", "OutputState"}) /\ Len(status') = 1
          /\ 0 <= SocketFrames /\ 1 <= SocketFrames
      BY <2>1, <3>1, ViewerAssumption
    <3>3. TypeOK'
      BY <1>0, <1>a, <2>1, <3>1, <3>2 DEF TypeOK, Viewer, uiVars, sendVars
    <3>4. GreetInv'
      BY <1>0, <1>a, <2>1, <3>1 DEF Viewer, uiVars, sendVars
    <3> QED BY <3>3, <3>4 DEF TypeInv
  <2>3. CASE session # "none"
    <3>1. link' = "closed" /\ UNCHANGED <<session, engine, shed, status>>
          /\ session # "mine"
      BY <1>0, <1>1, <2>1, <2>3 DEF ReadHello, TypeOK
    <3>2. inbox' \in Seq(Command) /\ Len(inbox') = 0 /\ 0 <= SocketFrames
      BY <2>1, ViewerAssumption
    <3>3. TypeOK'
      BY <1>0, <1>a, <2>1, <3>1, <3>2 DEF TypeOK, Viewer, uiVars, sendVars
    <3>4. GreetInv'
      BY <1>0, <1>a, <2>1, <3>1 DEF Viewer, uiVars, sendVars
    <3> QED BY <3>3, <3>4 DEF TypeInv
  <2> QED BY <2>2, <2>3
<1>2. ASSUME inbox # <<>>, session = "mine", inbox' = Tail(inbox), engine' \in Engine,
             shed' \in BOOLEAN, UNCHANGED <<link, status, up, session, faults>>
      PROVE  TypeInv'
  <2>1. inbox' \in Seq(Command) /\ Len(inbox') <= SocketFrames
    BY <1>0, <1>2, ViewerAssumption DEF TypeOK
  <2>2. \A k \in DOMAIN inbox' : inbox'[k].kind # "Hello"
    BY <1>0, <1>2 DEF TypeOK
  <2>3. TypeOK'
    BY <1>0, <1>a, <1>2, <2>1 DEF TypeOK, Viewer, uiVars, sendVars
  <2>4. GreetInv'
    BY <1>0, <1>a, <1>2, <2>2 DEF TypeOK, Viewer, uiVars, sendVars
  <2> QED BY <2>3, <2>4 DEF TypeInv
<1>3. CASE ReadCommand
  <2>1. Head(inbox) \in Command
    BY <1>0, <1>3 DEF ReadCommand, TypeOK
  <2>2. engine' \in Engine /\ shed' \in BOOLEAN
    BY <1>0, <1>3, <2>1, AppliedTyped DEF ReadCommand, TypeOK
  <2> QED BY <1>2, <1>3, <2>2 DEF ReadCommand
<1>4. CASE ShedCommand
  <2>1. engine' \in Engine /\ shed' \in BOOLEAN
    BY <1>0, <1>4 DEF ShedCommand, TypeOK
  <2> QED BY <1>2, <1>4, <2>1 DEF ShedCommand
<1>5. CASE TellOutput
  <2>1. /\ session = "mine" /\ link = "open" /\ UNCHANGED <<link, inbox, serverVars>>
        /\ status' \in Seq({"HelloAccepted", "OutputState"}) /\ Len(status') <= SocketFrames
    BY <1>0, <1>5, ViewerAssumption DEF TellOutput, TypeOK
  <2>2. TypeOK'
    BY <1>0, <1>a, <2>1 DEF TypeOK, Viewer, uiVars, sendVars, serverVars
  <2>3. GreetInv'
    BY <1>0, <1>a, <2>1 DEF Viewer, uiVars, sendVars, serverVars
  <2> QED BY <2>2, <2>3 DEF TypeInv
<1>6. CASE DropClient \/ CleanUp \/ Crash \/ Start
  <2>1. /\ UNCHANGED <<inbox, status, shed>>
        /\ up' \in BOOLEAN /\ engine' \in Engine /\ faults' \in 0..MaxFaults
        /\ session' \in {"none", "mine", "old"}
        /\ session' = "mine" => session = "mine" /\ UNCHANGED link
        /\ link' = link \/ link' = "closed"
    <3>1. CASE DropClient
      BY <1>0, <3>1, ViewerAssumption DEF DropClient, Fault, TypeOK
    <3>2. CASE CleanUp
      BY <1>0, <3>2 DEF CleanUp, TypeOK
    <3>3. CASE Crash
      <4>1. /\ UNCHANGED <<inbox, status, shed>> /\ up' = FALSE
            /\ engine' \in Engine /\ session' = "none"
            /\ link' = link \/ link' = "closed"
        BY <1>0, <3>3 DEF Crash
      <4>2. faults' \in 0..MaxFaults
        BY <1>0, <3>3, ViewerAssumption DEF Crash, Fault, TypeOK
      <4> QED BY <4>1, <4>2
    <3>4. CASE Start
      BY <1>0, <3>4 DEF Start, TypeOK
    <3> QED BY <1>6, <3>1, <3>2, <3>3, <3>4
  <2>2. TypeOK'
    BY <1>0, <1>a, <2>1 DEF TypeOK, Viewer, uiVars, sendVars
  <2>3. GreetInv'
    BY <1>0, <1>a, <2>1 DEF Viewer, uiVars, sendVars
  <2> QED BY <2>2, <2>3 DEF TypeInv
<1> QED BY <1>1, <1>3, <1>4, <1>5, <1>6 DEF Server, ServerReads

LEMMA TypeStep == TypeInv /\ [Next]_vars => TypeInv'
<1> SUFFICES ASSUME TypeInv, [Next]_vars PROVE TypeInv'
  OBVIOUS
<1>1. CASE UNCHANGED vars
  BY <1>1 DEF vars, uiVars, sendVars, serverVars, TypeInv, TypeOK, GreetInv, HelloAlone
<1>2. CASE Next
  BY <1>2, UiTyped, ReaderTyped, ServerTyped DEF Next
<1> QED BY <1>1, <1>2

LEMMA TypeInvariant == Spec => []TypeInv
<1> QED BY TypeInit, TypeStep, PTL DEF Spec

\* Every reachable state of the viewer and its connection is well typed: the UI
\* holds the lock only with a writer and a command to write, there is a writer
\* only while it shows itself connected, and no socket holds more than it can.
THEOREM TypeCorrect == Spec => []TypeOK
<1> QED BY TypeInvariant, PTL DEF TypeInv

\* Nothing precedes the Hello on a connection and nothing follows it before its
\* acknowledgement: the UI gets its writer from the acknowledgement alone.
THEOREM HelloAlwaysAlone == Spec => []HelloAlone
<1> QED BY TypeInvariant, PTL DEF TypeInv, GreetInv

-----------------------------------------------------------------------------
(***************************************************************************)
(* What a sequence of commands does, by induction over its length.  The    *)
(* installed provers cannot instantiate the library's induction theorems,  *)
(* which take a predicate; they can use the minimum of a well-founded set, *)
(* so each induction is on the least counterexample.                       *)
(***************************************************************************)
\* A set of numbers that is not empty has a least one.
LEMMA LeastNatural ==
  ASSUME NEW T, T \subseteq Nat, T # {}
  PROVE  \E n \in T : \A m \in T : n <= m
<1> DEFINE R == OpToRel(<, Nat)
<1>1. IsWellFoundedOn(R, Nat)
  BY NatLessThanWellFounded, Zenon
<1>2. \A x \in Nat, y \in Nat : y < x => <<y, x>> \in R
  BY DEF OpToRel
<1> HIDE DEF R
<1>3. PICK n \in T : \A m \in T : ~(<<m, n>> \in R)
  BY <1>1, WFMin, Zenon
<1>4. \A m \in T : ~(m < n)
  BY <1>2, <1>3
<1> QED BY <1>3, <1>4

\* The engines an engine goes through, from e on: the commands cmds up to the n-th.
Passes(f, e, cmds, n) ==
  /\ f[0] = e
  /\ \A k \in 1..n : f[k] = Applied(f[k - 1], cmds[k])

LEMMA PassesExist ==
  ASSUME NEW e, NEW cmds, NEW n \in Nat
  PROVE  \E f : f = [k \in 0..n |-> IF k = 0 THEN e ELSE Applied(f[k - 1], cmds[k])]
<1> DEFINE P(m) == \E f : f = [k \in 0..m |-> IF k = 0 THEN e
                                              ELSE Applied(f[k - 1], cmds[k])]
           T == {m \in Nat : ~P(m)}
<1>1. SUFFICES ASSUME T # {} PROVE FALSE
  OBVIOUS
<1>a. T \subseteq Nat
  OBVIOUS
<1>b. \A l \in Nat : l \in T <=> ~P(l)
  OBVIOUS
<1> HIDE DEF P, T
<1>2. PICK m \in T : \A l \in T : m <= l
  BY <1>1, <1>a, LeastNatural
<1>3. CASE m = 0
  <2> DEFINE f == [k \in 0..0 |-> e]
  <2>1. f = [k \in 0..0 |-> IF k = 0 THEN e ELSE Applied(f[k - 1], cmds[k])]
    OBVIOUS
  <2>2. P(0)
    BY <2>1 DEF P
  <2> QED BY <1>2, <1>3, <1>b, <2>2
<1>4. CASE m # 0
  <2>1. m \in Nat \ {0} /\ m - 1 \in Nat /\ m - 1 < m
    BY <1>2, <1>4, <1>a
  <2>2. P(m - 1)
    BY <1>2, <1>b, <2>1
  <2>3. PICK g : g = [k \in 0..(m - 1) |-> IF k = 0 THEN e
                                         ELSE Applied(g[k - 1], cmds[k])]
    BY <2>2 DEF P
  <2> DEFINE f == [k \in 0..m |-> IF k = m THEN Applied(g[m - 1], cmds[m]) ELSE g[k]]
  <2>4. ASSUME NEW k \in 0..m
        PROVE  f[k] = IF k = 0 THEN e ELSE Applied(f[k - 1], cmds[k])
    <3>1. CASE k = 0
      BY <2>1, <2>3, <3>1
    <3>2. CASE k = m
      BY <2>1, <3>2
    <3>3. CASE k # 0 /\ k # m
      <4>1. k \in 0..(m - 1) /\ k - 1 \in 0..m /\ k - 1 # m
        BY <2>1, <3>3
      <4>2. g[k] = Applied(g[k - 1], cmds[k])
        BY <2>3, <3>3, <4>1
      <4> QED BY <3>3, <4>1, <4>2
    <3> QED BY <3>1, <3>2, <3>3
  <2>5. f = [k \in 0..m |-> IF k = 0 THEN e ELSE Applied(f[k - 1], cmds[k])]
    BY <2>4
  <2>6. P(m)
    BY <2>5 DEF P
  <2> QED BY <1>2, <1>b, <2>6, <1>a
<1> QED BY <1>3, <1>4

LEMMA PassesAgree ==
  ASSUME NEW e, NEW cmds, NEW n \in Nat, NEW f, NEW g,
         Passes(f, e, cmds, n), Passes(g, e, cmds, n)
  PROVE  f[n] = g[n]
<1> DEFINE T == {m \in 0..n : f[m] # g[m]}
<1>1. SUFFICES ASSUME T # {} PROVE FALSE
  OBVIOUS
<1>a. T \subseteq Nat /\ T \subseteq 0..n
  OBVIOUS
<1>b. \A l \in 0..n : l \in T <=> f[l] # g[l]
  OBVIOUS
<1> HIDE DEF T
<1>2. PICK m \in T : \A l \in T : m <= l
  BY <1>1, <1>a, LeastNatural
<1>3. m # 0
  BY <1>2, <1>a, <1>b DEF Passes
<1>4. m \in 1..n /\ m - 1 \in 0..n /\ ~(m <= m - 1)
  BY <1>2, <1>3, <1>a
<1>5. f[m - 1] = g[m - 1]
  BY <1>2, <1>4, <1>b
<1>6. f[m] = g[m]
  BY <1>4, <1>5 DEF Passes
<1> QED BY <1>2, <1>4, <1>6, <1>a, <1>b

\* After is where the passes end.
LEMMA AfterPasses ==
  ASSUME NEW e, NEW cmds, NEW n \in Nat, Len(cmds) = n
  PROVE  \E f : Passes(f, e, cmds, n) /\ After(e, cmds) = f[n]
<1> DEFINE f == CHOOSE f : f = [k \in 0..Len(cmds) |->
                                  IF k = 0 THEN e ELSE Applied(f[k - 1], cmds[k])]
<1>1. f = [k \in 0..Len(cmds) |-> IF k = 0 THEN e ELSE Applied(f[k - 1], cmds[k])]
  BY PassesExist
<1>2. After(e, cmds) = f[Len(cmds)]
  BY Zenon DEF After
<1>3. Passes(f, e, cmds, Len(cmds))
  <2> HIDE DEF f
  <2> QED BY <1>1 DEF Passes
<1> QED BY <1>2, <1>3

LEMMA AfterNone == ASSUME NEW e PROVE After(e, <<>>) = e
<1>1. Len(<<>>) = 0
  OBVIOUS
<1>2. PICK f : Passes(f, e, <<>>, 0) /\ After(e, <<>>) = f[0]
  BY <1>1, AfterPasses
<1> QED BY <1>2 DEF Passes

LEMMA AfterAppend ==
  ASSUME NEW e, NEW cmds \in Seq(Command), NEW cmd \in Command
  PROVE  After(e, Append(cmds, cmd)) = Applied(After(e, cmds), cmd)
<1> DEFINE n == Len(cmds)
           s == Append(cmds, cmd)
<1>1. /\ n \in Nat /\ Len(s) = n + 1 /\ s[n + 1] = cmd
      /\ \A k \in 1..n : s[k] = cmds[k]
  OBVIOUS
<1> HIDE DEF s
<1>0. n + 1 \in Nat
  BY <1>1
<1>2. PICK f : Passes(f, e, s, n + 1) /\ After(e, s) = f[n + 1]
  BY <1>0, <1>1, AfterPasses
<1>3. PICK g : Passes(g, e, cmds, n) /\ After(e, cmds) = g[n]
  BY <1>1, AfterPasses
<1> HIDE DEF n
<1>4. Passes(f, e, cmds, n)
  BY <1>1, <1>2 DEF Passes
<1>5. f[n] = g[n]
  BY <1>1, <1>3, <1>4, PassesAgree
<1>6. f[n + 1] = Applied(f[n], cmd)
  <2>1. n + 1 \in 1..(n + 1) /\ (n + 1) - 1 = n
    BY <1>1
  <2>2. f[n + 1] = Applied(f[(n + 1) - 1], s[n + 1])
    BY <1>2, <2>1 DEF Passes
  <2> QED BY <1>1, <2>1, <2>2
<1> QED BY <1>2, <1>3, <1>5, <1>6 DEF s

LEMMA AfterHead ==
  ASSUME NEW e, NEW cmds \in Seq(Command), cmds # <<>>
  PROVE  After(e, cmds) = After(Applied(e, Head(cmds)), Tail(cmds))
<1> DEFINE n == Len(cmds) - 1
           s == Tail(cmds)
           d == Applied(e, Head(cmds))
<1>1. /\ n \in Nat /\ Len(cmds) = n + 1 /\ Len(s) = n /\ Head(cmds) = cmds[1]
      /\ \A k \in 1..n : s[k] = cmds[k + 1]
  OBVIOUS
<1> HIDE DEF n, s, d
<1>0. n + 1 \in Nat
  BY <1>1
<1>2. PICK f : Passes(f, e, cmds, n + 1) /\ After(e, cmds) = f[n + 1]
  BY <1>0, <1>1, AfterPasses
<1>3. PICK g : Passes(g, d, s, n) /\ After(d, s) = g[n]
  BY <1>1, AfterPasses
<1> DEFINE h == [k \in 0..n |-> f[k + 1]]
<1> HIDE DEF h
<1>4. h[0] = d
  <2>1. 1 \in 1..(n + 1) /\ 1 - 1 = 0 /\ 0 \in 0..n /\ 0 + 1 = 1
    BY <1>1
  <2>2. f[1] = Applied(f[1 - 1], cmds[1])
    BY <1>2, <2>1 DEF Passes
  <2>3. f[0] = e
    BY <1>2 DEF Passes
  <2> QED BY <1>1, <2>1, <2>2, <2>3 DEF h, d
<1>5. ASSUME NEW k \in 1..n PROVE h[k] = Applied(h[k - 1], s[k])
  <2>1. k \in 0..n /\ k - 1 \in 0..n /\ k + 1 \in 1..(n + 1)
        /\ (k - 1) + 1 = k /\ (k + 1) - 1 = k
    BY <1>1
  <2>2. f[k + 1] = Applied(f[(k + 1) - 1], cmds[k + 1])
    BY <1>2, <2>1 DEF Passes
  <2> QED BY <1>1, <2>1, <2>2 DEF h
<1>6. Passes(h, d, s, n)
  BY <1>4, <1>5 DEF Passes
<1>7. h[n] = g[n]
  BY <1>1, <1>3, <1>6, PassesAgree
<1>8. h[n] = f[n + 1]
  BY <1>1 DEF h
<1> QED BY <1>2, <1>3, <1>7, <1>8 DEF s, d

\* Commands leave an engine.
LEMMA AfterTyped ==
  ASSUME NEW e \in Engine, NEW cmds \in Seq(Command) PROVE After(e, cmds) \in Engine
<1> DEFINE n == Len(cmds)
<1>1. n \in Nat /\ \A k \in 1..n : cmds[k] \in Command
  OBVIOUS
<1>2. PICK f : Passes(f, e, cmds, n) /\ After(e, cmds) = f[n]
  BY <1>1, AfterPasses
<1> HIDE DEF n
<1> DEFINE T == {m \in 0..n : f[m] \notin Engine}
<1>3. ASSUME T # {} PROVE FALSE
  <2>1. T \subseteq Nat /\ T \subseteq 0..n /\ \A l \in 0..n : l \in T <=> f[l] \notin Engine
    OBVIOUS
  <2> HIDE DEF T
  <2>2. PICK m \in T : \A l \in T : m <= l
    BY <1>3, <2>1, LeastNatural
  <2>3. m # 0
    BY <2>1, <2>2, <1>2 DEF Passes
  <2>4. m \in 1..n /\ m - 1 \in 0..n /\ ~(m <= m - 1)
    BY <1>1, <2>1, <2>2, <2>3
  <2>5. f[m - 1] \in Engine
    BY <2>1, <2>2, <2>4
  <2>6. f[m] = Applied(f[m - 1], cmds[m])
    BY <1>2, <2>4 DEF Passes
  <2>7. f[m] \in Engine
    BY <1>1, <2>4, <2>5, <2>6, AppliedTyped
  <2> QED BY <2>1, <2>2, <2>7
<1>4. n \in 0..n /\ n \notin T
  BY <1>1, <1>3
<1> QED BY <1>2, <1>4

-----------------------------------------------------------------------------
(***************************************************************************)
(* What sounds is what the controls show.                                  *)
(***************************************************************************)
\* At most one command is on its way, and it starts or stops no note.
Quiet == todo = <<>> \/ (Len(todo) = 1 /\ todo[1].kind \notin {"NoteOn", "NoteOff"})

\* The UI plays nothing, and does not start before it has seen a connection.
Silent == playing = None /\ (ui = "idle" \/ ~saw) /\ Quiet

\* A connection that comes up meets a silent UI: the reader sleeps through a
\* whole frame of it, one that saw itself disconnected.
SleepInv ==
  /\ reader # "asleep" /\ ~connected => Silent
  /\ reader = "asleep" /\ frame_seen = "begun" => ui # "idle" /\ ~saw
  /\ reader = "asleep" /\ frame_seen = "over" => Silent
  /\ connected /\ ui # "idle" /\ ~saw => playing = None
  /\ connected /\ link = "open" => writer

\* What the UI remembers of what it sent.
ShownInv ==
  /\ ui \in {"idle", "controls", "end"} => last_live_config = test.wave_speed
  /\ playing # None /\ ~pointer_down /\ ui \in {"live", "end", "idle"} =>
       sounding_params = Desired(test)
  /\ playing # None => playing = sounding_params[1]

Live == link = "open" /\ session = "mine" /\ ~shed

\* What the engine will have when it has read what the UI is sending, too.
Final == After(After(engine, inbox), todo)

\* The note the UI remembers, in an engine whose speed is s.
Sounding(s) ==
  [note |-> sounding_params[1], stimulus_type |-> sounding_params[2],
   wave_speed |-> IF sounding_params[2] = "Wave" THEN sounding_params[3] ELSE s]

SoundInv ==
  Live =>
    /\ ~connected => inbox = <<>> /\ engine.voices = {}
    /\ playing = None => Final.voices = {}
    /\ playing # None => /\ Final.wave_speed \in {last_live_config, test.wave_speed}
                         /\ Final.voices = {Sounding(Final.wave_speed)}

ShowInv == TypeInv /\ SleepInv /\ ShownInv /\ SoundInv


LEMMA ShowInit == Init => ShowInv
<1> SUFFICES ASSUME Init PROVE ShowInv
  OBVIOUS
<1>1. TypeInv
  BY TypeInit
<1>2. SleepInv
  BY DEF Init, SleepInv, Silent, Quiet
<1>3. ShownInv
  BY DEF Init, ShownInv
<1>4. SoundInv
  BY DEF Init, SoundInv, Live
<1> QED BY <1>1, <1>2, <1>3, <1>4 DEF ShowInv

\* A connection that stands has a reader reading it, and no Hello is left in it.
LEMMA LiveReads == TypeInv /\ Live => /\ reader = "reading"
                                      /\ \A k \in DOMAIN inbox : inbox[k].kind # "Hello"
<1> QED BY DEF TypeInv, GreetInv, HelloAlone, Live

\* The UI keeps what it remembers, and stays silent while it is disconnected.
LEMMA UiSleeps == ShowInv /\ Ui => SleepInv' /\ ShownInv'
<1> SUFFICES ASSUME ShowInv, Ui PROVE SleepInv' /\ ShownInv'
  OBVIOUS
<1>0. /\ TypeOK /\ GreetInv /\ SleepInv /\ ShownInv
      /\ saw \in BOOLEAN /\ connected \in BOOLEAN /\ pointer_down \in BOOLEAN
      /\ test \in Sliders /\ test.note \in Note /\ None \notin Note
      /\ test.wave_speed \in Speed /\ Desired(test)[1] = test.note
  BY ViewerAssumption DEF ShowInv, TypeInv, TypeOK, Sliders, Desired
<1> USE DEF SleepInv, ShownInv, Silent, Quiet
<1>1. CASE BeginFrame
  <2>1. /\ todo = <<>> /\ todo' = todo
        /\ UNCHANGED <<connected, writer, reader, link, playing, test, sounding_params,
                       last_live_config>>
        /\ ui = "idle" /\ ui' = "controls" /\ saw' = connected
        /\ frame_seen' = IF reader = "asleep" /\ frame_seen = "none" THEN "begun"
                         ELSE frame_seen
    BY <1>0, <1>1 DEF BeginFrame, Elsewhere, sendVars, GreetInv
  <2>2. reader = "asleep" => ~connected
    BY <1>0 DEF GreetInv
  <2> QED BY <1>0, <2>1, <2>2
<1>2. CASE Controls
  <2>1. /\ todo = <<>> /\ ui = "controls" /\ ui' = "table"
        /\ UNCHANGED <<connected, writer, reader, link, frame_seen, saw, last_live_config>>
    BY <1>0, <1>2 DEF Controls, Elsewhere, GreetInv
  <2>2. CASE UNCHANGED <<inputs, test, playing, sounding_params, todo>>
    BY <1>0, <2>1, <2>2
  <2>3. CASE saw /\ PressStop
    BY <1>0, <2>1, <2>3 DEF PressStop
  <2>4. CASE saw /\ PressStart
    BY <1>0, <2>1, <2>4 DEF PressStart
  <2>5. CASE saw /\ MoveSliders
    BY <1>0, <2>1, <2>5 DEF MoveSliders
  <2> QED BY <1>2, <2>2, <2>3, <2>4, <2>5 DEF Controls
<1>3. CASE Table
  <2>1. /\ todo = <<>> /\ ui = "table" /\ ui' = "retrigger"
        /\ UNCHANGED <<connected, writer, reader, link, frame_seen, saw, last_live_config,
                       playing, test, sounding_params>>
    BY <1>3 DEF Table, Elsewhere
  <2>2. Quiet'
    BY <1>3 DEF Table, Cmd
  <2> QED BY <1>0, <2>1, <2>2
<1>4. CASE Retrigger
  <2>1. /\ todo = <<>> /\ ui = "retrigger" /\ ui' = "live"
        /\ UNCHANGED <<connected, writer, reader, link, frame_seen, saw, last_live_config,
                       pointer_down, test>>
    BY <1>4 DEF Retrigger, Elsewhere
  <2>2. CASE playing # None /\ Desired(test) # sounding_params /\ ~pointer_down
    <3>1. playing' = test.note /\ sounding_params' = Desired(test) /\ Desired(test)' = Desired(test)
      BY <1>4, <2>1, <2>2 DEF Retrigger, Desired
    <3> QED BY <1>0, <2>1, <2>2, <3>1
  <2>3. CASE ~(playing # None /\ Desired(test) # sounding_params /\ ~pointer_down)
    <3>1. UNCHANGED <<todo, playing, sounding_params>> /\ Desired(test)' = Desired(test)
      BY <1>4, <2>1, <2>3 DEF Retrigger, Desired
    <3> QED BY <1>0, <2>1, <2>3, <3>1
  <2> QED BY <2>2, <2>3
<1>5. CASE LiveConfig
  <2>1. /\ todo = <<>> /\ ui = "live" /\ ui' = "end" /\ last_live_config' = test.wave_speed
        /\ UNCHANGED <<connected, writer, reader, link, frame_seen, saw,
                       pointer_down, test, playing, sounding_params>>
    BY <1>5 DEF LiveConfig, Elsewhere
  <2>2. Quiet' /\ Desired(test)' = Desired(test)
    BY <1>5, <2>1 DEF LiveConfig, Cmd, Desired
  <2> QED BY <1>0, <2>1, <2>2
<1>6. CASE EndFrame
  <2>1. /\ todo = <<>> /\ todo' = todo /\ ui = "end" /\ ui' = "idle"
        /\ UNCHANGED <<connected, writer, reader, link, saw, pointer_down, test,
                       sounding_params, last_live_config>>
        /\ playing' = IF saw THEN playing ELSE None
        /\ frame_seen' = IF frame_seen = "begun" THEN "over" ELSE frame_seen
    BY <1>6 DEF EndFrame, Elsewhere, sendVars
  <2>2. Desired(test)' = Desired(test)
    BY <2>1 DEF Desired
  <2> QED BY <1>0, <2>1, <2>2
<1>7. CASE TakeLock \/ WriteFrame
  <2>1. /\ UNCHANGED <<uiVars, frame_seen, connected, reader, link>>
        /\ todo # <<>> /\ todo' \in {todo, Tail(todo)}
        /\ writer' = writer \/ link # "open"
    BY <1>0, <1>7 DEF TakeLock, WriteFrame, Elsewhere, TypeOK
  <2>2. Quiet => Quiet'
    BY <1>0, <2>1 DEF TypeOK
  <2>3. Desired(test)' = Desired(test)
    BY <2>1 DEF uiVars, Desired
  <2> HIDE DEF Quiet
  <2> QED BY <1>0, <2>1, <2>2, <2>3 DEF uiVars
<1> QED BY <1>1, <1>2, <1>3, <1>4, <1>5, <1>6, <1>7 DEF Ui

LEMMA ReaderSleeps ==
  ASSUME ~UiMayStall PROVE ShowInv /\ Reader => SleepInv' /\ ShownInv'
<1> SUFFICES ASSUME ShowInv, Reader PROVE SleepInv' /\ ShownInv'
  OBVIOUS
<1>0. TypeOK /\ GreetInv /\ SleepInv /\ ShownInv
  BY DEF ShowInv, TypeInv
<1>1. UNCHANGED uiVars /\ UNCHANGED todo
  BY DEF Reader, Connect, SendHello, ReadStatus, ReadEnd, WakeUp, sendVars
<1>2. ShownInv' /\ (Silent => Silent')
  BY <1>0, <1>1 DEF ShownInv, Silent, Quiet, uiVars, Desired
<1> HIDE DEF Silent
<1>3. CASE Connect
  BY <1>0, <1>1, <1>2, <1>3 DEF Connect, SleepInv, GreetInv, uiVars
<1>4. CASE SendHello
  <2>1. ~connected /\ ~connected'
    BY <1>0, <1>4 DEF SendHello, GreetInv
  <2> QED BY <1>0, <1>1, <1>2, <1>4, <2>1 DEF SendHello, SleepInv, uiVars
<1>5. CASE ReadStatus
  <2>1. CASE connected' = TRUE /\ writer' = TRUE
    <3>1. connected' /\ writer'
      BY <2>1
    <3>2. ~connected => Silent
      BY <1>0, <1>5 DEF ReadStatus, SleepInv
    <3>3. (ui # "idle" /\ ~saw) => playing = None
      BY <1>0, <3>2 DEF SleepInv, Silent
    <3> QED BY <1>0, <1>1, <1>2, <1>5, <3>1, <3>3 DEF ReadStatus, SleepInv, uiVars
  <2>2. CASE UNCHANGED <<connected, writer>>
    BY <1>0, <1>1, <1>2, <1>5, <2>2 DEF ReadStatus, SleepInv, uiVars
  <2> QED BY <1>5, <2>1, <2>2 DEF ReadStatus
<1>6. CASE ReadEnd
  <2>1. ~connected'
    BY <1>6 DEF ReadEnd
  <2> QED BY <1>0, <1>1, <1>2, <1>6, <2>1 DEF ReadEnd, SleepInv, uiVars
<1>7. CASE WakeUp
  <2>1. ~connected /\ ~connected' /\ frame_seen = "over"
    BY <1>0, <1>7 DEF WakeUp, GreetInv
  <2> QED BY <1>0, <1>1, <1>2, <1>7, <2>1 DEF WakeUp, SleepInv, uiVars
<1> QED BY <1>3, <1>4, <1>5, <1>6, <1>7 DEF Reader

LEMMA ServerSleeps == ShowInv /\ Server => SleepInv' /\ ShownInv'
<1> SUFFICES ASSUME ShowInv, Server PROVE SleepInv' /\ ShownInv'
  OBVIOUS
<1>1. UNCHANGED Viewer /\ (link' = "open" => link = "open")
  BY DEF Server, ServerReads, ReadHello, ReadCommand, ShedCommand, TellOutput,
     DropClient, CleanUp, Crash, Start, serverVars
<1>2. SleepInv /\ ShownInv
  BY DEF ShowInv
<1> QED BY <1>1, <1>2 DEF Viewer, uiVars, sendVars, SleepInv, ShownInv, Silent, Quiet,
     Desired

\* A silent engine stays silent if no note is started.
LEMMA AppliedQuiet ==
  ASSUME NEW e \in Engine, e.voices = {}, NEW cmd \in Command, cmd.kind # "NoteOn"
  PROVE  Applied(e, cmd).voices = {}
<1>1. CASE cmd.kind = "SetSpeed"
  <2>1. {IF v.stimulus_type = "Wave" THEN v
         ELSE [v EXCEPT !.wave_speed = cmd.value] : v \in {}} = {}
    OBVIOUS
  <2> QED BY <1>1, <2>1 DEF Applied, Engine
<1>2. CASE cmd.kind = "SetType"
  BY <1>2 DEF Applied, Engine
<1>3. CASE cmd.kind = "NoteOff"
  BY <1>3 DEF Applied, Engine
<1>4. CASE cmd.kind \notin {"SetSpeed", "SetType", "NoteOn", "NoteOff"}
  BY <1>4 DEF Applied
<1> QED BY <1>1, <1>2, <1>3, <1>4

\* A command that is not about the voices leaves voices and speed alone.
LEMMA AppliedOther ==
  ASSUME NEW e \in Engine, NEW cmd \in Command, cmd.kind \in {"MpeUpdate", "MonitorRoute"}
  PROVE  Applied(e, cmd) = e
<1> QED BY DEF Applied

\* One command, and one before others.
LEMMA AfterOne ==
  ASSUME NEW e, NEW cmd \in Command PROVE After(e, <<cmd>>) = Applied(e, cmd)
<1>1. <<cmd>> \in Seq(Command) /\ <<cmd>> # <<>> /\ Head(<<cmd>>) = cmd /\ Tail(<<cmd>>) = <<>>
  OBVIOUS
<1>2. After(e, <<cmd>>) = After(Applied(e, cmd), <<>>)
  BY <1>1, AfterHead
<1> QED BY <1>2, AfterNone

LEMMA AfterFirst ==
  ASSUME NEW e, NEW cmd \in Command, NEW cmds \in Seq(Command)
  PROVE  After(e, <<cmd>> \o cmds) = After(Applied(e, cmd), cmds)
<1>1. /\ <<cmd>> \o cmds \in Seq(Command) /\ <<cmd>> \o cmds # <<>>
      /\ Head(<<cmd>> \o cmds) = cmd /\ Tail(<<cmd>> \o cmds) = cmds
  OBVIOUS
<1> QED BY <1>1, AfterHead

\* A note starts in a silent engine with the sliders' parameters.
LEMMA Started ==
  ASSUME TypeOK, NEW e \in Engine, e.voices = {}
  PROVE  /\ After(e, startCommands).voices = {test}
         /\ After(e, startCommands).wave_speed = test.wave_speed
<1> DEFINE a == Cmd("SetSpeed", test.wave_speed)
           b == Cmd("SetType", test.stimulus_type)
           c == Cmd("NoteOn", test.note)
<1>1. /\ test \in Sliders /\ a \in Command /\ b \in Command /\ c \in Command
      /\ a.kind = "SetSpeed" /\ a.value = test.wave_speed
      /\ b.kind = "SetType" /\ b.value = test.stimulus_type
      /\ c.kind = "NoteOn" /\ c.value = test.note
      /\ startCommands = <<a>> \o (<<b>> \o <<c>>)
      /\ <<c>> \in Seq(Command) /\ <<b>> \o <<c>> \in Seq(Command)
  BY DEF TypeOK, Sliders, Command, Cmd, startCommands
<1> HIDE DEF a, b, c
<1>2. After(e, startCommands) = Applied(Applied(Applied(e, a), b), c)
  BY <1>1, AfterFirst, AfterOne
<1>3. /\ Applied(e, a) \in Engine /\ Applied(e, a).voices = {}
      /\ Applied(e, a).wave_speed = test.wave_speed
  BY <1>1, AppliedTyped, AppliedQuiet DEF Applied, Engine
<1> DEFINE d == Applied(e, a)
<1> HIDE DEF d
<1>4. d \in Engine /\ d.voices = {} /\ d.wave_speed = test.wave_speed
  BY <1>3 DEF d
<1>5. /\ Applied(d, b) \in Engine /\ Applied(d, b).voices = {}
      /\ Applied(d, b).wave_speed = test.wave_speed
      /\ Applied(d, b).stimulus_type = test.stimulus_type
  BY <1>1, <1>4, AppliedTyped DEF Applied, Engine
<1> DEFINE g == Applied(d, b)
<1> HIDE DEF g
<1>6. /\ g \in Engine /\ g.voices = {} /\ g.wave_speed = test.wave_speed
      /\ g.stimulus_type = test.stimulus_type
  BY <1>5 DEF g
<1>7. /\ Applied(g, c).voices = {[note |-> test.note, stimulus_type |-> test.stimulus_type,
                                  wave_speed |-> test.wave_speed]}
      /\ Applied(g, c).wave_speed = test.wave_speed
  BY <1>1, <1>6 DEF Applied, Engine
<1>8. test = [note |-> test.note, stimulus_type |-> test.stimulus_type,
              wave_speed |-> test.wave_speed]
  BY <1>1 DEF Sliders
<1> QED BY <1>2, <1>7, <1>8 DEF d, g

\* The note that plays stops.
LEMMA Stopped ==
  ASSUME NEW e \in Engine, NEW v \in Voice, e.voices = {v}, NEW cmd \in Command,
         cmd.kind = "NoteOff", cmd.value = v.note
  PROVE  Applied(e, cmd) \in Engine /\ Applied(e, cmd).voices = {}
<1>1. {w \in {v} : w.note # v.note} = {}
  OBVIOUS
<1> QED BY <1>1, AppliedTyped DEF Applied, Engine

\* A live update of the speed reaches every note but a Wave one.
LEMMA Updated ==
  ASSUME NEW e \in Engine, NEW n, NEW t, NEW s, NEW cmd \in Command, cmd.kind = "SetSpeed",
         e.voices = {[note |-> n, stimulus_type |-> t, wave_speed |-> s]}
  PROVE  /\ Applied(e, cmd).wave_speed = cmd.value
         /\ Applied(e, cmd).voices =
              {[note |-> n, stimulus_type |-> t,
                wave_speed |-> IF t = "Wave" THEN s ELSE cmd.value]}
<1> DEFINE v == [note |-> n, stimulus_type |-> t, wave_speed |-> s]
           w == [note |-> n, stimulus_type |-> t,
                 wave_speed |-> IF t = "Wave" THEN s ELSE cmd.value]
           After1(x) == IF x.stimulus_type = "Wave" THEN x
                        ELSE [x EXCEPT !.wave_speed = cmd.value]
<1>1. After1(v) = w
  OBVIOUS
<1>2. Applied(e, cmd).voices = {After1(x) : x \in e.voices}
  BY DEF Applied, Engine
<1>3. Applied(e, cmd).wave_speed = cmd.value
  BY DEF Applied, Engine
<1> HIDE DEF After1
<1>4. {After1(x) : x \in {v}} = {After1(v)}
  OBVIOUS
<1> QED BY <1>1, <1>2, <1>3, <1>4

\* What the engine will have is an engine; it is what it has when nothing is sent.
LEMMA FinalTyped ==
  ASSUME TypeInv
  PROVE  /\ After(engine, inbox) \in Engine /\ Final \in Engine
         /\ todo = <<>> => Final = After(engine, inbox)
<1>1. engine \in Engine /\ inbox \in Seq(Command) /\ todo \in Seq(Command)
  BY DEF TypeInv, TypeOK
<1>2. After(engine, inbox) \in Engine
  BY <1>1, AfterTyped
<1> QED BY <1>1, <1>2, AfterTyped, AfterNone DEF Final

\* The UI sends what makes the engine sound as it remembers.
LEMMA UiSounds == ShowInv /\ Ui => SoundInv'
<1> SUFFICES ASSUME ShowInv, Ui, Live' PROVE SoundInv'
  BY DEF SoundInv
<1> DEFINE E == After(engine, inbox)
<1>0. /\ TypeInv /\ TypeOK /\ GreetInv /\ SleepInv /\ ShownInv /\ E \in Engine /\ Final \in Engine
      /\ todo = <<>> => Final = E
      /\ test \in Sliders /\ test.note \in Note /\ None \notin Note
      /\ test.wave_speed \in Speed
  BY FinalTyped, ViewerAssumption DEF ShowInv, TypeInv, TypeOK, Sliders
<1>a. UNCHANGED <<connected, reader, link, serverVars>>
  BY DEF Ui, BeginFrame, Controls, Table, Retrigger, LiveConfig, EndFrame, TakeLock,
     WriteFrame, Elsewhere
<1>b. /\ Live /\ reader = "reading"
      /\ ~connected => inbox = <<>> /\ engine.voices = {}
      /\ playing = None => Final.voices = {}
      /\ playing # None => /\ Final.wave_speed \in {last_live_config, test.wave_speed}
                           /\ Final.voices = {Sounding(Final.wave_speed)}
  BY <1>0, <1>a, LiveReads DEF Live, serverVars, ShowInv, SoundInv
<1>c. playing # None => playing \in Note /\ Sounding(Final.wave_speed) \in Voice
                        /\ Sounding(Final.wave_speed).note = playing
  <2>1. ASSUME playing # None
        PROVE  /\ sounding_params \in Note \X StimulusType \X (Speed \cup {None})
               /\ playing \in Note /\ playing = sounding_params[1]
    BY <1>0, <2>1 DEF TypeOK, ShownInv
  <2>2. Final.wave_speed \in Speed
    BY <1>0 DEF Engine
  <2>3. ASSUME playing # None PROVE Sounding(Final.wave_speed) \in Voice
    BY <1>b, <1>0, <2>3 DEF Engine
  <2> QED BY <2>1, <2>3 DEF Sounding
<1> HIDE DEF E
<1>d. ASSUME inbox' = inbox
      PROVE  /\ Final' = After(E, todo')
             /\ ~connected' => inbox' = <<>> /\ engine'.voices = {}
             /\ todo' = <<>> => Final' = E
  <2>1. engine' = engine
    BY <1>a DEF serverVars
  <2>2. Final' = After(E, todo')
    BY <1>d, <2>1 DEF Final, E
  <2> QED BY <1>a, <1>b, <1>d, <2>1, <2>2, AfterNone
<1>e. ASSUME inbox' = inbox, Final' = Final,
             UNCHANGED <<playing, test, sounding_params, last_live_config>>
      PROVE  SoundInv'
  BY <1>b, <1>d, <1>e DEF SoundInv, Sounding
\* A command that stops what plays, one that goes elsewhere, and the start of a note.
<1>f. ASSUME playing # None, todo = <<>>
      PROVE  /\ Cmd("NoteOff", playing) \in Command
             /\ Applied(E, Cmd("NoteOff", playing)) \in Engine
             /\ Applied(E, Cmd("NoteOff", playing)).voices = {}
  <2>1. /\ Cmd("NoteOff", playing) \in Command /\ Cmd("NoteOff", playing).kind = "NoteOff"
        /\ Cmd("NoteOff", playing).value = playing
    BY <1>c, <1>f DEF Cmd, Command
  <2>2. E.voices = {Sounding(Final.wave_speed)}
    BY <1>0, <1>b, <1>f
  <2> QED BY <1>0, <1>c, <1>f, <2>1, <2>2, Stopped
<1>g. ASSUME NEW e \in Engine, e.voices = {}, Final' = After(e, startCommands), inbox' = inbox,
             playing' = test.note, sounding_params' = Desired(test), test' = test
      PROVE  SoundInv'
  <2>1. Final'.voices = {test} /\ Final'.wave_speed = test.wave_speed
    BY <1>0, <1>g, Started
  <2>2. Sounding(test.wave_speed)' = test
    <3>1. Sounding(test.wave_speed)' = [note |-> test.note, stimulus_type |-> test.stimulus_type,
                                        wave_speed |-> test.wave_speed]
      BY <1>g DEF Sounding, Desired
    <3> QED BY <1>0, <3>1 DEF Sliders
  <2>3. Final'.wave_speed = test'.wave_speed /\ Final'.voices = {Sounding(Final.wave_speed)'}
    BY <1>g, <2>1, <2>2 DEF Sounding
  <2>4. playing' # None
    BY <1>0, <1>g
  <2> QED BY <1>d, <1>g, <2>3, <2>4 DEF SoundInv
<1>1. CASE BeginFrame
  BY <1>1, <1>e DEF BeginFrame, sendVars, Elsewhere, Final, serverVars
<1>2. CASE Controls
  <2>1. todo = <<>> /\ inbox' = inbox /\ UNCHANGED last_live_config /\ ui = "controls"
    BY <1>0, <1>2 DEF Controls, Elsewhere, GreetInv
  <2>2. CASE UNCHANGED <<inputs, test, playing, sounding_params, todo>>
    BY <1>0, <1>d, <1>e, <2>1, <2>2
  <2>3. CASE PressStop
    <3>1. Final' = Applied(E, Cmd("NoteOff", playing))
      BY <1>d, <1>f, <2>1, <2>3, AfterOne DEF PressStop, stopCommands
    <3> QED BY <1>d, <1>f, <2>1, <2>3, <3>1 DEF PressStop, SoundInv
  <2>4. CASE PressStart
    BY <1>0, <1>b, <1>d, <1>g, <2>1, <2>4 DEF PressStart
  <2>5. CASE MoveSliders
    <3>1. Final' = Final /\ UNCHANGED <<playing, sounding_params>>
      BY <1>0, <1>d, <2>1, <2>5 DEF MoveSliders
    <3>2. last_live_config = test.wave_speed
      BY <1>0, <2>1 DEF ShownInv
    <3> QED BY <1>b, <1>d, <2>1, <3>1, <3>2 DEF SoundInv, Sounding
  <2> QED BY <1>2, <2>2, <2>3, <2>4, <2>5 DEF Controls
<1>3. CASE Table
  <2>1. /\ todo = <<>> /\ inbox' = inbox
        /\ UNCHANGED <<playing, test, sounding_params, last_live_config>>
    BY <1>3 DEF Table, Elsewhere
  <2>2. Final' = E
    <3>1. CASE todo' = todo
      BY <1>d, <2>1, <3>1
    <3>2. ASSUME NEW k \in {"MpeUpdate", "MonitorRoute"}, todo' = <<Cmd(k, None)>>
          PROVE  Final' = E
      <4>1. Cmd(k, None) \in Command /\ Cmd(k, None).kind = k
        BY DEF Cmd, Command
      <4> QED BY <1>0, <1>d, <2>1, <3>2, <4>1, AfterOne, AppliedOther
    <3> QED BY <1>3, <3>1, <3>2 DEF Table
  <2> QED BY <1>0, <1>e, <2>1, <2>2
<1>4. CASE Retrigger
  <2>1. todo = <<>> /\ inbox' = inbox /\ UNCHANGED <<test, last_live_config>>
    BY <1>4 DEF Retrigger, Elsewhere
  <2>2. CASE /\ playing # None
             /\ todo' = stopCommands \o startCommands
             /\ playing' = test.note /\ sounding_params' = Desired(test)
    <3>1. startCommands \in Seq(Command)
      <4>1. startCommands \in Seq(UiCommand)
        BY <1>0, CommandsTyped
      <4>2. UiCommand \subseteq Command
        BY DEF UiCommand
      <4> QED BY <4>1, <4>2
    <3>2. Final' = After(Applied(E, Cmd("NoteOff", playing)), startCommands)
      BY <1>d, <1>f, <2>1, <2>2, <3>1, AfterFirst DEF stopCommands
    <3> QED BY <1>f, <1>g, <2>1, <2>2, <3>2
  <2>3. CASE UNCHANGED <<todo, playing, sounding_params>>
    BY <1>0, <1>d, <1>e, <2>1, <2>3
  <2> QED BY <1>4, <2>2, <2>3 DEF Retrigger
<1>5. CASE LiveConfig
  <2>1. /\ todo = <<>> /\ inbox' = inbox /\ last_live_config' = test.wave_speed
        /\ UNCHANGED <<playing, test, sounding_params>>
    BY <1>5 DEF LiveConfig, Elsewhere
  <2>2. CASE test.wave_speed # last_live_config
    <3> DEFINE cmd == Cmd("SetSpeed", test.wave_speed)
    <3>1. /\ cmd \in Command /\ cmd.kind = "SetSpeed" /\ cmd.value = test.wave_speed
      BY <1>0 DEF Cmd, Command
    <3>2. todo' = <<cmd>>
      BY <1>5, <2>2 DEF LiveConfig
    <3> HIDE DEF cmd
    <3>3. Final' = Applied(E, cmd)
      BY <1>d, <2>1, <3>1, <3>2, AfterOne
    <3>4. CASE playing = None
      <4>1. Final'.voices = {}
        BY <1>0, <1>b, <2>1, <3>1, <3>3, <3>4, AppliedQuiet
      <4> QED BY <1>d, <2>1, <3>4, <4>1 DEF SoundInv
    <3>5. CASE playing # None
      <4>1. E.voices = {Sounding(Final.wave_speed)}
        BY <1>0, <1>b, <2>1, <3>5
      <4> DEFINE n == sounding_params[1]
                 t == sounding_params[2]
                 p == IF t = "Wave" THEN sounding_params[3] ELSE Final.wave_speed
      <4>2. E.voices = {[note |-> n, stimulus_type |-> t, wave_speed |-> p]}
        BY <4>1 DEF Sounding
      <4> HIDE DEF n, t, p
      <4>3. /\ Final'.wave_speed = test.wave_speed
            /\ Final'.voices =
                 {[note |-> n, stimulus_type |-> t,
                   wave_speed |-> IF t = "Wave" THEN p ELSE test.wave_speed]}
        BY <1>0, <3>1, <3>3, <4>2, Updated
      <4>4. Final'.voices = {Sounding(Final.wave_speed)'}
        BY <2>1, <4>3 DEF Sounding, n, t, p
      <4> QED BY <1>d, <2>1, <3>5, <4>3, <4>4 DEF SoundInv
    <3> QED BY <3>4, <3>5
  <2>3. CASE test.wave_speed = last_live_config
    <3>1. todo' = <<>>
      BY <1>5, <2>3 DEF LiveConfig
    <3> QED BY <1>0, <1>d, <1>e, <2>1, <2>3, <3>1
  <2> QED BY <2>2, <2>3
<1>6. CASE EndFrame
  <2>1. /\ inbox' = inbox /\ todo' = todo /\ ui = "end"
        /\ UNCHANGED <<test, sounding_params, last_live_config>>
        /\ playing' = IF saw THEN playing ELSE None
    BY <1>6 DEF EndFrame, sendVars, Elsewhere
  <2>2. ~saw => playing = None
    BY <1>0, <1>b, <2>1 DEF SleepInv, Silent
  <2>3. Final' = Final /\ playing' = playing
    BY <1>a, <2>1, <2>2 DEF Final, serverVars
  <2> QED BY <1>e, <2>1, <2>3
<1>7. CASE TakeLock
  <2>1. inbox' = inbox /\ UNCHANGED <<playing, test, sounding_params, last_live_config>>
    BY <1>7 DEF TakeLock, Elsewhere, uiVars
  <2>2. CASE writer
    BY <1>7, <1>d, <1>e, <2>1, <2>2 DEF TakeLock, Final, E
  <2>3. CASE ~writer
    <3>1. ~connected /\ playing = None /\ Quiet
      BY <1>0, <1>b, <2>3 DEF SleepInv, Silent, Live
    <3>2. todo' = <<>>
      BY <1>0, <1>7, <2>3, <3>1 DEF TakeLock, Quiet, TypeOK
    <3>3. E.voices = {}
      BY <1>b, <3>1, AfterNone DEF E
    <3> QED BY <1>d, <2>1, <3>1, <3>2, <3>3 DEF SoundInv
  <2> QED BY <2>2, <2>3
<1>8. CASE WriteFrame
  <2>1. /\ inbox' = Append(inbox, Head(todo)) /\ todo' = Tail(todo) /\ todo # <<>> /\ writer
        /\ UNCHANGED <<playing, test, sounding_params, last_live_config, engine>>
        /\ Head(todo) \in Command /\ todo \in Seq(Command) /\ inbox \in Seq(Command)
    BY <1>0, <1>8, <1>b DEF WriteFrame, TypeOK, uiVars, serverVars, Live
  <2>2. Final' = Final
    <3>1. After(engine, inbox)' = Applied(E, Head(todo))
      BY <2>1, AfterAppend DEF E
    <3>2. Final' = After(Applied(E, Head(todo)), Tail(todo))
      BY <2>1, <3>1 DEF Final
    <3> QED BY <2>1, <3>2, AfterHead DEF Final, E
  <2>3. connected'
    BY <1>0, <1>a, <2>1 DEF TypeOK
  <2> QED BY <1>b, <2>1, <2>2, <2>3 DEF SoundInv, Sounding
<1> QED BY <1>1, <1>2, <1>3, <1>4, <1>5, <1>6, <1>7, <1>8 DEF Ui

LEMMA ReaderSounds == ShowInv /\ Reader => SoundInv'
<1> SUFFICES ASSUME ShowInv, Reader, Live' PROVE SoundInv'
  BY DEF SoundInv
<1>0. TypeInv /\ GreetInv /\ SleepInv /\ SoundInv
  BY DEF ShowInv, TypeInv
<1>1. UNCHANGED <<uiVars, serverVars, sendVars>> /\ session = "mine" /\ link = "open"
      /\ reader = "reading"
  <2>1. UNCHANGED <<uiVars, serverVars, sendVars>>
    BY DEF Reader, Connect, SendHello, ReadStatus, ReadEnd, WakeUp
  <2> QED BY <1>0, <2>1 DEF Live, serverVars, GreetInv
<1>2. /\ UNCHANGED inbox /\ (connected => connected')
  BY <1>0, <1>1 DEF Live, Reader, Connect, SendHello, ReadStatus, ReadEnd, WakeUp
<1>3. Live /\ Final' = Final /\ Sounding(Final.wave_speed)' = Sounding(Final.wave_speed)
      /\ UNCHANGED <<playing, last_live_config, test, engine>>
  BY <1>1, <1>2 DEF Live, Final, Sounding, serverVars, uiVars, sendVars
<1> QED BY <1>0, <1>2, <1>3 DEF SoundInv

LEMMA ServerSounds == ShowInv /\ Server => SoundInv'
<1> SUFFICES ASSUME ShowInv, Server, Live' PROVE SoundInv'
  BY DEF SoundInv
<1>0. TypeInv /\ TypeOK /\ GreetInv /\ SleepInv /\ SoundInv /\ Final \in Engine
  BY FinalTyped DEF ShowInv, TypeInv
<1>1. UNCHANGED <<ui, playing, saw, todo, connected, writer, reader, last_live_config, test,
                  sounding_params>>
  BY DEF Server, ServerReads, ReadHello, ReadCommand, ShedCommand, TellOutput,
     DropClient, CleanUp, Crash, Start, Viewer, uiVars, sendVars
<1>2. CASE ReadHello
  <2>1. /\ inbox \in Seq(Command) /\ inbox # <<>> /\ Head(inbox).kind = "Hello"
        /\ link = "open" /\ inbox' = Tail(inbox) /\ engine' = FreshEngine
    BY <1>0, <1>2 DEF ReadHello, TypeOK, Live
  <2>2. 1 \in DOMAIN inbox /\ inbox[1].kind = "Hello"
    BY <2>1
  <2>3. inbox' = <<>> /\ ~writer /\ reader = "reading"
    <3>1. Len(inbox) = 1 /\ ~writer
      BY <1>0, <2>2 DEF GreetInv, HelloAlone
    <3>2. reader = "reading"
      BY <1>0, <2>1 DEF GreetInv
    <3> QED BY <2>1, <3>1, <3>2
  <2>4. ~connected /\ playing = None /\ Quiet
    BY <1>0, <2>1, <2>3 DEF SleepInv, Silent
  <2>5. FreshEngine \in Engine /\ FreshEngine.voices = {}
    BY ViewerAssumption DEF FreshEngine, Engine, StimulusType
  <2>6. Final'.voices = {}
    <3>1. Final' = After(FreshEngine, todo)
      BY <1>1, <2>1, <2>3, AfterNone DEF Final
    <3>2. CASE todo = <<>>
      BY <2>5, <3>1, <3>2, AfterNone
    <3>3. CASE todo # <<>>
      <4>1. todo = <<todo[1]>> /\ todo[1] \in Command /\ todo[1].kind # "NoteOn"
        BY <1>0, <2>4, <3>3 DEF Quiet, TypeOK
      <4>2. Final' = Applied(FreshEngine, todo[1])
        BY <3>1, <4>1, AfterOne
      <4> QED BY <2>5, <4>1, <4>2, AppliedQuiet
    <3> QED BY <3>2, <3>3
  <2> QED BY <1>1, <2>1, <2>3, <2>4, <2>5, <2>6 DEF SoundInv
<1>3. CASE ReadCommand
  <2>1. /\ Live /\ inbox # <<>> /\ inbox' = Tail(inbox) /\ inbox \in Seq(Command)
        /\ engine' = Applied(engine, Head(inbox))
    BY <1>0, <1>3 DEF ReadCommand, Live, TypeOK
  <2>2. Final' = Final
    BY <1>1, <2>1, AfterHead DEF Final
  <2>3. connected
    BY <1>0, <2>1 DEF SoundInv
  <2> QED BY <1>0, <1>1, <2>1, <2>2, <2>3 DEF SoundInv, Sounding
<1>4. CASE ShedCommand
  BY <1>4 DEF ShedCommand, Live
<1>5. CASE TellOutput \/ Start
  <2>1. UNCHANGED <<link, inbox, session, engine, shed>>
    BY <1>5 DEF TellOutput, Start, serverVars
  <2>2. Live /\ Final' = Final /\ Sounding(Final.wave_speed)' = Sounding(Final.wave_speed)
    BY <1>1, <2>1 DEF Live, Final, Sounding
  <2> QED BY <1>0, <1>1, <2>1, <2>2 DEF SoundInv
<1>6. CASE DropClient \/ CleanUp \/ Crash
  BY <1>6 DEF DropClient, CleanUp, Crash, Live
<1> QED BY <1>2, <1>3, <1>4, <1>5, <1>6 DEF Server, ServerReads

LEMMA ShowStep ==
  ASSUME ~UiMayStall PROVE ShowInv /\ [Next]_vars => ShowInv'
<1> SUFFICES ASSUME ShowInv, [Next]_vars PROVE ShowInv'
  OBVIOUS
<1>1. TypeInv'
  BY TypeStep DEF ShowInv
<1>2. CASE UNCHANGED vars
  <2>1. Final' = Final /\ Sounding(Final.wave_speed)' = Sounding(Final.wave_speed)
    BY <1>2 DEF vars, uiVars, sendVars, serverVars, Final, Sounding
  <2>2. SoundInv' /\ SleepInv' /\ ShownInv'
    BY <1>2, <2>1 DEF vars, uiVars, sendVars, serverVars, ShowInv, SoundInv, Live, SleepInv,
       ShownInv, Silent, Quiet, Desired
  <2> QED BY <1>1, <2>2 DEF ShowInv
<1>3. CASE Next
  <2>1. SleepInv' /\ ShownInv'
    BY <1>3, UiSleeps, ReaderSleeps, ServerSleeps DEF Next
  <2>2. SoundInv'
    BY <1>3, UiSounds, ReaderSounds, ServerSounds DEF Next
  <2> QED BY <1>1, <2>1, <2>2 DEF ShowInv
<1> QED BY <1>2, <1>3

\* What sounds is what the controls show, when the reader's half second of sleep
\* is time for a frame of the UI: at the end of a frame, on a connection that lost
\* no command, the engine is silent, or has the note of the sliders alone, once it
\* has read what is in the socket, whatever connections were lost before.
THEOREM SoundsAlwaysAsShown ==
  ASSUME ~UiMayStall PROVE Spec => []SoundsAsShown
<1>1. ShowInv => SoundsAsShown
  <2> SUFFICES ASSUME ShowInv, Settled PROVE /\ playing = None => Heard = {}
                                             /\ playing # None /\ ~pointer_down => Heard = {test}
    BY DEF SoundsAsShown
  <2>1. /\ ui = "idle" /\ Live /\ TypeInv /\ todo = <<>> /\ test \in Sliders
    BY DEF Settled, Live, ShowInv, TypeInv, GreetInv, TypeOK
  <2>2. Heard = Final.voices
    BY <2>1, FinalTyped DEF Heard
  <2>3. ASSUME playing # None, ~pointer_down PROVE Heard = {test}
    <3>1. sounding_params = Desired(test) /\ Final.wave_speed = test.wave_speed
      BY <2>1, <2>3 DEF ShowInv, ShownInv, SoundInv
    <3>2. Sounding(Final.wave_speed) = [note |-> test.note, stimulus_type |-> test.stimulus_type,
                                        wave_speed |-> test.wave_speed]
      BY <3>1 DEF Sounding, Desired
    <3> QED BY <2>1, <2>2, <2>3, <3>2 DEF ShowInv, SoundInv, Sliders
  <2>4. playing = None => Heard = {}
    BY <2>1, <2>2 DEF ShowInv, SoundInv
  <2> QED BY <2>3, <2>4
<1> QED BY <1>1, ShowInit, ShowStep, PTL DEF Spec
=============================================================================
