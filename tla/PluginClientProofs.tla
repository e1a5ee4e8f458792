------------------------- MODULE PluginClientProofs -------------------------
(***************************************************************************)
(* Proofs about the plugin and its connection manager, for every number of *)
(* parameters and notes, every capacity of the channel and the socket, and *)
(* any number of faults.                                                   *)
(***************************************************************************)
EXTENDS PluginClient, TLAPS

(***************************************************************************)
(* Types.  Three facts carry them: the manager greets over an empty        *)
(* socket, the server has a configuration for a registered session, and no *)
(* session is registered while an earlier one is owed a cleanup.           *)
(***************************************************************************)
NothingWrittenYet == at \in {"offline", "drain", "load", "read"} => wire = <<>>

SessionHasConfig ==
  /\ session => config \in Config /\ ~old_session
  /\ session => at \in {"await", "live", "backoff"} /\ link = "open"

TypeInv == TypeOK /\ NothingWrittenYet /\ SessionHasConfig

\* What is written to the channel and the socket, one message at a time.
LEMMA AppendTyped ==
  ASSUME NEW S, NEW s \in Seq(S), NEW m \in S
  PROVE  Append(s, m) \in Seq(S) /\ Len(Append(s, m)) = Len(s) + 1
OBVIOUS

LEMMA TailTyped ==
  ASSUME NEW S, NEW s \in Seq(S), s # <<>>
  PROVE  Tail(s) \in Seq(S) /\ Len(Tail(s)) = Len(s) - 1 /\ Head(s) \in S
         /\ Len(s) \in Nat \ {0}
OBVIOUS

\* A message with a kind is of the shape of that kind.
LEMMA MessageShape ==
  ASSUME NEW m \in Command \cup HelloFrame
  PROVE  /\ m.kind = "Hello" => m.config \in Config
         /\ m.kind = "SetParameter" => m.parameter \in Parameter /\ m.value \in Value
         /\ m.kind \in {"NoteOn", "NoteOff"} => m.note \in Note
         /\ m.kind \in {"Hello", "SetParameter", "NoteOn", "NoteOff"}
BY DEF Command, HelloFrame, NoteCommand, SetCommand

\* The initial state is well typed.
LEMMA TypeInit == Init => TypeInv
<1> SUFFICES ASSUME Init PROVE TypeInv
  OBVIOUS
<1>1. params \in Config /\ block \in Config /\ cells \in Config
  BY PluginAssumption DEF Init, Config
<1>2. channel \in Seq(Command) /\ Len(channel) = 0
  BY DEF Init
<1>3. wire \in Seq(Command \cup HelloFrame) /\ Len(wire) = 0
  BY DEF Init
<1>4. load \in [got: [Parameter -> Value \cup {None}], moved: BOOLEAN, checked: BOOLEAN]
  BY DEF Init, NothingLoaded
<1>5. last_sent \in [Parameter -> Value \cup {None}]
  BY DEF Init
<1>6. outdated \in 0..Len(channel) /\ Len(channel) <= ChannelCapacity
  BY PluginAssumption DEF Init
<1>7. Len(wire) <= SocketCapacity /\ changes \in 0..MaxChanges /\ notes \in 0..MaxNotes
      /\ faults \in 0..MaxFaults
  BY PluginAssumption DEF Init
<1>8. TypeOK
  BY <1>1, <1>2, <1>3, <1>4, <1>5, <1>6, <1>7 DEF Init, TypeOK
<1> QED BY <1>8 DEF Init, TypeInv, NothingWrittenYet, SessionHasConfig

\* The host's steps and those of process() that leave the channel alone.
LEMMA HostTyped ==
  ASSUME TypeInv,
         Initialize \/ BeginQuietBlock \/ BeginBlock \/ EndStore \/ EndSend \/ EndBlock
           \/ (\E p \in Parameter, v \in Value : ChangeParameter(p, v))
           \/ (\E p \in Parameter : StoreCell(p))
  PROVE  TypeInv'
<1> USE DEF TypeInv, TypeOK, NothingWrittenYet, SessionHasConfig
<1>1. ASSUME NEW p \in Parameter, NEW v \in Value, ChangeParameter(p, v) PROVE TypeInv'
  BY <1>1, PluginAssumption DEF ChangeParameter, Config, processVars, snapshot, manager,
     socket, serverVars
<1>2. CASE Initialize
  BY <1>2, PluginAssumption DEF Initialize, snapshot, manager, socket, serverVars
<1>3. CASE BeginQuietBlock
  BY <1>3 DEF BeginQuietBlock, hostVars, snapshot, manager, socket, serverVars
<1>4. CASE BeginBlock
  <2>1. load' \in [got: [Parameter -> Value \cup {None}], moved: BOOLEAN, checked: BOOLEAN]
    BY <1>4 DEF BeginBlock
  <2> QED BY <1>4, <2>1 DEF BeginBlock, hostVars, socket, serverVars
<1>5. CASE EndStore
  <2>1. load' \in [got: [Parameter -> Value \cup {None}], moved: BOOLEAN, checked: BOOLEAN]
    BY <1>5 DEF EndStore
  <2>2. todo' \in SUBSET Parameter
    BY <1>5 DEF EndStore, Unsent
  <2>3. writing' \in BOOLEAN
    BY <1>5 DEF EndStore
  <2> QED BY <1>5, <2>1, <2>2, <2>3 DEF EndStore, hostVars, socket, serverVars
<1>6. CASE EndSend \/ EndBlock
  BY <1>6 DEF EndSend, EndBlock, hostVars, snapshot, manager, socket, serverVars
<1>7. ASSUME NEW p \in Parameter, StoreCell(p) PROVE TypeInv'
  <2>1. cells' \in Config
    BY <1>7 DEF StoreCell, Config
  <2> QED BY <1>7, <2>1 DEF StoreCell, hostVars, manager, socket, serverVars
<1> QED BY <1>1, <1>2, <1>3, <1>4, <1>5, <1>6, <1>7

\* The steps of process() that write to the channel.
LEMMA SendTyped ==
  ASSUME TypeInv,
         (\E p \in Parameter : SendParameter(p)) \/ (\E n \in Note : NoteOn(n) \/ NoteOff(n))
  PROVE  TypeInv'
<1> USE DEF TypeInv, TypeOK, NothingWrittenYet, SessionHasConfig
<1>0. ASSUME NEW cmd \in Command, ~ChannelFull
      PROVE  /\ Append(channel, cmd) \in Seq(Command)
             /\ Len(Append(channel, cmd)) <= ChannelCapacity
             /\ 0..Len(channel) \subseteq 0..Len(Append(channel, cmd))
  <2>1. /\ Append(channel, cmd) \in Seq(Command)
        /\ Len(Append(channel, cmd)) = Len(channel) + 1
    BY AppendTyped
  <2>2. Len(channel) \in Nat /\ Len(channel) < ChannelCapacity
    BY <1>0, PluginAssumption DEF ChannelFull
  <2> QED BY <2>1, <2>2, PluginAssumption
<1>1. ASSUME NEW p \in Parameter, SendParameter(p) PROVE TypeInv'
  <2> DEFINE cmd == [kind |-> "SetParameter", parameter |-> p, value |-> block[p]]
  <2>1. cmd \in Command
    BY DEF Command, SetCommand, Config
  <2>2. CASE ChannelFull
    BY <1>1, <2>2 DEF SendParameter, hostVars, snapshot, manager, socket, serverVars
  <2>3. CASE ~ChannelFull
    <3>1. channel' = Append(channel, cmd) /\ UNCHANGED <<param_lost, outdated>>
      BY <1>1, <2>3 DEF SendParameter
    <3>2. last_sent' \in [Parameter -> Value \cup {None}]
      BY <1>1, <2>3 DEF SendParameter, Config
    <3> HIDE DEF cmd
    <3>3. /\ channel' \in Seq(Command) /\ Len(channel') <= ChannelCapacity
          /\ outdated' \in 0..Len(channel')
      BY <1>0, <2>1, <2>3, <3>1
    <3> QED BY <1>1, <3>1, <3>2, <3>3
            DEF SendParameter, hostVars, snapshot, manager, socket, serverVars
  <2> QED BY <2>2, <2>3
<1>2. ASSUME NEW n \in Note, NoteOn(n) PROVE TypeInv'
  <2> DEFINE cmd == [kind |-> "NoteOn", note |-> n]
  <2>1. cmd \in Command
    BY DEF Command, NoteCommand
  <2>2. channel' = (IF ChannelFull THEN channel ELSE Append(channel, cmd))
        /\ UNCHANGED outdated
    BY <1>2 DEF NoteOn
  <2>3. host_held' \in SUBSET Note /\ notes' \in 0..MaxNotes
    BY <1>2, PluginAssumption DEF NoteOn
  <2> HIDE DEF cmd
  <2>4. /\ channel' \in Seq(Command) /\ Len(channel') <= ChannelCapacity
        /\ outdated' \in 0..Len(channel')
    BY <1>0, <2>1, <2>2
  <2> QED BY <1>2, <2>3, <2>4 DEF NoteOn, processVars, snapshot, manager, socket, serverVars
<1>3. ASSUME NEW n \in Note, NoteOff(n) PROVE TypeInv'
  <2> DEFINE cmd == [kind |-> "NoteOff", note |-> n]
  <2>1. cmd \in Command
    BY DEF Command, NoteCommand
  <2>2. channel' = (IF ChannelFull THEN channel ELSE Append(channel, cmd))
        /\ UNCHANGED outdated
    BY <1>3 DEF NoteOff
  <2>3. host_held' \in SUBSET Note /\ note_off_lost' \in BOOLEAN
    BY <1>3 DEF NoteOff, ChannelFull
  <2> HIDE DEF cmd
  <2>4. /\ channel' \in Seq(Command) /\ Len(channel') <= ChannelCapacity
        /\ outdated' \in 0..Len(channel')
    BY <1>0, <2>1, <2>2
  <2> QED BY <1>3, <2>3, <2>4 DEF NoteOff, snapshot, manager, socket, serverVars
<1> QED BY <1>1, <1>2, <1>3

\* A command that leaves the channel.
LEMMA TakeTyped ==
  ASSUME TypeOK, Take
  PROVE  /\ channel' \in Seq(Command) /\ Len(channel') <= ChannelCapacity
         /\ outdated' \in 0..Len(channel')
         /\ outdated = 0 => outdated' = 0
         /\ Head(channel) \in Command
<1>1. /\ channel' \in Seq(Command) /\ Len(channel') = Len(channel) - 1
      /\ Head(channel) \in Command /\ Len(channel) \in Nat \ {0}
  BY TailTyped DEF Take, TypeOK
<1>2. outdated' = (IF outdated > 0 THEN outdated - 1 ELSE 0) /\ outdated \in 0..Len(channel)
  BY DEF Take, TypeOK
<1> QED BY <1>1, <1>2, PluginAssumption DEF TypeOK

\* The manager's steps that leave channel, socket and server alone, but for the
\* dropped commands.
LEMMA ManagerTyped ==
  ASSUME TypeInv,
         Connect \/ ConnectFail \/ Drain \/ DrainDone \/ LoadSequence \/ CheckSequence
           \/ SendHelloFail \/ AwaitAccepted \/ AwaitFail
           \/ (\E p \in Parameter : LoadCell(p))
  PROVE  TypeInv'
<1> USE DEF TypeInv, NothingWrittenYet, SessionHasConfig
<1> DEFINE Load == [got: [Parameter -> Value \cup {None}], moved: BOOLEAN, checked: BOOLEAN]
<1>0. NothingLoaded \in Load
  BY DEF NothingLoaded
<1>1. CASE Connect
  <2>1. outdated' \in 0..Len(channel)
    BY <1>1 DEF Connect, TypeOK
  <2> QED BY <1>1, <2>1 DEF Connect, TypeOK, hostVars, processVars, snapshot, serverVars
<1>2. CASE ConnectFail \/ Drain
  <2>1. Take
    BY <1>2 DEF ConnectFail, Drain
  <2>2. UNCHANGED <<hostVars, processVars, snapshot, manager, socket, serverVars, faults>>
    BY <1>2 DEF ConnectFail, Drain
  <2> QED BY <2>1, <2>2, TakeTyped DEF TypeOK, hostVars, processVars, snapshot, manager,
          socket, serverVars
<1>3. CASE DrainDone
  BY <1>3 DEF DrainDone, TypeOK, hostVars, processVars, snapshot, socket, serverVars
<1>4. CASE LoadSequence \/ SendHelloFail
  BY <1>0, <1>4 DEF LoadSequence, SendHelloFail, TypeOK, hostVars, processVars, snapshot,
     socket, serverVars
<1>5. CASE CheckSequence
  <2>1. load' \in Load /\ at' \in {"load", "read"} /\ at = "read"
    <3>1. at = "read" /\ load \in Load
      BY <1>5 DEF CheckSequence, TypeOK
    <3>2. CASE load.moved
      BY <1>0, <1>5, <3>1, <3>2 DEF CheckSequence
    <3>3. CASE ~load.moved
      <4>1. load' = [load EXCEPT !.checked = TRUE] /\ at' = at
        BY <1>5, <3>3 DEF CheckSequence
      <4>2. load' \in Load
        BY <3>1, <4>1
      <4> QED BY <3>1, <4>1, <4>2
    <3> QED BY <3>2, <3>3
  <2> QED BY <1>5, <2>1 DEF CheckSequence, TypeOK, hostVars, processVars, snapshot, socket,
          serverVars
<1>6. CASE AwaitAccepted
  <2>1. ack' \in BOOLEAN
    BY <1>6 DEF AwaitAccepted
  <2> QED BY <1>6, <2>1 DEF AwaitAccepted, TypeOK, hostVars, processVars, snapshot, serverVars
<1>7. CASE AwaitFail
  BY <1>7, PluginAssumption DEF AwaitFail, TypeOK, hostVars, processVars, snapshot, socket,
     serverVars
<1>8. ASSUME NEW p \in Parameter, LoadCell(p) PROVE TypeInv'
  <2>1. load' \in Load
    BY <1>8 DEF LoadCell, TypeOK, Config
  <2> QED BY <1>8, <2>1 DEF LoadCell, TypeOK, hostVars, processVars, snapshot, socket,
          serverVars
<1> QED BY <1>1, <1>2, <1>3, <1>4, <1>5, <1>6, <1>7, <1>8

\* The manager's steps that write to the socket or give the connection up.
LEMMA SocketTyped ==
  ASSUME TypeInv, SendHello \/ Backoff \/ Forward \/ ForwardFail \/ Probe
  PROVE  TypeInv'
<1> USE DEF TypeInv, NothingWrittenYet, SessionHasConfig
<1>1. CASE SendHello
  <2> DEFINE hello == [kind |-> "Hello", config |-> load.got]
  <2>1. load.got \in Config
    <3>1. load.got \in [Parameter -> Value \cup {None}]
      BY DEF TypeOK
    <3>2. \A p \in Parameter : load.got[p] \in Value
      BY <1>1, <3>1 DEF SendHello, Loaded
    <3> QED BY <3>1, <3>2 DEF Config
  <2>2. hello \in Command \cup HelloFrame
    BY <2>1 DEF HelloFrame
  <2>3. wire' = Append(wire, hello) /\ at = "read" /\ wire = <<>>
    BY <1>1 DEF SendHello, Loaded
  <2> HIDE DEF hello
  <2>4. wire' \in Seq(Command \cup HelloFrame) /\ Len(wire') = 1
    BY <2>2, <2>3
  <2>5. load' \in [got: [Parameter -> Value \cup {None}], moved: BOOLEAN, checked: BOOLEAN]
    BY <1>1 DEF SendHello, NothingLoaded
  <2>6. Len(wire') <= SocketCapacity
    BY <2>4, PluginAssumption
  <2> QED BY <1>1, <2>3, <2>4, <2>5, <2>6 DEF SendHello, TypeOK, hostVars, processVars,
          snapshot, serverVars
<1>2. ASSUME Abandon
      PROVE  /\ link' = "none" /\ wire' = <<>> /\ ack' \in BOOLEAN /\ session' \in BOOLEAN
             /\ ~session' /\ old_session' \in BOOLEAN
             /\ wire' \in Seq(Command \cup HelloFrame) /\ Len(wire') <= SocketCapacity
  <2>1. wire' \in Seq(Command \cup HelloFrame) /\ Len(wire') <= SocketCapacity
    BY <1>2, PluginAssumption DEF Abandon
  <2>2. {old_session \/ session}
         \cup (IF \E k \in DOMAIN wire : wire[k].kind = "Hello" THEN {TRUE} ELSE {})
          \subseteq BOOLEAN
    OBVIOUS
  <2>3. old_session' \in BOOLEAN
    BY <1>2, <2>2 DEF Abandon
  <2>4. ack' \in BOOLEAN /\ session' \in BOOLEAN /\ ~session'
    BY <1>2 DEF Abandon
  <2> QED BY <1>2, <2>1, <2>3, <2>4 DEF Abandon
<1>3. CASE Backoff
  BY <1>2, <1>3 DEF Backoff, TypeOK, hostVars, processVars, snapshot
<1>4. CASE Forward
  <2>1. Take /\ wire' = Append(wire, Head(channel)) /\ Len(wire) < SocketCapacity
    BY <1>4 DEF Forward
  <2>2. Head(channel) \in Command \cup HelloFrame
    BY <2>1, TakeTyped
  <2>3. wire' \in Seq(Command \cup HelloFrame) /\ Len(wire') = Len(wire) + 1
    BY <2>1, <2>2, AppendTyped DEF TypeOK
  <2>4. Len(wire') <= SocketCapacity
    BY <2>1, <2>3, PluginAssumption DEF TypeOK
  <2> QED BY <1>4, <2>1, <2>3, <2>4, TakeTyped DEF Forward, TypeOK, hostVars, processVars,
          snapshot, manager, serverVars
<1>5. CASE ForwardFail
  BY <1>2, <1>5, TakeTyped DEF ForwardFail, TypeOK, hostVars, processVars, snapshot
<1>6. CASE Probe
  BY <1>2, <1>6 DEF Probe, TypeOK, hostVars, processVars, snapshot
<1> QED BY <1>1, <1>3, <1>4, <1>5, <1>6

\* The server's steps, and the faults.
LEMMA ServerTyped == TypeInv /\ (ServerStep \/ Fault) => TypeInv'
<1> SUFFICES ASSUME TypeInv, ServerStep \/ Fault PROVE TypeInv'
  OBVIOUS
<1> USE DEF TypeInv, NothingWrittenYet, SessionHasConfig
<1>0. ASSUME wire # <<>>
      PROVE  /\ Tail(wire) \in Seq(Command \cup HelloFrame)
             /\ Len(Tail(wire)) <= SocketCapacity
             /\ Head(wire) \in Command \cup HelloFrame
             /\ at \in {"await", "live", "backoff"}
  <2>1. /\ Tail(wire) \in Seq(Command \cup HelloFrame) /\ Len(Tail(wire)) = Len(wire) - 1
        /\ Head(wire) \in Command \cup HelloFrame /\ Len(wire) \in Nat
    BY <1>0, TailTyped DEF TypeOK
  <2> QED BY <1>0, <2>1, PluginAssumption DEF TypeOK
<1>1. CASE AcceptHello
  <2>1. wire # <<>> /\ wire' = Tail(wire) /\ config' = Head(wire).config
        /\ Head(wire).kind = "Hello"
    BY <1>1 DEF AcceptHello, Serving
  <2>2. config' \in Config
    BY <1>0, <2>1, MessageShape
  <2> QED BY <1>0, <1>1, <2>1, <2>2 DEF AcceptHello, Serving, TypeOK, hostVars, processVars,
          snapshot, manager
<1>2. CASE RefuseHello
  <2>1. link' \in {"none", "open", "reset"} /\ wire' = <<>>
    BY <1>2 DEF RefuseHello, Reset, TypeOK
  <2> QED BY <1>2, <2>1, PluginAssumption DEF RefuseHello, TypeOK, hostVars, processVars,
          snapshot, manager, serverVars
<1>3. CASE Apply
  <2> DEFINE cmd == Head(wire)
  <2>1. /\ wire # <<>> /\ wire' = Tail(wire) /\ cmd.kind # "Hello" /\ session
        /\ config' = IF cmd.kind = "SetParameter"
                      THEN [config EXCEPT ![cmd.parameter] = cmd.value] ELSE config
    BY <1>3 DEF Apply, Serving
  <2>2. cmd \in Command \cup HelloFrame
    BY <1>0, <2>1
  <2>3. config' \in Config
    BY <2>1, <2>2, MessageShape DEF Config
  <2>4. sounding' \in SUBSET Note
    <3>1. cmd.kind = "NoteOn" => sounding' = sounding \cup {cmd.note}
      BY <1>3 DEF Apply
    <3>2. cmd.kind = "NoteOff" => sounding' = sounding \ {cmd.note}
      BY <1>3 DEF Apply
    <3>3. cmd.kind \notin {"NoteOn", "NoteOff"} => sounding' = sounding
      BY <1>3 DEF Apply
    <3>4. cmd.kind \in {"NoteOn", "NoteOff"} => cmd.note \in Note
      BY <2>2, MessageShape
    <3> QED BY <3>1, <3>2, <3>3, <3>4 DEF TypeOK
  <2>5. UNCHANGED <<hostVars, processVars, snapshot, channel, manager, outdated, link,
                    ack, up, session, old_session, faults>>
    BY <1>3 DEF Apply
  <2> QED BY <1>0, <2>1, <2>3, <2>4, <2>5 DEF TypeOK, hostVars, processVars, snapshot, manager
<1>4. CASE Shed
  <2>1. wire # <<>> /\ wire' = Tail(wire)
    BY <1>4 DEF Shed, Serving
  <2>2. param_lost' \in BOOLEAN /\ note_off_lost' \in BOOLEAN
    BY <1>4 DEF Shed
  <2>3. faults' \in 0..MaxFaults
    BY <1>4, PluginAssumption DEF Shed, TypeOK
  <2> QED BY <1>0, <1>4, <2>1, <2>2, <2>3 DEF Shed, TypeOK, hostVars, snapshot, manager,
          serverVars
<1>5. CASE Cleanup
  <2>1. old_session' \in BOOLEAN /\ ~session /\ session' = session
    BY <1>5 DEF Cleanup
  <2> QED BY <1>5, <2>1 DEF Cleanup, TypeOK, hostVars, processVars, snapshot, manager, socket
<1>6. CASE ServerStart
  BY <1>6 DEF ServerStart, TypeOK, hostVars, processVars, snapshot, manager, socket
<1>7. CASE ServerCrash \/ DropConnection
  <2>1. link' \in {"none", "open", "reset"} /\ wire' = <<>>
    BY <1>7 DEF ServerCrash, DropConnection, Reset, TypeOK
  <2>2. faults' \in 0..MaxFaults
    BY <1>7, PluginAssumption DEF ServerCrash, DropConnection, TypeOK
  <2>3. /\ wire' \in Seq(Command \cup HelloFrame) /\ Len(wire') <= SocketCapacity
    BY <2>1, PluginAssumption
  <2>4. old_session' \in BOOLEAN /\ session' \in BOOLEAN /\ ~session'
    BY <1>7 DEF ServerCrash, DropConnection, TypeOK
  <2>5. up' \in BOOLEAN
    BY <1>7 DEF ServerCrash, DropConnection, TypeOK
  <2> QED BY <1>7, <2>1, <2>2, <2>3, <2>4, <2>5 DEF ServerCrash, DropConnection, TypeOK, hostVars,
          processVars, snapshot, manager
<1> QED BY <1>1, <1>2, <1>3, <1>4, <1>5, <1>6, <1>7 DEF ServerStep, Fault

\* Every step is well typed.
LEMMA TypeStep == TypeInv /\ [Next]_vars => TypeInv'
<1> SUFFICES ASSUME TypeInv, [Next]_vars PROVE TypeInv'
  OBVIOUS
<1>1. CASE HostStep
  BY <1>1, HostTyped, SendTyped DEF HostStep
<1>2. CASE ProcessStep
  BY <1>2, HostTyped, SendTyped DEF ProcessStep
<1>3. CASE ManagerStep
  BY <1>3, ManagerTyped, SocketTyped DEF ManagerStep
<1>4. CASE ServerStep \/ Fault
  BY <1>4, ServerTyped
<1>5. CASE UNCHANGED vars
  BY <1>5 DEF vars, hostVars, processVars, snapshot, manager, socket, serverVars, TypeInv,
     TypeOK, NothingWrittenYet, SessionHasConfig
<1> QED BY <1>1, <1>2, <1>3, <1>4, <1>5 DEF Next

\* Every variable keeps its type and neither the channel nor the socket buffer
\* overflows.
THEOREM TypeCorrect == Spec => []TypeOK
<1>1. TypeInv => TypeOK
  BY DEF TypeInv
<1> QED BY <1>1, TypeInit, TypeStep, PTL DEF Spec

-----------------------------------------------------------------------------
(***************************************************************************)
(* Nothing queued for an earlier connection is written to a later one.     *)
(***************************************************************************)
\* The count of outdated commands only falls, and the drain waits for it.
LEMMA StaleStep == TypeInv /\ NothingStaleIsSent /\ [Next]_vars => NothingStaleIsSent'
<1> SUFFICES ASSUME TypeInv, NothingStaleIsSent, [Next]_vars PROVE NothingStaleIsSent'
  OBVIOUS
<1>0. TypeOK
  BY DEF TypeInv
<1>1. CASE outdated' = outdated /\ at' = at
  BY <1>1 DEF NothingStaleIsSent
<1>2. CASE Connect
  BY <1>2 DEF Connect, NothingStaleIsSent
<1>3. CASE ConnectFail \/ Drain \/ Forward
  <2>1. Take /\ at' = at
    BY <1>3 DEF ConnectFail, Drain, Forward, manager
  <2> QED BY <1>0, <2>1, TakeTyped DEF NothingStaleIsSent
<1>4. CASE DrainDone
  <2>1. Len(channel) = 0 /\ outdated' = outdated
    BY <1>4 DEF DrainDone
  <2> QED BY <1>0, <2>1 DEF TypeOK, NothingStaleIsSent
<1>5. CASE LoadSequence \/ CheckSequence \/ SendHello \/ AwaitAccepted
  <2>1. outdated' = outdated /\ at \in {"load", "read", "await"}
    BY <1>5 DEF LoadSequence, CheckSequence, SendHello, AwaitAccepted, Loaded
  <2> QED BY <2>1 DEF NothingStaleIsSent
<1>6. CASE SendHelloFail \/ AwaitFail \/ Backoff \/ ForwardFail \/ Probe
  BY <1>6 DEF SendHelloFail, AwaitFail, Backoff, ForwardFail, Probe, NothingStaleIsSent
<1> QED
  BY <1>1, <1>2, <1>3, <1>4, <1>5, <1>6
  DEF Next, HostStep, ProcessStep, ManagerStep, ServerStep, Fault, Initialize,
      ChangeParameter, NoteOn, NoteOff, BeginQuietBlock, BeginBlock, EndStore, EndSend,
      EndBlock, StoreCell, SendParameter, LoadCell, AcceptHello, RefuseHello, Apply,
      Cleanup, ServerStart, ServerCrash, DropConnection, Shed, vars, manager

\* A command that was queued before a connection was opened is never written to
\* it, however the channel is filled while it is drained.
THEOREM NothingStaleIsEverSent == Spec => []NothingStaleIsSent
<1>1. Init => NothingStaleIsSent
  BY DEF Init, NothingStaleIsSent
<1> QED BY <1>1, TypeInit, TypeStep, StaleStep, PTL DEF Spec

-----------------------------------------------------------------------------
(***************************************************************************)
(* Notes.  For a note that the host has let go, the last NoteOn that is    *)
(* under way, or its voice in the server, has a NoteOff behind it.         *)
(***************************************************************************)
Message == Command \cup HelloFrame

IsOn(m, n)  == m.kind = "NoteOn" /\ m.note = n
IsOff(m, n) == m.kind = "NoteOff" /\ m.note = n

OffIn(n, s) == \E k \in DOMAIN s : IsOff(s[k], n)

\* s has a NoteOn without a NoteOff behind it.
Unanswered(n, s) ==
  \E j \in DOMAIN s : IsOn(s[j], n) /\ \A k \in DOMAIN s : k > j => ~IsOff(s[k], n)

LEMMA EmptyNotes ==
  ASSUME NEW n
  PROVE  ~OffIn(n, <<>>) /\ ~Unanswered(n, <<>>)
BY DEF OffIn, Unanswered

LEMMA AppendNotes ==
  ASSUME NEW s \in Seq(Message), NEW m \in Message, NEW n
  PROVE  /\ OffIn(n, Append(s, m)) <=> OffIn(n, s) \/ IsOff(m, n)
         /\ Unanswered(n, Append(s, m)) <=>
              ~IsOff(m, n) /\ (Unanswered(n, s) \/ IsOn(m, n))
<1> DEFINE t == Append(s, m)
<1>1. PICK l \in Nat : l = Len(s)
  OBVIOUS
<1>2. /\ DOMAIN s = 1..l /\ DOMAIN t = 1..(l + 1)
      /\ t[l + 1] = m /\ \A k \in 1..l : t[k] = s[k]
  BY <1>1
<1>3. IsOn(m, n) => ~IsOff(m, n)
  BY DEF IsOn, IsOff
<1> HIDE DEF t
<1>4. OffIn(n, t) <=> OffIn(n, s) \/ IsOff(m, n)
  BY <1>2 DEF OffIn
<1>5. ASSUME Unanswered(n, t) PROVE ~IsOff(m, n) /\ (Unanswered(n, s) \/ IsOn(m, n))
  <2>1. PICK j \in 1..(l + 1) : /\ IsOn(t[j], n)
                                /\ \A k \in 1..(l + 1) : k > j => ~IsOff(t[k], n)
    BY <1>2, <1>5 DEF Unanswered
  <2>2. CASE j = l + 1
    BY <1>2, <1>3, <2>1, <2>2
  <2>3. CASE j # l + 1
    <3>1. j \in 1..l /\ l + 1 > j
      BY <2>1, <2>3
    <3>2. IsOn(s[j], n) /\ \A k \in 1..l : k > j => ~IsOff(s[k], n)
      BY <1>2, <2>1, <3>1
    <3> QED BY <1>2, <2>1, <3>1, <3>2 DEF Unanswered
  <2> QED BY <2>2, <2>3
<1>6. ASSUME ~IsOff(m, n), Unanswered(n, s) PROVE Unanswered(n, t)
  <2>1. PICK j \in 1..l : /\ IsOn(s[j], n)
                          /\ \A k \in 1..l : k > j => ~IsOff(s[k], n)
    BY <1>2, <1>6 DEF Unanswered
  <2>2. j \in 1..(l + 1) /\ IsOn(t[j], n)
    BY <1>2, <2>1
  <2>3. \A k \in 1..(l + 1) : k > j => ~IsOff(t[k], n)
    <3> SUFFICES ASSUME NEW k \in 1..(l + 1), k > j PROVE ~IsOff(t[k], n)
      OBVIOUS
    <3>1. CASE k = l + 1
      BY <1>2, <1>6, <3>1
    <3>2. CASE k # l + 1
      BY <1>2, <2>1, <3>2
    <3> QED BY <3>1, <3>2
  <2> QED BY <1>2, <2>2, <2>3 DEF Unanswered
<1>7. ASSUME IsOn(m, n) PROVE Unanswered(n, t)
  <2>1. l + 1 \in DOMAIN t /\ \A k \in DOMAIN t : ~(k > l + 1)
    BY <1>2
  <2> QED BY <1>2, <1>7, <2>1 DEF Unanswered
<1> QED BY <1>3, <1>4, <1>5, <1>6, <1>7 DEF t

LEMMA TailNotes ==
  ASSUME NEW s \in Seq(Message), s # <<>>, NEW n
  PROVE  /\ OffIn(n, s) <=> OffIn(n, Tail(s)) \/ IsOff(Head(s), n)
         /\ Unanswered(n, s) <=>
              Unanswered(n, Tail(s)) \/ (IsOn(Head(s), n) /\ ~OffIn(n, Tail(s)))
<1> DEFINE t == Tail(s)
<1>1. PICK l \in Nat : Len(s) = l + 1
  OBVIOUS
<1>2. /\ DOMAIN s = 1..(l + 1) /\ DOMAIN t = 1..l
      /\ s[1] = Head(s) /\ \A k \in 1..l : t[k] = s[k + 1]
  BY <1>1
<1>3. \A k \in 1..(l + 1) : k = 1 \/ (k - 1 \in 1..l /\ s[k] = t[k - 1])
  <2> SUFFICES ASSUME NEW k \in 1..(l + 1), k # 1 PROVE k - 1 \in 1..l /\ s[k] = t[k - 1]
    OBVIOUS
  <2>1. k - 1 \in 1..l /\ (k - 1) + 1 = k
    OBVIOUS
  <2> QED BY <1>2, <2>1
<1> HIDE DEF t
<1>4. OffIn(n, s) <=> OffIn(n, t) \/ IsOff(Head(s), n)
  <2>1. 1 \in 1..(l + 1) /\ \A k \in 1..l : k + 1 \in 1..(l + 1)
    OBVIOUS
  <2> QED BY <1>2, <1>3, <2>1 DEF OffIn
<1>5. ASSUME Unanswered(n, s) PROVE Unanswered(n, t) \/ (IsOn(Head(s), n) /\ ~OffIn(n, t))
  <2>1. PICK j \in 1..(l + 1) : /\ IsOn(s[j], n)
                                /\ \A k \in 1..(l + 1) : k > j => ~IsOff(s[k], n)
    BY <1>2, <1>5 DEF Unanswered
  <2>2. \A k \in 1..l : k + 1 > j => ~IsOff(t[k], n)
    <3> SUFFICES ASSUME NEW k \in 1..l, k + 1 > j PROVE ~IsOff(t[k], n)
      OBVIOUS
    <3>1. k + 1 \in 1..(l + 1)
      OBVIOUS
    <3> QED BY <1>2, <2>1, <3>1
  <2>3. CASE j = 1
    <3>1. \A k \in 1..l : ~IsOff(t[k], n)
      BY <2>2, <2>3
    <3> QED BY <1>2, <2>1, <2>3, <3>1 DEF OffIn
  <2>4. CASE j # 1
    <3>1. j - 1 \in 1..l /\ IsOn(t[j - 1], n)
      BY <1>3, <2>1, <2>4
    <3>2. \A k \in 1..l : k > j - 1 => ~IsOff(t[k], n)
      BY <2>2
    <3> QED BY <1>2, <3>1, <3>2 DEF Unanswered
  <2> QED BY <2>3, <2>4
<1>6. ASSUME Unanswered(n, t) PROVE Unanswered(n, s)
  <2>1. PICK j \in 1..l : /\ IsOn(t[j], n)
                          /\ \A k \in 1..l : k > j => ~IsOff(t[k], n)
    BY <1>2, <1>6 DEF Unanswered
  <2>2. j + 1 \in 1..(l + 1) /\ IsOn(s[j + 1], n)
    BY <1>2, <2>1
  <2>3. \A k \in 1..(l + 1) : k > j + 1 => ~IsOff(s[k], n)
    <3> SUFFICES ASSUME NEW k \in 1..(l + 1), k > j + 1 PROVE ~IsOff(s[k], n)
      OBVIOUS
    <3>1. k - 1 \in 1..l /\ k - 1 > j /\ s[k] = t[k - 1]
      BY <1>3
    <3> QED BY <2>1, <3>1
  <2> QED BY <1>2, <2>2, <2>3 DEF Unanswered
<1>7. ASSUME IsOn(Head(s), n), ~OffIn(n, t) PROVE Unanswered(n, s)
  <2>1. 1 \in 1..(l + 1) /\ IsOn(s[1], n)
    BY <1>2, <1>7
  <2>2. \A k \in 1..(l + 1) : k > 1 => ~IsOff(s[k], n)
    <3> SUFFICES ASSUME NEW k \in 1..(l + 1), k > 1 PROVE ~IsOff(s[k], n)
      OBVIOUS
    <3>1. k - 1 \in 1..l /\ s[k] = t[k - 1]
      BY <1>3
    <3> QED BY <1>2, <1>7, <3>1 DEF OffIn
  <2> QED BY <1>2, <2>1, <2>2 DEF Unanswered
<1> QED BY <1>4, <1>5, <1>6, <1>7 DEF t

LEMMA ConcatNotes ==
  ASSUME NEW s \in Seq(Message), NEW t \in Seq(Message), NEW n
  PROVE  OffIn(n, s) \/ OffIn(n, t) => OffIn(n, s \o t)
<1>1. PICK l \in Nat, k \in Nat : l = Len(s) /\ k = Len(t)
  OBVIOUS
<1>2. /\ DOMAIN s = 1..l /\ DOMAIN t = 1..k /\ DOMAIN (s \o t) = 1..(l + k)
      /\ \A i \in 1..l : (s \o t)[i] = s[i]
      /\ \A i \in 1..k : (s \o t)[l + i] = t[i]
  BY <1>1
<1>3. /\ \A i \in 1..l : i \in 1..(l + k)
      /\ \A i \in 1..k : l + i \in 1..(l + k)
  OBVIOUS
<1> QED BY <1>2, <1>3 DEF OffIn

\* What ends a note: a NoteOff behind the last NoteOn of the channel, or one on
\* the wire behind what the server has or will get from there.
Ends(n) ==
  /\ ~Unanswered(n, channel)
  /\ \/ OffIn(n, channel)
     \/ ~Unanswered(n, wire) /\ (session /\ n \in sounding => OffIn(n, wire))

NotesEnd == \A n \in Note : n \in host_held \/ Ends(n)

NoteInv ==
  /\ ~session /\ ~old_session => sounding = {}
  /\ note_off_lost \/ NotesEnd

LEMMA NoteInit == Init => NoteInv
BY EmptyNotes DEF Init, NoteInv, NotesEnd, Ends

\* Typed queues, as the lemmas on notes want them.
LEMMA QueueTypes ==
  ASSUME TypeOK
  PROVE  /\ channel \in Seq(Message) /\ wire \in Seq(Message)
         /\ channel # <<>> => Tail(channel) \in Seq(Message) /\ Head(channel) \in Message
         /\ wire # <<>> => Tail(wire) \in Seq(Message) /\ Head(wire) \in Message
<1>1. channel \in Seq(Command) /\ Command \subseteq Message
  BY DEF TypeOK, Message
<1>2. channel \in Seq(Message) /\ wire \in Seq(Message)
  BY <1>1 DEF TypeOK, Message
<1> HIDE DEF Message
<1> QED BY <1>2, TailTyped

\* process() writes to the channel.
LEMMA ProcessNotes ==
  ASSUME TypeInv, NoteInv,
         (\E p \in Parameter : SendParameter(p)) \/ (\E n \in Note : NoteOn(n) \/ NoteOff(n))
  PROVE  NoteInv'
<1>0. channel \in Seq(Message) /\ wire \in Seq(Message)
  BY QueueTypes DEF TypeInv
<1>1. UNCHANGED <<wire, session, old_session, sounding>>
  BY DEF SendParameter, NoteOn, NoteOff, socket, serverVars
<1> SUFFICES ASSUME ~note_off_lost', NEW n \in Note, n \notin host_held'
             PROVE  Ends(n)'
  BY <1>1 DEF NoteInv, NotesEnd
<1>2. ASSUME NEW p \in Parameter, SendParameter(p) PROVE Ends(n)'
  <2> DEFINE cmd == [kind |-> "SetParameter", parameter |-> p, value |-> block[p]]
  <2>1. cmd \in Message /\ ~IsOn(cmd, n) /\ ~IsOff(cmd, n)
    BY DEF TypeInv, TypeOK, Message, Command, SetCommand, Config, IsOn, IsOff
  <2>2. channel' = channel \/ channel' = Append(channel, cmd)
    BY <1>2 DEF SendParameter
  <2>3. Ends(n)
    BY <1>2 DEF SendParameter, hostVars, NoteInv, NotesEnd
  <2> HIDE DEF cmd
  <2>4. /\ OffIn(n, channel') <=> OffIn(n, channel)
        /\ Unanswered(n, channel') <=> Unanswered(n, channel)
    <3>1. CASE channel' = channel
      BY <3>1
    <3>2. CASE channel' = Append(channel, cmd)
      BY <1>0, <2>1, <3>2, AppendNotes
    <3> QED BY <2>2, <3>1, <3>2
  <2> QED BY <1>1, <2>3, <2>4 DEF Ends
<1>3. ASSUME NEW n0 \in Note, NoteOn(n0) PROVE Ends(n)'
  <2> DEFINE cmd == [kind |-> "NoteOn", note |-> n0]
  <2>1. cmd \in Message /\ n # n0 /\ n \notin host_held /\ ~note_off_lost
    BY <1>3 DEF NoteOn, Message, Command, NoteCommand, processVars
  <2>2. ~IsOn(cmd, n) /\ ~IsOff(cmd, n)
    BY <2>1 DEF IsOn, IsOff
  <2>3. channel' = channel \/ channel' = Append(channel, cmd)
    BY <1>3 DEF NoteOn
  <2>4. Ends(n)
    BY <2>1 DEF NoteInv, NotesEnd
  <2> HIDE DEF cmd
  <2>5. /\ OffIn(n, channel') <=> OffIn(n, channel)
        /\ Unanswered(n, channel') <=> Unanswered(n, channel)
    <3>1. CASE channel' = channel
      BY <3>1
    <3>2. CASE channel' = Append(channel, cmd)
      BY <1>0, <2>1, <2>2, <3>2, AppendNotes
    <3> QED BY <2>3, <3>1, <3>2
  <2> QED BY <1>1, <2>4, <2>5 DEF Ends
<1>4. ASSUME NEW n0 \in Note, NoteOff(n0) PROVE Ends(n)'
  <2> DEFINE cmd == [kind |-> "NoteOff", note |-> n0]
  <2>1. cmd \in Message /\ ~note_off_lost /\ channel' = Append(channel, cmd)
        /\ (n = n0 \/ n \notin host_held)
    BY <1>4 DEF NoteOff, Message, Command, NoteCommand
  <2>2. CASE n = n0
    <3>1. IsOff(cmd, n)
      BY <2>2 DEF IsOff
    <3> HIDE DEF cmd
    <3>2. OffIn(n, channel') /\ ~Unanswered(n, channel')
      BY <1>0, <2>1, <3>1, AppendNotes
    <3> QED BY <3>2 DEF Ends
  <2>3. CASE n # n0
    <3>1. ~IsOn(cmd, n) /\ ~IsOff(cmd, n)
      BY <2>3 DEF IsOn, IsOff
    <3>2. Ends(n)
      BY <2>1, <2>3 DEF NoteInv, NotesEnd
    <3> HIDE DEF cmd
    <3>3. /\ OffIn(n, channel') <=> OffIn(n, channel)
          /\ Unanswered(n, channel') <=> Unanswered(n, channel)
      BY <1>0, <2>1, <3>1, AppendNotes
    <3> QED BY <1>1, <3>2, <3>3 DEF Ends
  <2> QED BY <2>2, <2>3
<1> QED BY <1>2, <1>3, <1>4

\* A queue that loses its head, or everything on the wire with the session,
\* loses no NoteOff that is still needed.
LEMMA ManagerNotes ==
  ASSUME TypeInv, NoteInv,
         ConnectFail \/ Drain \/ SendHello \/ Backoff \/ Forward \/ ForwardFail \/ Probe
  PROVE  NoteInv'
<1>0. /\ channel \in Seq(Message) /\ wire \in Seq(Message)
      /\ channel # <<>> => Tail(channel) \in Seq(Message) /\ Head(channel) \in Message
  BY QueueTypes DEF TypeInv
<1>1. UNCHANGED <<host_held, note_off_lost>>
  BY DEF ConnectFail, Drain, SendHello, Backoff, Forward, ForwardFail, Probe, hostVars,
     processVars
<1>2. ~session' /\ ~old_session' => sounding' = {}
  <2>1. CASE ConnectFail \/ Drain \/ SendHello \/ Forward
    BY <2>1 DEF ConnectFail, Drain, SendHello, Forward, serverVars, NoteInv
  <2>2. CASE Backoff \/ ForwardFail \/ Probe
    <3>1. Abandon /\ sounding' = sounding
      BY <2>2 DEF Backoff, ForwardFail, Probe
    <3>2. ~old_session' => ~old_session /\ ~session
      BY <3>1 DEF Abandon
    <3> QED BY <3>1, <3>2 DEF NoteInv
  <2> QED BY <2>1, <2>2
<1> SUFFICES ASSUME ~note_off_lost, NEW n \in Note, n \notin host_held
             PROVE  Ends(n)'
  BY <1>1, <1>2 DEF NoteInv, NotesEnd
<1>3. Ends(n)
  BY DEF NoteInv, NotesEnd
<1>4. ASSUME channel' = Tail(channel), channel # <<>> PROVE ~Unanswered(n, channel')
  BY <1>0, <1>3, <1>4, TailNotes DEF Ends
<1>5. CASE ConnectFail \/ Drain
  <2>1. /\ channel' = Tail(channel) /\ channel # <<>> /\ wire' = <<>> /\ ~session'
    BY <1>5 DEF ConnectFail, Drain, Take, socket, serverVars, TypeInv, NothingWrittenYet,
       SessionHasConfig
  <2> QED BY <1>4, <2>1, EmptyNotes DEF Ends
<1>6. CASE Backoff \/ Probe
  <2>1. channel' = channel /\ wire' = <<>> /\ ~session'
    BY <1>6 DEF Backoff, Probe, Abandon
  <2> QED BY <1>3, <2>1, EmptyNotes DEF Ends
<1>7. CASE ForwardFail
  <2>1. channel' = Tail(channel) /\ channel # <<>> /\ wire' = <<>> /\ ~session'
    BY <1>7 DEF ForwardFail, Take, Abandon
  <2> QED BY <1>4, <2>1, EmptyNotes DEF Ends
<1>8. CASE SendHello
  <2> DEFINE hello == [kind |-> "Hello", config |-> load.got]
  <2>1. wire = <<>> /\ wire' = Append(wire, hello) /\ channel' = channel /\ session' = session
        /\ ~session
    BY <1>8 DEF SendHello, Loaded, serverVars, TypeInv, NothingWrittenYet, SessionHasConfig
  <2>2. DOMAIN wire' = {1} /\ wire'[1] = hello
    BY <2>1
  <2>3. ~IsOn(hello, n)
    BY DEF IsOn
  <2> HIDE DEF hello
  <2>4. ~Unanswered(n, wire')
    BY <2>2, <2>3 DEF Unanswered
  <2> QED BY <1>3, <2>1, <2>4 DEF Ends
<1>9. CASE Forward
  <2> DEFINE m == Head(channel)
  <2>1. /\ channel # <<>> /\ channel' = Tail(channel) /\ wire' = Append(wire, m)
        /\ session' = session /\ sounding' = sounding
    BY <1>9 DEF Forward, Take, serverVars
  <2>2. /\ m \in Message
        /\ OffIn(n, channel) <=> OffIn(n, channel') \/ IsOff(m, n)
        /\ Unanswered(n, channel) <=>
             Unanswered(n, channel') \/ (IsOn(m, n) /\ ~OffIn(n, channel'))
    BY <1>0, <2>1, TailNotes
  <2>3. /\ OffIn(n, wire') <=> OffIn(n, wire) \/ IsOff(m, n)
        /\ Unanswered(n, wire') <=> ~IsOff(m, n) /\ (Unanswered(n, wire) \/ IsOn(m, n))
    BY <1>0, <2>1, <2>2, AppendNotes
  <2> HIDE DEF m
  <2> QED BY <1>3, <2>1, <2>2, <2>3 DEF Ends
<1> QED BY <1>5, <1>6, <1>7, <1>8, <1>9

\* The server takes the head of the wire, loses the connection, or cleans up.
LEMMA ServerNotes ==
  ASSUME TypeInv, NoteInv,
         AcceptHello \/ RefuseHello \/ Apply \/ Cleanup \/ Shed \/ ServerCrash
           \/ DropConnection
  PROVE  NoteInv'
<1>0. /\ wire \in Seq(Message)
      /\ wire # <<>> => Tail(wire) \in Seq(Message) /\ Head(wire) \in Message
  BY QueueTypes DEF TypeInv
<1>1. UNCHANGED <<host_held, channel>>
  BY DEF AcceptHello, RefuseHello, Apply, Cleanup, Shed, ServerCrash, DropConnection,
     hostVars
<1>2. note_off_lost => note_off_lost'
  BY DEF AcceptHello, RefuseHello, Apply, Cleanup, Shed, ServerCrash, DropConnection,
     processVars
<1>3. ~session' /\ ~old_session' => sounding' = {}
  <2>1. CASE AcceptHello \/ Cleanup \/ ServerCrash
    BY <2>1 DEF AcceptHello, Cleanup, ServerCrash
  <2>2. CASE RefuseHello \/ Apply \/ Shed \/ DropConnection
    <3>1. CASE RefuseHello \/ Shed
      BY <3>1 DEF RefuseHello, Shed, serverVars, NoteInv
    <3>2. CASE Apply
      BY <3>2 DEF Apply
    <3>3. CASE DropConnection
      BY <3>3 DEF DropConnection, NoteInv
    <3> QED BY <2>2, <3>1, <3>2, <3>3
  <2> QED BY <2>1, <2>2
<1> SUFFICES ASSUME ~note_off_lost', NEW n \in Note, n \notin host_held
             PROVE  Ends(n)'
  BY <1>1, <1>3 DEF NoteInv, NotesEnd
<1>4. Ends(n)
  BY <1>2 DEF NoteInv, NotesEnd
<1>5. CASE RefuseHello \/ ServerCrash \/ DropConnection
  <2>1. wire' = <<>> /\ ~session'
    BY <1>5 DEF RefuseHello, ServerCrash, DropConnection, Reset, serverVars, TypeInv,
       SessionHasConfig
  <2> QED BY <1>1, <1>4, <2>1, EmptyNotes DEF Ends
<1>6. CASE Cleanup
  BY <1>1, <1>4, <1>6 DEF Cleanup, Ends, socket
<1>7. CASE AcceptHello \/ Apply \/ Shed
  <2> DEFINE m == Head(wire)
  <2>1. wire # <<>> /\ wire' = Tail(wire)
    BY <1>7 DEF AcceptHello, Apply, Shed, Serving
  <2>2. /\ OffIn(n, wire) <=> OffIn(n, wire') \/ IsOff(m, n)
        /\ Unanswered(n, wire) <=>
             Unanswered(n, wire') \/ (IsOn(m, n) /\ ~OffIn(n, wire'))
    BY <1>0, <2>1, TailNotes
  <2>3. CASE AcceptHello
    <3>1. m.kind = "Hello" /\ sounding' = sounding /\ (session \/ sounding = {})
      BY <2>3 DEF AcceptHello, NoteInv
    <3>2. ~IsOn(m, n) /\ ~IsOff(m, n)
      BY <3>1 DEF IsOn, IsOff
    <3> HIDE DEF m
    <3> QED BY <1>1, <1>4, <2>2, <3>1, <3>2 DEF Ends
  <2>4. CASE Apply
    <3>1. session /\ session' = session
      BY <2>4 DEF Apply
    <3>2. m.kind = "NoteOn" => sounding' = sounding \cup {m.note}
      BY <2>4 DEF Apply
    <3>3. m.kind = "NoteOff" => sounding' = sounding \ {m.note}
      BY <2>4 DEF Apply
    <3>4. m.kind \notin {"NoteOn", "NoteOff"} => sounding' = sounding
      BY <2>4 DEF Apply
    <3> HIDE DEF m
    <3>5. n \in sounding' => (n \in sounding \/ IsOn(m, n)) /\ ~IsOff(m, n)
      BY <3>2, <3>3, <3>4 DEF IsOn, IsOff
    <3>6. IsOn(m, n) => ~IsOff(m, n)
      BY DEF IsOn, IsOff
    <3> QED BY <1>1, <1>4, <2>2, <3>1, <3>5, <3>6 DEF Ends
  <2>5. CASE Shed
    <3>1. session' = session /\ sounding' = sounding /\ m.kind # "NoteOff"
      BY <2>5 DEF Shed, serverVars
    <3>2. ~IsOff(m, n)
      BY <3>1 DEF IsOff
    <3> HIDE DEF m
    <3> QED BY <1>1, <1>4, <2>2, <3>1, <3>2 DEF Ends
  <2> QED BY <1>7, <2>3, <2>4, <2>5
<1> QED BY <1>5, <1>6, <1>7

\* Every step keeps the invariant.
LEMMA NoteStep == TypeInv /\ NoteInv /\ [Next]_vars => NoteInv'
<1> SUFFICES ASSUME TypeInv, NoteInv, [Next]_vars PROVE NoteInv'
  OBVIOUS
<1>1. CASE UNCHANGED <<host_held, note_off_lost, channel, wire, session, old_session, sounding>>
  BY <1>1 DEF NoteInv, NotesEnd, Ends
<1>2. ASSUME NEW p \in Parameter, SendParameter(p) PROVE NoteInv'
  BY <1>2, ProcessNotes
<1>3. ASSUME NEW n \in Note, NoteOn(n) \/ NoteOff(n) PROVE NoteInv'
  BY <1>3, ProcessNotes
<1>4. CASE ConnectFail \/ Drain \/ SendHello \/ Backoff \/ Forward \/ ForwardFail \/ Probe
  BY <1>4, ManagerNotes
<1>5. CASE AcceptHello \/ RefuseHello \/ Apply \/ Cleanup \/ Shed \/ ServerCrash
             \/ DropConnection
  BY <1>5, ServerNotes
<1> QED
  BY <1>1, <1>2, <1>3, <1>4, <1>5
  DEF Next, HostStep, ProcessStep, ManagerStep, ServerStep, Fault, Initialize,
      ChangeParameter, BeginQuietBlock, BeginBlock, EndStore, EndSend, EndBlock, StoreCell,
      Connect, DrainDone, LoadSequence, CheckSequence, SendHelloFail, AwaitAccepted,
      AwaitFail, LoadCell, ServerStart, vars, hostVars, processVars, socket, serverVars

\* Whatever is dropped, drained, refused or lost with a connection, a note that
\* the host has let go ends in the server, unless a queue was full for its NoteOff.
THEOREM NoNoteIsEverStuck == Spec => []NoNoteStuck
<1>1. TypeInv /\ NoteInv => NoNoteStuck
  <2> SUFFICES ASSUME TypeInv, NoteInv, ~note_off_lost, NEW n \in Note, StuckNote(n)
               PROVE  FALSE
    BY DEF NoNoteStuck
  <2>1. n \in sounding /\ n \notin host_held /\ session
    BY DEF StuckNote
  <2>2. OffIn(n, channel) \/ OffIn(n, wire)
    BY <2>1 DEF NoteInv, NotesEnd, Ends
  <2>3. OffIn(n, wire \o channel)
    BY <2>2, QueueTypes, ConcatNotes DEF TypeInv
  <2> QED BY <2>3 DEF OffIn, IsOff, StuckNote, Underway
<1> QED BY <1>1, TypeInit, TypeStep, NoteInit, NoteStep, PTL DEF Spec

-----------------------------------------------------------------------------
(***************************************************************************)
(* Parameters.  A message tells the value of a parameter if it sets it or  *)
(* is a Hello.                                                             *)
(***************************************************************************)
Tells(m, p) == m.kind = "Hello" \/ (m.kind = "SetParameter" /\ m.parameter = p)
Says(m, p)  == IF m.kind = "Hello" THEN m.config[p] ELSE m.value

Silent(p, s) == \A k \in DOMAIN s : ~Tells(s[k], p)

\* The last message of s about p tells v.
LastIs(p, s, v) ==
  \E k \in DOMAIN s :
    /\ Tells(s[k], p) /\ Says(s[k], p) = v
    /\ \A l \in DOMAIN s : l > k => ~Tells(s[l], p)

LEMMA AppendTells ==
  ASSUME NEW s \in Seq(Message), NEW m \in Message, NEW p, NEW v
  PROVE  /\ Silent(p, Append(s, m)) <=> Silent(p, s) /\ ~Tells(m, p)
         /\ Tells(m, p) => LastIs(p, Append(s, m), Says(m, p))
         /\ ~Tells(m, p) /\ LastIs(p, s, v) => LastIs(p, Append(s, m), v)
<1> DEFINE t == Append(s, m)
<1>1. PICK l \in Nat : l = Len(s)
  OBVIOUS
<1>2. /\ DOMAIN s = 1..l /\ DOMAIN t = 1..(l + 1)
      /\ t[l + 1] = m /\ \A k \in 1..l : t[k] = s[k]
  BY <1>1
<1>3. /\ l + 1 \in 1..(l + 1) /\ \A k \in 1..l : k \in 1..(l + 1)
      /\ \A k \in 1..(l + 1) : ~(k > l + 1) /\ (k \in 1..l \/ k = l + 1)
  OBVIOUS
<1> HIDE DEF t
<1>4. Silent(p, t) <=> Silent(p, s) /\ ~Tells(m, p)
  BY <1>2, <1>3 DEF Silent
<1>5. Tells(m, p) => LastIs(p, t, Says(m, p))
  BY <1>2, <1>3 DEF LastIs
<1>6. ASSUME ~Tells(m, p), LastIs(p, s, v) PROVE LastIs(p, t, v)
  <2>1. PICK k \in 1..l : /\ Tells(s[k], p) /\ Says(s[k], p) = v
                          /\ \A i \in 1..l : i > k => ~Tells(s[i], p)
    BY <1>2, <1>6 DEF LastIs
  <2>2. \A i \in 1..(l + 1) : i > k => ~Tells(t[i], p)
    BY <1>2, <1>3, <1>6, <2>1
  <2> QED BY <1>2, <1>3, <2>1, <2>2 DEF LastIs
<1> QED BY <1>4, <1>5, <1>6 DEF t

LEMMA TailTells ==
  ASSUME NEW s \in Seq(Message), s # <<>>, NEW p, NEW v
  PROVE  /\ Silent(p, s) <=> Silent(p, Tail(s)) /\ ~Tells(Head(s), p)
         /\ LastIs(p, s, v) =>
              \/ LastIs(p, Tail(s), v)
              \/ Silent(p, Tail(s)) /\ Tells(Head(s), p) /\ Says(Head(s), p) = v
<1> DEFINE t == Tail(s)
<1>1. PICK l \in Nat : Len(s) = l + 1
  OBVIOUS
<1>2. /\ DOMAIN s = 1..(l + 1) /\ DOMAIN t = 1..l
      /\ s[1] = Head(s) /\ \A k \in 1..l : t[k] = s[k + 1]
  BY <1>1
<1>3. \A k \in 1..(l + 1) : k = 1 \/ (k - 1 \in 1..l /\ s[k] = t[k - 1])
  <2> SUFFICES ASSUME NEW k \in 1..(l + 1), k # 1 PROVE k - 1 \in 1..l /\ s[k] = t[k - 1]
    OBVIOUS
  <2>1. k - 1 \in 1..l /\ (k - 1) + 1 = k
    OBVIOUS
  <2> QED BY <1>2, <2>1
<1>4. 1 \in 1..(l + 1) /\ \A k \in 1..l : k + 1 \in 1..(l + 1)
  OBVIOUS
<1> HIDE DEF t
<1>5. Silent(p, s) <=> Silent(p, t) /\ ~Tells(Head(s), p)
  BY <1>2, <1>3, <1>4 DEF Silent
<1>6. ASSUME LastIs(p, s, v)
      PROVE  \/ LastIs(p, t, v)
             \/ Silent(p, t) /\ Tells(Head(s), p) /\ Says(Head(s), p) = v
  <2>1. PICK k \in 1..(l + 1) : /\ Tells(s[k], p) /\ Says(s[k], p) = v
                                /\ \A i \in 1..(l + 1) : i > k => ~Tells(s[i], p)
    BY <1>2, <1>6 DEF LastIs
  <2>2. \A i \in 1..l : i + 1 > k => ~Tells(t[i], p)
    <3> SUFFICES ASSUME NEW i \in 1..l, i + 1 > k PROVE ~Tells(t[i], p)
      OBVIOUS
    <3> QED BY <1>2, <1>4, <2>1
  <2>3. CASE k = 1
    <3>1. \A i \in 1..l : ~Tells(t[i], p)
      BY <2>2, <2>3
    <3> QED BY <1>2, <2>1, <2>3, <3>1 DEF Silent
  <2>4. CASE k # 1
    <3>1. k - 1 \in 1..l /\ Tells(t[k - 1], p) /\ Says(t[k - 1], p) = v
      BY <1>3, <2>1, <2>4
    <3>2. \A i \in 1..l : i > k - 1 => ~Tells(t[i], p)
      BY <2>2
    <3> QED BY <1>2, <3>1, <3>2 DEF LastIs
  <2> QED BY <2>3, <2>4
<1> QED BY <1>5, <1>6 DEF t

LEMMA ConcatTells ==
  ASSUME NEW s \in Seq(Message), NEW t \in Seq(Message), NEW p, NEW v
  PROVE  /\ LastIs(p, t, v) => LastIs(p, s \o t, v)
         /\ LastIs(p, s, v) /\ Silent(p, t) => LastIs(p, s \o t, v)
         /\ Silent(p, s) /\ Silent(p, t) => Silent(p, s \o t)
<1> DEFINE u == s \o t
<1>1. PICK l \in Nat, n \in Nat : l = Len(s) /\ n = Len(t)
  OBVIOUS
<1>2. /\ DOMAIN s = 1..l /\ DOMAIN t = 1..n /\ DOMAIN u = 1..(l + n)
      /\ \A i \in 1..l : u[i] = s[i]
      /\ \A i \in 1..n : u[l + i] = t[i]
  BY <1>1
<1>3. /\ \A i \in 1..l : i \in 1..(l + n)
      /\ \A i \in 1..n : l + i \in 1..(l + n)
  OBVIOUS
<1>4. \A i \in 1..(l + n) : i \in 1..l \/ (i - l \in 1..n /\ l + (i - l) = i /\ i > l)
  OBVIOUS
<1> HIDE DEF u
<1>5. ASSUME LastIs(p, t, v) PROVE LastIs(p, u, v)
  <2>1. PICK k \in 1..n : /\ Tells(t[k], p) /\ Says(t[k], p) = v
                          /\ \A i \in 1..n : i > k => ~Tells(t[i], p)
    BY <1>2, <1>5 DEF LastIs
  <2>2. \A i \in 1..(l + n) : i > l + k => ~Tells(u[i], p)
    <3> SUFFICES ASSUME NEW i \in 1..(l + n), i > l + k PROVE ~Tells(u[i], p)
      OBVIOUS
    <3>1. i - l \in 1..n /\ l + (i - l) = i /\ i - l > k
      OBVIOUS
    <3>2. u[i] = t[i - l]
      BY <1>2, <3>1
    <3> QED BY <2>1, <3>1, <3>2
  <2>3. Tells(u[l + k], p) /\ Says(u[l + k], p) = v
    BY <1>2, <2>1
  <2>4. l + k \in DOMAIN u /\ DOMAIN u = 1..(l + n)
    BY <1>2, <1>3
  <2> QED BY <2>2, <2>3, <2>4 DEF LastIs
<1>6. ASSUME LastIs(p, s, v), Silent(p, t) PROVE LastIs(p, u, v)
  <2>1. PICK k \in 1..l : /\ Tells(s[k], p) /\ Says(s[k], p) = v
                          /\ \A i \in 1..l : i > k => ~Tells(s[i], p)
    BY <1>2, <1>6 DEF LastIs
  <2>2. \A i \in 1..n : ~Tells(t[i], p)
    BY <1>2, <1>6 DEF Silent
  <2>3. \A i \in 1..(l + n) : i > k => ~Tells(u[i], p)
    <3> SUFFICES ASSUME NEW i \in 1..(l + n), i > k PROVE ~Tells(u[i], p)
      OBVIOUS
    <3>1. CASE i \in 1..l
      BY <1>2, <2>1, <3>1
    <3>2. CASE i \notin 1..l
      <4>1. i - l \in 1..n /\ l + (i - l) = i
        BY <1>4, <3>2
      <4>2. u[i] = t[i - l]
        BY <1>2, <4>1
      <4> QED BY <2>2, <4>1, <4>2
    <3> QED BY <3>1, <3>2
  <2>4. k \in DOMAIN u /\ Tells(u[k], p) /\ Says(u[k], p) = v /\ DOMAIN u = 1..(l + n)
    BY <1>2, <1>3, <2>1
  <2> QED BY <2>3, <2>4 DEF LastIs
<1>7. ASSUME Silent(p, s), Silent(p, t) PROVE Silent(p, u)
  <2>1. (\A i \in 1..l : ~Tells(s[i], p)) /\ \A i \in 1..n : ~Tells(t[i], p)
    BY <1>2, <1>7 DEF Silent
  <2>2. ASSUME NEW i \in 1..(l + n) PROVE ~Tells(u[i], p)
    <3>1. CASE i \in 1..l
      BY <1>2, <2>1, <3>1
    <3>2. CASE i \notin 1..l
      <4>1. i - l \in 1..n /\ l + (i - l) = i
        BY <1>4, <3>2
      <4>2. u[i] = t[i - l]
        BY <1>2, <4>1
      <4> QED BY <2>1, <4>1, <4>2
    <3> QED BY <3>1, <3>2
  <2> QED BY <1>2, <2>2 DEF Silent
<1> QED BY <1>5, <1>6, <1>7 DEF u

\* What the server will have is told by the last message about p, and by its
\* own configuration if there is none.
LEMMA LatestTold ==
  ASSUME TypeOK, NEW p \in Parameter, NEW v
  PROVE  /\ LastIs(p, Underway, v) => Latest(p) = v
         /\ Silent(p, Underway) => Latest(p) = config[p]
<1> DEFINE K == {k \in DOMAIN Underway :
              \/ Underway[k].kind = "Hello"
              \/ Underway[k].kind = "SetParameter" /\ Underway[k].parameter = p}
<1>1. /\ \A j \in K : j \in DOMAIN Underway /\ Tells(Underway[j], p)
      /\ \A j \in DOMAIN Underway : Tells(Underway[j], p) => j \in K
  BY DEF Tells
<1>2. ASSUME Silent(p, Underway) PROVE Latest(p) = config[p]
  <2>1. K = {}
    BY <1>1, <1>2 DEF Silent
  <2> QED BY <2>1 DEF Latest
<1>3. ASSUME LastIs(p, Underway, v) PROVE Latest(p) = v
  <2>1. PICK k \in DOMAIN Underway :
           /\ Tells(Underway[k], p) /\ Says(Underway[k], p) = v
           /\ \A l \in DOMAIN Underway : l > k => ~Tells(Underway[l], p)
    BY <1>3 DEF LastIs
  <2>2. Underway \in Seq(Message)
    BY QueueTypes DEF Underway
  <2>3. DOMAIN Underway \subseteq Int
    BY <2>2
  <2> DEFINE c == CHOOSE j \in K : \A l \in K : l <= j
  <2>4. k \in K /\ \A l \in K : l <= k
    BY <1>1, <2>1, <2>3
  <2>5. c \in K /\ \A l \in K : l <= c
    BY <2>4
  <2>6. c = k
    BY <2>3, <2>4, <2>5
  <2>7. Latest(p) = Says(Underway[c], p)
    BY <2>4 DEF Latest, Says
  <2> QED BY <2>1, <2>6, <2>7
<1> QED BY <1>2, <1>3

-----------------------------------------------------------------------------
(***************************************************************************)
(* The configuration.  process() owes the channel a value of p from the    *)
(* moment it reads a new one until it has tried to send it; at any other   *)
(* time block[p] is the value in the snapshot, the last one in the channel *)
(* and, if the channel tells none, the one the connection carries.  A torn *)
(* load is covered: a cell that was read too early is owed or in the       *)
(* channel.                                                                *)
(***************************************************************************)
Due(p) == \/ pc = "store" /\ last_sent[p] # block[p]
          \/ pc = "send" /\ p \in todo

\* process() and the snapshot.
CellInv(p) ==
  ~param_lost =>
    /\ pc # "store" \/ p \notin todo \/ last_sent[p] = block[p] => cells[p] = block[p]
    /\ pc = "idle" => last_sent[p] = None \/ last_sent[p] = block[p]
    /\ pc = "events" \/ (pc = "send" /\ p \notin todo) => last_sent[p] = block[p]

Linked == at \in {"await", "live", "backoff"} /\ link = "open"

\* The channel, what has been loaded, and the connection.
CarriesInv(p) ==
  ~param_lost /\ ~Due(p) =>
    /\ Silent(p, channel) \/ LastIs(p, channel, block[p])
    /\ Silent(p, channel) =>
         /\ at = "read" /\ load.got[p] # None => load.got[p] = block[p]
         /\ Linked => \/ LastIs(p, wire, block[p])
                      \/ Silent(p, wire) /\ config[p] = block[p]

\* A connection without a session has its Hello at the head of the wire.
HelloPending == Linked /\ ~session => wire # <<>> /\ Head(wire).kind = "Hello"

ConfigInv ==
  /\ HelloPending
  /\ \A p \in Parameter : CellInv(p) /\ CarriesInv(p)

LEMMA ConfigInit == Init => ConfigInv
BY PluginAssumption DEF Init, ConfigInv, HelloPending, Linked, CellInv, CarriesInv, Due, Silent

\* The steps of process() that do not touch the channel.
LEMMA BlockConfig ==
  ASSUME TypeInv, ConfigInv,
         Initialize \/ BeginQuietBlock \/ BeginBlock \/ EndStore \/ EndSend \/ EndBlock
           \/ (\E p \in Parameter : StoreCell(p))
  PROVE  ConfigInv'
<1>1. UNCHANGED <<channel, at, link, wire, session, config, param_lost>>
  BY DEF Initialize, BeginQuietBlock, BeginBlock, EndStore, EndSend, EndBlock, StoreCell,
     processVars, socket, serverVars, manager
<1>2. load'.got = load.got
  <2>1. CASE BeginBlock \/ EndStore
    <3>1. load' = [load EXCEPT !.moved = TRUE]
      BY <2>1 DEF BeginBlock, EndStore
    <3> QED BY <3>1 DEF TypeInv, TypeOK
  <2>2. CASE ~(BeginBlock \/ EndStore)
    BY <2>2 DEF Initialize, BeginQuietBlock, EndSend, EndBlock, StoreCell, manager
  <2> QED BY <2>1, <2>2
<1>3. HelloPending'
  BY <1>1 DEF ConfigInv, HelloPending, Linked
<1> SUFFICES ASSUME NEW p \in Parameter PROVE CellInv(p)' /\ CarriesInv(p)'
  BY <1>3 DEF ConfigInv
<1>4. CellInv(p) /\ CarriesInv(p)
  BY DEF ConfigInv
<1>5. block \in [Parameter -> Value] /\ params \in [Parameter -> Value]
  BY DEF TypeInv, TypeOK, Config
<1>6. ASSUME CellInv(p)', ~param_lost /\ ~Due(p)' => ~Due(p) /\ block'[p] = block[p]
      PROVE  CellInv(p)' /\ CarriesInv(p)'
  BY <1>1, <1>2, <1>4, <1>6 DEF CarriesInv, Linked
<1>7. CASE Initialize
  <2>1. /\ pc = "idle" /\ last_sent'[p] = None
        /\ UNCHANGED <<pc, block, todo, cells>>
    BY <1>7 DEF Initialize, snapshot
  <2> QED BY <1>1, <1>4, <1>6, <2>1 DEF CellInv, Due
<1>8. CASE BeginQuietBlock
  <2>1. /\ pc = "idle" /\ pc' = "events" /\ block' = params /\ last_sent[p] = params[p]
        /\ UNCHANGED <<cells, last_sent, todo>>
    BY <1>8 DEF BeginQuietBlock, Unsent, snapshot
  <2>2. params[p] # None
    BY <1>5, PluginAssumption
  <2>3. ~param_lost => block[p] = params[p]
    BY <1>4, <2>1, <2>2 DEF CellInv
  <2>4. CellInv(p)'
    BY <1>1, <1>4, <2>1, <2>3 DEF CellInv
  <2> QED BY <1>1, <1>4, <1>6, <2>1, <2>3, <2>4 DEF Due
<1>9. CASE BeginBlock
  <2>1. /\ pc = "idle" /\ pc' = "store" /\ block' = params /\ todo' = Parameter
        /\ UNCHANGED <<cells, last_sent>>
    BY <1>9 DEF BeginBlock
  <2>2. params[p] # None
    BY <1>5, PluginAssumption
  <2>3. ~param_lost /\ last_sent[p] = params[p] => block[p] = params[p] /\ cells[p] = block[p]
    BY <1>4, <2>1, <2>2 DEF CellInv
  <2>4. CellInv(p)'
    BY <1>1, <2>1, <2>3 DEF CellInv
  <2> QED BY <1>1, <1>6, <2>1, <2>3, <2>4 DEF Due
<1>10. CASE EndStore
  <2>1. /\ pc = "store" /\ todo = {} /\ pc' = "send"
        /\ (p \in todo' <=> last_sent[p] # block[p])
        /\ UNCHANGED <<block, cells, last_sent>>
    BY <1>10 DEF EndStore, Unsent
  <2>2. CellInv(p)'
    BY <1>1, <1>4, <2>1 DEF CellInv
  <2> QED BY <1>1, <1>6, <2>1, <2>2 DEF Due
<1>11. CASE EndSend
  <2>1. /\ pc = "send" /\ todo = {} /\ pc' = "events"
        /\ UNCHANGED <<block, cells, last_sent, todo>>
    BY <1>11 DEF EndSend, snapshot
  <2>2. CellInv(p)'
    BY <1>1, <1>4, <2>1 DEF CellInv
  <2> QED BY <1>1, <1>6, <2>1, <2>2 DEF Due
<1>12. CASE EndBlock
  <2>1. /\ pc = "events" /\ pc' = "idle"
        /\ UNCHANGED <<block, cells, last_sent, todo>>
    BY <1>12 DEF EndBlock, snapshot
  <2>2. CellInv(p)'
    BY <1>1, <1>4, <2>1 DEF CellInv
  <2> QED BY <1>1, <1>6, <2>1, <2>2 DEF Due
<1>13. ASSUME NEW q \in Parameter, StoreCell(q) PROVE CellInv(p)' /\ CarriesInv(p)'
  <2>1. /\ pc = "store" /\ todo' = todo \ {q}
        /\ cells'[p] = IF p = q THEN block[p] ELSE cells[p]
        /\ UNCHANGED <<pc, block, last_sent>>
    BY <1>13 DEF StoreCell, TypeInv, TypeOK, Config
  <2>2. CellInv(p)'
    BY <1>1, <1>4, <2>1 DEF CellInv
  <2> QED BY <1>1, <1>6, <2>1, <2>2 DEF Due
<1> QED BY <1>7, <1>8, <1>9, <1>10, <1>11, <1>12, <1>13

\* The steps of process() that write to the channel.
LEMMA SendConfig ==
  ASSUME TypeInv, ConfigInv,
         (\E p \in Parameter : SendParameter(p)) \/ (\E n \in Note : NoteOn(n) \/ NoteOff(n))
  PROVE  ConfigInv'
<1>0. channel \in Seq(Message)
  BY QueueTypes DEF TypeInv
<1>1. UNCHANGED <<pc, block, cells, at, load, link, wire, session, config>>
  BY DEF SendParameter, NoteOn, NoteOff, processVars, snapshot, socket, serverVars, manager
<1>2. HelloPending'
  BY <1>1 DEF ConfigInv, HelloPending, Linked
<1> SUFFICES ASSUME NEW p \in Parameter PROVE CellInv(p)' /\ CarriesInv(p)'
  BY <1>2 DEF ConfigInv
<1>3. CellInv(p) /\ CarriesInv(p)
  BY DEF ConfigInv
<1>4. ASSUME NEW cmd \in Message, ~Tells(cmd, p),
             channel' = channel \/ channel' = Append(channel, cmd)
      PROVE  /\ Silent(p, channel') => Silent(p, channel)
             /\ Silent(p, channel) => Silent(p, channel')
             /\ LastIs(p, channel, block[p]) => LastIs(p, channel', block[p])
  <2>1. CASE channel' = channel
    BY <2>1
  <2>2. CASE channel' = Append(channel, cmd)
    BY <1>0, <1>4, <2>2, AppendTells
  <2> QED BY <1>4, <2>1, <2>2
<1>5. ASSUME NEW cmd \in Message, ~Tells(cmd, p),
             channel' = channel \/ channel' = Append(channel, cmd),
             ~param_lost' => ~param_lost,
             last_sent'[p] = last_sent[p], p \in todo' <=> p \in todo
      PROVE  CellInv(p)' /\ CarriesInv(p)'
  <2>1. /\ Silent(p, channel') => Silent(p, channel)
        /\ Silent(p, channel) => Silent(p, channel')
        /\ LastIs(p, channel, block[p]) => LastIs(p, channel', block[p])
    BY <1>4, <1>5
  <2>2. CellInv(p)'
    BY <1>1, <1>3, <1>5 DEF CellInv
  <2>3. ~param_lost' /\ ~Due(p)' => ~param_lost /\ ~Due(p)
    BY <1>1, <1>5 DEF Due
  <2> QED BY <1>1, <1>3, <2>1, <2>2, <2>3 DEF CarriesInv, Linked
<1>6. ASSUME NEW n \in Note, NoteOn(n) PROVE CellInv(p)' /\ CarriesInv(p)'
  <2> DEFINE cmd == [kind |-> "NoteOn", note |-> n]
  <2>1. cmd \in Message /\ ~Tells(cmd, p)
    BY DEF Message, Command, NoteCommand, Tells
  <2>2. channel' = channel \/ channel' = Append(channel, cmd)
    BY <1>6 DEF NoteOn
  <2>3. UNCHANGED <<param_lost, last_sent, todo>>
    BY <1>6 DEF NoteOn, processVars
  <2> HIDE DEF cmd
  <2> QED BY <1>5, <2>1, <2>2, <2>3
<1>7. ASSUME NEW n \in Note, NoteOff(n) PROVE CellInv(p)' /\ CarriesInv(p)'
  <2> DEFINE cmd == [kind |-> "NoteOff", note |-> n]
  <2>1. cmd \in Message /\ ~Tells(cmd, p)
    BY DEF Message, Command, NoteCommand, Tells
  <2>2. channel' = channel \/ channel' = Append(channel, cmd)
    BY <1>7 DEF NoteOff
  <2>3. UNCHANGED <<param_lost, last_sent, todo>>
    BY <1>7 DEF NoteOff
  <2> HIDE DEF cmd
  <2> QED BY <1>5, <2>1, <2>2, <2>3
<1>8. ASSUME NEW q \in Parameter, SendParameter(q) PROVE CellInv(p)' /\ CarriesInv(p)'
  <2> DEFINE cmd == [kind |-> "SetParameter", parameter |-> q, value |-> block[q]]
  <2>1. cmd \in Message
    BY DEF TypeInv, TypeOK, Message, Command, SetCommand, Config
  <2>2. pc = "send" /\ q \in todo /\ todo' = todo \ {q}
    BY <1>8 DEF SendParameter
  <2>3. CASE ChannelFull
    BY <1>8, <2>3 DEF SendParameter, CellInv, CarriesInv
  <2>4. CASE ~ChannelFull
    <3>1. channel' = Append(channel, cmd) /\ param_lost' = param_lost
      BY <1>8, <2>4 DEF SendParameter
    <3>2. last_sent'[p] = IF p = q THEN block[p] ELSE last_sent[p]
      BY <1>8, <2>4 DEF SendParameter, TypeInv, TypeOK
    <3>3. CASE p # q
      <4>1. ~Tells(cmd, p)
        BY <3>3 DEF Tells
      <4>2. last_sent'[p] = last_sent[p] /\ (p \in todo' <=> p \in todo)
        BY <2>2, <3>2, <3>3
      <4> HIDE DEF cmd
      <4> QED BY <1>5, <2>1, <3>1, <4>1, <4>2
    <3>4. CASE p = q
      <4>1. Tells(cmd, p) /\ Says(cmd, p) = block[p]
        BY <3>4 DEF Tells, Says
      <4>2. last_sent'[p] = block[p] /\ p \notin todo'
        BY <2>2, <3>2, <3>4
      <4>3. CellInv(p)'
        BY <1>1, <1>3, <2>2, <3>1, <4>2 DEF CellInv
      <4> HIDE DEF cmd
      <4>4. ~Silent(p, channel') /\ LastIs(p, channel', block[p])
        BY <1>0, <2>1, <3>1, <4>1, AppendTells
      <4> QED BY <1>1, <4>3, <4>4 DEF CarriesInv
    <3> QED BY <3>3, <3>4
  <2> QED BY <2>3, <2>4
<1> QED BY <1>6, <1>7, <1>8

\* The manager's steps that leave channel and socket alone.
LEMMA LoadConfig ==
  ASSUME TypeInv, ConfigInv,
         Connect \/ DrainDone \/ LoadSequence \/ CheckSequence \/ SendHelloFail
           \/ AwaitAccepted \/ AwaitFail \/ Backoff \/ Probe
           \/ (\E p \in Parameter : LoadCell(p))
  PROVE  ConfigInv'
<1>1. UNCHANGED <<processVars, cells, channel, config>>
  BY DEF Connect, DrainDone, LoadSequence, CheckSequence, SendHelloFail, AwaitAccepted,
     AwaitFail, Backoff, Probe, LoadCell, snapshot, serverVars
<1>2. Linked' => Linked /\ UNCHANGED <<wire, session>>
  BY DEF Connect, DrainDone, LoadSequence, CheckSequence, SendHelloFail, AwaitAccepted,
     AwaitFail, Backoff, Probe, Abandon, LoadCell, Loaded, Linked, socket, serverVars
<1>3. HelloPending'
  BY <1>2 DEF ConfigInv, HelloPending
<1> SUFFICES ASSUME NEW p \in Parameter PROVE CellInv(p)' /\ CarriesInv(p)'
  BY <1>3 DEF ConfigInv
<1>4. CellInv(p) /\ CarriesInv(p)
  BY DEF ConfigInv
<1>5. CellInv(p)'
  BY <1>1, <1>4 DEF CellInv, processVars
<1>6. Due(p)' <=> Due(p)
  BY <1>1 DEF Due, processVars
<1>7. ASSUME at' = "read", load'.got[p] # None, ~param_lost, ~Due(p)
      PROVE  \/ load'.got[p] = block[p]
             \/ at = "read" /\ load.got[p] # None /\ load'.got[p] = load.got[p]
  <2>1. NothingLoaded.got[p] = None
    BY DEF NothingLoaded
  <2>2. CASE LoadSequence
    BY <1>7, <2>1, <2>2 DEF LoadSequence
  <2>3. CASE CheckSequence
    <3>1. at = "read" /\ ~load.moved
      BY <1>7, <2>3 DEF CheckSequence
    <3>2. load' = [load EXCEPT !.checked = TRUE]
      BY <2>3, <3>1 DEF CheckSequence
    <3>3. load'.got = load.got
      BY <3>2 DEF TypeInv, TypeOK
    <3> QED BY <1>7, <3>1, <3>3
  <2>4. ASSUME NEW q \in Parameter, LoadCell(q)
        PROVE  \/ load'.got[p] = block[p]
               \/ at = "read" /\ load.got[p] # None /\ load'.got[p] = load.got[p]
    <3>1. at = "read" /\ load' = [load EXCEPT !.got[q] = cells[q]]
      BY <2>4 DEF LoadCell
    <3>2. load'.got[p] = IF p = q THEN cells[p] ELSE load.got[p]
      BY <3>1 DEF TypeInv, TypeOK
    <3>3. cells[p] = block[p]
      BY <1>4, <1>7 DEF CellInv, Due
    <3> QED BY <1>7, <3>1, <3>2, <3>3
  <2> QED BY <1>7, <2>2, <2>3, <2>4 DEF Connect, DrainDone, SendHelloFail, AwaitAccepted,
          AwaitFail, Backoff, Probe
<1> QED BY <1>1, <1>2, <1>4, <1>5, <1>6, <1>7 DEF CarriesInv, processVars

\* The Hello carries what has been loaded.
LEMMA HelloConfig ==
  ASSUME TypeInv, ConfigInv, SendHello
  PROVE  ConfigInv'
<1> DEFINE hello == [kind |-> "Hello", config |-> load.got]
<1>1. /\ UNCHANGED <<processVars, cells, channel, config>>
      /\ at = "read" /\ at' = "await" /\ wire = <<>>
      /\ wire' = Append(wire, hello)
      /\ \A p \in Parameter : load.got[p] # None
  BY DEF SendHello, Loaded, snapshot, serverVars, TypeInv, NothingWrittenYet
<1>2. hello \in Message
  <2>1. \A p \in Parameter : load.got[p] \in Value
    BY <1>1 DEF TypeInv, TypeOK
  <2>2. load.got \in Config
    BY <2>1 DEF TypeInv, TypeOK, Config
  <2> QED BY <2>2 DEF Message, HelloFrame
<1>3. wire' # <<>> /\ Head(wire') = hello /\ hello.kind = "Hello"
  BY <1>1
<1>4. HelloPending'
  BY <1>3 DEF HelloPending
<1> SUFFICES ASSUME NEW p \in Parameter PROVE CellInv(p)' /\ CarriesInv(p)'
  BY <1>4 DEF ConfigInv
<1>5. CellInv(p) /\ CarriesInv(p)
  BY DEF ConfigInv
<1>6. CellInv(p)'
  BY <1>1, <1>5 DEF CellInv, processVars
<1>7. Tells(hello, p) /\ Says(hello, p) = load.got[p]
  BY DEF Tells, Says
<1>8. load.got[p] # None
  BY <1>1
<1> HIDE DEF hello
<1>9. wire \in Seq(Message)
  BY QueueTypes DEF TypeInv
<1>10. LastIs(p, wire', load.got[p])
  BY <1>1, <1>2, <1>7, <1>9, AppendTells
<1>11. Due(p)' <=> Due(p)
  BY <1>1 DEF Due, processVars
<1> QED BY <1>1, <1>5, <1>6, <1>8, <1>10, <1>11 DEF CarriesInv, processVars

\* The manager takes a command from the channel.
LEMMA TakeConfig ==
  ASSUME TypeInv, ConfigInv, ConnectFail \/ Drain \/ Forward \/ ForwardFail
  PROVE  ConfigInv'
<1> DEFINE m == Head(channel)
<1>0. /\ channel \in Seq(Message) /\ wire \in Seq(Message)
      /\ channel # <<>> /\ channel' = Tail(channel) /\ m \in Message
  BY QueueTypes DEF TypeInv, ConnectFail, Drain, Forward, ForwardFail, Take
<1>1. UNCHANGED <<processVars, cells, config>>
  BY DEF ConnectFail, Drain, Forward, ForwardFail, snapshot, serverVars
<1>2. at' # "read" /\ (Linked' => Forward)
  BY DEF ConnectFail, Drain, Forward, ForwardFail, manager, socket, Linked
<1>3. Forward => /\ wire' = Append(wire, m) /\ session' = session
                 /\ Linked
  BY DEF Forward, serverVars, Linked
<1>4. HelloPending'
  <2>1. CASE ~Linked'
    BY <2>1 DEF HelloPending
  <2>2. CASE Linked'
    <3>1. session' = session /\ wire' = Append(wire, m) /\ Linked
      BY <1>2, <1>3, <2>2
    <3>2. wire # <<>> => wire' # <<>> /\ Head(wire') = Head(wire)
      BY <1>0, <3>1
    <3> QED BY <3>1, <3>2 DEF ConfigInv, HelloPending
  <2> QED BY <2>1, <2>2
<1> SUFFICES ASSUME NEW p \in Parameter PROVE CellInv(p)' /\ CarriesInv(p)'
  BY <1>4 DEF ConfigInv
<1>5. CellInv(p) /\ CarriesInv(p)
  BY DEF ConfigInv
<1>6. CellInv(p)'
  BY <1>1, <1>5 DEF CellInv, processVars
<1>7. /\ param_lost' = param_lost /\ block' = block /\ (Due(p)' <=> Due(p))
  BY <1>1 DEF Due, processVars
<1> HIDE DEF m
<1>8. /\ Silent(p, channel) <=> Silent(p, channel') /\ ~Tells(m, p)
      /\ LastIs(p, channel, block[p]) =>
           \/ LastIs(p, channel', block[p])
           \/ Silent(p, channel') /\ Tells(m, p) /\ Says(m, p) = block[p]
  BY <1>0, TailTells DEF m
<1> SUFFICES ASSUME ~param_lost, ~Due(p) PROVE CarriesInv(p)'
  BY <1>6, <1>7 DEF CarriesInv
<1>9. Silent(p, channel') \/ LastIs(p, channel', block[p])
  BY <1>5, <1>8 DEF CarriesInv
<1>10. ASSUME Silent(p, channel'), Linked'
       PROVE  LastIs(p, wire', block[p]) \/ (Silent(p, wire') /\ config'[p] = block[p])
  <2>1. wire' = Append(wire, m) /\ Linked /\ config' = config
    BY <1>1, <1>2, <1>3, <1>10
  <2>2. /\ Silent(p, wire') <=> Silent(p, wire) /\ ~Tells(m, p)
        /\ Tells(m, p) => LastIs(p, wire', Says(m, p))
        /\ ~Tells(m, p) /\ LastIs(p, wire, block[p]) => LastIs(p, wire', block[p])
    BY <1>0, <2>1, AppendTells
  <2>3. CASE Tells(m, p)
    <3>1. ~Silent(p, channel)
      BY <1>8, <2>3
    <3>2. Says(m, p) = block[p] \/ LastIs(p, channel', block[p])
      BY <1>5, <1>8, <3>1 DEF CarriesInv
    <3>3. ~LastIs(p, channel', block[p])
      BY <1>10 DEF Silent, LastIs
    <3> QED BY <2>2, <2>3, <3>2, <3>3
  <2>4. CASE ~Tells(m, p)
    <3>1. Silent(p, channel)
      BY <1>8, <1>10, <2>4
    <3> QED BY <1>5, <2>1, <2>2, <2>4, <3>1 DEF CarriesInv
  <2> QED BY <2>3, <2>4
<1> QED BY <1>2, <1>7, <1>9, <1>10 DEF CarriesInv

\* The server's steps, and the faults.
LEMMA ServerConfig ==
  ASSUME TypeInv, ConfigInv, ServerStep \/ Fault
  PROVE  ConfigInv'
<1> DEFINE m == Head(wire)
<1>0. /\ wire \in Seq(Message) /\ (wire # <<>> => m \in Message)
  BY QueueTypes DEF TypeInv
<1>0a. UNCHANGED <<pc, block, todo, last_sent, cells, channel, at, load>>
  BY DEF ServerStep, Fault, AcceptHello, RefuseHello, Apply, Cleanup, ServerStart,
     ServerCrash, DropConnection, Shed, processVars, snapshot, manager
<1>0b. param_lost => param_lost'
  <2>1. CASE Shed
    <3>1. param_lost' = (param_lost \/ Head(wire).kind = "SetParameter")
      BY <2>1 DEF Shed
    <3> QED BY ONLY <3>1, Zenon
  <2>2. CASE ~Shed
    <3>1. param_lost' = param_lost
      BY <2>2 DEF ServerStep, Fault, AcceptHello, RefuseHello, Apply, Cleanup,
         ServerStart, ServerCrash, DropConnection, processVars
    <3> QED BY ONLY <3>1, Zenon
  <2> QED BY ONLY <2>1, <2>2, Zenon
<1>1. /\ UNCHANGED <<pc, block, todo, last_sent, cells, channel, at, load>>
      /\ param_lost => param_lost'
  BY ONLY <1>0a, <1>0b, Zenon
<1>2. HelloPending'
  <2>1. CASE AcceptHello \/ Apply \/ Shed
    <3>1. session'
      BY <2>1 DEF AcceptHello, Apply, Shed, serverVars
    <3> QED BY <3>1 DEF HelloPending
  <2>2. CASE RefuseHello \/ ServerCrash \/ DropConnection
    BY <2>2 DEF RefuseHello, ServerCrash, DropConnection, Reset, HelloPending, Linked
  <2>3. CASE Cleanup \/ ServerStart
    BY <1>1, <2>3 DEF Cleanup, ServerStart, socket, ConfigInv, HelloPending, Linked
  <2> QED BY <2>1, <2>2, <2>3 DEF ServerStep, Fault
<1> SUFFICES ASSUME NEW p \in Parameter PROVE CellInv(p)' /\ CarriesInv(p)'
  BY <1>2 DEF ConfigInv
<1>3. CellInv(p) /\ CarriesInv(p)
  BY DEF ConfigInv
<1>4. CellInv(p)'
  BY <1>1, <1>3 DEF CellInv
<1>5. Due(p)' <=> Due(p)
  BY <1>1 DEF Due
<1> SUFFICES ASSUME ~param_lost', ~Due(p), Silent(p, channel), Linked'
             PROVE  LastIs(p, wire', block[p]) \/ (Silent(p, wire') /\ config'[p] = block[p])
  BY <1>1, <1>3, <1>4, <1>5 DEF CarriesInv
<1>6. ~param_lost
  BY <1>1
<1>7. ASSUME Linked PROVE LastIs(p, wire, block[p]) \/ (Silent(p, wire) /\ config[p] = block[p])
  BY <1>3, <1>6, <1>7 DEF CarriesInv
<1>8. ~(RefuseHello \/ ServerCrash \/ DropConnection)
  BY DEF RefuseHello, ServerCrash, DropConnection, Reset, Linked
<1>9. CASE ServerStart
  BY <1>1, <1>7, <1>9 DEF ServerStart, socket, Linked
<1>10. CASE Cleanup
  <2>1. wire' = wire /\ Linked /\ ~session
    BY <1>1, <1>10 DEF Cleanup, socket, Linked, TypeInv, SessionHasConfig
  <2>2. wire # <<>> /\ m.kind = "Hello"
    BY <2>1 DEF ConfigInv, HelloPending
  <2>3. Tells(m, p)
    BY <2>2 DEF Tells
  <2> HIDE DEF m
  <2>4. ~Silent(p, wire)
    BY <1>0, <2>2, <2>3, TailTells DEF m
  <2> QED BY <1>7, <2>1, <2>4
<1>11. CASE AcceptHello \/ Apply \/ Shed
  <2>1. wire # <<>> /\ wire' = Tail(wire) /\ Linked
    BY <1>1, <1>11 DEF AcceptHello, Apply, Shed, Serving, Linked
  <2>2. /\ Silent(p, wire) <=> Silent(p, wire') /\ ~Tells(m, p)
        /\ LastIs(p, wire, block[p]) =>
             \/ LastIs(p, wire', block[p])
             \/ Silent(p, wire') /\ Tells(m, p) /\ Says(m, p) = block[p]
    BY <1>0, <2>1, TailTells
  <2>3. Tells(m, p) => config'[p] = Says(m, p)
    <3>1. CASE AcceptHello
      <4>1. m.kind = "Hello" /\ config' = m.config
        BY <3>1 DEF AcceptHello
      <4> QED BY <4>1 DEF Says
    <3>2. CASE Apply
      <4>1. m.kind # "Hello" /\ config \in [Parameter -> Value]
        BY <3>2 DEF Apply, TypeInv, SessionHasConfig, Config
      <4>2. m.kind = "SetParameter" => config' = [config EXCEPT ![m.parameter] = m.value]
        BY <3>2 DEF Apply
      <4> HIDE DEF m
      <4> QED BY <4>1, <4>2 DEF Tells, Says
    <3>3. CASE Shed
      <4>1. m.kind \notin {"Hello", "SetParameter"}
        BY <3>3 DEF Shed
      <4> QED BY <4>1 DEF Tells
    <3> QED BY <1>11, <3>1, <3>2, <3>3
  <2>4. ~Tells(m, p) => config'[p] = config[p]
    <3>1. CASE AcceptHello
      BY <3>1 DEF AcceptHello, Tells
    <3>2. CASE Apply
      <4>1. m.kind # "Hello" /\ config \in [Parameter -> Value]
        BY <3>2 DEF Apply, TypeInv, SessionHasConfig, Config
      <4>2. /\ m.kind = "SetParameter" => config' = [config EXCEPT ![m.parameter] = m.value]
            /\ m.kind # "SetParameter" => config' = config
        BY <3>2 DEF Apply
      <4> HIDE DEF m
      <4> QED BY <4>1, <4>2 DEF Tells
    <3>3. CASE Shed
      BY <3>3 DEF Shed, serverVars
    <3> QED BY <1>11, <3>1, <3>2, <3>3
  <2> HIDE DEF m
  <2> QED BY <1>7, <2>1, <2>2, <2>3, <2>4
<1> QED BY <1>8, <1>9, <1>10, <1>11 DEF ServerStep, Fault

\* Every step keeps the invariant.
LEMMA ConfigStep == TypeInv /\ ConfigInv /\ [Next]_vars => ConfigInv'
<1> SUFFICES ASSUME TypeInv, ConfigInv, [Next]_vars PROVE ConfigInv'
  OBVIOUS
<1>1. CASE HostStep
  <2>1. ASSUME NEW p \in Parameter, NEW v \in Value, ChangeParameter(p, v) PROVE ConfigInv'
    BY <2>1 DEF ChangeParameter, ConfigInv, CellInv, CarriesInv, HelloPending, Linked, Due,
       processVars, snapshot, manager, socket, serverVars
  <2> QED BY <1>1, <2>1, BlockConfig, SendConfig DEF HostStep
<1>2. CASE ProcessStep
  BY <1>2, BlockConfig, SendConfig DEF ProcessStep
<1>3. CASE ManagerStep
  BY <1>3, LoadConfig, TakeConfig, HelloConfig DEF ManagerStep
<1>4. CASE ServerStep \/ Fault
  BY <1>4, ServerConfig
<1>5. CASE UNCHANGED vars
  BY <1>5 DEF vars, ConfigInv, CellInv, CarriesInv, HelloPending, Linked, Due,
     hostVars, processVars, snapshot, manager, socket, serverVars
<1> QED BY <1>1, <1>2, <1>3, <1>4, <1>5 DEF Next

\* Even after a torn load of the snapshot, a live connection carries the values of
\* the last block for every parameter, unless a queue was full for one.
THEOREM LiveConfigIsAlwaysCurrent == Spec => []LiveConfigIsCurrent
<1>1. TypeInv /\ ConfigInv => LiveConfigIsCurrent
  <2> SUFFICES ASSUME TypeInv, ConfigInv, NEW p \in Parameter,
                      pc = "events", at = "live", link = "open", ~param_lost
               PROVE  Latest(p) = block[p]
    BY DEF LiveConfigIsCurrent
  <2>1. Linked /\ ~Due(p)
    BY DEF Linked, Due
  <2>2. CarriesInv(p) /\ channel \in Seq(Message) /\ wire \in Seq(Message) /\ TypeOK
    BY QueueTypes DEF ConfigInv, TypeInv
  <2>3. CASE LastIs(p, channel, block[p]) \/ (Silent(p, channel) /\ LastIs(p, wire, block[p]))
    BY <2>2, <2>3, ConcatTells, LatestTold DEF Underway
  <2>4. CASE Silent(p, channel) /\ Silent(p, wire) /\ config[p] = block[p]
    <3>1. Silent(p, Underway)
      BY <2>2, <2>4, ConcatTells DEF Underway
    <3> QED BY <2>2, <2>4, <3>1, LatestTold
  <2> QED BY <2>1, <2>2, <2>3, <2>4 DEF CarriesInv
<1> QED BY <1>1, TypeInit, TypeStep, ConfigInit, ConfigStep, PTL DEF Spec
=============================================================================
