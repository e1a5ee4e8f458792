---------------------------- MODULE PluginClient ----------------------------
(***************************************************************************)
(* The plugin: process() of haptic-plugin/src/lib.rs on the host's audio   *)
(* thread and connection_manager of ipc_client.rs on its own thread, with  *)
(* the bounded channel and the ConfigSnapshot between them.  The host and  *)
(* the server are the environment; the server is abstract: it registers a  *)
(* Hello, applies what follows, and cleans up after a lost connection      *)
(* before it takes the same id again (IpcServer says how).                 *)
(*                                                                         *)
(* ConfigSnapshot is stored and loaded cell by cell with relaxed accesses. *)
(* The second load of its sequence number is an acquire, which orders what *)
(* follows it and not the cell loads before it, so the model lets it       *)
(* happen anywhere among them.  The number itself is abstract: whether it  *)
(* is odd, and whether it has moved since the reader's first load.         *)
(*                                                                         *)
(* Definitions named Faulty... are not part of the model: each is a bug    *)
(* that a property has to catch, next to the definition it spoils.         *)
(***************************************************************************)
EXTENDS Integers, Sequences, FiniteSets

CONSTANTS
  Parameter,        \* host-visible parameters
  Value,            \* their values
  Initial,          \* the value a parameter starts with
  Note,             \* notes the host plays
  None,             \* Rust's Option::None
  ChannelCapacity,  \* bounded(256)
  SocketCapacity,   \* frames a socket buffer holds
  MaxChanges,       \* bound on parameter changes and re-initialisations
  MaxNotes,         \* bound on notes struck
  MaxFaults         \* bound on crashes, drops, sheds and handshake timeouts

ASSUME PluginAssumption ==
  /\ Initial \in Value /\ None \notin Value
  /\ IsFiniteSet(Parameter)
  /\ ChannelCapacity \in Nat /\ SocketCapacity \in Nat \ {0}
  /\ MaxChanges \in Nat /\ MaxNotes \in Nat /\ MaxFaults \in Nat

VARIABLES
  params,         \* host: the parameters' values
  host_held,      \* host: notes held down
  pc,             \* where process() is
  block,          \* the values it read at its start
  todo,           \* parameters it has yet to store, or to send
  last_sent,      \* last_sent_*
  cells,          \* ConfigSnapshot: its fields
  writing,        \* ConfigSnapshot: the sequence number is odd
  channel,        \* commands from process() to the manager
  note_off_lost,  \* a queue was full for a NoteOff, here or in the server
  param_lost,     \* a queue was full for a SetParameter
  at,             \* where connection_manager is
  load,           \* what ConfigSnapshot::load has read
  connected,      \* what the editor is told
  outdated,       \* commands at the head of channel older than the connection
  link,           \* the socket: "none", "open", or "reset" by the server
  wire,           \* frames on their way to the server
  ack,            \* HelloAccepted is on its way back
  up,             \* the server runs
  session,        \* the server has registered this connection
  old_session,    \* it has yet to clean up after an earlier one
  config,         \* configuration of this instance in the server
  sounding,       \* notes of this instance held in the server
  changes, notes, faults   \* counters for the bounds

hostVars    == <<params, host_held, changes, notes>>
processVars == <<pc, block, todo, last_sent, note_off_lost, param_lost>>
snapshot    == <<cells, writing>>
manager     == <<at, load, connected>>
socket      == <<link, wire, ack>>
serverVars  == <<up, session, old_session, config, sounding>>
vars == <<hostVars, processVars, snapshot, channel, manager, outdated, socket,
          serverVars, faults>>

Config == [Parameter -> Value]

NoteCommand == [kind: {"NoteOn", "NoteOff"}, note: Note]
SetCommand  == [kind: {"SetParameter"}, parameter: Parameter, value: Value]
Command     == NoteCommand \cup SetCommand
HelloFrame  == [kind: {"Hello"}, config: Config]

NothingLoaded ==
  [got |-> [p \in Parameter |-> None], moved |-> FALSE, checked |-> FALSE]

TypeOK ==
  /\ params \in Config /\ host_held \in SUBSET Note
  /\ pc \in {"idle", "store", "send", "events"}
  /\ block \in Config /\ todo \in SUBSET Parameter
  /\ last_sent \in [Parameter -> Value \cup {None}]
  /\ cells \in Config /\ writing \in BOOLEAN
  /\ channel \in Seq(Command) /\ Len(channel) <= ChannelCapacity
  /\ note_off_lost \in BOOLEAN /\ param_lost \in BOOLEAN
  /\ at \in {"offline", "drain", "load", "read", "await", "live", "backoff"}
  /\ load \in [got: [Parameter -> Value \cup {None}], moved: BOOLEAN,
               checked: BOOLEAN]
  /\ connected \in BOOLEAN
  /\ outdated \in 0..Len(channel)
  /\ link \in {"none", "open", "reset"}
  /\ wire \in Seq(Command \cup HelloFrame) /\ Len(wire) <= SocketCapacity
  /\ ack \in BOOLEAN
  /\ up \in BOOLEAN /\ session \in BOOLEAN /\ old_session \in BOOLEAN
  /\ config \in Config \cup {None} /\ sounding \in SUBSET Note
  /\ changes \in 0..MaxChanges /\ notes \in 0..MaxNotes /\ faults \in 0..MaxFaults

-----------------------------------------------------------------------------
(***************************************************************************)
(* The host, between the plugin's own steps.                               *)
(***************************************************************************)
ChangeParameter(p, v) ==
  /\ changes < MaxChanges
  /\ params[p] # v
  /\ params' = [params EXCEPT ![p] = v]
  /\ changes' = changes + 1
  /\ UNCHANGED <<host_held, notes, processVars, snapshot, channel, manager,
                 outdated, socket, serverVars, faults>>

\* initialize() forgets what has been sent; the host calls it between blocks.
Initialize ==
  /\ changes < MaxChanges
  /\ pc = "idle"
  /\ last_sent' = [p \in Parameter |-> None]
  /\ changes' = changes + 1
  /\ UNCHANGED <<params, host_held, notes, pc, block, todo, note_off_lost,
                 param_lost, snapshot, channel, manager, outdated, socket,
                 serverVars, faults>>

-----------------------------------------------------------------------------
(***************************************************************************)
(* process().                                                              *)
(***************************************************************************)
ChannelFull == Len(channel) >= ChannelCapacity

Unsent(values) == {p \in Parameter : last_sent[p] # values[p]}

\* Nothing to publish: on to the events.
BeginQuietBlock ==
  /\ pc = "idle"
  /\ Unsent(params) = {}
  /\ block' = params
  /\ pc' = "events"
  /\ UNCHANGED <<hostVars, todo, last_sent, note_off_lost, param_lost,
                 snapshot, channel, manager, outdated, socket, serverVars, faults>>

\* Sends the parameters without set_config.
FaultyBeginBlock ==
  /\ pc = "idle"
  /\ Unsent(params) # {}
  /\ block' = params
  /\ pc' = "send"
  /\ todo' = Unsent(params)
  /\ UNCHANGED <<hostVars, last_sent, note_off_lost, param_lost, snapshot,
                 channel, manager, outdated, socket, serverVars, faults>>

\* set_config: the sequence number becomes odd.
BeginBlock ==
  /\ pc = "idle"
  /\ Unsent(params) # {}
  /\ block' = params
  /\ pc' = "store"
  /\ todo' = Parameter
  /\ writing' = TRUE
  /\ load' = [load EXCEPT !.moved = TRUE]
  /\ UNCHANGED <<hostVars, last_sent, note_off_lost, param_lost, cells,
                 channel, at, connected, outdated, socket, serverVars, faults>>

StoreCell(p) ==
  /\ pc = "store" /\ p \in todo
  /\ cells' = [cells EXCEPT ![p] = block[p]]
  /\ todo' = todo \ {p}
  /\ UNCHANGED <<hostVars, pc, block, last_sent, note_off_lost, param_lost,
                 writing, channel, manager, outdated, socket, serverVars, faults>>

\* The sequence number is even again, and the changed parameters are sent.
EndStore ==
  /\ pc = "store" /\ todo = {}
  /\ writing' = FALSE
  /\ load' = [load EXCEPT !.moved = TRUE]
  /\ pc' = "send"
  /\ todo' = Unsent(block)
  /\ UNCHANGED <<hostVars, block, last_sent, note_off_lost, param_lost,
                 cells, channel, at, connected, outdated, socket, serverVars,
                 faults>>

\* Believes a parameter sent whether or not the channel took it.
FaultySendParameter(p) ==
  /\ pc = "send" /\ p \in todo
  /\ last_sent' = [last_sent EXCEPT ![p] = block[p]]
  /\ IF ChannelFull THEN UNCHANGED channel
     ELSE channel' = Append(channel, [kind |-> "SetParameter", parameter |-> p,
                                      value |-> block[p]])
  /\ todo' = todo \ {p}
  /\ UNCHANGED <<hostVars, pc, block, note_off_lost, param_lost, snapshot,
                 manager, outdated, socket, serverVars, faults>>

\* try_send: what the channel does not take is tried again in the next block.
SendParameter(p) ==
  /\ pc = "send" /\ p \in todo
  /\ IF ChannelFull
     THEN param_lost' = TRUE /\ UNCHANGED <<channel, last_sent>>
     ELSE /\ channel' = Append(channel,
                          [kind |-> "SetParameter", parameter |-> p,
                           value |-> block[p]])
          /\ last_sent' = [last_sent EXCEPT ![p] = block[p]]
          /\ UNCHANGED param_lost
  /\ todo' = todo \ {p}
  /\ UNCHANGED <<hostVars, pc, block, note_off_lost, snapshot, manager,
                 outdated, socket, serverVars, faults>>

EndSend ==
  /\ pc = "send" /\ todo = {}
  /\ pc' = "events"
  /\ UNCHANGED <<hostVars, block, todo, last_sent, note_off_lost, param_lost,
                 snapshot, channel, manager, outdated, socket, serverVars, faults>>

\* A channel without a bound.
FaultyNoteOn(n) ==
  /\ pc = "events"
  /\ notes < MaxNotes
  /\ n \notin host_held
  /\ host_held' = host_held \cup {n}
  /\ notes' = notes + 1
  /\ channel' = Append(channel, [kind |-> "NoteOn", note |-> n])
  /\ UNCHANGED <<params, changes, processVars, snapshot, manager, outdated, socket,
                 serverVars, faults>>

NoteOn(n) ==
  /\ pc = "events"
  /\ notes < MaxNotes
  /\ n \notin host_held
  /\ host_held' = host_held \cup {n}
  /\ notes' = notes + 1
  /\ channel' = IF ChannelFull THEN channel
                ELSE Append(channel, [kind |-> "NoteOn", note |-> n])
  /\ UNCHANGED <<params, changes, processVars, snapshot, manager, outdated, socket,
                 serverVars, faults>>

\* Skips the NoteOff while the editor shows no connection.
FaultyNoteOff(n) ==
  /\ pc = "events"
  /\ n \in host_held
  /\ host_held' = host_held \ {n}
  /\ channel' = IF ChannelFull \/ ~connected THEN channel
                ELSE Append(channel, [kind |-> "NoteOff", note |-> n])
  /\ note_off_lost' = (note_off_lost \/ ChannelFull)
  /\ UNCHANGED <<params, changes, notes, pc, block, todo, last_sent, param_lost,
                 snapshot, manager, outdated, socket, serverVars, faults>>

NoteOff(n) ==
  /\ pc = "events"
  /\ n \in host_held
  /\ host_held' = host_held \ {n}
  /\ channel' = IF ChannelFull THEN channel
                ELSE Append(channel, [kind |-> "NoteOff", note |-> n])
  /\ note_off_lost' = (note_off_lost \/ ChannelFull)
  /\ UNCHANGED <<params, changes, notes, pc, block, todo, last_sent, param_lost,
                 snapshot, manager, outdated, socket, serverVars, faults>>

EndBlock ==
  /\ pc = "events"
  /\ pc' = "idle"
  /\ UNCHANGED <<hostVars, block, todo, last_sent, note_off_lost, param_lost,
                 snapshot, channel, manager, outdated, socket, serverVars, faults>>

ProcessStep ==
  \/ BeginQuietBlock \/ BeginBlock \/ EndStore \/ EndSend \/ EndBlock
  \/ \E p \in Parameter : StoreCell(p) \/ SendParameter(p)

HostStep ==
  \/ Initialize
  \/ \E p \in Parameter, v \in Value : ChangeParameter(p, v)
  \/ \E n \in Note : NoteOn(n) \/ NoteOff(n)

-----------------------------------------------------------------------------
(***************************************************************************)
(* connection_manager.                                                     *)
(***************************************************************************)
\* The next command leaves the channel.
Take ==
  /\ channel # <<>>
  /\ channel' = Tail(channel)
  /\ outdated' = IF outdated > 0 THEN outdated - 1 ELSE 0

\* The manager drops its stream.  A registered session is left to the server's
\* cleanup, and so is one that the server registers from an unread Hello.
Abandon ==
  /\ link' = "none" /\ wire' = <<>> /\ ack' = FALSE
  /\ session' = FALSE
  /\ old_session' \in
       {old_session \/ session}
         \cup (IF \E k \in DOMAIN wire : wire[k].kind = "Hello"
               THEN {TRUE} ELSE {})

\* The socket is connected as soon as the server listens, accepted or not.
Connect ==
  /\ at = "offline" /\ up
  /\ link' = "open"
  /\ outdated' = Len(channel)
  /\ at' = "drain"
  /\ UNCHANGED <<hostVars, processVars, snapshot, channel, load, connected, wire,
                 ack, serverVars, faults>>

\* Nobody listens: one command is dropped, if there is any, and the next
\* attempt follows.
ConnectFail ==
  /\ at = "offline" /\ ~up
  /\ Take
  /\ UNCHANGED <<hostVars, processVars, snapshot, manager, socket, serverVars,
                 faults>>

Drain ==
  /\ at = "drain"
  /\ Take
  /\ UNCHANGED <<hostVars, processVars, snapshot, manager, socket, serverVars,
                 faults>>

\* Drops a single command.
FaultyDrainDone ==
  /\ at = "drain"
  /\ at' = "load"
  /\ UNCHANGED <<hostVars, processVars, snapshot, channel, load, connected,
                 outdated, socket, serverVars, faults>>

DrainDone ==
  /\ at = "drain" /\ channel = <<>>
  /\ at' = "load"
  /\ UNCHANGED <<hostVars, processVars, snapshot, channel, load, connected,
                 outdated, socket, serverVars, faults>>

\* The first load of the sequence number; it spins while the number is odd.
LoadSequence ==
  /\ at = "load" /\ ~writing
  /\ load' = NothingLoaded
  /\ at' = "read"
  /\ UNCHANGED <<hostVars, processVars, snapshot, channel, connected, outdated,
                 socket, serverVars, faults>>

LoadCell(p) ==
  /\ at = "read" /\ load.got[p] = None
  /\ load' = [load EXCEPT !.got[p] = cells[p]]
  /\ UNCHANGED <<hostVars, processVars, snapshot, channel, at, connected, outdated,
                 socket, serverVars, faults>>

CheckSequence ==
  /\ at = "read" /\ ~load.checked
  /\ IF load.moved
     THEN at' = "load" /\ load' = NothingLoaded
     ELSE load' = [load EXCEPT !.checked = TRUE] /\ UNCHANGED at
  /\ UNCHANGED <<hostVars, processVars, snapshot, channel, connected, outdated,
                 socket, serverVars, faults>>

Loaded ==
  /\ at = "read" /\ load.checked
  /\ \A p \in Parameter : load.got[p] # None

SendHello ==
  /\ Loaded /\ link = "open"
  /\ wire' = Append(wire, [kind |-> "Hello", config |-> load.got])
  /\ load' = NothingLoaded
  /\ at' = "await"
  /\ UNCHANGED <<hostVars, processVars, snapshot, channel, connected, outdated,
                 link, ack, serverVars, faults>>

SendHelloFail ==
  /\ Loaded /\ link = "reset"
  /\ load' = NothingLoaded
  /\ at' = "backoff"
  /\ UNCHANGED <<hostVars, processVars, snapshot, channel, connected, outdated,
                 socket, serverVars, faults>>

AwaitAccepted ==
  /\ at = "await" /\ ack
  /\ connected' = TRUE
  /\ ack' = FALSE
  /\ at' = "live"
  /\ UNCHANGED <<hostVars, processVars, snapshot, channel, load, outdated, link,
                 wire, serverVars, faults>>

\* The server closed the connection, or two seconds have passed.
AwaitFail ==
  /\ at = "await"
  /\ \/ link = "reset" /\ ~ack /\ UNCHANGED faults
     \/ link = "open" /\ faults < MaxFaults /\ faults' = faults + 1
  /\ at' = "backoff"
  /\ UNCHANGED <<hostVars, processVars, snapshot, channel, load, connected,
                 outdated, socket, serverVars>>

\* The stream outlives the pause of half a second after a failed handshake.
Backoff ==
  /\ at = "backoff"
  /\ Abandon
  /\ at' = "offline"
  /\ UNCHANGED <<hostVars, processVars, snapshot, channel, load, connected,
                 outdated, up, config, sounding, faults>>

\* write_all waits while the socket buffer is full.
Forward ==
  /\ at = "live" /\ link = "open"
  /\ Len(wire) < SocketCapacity
  /\ Take
  /\ wire' = Append(wire, Head(channel))
  /\ UNCHANGED <<hostVars, processVars, snapshot, manager, link, ack, serverVars,
                 faults>>

\* The write fails: its command is lost with the connection.
ForwardFail ==
  /\ at = "live" /\ link = "reset"
  /\ Take
  /\ Abandon
  /\ connected' = FALSE
  /\ at' = "offline"
  /\ UNCHANGED <<hostVars, processVars, snapshot, load, up, config, sounding,
                 faults>>

\* Half a second without a command: the read probe meets the end of the stream.
Probe ==
  /\ at = "live" /\ link = "reset" /\ channel = <<>>
  /\ Abandon
  /\ connected' = FALSE
  /\ at' = "offline"
  /\ UNCHANGED <<hostVars, processVars, snapshot, channel, outdated, load, up,
                 config, sounding, faults>>

ManagerStep ==
  \/ Connect \/ ConnectFail \/ Drain \/ DrainDone \/ LoadSequence \/ CheckSequence
  \/ SendHello \/ SendHelloFail \/ AwaitAccepted \/ AwaitFail \/ Backoff
  \/ Forward \/ ForwardFail \/ Probe
  \/ \E p \in Parameter : LoadCell(p)

-----------------------------------------------------------------------------
(***************************************************************************)
(* The server.                                                             *)
(***************************************************************************)
Reset == link' = (IF link = "open" THEN "reset" ELSE link) /\ wire' = <<>>

Serving == up /\ link = "open" /\ wire # <<>>

AcceptHello ==
  /\ Serving /\ Head(wire).kind = "Hello" /\ ~old_session
  /\ wire' = Tail(wire)
  /\ session' = TRUE /\ ack' = TRUE
  /\ config' = Head(wire).config
  /\ UNCHANGED <<hostVars, processVars, snapshot, channel, manager, outdated, link,
                 up, old_session, sounding, faults>>

\* The id is still reserved for an earlier connection.
RefuseHello ==
  /\ Serving /\ Head(wire).kind = "Hello" /\ old_session
  /\ Reset
  /\ UNCHANGED <<hostVars, processVars, snapshot, channel, manager, outdated, ack,
                 serverVars, faults>>

Apply ==
  /\ Serving /\ session
  /\ LET cmd == Head(wire)
     IN  /\ cmd.kind # "Hello"
         /\ config' = IF cmd.kind = "SetParameter"
                      THEN [config EXCEPT ![cmd.parameter] = cmd.value] ELSE config
         /\ sounding' = CASE cmd.kind = "NoteOn"  -> sounding \cup {cmd.note}
                          [] cmd.kind = "NoteOff" -> sounding \ {cmd.note}
                          [] OTHER -> sounding
  /\ wire' = Tail(wire)
  /\ UNCHANGED <<hostVars, processVars, snapshot, channel, manager, outdated, link,
                 ack, up, session, old_session, faults>>

\* The ring has no place for the command.
Shed ==
  /\ Serving /\ session /\ Head(wire).kind # "Hello"
  /\ faults < MaxFaults
  /\ faults' = faults + 1
  /\ wire' = Tail(wire)
  /\ param_lost' = (param_lost \/ Head(wire).kind = "SetParameter")
  /\ note_off_lost' = (note_off_lost \/ Head(wire).kind = "NoteOff")
  /\ UNCHANGED <<hostVars, pc, block, todo, last_sent, snapshot, channel, manager,
                 outdated, link, ack, serverVars>>

Cleanup ==
  /\ up /\ old_session
  /\ old_session' = FALSE
  /\ config' = None /\ sounding' = {}
  /\ UNCHANGED <<hostVars, processVars, snapshot, channel, manager, outdated, socket,
                 up, session, faults>>

ServerStart ==
  /\ ~up
  /\ up' = TRUE
  /\ UNCHANGED <<hostVars, processVars, snapshot, channel, manager, outdated, socket,
                 session, old_session, config, sounding, faults>>

ServerCrash ==
  /\ up /\ faults < MaxFaults
  /\ faults' = faults + 1
  /\ up' = FALSE
  /\ Reset
  /\ session' = FALSE /\ old_session' = FALSE
  /\ config' = None /\ sounding' = {}
  /\ UNCHANGED <<hostVars, processVars, snapshot, channel, manager, outdated, ack>>

\* The server gives up on this connection alone.
DropConnection ==
  /\ up /\ link = "open" /\ faults < MaxFaults
  /\ faults' = faults + 1
  /\ Reset
  /\ session' = FALSE
  /\ old_session' = (old_session \/ session)
  /\ UNCHANGED <<hostVars, processVars, snapshot, channel, manager, outdated, ack,
                 up, config, sounding>>

ServerStep == AcceptHello \/ RefuseHello \/ Apply \/ Cleanup \/ ServerStart

Fault == ServerCrash \/ DropConnection \/ Shed

-----------------------------------------------------------------------------
Init ==
  /\ params = [p \in Parameter |-> Initial] /\ host_held = {}
  /\ pc = "idle" /\ block = params /\ todo = {}
  /\ last_sent = [p \in Parameter |-> None]
  /\ cells = params /\ writing = FALSE
  /\ channel = <<>> /\ note_off_lost = FALSE /\ param_lost = FALSE
  /\ at = "offline" /\ load = NothingLoaded /\ connected = FALSE /\ outdated = 0
  /\ link = "none" /\ wire = <<>> /\ ack = FALSE
  /\ up \in BOOLEAN /\ session = FALSE /\ old_session = FALSE
  /\ config = None /\ sounding = {}
  /\ changes = 0 /\ notes = 0 /\ faults = 0

Next == HostStep \/ ProcessStep \/ ManagerStep \/ ServerStep \/ Fault

Spec == Init /\ [][Next]_vars

\* The host calls process() block after block, the manager's waits are all
\* bounded, and the server's loop serves its clients and its cleanups in every
\* pass.  A load of the snapshot is far shorter than the pause between two blocks,
\* so that it meets such a pause in the end.  Neither the host's choices nor
\* faults are forced.
Fairness ==
  /\ WF_vars(ProcessStep)
  /\ WF_vars(ManagerStep)
  /\ WF_vars(ServerStep)
  /\ WF_vars(Cleanup)
  /\ SF_vars(LoadSequence)
  /\ SF_vars(CheckSequence /\ ~load.moved)

FairSpec == Spec /\ Fairness

-----------------------------------------------------------------------------
(***************************************************************************)
(* Properties.                                                             *)
(***************************************************************************)
\* Commands queued before a connection was opened are never written to it.
NothingStaleIsSent ==
  at \in {"load", "read", "await", "live"} => outdated = 0

\* The value the server will have for p once it has applied all that is on its
\* way over a live connection.
Underway == wire \o channel
Latest(p) ==
  LET K == {k \in DOMAIN Underway :
              \/ Underway[k].kind = "Hello"
              \/ Underway[k].kind = "SetParameter" /\ Underway[k].parameter = p}
  IN  IF K = {} THEN config[p]
      ELSE LET m == Underway[CHOOSE k \in K : \A l \in K : l <= k]
           IN  IF m.kind = "Hello" THEN m.config[p] ELSE m.value

\* Between blocks, over a live connection, what the server has or will get is
\* what the host shows when everything has been sent, even if the Hello carried
\* a configuration that was torn while it was stored.
LiveConfigIsCurrent ==
  pc = "events" /\ at = "live" /\ link = "open" /\ ~param_lost =>
    \A p \in Parameter : Latest(p) = block[p]

\* A note the server holds and the host does not has its NoteOff on the way, or
\* a connection that is being given up, which the server will clean up after.
StuckNote(n) ==
  /\ n \in sounding /\ n \notin host_held
  /\ ~old_session /\ link = "open" /\ session
  /\ ~\E k \in DOMAIN Underway :
        Underway[k].kind = "NoteOff" /\ Underway[k].note = n

\* No note is stuck unless a queue was full for a NoteOff.
NoNoteStuck == note_off_lost \/ \A n \in Note : ~StuckNote(n)

\* Once the host leaves the parameters alone the server's configuration becomes
\* the plugin's for good, whatever crashes, drops, refusals and timeouts came
\* before, if no queue was full for a parameter.
Settled == <>[](config = params)
ConfigConverges == []~param_lost => Settled
=============================================================================
