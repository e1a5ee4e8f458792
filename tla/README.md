# haptic-vst in TLA+

A formal model of the haptic-vst server and its clients: TLA+ modules translated from the
Rust sources, TLC configurations that check them on small instances, and TLAPS proofs of
the main safety properties for every size of the system.

## 1. The system

A plugin (in a DAW) or a viewer connects to `haptic-server` over a Unix socket, announces
an instance id with `Hello`, and then sends notes, MPE and parameters. The server's IPC
thread stamps every command with the id bound to the connection and pushes it into a
lock-free ring. The audio callback drains the ring at the start of every block, renders
frames from two fixed pools of voices, and frees the voices that have ended. Observers get
a status stream back.

| Component | State | Operations | Talks to |
|---|---|---|---|
| Wire protocol (`haptic-protocol`) | the decoder's byte buffer | encode, `next_frame`, defaults | everyone, as vocabulary |
| Stimulus engine (`engine.rs`) | pools (stimulus and mask per slot), owner tables, `next_seq`, registry of `InstanceConfig`s, monitor routes, layout | ten commands, render frame, reap | pops the command and layout rings; pushes output snapshots |
| IPC thread (`ipc.rs`) | clients (decoder, bound id, role, status bytes), `active_instances`, `pending_disconnects`, routing mirror | accept, read, decode, validate, dispatch, cleanup, greet, broadcast, flush | sockets; pushes the command ring |
| Server assembly, audio driver (`main.rs`, `audio.rs`) | threads, rings, `running` | start, run blocks, stop | all of the server |
| Delay lines (`engine.rs`) | per Wave voice and transducer a ring of cells with epochs, a read pointer | scatter, read, reset | the voice, whose tail says how long it is needed |
| Config watcher (`main.rs`, `config.rs`) | last modification time | poll, load, push the layout | pushes two layout rings, to callback and IPC thread |
| Plugin connection manager (`ipc_client.rs`, `lib.rs`) | channel of 256 commands, `ConfigSnapshot`, `connected`, last parameters sent | connect, handshake, forward, idle probe, resend parameters | the socket; the host's `process()` |
| Viewer connection (`haptic-viewer`) | shared state, shared writer, the test note | read status, send test commands, reconnect | the socket |
| Viewer supervisor, server lifetime | mode, managed child, its stdin; `running`, the socket path | start, stop, restart, poll; bind, interrupt, end | the child's stdin, the socket path, other servers |
| User interfaces, tools | widgets | drawing, offline analysis | - |

What is hard about it, and what makes each part correct:

* **IPC thread.** Frames, closes and write errors of several clients meet in one loop
  whose steps drop clients in three different places (`retain_mut`,
  `flush_status_clients`, the failed handshake). The engine is told of a lost client by a
  command that may have to wait for a place in the ring while the same instance
  reconnects. Correct means: one holder per id; the engine sees sessions one after
  another; a delayed cleanup never hits a live client; nothing is leaked; the reserved
  places stay free for lifecycle commands; the routing mirror is what the engine will
  have.
* **Engine.** Owners, masks and envelopes are three views of a slot that change at
  different times (command, frame, end of block), and commands address voices through the
  owners. Correct means: the views agree when commands run; a sounding voice is never
  skipped by the renderer; stealing takes a held voice last; a release reaches every voice
  of its key whatever happened to the configuration since; a command changes nothing of
  another instance.
* **The two together.** The producer decides on the number of free places and pushes
  later; the consumer is always behind. Correct means: no held voice that nobody can end
  any more; voices follow their instance's configuration; whatever a vanished client
  leaves behind is reclaimed.
* **Plugin.** The audio thread publishes parameters in two ways, through a snapshot for
  the next `Hello` and through a channel for the present connection, and the manager
  drains, loads, greets and forwards at its own pace. Correct means: the server ends up
  with the host's values; nothing queued for one connection is written to another;
  "connected" means registered; no note is left sounding.
* **Supervisor and endpoint.** Several processes decide by one `connect` what the socket
  path is, and act on it later; processes die between any two system calls. Correct means:
  a GUI owns exactly the child it can stop; a child without its GUI ends; a live server
  keeps its endpoint; a dead one's is taken over.
* **Delay lines and tail.** A line is cleared by moving to the next epoch, its cells are
  cleaned when they are next touched, epoch and pointer wrap, and the kernel is scattered
  around a source that moves. Correct means: each emission is heard once, in its own
  frame; nothing of an earlier voice is heard; the slot is kept until the last arrival.
* **Layout reload.** One watcher feeds two rings that two threads drain at their own pace,
  and decides by a modification time that moves while it reads. Correct means: both
  threads end with the same layout, and with the one in the file.
* **Status stream.** The server writes what the socket takes and remembers a cursor; the
  reader gets any number of bytes; a full backlog drops the observer. Correct means: whole
  frames in order, the acknowledgement first, and a viewer that shows the layout in force.
* **Viewer.** The UI thread writes to a blocking socket with the lock its reader thread
  needs, and believes in a test note across retriggers and reconnections. Correct means:
  what sounds is what the controls show, and the window never freezes.

PROJECT.json lists the hazards line by line, with the properties that cover each.

## 2. Modules

| Module | Models | |
|---|---|---|
| `HapticProtocol` | commands, refused frames, engine commands, `from_wire` | vocabulary |
| `StimulusEngine` | `engine.rs` | with a free-running producer as environment |
| `IpcServer` | `ipc.rs` | with client processes and an abstract engine as environment |
| `HapticServer` | the server: both composed | `INSTANCE`s of both; refines both |
| `PluginClient` | `process()` of `lib.rs` and `ipc_client.rs` | with host and an abstract server as environment |
| `ServerSupervisor` | `ServerSupervisor` of the viewer, `main` and `bind_listener` of the server | with a user who starts, interrupts and kills processes as environment |
| `ArrivalSchedule` | what the delay lines promise | abstract specification |
| `DelayLine` | `DelayLine` of `engine.rs`: scatter, read, reset | operators |
| `WaveVoice` | one Wave voice with its lines, envelope and tail | refines `ArrivalSchedule` |
| `LayoutReload` | `config_watcher`, the load at startup, the two adoptions | with an editor of the file as environment |
| `StatusFrame` | the status messages and `apply_message` of the viewer | vocabulary |
| `FrameQueue` | what the status connection promises an observer | abstract specification |
| `StatusStream` | queue, cursor, socket, `FrameDecoder`, reader: byte by byte | operators and actions |
| `LayoutStream` | `LayoutReload` with an observer of `StatusStream` | refines `FrameQueue` |
| `ViewerClient` | `update()` with the test note, `reader_thread`, the shared writer | with an abstract server as environment |
| `MC...` | message sets and symmetry for TLC | |
| `StimulusEngineProofs`, `IpcServerProofs`, `HapticServerProofs`, `PluginClientProofs`, `ServerSupervisorProofs`, `WaveVoiceProofs`, `LayoutStreamProofs`, `ViewerClientProofs` | theorems and their proofs | |

Definitions whose names begin with `Faulty` are not part of the model. Each is a plausible
bug placed next to the definition it spoils; replacing that definition by it must break
the property named in PROJECT.json, which shows that the property can fail.

### Engine

An audio block is `drain* ; frame* ; reap`. `Pop(kind)` takes the head of the ring and
each arm of `apply_command` is one action, with the nested `match` on `Parameter`
flattened into `SetStimulusType`, `SetSpeed`, `SetDecay`, `SetMonitorRoute`. `FinishDrain`
is the empty `pop()`. `RenderFrame` is one internal frame: `process_all` of both pools,
which clears the mask of a voice that has ended *one frame after* it ended. `EndBlock` is
`reap_finished_voices`. The IPC thread may push between any two of them.

Voices keep the envelope's state, the number of frames in that state, whether the level is
above zero and the frames of propagation tail. `StimulusEngine::instances` is a function
from ids to configurations bounded by `RegistrySize`; which array entry holds an id is not
observable. Slots are numbers, disjoint for the two pools, so that "first free" and the
tie-break of `steal_candidate` can be said.

Abstractions: `Speed` stands for wave speed, scale mode and wavelength together and
`Decay` for its pair of parameters; velocity, timestamps, frequency, motion and samples
are left out. A Wave voice takes its speed at note-on and keeps it, as in the code. The
attack and release take whole frames, a release from level zero ends in its first frame.

### IPC thread

One pass of `listen_loop_at` is `accept -> visit -> cleanup -> status -> flush`, kept in
`at`. `ReadFrames` is the read loop of `handle_client` up to `WouldBlock`, `ReadEnd` its
two early returns. Then `decode` dispatches one frame per step: `SkipFrame`,
`RejectClient`, `Hello`, `HelloOverflow`, `Forward`, `Shed` are the paths through the
`match`. Peers and engine run between any two steps. The test of `slots()` and the `push`
are one step: the only other party, the consumer, can only free places in between, so each
outcome the code can have is one of the model's.

`DropClient` is what `retain_mut` and `flush_status_clients` do. Of the queued status
bytes the model keeps whether there are any, whether they overflowed, and which routing
the newest frame shows. An empty queue cannot overflow in one pass: a pass queues a
handful of frames of at most 4 KiB each into 64 KiB; one with a backlog may, at any time.
Clients are visited in any order, a superset of the vector's order. A frame is in the
model once it is complete; the decoder's reassembly of fragments is in `StatusStream`, for
the other direction.

The connection's other end (`Connect`, `Send`, `Close`) may do anything: write any of the
configured frames in any order, close with frames unread, or never read. A connection can
be used again after it is closed, so a small set stands for any number of reconnections.

The abstract engine of this module pops commands and remembers what is registered and how
the outputs are routed. It ignores the size of the registry: `registered` is a claim only
while there are no more instances than entries (see Findings).

### Composition

`HapticServer` runs `IpcServer!IpcStep` and `StimulusEngine!EngineStep` on one ring.
`ImplementsIpc` and `ImplementsEngine` say that every behaviour of it is one of each
component module (with `registered` refined to the engine's registry), so what is proved
of the components holds of the server. Both are checked by TLC and proved for a registry
with an entry for every id; with more ids than entries the server acknowledges clients
that the engine never registers (see Findings).

### Plugin

Two threads and what is between them. `process()` is a program counter: `BeginBlock` reads
the parameters and, if any differs from `last_sent`, starts `set_config` (`StoreCell` for
each field, `EndStore`), then `SendParameter` tries each that differs, then notes follow
until `EndBlock`; `BeginQuietBlock` is a block with nothing to publish.
`connection_manager` is `offline -> drain -> load -> read -> await -> live`, with
`backoff` after a failed handshake and `offline` after a failed write or probe. Cells are
stored and sent in any order, a superset of the code's.

`ConfigSnapshot` is read cell by cell. On the reader's side the second load of the
sequence number is an acquire, which keeps later accesses behind it but not the relaxed
cell loads in front of it, so `CheckSequence` may come before any `LoadCell`: a torn
configuration can be read and sent. `LiveConfigIsCurrent` and `ConfigConverges` hold in
spite of that, because `process()` sends every parameter it has just stored behind it. The
number is kept as two facts: whether it is odd, and whether it has moved since the
reader's first load.

Parameters stand for the six that are sent; that `wave_speed` fills two fields of the
snapshot is not distinguished. MPE updates, which only use up places of the channel, are
left out. The server is what `IpcServer` and `StimulusEngine` show to one client: it
registers a `Hello` unless the id is still owed a cleanup, applies or sheds what follows,
and cleans up after a lost connection in its own time. `outdated` is a history variable:
how many of the queued commands are older than the connection.

### Supervisor

Each server process is the state of its IPC thread (`probe -> unlink? -> bind -> listen ->
announce -> serving -> closed`, or `failed`), its flag `running`, and its pipes: whether
its stdin is one that a GUI holds open, and whether anybody reads its standard error. The
steps are the system calls of `bind_listener`, with bind(2) and listen(2) apart, as
`UnixListener::bind` makes them. `path` is what the socket path names, so that
`remove_file` removes *what is there by then*. `Exit` waits for the IPC thread, as `main`
does; an IPC thread that could not bind, or that panicked, does not end the process.

Standard error matters because the GUI reads that of its child
(haptic-viewer/src/main.rs:238, 256-258) and `eprintln!` panics on a pipe without a
reader. A GUI that dies closes both pipes, one after the other (`GuiCrash`,
`StderrCloses`); what the child does in between still goes well. From then on, whatever a
thread prints ends it: the watcher of stdin and the handler of Ctrl-C before they lower
the flag (the guards of `StdinEof` and `Interrupt`), the IPC thread at its first line or
with the next client that comes or goes, a GUI's probe included (`Announce`, `IpcPanic`),
and `main` at any print, of which there is one every five seconds (`MainPanic`).

The GUI's thread probes, spawns, polls in every frame and blocks in `stop_managed` (state
`stopping`) until the child has gone or three seconds have passed; `next` is what
`stop_managed` returns to: the panel, `start_managed` for a restart, or the end of the
program. The two probes of `new` and `start_managed` are one step: either may find the
server, and both lead to External. `unclean` (a server has crashed, been killed or
panicked) and `overlapped` are history variables.

### Delay lines and the tail

`DelayLine` follows `write_and_read` and `reset`: `Scatter` touches the cells of the
kernel around `pos + Lookahead(delay)`, cleans those of another epoch and adds to the
others; `Consumed` clears the cell that was read and moves on; `Reset` advances the epoch
and clears the array only when the epoch wraps. A sample is abstracted to the *set of
kernel taps* that contributed to it: superposition is union, and a tap that is lost, heard
twice, heard in another frame or left by another voice is a different set. `ScheduleOf`
reads a line as the schedule of `ArrivalSchedule`, and `LinesKeepTheSchedule` is that
refinement.

`WaveVoice` is the voice around it: `NoteOn`, `NoteOff`, `Process` (one frame: envelope,
motion, scatter, read, tail), `Reap`, `Panic`. Delays are counted in half frames, because
the code caps the source at half the wave speed, so that a delay moves by at most half a
frame in a frame; a source that is placed outright (the first frame of a note) may be
anywhere. Any frame of an active source is taken to carry energy, and its envelope may end
in any frame: both are supersets of the code. With `LayoutMoves`, adopting a layout moves
transducers by any distance while a voice lives.

### Layout reload

A text of the file is what `load_layout` makes of it: a layout, `Broken` or `Missing`.
Every edit takes a new modification time. `config_watcher` is `starting -> asleep ->
changed -> engine -> ipc -> asleep`, so the file may be edited between the stat, the load
and the two pushes. A push into a full ring is ignored by the code; `lost` remembers which
ring's latest push was. `LoadAtStartup` is `main` before it starts the threads.

### Status stream

A byte is the frame it belongs to and its place there, so that a frame that is torn,
repeated or out of step shows. All frames have the same length. `ServePass` is one turn of
`listen_loop_at` for this observer as one step (accept, acknowledge, greet, broadcast,
flush): between those steps only the socket's other end moves, and a byte read a moment
earlier leads to the same state. `Flushed` writes what the socket takes; `ReadBytes` reads
any number of bytes; `DecodeFrame` is one `next_frame` with `apply_message`. `InFlight`
reads decoder, socket and queue as one queue of whole frames, for `FrameQueue`.

### Viewer

A frame of the UI is `controls -> table -> retrigger -> live -> end`, the order of
`update()`: it is drawn from the `connected` of its first snapshot (`saw`), may press or
move something, sends a route or a drag from the table, retriggers a note whose parameters
changed, sends live parameters, and forgets the note when it began disconnected. Each
command is sent as `TakeLock` and `WriteFrame`, and `holding` is the lock while
`write_all` blocks. The reader thread is `dialling -> greeting -> reading -> asleep`; it
needs the lock for what it reads and for the end of a connection. The wave speed stands
for all live parameters, a note for note and velocity. The server is `IpcServer` and
`StimulusEngine` as one client sees them: it reads whatever the state of its output
(`ReadCommand`), may shed any command, a NoteOff in a full ring included, drops the
connection, cleans up late, crashes and returns; a `Hello` that meets an unfinished cleanup is refused.

## 3. Runs

| Run | Instance | Shows |
|---|---|---|
| `engine` | 2 instances, 2 Wave and 1 TravellingWave slots, 1 registry entry, ring of 1, 4 NoteOns; any command | the engine's tables; stealing, release and isolation step by step |
| `ipc_identity` | 2 connections, 2 ids, ring of 3 with reserve 1, 1 frame per socket buffer | ids, sessions, delayed cleanup |
| `ipc_traffic` | 1 observer, 2 outputs, 2 frames per buffer, ring of 3 with reserve 1; refused frames too | reserve, routing mirror, status |
| `server_lifecycle` | 2 connections, 1 id, a note, ring of 2 | orphaned voices, both refinements |
| `server_liveness` | 1 connection, 1 id, 2 speeds, TravellingWave | configuration of held voices; reclamation under fairness |
| `plugin` | 2 parameters, 1 note, channel of 2, socket buffer of 1, 1 change, 2 faults | order of drain, load and send; stuck notes; convergence under fairness |
| `supervisor` | 2 server processes, 1 GUI, 3 launches, 2 crashes | the endpoint, orphans and stale sockets |
| `wave_tail` | ring of 8 cells, half kernel 1, 3 epochs, delays to 3 frames, 1 transducer | the schedule of arrivals, the tail |
| `layout_reload` | 2 layouts, rings of 2, 4 edits | both threads agree; a file left alone is adopted |
| `layout_stream` | rings of 1, 1 edit, frames of 2 bytes, socket of 2, backlog of 8, 2 connections | the byte stream; the viewer heads for the layout in force and ends with it |
| `viewer` | 2 notes, 2 speeds, sockets of 1 frame, 3 inputs, 1 fault | what sounds is what is shown; the UI never freezes |
| `supervisor_race` | 2 servers, no crash | two servers starting at the same time: a finding |

*Why these bounds.* Two slots in a pool, or one, are enough for it to be full, to hold a
finished, a releasing and a held voice, and to be stolen from; four NoteOns fill three
slots and steal one. One registry entry for two instances is the registry at its limit. A
ring of one place does not restrict the engine, which only sees the head. On the IPC side
a ring of three has places below the reserve, in it and beyond it, and is full after a
registration, a note and a cleanup; two ids and two connections are what it takes to
exchange, duplicate and reuse ids; a third adds only symmetric copies. `InboxBound`,
`MaxNotes` and `notes_sent` cut off behaviours that repeat what has been seen. Frame
counts of 1 and 2 give the attack, release and tail at least one intermediate state where
a property can tell it. Symmetry is used with invariants and action properties only, never
with liveness.

For the plugin, two parameters are what a torn snapshot needs, and the initial push of
both followed by a change fills a channel of two. The two faults may be any of a server
crash, a lost connection, a shed command and a handshake timeout, so that a second one may
strike while the plugin recovers from the first.

Two processes are what a race for a path needs. Three launches, of the GUI or of a server
from a shell, and any number of servers spawned by the GUI, let a process come back while
the other starts or ends; two crashes hit a server and the GUI, or the same server twice.

A ring of eight cells is little more than the kernel and the furthest delay need, so that
pointer and scatter wrap within a note; three epochs wrap within three notes, and a delay
of three frames reaches the clamp of `Lookahead`; beyond it the proofs apply. One
transducer is enough for TLC: lines meet only in the tail, which is the maximum over them.
Layout rings of two with four edits fill a ring before it is drained; a full ring of one
with one edit is enough next to the stream, whose own limits are small: a frame longer
than its header, a socket that takes one frame, a backlog of four frames that the
greeting, a reload and an output overflow. For the viewer, three inputs start a note,
change it and stop or change it again; the fault may hit anywhere between them, and a
socket of one frame makes every second command of a retrigger wait.

Three constants exclude what the code does get wrong or does not promise, and are FALSE in
the runs. `LayoutMoves`: a layout adopted while a voice sounds (Findings). `StartupEdits`:
the file is edited between the load in `main` and the watcher's first stat (Findings).
`UiMayStall`: no frame of the UI falls into the half second that `reader_thread` sleeps
after a lost connection; then a reconnection passes unnoticed, and the controls show a
note that no longer sounds. A frame that waits in `stop_managed` can be that long (the
connection ends when the child's IPC thread does, up to three seconds before the call
returns). A reconnection is then missed only if another server takes the path in that
time, or the one that `restart_managed` starts has been reached before the frame is over.

Deadlock is checked except where the system really may come to rest: in `supervisor` and
`supervisor_race` all processes may have ended for good, in `layout_reload` and
`layout_stream` the file may be refused at startup, or all edits may have been adopted and
the stream drained. In the others a client may always connect or close, the server's loop
never stops, a note may always be struck, the UI repaints and the host calls block after
block.

*Fairness.* `server_liveness` assumes weak fairness of the IPC thread (its loop sleeps 1
ms and repeats, never blocking on a socket), weak fairness of the audio callback (the
device, or the dummy loop, asks for block after block), and strong fairness of
`RenderFrame`: a block may be too short to contain one of the frames rendered every 32
device samples, but the phase counter carries over so that some block does. With
`--test-tone` the engine is not driven at all, and the property does not apply. Nothing is
assumed of clients: the property speaks of the state after they fall silent. Drain cannot
go on for ever, because the premise leaves no frames to forward and every connection owes
at most one cleanup.

`supervisor` assumes that every server process gets to run, and nothing of the GUI: a
supervisor may hang or never press a button. For an orphan whose output nobody reads this
is what ends it: the main thread is sure to print its report (audio.rs:285, 348).

`plugin` assumes weak fairness of `process()` (the host calls it block after block), of
the manager (each of its waits has a timeout), and of the server's steps and its cleanup
(each is reached in every pass of its loop). Strong fairness of `LoadSequence` and of a
`CheckSequence` that finds the number unmoved says that a load is not interrupted for
ever: it takes well under a microsecond, a block some milliseconds. Neither changes of
parameters nor notes nor faults are forced, and the bounds make them finite, so that
"settles" has a meaning.

`layout_reload` and `layout_stream` assume weak fairness of each thread: the watcher polls
in a loop with a sleep, the callback and the IPC loop as above, the reader waits in a
blocking `read`. `viewer` assumes it of the UI (which requests a repaint in every frame),
of the reader, and of a running server that reads its connections and applies the cleanups
it owes. Nothing makes a crashed server start again; the property speaks of one that stays
up.

## 4. Properties

* `SlotsAgree`: the engine's tables agree whenever commands run.
* `StealIsLastResort`, `Isolation`, `ReleaseReachesEveryVoice`: what a step of the engine
  may never do.
* `OneHolderPerId`, `SessionOrder`, `LiveClientsStayRegistered`, `NoRegistrationLeak`:
  identities and sessions, as the engine will see them when it has applied the ring.
* `ReserveHoldsCriticalOnly`, `RoutesMirrorEngine`, `ObserversAreUpToDate`: the ring's
  reserve, and the mirror the observers are shown.
* `HeldVoicesAreAccountedFor`, `HeldVoicesFollowConfig`, `VanishedClientsAreReclaimed`,
  `ImplementsIpc`, `ImplementsEngine`: the composed server, while the registry is not
  oversubscribed.
* `NothingStaleIsSent`, `NoNoteStuck`: what the plugin's manager writes. `NoNoteStuck`
  excuses a NoteOff that met a full queue.
* `LiveConfigIsCurrent`, `ConfigConverges`: the value the server has, or will have once it
  has applied what is under way, is the one of the last block; and the server's
  configuration becomes the host's for good. Both excuse a parameter that met a full
  queue.
* `OrphansStop`: a server whose supervisor is gone ends, in order or by a panic.
* `LiveEndpointKept`, `OrderlyExitRemovesSocket`, `StaleSocketRecovered`: the socket path,
  under the premise that start-ups do not overlap where the code needs it, and that a
  panic is not an orderly end.
* `LinesKeepTheSchedule`, `TailCoversArrivals`: a line delivers what was scheduled, and a
  voice counts as active until it has.
* `LayoutsAgree`, `EditsAreAdopted`: the two threads head for one layout, and for the one
  in the file; both excuse a push that met a full ring.
* `StreamIsFrameQueue`: frames arrive whole and in order.
* `ObserverHeadsForLayout`, `ViewerFollowsLayout`: with what is on its way to it, a greeted
  observer has the IPC thread's layout, and a viewer that stays connected ends with it.
* `SoundsAsShown`, `ViewerStaysAlive`: the test note, on a settled connection that shed
  nothing, is that of the controls; frames go on, and the viewer stays connected to a
  server that stays up.

### Findings

One disagreement is a run of its own, which must violate its one property.

* `supervisor_race`. TESTING.md:56-57 says that the server never unlinks another live
  server. `bind_listener` takes a refused connection for a stale socket. It is also
  refused between bind(2) and listen(2) of another server, and two servers can find the
  same stale socket; then `remove_file` hits a server that listens by then.

The others are behaviours of the models, which the properties' statements and premises
take into account.

* *End of an orphan.* The end of stdin is meant to survive crashes of the GUI and to turn
  into a normal shutdown (docs/learnings.md:181-183, also main.rs:72-74 and
  ARCHITECTURE.md:74-77). `managed_lifetime_stdin` prints before it lowers the flag
  (main.rs:234), and the pipe it prints to has died with the GUI, so the flag stays set
  (`GuiCrash`, `StderrCloses`, `StdinEof`). The server drives the device until main's next
  report panics (`MainPanic`), and ends without joining its IPC thread; its socket stays
  behind, and a GUI that probes it in the meantime attaches to a server whose IPC thread
  that very probe brings down (`IpcPanic`). An end of the GUI that closes only stdin
  (`stop_managed`) is orderly. `OrphansStop` says no more than that the server ends.
* *Full registry.* ARCHITECTURE.md:109-110 has the server reserve a registry slot before
  it answers `HelloAccepted`. It answers once the command is in the ring, and does not
  limit its clients; the seventeenth instance is acknowledged and silently plays with the
  default configuration (engine.rs:469). The run `engine` has the full registry, two
  instances and one entry. The composed server's runs and theorems, whose properties are
  about registered clients, have an entry for every id.
* *Steal victim.* ARCHITECTURE.md:243-246 describes stealing as "prefer an oldest
  releasing voice, otherwise an oldest active voice". A voice that ended in the last frame
  still has its mask set and is not releasing (engine.rs:241): until the next frame a new
  note takes the *oldest* voice, which may be a held one. `StealIsLastResort` is stated
  for what the code does.
* *Reserve.* The comment at ipc.rs:26-28 has the reserve hold a NoteOff for every voice.
  NoteOffs are admitted whether or not their note is held (its NoteOn may have been shed
  at the reserve, or it was released before), so they can use up the reserve and the
  NoteOff of a held voice is dropped. Such a voice is still accounted for: its client's
  end releases it.
* *Plugin configuration.* ARCHITECTURE.md:171-173 has the reconnect worker retry until it
  reads a coherent snapshot. The loads it makes may be reordered (section 2), so that the
  copy it accepts can be torn; what `process()` sends behind it repairs that. The comment
  at ipc_client.rs:186-187 has the server always have the live configuration after a
  restart, which fails without any reordering. `process()` stores a new value in the snapshot,
  fails to send it because the channel is full, and the host takes it back: nothing
  differs from `last_sent` any more, so neither snapshot nor server hears of it, and the
  next `Hello` registers the value that was taken back. `LiveConfigIsCurrent` and
  `ConfigConverges` except it.
* *Stuck note in the plugin.* ARCHITECTURE.md:158-159 has a full queue of the plugin drop
  noncritical work. A NoteOff that meets a full channel is dropped like any other command
  (lib.rs:402), although the server counts it as critical; `NoNoteStuck` says this is the
  only way to a stuck note.
* *Shed parameter.* `process()` counts a parameter as sent once it is in its channel; the
  server may shed it at the reserve (lib.rs:303), and the two then differ until the
  parameter changes or the plugin reconnects. It is the other full queue that
  `LiveConfigIsCurrent` and `ConfigConverges` excuse.
* *Tail and layout.* wave.md:195-198 has the tail outlast the latest arrival. It is
  renewed from the present delays in every frame of an active source
  (engine.rs:1541-1545), which is enough as long as these change slowly. A layout adopted
  between two frames (engine.rs:745-747) may bring a transducer much nearer: the tail then
  ends before what was emitted earlier has arrived. With `LayoutMoves = TRUE` TLC refutes
  `TailCoversArrivals`.
* *Edit during startup.* The watcher takes the modification time of its first stat
  (main.rs:280) as that of the layout `main` loaded. An edit in between is adopted by
  nobody until the next edit; with `StartupEdits = TRUE` TLC refutes `EditsAreAdopted`.
* *A server that cannot bind* keeps its audio loop running (`Exit` of `ServerSupervisor`).

## 5. Proofs

Each proof module extends the module it is about. The theorems hold for every value of the
constants that satisfies the named assumptions of the modules, and of nothing else except
where a theorem says so:

| Assumption | Module | Says |
|---|---|---|
| `ProtocolAssumption` | `HapticProtocol` | defaults are values, `None` is not an id or a configuration |
| `EngineAssumption`, `OwnerAssumption` | `StimulusEngine` | finite, disjoint, non-empty pools of numbered slots; finitely many instances; bounds are naturals; `None` is not an owner |
| `IpcAssumption` | `IpcServer` | `None` is not a connection, messages are frames, bounds are naturals |
| `ServerAssumption` | `HapticServer` | those of both halves |
| `PluginAssumption` | `PluginClient` | initial values are values, `None` is not; finitely many parameters; capacities and bounds are naturals, the socket holds a frame |
| `SupervisorAssumption` | `ServerSupervisor` | `None` and `Stale` are two values and not processes, bounds are naturals |
| `LineAssumption`, `VoiceAssumption` | `DelayLine`, `WaveVoice` | the ring holds at least `3 * Half + 2` cells, epochs wrap at 2 or later, there is a transducer |
| `LayoutAssumption` | `LayoutReload` | the default is a layout, the refused texts are not, the rings have a place |
| `StreamAssumption`, `ClientAssumption` | `StatusStream` | a frame is no shorter than its non-empty header, the socket takes a byte, bounds are naturals; `None` is not a client |
| `ViewerAssumption` | `ViewerClient` | the first sliders and the default are values, `None` is not, the sockets hold a frame |

**StimulusEngineProofs.** `TypeCorrect` is inductive alone. `SlotsAgree` needs it: an
occupied slot has an owner because a slot is occupied and given an owner in one step, and
only the reap, which runs in `render`, removes owners, from unoccupied slots. The second
half (in `drain` an owned slot is occupied) is established by the reap and kept because no
command clears a mask except Panic, which clears owners with it. Three facts that no run
repeats are proved beside it: `SoundingAlwaysOccupied` (commands reach voices through
their owners, and in `drain` these are occupied), `SeqAlwaysOrders` and
`RegistryAlwaysBounded`. The three action properties follow from the invariants for one
arbitrary step, with one proof step per action; `StealIsLastResort` uses the order of
allocation numbers to turn the tie-break by slot into age.

**IpcServerProofs.** `SessionInv` is the conjunction of the type invariant,
`OneHolderPerId`, `SessionOrder`, `LiveClientsStayRegistered` and `NoRegistrationLeak`.
None of the last three is inductive by itself: that a new registration follows every older
session's end needs that an unreserved id is not open at the end of the ring
(`NoRegistrationLeak`); that a queued command lies in its session needs that a bound
client is (`LiveClientsStayRegistered`); that a cleanup closes only its own session needs
that an id has one holder. The argument is carried by `OpenBefore(i, k)`, "the engine has
i registered when it reaches place k", with one lemma for what a push does to it and one
for what a pop does. `ReserveAlwaysCritical` is inductive with the types.
`RoutesAlwaysMirrored` says for each output that the last route of it in the ring, or else
the engine's, is the mirror's; a push changes the last place only, a pop makes the first
the engine's. `ObserversAlwaysUpToDate` rests on `ObserverInv`: only a bound and connected
client observes, the loop visits only connected clients, and who overflows is dropped in
the flush behind it.

**HapticServerProofs** instantiates both proof modules with the server's variables and
takes over their lemmas. `StepOfBothHalves` shows that each step of the server is one of
each half, or leaves it alone; what the abstract engine of `IpcServer` registers is what
the real one does *because* `SessionOrder` holds and the registry has room, so refinement
and invariants (`HalvesInv`) are proved in one induction (`ServerImplementsIpc`).
`HeldInv`, the configuration of each held voice, gives `HeldVoicesAlwaysAccountedFor` and
`HeldVoicesAlwaysFollowConfig`. `ServerImplementsEngine` needs that the producer of
`StimulusEngine` has NoteOns left when the server pushes one: `CountInv` counts the
NoteOns applied and those under way in the ring, in the frames being decoded and in the
sockets, by an injection per step, against those written. All assume
`Cardinality(Instance) <= RegistrySize`, since the server acknowledges more clients than
it can register.

**PluginClientProofs.** `TypeInv` adds that nothing is written before the `Hello` and that
a session has a configuration. `NoteInv` says that the last NoteOn under way of a note the
host has ended has its NoteOff behind it; channel and socket are read as one queue, and a
lemma each tells what an append, a tail and a concatenation do to the last message of a
note. `ConfigInv` does the same for the newest value of each parameter, which may also be
in a cell not yet loaded, in the loaded snapshot or still to be sent by the block; that
the block sends behind what it stores is what covers a torn load.

**ServerSupervisorProofs.** `PathInv`: a path that names a server names one that has bound
it and not ended, so a stale socket is the work of a crash, a kill or a panic. `EndpointInv`: unless
start-ups have overlapped, one server starts at a time, nobody listens while it unlinks
or binds, and whoever has bound the path is named by it.

**WaveVoiceProofs.** `LinesOK` says that no cell is of an epoch its line has yet to reach,
so that moving to the next one silences all of them; the wrap keeps it by clearing them.
Arithmetic modulo the ring size is in three lemmas (`LapLemma`, `LookaheadLemma`,
`CellLemma`), what a reset, a scatter and a read do to the schedule in one each, and
`LinesImplementSchedule` follows. `TailIsLongEnough` rests on `TailInv`: what is due in k
frames is due before the tail ends, and, while the source sounds, within `Horizon(delay)`
of the present delay; half a frame of movement shortens it by no more than the frame that
passes. It is stated for `~LayoutMoves`.

**LayoutStreamProofs** is about `LayoutReload`, `StatusStream` and their composition.
`AgreeInv` says of the two rings what holds between a pair of pushes, too.
`StreamKeepsTheReload` carries it over to the composition, whose steps are steps of the
reload or leave it alone.

The connection rests on `StreamInv`, which speaks of one sequence, the bytes in the
decoder, in the socket and in the client's queue (`OnTheWay`): it is *framed* (its first
byte opens a frame and each byte continues the frame of the one before it or, behind a
last byte, opens another), it ends with a frame while the server has the client, and
before the acknowledgement is seen it begins with it. Nothing less is inductive: a read or
a write may end anywhere, so that no part of the sequence is framed by itself. The reader
never finds a frame torn, since what heads a framed sequence and is long enough is a frame
(`FirstFrame`); this is why the branch of `DecodeFrame` that gives the connection up
is never taken against this server. A turn of the IPC thread, many appends to the queue
and a write, is `TurnedLemma` and `FlushedLemma`: what was on its way begins what is
(`Begins`), and the bytes written leave the queue as they enter the socket. From these
follow `StreamTypes` and, with one step of `FrameQueue` for each step,
`StreamImplementsFrameQueue`. `ObserversAlwaysHeadForLayout` follows the newest layout
through the frames of a turn: the greeting tells the layout the thread held when the turn
began, the broadcast those it has adopted, and a frame that does not fit ends the client
(`TellLemma`, `TurnTells`).

**ViewerClientProofs.** `GreetInv` follows the greeting: an open connection has a reader
that greets or reads, nothing is in the socket before the `Hello`, which is alone until it
is answered, and only then is there a writer. `HelloAlwaysAlone` is why a command of the
UI can never overtake the `Hello`.

`SoundsAlwaysAsShown` keeps an account of three things: what the controls show, what the UI
has still to send in this frame, and what the engine will play once it has read what is in
the socket. `SoundInv` says that on a connection that lost nothing the engine, once it has read
the socket and what the UI is still to send (`Final`), plays exactly the note the UI
remembers, in every state and not only between frames; `ShownInv` that a note played
has been played with the parameters compared against in the next frame; `SleepInv` what a
lost connection leaves behind, phase by phase of the frame of the UI that sees it. The
account is kept by `Applied`, one command applied to the engine, and by `After`, all those
of a queue: a command appended is applied last (`AfterAppend`), one taken is applied first
(`AfterHead`). The theorem is stated for `~UiMayStall`: the reader sleeps half a second
after a connection is lost and the UI requests a repaint in every frame, so that one falls
into the sleep (`reader_thread` of haptic-viewer, main.rs:618-627), except where the UI
thread itself is blocked; without the premise the property is false, and section 3 says
what happens then and when `stop_managed` can bring it about.

**Recursion in the proofs.** The library's induction theorems take the fact to be proved
as an operator, which these provers cannot be given. Facts about all numbers (a function
defined by recursion exists, what it maps to, where the frames lie in a sequence of bytes)
are proved by the least counterexample instead: `LeastNatural`, a consequence of
`WFMin`, gives the first number that fails, and its predecessor shows that it does not.
`QueueFrames` and `After` are recursive functions for that reason.

**Checked but not proved.** Liveness under fairness (`VanishedClientsAreReclaimed`,
`ConfigConverges`, `OrphansStop`, `StaleSocketRecovered`, `EditsAreAdopted`,
`ViewerFollowsLayout`, `ViewerStaysAlive`) is out of TLAPS's reach and stays with TLC. Every
invariant, action property and refinement that a passing run checks is proved. `StreamTypeOK` and
`LayoutTypeOK` are proved only.

## 6. Not modelled

* Sample values, filters, interpolation, motion's trajectories, the Hilbert analyser, the
  published output snapshots and their reconstruction at the device rate: real arithmetic.
  The delay lines are modelled by the cells they touch.
* The bincode inside frames and the clamping of values by `validate_command`: a command is
  valid or refused. What `parse_layout` accepts is a layout or a text it refuses.
* Status contents other than layout, routing and the presence of an output.
* The end of the server in `HapticServer` (`ServerSupervisor` has it, without clients),
  and the panics of an orphan's threads anywhere but there: the other modules are about a
  server whose standard error is read;
  options, device selection and statistics of the audio driver; connect-only mode, the
  captured log, and `try_wait` failing, of the supervisor.
* The plugin's MPE updates and cache, its diagnostics and teardown.
* The viewer's choice of the phase reference, its drawing, and the plugin's editor: no
  other part depends on their state.
* The build and analysis tools.

## 7. Plan

Done, in this order because every client depends on the server: protocol, engine, IPC
thread, composition, the plugin, the supervisor; then the delay lines, the layout reload,
the status stream and the viewer; and the proofs of all of them. What is left:

1. `ViewerClient` composed with `ServerSupervisor`, whose restarts are the crashes and
   starts of its environment.
2. The reading half of the stream (`FrameDecoder` in the server), and frames of different
   lengths.
3. What liveness rests on and can be stated without it: that each wait of the supervisor
   and the plugin has somebody who can end it.
