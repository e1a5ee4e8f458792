----------------------------- MODULE LayoutReload -----------------------------
(***************************************************************************)
(* How the transducer layout gets from haptic.toml to the two threads that *)
(* use it (haptic-server/src/main.rs and config.rs): main reads the file   *)
(* once, config_watcher polls its modification time and pushes every       *)
(* layout it can parse into two rings, and the audio callback and the IPC  *)
(* thread each adopt what they find in theirs.                             *)
(*                                                                         *)
(* A text of the file is what load_layout makes of it: a layout, Broken    *)
(* when parse_layout refuses it, Missing when there is no file.  The       *)
(* environment edits the file at most MaxEdits times, at any moment.       *)
(*                                                                         *)
(* Definitions named Faulty... are not part of the model: each is a bug    *)
(* that a property below has to catch, next to the definition it spoils.   *)
(***************************************************************************)
EXTENDS StatusFrame

CONSTANTS
  DefaultLayout,  \* the built-in 4x8 grid
  Broken,         \* a text parse_layout refuses
  Missing,        \* no file
  RingCapacity,   \* places of each layout ring
  MaxEdits,       \* bound on the edits of the file
  StartupEdits    \* may the file be edited before the watcher's first stat?

ASSUME LayoutAssumption ==
  /\ DefaultLayout \in Layout
  /\ Broken \notin Layout /\ Missing \notin Layout /\ Broken # Missing
  /\ RingCapacity \in Nat \ {0} /\ MaxEdits \in Nat /\ StartupEdits \in BOOLEAN

Text == Layout \cup {Broken, Missing}

VARIABLES
  file,           \* its text and when it was modified
  main,           \* "loading", then "running" or "refused"
  watcher,        \* config_watcher: "starting", "asleep", "changed", "engine", "ipc"
  last_mtime,     \* the modification time it has seen
  loaded,         \* the layout it is pushing
  engine_ring,
  ipc_ring,
  engine_layout,  \* what the callback renders with
  ipc_layout,     \* what the IPC thread tells observers
  lost            \* rings whose latest push did not fit (not in the code)

layoutVars == <<file, main, watcher, last_mtime, loaded, engine_ring, ipc_ring,
                engine_layout, ipc_layout, lost>>

NoTime == 0

\* metadata().modified(): an edit takes a new time, a missing file has none.
Mtime == IF file.text = Missing THEN NoTime ELSE file.mtime

LayoutTypeOK ==
  /\ file \in [text: Text, mtime: Nat \ {0}]
  /\ main \in {"loading", "running", "refused"}
  /\ watcher \in {"starting", "asleep", "changed", "engine", "ipc"}
  /\ last_mtime \in Nat
  /\ loaded \in Layout
  /\ engine_ring \in Seq(Layout) /\ Len(engine_ring) <= RingCapacity
  /\ ipc_ring \in Seq(Layout) /\ Len(ipc_ring) <= RingCapacity
  /\ engine_layout \in Layout /\ ipc_layout \in Layout
  /\ lost \subseteq {"engine", "ipc"}

LayoutInit ==
  /\ file \in [text: Text, mtime: {1}]
  /\ main = "loading" /\ watcher = "starting"
  /\ last_mtime = NoTime
  /\ loaded = DefaultLayout
  /\ engine_ring = <<>> /\ ipc_ring = <<>>
  /\ engine_layout = DefaultLayout /\ ipc_layout = DefaultLayout
  /\ lost = {}

-----------------------------------------------------------------------------
\* Somebody edits, removes or restores the file.
Edit ==
  /\ file.mtime <= MaxEdits
  /\ StartupEdits \/ watcher # "starting"
  /\ \E text \in Text \ {file.text} :
       file' = [text |-> text, mtime |-> file.mtime + 1]
  /\ UNCHANGED <<main, watcher, last_mtime, loaded, engine_ring, ipc_ring,
                 engine_layout, ipc_layout, lost>>

\* main: a missing file means the default, an invalid one ends the program.
LoadAtStartup ==
  /\ main = "loading"
  /\ IF file.text = Broken
     THEN main' = "refused" /\ UNCHANGED <<engine_layout, ipc_layout>>
     ELSE \E layout \in Layout :
            /\ layout = IF file.text = Missing THEN DefaultLayout ELSE file.text
            /\ main' = "running"
            /\ engine_layout' = layout /\ ipc_layout' = layout
  /\ UNCHANGED <<file, watcher, last_mtime, loaded, engine_ring, ipc_ring, lost>>

\* The watcher's thread takes the time it finds as the one already loaded.
FirstStat ==
  /\ main = "running" /\ watcher = "starting"
  /\ last_mtime' = Mtime /\ watcher' = "asleep"
  /\ UNCHANGED <<file, main, loaded, engine_ring, ipc_ring, engine_layout,
                 ipc_layout, lost>>

Poll ==
  /\ watcher = "asleep"
  /\ Mtime # NoTime /\ Mtime # last_mtime
  /\ last_mtime' = Mtime /\ watcher' = "changed"
  /\ UNCHANGED <<file, main, loaded, engine_ring, ipc_ring, engine_layout,
                 ipc_layout, lost>>

\* load_layout reads the file as it is by now; a refused text is given up.
Load ==
  /\ watcher = "changed"
  /\ IF file.text \in Layout
     THEN loaded' = file.text /\ watcher' = "engine"
     ELSE watcher' = "asleep" /\ UNCHANGED loaded
  /\ UNCHANGED <<file, main, last_mtime, engine_ring, ipc_ring, engine_layout,
                 ipc_layout, lost>>

\* Faulty: the time is taken after the layout, so an edit in between is seen
\* as loaded.
FaultyPushEngine ==
  /\ watcher = "engine" /\ watcher' = "ipc"
  /\ last_mtime' = Mtime
  /\ IF Len(engine_ring) < RingCapacity
     THEN engine_ring' = Append(engine_ring, loaded) /\ lost' = lost \ {"engine"}
     ELSE lost' = lost \cup {"engine"} /\ UNCHANGED engine_ring
  /\ UNCHANGED <<file, main, loaded, ipc_ring, engine_layout, ipc_layout>>

\* A push into a full ring is ignored.
PushEngine ==
  /\ watcher = "engine" /\ watcher' = "ipc"
  /\ IF Len(engine_ring) < RingCapacity
     THEN engine_ring' = Append(engine_ring, loaded) /\ lost' = lost \ {"engine"}
     ELSE lost' = lost \cup {"engine"} /\ UNCHANGED engine_ring
  /\ UNCHANGED <<file, main, last_mtime, loaded, ipc_ring, engine_layout, ipc_layout>>

PushIpc ==
  /\ watcher = "ipc" /\ watcher' = "asleep"
  /\ IF Len(ipc_ring) < RingCapacity
     THEN ipc_ring' = Append(ipc_ring, loaded) /\ lost' = lost \ {"ipc"}
     ELSE lost' = lost \cup {"ipc"} /\ UNCHANGED ipc_ring
  /\ UNCHANGED <<file, main, last_mtime, loaded, engine_ring, engine_layout, ipc_layout>>

Watcher == FirstStat \/ Poll \/ Load \/ PushEngine \/ PushIpc

\* What a thread has once it has drained its ring.
Newest(ring, layout) == IF ring = <<>> THEN layout ELSE ring[Len(ring)]

\* Faulty: one layout is adopted and the rest of the ring is thrown away.
FaultyEngineAdopts ==
  /\ main = "running" /\ engine_ring # <<>>
  /\ engine_layout' = Head(engine_ring) /\ engine_ring' = <<>>
  /\ UNCHANGED <<file, main, watcher, last_mtime, loaded, ipc_ring, ipc_layout, lost>>

\* The end of drain_commands.
EngineAdopts ==
  /\ main = "running" /\ engine_ring # <<>>
  /\ engine_layout' = Newest(engine_ring, engine_layout) /\ engine_ring' = <<>>
  /\ UNCHANGED <<file, main, watcher, last_mtime, loaded, ipc_ring, ipc_layout, lost>>

\* listen_loop_at adopts, then tells its observers (see LayoutStream).
IpcAdopts ==
  /\ main = "running"
  /\ ipc_layout' = Newest(ipc_ring, ipc_layout) /\ ipc_ring' = <<>>
  /\ UNCHANGED <<file, main, watcher, last_mtime, loaded, engine_ring,
                 engine_layout, lost>>

LayoutNext == Edit \/ LoadAtStartup \/ Watcher \/ EngineAdopts \/ IpcAdopts

LayoutSpec == LayoutInit /\ [][LayoutNext]_layoutVars

\* Every thread keeps running; nobody has to edit the file.
LayoutFairSpec ==
  /\ LayoutSpec
  /\ WF_layoutVars(LoadAtStartup) /\ WF_layoutVars(Watcher)
  /\ WF_layoutVars(EngineAdopts) /\ WF_layoutVars(IpcAdopts)

-----------------------------------------------------------------------------
(***************************************************************************)
(* Properties.                                                             *)
(***************************************************************************)
\* The two threads, each counting what waits in its ring, are heading for
\* the same layout: between two reloads they can differ only when a push
\* into one of the rings was ignored because it was full.
LayoutsAgree ==
  watcher # "ipc" /\ lost = {} =>
    Newest(engine_ring, engine_layout) = Newest(ipc_ring, ipc_layout)

\* A file that is left alone with a valid text is what the callback renders
\* and the observers are told in the end, unless a ring was full.
EditsAreAdopted ==
  \A layout \in Layout :
    <>[](main = "running" /\ file.text = layout) =>
      <>[](lost = {} => engine_layout = layout /\ ipc_layout = layout)
=============================================================================
