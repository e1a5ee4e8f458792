----------------------------- MODULE LayoutStream -----------------------------
(***************************************************************************)
(* Layout hot reload with an observer connected: the watcher, the callback *)
(* and the IPC thread of LayoutReload, and the IPC thread's other end in   *)
(* the viewer, StatusStream.  The IPC thread adopts the layouts of its     *)
(* ring and broadcasts each of them in the same turn of its loop.          *)
(***************************************************************************)
EXTENDS LayoutReload, StatusStream

vars == <<layoutVars, streamVars>>

Init == LayoutInit /\ StreamInit

\* Faulty: the new layouts are adopted before the greeting and told only to
\* those greeted earlier, as the layout the thread started the turn with.
FaultyIpcThread ==
  \E output \in BOOLEAN :
    /\ IpcAdopts
    /\ IF dialled \/ client # None
       THEN ServePass(ipc_layout, <<>>, output)
       ELSE UNCHANGED streamVars

\* listen_loop_at
IpcThread ==
  \E output \in BOOLEAN :
    /\ IpcAdopts
    /\ IF dialled \/ client # None
       THEN ServePass(ipc_layout, ipc_ring, output)
       ELSE UNCHANGED streamVars

Callback == EngineAdopts /\ UNCHANGED streamVars

WatcherThread == Watcher /\ UNCHANGED streamVars

ReaderThread == Reader /\ UNCHANGED layoutVars

Next ==
  \/ (Edit \/ LoadAtStartup) /\ UNCHANGED streamVars
  \/ WatcherThread \/ Callback \/ IpcThread
  \/ main = "running" /\ ServerDrops /\ UNCHANGED layoutVars
  \/ main = "running" /\ ReaderThread

Fairness ==
  /\ WF_vars(LoadAtStartup /\ UNCHANGED streamVars)
  /\ WF_vars(WatcherThread)
  /\ WF_vars(Callback)
  /\ WF_vars(IpcThread)
  /\ WF_vars(main = "running" /\ ReaderThread)

Spec == Init /\ [][Next]_vars

FairSpec == Spec /\ Fairness

-----------------------------------------------------------------------------
(***************************************************************************)
(* Properties.                                                             *)
(***************************************************************************)
\* Whatever the socket takes and the viewer reads at a time, and whenever
\* the server drops an observer whose backlog is full, the viewer shows whole
\* frames in the order they were queued, the acknowledgement first.
StreamIsFrameQueue == Status!Spec

\* The layout a screen showing shown has once it is given frames.
HeadsFor(frames, shown, layout) ==
  \/ \E i \in 1..Len(frames) :
       /\ frames[i] = LayoutStatus(layout)
       /\ \A j \in (i + 1)..Len(frames) : frames[j].kind # "Layout"
  \/ shown = layout /\ \A i \in 1..Len(frames) : frames[i].kind # "Layout"

\* With the frames that are on their way to it, a greeted observer has the
\* layout the IPC thread holds: no reload is missed between the greeting and
\* the broadcasts, none arrives before an older one, and none is shed alone.
ObserverHeadsForLayout ==
  client # None /\ client.greeted => HeadsFor(InFlight, shared.layout, ipc_layout)

\* A viewer that stays connected shows the layout the IPC thread holds, also
\* when a reload meets its greeting or an earlier layout still in the queue.
ViewerFollowsLayout ==
  <>[](client # None) => <>[](shared.connected /\ shared.layout = ipc_layout)
=============================================================================
