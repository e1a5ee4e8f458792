-------------------------- MODULE ServerSupervisor --------------------------
(***************************************************************************)
(* Who owns the server process, and who owns the socket.  ServerSupervisor *)
(* of haptic-viewer attaches to a server or starts one and holds the write *)
(* end of its stdin; main() of haptic-server runs audio and IPC thread     *)
(* until its flag falls; bind_listener takes the path of the socket.       *)
(*                                                                         *)
(* The path is modelled by what it names: the listener of a server, a      *)
(* socket whose listener is gone, or nothing.  System calls of different   *)
(* processes interleave, bind(2) and listen(2) of UnixListener::bind       *)
(* included.                                                               *)
(*                                                                         *)
(* Standard error is part of the control: eprintln! panics when the other  *)
(* end of its pipe is closed, and the GUI reads that of its child.         *)
(*                                                                         *)
(* Left out: the connect-only mode, which starts and stops nothing, and    *)
(* try_wait failing for the own child.                                     *)
(*                                                                         *)
(* Definitions named Faulty... are not part of the model: each is a bug    *)
(* that a property has to catch, next to the definition it spoils.         *)
(***************************************************************************)
EXTENDS Naturals

CONSTANTS
  Server,       \* server processes; one can be started again once it is gone
  None,         \* no server, or nothing at the path
  Stale,        \* at the path: a socket without a listener
  MaxLaunches,  \* bound on starts of the GUI and of servers from a shell
  MaxCrashes    \* bound on crashes

ASSUME SupervisorAssumption ==
  /\ None \notin Server /\ Stale \notin Server /\ None # Stale
  /\ MaxLaunches \in Nat /\ MaxCrashes \in Nat

VARIABLES
  path,        \* what the socket path names
  ipc,         \* where the IPC thread of each server is; "off": no process
  running,     \* the server's flag
  supervised,  \* --managed-lifetime-stdin
  stdin,       \* the write end of its stdin is open
  stderr,      \* somebody reads what it prints
  gui,         \* where the GUI's thread is; "down": no process
  mode,        \* ServerMode
  child,       \* the child that the GUI has yet to reap
  next,        \* what follows the end of stop_managed
  unclean,     \* history: a crash, a kill or a panic
  overlapped,  \* history: two servers were starting at the same time
  launches, crashes   \* counters for the bounds

pipes    == <<supervised, stdin, stderr>>
servers  == <<ipc, running, pipes>>
guiVars  == <<gui, mode, child, next>>
counters == <<launches, crashes>>
vars == <<path, servers, guiVars, unclean, overlapped, counters>>

Starting(p) == ipc[p] \in {"probe", "unlink", "bind", "listen"}

\* From listen(2) on.
Listening(p) == ipc[p] \in {"announce", "serving"}

\* connect(2) succeeds.
Reachable == path \in Server /\ Listening(path)

\* Its GUI died without stopping it.
Orphan(p) == ipc[p] # "off" /\ supervised[p] /\ p # child

TypeOK ==
  /\ path \in Server \cup {None, Stale}
  /\ ipc \in [Server -> {"off", "probe", "unlink", "bind", "listen", "announce",
                         "serving", "closed", "failed"}]
  /\ running \in [Server -> BOOLEAN]
  /\ supervised \in [Server -> BOOLEAN]
  /\ stdin \in [Server -> BOOLEAN] /\ stderr \in [Server -> BOOLEAN]
  /\ gui \in {"down", "start", "spawn", "idle", "stopping"}
  /\ mode \in {"External", "Managed", "Stopped", "Failed"}
  /\ child \in Server \cup {None}
  /\ gui \in {"down", "start", "spawn"} => child = None
  /\ gui = "stopping" => child # None
  /\ next \in {"idle", "start", "down"}
  /\ unclean \in BOOLEAN /\ overlapped \in BOOLEAN
  /\ launches \in 0..MaxLaunches /\ crashes \in 0..MaxCrashes

-----------------------------------------------------------------------------
(***************************************************************************)
(* A server process.                                                       *)
(***************************************************************************)
Launch(p, owned) ==
  /\ ipc[p] = "off"
  /\ ipc' = [ipc EXCEPT ![p] = "probe"]
  /\ running' = [running EXCEPT ![p] = TRUE]
  /\ supervised' = [supervised EXCEPT ![p] = owned]
  /\ stdin' = [stdin EXCEPT ![p] = owned]
  /\ stderr' = [stderr EXCEPT ![p] = TRUE]
  /\ overlapped' = (overlapped \/ \E q \in Server : Starting(q))

\* From a shell.  The id of a child that has not been reaped is not free.
LaunchExternal(p) ==
  /\ p # child
  /\ launches < MaxLaunches
  /\ launches' = launches + 1
  /\ Launch(p, FALSE)
  /\ UNCHANGED <<path, guiVars, unclean, crashes>>

\* Takes any error of connect(2) for a free path.
FaultyProbe(p) ==
  /\ ipc[p] = "probe"
  /\ ipc' = [ipc EXCEPT ![p] =
               CASE Reachable   -> "failed"
                 [] ~Reachable  -> "bind"]
  /\ UNCHANGED <<path, running, pipes, guiVars, unclean, overlapped,
                 counters>>

\* Replaces whatever it finds.
FaultyProbeForcing(p) ==
  /\ ipc[p] = "probe"
  /\ ipc' = [ipc EXCEPT ![p] = IF path = None THEN "bind" ELSE "unlink"]
  /\ UNCHANGED <<path, running, pipes, guiVars, unclean, overlapped,
                 counters>>

Probe(p) ==
  /\ ipc[p] = "probe"
  /\ ipc' = [ipc EXCEPT ![p] =
               CASE Reachable   -> "failed"
                 [] path = None -> "bind"
                 [] OTHER       -> "unlink"]
  /\ UNCHANGED <<path, running, pipes, guiVars, unclean, overlapped,
                 counters>>

\* remove_file works on the path, whatever it names by now.
Unlink(p) ==
  /\ ipc[p] = "unlink"
  /\ path' = None
  /\ ipc' = [ipc EXCEPT ![p] = IF path = None THEN "failed" ELSE "bind"]
  /\ UNCHANGED <<running, pipes, guiVars, unclean, overlapped, counters>>

Bind(p) ==
  /\ ipc[p] = "bind"
  /\ IF path = None
     THEN path' = p /\ ipc' = [ipc EXCEPT ![p] = "listen"]
     ELSE UNCHANGED path /\ ipc' = [ipc EXCEPT ![p] = "failed"]
  /\ UNCHANGED <<running, pipes, guiVars, unclean, overlapped, counters>>

Listen(p) ==
  /\ ipc[p] = "listen"
  /\ ipc' = [ipc EXCEPT ![p] = "announce"]
  /\ UNCHANGED <<path, running, pipes, guiVars, unclean, overlapped,
                 counters>>

\* "IPC server listening".
Announce(p) ==
  /\ ipc[p] = "announce" /\ stderr[p]
  /\ ipc' = [ipc EXCEPT ![p] = "serving"]
  /\ UNCHANGED <<path, running, pipes, guiVars, unclean, overlapped, counters>>

\* The IPC thread prints that, and each client that comes or goes.  A panic drops
\* the listener and leaves the path.
IpcPanic(p) ==
  /\ Listening(p) /\ ~stderr[p]
  /\ ipc' = [ipc EXCEPT ![p] = "failed"]
  /\ path' = (IF path = p THEN Stale ELSE path)
  /\ unclean' = TRUE
  /\ UNCHANGED <<running, pipes, guiVars, overlapped, counters>>

\* Ctrl-C, or an audio device that cannot be opened: printed, then the flag falls.
Interrupt(p) ==
  /\ ipc[p] # "off" /\ running[p] /\ stderr[p]
  /\ running' = [running EXCEPT ![p] = FALSE]
  /\ UNCHANGED <<path, ipc, pipes, guiVars, unclean, overlapped, counters>>

\* Watches stdin only while there is an IPC loop.
FaultyStdinEof(p) ==
  /\ ipc[p] = "serving" /\ running[p] /\ stderr[p]
  /\ supervised[p] /\ ~stdin[p]
  /\ running' = [running EXCEPT ![p] = FALSE]
  /\ UNCHANGED <<path, ipc, pipes, guiVars, unclean, overlapped, counters>>

\* The watcher prints that its supervisor has closed, then lowers the flag; when
\* nobody reads it any more it panics instead, and the flag stays.
StdinEof(p) ==
  /\ ipc[p] # "off" /\ running[p] /\ stderr[p]
  /\ supervised[p] /\ ~stdin[p]
  /\ running' = [running EXCEPT ![p] = FALSE]
  /\ UNCHANGED <<path, ipc, pipes, guiVars, unclean, overlapped, counters>>

\* The loop ends, removes the path, whatever it names, and drops the listener.
StopListening(p) ==
  /\ ipc[p] = "serving" /\ ~running[p]
  /\ path' = None
  /\ ipc' = [ipc EXCEPT ![p] = "closed"]
  /\ UNCHANGED <<running, pipes, guiVars, unclean, overlapped, counters>>

\* The process is gone, and with it its listener.
Gone(p) ==
  /\ ipc' = [ipc EXCEPT ![p] = "off"]
  /\ stdin' = [stdin EXCEPT ![p] = FALSE]
  /\ stderr' = [stderr EXCEPT ![p] = FALSE]
  /\ path' = (IF path = p THEN Stale ELSE path)

\* Returns from main without waiting for the IPC thread.
FaultyExit(p) ==
  /\ ipc[p] # "off" /\ ~running[p]
  /\ Gone(p)
  /\ UNCHANGED <<running, supervised, guiVars, unclean, overlapped, counters>>

\* The audio loop has seen the flag, and the IPC thread is joined.  An IPC
\* thread that failed does not end the process by itself.
Exit(p) ==
  /\ ~running[p] /\ ipc[p] \in {"closed", "failed"}
  /\ Gone(p)
  /\ UNCHANGED <<running, supervised, guiVars, unclean, overlapped, counters>>

\* main prints while it starts, a report every five seconds, and when it ends.
MainPanic(p) ==
  /\ ipc[p] # "off" /\ ~stderr[p]
  /\ Gone(p)
  /\ unclean' = TRUE
  /\ UNCHANGED <<running, supervised, guiVars, overlapped, counters>>

Crash(p) ==
  /\ ipc[p] # "off"
  /\ crashes < MaxCrashes /\ crashes' = crashes + 1
  /\ Gone(p)
  /\ unclean' = TRUE
  /\ UNCHANGED <<running, supervised, guiVars, overlapped, launches>>

ServerStep(p) ==
  \/ Probe(p) \/ Unlink(p) \/ Bind(p) \/ Listen(p) \/ Announce(p)
  \/ StdinEof(p) \/ StopListening(p) \/ Exit(p)
  \/ IpcPanic(p) \/ MainPanic(p)

-----------------------------------------------------------------------------
(***************************************************************************)
(* The GUI: ServerSupervisor and the buttons of its panel.                 *)
(***************************************************************************)
GuiStart ==
  /\ gui = "down"
  /\ launches < MaxLaunches /\ launches' = launches + 1
  /\ gui' = "start" /\ mode' = "Stopped"
  /\ UNCHANGED <<path, servers, child, next, unclean, overlapped, crashes>>

\* server_reachable, in new() and in start_managed.
ProbeEndpoint ==
  /\ gui = "start"
  /\ IF Reachable
     THEN gui' = "idle" /\ mode' = "External"
     ELSE gui' = "spawn" /\ UNCHANGED mode
  /\ UNCHANGED <<path, servers, child, next, unclean, overlapped, counters>>

Spawn(p) ==
  /\ gui = "spawn"
  /\ Launch(p, TRUE)
  /\ child' = p /\ mode' = "Managed" /\ gui' = "idle"
  /\ UNCHANGED <<path, next, unclean, counters>>

\* No binary, or it does not start.
SpawnFail ==
  /\ gui = "spawn"
  /\ mode' = "Failed" /\ gui' = "idle"
  /\ UNCHANGED <<path, servers, child, next, unclean, overlapped, counters>>

Poll ==
  /\ gui = "idle" /\ child # None
  /\ ipc[child] = "off"
  /\ child' = None
  /\ mode' = (IF Reachable THEN "External" ELSE "Failed")
  /\ UNCHANGED <<path, servers, gui, next, unclean, overlapped, counters>>

\* "start server".
Start ==
  /\ gui = "idle" /\ mode \in {"Stopped", "Failed"}
  /\ gui' = "start"
  /\ UNCHANGED <<path, servers, mode, child, next, unclean, overlapped, counters>>

\* Goes on without stopping its child.
FaultyStopManaged(then) ==
  /\ gui = "idle" /\ child # None
  /\ gui' = then
  /\ UNCHANGED <<path, servers, mode, child, next, unclean, overlapped, counters>>

\* stop_managed closes the pipe; restart_managed and the end of the GUI go on
\* from there.
StopManaged(then) ==
  /\ gui = "idle" /\ child # None
  /\ stdin' = [stdin EXCEPT ![child] = FALSE]
  /\ gui' = "stopping" /\ next' = then
  /\ UNCHANGED <<path, ipc, running, supervised, stderr, mode, child, unclean,
                 overlapped, counters>>

Stopped ==
  /\ gui = "stopping" /\ ipc[child] = "off"
  /\ child' = None /\ mode' = "Stopped" /\ gui' = next
  /\ UNCHANGED <<path, servers, next, unclean, overlapped, counters>>

\* Three seconds have passed: the child is killed and reaped.
StopTimeout ==
  /\ gui = "stopping" /\ ipc[child] # "off"
  /\ Gone(child)
  /\ unclean' = TRUE
  /\ child' = None /\ mode' = "Stopped" /\ gui' = next
  /\ UNCHANGED <<running, supervised, next, overlapped, counters>>

\* The window closes and there is no child to stop.
GuiExit ==
  /\ gui = "idle" /\ child = None
  /\ gui' = "down"
  /\ UNCHANGED <<path, servers, mode, child, next, unclean, overlapped, counters>>

\* The system closes the pipes, that to the child's stdin first, and adopts the
\* child.
GuiCrash ==
  /\ gui # "down"
  /\ crashes < MaxCrashes /\ crashes' = crashes + 1
  /\ gui' = "down" /\ child' = None /\ mode' = "Stopped"
  /\ stdin' = [p \in Server |-> IF p = child THEN FALSE ELSE stdin[p]]
  /\ UNCHANGED <<path, ipc, running, supervised, stderr, next, unclean, overlapped,
                 launches>>

StderrCloses(p) ==
  /\ Orphan(p) /\ stderr[p]
  /\ stderr' = [stderr EXCEPT ![p] = FALSE]
  /\ UNCHANGED <<path, ipc, running, supervised, stdin, guiVars, unclean,
                 overlapped, counters>>

GuiStep ==
  \/ GuiStart \/ ProbeEndpoint \/ SpawnFail \/ Poll \/ Start \/ Stopped
  \/ StopTimeout \/ GuiExit \/ GuiCrash
  \/ \E p \in Server : Spawn(p) \/ StderrCloses(p)
  \/ \E then \in {"idle", "start", "down"} : StopManaged(then)

-----------------------------------------------------------------------------
Init ==
  /\ path \in {None, Stale}
  /\ ipc = [p \in Server |-> "off"]
  /\ running = [p \in Server |-> FALSE]
  /\ supervised = [p \in Server |-> FALSE]
  /\ stdin = [p \in Server |-> FALSE] /\ stderr = [p \in Server |-> FALSE]
  /\ gui = "down" /\ mode = "Stopped" /\ child = None /\ next = "idle"
  /\ unclean = (path = Stale) /\ overlapped = FALSE
  /\ launches = 0 /\ crashes = 0

Next ==
  \/ GuiStep
  \/ \E p \in Server : ServerStep(p) \/ LaunchExternal(p) \/ Interrupt(p) \/ Crash(p)

Spec == Init /\ [][Next]_vars

\* Every server process gets to run.  Of the GUI nothing is assumed.
FairSpec == Spec /\ \A p \in Server : WF_vars(ServerStep(p))

-----------------------------------------------------------------------------
(***************************************************************************)
(* Properties.                                                             *)
(***************************************************************************)
\* A live server keeps its endpoint unless two servers started at the same time.
LiveEndpointKept ==
  overlapped \/ \A p \in Server : Listening(p) => path = p

\* What TESTING.md says: no server unlinks another live server.
NeverUnlinksLiveServer == \A p \in Server : Listening(p) => path = p

\* An orderly end of a server leaves no socket behind.
OrderlyExitRemovesSocket == path = Stale => unclean

\* A managed server without a supervisor ends, wherever its start-up was, whether or
\* not it got the endpoint, and whether its flag falls or a panic ends it.
OrphansStop ==
  \A p \in Server : supervised[p] /\ ~stdin[p] ~> ipc[p] = "off"

\* A server that starts while no other is there comes to serve, whatever an
\* earlier one left at the path.
Alone(p) == \A q \in Server \ {p} : ipc[q] = "off"
StaleSocketRecovered ==
  \A p \in Server :
    ipc[p] = "probe" /\ Alone(p) ~>
      ipc[p] \in {"serving", "off"} \/ ~running[p] \/ ~Alone(p)
=============================================================================
