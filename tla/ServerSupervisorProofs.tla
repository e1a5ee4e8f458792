----------------------- MODULE ServerSupervisorProofs -----------------------
(***************************************************************************)
(* Proofs about ServerSupervisor, for any number of servers, launches and  *)
(* crashes.                                                                *)
(***************************************************************************)
EXTENDS ServerSupervisor, TLAPS

\* A child is managed, so the button that starts a server finds none.
TypeInv == TypeOK /\ (child # None => mode = "Managed")

LEMMA TypeInit == Init => TypeInv
<1> SUFFICES ASSUME Init PROVE TypeInv
  OBVIOUS
<1>1. unclean \in BOOLEAN
  BY DEF Init
<1>2. /\ path \in {None, Stale} /\ overlapped = FALSE
      /\ ipc = [p \in Server |-> "off"] /\ running = [p \in Server |-> FALSE]
      /\ supervised = [p \in Server |-> FALSE] /\ stdin = [p \in Server |-> FALSE]
      /\ stderr = [p \in Server |-> FALSE]
      /\ gui = "down" /\ mode = "Stopped" /\ child = None /\ next = "idle"
      /\ launches = 0 /\ crashes = 0
  BY DEF Init
<1>3. /\ ipc \in [Server -> {"off", "probe", "unlink", "bind", "listen", "announce",
                           "serving", "closed", "failed"}]
      /\ running \in [Server -> BOOLEAN] /\ supervised \in [Server -> BOOLEAN]
      /\ stdin \in [Server -> BOOLEAN] /\ stderr \in [Server -> BOOLEAN]
  BY <1>2
<1>4. launches \in 0..MaxLaunches /\ crashes \in 0..MaxCrashes
  BY <1>2, SupervisorAssumption
<1> QED
  BY <1>1, <1>2, <1>3, <1>4, SupervisorAssumption DEF TypeOK, TypeInv

LEMMA TypeNext == TypeInv /\ [Next]_vars => TypeInv'
<1> SUFFICES ASSUME TypeInv, [Next]_vars PROVE TypeInv'
  OBVIOUS
<1> USE SupervisorAssumption DEF TypeOK, TypeInv
<1>1. CASE GuiStart
  BY <1>1 DEF GuiStart, servers, pipes, guiVars, counters
<1>2. CASE ProbeEndpoint
  BY <1>2 DEF ProbeEndpoint, servers, pipes, guiVars, counters
<1>3. CASE SpawnFail
  BY <1>3 DEF SpawnFail, servers, pipes, guiVars, counters
<1>4. CASE Poll
  <2>1. mode' \in {"External", "Managed", "Stopped", "Failed"}
    BY <1>4 DEF Poll, Reachable
  <2>2. /\ gui = "idle" /\ child' = None
        /\ UNCHANGED <<path, servers, gui, next, unclean, overlapped, counters>>
    BY <1>4 DEF Poll
  <2> QED
    BY <2>1, <2>2 DEF servers, pipes, counters
<1>5. CASE Start
  BY <1>5 DEF Start, servers, pipes, guiVars, counters
<1>6. CASE Stopped
  BY <1>6 DEF Stopped, servers, pipes, guiVars, counters
<1>7. CASE StopTimeout
  BY <1>7 DEF StopTimeout, Gone, servers, pipes, guiVars, counters
<1>8. CASE GuiExit
  BY <1>8 DEF GuiExit, servers, pipes, guiVars, counters
<1>9. CASE GuiCrash
  <2>1. \A p \in Server : (IF p = child THEN FALSE ELSE stdin[p]) \in BOOLEAN
    OBVIOUS
  <2>2. stdin' \in [Server -> BOOLEAN]
    BY <1>9, <2>1 DEF GuiCrash
  <2>3. /\ gui' = "down" /\ child' = None /\ mode' = "Stopped"
        /\ crashes < MaxCrashes /\ crashes' = crashes + 1
        /\ UNCHANGED <<path, ipc, running, supervised, stderr, next, unclean,
                       overlapped, launches>>
    BY <1>9 DEF GuiCrash
  <2> QED
    BY <2>2, <2>3
<1>10. ASSUME NEW p \in Server, Spawn(p)
      PROVE  TypeInv'
  BY <1>10 DEF Spawn, Launch, servers, pipes, guiVars, counters
<1>11. ASSUME NEW then \in {"idle", "start", "down"}, StopManaged(then)
      PROVE  TypeInv'
  BY <1>11 DEF StopManaged, servers, pipes, guiVars, counters
<1>12. ASSUME NEW p \in Server, Probe(p)
      PROVE  TypeInv'
  BY <1>12 DEF Probe, servers, pipes, guiVars, counters
<1>13. ASSUME NEW p \in Server, Unlink(p)
      PROVE  TypeInv'
  BY <1>13 DEF Unlink, servers, pipes, guiVars, counters
<1>14. ASSUME NEW p \in Server, Bind(p)
      PROVE  TypeInv'
  BY <1>14 DEF Bind, servers, pipes, guiVars, counters
<1>15. ASSUME NEW p \in Server, Listen(p)
      PROVE  TypeInv'
  BY <1>15 DEF Listen, servers, pipes, guiVars, counters
<1>16. ASSUME NEW p \in Server, StdinEof(p)
      PROVE  TypeInv'
  BY <1>16 DEF StdinEof, servers, pipes, guiVars, counters
<1>17. ASSUME NEW p \in Server, StopListening(p)
      PROVE  TypeInv'
  BY <1>17 DEF StopListening, servers, pipes, guiVars, counters
<1>18. ASSUME NEW p \in Server, Exit(p)
      PROVE  TypeInv'
  BY <1>18 DEF Exit, Gone, servers, pipes, guiVars, counters
<1>19. ASSUME NEW p \in Server, LaunchExternal(p)
      PROVE  TypeInv'
  BY <1>19 DEF LaunchExternal, Launch, servers, pipes, guiVars, counters
<1>20. ASSUME NEW p \in Server, Interrupt(p)
      PROVE  TypeInv'
  BY <1>20 DEF Interrupt, servers, pipes, guiVars, counters
<1>21. ASSUME NEW p \in Server, Crash(p)
      PROVE  TypeInv'
  BY <1>21 DEF Crash, Gone, servers, pipes, guiVars, counters
<1>22. ASSUME NEW p \in Server, Announce(p)
      PROVE  TypeInv'
  BY <1>22 DEF Announce, servers, pipes, guiVars, counters
<1>23. ASSUME NEW p \in Server, IpcPanic(p)
      PROVE  TypeInv'
  BY <1>23 DEF IpcPanic, Listening, servers, pipes, guiVars, counters
<1>24. ASSUME NEW p \in Server, MainPanic(p)
      PROVE  TypeInv'
  BY <1>24 DEF MainPanic, Gone, servers, pipes, guiVars, counters
<1>25. ASSUME NEW p \in Server, StderrCloses(p)
      PROVE  TypeInv'
  BY <1>25 DEF StderrCloses, servers, pipes, guiVars, counters
<1>26. CASE UNCHANGED vars
  BY <1>26 DEF vars, servers, pipes, guiVars, counters
<1> QED
  BY <1>1, <1>2, <1>3, <1>4, <1>5, <1>6, <1>7, <1>8, <1>9, <1>10, <1>11,
     <1>12, <1>13, <1>14, <1>15, <1>16, <1>17, <1>18, <1>19, <1>20, <1>21,
     <1>22, <1>23, <1>24, <1>25, <1>26
     DEF Next, GuiStep, ServerStep

\* Every variable keeps its type; while the GUI looks for a server or stops
\* one, it knows of no child, or of just that one.
THEOREM TypeCorrect == Spec => []TypeOK
<1>1. TypeInv => TypeOK
  BY DEF TypeInv
<1> QED
  BY <1>1, TypeInit, TypeNext, PTL DEF Spec

-----------------------------------------------------------------------------
(***************************************************************************)
(* What the path names.                                                    *)
(***************************************************************************)
\* A path that names a server names one that has bound it and not ended, so a
\* stale socket is the work of a crash or a kill.
PathInv ==
  /\ path \in Server => ipc[path] \in {"listen", "announce", "serving"}
  /\ path = Stale => unclean

LEMMA PathInit == Init => PathInv
  BY SupervisorAssumption DEF Init, PathInv

LEMMA PathNext == TypeInv /\ PathInv /\ [Next]_vars => PathInv'
<1> SUFFICES ASSUME TypeInv, PathInv, [Next]_vars PROVE PathInv'
  OBVIOUS
<1> USE SupervisorAssumption DEF TypeOK, TypeInv, PathInv
<1>1. CASE GuiStart
  BY <1>1 DEF GuiStart, servers, pipes, guiVars, counters
<1>2. CASE ProbeEndpoint
  BY <1>2 DEF ProbeEndpoint, servers, pipes, guiVars, counters
<1>3. CASE SpawnFail
  BY <1>3 DEF SpawnFail, servers, pipes, guiVars, counters
<1>4. CASE Poll
  BY <1>4 DEF Poll, servers, pipes, guiVars, counters
<1>5. CASE Start
  BY <1>5 DEF Start, servers, pipes, guiVars, counters
<1>6. CASE Stopped
  BY <1>6 DEF Stopped, servers, pipes, guiVars, counters
<1>7. CASE StopTimeout
  BY <1>7 DEF StopTimeout, Gone, servers, pipes, guiVars, counters
<1>8. CASE GuiExit
  BY <1>8 DEF GuiExit, servers, pipes, guiVars, counters
<1>9. CASE GuiCrash
  BY <1>9 DEF GuiCrash, servers, pipes, guiVars, counters
<1>10. ASSUME NEW p \in Server, Spawn(p)
      PROVE  PathInv'
  BY <1>10 DEF Spawn, Launch, servers, pipes, guiVars, counters
<1>11. ASSUME NEW then \in {"idle", "start", "down"}, StopManaged(then)
      PROVE  PathInv'
  BY <1>11 DEF StopManaged, servers, pipes, guiVars, counters
<1>12. ASSUME NEW p \in Server, Probe(p)
      PROVE  PathInv'
  BY <1>12 DEF Probe, servers, pipes, guiVars, counters
<1>13. ASSUME NEW p \in Server, Unlink(p)
      PROVE  PathInv'
  BY <1>13 DEF Unlink, servers, pipes, guiVars, counters
<1>14. ASSUME NEW p \in Server, Bind(p)
      PROVE  PathInv'
  BY <1>14 DEF Bind, servers, pipes, guiVars, counters
<1>15. ASSUME NEW p \in Server, Listen(p)
      PROVE  PathInv'
  BY <1>15 DEF Listen, servers, pipes, guiVars, counters
<1>16. ASSUME NEW p \in Server, StdinEof(p)
      PROVE  PathInv'
  BY <1>16 DEF StdinEof, servers, pipes, guiVars, counters
<1>17. ASSUME NEW p \in Server, StopListening(p)
      PROVE  PathInv'
  BY <1>17 DEF StopListening, servers, pipes, guiVars, counters
<1>18. ASSUME NEW p \in Server, Exit(p)
      PROVE  PathInv'
  BY <1>18 DEF Exit, Gone, servers, pipes, guiVars, counters
<1>19. ASSUME NEW p \in Server, LaunchExternal(p)
      PROVE  PathInv'
  BY <1>19 DEF LaunchExternal, Launch, servers, pipes, guiVars, counters
<1>20. ASSUME NEW p \in Server, Interrupt(p)
      PROVE  PathInv'
  BY <1>20 DEF Interrupt, servers, pipes, guiVars, counters
<1>21. ASSUME NEW p \in Server, Crash(p)
      PROVE  PathInv'
  BY <1>21 DEF Crash, Gone, servers, pipes, guiVars, counters
<1>22. ASSUME NEW p \in Server, Announce(p)
      PROVE  PathInv'
  BY <1>22 DEF Announce, servers, pipes, guiVars, counters
<1>23. ASSUME NEW p \in Server, IpcPanic(p)
      PROVE  PathInv'
  BY <1>23 DEF IpcPanic, Listening, servers, pipes, guiVars, counters
<1>24. ASSUME NEW p \in Server, MainPanic(p)
      PROVE  PathInv'
  BY <1>24 DEF MainPanic, Gone, servers, pipes, guiVars, counters
<1>25. ASSUME NEW p \in Server, StderrCloses(p)
      PROVE  PathInv'
  BY <1>25 DEF StderrCloses, servers, pipes, guiVars, counters
<1>26. CASE UNCHANGED vars
  BY <1>26 DEF vars, servers, pipes, guiVars, counters
<1> QED
  BY <1>1, <1>2, <1>3, <1>4, <1>5, <1>6, <1>7, <1>8, <1>9, <1>10, <1>11,
     <1>12, <1>13, <1>14, <1>15, <1>16, <1>17, <1>18, <1>19, <1>20, <1>21,
     <1>22, <1>23, <1>24, <1>25, <1>26
     DEF Next, GuiStep, ServerStep

\* However servers and GUI interleave, a socket without a listener is left
\* behind only by a crash or a kill, never by an orderly end.
THEOREM OrderlyExitAlwaysRemovesSocket == Spec => []OrderlyExitRemovesSocket
<1>1. PathInv => OrderlyExitRemovesSocket
  BY DEF PathInv, OrderlyExitRemovesSocket
<1> QED
  BY <1>1, TypeInit, TypeNext, PathInit, PathNext, PTL DEF Spec

-----------------------------------------------------------------------------
(***************************************************************************)
(* A live server keeps its endpoint.                                       *)
(***************************************************************************)
\* While start-ups have not overlapped: one server starts at a time, and from
\* its probe on nobody serves; one that has bound the path is named by it.
EndpointInv ==
  overlapped \/
    /\ \A p, q \in Server : Starting(p) /\ Starting(q) => p = q
    /\ \A p, q \in Server : ipc[p] \in {"unlink", "bind", "listen"} => ~Listening(q)
    /\ \A p \in Server : ipc[p] = "listen" \/ Listening(p) => path = p

LEMMA EndpointInit == Init => EndpointInv
  BY DEF Init, EndpointInv, Starting, Listening

LEMMA EndpointNext ==
  TypeInv /\ EndpointInv /\ [Next]_vars => EndpointInv'
<1> SUFFICES ASSUME TypeInv, EndpointInv, [Next]_vars PROVE EndpointInv'
  OBVIOUS
<1> USE SupervisorAssumption DEF TypeOK, TypeInv, EndpointInv, Starting, Listening
<1>1. CASE GuiStart
  BY <1>1 DEF GuiStart, servers, pipes, guiVars, counters, Reachable
<1>2. CASE ProbeEndpoint
  BY <1>2 DEF ProbeEndpoint, servers, pipes, guiVars, counters, Reachable
<1>3. CASE SpawnFail
  BY <1>3 DEF SpawnFail, servers, pipes, guiVars, counters, Reachable
<1>4. CASE Poll
  BY <1>4 DEF Poll, servers, pipes, guiVars, counters, Reachable
<1>5. CASE Start
  BY <1>5 DEF Start, servers, pipes, guiVars, counters, Reachable
<1>6. CASE Stopped
  BY <1>6 DEF Stopped, servers, pipes, guiVars, counters, Reachable
<1>7. CASE StopTimeout
  BY <1>7 DEF StopTimeout, Gone, servers, pipes, guiVars, counters, Reachable
<1>8. CASE GuiExit
  BY <1>8 DEF GuiExit, servers, pipes, guiVars, counters, Reachable
<1>9. CASE GuiCrash
  BY <1>9 DEF GuiCrash, servers, pipes, guiVars, counters, Reachable
<1>10. ASSUME NEW p \in Server, Spawn(p)
      PROVE  EndpointInv'
  BY <1>10 DEF Spawn, Launch, servers, pipes, guiVars, counters, Reachable
<1>11. ASSUME NEW then \in {"idle", "start", "down"}, StopManaged(then)
      PROVE  EndpointInv'
  BY <1>11 DEF StopManaged, servers, pipes, guiVars, counters, Reachable
<1>12. ASSUME NEW p \in Server, Probe(p)
      PROVE  EndpointInv'
  BY <1>12 DEF Probe, servers, pipes, guiVars, counters, Reachable
<1>13. ASSUME NEW p \in Server, Unlink(p)
      PROVE  EndpointInv'
  BY <1>13 DEF Unlink, servers, pipes, guiVars, counters, Reachable
<1>14. ASSUME NEW p \in Server, Bind(p)
      PROVE  EndpointInv'
  BY <1>14 DEF Bind, servers, pipes, guiVars, counters, Reachable
<1>15. ASSUME NEW p \in Server, Listen(p)
      PROVE  EndpointInv'
  BY <1>15 DEF Listen, servers, pipes, guiVars, counters, Reachable
<1>16. ASSUME NEW p \in Server, StdinEof(p)
      PROVE  EndpointInv'
  BY <1>16 DEF StdinEof, servers, pipes, guiVars, counters, Reachable
<1>17. ASSUME NEW p \in Server, StopListening(p)
      PROVE  EndpointInv'
  BY <1>17 DEF StopListening, servers, pipes, guiVars, counters, Reachable
<1>18. ASSUME NEW p \in Server, Exit(p)
      PROVE  EndpointInv'
  BY <1>18 DEF Exit, Gone, servers, pipes, guiVars, counters, Reachable
<1>19. ASSUME NEW p \in Server, LaunchExternal(p)
      PROVE  EndpointInv'
  BY <1>19 DEF LaunchExternal, Launch, servers, pipes, guiVars, counters, Reachable
<1>20. ASSUME NEW p \in Server, Interrupt(p)
      PROVE  EndpointInv'
  BY <1>20 DEF Interrupt, servers, pipes, guiVars, counters, Reachable
<1>21. ASSUME NEW p \in Server, Crash(p)
      PROVE  EndpointInv'
  BY <1>21 DEF Crash, Gone, servers, pipes, guiVars, counters, Reachable
<1>22. ASSUME NEW p \in Server, Announce(p)
      PROVE  EndpointInv'
  BY <1>22 DEF Announce, servers, pipes, guiVars, counters, Reachable
<1>23. ASSUME NEW p \in Server, IpcPanic(p)
      PROVE  EndpointInv'
  BY <1>23 DEF IpcPanic, servers, pipes, guiVars, counters, Reachable
<1>24. ASSUME NEW p \in Server, MainPanic(p)
      PROVE  EndpointInv'
  BY <1>24 DEF MainPanic, Gone, servers, pipes, guiVars, counters, Reachable
<1>25. ASSUME NEW p \in Server, StderrCloses(p)
      PROVE  EndpointInv'
  BY <1>25 DEF StderrCloses, servers, pipes, guiVars, counters, Reachable
<1>26. CASE UNCHANGED vars
  BY <1>26 DEF vars, servers, pipes, guiVars, counters, Reachable
<1> QED
  BY <1>1, <1>2, <1>3, <1>4, <1>5, <1>6, <1>7, <1>8, <1>9, <1>10, <1>11,
     <1>12, <1>13, <1>14, <1>15, <1>16, <1>17, <1>18, <1>19, <1>20, <1>21,
     <1>22, <1>23, <1>24, <1>25, <1>26
     DEF Next, GuiStep, ServerStep

\* A server that serves is what the path names, through starts, ends, crashes
\* and kills of any number of others, unless two started at the same time.
THEOREM LiveEndpointAlwaysKept == Spec => []LiveEndpointKept
<1>1. EndpointInv => LiveEndpointKept
  BY DEF EndpointInv, LiveEndpointKept, Listening
<1> QED
  BY <1>1, TypeInit, TypeNext, EndpointInit, EndpointNext, PTL DEF Spec
=============================================================================
