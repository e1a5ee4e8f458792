------------------------------ MODULE FrameQueue ------------------------------
(***************************************************************************)
(* What the status connection promises an observer: while it is open,      *)
(* whole frames are shown in the order they were queued, none of them      *)
(* lost, repeated or torn, and the first is the acknowledgement of the     *)
(* Hello.  When the server gives up, the latest frames may be lost; the    *)
(* observer does not give up before the server.                            *)
(***************************************************************************)
EXTENDS StatusFrame

VARIABLES open,    \* the server has the connection
          queue,   \* frames queued and not yet shown
          screen   \* what the observer shows

Init == open = FALSE /\ queue = <<>> /\ screen = BlankScreen

IsPrefixOf(s, t) == Len(s) <= Len(t) /\ s = SubSeq(t, 1, Len(s))

\* The server takes the connection, or queues behind what is queued.
Queue ==
  /\ open' = TRUE
  /\ open \/ queue = <<>>
  /\ IsPrefixOf(queue, queue')
  /\ UNCHANGED screen

Deliver ==
  /\ queue # <<>>
  /\ screen.connected \/ Head(queue) = Accepted
  /\ screen' = Apply(screen, Head(queue)) /\ queue' = Tail(queue)
  /\ UNCHANGED open

GiveUp ==
  /\ open /\ open' = FALSE
  /\ IsPrefixOf(queue', queue)
  /\ UNCHANGED screen

Break ==
  /\ ~open
  /\ screen' = Disconnected(screen) /\ queue' = <<>>
  /\ UNCHANGED open

Next == Queue \/ Deliver \/ GiveUp \/ Break

Spec == Init /\ [][Next]_<<open, queue, screen>>
=============================================================================
