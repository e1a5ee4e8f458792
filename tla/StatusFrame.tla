----------------------------- MODULE StatusFrame -----------------------------
(***************************************************************************)
(* The status messages of haptic-protocol/src/lib.rs as an observer sees   *)
(* them, and what the viewer's apply_message does with each.  Levels,      *)
(* which the viewer ignores, and the numbers inside a routing or an output *)
(* message are left out.                                                   *)
(***************************************************************************)
EXTENDS Naturals, Sequences

CONSTANTS Layout,  \* the layouts a Layout message can carry
          None

Accepted == [kind |-> "HelloAccepted"]
Routing  == [kind |-> "MonitorRouting"]
Output   == [kind |-> "OutputState"]
LayoutStatus(layout) == [kind |-> "Layout", layout |-> layout]

Frame == {Accepted, Routing, Output} \cup {LayoutStatus(layout) : layout \in Layout}

\* The part of the viewer's Shared that the stream fills.
Screen == [connected: BOOLEAN, layout: Layout \cup {None},
           routing: BOOLEAN, output: BOOLEAN]

BlankScreen == [connected |-> FALSE, layout |-> None,
                routing |-> FALSE, output |-> FALSE]

Apply(screen, frame) ==
  CASE frame.kind = "HelloAccepted"  -> [screen EXCEPT !.connected = TRUE]
    [] frame.kind = "Layout"         -> [screen EXCEPT !.layout = frame.layout]
    [] frame.kind = "MonitorRouting" -> [screen EXCEPT !.routing = TRUE]
    [] frame.kind = "OutputState"    -> [screen EXCEPT !.output = TRUE]

\* The end of a connection keeps the layout and the routing last shown.
Disconnected(screen) == [screen EXCEPT !.connected = FALSE, !.output = FALSE]
=============================================================================
