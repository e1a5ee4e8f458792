--------------------------- MODULE ArrivalSchedule ---------------------------
(***************************************************************************)
(* What the propagation delay lines of a Wave voice promise, whatever ring *)
(* they are built on: for each transducer a schedule of the energy due 0,  *)
(* 1, 2, ... frames from now.  A frame hears what is due now, spreads its  *)
(* own emission over the frames around its arrival and lets one frame      *)
(* pass; a reset forgets everything.                                       *)
(*                                                                         *)
(* Amounts are abstracted to the set of kernel taps that contributed, so   *)
(* superposing two emissions is the union of their taps.                   *)
(***************************************************************************)
EXTENDS Integers

CONSTANTS Size,        \* how far ahead an arrival can be scheduled
          Half,        \* half the width of the scatter kernel
          Transducer   \* who listens

VARIABLES schedule,  \* schedule[t][k]: the taps due at t, k frames from now
          heard      \* what the latest frame heard at each transducer

Tap == 0..(2 * Half - 1)
Due == 0..(Size - 1)

Nothing == [t \in Transducer |-> [k \in Due |-> {}]]

\* How many frames ahead an emission may be centred: its whole kernel lies
\* after the frame being heard and within the capacity.
Ahead == Half..(Size - 2 * Half - 2)

\* The taps an emission centred there contributes k frames from now.
Contribution(ahead, k) == {tap \in Tap : k = ahead + tap - (Half - 1)}

Init == schedule = Nothing /\ heard = [t \in Transducer |-> {}]

\* One frame later, what is due in k frames was due in k + 1.
Passed(due, emitting, ahead) ==
  [k \in Due |->
    IF k = Size - 1 THEN {}
    ELSE due[k + 1] \cup (IF emitting THEN Contribution(ahead, k + 1) ELSE {})]

Frame(emitting, ahead) ==
  /\ heard' = [t \in Transducer |-> schedule[t][0]]
  /\ schedule' = [t \in Transducer |-> Passed(schedule[t], emitting, ahead[t])]

Reset == schedule' = Nothing /\ UNCHANGED heard

Next ==
  \/ Reset
  \/ \E emitting \in BOOLEAN, ahead \in [Transducer -> Ahead] :
       Frame(emitting, ahead)

Spec == Init /\ [][Next]_<<schedule, heard>>
=============================================================================
