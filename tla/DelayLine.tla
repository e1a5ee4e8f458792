------------------------------ MODULE DelayLine ------------------------------
(***************************************************************************)
(* DelayLine of haptic-server/src/engine.rs: a ring written ahead of its   *)
(* read pointer and read sequentially, cleared by moving to a new epoch.   *)
(* A cell whose epoch is not the line's reads as silence and is cleaned    *)
(* when it is next touched.  Samples are sets of kernel taps, see          *)
(* ArrivalSchedule.                                                        *)
(***************************************************************************)
EXTENDS Integers

CONSTANTS Size,        \* MAX_DELAY_SAMPLES
          Half,        \* SPLAT_HALF
          EpochLimit   \* 2^32, the values of an epoch

ASSUME LineAssumption ==
  /\ Half \in Nat \ {0}
  /\ Size \in Nat /\ Size >= 3 * Half + 2
  /\ EpochLimit \in Nat /\ EpochLimit >= 2

Taps == 2 * Half
Tap == 0..(Taps - 1)
Cell == 0..(Size - 1)
Epoch == 0..(EpochLimit - 1)

Line == [buffer: [Cell -> SUBSET Tap], epochs: [Cell -> Epoch],
         epoch: Epoch, pos: Cell]

NewLine == [buffer |-> [c \in Cell |-> {}], epochs |-> [c \in Cell |-> 0],
            epoch |-> 1, pos |-> 0]

\* What a cell holds in the line's own generation.
Live(line, c) == IF line.epochs[c] = line.epoch THEN line.buffer[c] ELSE {}

Lookahead(delay) ==
  IF delay + Half < Size - Taps - 2 THEN delay + Half ELSE Size - Taps - 2

\* The cell that tap number tap of an emission with this delay falls into.
CellOf(line, delay, tap) ==
  (line.pos + Lookahead(delay) + tap + Size - (Half - 1)) % Size

\* The scatter half of write_and_read.  Silence is scattered as well: a
\* touched cell of an older generation is cleaned either way.
Scatter(line, emitting, delay) ==
  LET taps == [c \in Cell |-> {tap \in Tap : CellOf(line, delay, tap) = c}]
  IN  [line EXCEPT
        !.buffer = [c \in Cell |->
          IF taps[c] = {} THEN @[c]
          ELSE Live(line, c) \cup (IF emitting THEN taps[c] ELSE {})],
        !.epochs = [c \in Cell |-> IF taps[c] = {} THEN @[c] ELSE line.epoch]]

Read(line) == Live(line, line.pos)

Consumed(line) ==
  [line EXCEPT !.buffer[line.pos] = {}, !.epochs[line.pos] = line.epoch,
               !.pos = (@ + 1) % Size]

\* Faulty: the epoch wraps onto cells an earlier generation still marks.
FaultyReset(line) ==
  LET next == (line.epoch + 1) % EpochLimit
  IN  [line EXCEPT !.epoch = IF next = 0 THEN 1 ELSE next, !.pos = 0]

Reset(line) ==
  LET next == (line.epoch + 1) % EpochLimit
  IN  [line EXCEPT !.epoch  = IF next = 0 THEN 1 ELSE next,
                   !.epochs = IF next = 0 THEN [c \in Cell |-> 0] ELSE @,
                   !.pos    = 0]

\* The abstract schedule a line stands for.
ScheduleOf(line) == [k \in Cell |-> Live(line, (line.pos + k) % Size)]
=============================================================================
