--------------------------- MODULE WaveVoiceProofs ---------------------------
(***************************************************************************)
(* Theorems about WaveVoice for every ring size, kernel width, epoch width *)
(* and set of transducers: the delay lines implement ArrivalSchedule, and  *)
(* while no layout is adopted the propagation tail covers every arrival.   *)
(***************************************************************************)
EXTENDS WaveVoice, TLAPS

-----------------------------------------------------------------------------
(***************************************************************************)
(* Arithmetic of the ring.                                                 *)
(***************************************************************************)
\* The remainder of the few laps a ring index can reach.
LEMMA LapLemma ==
  ASSUME NEW n \in Nat, n > 0, NEW x \in Nat, x < 3 * n
  PROVE  /\ x < n => x % n = x
         /\ n <= x /\ x < 2 * n => x % n = x - n
         /\ 2 * n <= x => x % n = x - 2 * n
         /\ x % n \in 0..(n - 1)
<1>1. x < n => x % n = x
  OBVIOUS
<1>2. n <= x /\ x < 2 * n => x % n = x - n
  OBVIOUS
<1>3. 2 * n <= x => x % n = x - 2 * n
  OBVIOUS
<1> QED
  BY <1>1, <1>2, <1>3

\* Every delay is looked ahead at least one kernel half and within capacity.
LEMMA LookaheadLemma ==
  ASSUME NEW d \in Nat
  PROVE  /\ Lookahead(d) \in Half..(Size - 2 * Half - 2)
         /\ Lookahead(d) <= d + Half
BY LineAssumption DEF Lookahead, Taps

\* A tap falls into the cell k ahead of the read pointer exactly when its
\* arrival is k frames away: the kernel neither wraps nor reaches the pointer.
LEMMA CellLemma ==
  ASSUME NEW line \in Line, NEW d \in Nat, NEW tap \in Tap, NEW k \in Cell
  PROVE  /\ CellOf(line, d, tap) \in Cell
         /\ (line.pos + k) % Size \in Cell
         /\ CellOf(line, d, tap) = (line.pos + k) % Size
              <=> k = Lookahead(d) + tap - (Half - 1)
<1> DEFINE o == Lookahead(d) + tap - (Half - 1)
           x == line.pos + o + Size
           y == line.pos + k
<1>1. line.pos \in Nat /\ line.pos < Size /\ k \in Nat /\ k < Size /\ Size \in Nat /\ Size > 0
  BY LineAssumption DEF Line, Cell
<1>2. o \in Nat /\ 1 <= o /\ o < Size
  BY LookaheadLemma, LineAssumption DEF Tap, Taps
<1>3. CellOf(line, d, tap) = x % Size
  <2>1. line.pos + Lookahead(d) + tap + Size - (Half - 1) = x
    BY <1>1, LookaheadLemma, LineAssumption DEF Tap, Taps
  <2> QED
    BY <2>1 DEF CellOf
<1>4. /\ x \in Nat /\ x < 3 * Size /\ x >= Size
      /\ y \in Nat /\ y < 2 * Size
  BY <1>1, <1>2
<1>5. /\ x < 2 * Size => x % Size = x - Size
      /\ 2 * Size <= x => x % Size = x - 2 * Size
      /\ x % Size \in 0..(Size - 1)
  BY <1>1, <1>4, LapLemma
<1>6. /\ y < Size => y % Size = y
      /\ Size <= y => y % Size = y - Size
      /\ y % Size \in 0..(Size - 1)
  BY <1>1, <1>4, LapLemma
<1>7. x % Size = y % Size <=> k = o
  BY <1>1, <1>2, <1>4, <1>5, <1>6
<1> QED
  BY <1>3, <1>5, <1>6, <1>7 DEF Cell

-----------------------------------------------------------------------------
(***************************************************************************)
(* One delay line.                                                         *)
(***************************************************************************)
\* No cell is of a generation the line has yet to reach, so moving to the
\* next one silences all of them.
LineOK(line) ==
  /\ line \in Line
  /\ line.epoch >= 1
  /\ \A c \in Cell : line.epochs[c] <= line.epoch

LEMMA NewLineLemma == LineOK(NewLine) /\ \A c \in Cell : Live(NewLine, c) = {}
<1>1. NewLine \in Line
  BY LineAssumption DEF NewLine, Line, Cell, Epoch
<1>2. NewLine.epoch = 1 /\ \A c \in Cell : NewLine.epochs[c] = 0
  BY DEF NewLine
<1>3. \A c \in Cell : Live(NewLine, c) = {}
  BY <1>2 DEF Live
<1> QED
  BY <1>1, <1>2, <1>3 DEF LineOK

LEMMA ResetLemma ==
  ASSUME NEW line, LineOK(line)
  PROVE  LineOK(Reset(line)) /\ \A c \in Cell : Live(Reset(line), c) = {}
<1> DEFINE next == (line.epoch + 1) % EpochLimit
<1>1. /\ line \in Line /\ line.epoch \in Nat /\ 1 <= line.epoch
      /\ line.epoch < EpochLimit /\ EpochLimit \in Nat /\ EpochLimit >= 2
      /\ \A c \in Cell : line.epochs[c] \in Nat /\ line.epochs[c] <= line.epoch
  BY LineAssumption DEF LineOK, Line, Epoch
<1>2. next = IF line.epoch + 1 = EpochLimit THEN 0 ELSE line.epoch + 1
  <2>1. line.epoch + 1 \in Nat /\ line.epoch + 1 < 3 * EpochLimit /\ EpochLimit > 0
    BY <1>1
  <2>2. /\ line.epoch + 1 < EpochLimit => next = line.epoch + 1
        /\ EpochLimit <= line.epoch + 1 /\ line.epoch + 1 < 2 * EpochLimit
             => next = line.epoch + 1 - EpochLimit
    BY <2>1, <1>1, LapLemma
  <2> QED
    BY <2>2, <1>1
<1> HIDE DEF next
<1>3. Reset(line) =
        [buffer |-> line.buffer,
         epochs |-> IF next = 0 THEN [c \in Cell |-> 0] ELSE line.epochs,
         epoch  |-> IF next = 0 THEN 1 ELSE next,
         pos    |-> 0]
  <2>1. line = [buffer |-> line.buffer, epochs |-> line.epochs,
                epoch |-> line.epoch, pos |-> line.pos]
    BY <1>1 DEF Line
  <2>2. Reset(line) = [line EXCEPT
          !.epoch  = IF next = 0 THEN 1 ELSE next,
          !.epochs = IF next = 0 THEN [c \in Cell |-> 0] ELSE line.epochs,
          !.pos    = 0]
    BY DEF Reset, next
  <2> QED
    BY <2>1, <2>2
<1>4. Reset(line) \in Line
  BY <1>1, <1>2, <1>3, LineAssumption DEF Line, Cell, Epoch
<1>5. Reset(line).epoch >= 1 /\ \A c \in Cell : Reset(line).epochs[c] < Reset(line).epoch
  BY <1>1, <1>2, <1>3
<1>6. \A c \in Cell : Live(Reset(line), c) = {}
  <2> TAKE c \in Cell
  <2>1. Reset(line).epochs[c] # Reset(line).epoch
    BY <1>5, <1>4 DEF Line, Epoch
  <2> QED
    BY <2>1 DEF Live
<1>7. \A c \in Cell : Reset(line).epochs[c] <= Reset(line).epoch
  BY <1>5, <1>4 DEF Line, Epoch
<1> QED
  BY <1>4, <1>5, <1>6, <1>7 DEF LineOK

\* What an emission leaves in the cell k ahead of the read pointer.
LEMMA ScatterLemma ==
  ASSUME NEW line, LineOK(line), NEW e \in BOOLEAN, NEW d \in Nat
  PROVE  /\ LineOK(Scatter(line, e, d))
         /\ Scatter(line, e, d).pos = line.pos
         /\ \A k \in Cell :
              LET c == (line.pos + k) % Size
              IN  Live(Scatter(line, e, d), c) =
                    Live(line, c) \cup
                    (IF e THEN {tap \in Tap : k = Lookahead(d) + tap - (Half - 1)}
                     ELSE {})
<1> DEFINE w    == Scatter(line, e, d)
           taps == [c \in Cell |-> {tap \in Tap : CellOf(line, d, tap) = c}]
<1>1. /\ line \in Line /\ line.epoch \in Epoch /\ line.pos \in Cell
      /\ line.buffer \in [Cell -> SUBSET Tap] /\ line.epochs \in [Cell -> Epoch]
      /\ line.epoch >= 1 /\ \A c \in Cell : line.epochs[c] <= line.epoch
  BY DEF LineOK, Line
<1>2. w = [buffer |-> [c \in Cell |->
                        IF taps[c] = {} THEN line.buffer[c]
                        ELSE Live(line, c) \cup (IF e THEN taps[c] ELSE {})],
           epochs |-> [c \in Cell |-> IF taps[c] = {} THEN line.epochs[c]
                                      ELSE line.epoch],
           epoch  |-> line.epoch,
           pos    |-> line.pos]
  <2>1. line = [buffer |-> line.buffer, epochs |-> line.epochs,
                epoch |-> line.epoch, pos |-> line.pos]
    BY <1>1 DEF Line
  <2>2. w = [line EXCEPT
          !.buffer = [c \in Cell |->
            IF taps[c] = {} THEN line.buffer[c]
            ELSE Live(line, c) \cup (IF e THEN taps[c] ELSE {})],
          !.epochs = [c \in Cell |-> IF taps[c] = {} THEN line.epochs[c]
                                     ELSE line.epoch]]
    BY DEF Scatter
  <2> HIDE DEF w, taps
  <2> QED
    BY <2>1, <2>2
<1>3. \A c \in Cell : taps[c] \in SUBSET Tap /\ Live(line, c) \in SUBSET Tap
  BY <1>1 DEF Live
<1>4. w \in Line
  <2>1. [c \in Cell |-> IF taps[c] = {} THEN line.buffer[c]
                        ELSE Live(line, c) \cup (IF e THEN taps[c] ELSE {})]
          \in [Cell -> SUBSET Tap]
    BY <1>1, <1>3
  <2>2. [c \in Cell |-> IF taps[c] = {} THEN line.epochs[c] ELSE line.epoch]
          \in [Cell -> Epoch]
    BY <1>1
  <2> QED
    BY <1>1, <1>2, <2>1, <2>2 DEF Line
<1>5. w.epoch >= 1 /\ \A c \in Cell : w.epochs[c] <= w.epoch
  BY <1>1, <1>2 DEF Epoch
<1>6. \A c \in Cell : Live(w, c) = Live(line, c) \cup (IF e THEN taps[c] ELSE {})
  <2> TAKE c \in Cell
  <2>1. CASE taps[c] = {}
    BY <2>1, <1>2 DEF Live
  <2>2. CASE taps[c] # {}
    BY <2>2, <1>2 DEF Live
  <2> QED
    BY <2>1, <2>2
<1>7. ASSUME NEW k \in Cell
      PROVE  taps[(line.pos + k) % Size]
               = {tap \in Tap : k = Lookahead(d) + tap - (Half - 1)}
  <2>1. (line.pos + k) % Size \in Cell
    BY <1>1, LineAssumption, LapLemma DEF Cell
  <2>2. \A tap \in Tap : CellOf(line, d, tap) = (line.pos + k) % Size
                           <=> k = Lookahead(d) + tap - (Half - 1)
    BY <1>1, CellLemma
  <2> QED
    BY <2>1, <2>2
<1>8. \A k \in Cell : (line.pos + k) % Size \in Cell
  BY <1>1, LineAssumption, LapLemma DEF Cell
<1>9. ASSUME NEW k \in Cell
      PROVE  Live(w, (line.pos + k) % Size) =
               Live(line, (line.pos + k) % Size) \cup
               (IF e THEN {tap \in Tap : k = Lookahead(d) + tap - (Half - 1)} ELSE {})
  <2> HIDE DEF w, taps
  <2> QED
    BY <1>6, <1>7, <1>8
<1>10. LineOK(w) /\ w.pos = line.pos
  <2> HIDE DEF w, taps
  <2> QED
    BY <1>2, <1>4, <1>5 DEF LineOK
<1> QED
  BY <1>9, <1>10

\* Consuming the cell under the pointer lets one frame pass.
LEMMA ConsumedLemma ==
  ASSUME NEW line, LineOK(line)
  PROVE  /\ LineOK(Consumed(line))
         /\ \A k \in Cell :
              ScheduleOf(Consumed(line))[k] =
                IF k = Size - 1 THEN {} ELSE ScheduleOf(line)[k + 1]
         /\ Read(line) = ScheduleOf(line)[0]
<1> DEFINE w == Consumed(line)
<1>1. /\ line \in Line /\ line.epoch \in Epoch /\ line.pos \in Cell
      /\ line.buffer \in [Cell -> SUBSET Tap] /\ line.epochs \in [Cell -> Epoch]
      /\ line.epoch >= 1 /\ \A c \in Cell : line.epochs[c] <= line.epoch
  BY DEF LineOK, Line
<1>2. w = [buffer |-> [line.buffer EXCEPT ![line.pos] = {}],
           epochs |-> [line.epochs EXCEPT ![line.pos] = line.epoch],
           epoch  |-> line.epoch,
           pos    |-> (line.pos + 1) % Size]
  <2>1. line = [buffer |-> line.buffer, epochs |-> line.epochs,
                epoch |-> line.epoch, pos |-> line.pos]
    BY <1>1 DEF Line
  <2>2. w = [line EXCEPT !.buffer = [line.buffer EXCEPT ![line.pos] = {}],
                         !.epochs = [line.epochs EXCEPT ![line.pos] = line.epoch],
                         !.pos = (line.pos + 1) % Size]
    BY DEF Consumed
  <2> HIDE DEF w
  <2> QED
    BY <2>1, <2>2
<1>3. /\ Size \in Nat /\ Size >= 5
      /\ line.pos \in Nat /\ line.pos < Size
  BY <1>1, LineAssumption DEF Cell
<1>4. w.pos = IF line.pos = Size - 1 THEN 0 ELSE line.pos + 1
  <2>1. /\ line.pos + 1 < Size => (line.pos + 1) % Size = line.pos + 1
        /\ Size <= line.pos + 1 /\ line.pos + 1 < 2 * Size
             => (line.pos + 1) % Size = line.pos + 1 - Size
    BY <1>3, LapLemma
  <2> QED
    BY <2>1, <1>2, <1>3
<1>5. LineOK(w)
  <2>1. w \in Line
    BY <1>1, <1>2, <1>3, <1>4 DEF Line, Cell
  <2>2. w.epoch >= 1 /\ \A c \in Cell : w.epochs[c] <= w.epoch
    BY <1>1, <1>2 DEF Epoch
  <2> QED
    BY <2>1, <2>2 DEF LineOK
<1>6. ASSUME NEW k \in Cell
      PROVE  ScheduleOf(w)[k] = IF k = Size - 1 THEN {} ELSE ScheduleOf(line)[k + 1]
  <2> DEFINE x == w.pos + k
             y == line.pos + k + 1
  <2>1. k \in Nat /\ k < Size
    BY <1>3 DEF Cell
  <2>2. /\ x < Size => x % Size = x
        /\ Size <= x => x % Size = x - Size
        /\ x % Size \in 0..(Size - 1)
    BY <1>3, <1>4, <2>1, LapLemma
  <2>3. /\ y < Size => y % Size = y
        /\ Size <= y => y % Size = y - Size
        /\ y % Size \in 0..(Size - 1)
    <3>1. y \in Nat /\ y < 2 * Size /\ y < 3 * Size /\ Size > 0
      BY <1>3, <2>1
    <3> HIDE DEF y
    <3> QED
      BY <1>3, <3>1, LapLemma
  <2>4. x % Size = y % Size /\ (x % Size = line.pos <=> k = Size - 1)
    BY <1>3, <1>4, <2>1, <2>2, <2>3
  <2>5. ScheduleOf(w)[k] = Live(w, x % Size)
    BY DEF ScheduleOf
  <2>6. CASE k = Size - 1
    <3>1. x % Size = line.pos
      BY <2>4, <2>6
    <3>2. Live(w, line.pos) = {}
      BY <1>1, <1>2 DEF Live
    <3> QED
      BY <2>5, <2>6, <3>1, <3>2
  <2>7. CASE k # Size - 1
    <3>1. x % Size # line.pos /\ x % Size \in Cell
      BY <2>2, <2>4, <2>7 DEF Cell
    <3>2. Live(w, x % Size) = Live(line, x % Size)
      BY <3>1, <1>1, <1>2 DEF Live
    <3>3. k + 1 \in Cell /\ line.pos + (k + 1) = y
      BY <1>3, <2>1, <2>7 DEF Cell
    <3>4. ScheduleOf(line)[k + 1] = Live(line, y % Size)
      <4>1. ScheduleOf(line)[k + 1] = Live(line, (line.pos + (k + 1)) % Size)
        BY <3>3 DEF ScheduleOf
      <4> QED
        BY <3>3, <4>1
    <3> HIDE DEF w, x, y
    <3> QED
      BY <2>4, <2>5, <2>7, <3>2, <3>4
  <2> QED
    BY <2>6, <2>7
<1>7. Read(line) = ScheduleOf(line)[0]
  <2>1. 0 \in Cell /\ line.pos + 0 = line.pos /\ line.pos % Size = line.pos
    BY <1>3, LapLemma DEF Cell
  <2> QED
    BY <2>1 DEF Read, ScheduleOf
<1> QED
  BY <1>5, <1>6, <1>7

\* One frame of a line is one frame of its schedule.
LEMMA FrameLemma ==
  ASSUME NEW line, LineOK(line), NEW e \in BOOLEAN, NEW d \in Nat
  PROVE  /\ LineOK(Consumed(Scatter(line, e, d)))
         /\ Read(Scatter(line, e, d)) = ScheduleOf(line)[0]
         /\ ScheduleOf(Consumed(Scatter(line, e, d))) =
              Arrivals!Passed(ScheduleOf(line), e, Lookahead(d))
<1> DEFINE w == Scatter(line, e, d)
           due == ScheduleOf(line)
           cont(k) == {tap \in Tap : k = Lookahead(d) + tap - (Half - 1)}
<1>1. /\ LineOK(w) /\ w.pos = line.pos
      /\ \A k \in Cell : Live(w, (line.pos + k) % Size) =
           Live(line, (line.pos + k) % Size) \cup (IF e THEN cont(k) ELSE {})
  BY ScatterLemma
<1>2. \A k \in Cell : ScheduleOf(w)[k] = due[k] \cup (IF e THEN cont(k) ELSE {})
  BY <1>1 DEF ScheduleOf
<1>3. /\ LineOK(Consumed(w))
      /\ \A k \in Cell : ScheduleOf(Consumed(w))[k] =
           IF k = Size - 1 THEN {} ELSE ScheduleOf(w)[k + 1]
      /\ Read(w) = ScheduleOf(w)[0]
  BY <1>1, ConsumedLemma
<1>4. cont(0) = {} /\ 0 \in Cell
  BY LookaheadLemma, LineAssumption DEF Tap, Taps, Cell
<1>5. Read(w) = due[0]
  BY <1>2, <1>3, <1>4
<1>6. \A k \in Cell : k # Size - 1 => k + 1 \in Cell
  BY LineAssumption DEF Cell
<1>7. \A k \in Cell : ScheduleOf(Consumed(w))[k] =
        IF k = Size - 1 THEN {} ELSE due[k + 1] \cup (IF e THEN cont(k + 1) ELSE {})
  <2> HIDE DEF w, due, cont
  <2> QED
    BY <1>2, <1>3, <1>6
<1>8. Arrivals!Passed(due, e, Lookahead(d)) =
        [k \in Cell |-> IF k = Size - 1 THEN {}
                        ELSE due[k + 1] \cup (IF e THEN cont(k + 1) ELSE {})]
  BY DEF Arrivals!Passed, Arrivals!Due, Arrivals!Contribution, Arrivals!Tap, Cell, Tap, Taps
<1>9. ScheduleOf(Consumed(w)) = [k \in Cell |-> ScheduleOf(Consumed(w))[k]]
  BY DEF ScheduleOf
<1>10. ScheduleOf(Consumed(w)) = Arrivals!Passed(due, e, Lookahead(d))
  <2> HIDE DEF w, due, cont
  <2> QED
    BY <1>7, <1>8, <1>9
<1> QED
  BY <1>3, <1>5, <1>10

-----------------------------------------------------------------------------
(***************************************************************************)
(* The voice: types, and every line in order.                              *)
(***************************************************************************)
LinesOK == \A t \in Transducer : LineOK(delay_lines[t])

TypeInv == TypeOK /\ LinesOK

LEMMA DelayTypes ==
  ASSUME NEW d \in HalfFrames
  PROVE  /\ WholeFrames(d) \in Nat
         /\ CeilFrames(d) \in Nat
         /\ WholeFrames(d) <= CeilFrames(d)
         /\ LatestArrival(d) \in 0..(Size - 1)
BY VoiceAssumption, LineAssumption
   DEF HalfFrames, WholeFrames, CeilFrames, LatestArrival, Taps

LEMMA InitTypeInv == Init => TypeInv
<1> SUFFICES ASSUME Init PROVE TypeInv
  OBVIOUS
<1>1. LinesOK
  BY NewLineLemma DEF Init, LinesOK
<1>2. delay_lines \in [Transducer -> Line]
  BY NewLineLemma DEF Init, LineOK
<1>3. delay \in [Transducer -> HalfFrames] /\ heard \in [Transducer -> SUBSET Tap]
  BY VoiceAssumption DEF Init, HalfFrames
<1>4. tail_frames_remaining \in 0..(Size - 1)
  BY LineAssumption DEF Init
<1> QED
  BY <1>1, <1>2, <1>3, <1>4 DEF Init, TypeInv, TypeOK, EnvelopeState

\* Resetting every line keeps them in order and empties their schedules.
LEMMA ResetAllLemma ==
  ASSUME TypeInv, delay_lines' = [t \in Transducer |-> Reset(delay_lines[t])]
  PROVE  /\ delay_lines' \in [Transducer -> Line]
         /\ LinesOK'
         /\ \A t \in Transducer : ScheduleOf(delay_lines'[t]) = [k \in Cell |-> {}]
<1>1. \A t \in Transducer :
        /\ LineOK(Reset(delay_lines[t]))
        /\ \A c \in Cell : Live(Reset(delay_lines[t]), c) = {}
  BY ResetLemma DEF TypeInv, LinesOK
<1>2. LinesOK'
  BY <1>1 DEF LinesOK
<1>3. delay_lines' \in [Transducer -> Line]
  BY <1>1 DEF LineOK
<1>4. ASSUME NEW t \in Transducer
      PROVE  ScheduleOf(delay_lines'[t]) = [k \in Cell |-> {}]
  <2>1. delay_lines'[t].pos \in Cell
    BY <1>3 DEF Line
  <2>2. \A k \in Cell : (delay_lines'[t].pos + k) % Size \in Cell
    BY <2>1, LineAssumption, LapLemma DEF Cell
  <2>3. \A c \in Cell : Live(delay_lines'[t], c) = {}
    BY <1>1
  <2> QED
    BY <2>2, <2>3 DEF ScheduleOf
<1> QED
  BY <1>2, <1>3, <1>4

\* One frame of the voice is one frame of every schedule.
LEMMA ProcessLemma ==
  ASSUME TypeInv, Process
  PROVE  /\ delay_lines' \in [Transducer -> Line]
         /\ LinesOK'
         /\ delay' \in [Transducer -> HalfFrames]
         /\ \A t \in Transducer :
              /\ heard'[t] = ScheduleOf(delay_lines[t])[0]
              /\ ScheduleOf(delay_lines'[t]) =
                   Arrivals!Passed(ScheduleOf(delay_lines[t]), env_state' # "Idle",
                                   Lookahead(WholeFrames(delay'[t])))
         /\ heard' = [t \in Transducer |-> heard'[t]]
<1> DEFINE w == [t \in Transducer |->
             Scatter(delay_lines[t], env_state' # "Idle", WholeFrames(delay'[t]))]
<1>1. /\ heard' = [t \in Transducer |-> Read(w[t])]
      /\ delay_lines' = [t \in Transducer |-> Consumed(w[t])]
  BY DEF Process
<1>2. delay' \in [Transducer -> HalfFrames]
  BY DEF Process, MoveSource
<1>3. ASSUME NEW t \in Transducer
      PROVE  /\ LineOK(Consumed(w[t]))
             /\ Read(w[t]) = ScheduleOf(delay_lines[t])[0]
             /\ ScheduleOf(Consumed(w[t])) =
                  Arrivals!Passed(ScheduleOf(delay_lines[t]), env_state' # "Idle",
                                  Lookahead(WholeFrames(delay'[t])))
  <2>1. LineOK(delay_lines[t]) /\ WholeFrames(delay'[t]) \in Nat
    BY <1>2, DelayTypes DEF TypeInv, LinesOK
  <2>2. (env_state' # "Idle") \in BOOLEAN
    OBVIOUS
  <2>3. w[t] = Scatter(delay_lines[t], env_state' # "Idle", WholeFrames(delay'[t]))
    OBVIOUS
  <2> HIDE DEF w
  <2> QED
    BY <2>1, <2>2, <2>3, FrameLemma
<1> HIDE DEF w
<1>4. LinesOK'
  BY <1>1, <1>3 DEF LinesOK
<1>5. delay_lines' \in [Transducer -> Line]
  BY <1>1, <1>3 DEF LineOK
<1> QED
  BY <1>1, <1>2, <1>3, <1>4, <1>5
\* Every step keeps the types and the lines in order.
LEMMA NextTypeInv == TypeInv /\ [Next]_vars => TypeInv'
<1> SUFFICES ASSUME TypeInv, [Next]_vars PROVE TypeInv'
  OBVIOUS
<1> USE DEF TypeInv
<1>1. CASE NoteOn
  <2>1. 0 \in 0..(Size - 1)
    BY LineAssumption
  <2> QED
    BY <1>1, <2>1, ResetAllLemma DEF NoteOn, TypeOK, EnvelopeState
<1>2. CASE NoteOff
  BY <1>2 DEF NoteOff, TypeOK, EnvelopeState, LinesOK
<1>3. CASE Process
  <2>1. /\ delay_lines' \in [Transducer -> Line] /\ LinesOK'
        /\ delay' \in [Transducer -> HalfFrames]
    BY <1>3, ProcessLemma
  <2>2. env_state' \in EnvelopeState
    BY <1>3 DEF Process, StepEnvelope, TypeOK, EnvelopeState
  <2>3. tail_frames_remaining' \in 0..(Size - 1)
    <3>1. CASE env_state' # "Idle"
      <4>1. PICK t \in Transducer : tail_frames_remaining' = LatestArrival(delay'[t])
        BY <1>3, <3>1 DEF Process, RenewTail
      <4> QED
        BY <2>1, <4>1, DelayTypes
    <3>2. CASE env_state' = "Idle"
      BY <1>3, <3>2, LineAssumption DEF Process, RenewTail, TypeOK
    <3> QED
      BY <3>1, <3>2
  <2>4. heard' \in [Transducer -> SUBSET Tap]
    <3>1. \A t \in Transducer : heard'[t] = ScheduleOf(delay_lines[t])[0]
      BY <1>3, ProcessLemma
    <3>2. \A t \in Transducer : ScheduleOf(delay_lines[t])[0] \in SUBSET Tap
      <4> TAKE t \in Transducer
      <4>1. delay_lines[t] \in Line /\ 0 \in Cell
        BY LineAssumption DEF TypeOK, Cell
      <4>2. (delay_lines[t].pos + 0) % Size \in Cell
        BY <4>1, LineAssumption, LapLemma DEF Line, Cell
      <4> QED
        BY <4>1, <4>2 DEF ScheduleOf, Live, Line
    <3> QED
      BY <1>3, <3>1, <3>2, ProcessLemma
  <2> QED
    BY <1>3, <2>1, <2>2, <2>3, <2>4 DEF Process, MoveSource, TypeOK
<1>4. CASE Reap
  BY <1>4 DEF Reap, TypeOK, LinesOK
<1>5. CASE Panic
  <2>1. 0 \in 0..(Size - 1)
    BY LineAssumption
  <2> QED
    BY <1>5, <2>1, ResetAllLemma DEF Panic, TypeOK, EnvelopeState
<1>6. CASE UNCHANGED vars
  BY <1>6 DEF vars, TypeOK, LinesOK
<1> QED
  BY <1>1, <1>2, <1>3, <1>4, <1>5, <1>6 DEF Next

LEMMA TypeInvInvariant == Spec => []TypeInv
<1>1. Init => TypeInv
  BY InitTypeInv
<1>2. TypeInv /\ [Next]_vars => TypeInv'
  BY NextTypeInv
<1> QED
  BY <1>1, <1>2, PTL DEF Spec

\* Every variable of the voice keeps its type: in particular the tail
\* counter never runs below zero nor past the ring.
THEOREM VoiceTypes == Spec => []TypeOK
<1>1. TypeInv => TypeOK
  BY DEF TypeInv
<1> QED
  BY <1>1, TypeInvInvariant, PTL

-----------------------------------------------------------------------------
(***************************************************************************)
(* The delay lines implement the arrival schedule.                         *)
(***************************************************************************)
ScheduleVars == <<[t \in Transducer |-> ScheduleOf(delay_lines[t])], heard>>

LEMMA InitRefines == Init => Arrivals!Init
<1> SUFFICES ASSUME Init PROVE Arrivals!Init
  OBVIOUS
<1>1. ASSUME NEW t \in Transducer
      PROVE  ScheduleOf(delay_lines[t]) = [k \in Cell |-> {}]
  <2>1. delay_lines[t] = NewLine /\ LineOK(NewLine) /\ \A c \in Cell : Live(NewLine, c) = {}
    BY NewLineLemma DEF Init
  <2>2. \A k \in Cell : (NewLine.pos + k) % Size \in Cell
    BY <2>1, LineAssumption, LapLemma DEF LineOK, Line, Cell
  <2> QED
    BY <2>1, <2>2 DEF ScheduleOf
<1> QED
  BY <1>1 DEF Init, Arrivals!Init, Arrivals!Nothing, Arrivals!Due, Cell

\* A step of the voice is a frame, a reset or invisible to the schedule.
LEMMA StepRefines ==
  TypeInv /\ [Next]_vars => [Arrivals!Next]_ScheduleVars
<1> SUFFICES ASSUME TypeInv, [Next]_vars PROVE [Arrivals!Next]_ScheduleVars
  OBVIOUS
<1>1. ASSUME delay_lines' = [t \in Transducer |-> Reset(delay_lines[t])],
             UNCHANGED heard
      PROVE  Arrivals!Reset
  <2>1. \A t \in Transducer : ScheduleOf(delay_lines'[t]) = [k \in Cell |-> {}]
    BY <1>1, ResetAllLemma
  <2> QED
    BY <1>1, <2>1 DEF Arrivals!Reset, Arrivals!Nothing, Arrivals!Due, Cell
<1>2. CASE Process
  <2> DEFINE ahead == [t \in Transducer |-> Lookahead(WholeFrames(delay'[t]))]
  <2>1. ahead \in [Transducer -> Arrivals!Ahead]
    <3>1. \A t \in Transducer : WholeFrames(delay'[t]) \in Nat
      BY <1>2, ProcessLemma, DelayTypes
    <3> QED
      BY <3>1, LookaheadLemma DEF Arrivals!Ahead
  <2>2. Arrivals!Frame(env_state' # "Idle", ahead)
    BY <1>2, ProcessLemma DEF Arrivals!Frame
  <2>3. (env_state' # "Idle") \in BOOLEAN
    OBVIOUS
  <2> HIDE DEF ahead
  <2> QED
    BY <2>1, <2>2, <2>3 DEF Arrivals!Next
<1>3. CASE UNCHANGED <<delay_lines, heard>>
  BY <1>3 DEF ScheduleVars
<1> QED
  BY <1>1, <1>2, <1>3
     DEF Next, NoteOn, NoteOff, Reap, Panic, vars, Arrivals!Next

\* Whatever the ring, its pointer and its epochs go through, each transducer
\* hears exactly the arrivals its emissions scheduled since the last reset.
THEOREM LinesImplementSchedule == Spec => LinesKeepTheSchedule
<1>1. Init => Arrivals!Init
  BY InitRefines
<1>2. TypeInv /\ [Next]_vars => [Arrivals!Next]_ScheduleVars
  BY StepRefines
<1> QED
  BY <1>1, <1>2, TypeInvInvariant, PTL
     DEF Spec, LinesKeepTheSchedule, Arrivals!Spec, ScheduleVars
-----------------------------------------------------------------------------
(***************************************************************************)
(* The tail covers every arrival.                                          *)
(***************************************************************************)
DueAt(t, k) == ScheduleOf(delay_lines[t])[k]

\* The latest frame a source at this delay can still be writing to.
Horizon(d) == Lookahead(WholeFrames(d)) + Half

\* What is due lies before the end of the tail and, while the source emits,
\* no later than what the source writes from where it is now.
TailInv ==
  \A t \in Transducer : \A k \in Cell : DueAt(t, k) # {} =>
    /\ ~motion_needs_jump
    /\ k < tail_frames_remaining
    /\ env_state # "Idle" => k + 1 <= Horizon(delay[t])

\* The horizon falls by at most a frame when the delay falls by half of one.
LEMMA HorizonLemma ==
  ASSUME NEW d \in HalfFrames, NEW e \in HalfFrames
  PROVE  /\ Horizon(d) \in Nat /\ Horizon(d) <= LatestArrival(d)
         /\ d - e <= 1 => Horizon(d) <= Horizon(e) + 1
<1>1. /\ d \in Nat /\ e \in Nat
      /\ Half \in Nat /\ Half >= 1 /\ Size \in Nat /\ Size >= 3 * Half + 2
  BY VoiceAssumption, LineAssumption DEF HalfFrames
<1>2. /\ d \div 2 \in Nat /\ e \div 2 \in Nat
      /\ d \div 2 <= (d + 1) \div 2 /\ (d + 1) \div 2 \in Nat
      /\ d - e <= 1 => d \div 2 <= e \div 2 + 1
  BY <1>1
<1> QED
  BY <1>1, <1>2
     DEF Horizon, LatestArrival, Lookahead, WholeFrames, CeilFrames, Taps

LEMMA InitTailInv == Init => TailInv
<1> SUFFICES ASSUME Init PROVE TailInv
  OBVIOUS
<1>1. ASSUME NEW t \in Transducer, NEW k \in Cell
      PROVE  DueAt(t, k) = {}
  <2>1. delay_lines[t] = NewLine /\ LineOK(NewLine) /\ \A c \in Cell : Live(NewLine, c) = {}
    BY NewLineLemma DEF Init
  <2>2. (NewLine.pos + k) % Size \in Cell
    BY <2>1, LineAssumption, LapLemma DEF LineOK, Line, Cell
  <2> QED
    BY <2>1, <2>2 DEF DueAt, ScheduleOf
<1> QED
  BY <1>1 DEF TailInv

LEMMA ProcessTailInv ==
  ASSUME ~LayoutMoves, TypeInv, TailInv, Process
  PROVE  TailInv'
<1> SUFFICES ASSUME NEW t \in Transducer, NEW k \in Cell, DueAt(t, k)' # {}
             PROVE  /\ ~motion_needs_jump'
                    /\ k < tail_frames_remaining'
                    /\ env_state' # "Idle" => k + 1 <= Horizon(delay'[t])
  BY DEF TailInv, Horizon
<1> DEFINE ahead == Lookahead(WholeFrames(delay'[t]))
           new == {tap \in Tap : k + 1 = ahead + tap - (Half - 1)}
<1>1. ~motion_needs_jump'
  BY DEF Process, MoveSource
<1>2. /\ delay'[t] \in HalfFrames /\ delay[t] \in HalfFrames
      /\ tail_frames_remaining \in Nat
      /\ k \in Nat /\ Half \in Nat /\ ahead \in Nat
  BY ProcessLemma, LookaheadLemma, DelayTypes, LineAssumption
     DEF TypeInv, TypeOK, Cell
<1>3. k # Size - 1 /\ k + 1 \in Cell
      /\ (DueAt(t, k + 1) # {} \/ (env_state' # "Idle" /\ new # {}))
  <2>1. DueAt(t, k)' =
          Arrivals!Passed(ScheduleOf(delay_lines[t]), env_state' # "Idle", ahead)[k]
    BY ProcessLemma DEF DueAt
  <2>2. DueAt(t, k)' =
          IF k = Size - 1 THEN {}
          ELSE DueAt(t, k + 1) \cup (IF env_state' # "Idle" THEN new ELSE {})
    BY <2>1 DEF Arrivals!Passed, Arrivals!Due, Arrivals!Contribution, Arrivals!Tap,
                Cell, Tap, Taps, DueAt
  <2>3. k # Size - 1 => k + 1 \in Cell
    BY LineAssumption DEF Cell
  <2> HIDE DEF new
  <2> QED
    BY <2>2, <2>3
<1>4. env_state' # "Idle" => env_state # "Idle"
  BY DEF Process, StepEnvelope
<1>5. ASSUME env_state' # "Idle", new # {}
      PROVE  k + 1 <= Horizon(delay'[t])
  <2>1. PICK tap \in Tap : k + 1 = ahead + tap - (Half - 1)
    BY <1>5
  <2>2. tap \in Nat /\ tap <= 2 * Half - 1
    BY <2>1, LineAssumption DEF Tap, Taps
  <2> QED
    BY <2>1, <2>2, <1>2 DEF Horizon
<1>6. ASSUME DueAt(t, k + 1) # {}
      PROVE  /\ k + 1 < tail_frames_remaining
             /\ env_state' # "Idle" => k + 1 <= Horizon(delay'[t])
  <2>1. /\ ~motion_needs_jump
        /\ k + 1 < tail_frames_remaining
        /\ env_state # "Idle" => k + 2 <= Horizon(delay[t])
    <3>1. (k + 1) + 1 = k + 2
      BY <1>2
    <3> QED
      BY <1>3, <1>6, <3>1 DEF TailInv
  <2>2. delay[t] - delay'[t] <= 1
    <3>1. delay'[t] - delay[t] \in -1..1
      BY <2>1 DEF Process, MoveSource
    <3> QED
      BY <3>1, <1>2, VoiceAssumption DEF HalfFrames
  <2>3. /\ Horizon(delay[t]) <= Horizon(delay'[t]) + 1
        /\ Horizon(delay[t]) \in Nat /\ Horizon(delay'[t]) \in Nat
    BY <1>2, <2>2, HorizonLemma
  <2> QED
    BY <2>1, <2>3, <1>2, <1>4
<1>7. env_state' # "Idle" => k + 1 <= Horizon(delay'[t])
  BY <1>3, <1>5, <1>6
<1>8. k < tail_frames_remaining'
  <2>1. CASE env_state' # "Idle"
    <3>1. LatestArrival(delay'[t]) <= tail_frames_remaining'
      BY <2>1 DEF Process, RenewTail
    <3>2. Horizon(delay'[t]) \in Nat /\ Horizon(delay'[t]) <= LatestArrival(delay'[t])
      BY <1>2, HorizonLemma
    <3>3. tail_frames_remaining' \in Nat /\ LatestArrival(delay'[t]) \in Nat
      BY <1>2, NextTypeInv, DelayTypes DEF Next, TypeInv, TypeOK
    <3> QED
      BY <1>2, <1>7, <2>1, <3>1, <3>2, <3>3
  <2>2. CASE env_state' = "Idle"
    <3>1. k + 1 < tail_frames_remaining
      BY <1>3, <1>6, <2>2
    <3>2. tail_frames_remaining' = tail_frames_remaining - 1
      BY <1>2, <2>2, <3>1 DEF Process, RenewTail
    <3> QED
      BY <1>2, <3>1, <3>2
  <2> QED
    BY <2>1, <2>2
<1> QED
  BY <1>1, <1>7, <1>8

LEMMA NextTailInv ==
  ASSUME ~LayoutMoves
  PROVE  TypeInv /\ TailInv /\ [Next]_vars => TailInv'
<1> SUFFICES ASSUME TypeInv, TailInv, [Next]_vars PROVE TailInv'
  OBVIOUS
<1>1. ASSUME delay_lines' = [t \in Transducer |-> Reset(delay_lines[t])]
      PROVE  TailInv'
  <2>1. \A t \in Transducer : ScheduleOf(delay_lines'[t]) = [k \in Cell |-> {}]
    BY <1>1, ResetAllLemma
  <2> QED
    BY <2>1 DEF TailInv, DueAt
<1>2. CASE NoteOff
  BY <1>2 DEF NoteOff, TailInv, DueAt, Horizon
<1>3. CASE Process
  BY <1>3, ProcessTailInv
<1>4. CASE Reap
  BY <1>4 DEF Reap, TailInv, DueAt, Horizon
<1>5. CASE UNCHANGED vars
  BY <1>5 DEF vars, TailInv, DueAt, Horizon
<1> QED
  BY <1>1, <1>2, <1>3, <1>4, <1>5 DEF Next, NoteOn, Panic

\* While no reloaded layout is adopted, a voice stops being active only after
\* the last arrival has been heard at every transducer, however the source
\* moved within its speed limit.
THEOREM TailIsLongEnough ==
  ASSUME ~LayoutMoves
  PROVE  Spec => []TailCoversArrivals
<1>1. Init => TailInv
  BY InitTailInv
<1>2. TypeInv /\ TailInv /\ [Next]_vars => TailInv'
  BY NextTailInv
<1>3. TypeInv /\ TailInv => TailCoversArrivals
  <2> SUFFICES ASSUME TypeInv, TailInv, ~IsActive,
                      NEW t \in Transducer, NEW k \in Cell
               PROVE  ScheduleOf(delay_lines[t])[k] = {}
    BY DEF TailCoversArrivals
  <2>1. tail_frames_remaining = 0 /\ k \in Nat
    BY LineAssumption DEF IsActive, TypeInv, TypeOK, Cell
  <2> QED
    BY <2>1 DEF TailInv, DueAt
<1> QED
  BY <1>1, <1>2, <1>3, TypeInvInvariant, PTL DEF Spec
=============================================================================
