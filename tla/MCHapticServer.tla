--------------------------- MODULE MCHapticServer ---------------------------
(***************************************************************************)
(* TLC instances of the composed server.                                   *)
(***************************************************************************)
EXTENDS HapticServer, TLC

TravellingConfig == [DefaultConfig EXCEPT !.kind = "TravellingWave"]

HelloWith(i, config) ==
  [kind |-> "Hello", body |-> [id |-> i, role |-> "Controller", config |-> config]]

NoteOnOf(n)  == [kind |-> "NoteOn",
                 body |-> [channel |-> CHOOSE x \in Channel : TRUE, note |-> n,
                           mpe |-> DefaultMpe]]
NoteOffOf(n) == [kind |-> "NoteOff",
                 body |-> [channel |-> CHOOSE x \in Channel : TRUE, note |-> n]]

anyNote == CHOOSE n \in Note : TRUE
noteOn  == NoteOnOf(anyNote)
noteOff == NoteOffOf(anyNote)

\* Lifecycle: clients that come, play and go, with one id between them.
LifecycleMessages ==
  {HelloWith(i, DefaultConfig) : i \in Instance} \cup {noteOn, noteOff}

\* Configuration: travelling-wave clients that retune while they play.
ConfigMessages ==
  {HelloWith(i, [TravellingConfig EXCEPT !.speed = v]) :
     i \in Instance, v \in Speed}
    \cup {noteOn} \cup [kind: {"SetSpeed"}, body: Speed]

Symmetry == Permutations(Conn)
=============================================================================
