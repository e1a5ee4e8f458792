---------------------------- MODULE MCIpcServer ----------------------------
(***************************************************************************)
(* TLC instances of the IPC thread.  Every peer may write any of the       *)
(* frames below in any order, so the protocol-violating sequences are      *)
(* there too.                                                              *)
(***************************************************************************)
EXTENDS IpcServer, TLC

config == DefaultConfig

HelloFrom(i, role) ==
  [kind |-> "Hello", body |-> [id |-> i, role |-> role, config |-> config]]

noteOff == [kind |-> "NoteOff",
            body |-> [channel |-> CHOOSE x \in Channel : TRUE,
                      note |-> CHOOSE x \in Note : TRUE]]
mpe     == [kind |-> "MpeUpdate",
            body |-> [channel |-> CHOOSE x \in Channel : TRUE, mpe |-> DefaultMpe]]
panic   == [kind |-> "Panic", body |-> None]

Refused(kind) == [kind |-> kind, body |-> None]

\* Identities: every connection may announce either id, at any time.
IdentityMessages ==
  {HelloFrom(i, "Controller") : i \in Instance} \cup {noteOff}

\* Traffic: one id that observes, with critical, expendable, routing and
\* refused frames.
TrafficMessages ==
  {HelloFrom(i, "Observer") : i \in Instance}
    \cup {panic, mpe} \cup {Refused("InvalidCommand"), Refused("Oversized")}
    \cup {[kind |-> "SetMonitorRoute", body |-> [output |-> 1, source |-> q]] :
            q \in Transducer}

Symmetry == Permutations(Conn) \cup Permutations(Instance)
=============================================================================
