----------------------------- MODULE StatusStream -----------------------------
(***************************************************************************)
(* The status bytes of one observer on their way: the per-client output    *)
(* queue of haptic-server/src/ipc.rs with its cursor, the socket, the      *)
(* FrameDecoder of haptic-protocol and the reader thread of                *)
(* haptic-viewer/src/main.rs.                                              *)
(*                                                                         *)
(* Writes and reads end anywhere in a frame.  A frame is FrameBytes bytes, *)
(* the first HeaderBytes of them its length; a byte is the frame it        *)
(* belongs to and its place there.  The IPC thread's loop body is one      *)
(* action, ServePass: between its steps only the socket changes, and a     *)
(* byte read a moment earlier leaves the same state.                       *)
(*                                                                         *)
(* Definitions named Faulty... are not part of the model: each is a bug    *)
(* that a property has to catch, next to the definition it spoils.         *)
(***************************************************************************)
EXTENDS StatusFrame

CONSTANTS
  HeaderBytes,     \* bytes of the length prefix
  FrameBytes,      \* bytes of a frame with its prefix
  MaxStatusBytes,  \* MAX_CLIENT_STATUS_BYTES
  SocketBytes,     \* what the socket buffers
  MaxConnects      \* bound on the viewer's connections

ASSUME StreamAssumption ==
  /\ HeaderBytes \in Nat \ {0} /\ FrameBytes \in Nat /\ FrameBytes >= HeaderBytes
  /\ MaxStatusBytes \in Nat /\ SocketBytes \in Nat \ {0} /\ MaxConnects \in Nat

VARIABLES
  client,    \* the server's Client; None before accept and after the drop
  dialled,   \* a connection waits in the listener's backlog
  hello,     \* its Hello is in the socket, unread
  socket,    \* bytes on their way to the viewer
  reader,    \* reader_thread: "asleep", "connected", "reading", "decoding"
  decoder,   \* its FrameDecoder
  accepted,  \* it has seen HelloAccepted
  shared,    \* what the UI draws
  connects   \* connections so far

streamVars == <<client, dialled, hello, socket, reader, decoder, accepted,
                shared, connects>>

Byte == [frame: Frame, place: 1..FrameBytes]

Client == [wants_status: BOOLEAN, greeted: BOOLEAN, status_output: Seq(Byte),
           status_cursor: Nat, status_overflowed: BOOLEAN]

StreamTypeOK ==
  /\ client \in Client \cup {None}
  /\ client # None =>
       /\ client.status_cursor <= Len(client.status_output)
       /\ Len(client.status_output) - client.status_cursor <= MaxStatusBytes
  /\ dialled \in BOOLEAN /\ hello \in BOOLEAN /\ accepted \in BOOLEAN
  /\ socket \in Seq(Byte) /\ Len(socket) <= SocketBytes
  /\ reader \in {"asleep", "connected", "reading", "decoding"}
  /\ decoder \in Seq(Byte)
  /\ shared \in Screen
  /\ connects \in 0..MaxConnects

StreamInit ==
  /\ client = None /\ dialled = FALSE /\ hello = FALSE
  /\ socket = <<>> /\ reader = "asleep" /\ decoder = <<>> /\ accepted = FALSE
  /\ shared = BlankScreen /\ connects = 0

-----------------------------------------------------------------------------
(***************************************************************************)
(* The server's side.                                                      *)
(***************************************************************************)
\* Option<Client>: there is no client that is none.
ASSUME ClientAssumption == None \notin Client

NewClient == [wants_status |-> FALSE, greeted |-> FALSE, status_output |-> <<>>,
              status_cursor |-> 0, status_overflowed |-> FALSE]

\* encode_frame
Bytes(frame) == [i \in 1..FrameBytes |-> [frame |-> frame, place |-> i]]

Pending(c) == SubSeq(c.status_output, c.status_cursor + 1, Len(c.status_output))

\* Faulty: written bytes leave the queue but the cursor stays.
FaultyQueueFrame(c, frame) ==
  IF c.status_overflowed THEN c
  ELSE IF Len(Pending(c)) + FrameBytes > MaxStatusBytes
  THEN [c EXCEPT !.status_overflowed = TRUE]
  ELSE [c EXCEPT !.status_output = Pending(c) \o Bytes(frame)]

\* Faulty: a frame that does not fit is shed and the client kept.
FaultyOverflow(c, frame) ==
  IF Len(Pending(c)) + FrameBytes > MaxStatusBytes THEN c
  ELSE [c EXCEPT !.status_output = Pending(c) \o Bytes(frame), !.status_cursor = 0]

\* queue_status_frame
QueueFrame(c, frame) ==
  IF c.status_overflowed THEN c
  ELSE IF Len(Pending(c)) + FrameBytes > MaxStatusBytes
  THEN [c EXCEPT !.status_overflowed = TRUE]
  ELSE [c EXCEPT !.status_output = Pending(c) \o Bytes(frame), !.status_cursor = 0]

QueueFrames(c, frames) ==
  LET queued[i \in 0..Len(frames)] ==
        IF i = 0 THEN c ELSE QueueFrame(queued[i - 1], frames[i])
  IN  queued[Len(frames)]

\* handle_client: a Hello makes an observer and is acknowledged.
Acknowledged(c) ==
  IF hello THEN QueueFrame([c EXCEPT !.wants_status = TRUE], Accepted) ELSE c

Greeted(c, layout) ==
  IF c.wants_status /\ ~c.greeted
  THEN [QueueFrames(c, <<LayoutStatus(layout), Routing>>) EXCEPT !.greeted = TRUE]
  ELSE c

Broadcast(c, frames) == IF c.wants_status THEN QueueFrames(c, frames) ELSE c

Least(a, b) == IF a < b THEN a ELSE b

\* flush_status_output writes until the socket is full or nothing is left.
Writable(c) == Least(Len(Pending(c)), SocketBytes - Len(socket))

Flushed(c) ==
  IF Writable(c) = Len(Pending(c))
  THEN [c EXCEPT !.status_output = <<>>, !.status_cursor = 0]
  ELSE [c EXCEPT !.status_cursor = @ + Writable(c)]

\* One turn of listen_loop_at for this client: accept, visit, greet, tell
\* it of the adopted layouts and perhaps of the output, flush.
ServePass(layout, adopted, output) ==
  /\ dialled \/ client # None
  /\ LET c == Broadcast(
                Greeted(Acknowledged(IF dialled THEN NewClient ELSE client), layout),
                [i \in 1..Len(adopted) |-> LayoutStatus(adopted[i])]
                  \o (IF output THEN <<Output>> ELSE <<>>))
     IN  IF c.status_overflowed
         THEN client' = None /\ UNCHANGED socket
         ELSE /\ client' = Flushed(c)
              /\ socket' = socket \o SubSeq(Pending(c), 1, Writable(c))
  /\ dialled' = FALSE /\ hello' = FALSE
  /\ UNCHANGED <<reader, decoder, accepted, shared, connects>>

\* The server drops the connection for a reason of its own: the Hello is
\* refused, a read or a write fails, the server ends.
ServerDrops ==
  /\ client # None
  /\ client' = None /\ hello' = FALSE
  /\ UNCHANGED <<dialled, socket, reader, decoder, accepted, shared, connects>>

-----------------------------------------------------------------------------
(***************************************************************************)
(* The viewer's reader thread.                                             *)
(***************************************************************************)
Connect ==
  /\ reader = "asleep" /\ connects < MaxConnects
  /\ reader' = "connected" /\ dialled' = TRUE /\ connects' = connects + 1
  /\ decoder' = <<>> /\ accepted' = FALSE /\ socket' = <<>>
  /\ UNCHANGED <<client, hello, shared>>

\* write_all of the Hello; on a closed connection the thread tries again.
SendHello ==
  /\ reader = "connected"
  /\ IF dialled \/ client # None
     THEN reader' = "reading" /\ hello' = TRUE
     ELSE reader' = "asleep" /\ UNCHANGED hello
  /\ UNCHANGED <<client, dialled, socket, decoder, accepted, shared, connects>>

ReadBytes ==
  /\ reader = "reading" /\ socket # <<>>
  /\ \E n \in 1..Len(socket) :
       /\ decoder' = decoder \o SubSeq(socket, 1, n)
       /\ socket' = SubSeq(socket, n + 1, Len(socket))
  /\ reader' = "decoding"
  /\ UNCHANGED <<client, dialled, hello, accepted, shared, connects>>

\* The connection is over for the reader: end of stream or a refused frame.
Leave ==
  /\ reader' = "asleep" /\ accepted' = FALSE
  /\ shared' = Disconnected(shared)
  /\ decoder' = <<>> /\ socket' = <<>>
  /\ UNCHANGED <<client, dialled, hello, connects>>

\* The server has closed: end of stream, or a reset that loses what is unread.
ReadEnd ==
  /\ reader = "reading" /\ client = None /\ ~dialled
  /\ Leave

\* next_frame wants the length, then that many bytes.
Complete == Len(decoder) >= HeaderBytes /\ Len(decoder) >= FrameBytes

InSync == \A i \in 1..FrameBytes : decoder[i] = [frame |-> decoder[1].frame, place |-> i]

DecodeNothing ==
  /\ reader = "decoding" /\ ~Complete
  /\ reader' = "reading"
  /\ UNCHANGED <<client, dialled, hello, socket, decoder, accepted, shared, connects>>

\* HelloAccepted opens the connection; anything before it, or bytes that
\* are no frame, ends it.
DecodeFrame ==
  /\ reader = "decoding" /\ Complete
  /\ IF InSync /\ (accepted \/ decoder[1].frame = Accepted)
     THEN /\ accepted' = TRUE
          /\ shared' = Apply(shared, decoder[1].frame)
          /\ decoder' = SubSeq(decoder, FrameBytes + 1, Len(decoder))
          /\ UNCHANGED <<client, dialled, hello, socket, reader, connects>>
     ELSE Leave

Reader == Connect \/ SendHello \/ ReadBytes \/ ReadEnd \/ DecodeNothing \/ DecodeFrame
-----------------------------------------------------------------------------
\* The whole frames on their way, read as FrameQueue's queue.
InFlight ==
  LET bytes == decoder \o socket \o (IF client = None THEN <<>> ELSE Pending(client))
  IN  [i \in 1..(Len(bytes) \div FrameBytes) |-> bytes[(i - 1) * FrameBytes + 1].frame]

Status == INSTANCE FrameQueue
           WITH open <- client # None, queue <- InFlight, screen <- shared
=============================================================================
