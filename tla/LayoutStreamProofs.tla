-------------------------- MODULE LayoutStreamProofs --------------------------
(***************************************************************************)
(* Proofs about LayoutReload, StatusStream and their composition, for      *)
(* every set of layouts, every capacity of the rings, every length of a    *)
(* frame and its prefix, every bound of the output queue and the socket    *)
(* and every number of edits and connections.                              *)
(***************************************************************************)
EXTENDS LayoutStream, SequenceTheorems, WellFoundedInduction, TLAPS

-----------------------------------------------------------------------------
(***************************************************************************)
(* The reload.                                                             *)
(***************************************************************************)
\* What a thread has once it has drained its ring is a layout; draining does
\* not change it, and a push makes it the layout pushed.
LEMMA NewestLemma ==
  ASSUME NEW ring \in Seq(Layout), NEW layout \in Layout
  PROVE  /\ Newest(ring, layout) \in Layout
         /\ Newest(<<>>, Newest(ring, layout)) = Newest(ring, layout)
         /\ \A new \in Layout : Newest(Append(ring, new), layout) = new
  BY DEF Newest

\* A push into a ring with room leaves it within its capacity.
LEMMA RoomLemma ==
  ASSUME NEW ring \in Seq(Layout), NEW layout \in Layout,
         Len(ring) < RingCapacity
  PROVE  /\ Append(ring, layout) \in Seq(Layout)
         /\ Len(Append(ring, layout)) <= RingCapacity
  BY LayoutAssumption

LEMMA LayoutTypeInit == LayoutInit => LayoutTypeOK
  BY LayoutAssumption DEF LayoutInit, LayoutTypeOK, NoTime

LEMMA LayoutTypeNext == LayoutTypeOK /\ [LayoutNext]_layoutVars => LayoutTypeOK'
<1> SUFFICES ASSUME LayoutTypeOK, [LayoutNext]_layoutVars PROVE LayoutTypeOK'
  OBVIOUS
<1> USE DEF LayoutTypeOK
<1>1. CASE Edit
  BY <1>1 DEF Edit
<1>2. CASE LoadAtStartup
  BY <1>2, LayoutAssumption DEF LoadAtStartup
<1>3. CASE FirstStat
  BY <1>3 DEF FirstStat, Mtime, NoTime
<1>4. CASE Poll
  BY <1>4 DEF Poll, Mtime, NoTime
<1>5. CASE Load
  BY <1>5 DEF Load
<1>6. CASE PushEngine
  <2>1. CASE Len(engine_ring) < RingCapacity
    BY <1>6, <2>1, RoomLemma DEF PushEngine
  <2>2. CASE ~(Len(engine_ring) < RingCapacity)
    BY <1>6, <2>2 DEF PushEngine
  <2> QED
    BY <2>1, <2>2
<1>7. CASE PushIpc
  <2>1. CASE Len(ipc_ring) < RingCapacity
    BY <1>7, <2>1, RoomLemma DEF PushIpc
  <2>2. CASE ~(Len(ipc_ring) < RingCapacity)
    BY <1>7, <2>2 DEF PushIpc
  <2> QED
    BY <2>1, <2>2
<1>8. CASE EngineAdopts
  BY <1>8, NewestLemma, LayoutAssumption DEF EngineAdopts
<1>9. CASE IpcAdopts
  BY <1>9, NewestLemma, LayoutAssumption DEF IpcAdopts
<1>10. CASE UNCHANGED layoutVars
  BY <1>10 DEF layoutVars
<1> QED
  BY <1>1, <1>2, <1>3, <1>4, <1>5, <1>6, <1>7, <1>8, <1>9, <1>10
     DEF LayoutNext, Watcher

\* Every variable of the reload keeps its type, and neither ring ever holds
\* more layouts than it has places.
THEOREM LayoutTypes == LayoutSpec => []LayoutTypeOK
<1> QED
  BY LayoutTypeInit, LayoutTypeNext, PTL DEF LayoutSpec

-----------------------------------------------------------------------------
(***************************************************************************)
(* Both threads head for one layout.                                       *)
(***************************************************************************)
EngineHeading == Newest(engine_ring, engine_layout)
IpcHeading == Newest(ipc_ring, ipc_layout)

\* LayoutsAgree, and why it holds after a pair of pushes: between them the
\* engine heads for the layout being pushed, unless it missed it.
AgreeInv ==
  /\ main # "running" => watcher = "starting" /\ engine_ring = <<>> /\ ipc_ring = <<>>
  /\ watcher # "ipc" /\ lost = {} => EngineHeading = IpcHeading
  /\ watcher = "ipc" /\ "engine" \notin lost => EngineHeading = loaded

LEMMA AgreeInit == LayoutInit => AgreeInv
  BY DEF LayoutInit, AgreeInv, EngineHeading, IpcHeading, Newest

LEMMA AgreeNext ==
  LayoutTypeOK /\ AgreeInv /\ [LayoutNext]_layoutVars => AgreeInv'
<1> SUFFICES ASSUME LayoutTypeOK, AgreeInv, [LayoutNext]_layoutVars PROVE AgreeInv'
  OBVIOUS
<1> USE DEF AgreeInv, EngineHeading, IpcHeading
<1>1. CASE Edit
  BY <1>1 DEF Edit
<1>2. CASE LoadAtStartup
  BY <1>2 DEF LoadAtStartup, Newest
<1>3. CASE FirstStat
  BY <1>3 DEF FirstStat
<1>4. CASE Poll
  BY <1>4 DEF Poll
<1>5. CASE Load
  BY <1>5 DEF Load
<1>6. CASE PushEngine
  <2>1. CASE Len(engine_ring) < RingCapacity
    <3>1. Newest(Append(engine_ring, loaded), engine_layout) = loaded
      BY NewestLemma DEF LayoutTypeOK
    <3>2. engine_ring' = Append(engine_ring, loaded) /\ UNCHANGED engine_layout
      BY <1>6, <2>1 DEF PushEngine
    <3> QED
      BY <1>6, <2>1, <3>1, <3>2 DEF PushEngine
  <2>2. CASE ~(Len(engine_ring) < RingCapacity)
    BY <1>6, <2>2 DEF PushEngine
  <2> QED
    BY <2>1, <2>2
<1>7. CASE PushIpc
  <2>1. CASE Len(ipc_ring) < RingCapacity
    <3>1. Newest(Append(ipc_ring, loaded), ipc_layout) = loaded
      BY NewestLemma DEF LayoutTypeOK
    <3>2. ipc_ring' = Append(ipc_ring, loaded) /\ UNCHANGED ipc_layout
      BY <1>7, <2>1 DEF PushIpc
    <3> QED
      BY <1>7, <2>1, <3>1, <3>2 DEF PushIpc
  <2>2. CASE ~(Len(ipc_ring) < RingCapacity)
    BY <1>7, <2>2 DEF PushIpc
  <2> QED
    BY <2>1, <2>2
<1>8. CASE EngineAdopts
  BY <1>8, NewestLemma DEF EngineAdopts, LayoutTypeOK
<1>9. CASE IpcAdopts
  BY <1>9, NewestLemma DEF IpcAdopts, LayoutTypeOK
<1>10. CASE UNCHANGED layoutVars
  BY <1>10 DEF layoutVars
<1> QED
  BY <1>1, <1>2, <1>3, <1>4, <1>5, <1>6, <1>7, <1>8, <1>9, <1>10
     DEF LayoutNext, Watcher

\* Whatever is edited when, and however small the rings, the callback and the
\* IPC thread head for the same layout unless a push was ignored.
THEOREM LayoutsAlwaysAgree == LayoutSpec => []LayoutsAgree
<1>1. AgreeInv => LayoutsAgree
  BY DEF AgreeInv, LayoutsAgree, EngineHeading, IpcHeading
<1> QED
  BY <1>1, LayoutTypeInit, LayoutTypeNext, AgreeInit, AgreeNext, PTL DEF LayoutSpec

-----------------------------------------------------------------------------
(***************************************************************************)
(* Least counterexamples, for facts about numbers and sequences.           *)
(***************************************************************************)
\* A set of numbers that is not empty has a least one.
LEMMA LeastNatural ==
  ASSUME NEW T, T \subseteq Nat, T # {}
  PROVE  \E n \in T : \A m \in T : n <= m
<1> DEFINE R == OpToRel(<, Nat)
<1>1. IsWellFoundedOn(R, Nat)
  BY NatLessThanWellFounded, Zenon
<1>2. \A x \in Nat, y \in Nat : y < x => <<y, x>> \in R
  BY DEF OpToRel
<1> HIDE DEF R
<1>3. PICK n \in T : \A m \in T : ~(<<m, n>> \in R)
  BY <1>1, WFMin, Zenon
<1>4. \A m \in T : ~(m < n)
  BY <1>2, <1>3
<1> QED BY <1>3, <1>4

-----------------------------------------------------------------------------
(***************************************************************************)
(* Whole frames of bytes.                                                  *)
(***************************************************************************)
\* How many whole frames there are in n bytes.
Frames(n) == n \div FrameBytes

LEMMA FramesLemma ==
  ASSUME NEW n \in Nat
  PROVE  /\ Frames(n) \in Nat
         /\ \A i \in 1..Frames(n) : (i - 1) * FrameBytes + 1 \in 1..n
         /\ \A m \in Nat : n <= m => Frames(n) <= Frames(m)
         /\ n >= FrameBytes => Frames(n) >= 1 /\ Frames(n - FrameBytes) = Frames(n) - 1
<1> DEFINE F == FrameBytes
<1>0. F \in Nat /\ F > 0
  BY StreamAssumption
<1>1. ASSUME NEW m \in Nat
      PROVE  /\ m \div F \in Nat /\ (m \div F) * F <= m /\ m < (m \div F) * F + F
  BY <1>0
<1>2. ASSUME NEW q \in Nat, NEW p \in Nat, NEW m \in Nat, q * F <= m, m < p * F + F
      PROVE  q <= p
  <2>1. CASE q >= p + 1
    <3>1. q * F >= (p + 1) * F
      BY <1>0, <2>1
    <3>2. (p + 1) * F = p * F + F
      BY <1>0
    <3>3. q * F \in Nat /\ p * F \in Nat
      BY <1>0
    <3> QED BY <1>0, <1>2, <3>1, <3>2, <3>3
  <2> QED BY <2>1, <1>2
<1>3. ASSUME NEW m \in Nat, n <= m PROVE n \div F <= m \div F
  <2>1. (n \div F) * F <= m /\ m < (m \div F) * F + F
    <3>1. (n \div F) * F \in Nat /\ (n \div F) * F <= n
      BY <1>0, <1>1
    <3> QED BY <1>1, <1>3, <3>1
  <2> QED BY <1>1, <1>2, <2>1
<1>4. ASSUME NEW i \in 1..(n \div F) PROVE (i - 1) * F + 1 \in 1..n
  <2>1. i \in Nat /\ i - 1 \in Nat /\ i <= n \div F /\ n \div F \in Nat
    BY <1>1
  <2>2. i * F <= (n \div F) * F /\ i * F = (i - 1) * F + F
    BY <1>0, <2>1
  <2>3. (i - 1) * F \in Nat /\ (n \div F) * F \in Nat
    BY <1>0, <2>1
  <2> QED BY <1>0, <1>1, <2>2, <2>3
<1>5. ASSUME n >= F PROVE n \div F >= 1 /\ (n - F) \div F = n \div F - 1
  <2> DEFINE q == n \div F
             p == (n - F) \div F
  <2>1. n - F \in Nat /\ q \in Nat /\ p \in Nat
    BY <1>0, <1>1, <1>5
  <2>2. /\ q * F <= n /\ n < q * F + F
        /\ p * F <= n - F /\ n - F < p * F + F
    BY <1>1, <2>1
  <2> HIDE DEF q, p
  <2>3. q * F \in Nat /\ p * F \in Nat /\ (p + 1) * F = p * F + F
    BY <1>0, <2>1
  <2>4. p + 1 \in Nat /\ (p + 1) * F <= n /\ n < (p + 1) * F + F
    BY <1>0, <2>1, <2>2, <2>3
  <2>5. q <= p + 1
    BY <1>2, <2>1, <2>2, <2>4
  <2>6. p + 1 <= q
    BY <1>2, <2>1, <2>2, <2>4
  <2> QED BY <2>1, <2>5, <2>6 DEF q, p
<1> QED BY <1>1, <1>3, <1>4, <1>5 DEF Frames

\* The bytes on their way, and whether they start at a frame's first byte and
\* follow each other within frames; whether they end with a frame's last byte.
OnTheWay == decoder \o socket \o (IF client = None THEN <<>> ELSE Pending(client))

Framed(bytes) ==
  /\ bytes # <<>> => bytes[1].place = 1
  /\ \A i \in 1..(Len(bytes) - 1) :
       IF bytes[i].place = FrameBytes THEN bytes[i + 1].place = 1
       ELSE bytes[i + 1] = [frame |-> bytes[i].frame, place |-> bytes[i].place + 1]

Ended(bytes) == bytes # <<>> => bytes[Len(bytes)].place = FrameBytes

\* The frames that begin in a sequence of bytes and are whole there.
FramesOf(bytes) ==
  [i \in 1..Frames(Len(bytes)) |-> bytes[(i - 1) * FrameBytes + 1].frame]

Begins(s, t) == Len(s) <= Len(t) /\ \A i \in 1..Len(s) : t[i] = s[i]

LEMMA FramesOfLemma ==
  ASSUME NEW bytes \in Seq(Byte)
  PROVE  FramesOf(bytes) \in Seq(Frame) /\ Len(FramesOf(bytes)) = Frames(Len(bytes))
<1>1. ASSUME NEW i \in 1..Frames(Len(bytes))
      PROVE  bytes[(i - 1) * FrameBytes + 1].frame \in Frame
  <2>1. (i - 1) * FrameBytes + 1 \in 1..Len(bytes)
    BY FramesLemma
  <2>2. bytes[(i - 1) * FrameBytes + 1] \in Byte
    BY <2>1
  <2> QED BY <2>2 DEF Byte
<1>2. Frames(Len(bytes)) \in Nat
  BY FramesLemma
<1> QED BY <1>1, <1>2 DEF FramesOf

\* More bytes behind, more frames behind.
LEMMA FramesPrefix ==
  ASSUME NEW s \in Seq(Byte), NEW t \in Seq(Byte), Begins(s, t)
  PROVE  Status!IsPrefixOf(FramesOf(s), FramesOf(t))
<1> DEFINE m == Frames(Len(s))
           n == Frames(Len(t))
<1>1. m \in Nat /\ n \in Nat /\ m <= n
  BY FramesLemma DEF Begins
<1>2. ASSUME NEW i \in 1..m PROVE FramesOf(s)[i] = FramesOf(t)[i]
  <2>1. (i - 1) * FrameBytes + 1 \in 1..Len(s)
    BY FramesLemma
  <2>2. t[(i - 1) * FrameBytes + 1] = s[(i - 1) * FrameBytes + 1]
    BY <2>1 DEF Begins
  <2> QED BY <1>1, <2>2 DEF FramesOf
<1>3. /\ FramesOf(s) \in Seq(Frame) /\ Len(FramesOf(s)) = m
      /\ FramesOf(t) \in Seq(Frame) /\ Len(FramesOf(t)) = n
  BY FramesOfLemma
<1> HIDE DEF m, n
<1>4. /\ SubSeq(FramesOf(t), 1, m) \in Seq(Frame) /\ Len(SubSeq(FramesOf(t), 1, m)) = m
      /\ \A i \in 1..m : SubSeq(FramesOf(t), 1, m)[i] = FramesOf(t)[i]
  BY <1>1, <1>3
<1>5. FramesOf(s) = SubSeq(FramesOf(t), 1, m)
  BY <1>2, <1>3, <1>4, SeqEqual
<1> QED BY <1>1, <1>3, <1>5 DEF Status!IsPrefixOf

\* A frame taken from the front of the bytes is the first of their frames.
LEMMA FramesTail ==
  ASSUME NEW bytes \in Seq(Byte), Len(bytes) >= FrameBytes
  PROVE  LET rest == SubSeq(bytes, FrameBytes + 1, Len(bytes))
         IN  /\ FramesOf(bytes) # <<>> /\ Head(FramesOf(bytes)) = bytes[1].frame
             /\ FramesOf(rest) = Tail(FramesOf(bytes))
<1> DEFINE F == FrameBytes
           rest == SubSeq(bytes, F + 1, Len(bytes))
           n == Frames(Len(bytes))
<1>1. /\ F \in Nat /\ F >= 1 /\ rest \in Seq(Byte) /\ Len(rest) = Len(bytes) - F
      /\ \A i \in 1..Len(rest) : rest[i] = bytes[i + F]
  BY StreamAssumption
<1>2. n \in Nat /\ n >= 1 /\ Frames(Len(rest)) = n - 1
  BY <1>1, FramesLemma
<1>3. /\ FramesOf(bytes) \in Seq(Frame) /\ Len(FramesOf(bytes)) = n
      /\ FramesOf(rest) \in Seq(Frame) /\ Len(FramesOf(rest)) = n - 1
  BY <1>1, <1>2, FramesOfLemma
<1>4. FramesOf(bytes)[1] = bytes[1].frame
  <2>1. 1 \in 1..n /\ (1 - 1) * FrameBytes + 1 = 1
    BY <1>1, <1>2
  <2> QED BY <2>1 DEF FramesOf
<1>5. ASSUME NEW i \in 1..(n - 1) PROVE FramesOf(rest)[i] = FramesOf(bytes)[i + 1]
  <2>1. (i - 1) * F + 1 \in 1..Len(rest)
    <3>1. Len(rest) \in Nat /\ i \in 1..Frames(Len(rest))
      BY <1>1, <1>2
    <3> QED BY <3>1, FramesLemma
  <2>2. (i - 1) * F + 1 + F = ((i + 1) - 1) * F + 1
    BY <1>1
  <2>3. rest[(i - 1) * F + 1] = bytes[((i + 1) - 1) * F + 1]
    BY <1>1, <2>1, <2>2
  <2> HIDE DEF n, rest
  <2>4. i + 1 \in 1..n /\ i \in 1..Frames(Len(rest))
    BY <1>2
  <2> QED BY <2>3, <2>4 DEF FramesOf, n
<1> HIDE DEF n, rest, F
<1>6. FramesOf(bytes) # <<>> /\ Head(FramesOf(bytes)) = bytes[1].frame
  BY <1>2, <1>3, <1>4
<1>7. FramesOf(rest) = Tail(FramesOf(bytes))
  <2>1. /\ Tail(FramesOf(bytes)) \in Seq(Frame) /\ Len(Tail(FramesOf(bytes))) = n - 1
        /\ \A i \in 1..(n - 1) : Tail(FramesOf(bytes))[i] = FramesOf(bytes)[i + 1]
    BY <1>2, <1>3, <1>6, HeadTailProperties
  <2> QED BY <1>3, <1>5, <2>1, SeqEqual
<1> QED BY <1>6, <1>7 DEF rest, F

\* Frames stay frames when the last bytes go.
LEMMA FramedPrefix ==
  ASSUME NEW s \in Seq(Byte), NEW t \in Seq(Byte), Begins(s, t), Framed(t)
  PROVE  Framed(s) /\ (s # <<>> => t # <<>> /\ s[1] = t[1])
<1>1. s # <<>> => t # <<>> /\ s[1] = t[1]
  BY DEF Begins
<1>2. ASSUME NEW i \in 1..(Len(s) - 1)
      PROVE  i \in 1..(Len(t) - 1) /\ s[i] = t[i] /\ s[i + 1] = t[i + 1]
  BY DEF Begins
<1> QED BY <1>1, <1>2 DEF Framed

\* Two runs of bytes, one behind the other.
LEMMA FramedJoin ==
  ASSUME NEW s \in Seq(Byte), NEW t \in Seq(Byte), Framed(s), Ended(s), Framed(t), Ended(t)
  PROVE  Framed(s \o t) /\ Ended(s \o t)
<1> DEFINE m == Len(s)
           n == Len(t)
           b == s \o t
<1>1. /\ m \in Nat /\ n \in Nat /\ b \in Seq(Byte) /\ Len(b) = m + n
      /\ \A i \in 1..m : b[i] = s[i]
      /\ \A i \in 1..n : b[m + i] = t[i]
  OBVIOUS
<1>a. (s = <<>> <=> m = 0) /\ (t = <<>> <=> n = 0) /\ (b = <<>> <=> m + n = 0)
  BY <1>1
<1>b. /\ m # 0 => s[1].place = 1 /\ s[m].place = FrameBytes
      /\ n # 0 => t[1].place = 1 /\ t[n].place = FrameBytes
      /\ \A i \in 1..(m - 1) :
           IF s[i].place = FrameBytes THEN s[i + 1].place = 1
           ELSE s[i + 1] = [frame |-> s[i].frame, place |-> s[i].place + 1]
      /\ \A i \in 1..(n - 1) :
           IF t[i].place = FrameBytes THEN t[i + 1].place = 1
           ELSE t[i + 1] = [frame |-> t[i].frame, place |-> t[i].place + 1]
  BY <1>a DEF Framed, Ended
<1> HIDE DEF m, n, b
<1>2. b # <<>> => b[1].place = 1
  <2>1. CASE m # 0
    BY <1>1, <1>b, <2>1
  <2>2. CASE m = 0 /\ n # 0
    <3>1. b[m + 1] = t[1]
      BY <1>1, <2>2
    <3> QED BY <1>1, <1>b, <2>2, <3>1
  <2> QED BY <1>1, <1>a, <2>1, <2>2
<1>3. ASSUME NEW i \in 1..(Len(b) - 1)
      PROVE  IF b[i].place = FrameBytes THEN b[i + 1].place = 1
             ELSE b[i + 1] = [frame |-> b[i].frame, place |-> b[i].place + 1]
  <2>1. CASE i < m
    BY <1>1, <1>b, <2>1
  <2>2. CASE i = m
    <3>1. n # 0 /\ m # 0 /\ 1 \in 1..n /\ m \in 1..m
      BY <1>1, <2>2
    <3>2. b[m + 1] = t[1] /\ b[i] = s[m]
      BY <1>1, <2>2, <3>1
    <3> QED BY <1>1, <1>b, <2>2, <3>1, <3>2
  <2>3. CASE i > m
    <3>1. /\ i - m \in 1..(n - 1) /\ (i - m) + 1 \in 1..n
          /\ m + (i - m) = i /\ m + ((i - m) + 1) = i + 1
      BY <1>1, <2>3
    <3>2. b[i] = t[i - m] /\ b[i + 1] = t[(i - m) + 1]
      BY <1>1, <3>1
    <3> QED BY <1>b, <3>1, <3>2
  <2> QED BY <1>1, <2>1, <2>2, <2>3
<1>4. b # <<>> => b[Len(b)].place = FrameBytes
  <2>1. CASE n # 0
    BY <1>1, <1>b, <2>1
  <2>2. CASE n = 0 /\ m # 0
    BY <1>1, <1>b, <2>2
  <2> QED BY <1>1, <1>a, <2>1, <2>2
<1> QED BY <1>2, <1>3, <1>4 DEF Framed, Ended, b

\* encode_frame makes one frame.
LEMMA BytesLemma ==
  ASSUME NEW frame \in Frame
  PROVE  /\ Bytes(frame) \in Seq(Byte) /\ Len(Bytes(frame)) = FrameBytes
         /\ Framed(Bytes(frame)) /\ Ended(Bytes(frame))
         /\ Bytes(frame) # <<>> /\ Bytes(frame)[1].frame = frame
<1>1. FrameBytes \in Nat /\ FrameBytes >= 1
  BY StreamAssumption
<1>2. /\ Bytes(frame) \in Seq(Byte) /\ Len(Bytes(frame)) = FrameBytes
      /\ \A i \in 1..FrameBytes : Bytes(frame)[i] = [frame |-> frame, place |-> i]
  BY <1>1 DEF Bytes, Byte
<1>3. Bytes(frame) # <<>> /\ 1 \in 1..FrameBytes /\ FrameBytes \in 1..FrameBytes
  BY <1>1, <1>2
<1>4. ASSUME NEW i \in 1..(FrameBytes - 1)
      PROVE  i \in 1..FrameBytes /\ i + 1 \in 1..FrameBytes /\ i # FrameBytes
  BY <1>1
<1> QED BY <1>2, <1>3, <1>4 DEF Framed, Ended

\* The first frame's worth of framed bytes is the frame that begins there, and
\* what follows begins with the next.
LEMMA FirstFrame ==
  ASSUME NEW bytes \in Seq(Byte), Framed(bytes), Len(bytes) >= FrameBytes
  PROVE  /\ \A i \in 1..FrameBytes : bytes[i] = [frame |-> bytes[1].frame, place |-> i]
         /\ Framed(SubSeq(bytes, FrameBytes + 1, Len(bytes)))
<1> DEFINE F == FrameBytes
           rest == SubSeq(bytes, F + 1, Len(bytes))
           T == {i \in 1..F : bytes[i] # [frame |-> bytes[1].frame, place |-> i]}
<1>0. F \in Nat /\ F >= 1 /\ bytes # <<>> /\ Len(bytes) \in Nat
  BY StreamAssumption
<1>1. ASSUME T # {} PROVE FALSE
  <2>1. /\ T \subseteq Nat /\ T \subseteq 1..F
        /\ \A i \in 1..F : i \in T <=> bytes[i] # [frame |-> bytes[1].frame, place |-> i]
    OBVIOUS
  <2> HIDE DEF T
  <2>2. PICK i \in T : \A j \in T : i <= j
    BY <1>1, <2>1, LeastNatural
  <2>3. i # 1
    <3>1. bytes[1] \in Byte /\ bytes[1].place = 1
      BY <1>0 DEF Framed
    <3>2. bytes[1] = [frame |-> bytes[1].frame, place |-> 1]
      BY <3>1 DEF Byte
    <3>3. 1 \in 1..F
      BY <1>0
    <3> QED BY <2>1, <2>2, <3>2, <3>3
  <2>4. /\ i - 1 \in 1..F /\ ~(i <= i - 1) /\ i - 1 \in 1..(Len(bytes) - 1)
        /\ i - 1 # F /\ (i - 1) + 1 = i
    BY <1>0, <2>1, <2>2, <2>3
  <2>5. bytes[i - 1] = [frame |-> bytes[1].frame, place |-> i - 1]
    BY <2>1, <2>2, <2>4
  <2>6. bytes[i] = [frame |-> bytes[1].frame, place |-> i]
    <3>1. bytes[(i - 1) + 1] = [frame |-> bytes[i - 1].frame, place |-> bytes[i - 1].place + 1]
      BY <2>4, <2>5 DEF Framed
    <3> QED BY <2>4, <2>5, <3>1
  <2> QED BY <2>1, <2>2, <2>6
<1>2. \A i \in 1..F : bytes[i] = [frame |-> bytes[1].frame, place |-> i]
  BY <1>1
<1>3. /\ rest \in Seq(Byte) /\ Len(rest) = Len(bytes) - F
      /\ \A i \in 1..Len(rest) : rest[i] = bytes[i + F]
  BY <1>0
<1> HIDE DEF rest, T
<1>4. rest # <<>> => rest[1].place = 1
  <2> SUFFICES ASSUME rest # <<>> PROVE rest[1].place = 1
    OBVIOUS
  <2>1. 1 \in 1..Len(rest) /\ F \in 1..(Len(bytes) - 1) /\ F \in 1..F
    BY <1>0, <1>3
  <2>2. bytes[F].place = F
    <3>1. bytes[F] = [frame |-> bytes[1].frame, place |-> F]
      BY <1>2, <2>1
    <3> QED BY <3>1
  <2>3. bytes[F + 1].place = 1
    BY <2>1, <2>2 DEF Framed
  <2> QED BY <1>0, <1>3, <2>1, <2>3
<1>5. ASSUME NEW i \in 1..(Len(rest) - 1)
      PROVE  IF rest[i].place = F THEN rest[i + 1].place = 1
             ELSE rest[i + 1] = [frame |-> rest[i].frame, place |-> rest[i].place + 1]
  <2>1. /\ i \in 1..Len(rest) /\ i + 1 \in 1..Len(rest) /\ i + F \in 1..(Len(bytes) - 1)
        /\ (i + 1) + F = (i + F) + 1
    BY <1>0, <1>3
  <2>2. rest[i] = bytes[i + F] /\ rest[i + 1] = bytes[(i + F) + 1]
    BY <1>3, <2>1
  <2> QED BY <2>1, <2>2 DEF Framed
<1> QED BY <1>2, <1>4, <1>5 DEF Framed, rest

-----------------------------------------------------------------------------
(***************************************************************************)
(* The output queue of a client.                                           *)
(***************************************************************************)
ClientOK(c) ==
  /\ c \in Client /\ c.status_cursor <= Len(c.status_output)
  /\ Len(Pending(c)) <= MaxStatusBytes

LEMMA PendingLemma ==
  ASSUME NEW c \in Client, c.status_cursor <= Len(c.status_output)
  PROVE  /\ Pending(c) \in Seq(Byte)
         /\ Len(Pending(c)) = Len(c.status_output) - c.status_cursor
         /\ \A i \in 1..Len(Pending(c)) : Pending(c)[i] = c.status_output[c.status_cursor + i]
<1>1. c.status_output \in Seq(Byte) /\ c.status_cursor \in Nat
  BY DEF Client
<1> QED BY <1>1 DEF Pending

LEMMA BeginsLemma ==
  ASSUME NEW s \in Seq(Byte), NEW t \in Seq(Byte), NEW u \in Seq(Byte)
  PROVE  /\ Begins(s, s) /\ Begins(s, s \o t) /\ Begins(<<>>, s)
         /\ Begins(s, t) /\ Begins(t, u) => Begins(s, u)
<1> QED BY DEF Begins

\* What c can become by queueing frames, when before is all that left its queue
\* and is still on the way.
Behind(before, c) ==
  {d \in Client :
     /\ ClientOK(d)
     /\ d.wants_status = c.wants_status
     /\ c.status_overflowed => d.status_overflowed
     /\ Begins(before \o Pending(c), before \o Pending(d))
     /\ Framed(before \o Pending(d)) /\ Ended(before \o Pending(d))}

LEMMA QueueFrameLemma ==
  ASSUME NEW before \in Seq(Byte), NEW c, ClientOK(c), NEW d \in Behind(before, c),
         NEW frame \in Frame
  PROVE  /\ QueueFrame(d, frame) \in Behind(before, c)
         /\ \/ QueueFrame(d, frame).status_overflowed
            \/ Pending(QueueFrame(d, frame)) = Pending(d) \o Bytes(frame)
         /\ QueueFrame(d, frame).greeted = d.greeted
         /\ d.status_overflowed => QueueFrame(d, frame).status_overflowed
<1>0. /\ d \in Client /\ ClientOK(d) /\ c \in Client
      /\ d.wants_status = c.wants_status
      /\ c.status_overflowed => d.status_overflowed
      /\ Begins(before \o Pending(c), before \o Pending(d))
      /\ Framed(before \o Pending(d)) /\ Ended(before \o Pending(d))
      /\ Pending(d) \in Seq(Byte) /\ Pending(c) \in Seq(Byte)
  BY PendingLemma DEF Behind, ClientOK
<1>1. CASE d.status_overflowed
  BY <1>1 DEF QueueFrame
<1>2. CASE ~d.status_overflowed /\ Len(Pending(d)) + FrameBytes > MaxStatusBytes
  <2> DEFINE n == [d EXCEPT !.status_overflowed = TRUE]
  <2>1. /\ QueueFrame(d, frame) = n /\ n \in Client /\ n.status_overflowed
        /\ n.status_output = d.status_output /\ n.status_cursor = d.status_cursor
        /\ n.wants_status = d.wants_status /\ n.greeted = d.greeted
    BY <1>0, <1>2 DEF QueueFrame, Client
  <2> HIDE DEF n
  <2>2. Pending(n) = Pending(d)
    BY <2>1 DEF Pending
  <2>3. n \in Behind(before, c)
    BY <1>0, <2>1, <2>2 DEF Behind, ClientOK
  <2> QED BY <2>1, <2>3
<1>3. CASE ~d.status_overflowed /\ ~(Len(Pending(d)) + FrameBytes > MaxStatusBytes)
  <2> DEFINE out == Pending(d) \o Bytes(frame)
             n == [d EXCEPT !.status_output = out, !.status_cursor = 0]
  <2>1. /\ Bytes(frame) \in Seq(Byte) /\ Len(Bytes(frame)) = FrameBytes
        /\ Framed(Bytes(frame)) /\ Ended(Bytes(frame))
    BY BytesLemma
  <2>2. out \in Seq(Byte) /\ Len(out) = Len(Pending(d)) + FrameBytes
    BY <1>0, <2>1
  <2> HIDE DEF out
  <2>3. /\ QueueFrame(d, frame) = n
    BY <1>3 DEF QueueFrame, out
  <2>4. /\ n \in Client /\ n.status_output = out /\ n.status_cursor = 0
        /\ n.wants_status = d.wants_status /\ n.status_overflowed = d.status_overflowed
        /\ n.greeted = d.greeted
    BY <1>0, <2>2 DEF Client
  <2> HIDE DEF n
  <2>5. Pending(n) = out
    <3>1. Pending(n) = SubSeq(out, 1, Len(out))
      BY <2>4 DEF Pending
    <3> QED BY <2>2, <3>1, SubSeqFull
  <2>6. ClientOK(n)
    <3>1. Len(out) <= MaxStatusBytes /\ 0 <= Len(out)
      BY <1>0, <1>3, <2>2, StreamAssumption
    <3> QED BY <2>4, <2>5, <3>1 DEF ClientOK
  <2>7. before \o out = (before \o Pending(d)) \o Bytes(frame)
    BY <1>0, <2>1, ConcatAssociative DEF out
  <2>8. before \o Pending(d) \in Seq(Byte) /\ before \o Pending(c) \in Seq(Byte)
        /\ before \o out \in Seq(Byte)
    BY <1>0, <2>2
  <2>9. Framed(before \o out) /\ Ended(before \o out)
    BY <1>0, <2>1, <2>7, <2>8, FramedJoin
  <2>10. Begins(before \o Pending(c), before \o out)
    <3>1. Begins(before \o Pending(d), before \o out)
      BY <2>1, <2>7, <2>8, BeginsLemma
    <3> QED BY <1>0, <2>8, <3>1, BeginsLemma
  <2>11. n \in Behind(before, c)
    BY <1>0, <2>4, <2>5, <2>6, <2>9, <2>10 DEF Behind
  <2> QED BY <1>3, <2>3, <2>4, <2>5, <2>11 DEF out
<1> QED BY <1>1, <1>2, <1>3

\* A sequence of frames is queued one by one, so what each frame makes of
\* what those before it have made holds in the end.
Queues(f, c, frames, n) ==
  f = [i \in 0..n |-> IF i = 0 THEN c ELSE QueueFrame(f[i - 1], frames[i])]

LEMMA QueuedExist ==
  ASSUME NEW c, NEW frames, NEW n \in Nat
  PROVE  \E f : Queues(f, c, frames, n)
<1> USE DEF Queues
<1> DEFINE P(m) == \E f : Queues(f, c, frames, m)
           T == {m \in Nat : ~P(m)}
<1>1. SUFFICES ASSUME T # {} PROVE FALSE
  OBVIOUS
<1>a. T \subseteq Nat
  OBVIOUS
<1>b. \A l \in Nat : l \in T <=> ~P(l)
  OBVIOUS
<1> HIDE DEF P, T
<1>2. PICK m \in T : \A l \in T : m <= l
  BY <1>1, <1>a, LeastNatural
<1>3. CASE m = 0
  <2> DEFINE f == [i \in 0..0 |-> c]
  <2>1. f = [i \in 0..0 |-> IF i = 0 THEN c ELSE QueueFrame(f[i - 1], frames[i])]
    OBVIOUS
  <2>2. P(0)
    BY <2>1 DEF P
  <2> QED BY <1>2, <1>3, <1>b, <2>2
<1>4. CASE m # 0
  <2>1. m \in Nat \ {0} /\ m - 1 \in Nat /\ m - 1 < m
    BY <1>2, <1>4, <1>a
  <2>2. P(m - 1)
    BY <1>2, <1>b, <2>1
  <2>3. PICK g : g = [i \in 0..(m - 1) |-> IF i = 0 THEN c
                                         ELSE QueueFrame(g[i - 1], frames[i])]
    BY <2>2 DEF P
  <2> DEFINE f == [i \in 0..m |-> IF i = m THEN QueueFrame(g[m - 1], frames[m]) ELSE g[i]]
  <2>4. ASSUME NEW i \in 0..m
        PROVE  f[i] = IF i = 0 THEN c ELSE QueueFrame(f[i - 1], frames[i])
    <3>1. CASE i = 0
      BY <2>1, <2>3, <3>1
    <3>2. CASE i = m
      BY <2>1, <3>2
    <3>3. CASE i # 0 /\ i # m
      <4>1. i \in 0..(m - 1) /\ i - 1 \in 0..m /\ i - 1 # m
        BY <2>1, <3>3
      <4>2. g[i] = QueueFrame(g[i - 1], frames[i])
        BY <2>3, <3>3, <4>1
      <4> QED BY <3>3, <4>1, <4>2
    <3> QED BY <3>1, <3>2, <3>3
  <2>5. f = [i \in 0..m |-> IF i = 0 THEN c ELSE QueueFrame(f[i - 1], frames[i])]
    BY <2>4
  <2>6. P(m)
    BY <2>5 DEF P
  <2> QED BY <1>2, <1>b, <2>6, <1>a
<1> QED BY <1>3, <1>4

LEMMA QueueFramesLemma ==
  ASSUME NEW frames \in Seq(Frame), NEW S, NEW c \in S[0],
         \A i \in 1..Len(frames) : \A d \in S[i - 1] : QueueFrame(d, frames[i]) \in S[i]
  PROVE  QueueFrames(c, frames) \in S[Len(frames)]
<1> DEFINE n == Len(frames)
           f == CHOOSE f : Queues(f, c, frames, n)
<1>1. n \in Nat /\ \A i \in 1..n : frames[i] \in Frame
  OBVIOUS
<1>2. Queues(f, c, frames, n)
  <2>1. \E g : Queues(g, c, frames, n)
    <3> HIDE DEF n
    <3> QED BY <1>1, QueuedExist
  <2> QED BY <2>1, Zenon
<1>3. QueueFrames(c, frames) = f[n]
  BY Zenon DEF QueueFrames, Queues
<1> HIDE DEF f, n
<1> DEFINE T == {i \in 0..n : f[i] \notin S[i]}
<1>4. ASSUME T # {} PROVE FALSE
  <2>1. T \subseteq Nat /\ T \subseteq 0..n /\ \A i \in 0..n : i \in T <=> f[i] \notin S[i]
    BY <1>1
  <2> HIDE DEF T
  <2>2. PICK i \in T : \A j \in T : i <= j
    BY <1>4, <2>1, LeastNatural
  <2>3. i # 0
    BY <1>1, <1>2, <2>1, <2>2 DEF Queues
  <2>4. i \in 1..n /\ i - 1 \in 0..n /\ ~(i <= i - 1)
    BY <1>1, <2>1, <2>2, <2>3
  <2>5. f[i - 1] \in S[i - 1]
    BY <2>1, <2>2, <2>4
  <2>6. f[i] = QueueFrame(f[i - 1], frames[i])
    BY <1>2, <2>3, <2>4 DEF Queues
  <2>7. QueueFrame(f[i - 1], frames[i]) \in S[i]
    BY <2>4, <2>5 DEF n
  <2> QED BY <2>1, <2>2, <2>6, <2>7
<1>5. n \in 0..n /\ n \notin T
  BY <1>1, <1>4
<1> QED BY <1>3, <1>5 DEF n

\* Greeting and broadcast queue behind what is queued, and only for an observer.
LEMMA ToldLemma ==
  ASSUME NEW before \in Seq(Byte), NEW c, ClientOK(c),
         Framed(before \o Pending(c)), Ended(before \o Pending(c)),
         NEW layout \in Layout, NEW frames \in Seq(Frame)
  PROVE  /\ Broadcast(Greeted(c, layout), frames) \in Behind(before, c)
         /\ ~c.wants_status => Broadcast(Greeted(c, layout), frames) = c
<1>0. c \in Client /\ Pending(c) \in Seq(Byte) /\ before \o Pending(c) \in Seq(Byte)
  BY PendingLemma DEF ClientOK
<1>1. c \in Behind(before, c)
  BY <1>0, BeginsLemma DEF Behind
<1>2. ASSUME NEW d \in Behind(before, c), NEW s \in Seq(Frame)
      PROVE  QueueFrames(d, s) \in Behind(before, c)
  <2> DEFINE S == [i \in 0..Len(s) |-> Behind(before, c)]
  <2>1. d \in S[0] /\ S[Len(s)] = Behind(before, c)
    OBVIOUS
  <2>2. ASSUME NEW i \in 1..Len(s), NEW e \in S[i - 1] PROVE QueueFrame(e, s[i]) \in S[i]
    <3>1. e \in Behind(before, c) /\ s[i] \in Frame /\ S[i] = Behind(before, c)
      OBVIOUS
    <3> QED BY <3>1, QueueFrameLemma
  <2> HIDE DEF S
  <2>3. QueueFrames(d, s) \in S[Len(s)]
    BY <2>1, <2>2, QueueFramesLemma
  <2> QED BY <2>1, <2>3
<1>3. Greeted(c, layout) \in Behind(before, c)
  <2>1. CASE ~(c.wants_status /\ ~c.greeted)
    BY <1>1, <2>1 DEF Greeted
  <2>2. CASE c.wants_status /\ ~c.greeted
    <3> DEFINE q == QueueFrames(c, <<LayoutStatus(layout), Routing>>)
               d == [q EXCEPT !.greeted = TRUE]
    <3>1. <<LayoutStatus(layout), Routing>> \in Seq(Frame)
      BY DEF Frame
    <3>2. q \in Behind(before, c)
      BY <1>1, <1>2, <3>1
    <3>3. Greeted(c, layout) = d
      BY <2>2 DEF Greeted
    <3> HIDE DEF q
    <3>4. /\ d \in Client /\ d.status_output = q.status_output
          /\ d.status_cursor = q.status_cursor /\ d.wants_status = q.wants_status
          /\ d.status_overflowed = q.status_overflowed
      BY <3>2 DEF Behind, Client
    <3> HIDE DEF d
    <3>5. Pending(d) = Pending(q)
      BY <3>4 DEF Pending
    <3> QED BY <3>2, <3>3, <3>4, <3>5 DEF Behind, ClientOK
  <2> QED BY <2>1, <2>2
<1>4. Broadcast(Greeted(c, layout), frames) \in Behind(before, c)
  BY <1>2, <1>3 DEF Broadcast
<1>5. ~c.wants_status => Broadcast(Greeted(c, layout), frames) = c
  BY DEF Broadcast, Greeted
<1> QED BY <1>4, <1>5

\* One turn of the IPC thread for a client, up to the flush.
Turned(c, layout, frames) == Broadcast(Greeted(Acknowledged(c), layout), frames)

\* It queues behind what is queued; the acknowledgement of a Hello comes first.
LEMMA TurnedLemma ==
  ASSUME NEW before \in Seq(Byte), NEW c, ClientOK(c), ~c.status_overflowed,
         Framed(before \o Pending(c)), Ended(before \o Pending(c)),
         ~c.wants_status => before \o Pending(c) = <<>>,
         NEW layout \in Layout, NEW frames \in Seq(Frame), hello \in BOOLEAN
  PROVE  LET t == Turned(c, layout, frames)
         IN  /\ ClientOK(t)
             /\ Framed(before \o Pending(t)) /\ Ended(before \o Pending(t))
             /\ Begins(before \o Pending(c), before \o Pending(t))
             /\ c.wants_status => t.wants_status
             /\ t.wants_status => c.wants_status \/ hello
             /\ ~t.wants_status => before \o Pending(t) = <<>>
             /\ t.wants_status /\ ~c.wants_status /\ ~t.status_overflowed =>
                  before \o Pending(t) # <<>> /\ (before \o Pending(t))[1].frame = Accepted
<1>0. c \in Client /\ Pending(c) \in Seq(Byte) /\ before \o Pending(c) \in Seq(Byte)
  BY PendingLemma DEF ClientOK
<1> DEFINE a == Acknowledged(c)
           t == Turned(c, layout, frames)
<1>1. CASE ~hello
  <2>1. a = c
    BY <1>1 DEF Acknowledged
  <2>2. t \in Behind(before, c) /\ (~c.wants_status => t = c)
    BY <2>1, ToldLemma DEF Turned
  <2> HIDE DEF t
  <2> QED BY <2>2 DEF Behind, t
<1>2. CASE hello
  <2> DEFINE o == [c EXCEPT !.wants_status = TRUE]
  <2>1. /\ o \in Client /\ o.status_output = c.status_output /\ o.wants_status
        /\ o.status_cursor = c.status_cursor /\ ~o.status_overflowed
        /\ a = QueueFrame(o, Accepted) /\ Accepted \in Frame
    BY <1>0, <1>2 DEF Client, Acknowledged, Frame
  <2> HIDE DEF o, a
  <2>2. Pending(o) = Pending(c)
    BY <2>1 DEF Pending
  <2>3. ClientOK(o) /\ o \in Behind(before, o)
    BY <1>0, <2>1, <2>2, BeginsLemma DEF ClientOK, Behind
  <2>4. /\ a \in Behind(before, o)
        /\ a.status_overflowed \/ Pending(a) = Pending(o) \o Bytes(Accepted)
    BY <2>1, <2>3, QueueFrameLemma
  <2>5. /\ a \in Client /\ ClientOK(a) /\ a.wants_status
        /\ Framed(before \o Pending(a)) /\ Ended(before \o Pending(a))
        /\ Begins(before \o Pending(c), before \o Pending(a))
    BY <2>1, <2>2, <2>4 DEF Behind
  <2>6. t \in Behind(before, a)
    BY <2>5, ToldLemma DEF Turned, a
  <2> HIDE DEF t
  <2>7. /\ ClientOK(t) /\ t.wants_status
        /\ Framed(before \o Pending(t)) /\ Ended(before \o Pending(t))
        /\ Begins(before \o Pending(a), before \o Pending(t))
        /\ a.status_overflowed => t.status_overflowed
    BY <2>5, <2>6 DEF Behind
  <2>8. /\ Pending(a) \in Seq(Byte) /\ before \o Pending(a) \in Seq(Byte)
        /\ Pending(t) \in Seq(Byte) /\ before \o Pending(t) \in Seq(Byte)
    BY <2>5, <2>7, PendingLemma DEF ClientOK
  <2>9. Begins(before \o Pending(c), before \o Pending(t))
    BY <1>0, <2>5, <2>7, <2>8, BeginsLemma
  <2>10. ASSUME ~c.wants_status, ~t.status_overflowed
         PROVE  /\ before \o Pending(t) # <<>>
                /\ (before \o Pending(t))[1].frame = Accepted
    <3>1. before = <<>> /\ Pending(c) = <<>>
      BY <1>0, <2>10, ConcatSimplifications
    <3>2. Pending(a) = Bytes(Accepted)
      <4>1. Pending(a) = <<>> \o Bytes(Accepted)
        BY <2>2, <2>4, <2>7, <2>10, <3>1
      <4> QED BY <2>1, <4>1, BytesLemma, ConcatEmptySeq
    <3>3. before \o Pending(a) = Bytes(Accepted)
      BY <2>1, <3>1, <3>2, BytesLemma, ConcatEmptySeq
    <3>4. Bytes(Accepted) # <<>> /\ Bytes(Accepted)[1].frame = Accepted
      BY <2>1, BytesLemma
    <3>5. 1 \in 1..Len(before \o Pending(a)) /\ before \o Pending(t) # <<>>
      BY <2>7, <2>8, <3>3, <3>4 DEF Begins
    <3>6. (before \o Pending(t))[1] = (before \o Pending(a))[1]
      BY <2>7, <3>5 DEF Begins
    <3> QED BY <3>3, <3>4, <3>5, <3>6
  <2> QED BY <1>2, <2>7, <2>9, <2>10 DEF t
<1> QED BY <1>1, <1>2

\* A write takes bytes from the front of the queue, as many as the socket takes.
LEMMA FlushedLemma ==
  ASSUME NEW c, ClientOK(c), socket \in Seq(Byte), Len(socket) <= SocketBytes
  PROVE  LET w == Writable(c)
             written == SubSeq(Pending(c), 1, w)
         IN  /\ w \in 0..Len(Pending(c))
             /\ written \in Seq(Byte) /\ Len(written) = w
             /\ Len(socket) + w <= SocketBytes
             /\ ClientOK(Flushed(c))
             /\ Flushed(c).wants_status = c.wants_status
             /\ Flushed(c).greeted = c.greeted
             /\ Flushed(c).status_overflowed = c.status_overflowed
             /\ written \o Pending(Flushed(c)) = Pending(c)
<1> DEFINE w == Writable(c)
           p == Pending(c)
           written == SubSeq(p, 1, w)
           d == Flushed(c)
<1>0. /\ c \in Client /\ p \in Seq(Byte) /\ Len(p) \in Nat /\ SocketBytes \in Nat
      /\ c.status_output \in Seq(Byte) /\ c.status_cursor \in Nat
      /\ Len(p) = Len(c.status_output) - c.status_cursor
      /\ \A i \in 1..Len(p) : p[i] = c.status_output[c.status_cursor + i]
      /\ Len(p) <= MaxStatusBytes /\ MaxStatusBytes \in Nat
  BY PendingLemma, StreamAssumption DEF ClientOK, Client
<1>1. w \in 0..Len(p) /\ Len(socket) + w <= SocketBytes
  <2>1. Len(socket) \in Nat /\ SocketBytes - Len(socket) \in Nat
    BY <1>0
  <2>2. w = Least(Len(p), SocketBytes - Len(socket))
    BY DEF Writable
  <2> HIDE DEF w, p
  <2> QED BY <1>0, <2>1, <2>2 DEF Least
<1> HIDE DEF w
<1> HIDE DEF p
<1>2. written \in Seq(Byte) /\ Len(written) = w /\ \A i \in 1..w : written[i] = p[i]
  BY <1>0, <1>1
<1>3. CASE w = Len(p)
  <2>1. /\ d = [c EXCEPT !.status_output = <<>>, !.status_cursor = 0]
    BY <1>3 DEF Flushed, w, p
  <2>a. <<>> \in Seq(Byte) /\ 0 \in Nat
    OBVIOUS
  <2> HIDE DEF d
  <2>2. /\ d \in Client /\ d.status_output = <<>> /\ d.status_cursor = 0
        /\ d.wants_status = c.wants_status /\ d.status_overflowed = c.status_overflowed
        /\ d.greeted = c.greeted
    BY <1>0, <2>1, <2>a DEF Client
  <2>3. Pending(d) = <<>>
    BY <2>2 DEF Pending
  <2>4. ClientOK(d)
    BY <2>2, <2>3, StreamAssumption DEF ClientOK
  <2>5. written = p
    BY <1>0, <1>3, SubSeqFull
  <2>6. written \o Pending(d) = p
    BY <1>0, <2>3, <2>5, ConcatEmptySeq
  <2> QED BY <1>1, <1>2, <2>2, <2>4, <2>6 DEF w, p, d
<1>4. CASE w # Len(p)
  <2>1. d = [c EXCEPT !.status_cursor = c.status_cursor + w]
    BY <1>4 DEF Flushed, w, p
  <2>a. c.status_cursor + w \in Nat
    BY <1>0, <1>1
  <2> HIDE DEF d
  <2>2. /\ d \in Client /\ d.status_output = c.status_output
        /\ d.status_cursor = c.status_cursor + w
        /\ d.wants_status = c.wants_status /\ d.status_overflowed = c.status_overflowed
        /\ d.greeted = c.greeted
    BY <1>0, <2>1, <2>a DEF Client
  <2>3. d.status_cursor <= Len(d.status_output)
    BY <1>0, <1>1, <2>2
  <2>4. /\ Pending(d) \in Seq(Byte) /\ Len(Pending(d)) = Len(p) - w
        /\ \A i \in 1..Len(Pending(d)) : Pending(d)[i] = p[w + i]
    <3>1. /\ Pending(d) \in Seq(Byte)
          /\ Len(Pending(d)) = Len(d.status_output) - d.status_cursor
          /\ \A i \in 1..Len(Pending(d)) :
               Pending(d)[i] = d.status_output[d.status_cursor + i]
      BY <2>2, <2>3, PendingLemma
    <3>2. Len(Pending(d)) = Len(p) - w
      BY <1>0, <1>1, <2>2, <3>1
    <3>3. ASSUME NEW i \in 1..Len(Pending(d)) PROVE Pending(d)[i] = p[w + i]
      <4>1. w + i \in 1..Len(p) /\ c.status_cursor + (w + i) = d.status_cursor + i
        BY <1>0, <1>1, <2>2, <3>2
      <4> QED BY <1>0, <2>2, <3>1, <4>1
    <3> QED BY <3>1, <3>2, <3>3
  <2>5. ClientOK(d)
    BY <1>0, <1>1, <2>2, <2>3, <2>4 DEF ClientOK
  <2> HIDE DEF written
  <2>6. written \o Pending(d) = p
    <3>1. /\ written \o Pending(d) \in Seq(Byte) /\ Len(written \o Pending(d)) = Len(p)
      BY <1>0, <1>1, <1>2, <2>4, ConcatProperties
    <3>2. ASSUME NEW i \in 1..Len(p) PROVE (written \o Pending(d))[i] = p[i]
      <4>1. CASE i <= w
        <5>1. i \in 1..(Len(written) + Len(Pending(d))) /\ i \in 1..w
          BY <1>0, <1>1, <1>2, <2>4, <4>1
        <5>2. (written \o Pending(d))[i] = written[i]
          BY <1>2, <2>4, <4>1, <5>1, ConcatProperties
        <5> QED BY <1>2, <5>1, <5>2
      <4>2. CASE i > w
        <5>1. i - w \in 1..Len(Pending(d)) /\ w + (i - w) = i
              /\ i \in 1..(Len(written) + Len(Pending(d))) /\ ~(i <= Len(written))
          BY <1>0, <1>1, <1>2, <2>4, <4>2
        <5>2. (written \o Pending(d))[i] = Pending(d)[i - w]
          BY <1>2, <2>4, <5>1, ConcatProperties
        <5>3. Pending(d)[i - w] = p[w + (i - w)]
          BY <2>4, <5>1
        <5> QED BY <5>1, <5>2, <5>3
      <4>3. i \in Nat /\ w \in Nat
        BY <1>0, <1>1
      <4>4. i <= w \/ i > w
        BY <4>3
      <4> QED BY <4>1, <4>2, <4>4
    <3> QED BY <1>0, <3>1, <3>2, SeqEqual
  <2> QED BY <1>1, <1>2, <2>2, <2>5, <2>6 DEF w, p, d, written
<1> QED BY <1>3, <1>4

-----------------------------------------------------------------------------
(***************************************************************************)
(* The connection, byte by byte.                                           *)
(***************************************************************************)
\* What is on the way is framed, and whole while the server has the client; an
\* observer's stream begins with the acknowledgement of its Hello.
StreamInv ==
  /\ Framed(OnTheWay)
  /\ client # None => Ended(OnTheWay) /\ ~client.status_overflowed
  /\ client # None /\ ~client.wants_status => OnTheWay = <<>>
  /\ client # None /\ client.wants_status /\ ~accepted => OnTheWay # <<>>
  /\ ~accepted /\ OnTheWay # <<>> => OnTheWay[1].frame = Accepted
  /\ accepted => shared.connected
  /\ dialled => client = None /\ decoder = <<>> /\ socket = <<>>
  /\ hello => dialled \/ client # None
  /\ reader = "asleep" => client = None /\ ~dialled /\ decoder = <<>> /\ socket = <<>>
  /\ reader = "connected" => /\ ~hello /\ decoder = <<>> /\ socket = <<>>
                             /\ client # None => ~client.wants_status

StreamOK == StreamTypeOK /\ StreamInv

\* A step of FrameQueue, or none.
StatusStep == [Status!Next]_<<client # None, InFlight, shared>>

LEMMA InFlightLemma == InFlight = FramesOf(OnTheWay) /\ InFlight' = FramesOf(OnTheWay')
<1> QED BY DEF InFlight, FramesOf, Frames, OnTheWay

LEMMA NothingOnTheWay == FramesOf(<<>>) = <<>> /\ Framed(<<>>) /\ Ended(<<>>)
<1>1. <<>> \in Seq(Byte) /\ Len(<<>>) = 0
  OBVIOUS
<1>2. Frames(0) = 0
  BY StreamAssumption DEF Frames
<1>3. FramesOf(<<>>) \in Seq(Frame) /\ Len(FramesOf(<<>>)) = 0
  BY <1>1, <1>2, FramesOfLemma
<1> QED BY <1>1, <1>3, EmptySeq DEF Framed, Ended

LEMMA StreamTyped ==
  ASSUME StreamTypeOK
  PROVE  /\ decoder \in Seq(Byte) /\ socket \in Seq(Byte) /\ decoder \o socket \in Seq(Byte)
         /\ client # None => /\ ClientOK(client) /\ Pending(client) \in Seq(Byte)
                             /\ OnTheWay = decoder \o socket \o Pending(client)
         /\ client = None => OnTheWay = decoder \o socket
         /\ OnTheWay \in Seq(Byte)
<1>1. decoder \in Seq(Byte) /\ socket \in Seq(Byte) /\ decoder \o socket \in Seq(Byte)
  BY DEF StreamTypeOK
<1>2. ASSUME client # None
      PROVE  ClientOK(client) /\ Pending(client) \in Seq(Byte)
  <2>1. client \in Client /\ client.status_cursor <= Len(client.status_output)
    BY <1>2 DEF StreamTypeOK
  <2>2. /\ Pending(client) \in Seq(Byte)
        /\ Len(Pending(client)) = Len(client.status_output) - client.status_cursor
    BY <2>1, PendingLemma
  <2> QED BY <1>2, <2>1, <2>2 DEF ClientOK, StreamTypeOK
<1>3. CASE client = None
  <2>1. OnTheWay = decoder \o socket
    BY <1>1, <1>3, ConcatEmptySeq DEF OnTheWay
  <2> QED BY <1>1, <1>3, <2>1
<1>4. CASE client # None
  <2>1. OnTheWay = decoder \o socket \o Pending(client)
    BY <1>4 DEF OnTheWay
  <2> QED BY <1>1, <1>2, <1>4, <2>1
<1> QED BY <1>3, <1>4

\* The client a turn serves, and what it tells an observer after the greeting.
Visited == IF dialled THEN NewClient ELSE client

News(adopted, output) ==
  [i \in 1..Len(adopted) |-> LayoutStatus(adopted[i])] \o (IF output THEN <<Output>> ELSE <<>>)

\* A turn of the IPC thread: the observer's frames go behind those on their
\* way, in the queue or already in the socket, or its connection is dropped.
LEMMA ServedLemma ==
  ASSUME StreamOK, NEW layout \in Layout, NEW adopted \in Seq(Layout), NEW output \in BOOLEAN,
         ServePass(layout, adopted, output)
  PROVE  /\ StreamOK' /\ StatusStep
         /\ shared' = shared
         /\ ClientOK(Visited) /\ ~Visited.status_overflowed
         /\ Visited.wants_status \/ Visited.greeted => Visited = client
         /\ (decoder \o socket) \o Pending(Visited) = OnTheWay
         /\ Ended(OnTheWay)
         /\ client' # None =>
              LET t == Turned(Visited, layout, News(adopted, output))
              IN  /\ ~t.status_overflowed
                  /\ client'.greeted = t.greeted /\ client'.wants_status = t.wants_status
                  /\ OnTheWay' = (decoder \o socket) \o Pending(t)
<1> DEFINE before == decoder \o socket
           c == Visited
           frames == News(adopted, output)
           t == Turned(c, layout, frames)
<1>0. /\ StreamTypeOK /\ StreamInv /\ before \in Seq(Byte)
      /\ decoder \in Seq(Byte) /\ socket \in Seq(Byte) /\ Len(socket) <= SocketBytes
      /\ hello \in BOOLEAN /\ dialled \in BOOLEAN /\ OnTheWay \in Seq(Byte)
  BY StreamTyped DEF StreamOK, StreamTypeOK
<1>1. /\ dialled \/ client # None
      /\ dialled' = FALSE /\ hello' = FALSE
      /\ UNCHANGED <<reader, decoder, accepted, shared, connects>>
      /\ t.status_overflowed => client' = None /\ UNCHANGED socket
      /\ ~t.status_overflowed => /\ client' = Flushed(t)
                                 /\ socket' = socket \o SubSeq(Pending(t), 1, Writable(t))
  BY DEF ServePass, Turned, Visited, News
<1>2. frames \in Seq(Frame)
  <2>1. \A l \in Layout : LayoutStatus(l) \in Frame
    BY DEF Frame
  <2>2. [i \in 1..Len(adopted) |-> LayoutStatus(adopted[i])] \in Seq(Frame)
    BY <2>1
  <2>3. (IF output THEN <<Output>> ELSE <<>>) \in Seq(Frame)
    <3>1. <<Output>> \in Seq(Frame) /\ <<>> \in Seq(Frame)
      BY DEF Frame
    <3> QED BY <3>1
  <2> QED BY <2>2, <2>3, ConcatProperties DEF News
<1>3. /\ ClientOK(c) /\ ~c.status_overflowed
      /\ before \o Pending(c) = OnTheWay
      /\ Framed(before \o Pending(c)) /\ Ended(before \o Pending(c))
      /\ ~c.wants_status => before \o Pending(c) = <<>>
      /\ client # None => c = client
      /\ client = None => ~c.wants_status
      /\ c.wants_status \/ c.greeted => c = client
  <2>1. CASE dialled
    <3>1. /\ NewClient \in Client /\ NewClient.status_output = <<>>
          /\ NewClient.status_cursor = 0 /\ ~NewClient.status_overflowed
          /\ ~NewClient.wants_status /\ ~NewClient.greeted
      <4>1. <<>> \in Seq(Byte)
        OBVIOUS
      <4> QED BY <4>1 DEF NewClient, Client
    <3>2. Pending(NewClient) = <<>>
      BY <3>1 DEF Pending
    <3>3. ClientOK(NewClient)
      BY <3>1, <3>2, StreamAssumption DEF ClientOK
    <3>4. client = None /\ before = <<>> /\ OnTheWay = <<>>
      BY <1>0, <2>1, StreamTyped, ConcatEmptySeq DEF StreamInv
    <3>5. before \o Pending(NewClient) = <<>>
      BY <3>2, <3>4
    <3> HIDE DEF before
    <3> QED BY <2>1, <3>1, <3>3, <3>4, <3>5, NothingOnTheWay DEF Visited
  <2>2. CASE ~dialled
    <3>1. client # None
      BY <1>1, <2>2
    <3> QED BY <1>0, <2>2, <3>1, StreamTyped DEF StreamInv, Visited
  <2> QED BY <2>1, <2>2
<1> HIDE DEF before, c, frames
<1>4. /\ ClientOK(t)
      /\ Framed(before \o Pending(t)) /\ Ended(before \o Pending(t))
      /\ Begins(OnTheWay, before \o Pending(t))
      /\ c.wants_status => t.wants_status
      /\ t.wants_status => c.wants_status \/ hello
      /\ ~t.wants_status => before \o Pending(t) = <<>>
      /\ t.wants_status /\ ~c.wants_status /\ ~t.status_overflowed =>
           before \o Pending(t) # <<>> /\ (before \o Pending(t))[1].frame = Accepted
  <2>1. /\ before \in Seq(Byte) /\ hello \in BOOLEAN /\ frames \in Seq(Frame)
        /\ ClientOK(c) /\ ~c.status_overflowed
        /\ Framed(before \o Pending(c)) /\ Ended(before \o Pending(c))
        /\ ~c.wants_status => before \o Pending(c) = <<>>
    BY <1>0, <1>2, <1>3
  <2>2. /\ ClientOK(t)
        /\ Framed(before \o Pending(t)) /\ Ended(before \o Pending(t))
        /\ Begins(before \o Pending(c), before \o Pending(t))
        /\ c.wants_status => t.wants_status
        /\ t.wants_status => c.wants_status \/ hello
        /\ ~t.wants_status => before \o Pending(t) = <<>>
        /\ t.wants_status /\ ~c.wants_status /\ ~t.status_overflowed =>
             before \o Pending(t) # <<>> /\ (before \o Pending(t))[1].frame = Accepted
    BY <2>1, TurnedLemma
  <2> HIDE DEF t
  <2> QED BY <1>3, <2>2
<1> HIDE DEF t
<1>5. CASE t.status_overflowed
  <2>1. /\ client' = None /\ socket' = socket /\ decoder' = decoder /\ ~dialled' /\ ~hello'
        /\ OnTheWay' = before
    <3>1. client' = None /\ socket' = socket /\ decoder' = decoder /\ ~dialled' /\ ~hello'
      BY <1>1, <1>5
    <3>2. OnTheWay' = decoder \o socket \o <<>>
      BY <3>1 DEF OnTheWay
    <3> QED BY <1>0, <3>1, <3>2, ConcatEmptySeq DEF before
  <2>2. Begins(before, OnTheWay)
    <3>1. Pending(c) \in Seq(Byte)
      BY <1>3, PendingLemma DEF ClientOK
    <3> QED BY <1>0, <1>3, <3>1, BeginsLemma
  <2>3. Framed(before) /\ (before # <<>> => OnTheWay # <<>> /\ before[1] = OnTheWay[1])
    BY <1>0, <2>2, FramedPrefix DEF StreamInv
  <2>4. StreamTypeOK'
    BY <1>0, <1>1, <2>1 DEF StreamTypeOK
  <2>5. StreamInv'
    BY <1>0, <1>1, <2>1, <2>3 DEF StreamInv
  <2>6. StatusStep
    <3>1. CASE client # None
      <4>1. Status!IsPrefixOf(InFlight', InFlight)
        BY <1>0, <2>1, <2>2, InFlightLemma, FramesPrefix
      <4> QED BY <1>1, <2>1, <3>1, <4>1 DEF StatusStep, Status!Next, Status!GiveUp
    <3>2. CASE client = None
      <4>1. OnTheWay = before
        BY <1>0, <3>2, StreamTyped DEF before
      <4>2. InFlight' = InFlight
        BY <2>1, <4>1, InFlightLemma
      <4> QED BY <1>1, <2>1, <3>2, <4>2 DEF StatusStep
    <3> QED BY <3>1, <3>2
  <2>7. StreamOK' /\ StatusStep
    BY <2>4, <2>5, <2>6 DEF StreamOK
  <2> QED BY <1>1, <1>3, <2>1, <2>7 DEF c, before
<1>6. CASE ~t.status_overflowed
  <2> DEFINE w == Writable(t)
             written == SubSeq(Pending(t), 1, w)
  <2>1. /\ client' = Flushed(t) /\ socket' = socket \o written /\ ~dialled' /\ ~hello'
    BY <1>1, <1>6
  <2>2. /\ w \in 0..Len(Pending(t)) /\ written \in Seq(Byte) /\ Len(written) = w
        /\ Len(socket) + w <= SocketBytes
        /\ ClientOK(client') /\ client'.wants_status = t.wants_status
        /\ client'.greeted = t.greeted
        /\ client'.status_overflowed = t.status_overflowed
        /\ written \o Pending(client') = Pending(t)
    BY <1>0, <1>4, <2>1, FlushedLemma
  <2> HIDE DEF written, w
  <2>3. client' \in Client /\ client' # None /\ Pending(client') \in Seq(Byte)
        /\ Len(Pending(client')) = Len(client'.status_output) - client'.status_cursor
    BY <2>2, ClientAssumption, PendingLemma DEF ClientOK
  <2>4. OnTheWay' = before \o Pending(t)
    <3>1. OnTheWay' = decoder \o (socket \o written) \o Pending(client')
      BY <1>1, <2>1, <2>3 DEF OnTheWay, Pending
    <3>2. /\ decoder \in Seq(Byte) /\ socket \in Seq(Byte) /\ written \in Seq(Byte)
          /\ Pending(client') \in Seq(Byte)
      BY <1>0, <2>2, <2>3
    <3>3. decoder \o (socket \o written) \o Pending(client')
            = decoder \o socket \o (written \o Pending(client'))
      <4> DEFINE p == Pending(client')
      <4>1. p \in Seq(Byte)
        BY <3>2
      <4> HIDE DEF p
      <4>2. decoder \o (socket \o written) = (decoder \o socket) \o written
        BY <3>2, ConcatAssociative
      <4>3. ((decoder \o socket) \o written) \o p = (decoder \o socket) \o (written \o p)
        BY <1>0, <3>2, <4>1, ConcatAssociative DEF before
      <4> QED BY <4>2, <4>3 DEF p
    <3> QED BY <2>2, <3>1, <3>3 DEF before
  <2>5. socket' \in Seq(Byte) /\ Len(socket') <= SocketBytes
    BY <1>0, <2>1, <2>2, ConcatProperties
  <2>6. StreamTypeOK'
    BY <1>0, <1>1, <2>1, <2>2, <2>3, <2>5 DEF StreamTypeOK, ClientOK
  <2>7. before \o Pending(t) \in Seq(Byte)
    BY <1>0, <1>4, PendingLemma DEF ClientOK
  <2>8. ASSUME OnTheWay # <<>> PROVE OnTheWay' # <<>> /\ OnTheWay'[1] = OnTheWay[1]
    <3>1. 1 \in 1..Len(OnTheWay)
      BY <1>0, <2>8
    <3>2. Len(OnTheWay) <= Len(OnTheWay') /\ OnTheWay'[1] = OnTheWay[1]
      BY <1>4, <2>4, <3>1 DEF Begins
    <3> QED BY <2>4, <2>7, <3>1, <3>2
  <2>9. ASSUME ~accepted, OnTheWay' # <<>> PROVE OnTheWay'[1].frame = Accepted
    <3>1. CASE OnTheWay # <<>>
      BY <1>0, <2>8, <2>9, <3>1 DEF StreamInv
    <3>2. CASE OnTheWay = <<>>
      <4>1. t.wants_status
        BY <1>4, <2>4, <2>9
      <4>2. ~c.wants_status
        BY <1>0, <1>3, <2>9, <3>2 DEF StreamInv
      <4> QED BY <1>4, <1>6, <2>4, <4>1, <4>2
    <3> QED BY <3>1, <3>2
  <2>10. ASSUME ~accepted, t.wants_status PROVE OnTheWay' # <<>>
    <3>1. CASE c.wants_status
      <4>1. OnTheWay # <<>>
        BY <1>0, <1>3, <2>10, <3>1 DEF StreamInv
      <4> QED BY <2>8, <4>1
    <3>2. CASE ~c.wants_status
      BY <1>4, <1>6, <2>4, <2>10, <3>2
    <3> QED BY <3>1, <3>2
  <2>11. ASSUME reader = "connected"
         PROVE  decoder' = <<>> /\ socket' = <<>> /\ ~client'.wants_status
    <3>1. ~hello /\ decoder = <<>> /\ socket = <<>> /\ ~c.wants_status
      BY <1>0, <1>3, <2>11 DEF StreamInv
    <3>2. ~t.wants_status /\ before \o Pending(t) = <<>>
      BY <1>4, <3>1
    <3>3. Pending(t) = <<>> /\ Pending(t) \in Seq(Byte)
      <4>1. Pending(t) \in Seq(Byte)
        BY <1>4, PendingLemma DEF ClientOK
      <4> QED BY <1>0, <3>2, <4>1, ConcatSimplifications
    <3>4. written = <<>>
      BY <2>2, <2>3, <3>3, ConcatSimplifications
    <3>5. socket' = <<>>
      BY <2>1, <3>1, <3>4
    <3> QED BY <1>1, <2>2, <3>1, <3>2, <3>5
  <2>12. reader # "asleep"
    BY <1>0, <1>1 DEF StreamInv
  <2>13. StreamInv'
    BY <1>0, <1>1, <1>4, <1>6, <2>1, <2>2, <2>3, <2>4, <2>9, <2>10, <2>11, <2>12
       DEF StreamInv
  <2>14. StatusStep
    <3>1. Status!IsPrefixOf(InFlight, InFlight')
      BY <1>0, <1>4, <2>4, <2>7, InFlightLemma, FramesPrefix
    <3>2. client # None \/ InFlight = <<>>
      <4>1. client = None => OnTheWay = <<>>
        BY <1>0, <1>1, StreamTyped, ConcatEmptySeq DEF StreamInv
      <4> QED BY <4>1, InFlightLemma, NothingOnTheWay
    <3> QED BY <1>1, <2>3, <3>1, <3>2 DEF StatusStep, Status!Next, Status!Queue
  <2> QED BY <1>1, <1>3, <1>6, <2>2, <2>4, <2>6, <2>13, <2>14
            DEF StreamOK, c, t, frames, before
<1> QED BY <1>5, <1>6

\* The server drops the connection: what it had queued is lost, the rest is not.
LEMMA DroppedLemma ==
  ASSUME StreamOK, ServerDrops PROVE StreamOK' /\ StatusStep
<1>0. StreamTypeOK /\ StreamInv
  BY DEF StreamOK
<1>1. /\ client # None /\ client' = None /\ hello' = FALSE
      /\ UNCHANGED <<dialled, socket, reader, decoder, accepted, shared, connects>>
  BY DEF ServerDrops
<1> DEFINE before == decoder \o socket
<1>2. /\ before \in Seq(Byte) /\ OnTheWay \in Seq(Byte)
      /\ Pending(client) \in Seq(Byte) /\ OnTheWay = before \o Pending(client)
  BY <1>0, <1>1, StreamTyped
<1>3. OnTheWay' = before
  <2>1. OnTheWay' = before \o <<>>
    BY <1>1 DEF OnTheWay
  <2> HIDE DEF before
  <2> QED BY <1>2, <2>1, ConcatEmptySeq
<1> HIDE DEF before
<1>4. Begins(before, OnTheWay)
  BY <1>2, BeginsLemma
<1>5. Framed(before) /\ (before # <<>> => OnTheWay # <<>> /\ before[1] = OnTheWay[1])
  BY <1>0, <1>2, <1>4, FramedPrefix DEF StreamInv
<1>6. StreamTypeOK'
  BY <1>0, <1>1 DEF StreamTypeOK
<1>7. StreamInv'
  BY <1>0, <1>1, <1>3, <1>5 DEF StreamInv
<1>8. StatusStep
  <2>1. Status!IsPrefixOf(InFlight', InFlight)
    BY <1>2, <1>3, <1>4, InFlightLemma, FramesPrefix
  <2> QED BY <1>1, <2>1 DEF StatusStep, Status!Next, Status!GiveUp
<1> QED BY <1>6, <1>7, <1>8 DEF StreamOK

\* FrameQueue names what StatusFrame names.
LEMMA SameFrames ==
  /\ Status!BlankScreen = BlankScreen /\ Status!Accepted = Accepted
  /\ \A screen : Status!Disconnected(screen) = Disconnected(screen)
  /\ \A screen, frame : Status!Apply(screen, frame) = Apply(screen, frame)
<1>1. Status!BlankScreen = BlankScreen /\ Status!Accepted = Accepted
  BY DEF Status!BlankScreen, BlankScreen, Status!Accepted, Accepted
<1>2. ASSUME NEW screen PROVE Status!Disconnected(screen) = Disconnected(screen)
  BY DEF Status!Disconnected, Disconnected
<1>3. ASSUME NEW screen, NEW frame PROVE Status!Apply(screen, frame) = Apply(screen, frame)
  BY DEF Status!Apply, Apply
<1> QED BY <1>1, <1>2, <1>3

\* What a frame does to the screen.
LEMMA ApplyLemma ==
  ASSUME NEW screen \in Screen, NEW frame \in Frame
  PROVE  /\ Apply(screen, frame) \in Screen
         /\ screen.connected \/ frame = Accepted => Apply(screen, frame).connected
         /\ Disconnected(screen) \in Screen
<1>a. /\ Disconnected(screen) \in Screen
      /\ frame.kind \in {"HelloAccepted", "Layout", "MonitorRouting", "OutputState"}
      /\ frame = Accepted => frame.kind = "HelloAccepted"
      /\ frame.kind = "Layout" => frame.layout \in Layout
  <2>1. Disconnected(screen) \in Screen
    BY DEF Screen, Disconnected
  <2>2. CASE frame \in {Accepted, Routing, Output}
    BY <2>1, <2>2 DEF Accepted, Routing, Output
  <2>3. CASE \E layout \in Layout : frame = LayoutStatus(layout)
    BY <2>1, <2>3 DEF Accepted, LayoutStatus
  <2> QED BY <2>2, <2>3 DEF Frame
<1>1. CASE frame.kind = "HelloAccepted"
  <2>1. Apply(screen, frame) = [screen EXCEPT !.connected = TRUE]
    BY <1>1 DEF Apply
  <2> QED BY <1>a, <2>1 DEF Screen
<1>2. CASE frame.kind = "Layout"
  <2>1. Apply(screen, frame) = [screen EXCEPT !.layout = frame.layout]
    BY <1>2 DEF Apply
  <2> QED BY <1>a, <1>2, <2>1 DEF Screen
<1>3. CASE frame.kind = "MonitorRouting"
  <2>1. Apply(screen, frame) = [screen EXCEPT !.routing = TRUE]
    BY <1>3 DEF Apply
  <2> QED BY <1>a, <1>3, <2>1 DEF Screen
<1>4. CASE frame.kind = "OutputState"
  <2>1. Apply(screen, frame) = [screen EXCEPT !.output = TRUE]
    BY <1>4 DEF Apply
  <2> QED BY <1>a, <1>4, <2>1 DEF Screen
<1> QED BY <1>a, <1>1, <1>2, <1>3, <1>4

\* Only a layout changes the layout shown.
LEMMA KeepsLayout ==
  ASSUME NEW screen \in Screen, NEW frame \in Frame, frame.kind # "Layout"
  PROVE  Apply(screen, frame).layout = screen.layout
<1>1. frame.kind \in {"HelloAccepted", "MonitorRouting", "OutputState"}
  <2>1. CASE frame \in {Accepted, Routing, Output}
    BY <2>1 DEF Accepted, Routing, Output
  <2>2. CASE \E layout \in Layout : frame = LayoutStatus(layout)
    BY <2>2 DEF LayoutStatus
  <2> QED BY <2>1, <2>2 DEF Frame
<1>2. \E field \in {"connected", "routing", "output"} :
        Apply(screen, frame) = [screen EXCEPT ![field] = TRUE]
  BY <1>1 DEF Apply
<1> QED BY <1>2 DEF Screen

\* The reader takes frames from the front, one by one; it never meets a frame
\* out of order or torn.
LEMMA DecodedLemma ==
  ASSUME StreamOK, DecodeFrame PROVE StreamOK' /\ Status!Deliver
<1> DEFINE bytes == OnTheWay
           rest == SubSeq(decoder, FrameBytes + 1, Len(decoder))
           after == socket \o (IF client = None THEN <<>> ELSE Pending(client))
           F == FrameBytes
<1>0. /\ StreamTypeOK /\ StreamInv /\ decoder \in Seq(Byte) /\ socket \in Seq(Byte)
      /\ F \in Nat /\ F >= 1 /\ reader = "decoding" /\ shared \in Screen
      /\ Len(decoder) >= F /\ accepted \in BOOLEAN
  BY StreamAssumption DEF StreamOK, StreamTypeOK, DecodeFrame, Complete
<1>1. after \in Seq(Byte)
  <2>1. CASE client = None
    BY <1>0, <2>1, ConcatEmptySeq
  <2>2. CASE client # None
    BY <1>0, <2>2, StreamTyped
  <2> QED BY <2>1, <2>2
<1>2. bytes \in Seq(Byte) /\ bytes = decoder \o after
  <2>1. CASE client = None
    BY <1>0, <2>1, StreamTyped, ConcatEmptySeq
  <2>2. CASE client # None
    <3> DEFINE p == Pending(client)
    <3>1. p \in Seq(Byte) /\ bytes = decoder \o socket \o p /\ after = socket \o p
      BY <1>0, <2>2, StreamTyped
    <3> HIDE DEF p, bytes, after
    <3>2. decoder \o socket \o p = decoder \o (socket \o p)
      BY <1>0, <3>1, ConcatAssociative
    <3> QED BY <1>0, <3>1, <3>2, ConcatProperties
  <2> QED BY <2>1, <2>2
<1>3. /\ Framed(bytes)
      /\ client # None => Ended(bytes) /\ ~client.status_overflowed
      /\ client # None /\ ~client.wants_status => bytes = <<>>
      /\ ~accepted /\ bytes # <<>> => bytes[1].frame = Accepted
      /\ accepted => shared.connected
      /\ dialled => decoder = <<>>
  BY <1>0 DEF StreamInv
<1> HIDE DEF bytes, after
<1>4. /\ Len(bytes) = Len(decoder) + Len(after) /\ Len(bytes) >= F
      /\ \A i \in 1..Len(decoder) : bytes[i] = decoder[i]
      /\ \A i \in 1..Len(after) : bytes[Len(decoder) + i] = after[i]
      /\ bytes # <<>>
  <2>1. /\ Len(bytes) = Len(decoder) + Len(after) /\ Len(after) \in Nat
        /\ \A i \in 1..(Len(decoder) + Len(after)) :
             bytes[i] = IF i <= Len(decoder) THEN decoder[i] ELSE after[i - Len(decoder)]
    BY <1>0, <1>1, <1>2, ConcatProperties
  <2>2. ASSUME NEW i \in 1..Len(after) PROVE bytes[Len(decoder) + i] = after[i]
    <3>1. /\ Len(decoder) + i \in 1..(Len(decoder) + Len(after))
          /\ ~(Len(decoder) + i <= Len(decoder)) /\ (Len(decoder) + i) - Len(decoder) = i
      BY <1>0, <2>1
    <3> QED BY <2>1, <3>1
  <2>3. ASSUME NEW i \in 1..Len(decoder) PROVE bytes[i] = decoder[i]
    BY <1>0, <2>1
  <2>4. Len(bytes) >= F
    BY <1>0, <2>1
  <2> QED BY <1>0, <1>2, <2>1, <2>2, <2>3, <2>4
<1>5. /\ \A i \in 1..F : bytes[i] = [frame |-> bytes[1].frame, place |-> i]
      /\ Framed(SubSeq(bytes, F + 1, Len(bytes)))
  BY <1>2, <1>3, <1>4, FirstFrame
<1>6. /\ bytes[1] = decoder[1] /\ decoder[1].frame \in Frame /\ InSync
  <2>1. 1 \in 1..Len(decoder) /\ \A i \in 1..F : i \in 1..Len(decoder)
    BY <1>0
  <2>2. decoder[1] \in Byte /\ bytes[1] = decoder[1]
    BY <1>0, <1>4, <2>1
  <2> QED BY <1>4, <1>5, <2>1, <2>2 DEF InSync, Byte
<1>7. /\ accepted' = TRUE /\ shared' = Apply(shared, decoder[1].frame)
      /\ decoder' = rest
      /\ UNCHANGED <<client, dialled, hello, socket, reader, connects>>
      /\ shared.connected \/ decoder[1].frame = Accepted
  BY <1>3, <1>4, <1>6 DEF DecodeFrame
<1>8. OnTheWay' = SubSeq(bytes, F + 1, Len(bytes)) /\ rest \in Seq(Byte)
  <2> DEFINE tail == SubSeq(bytes, F + 1, Len(bytes))
  <2>1. /\ rest \in Seq(Byte) /\ Len(rest) = Len(decoder) - F
        /\ \A i \in 1..Len(rest) : rest[i] = decoder[i + F]
    BY <1>0
  <2>2. /\ tail \in Seq(Byte) /\ Len(tail) = Len(bytes) - F
        /\ \A i \in 1..Len(tail) : tail[i] = bytes[i + F]
    BY <1>0, <1>2, <1>4
  <2> HIDE DEF rest, tail
  <2>3. rest \o after \in Seq(Byte) /\ Len(rest \o after) = Len(tail)
    <3>1. rest \o after \in Seq(Byte) /\ Len(rest \o after) = Len(rest) + Len(after)
      BY <1>1, <2>1, ConcatProperties
    <3>2. Len(rest) + Len(after) = Len(tail)
      <4>1. Len(decoder) \in Nat /\ Len(after) \in Nat
        BY <1>0, <1>1
      <4> HIDE DEF F
      <4> QED BY <1>0, <1>4, <2>1, <2>2, <4>1
    <3> QED BY <3>1, <3>2
  <2>4. ASSUME NEW i \in 1..Len(tail) PROVE (rest \o after)[i] = tail[i]
    <3>1. i \in Nat /\ Len(rest) \in Nat /\ Len(after) \in Nat
          /\ i \in 1..(Len(rest) + Len(after))
      BY <1>0, <1>1, <1>4, <2>1, <2>2
    <3>2. CASE i <= Len(rest)
      <4>1. i \in 1..Len(rest) /\ i + F \in 1..Len(decoder)
        BY <1>0, <2>1, <3>1, <3>2
      <4>2. (rest \o after)[i] = rest[i]
        BY <1>1, <2>1, <3>1, <3>2, ConcatProperties
      <4> QED BY <1>4, <2>1, <2>2, <4>1, <4>2
    <3>3. CASE i > Len(rest)
      <4>1. /\ ~(i <= Len(rest)) /\ i - Len(rest) \in 1..Len(after)
            /\ Len(decoder) + (i - Len(rest)) = i + F
        BY <1>0, <2>1, <3>1, <3>3
      <4>2. (rest \o after)[i] = after[i - Len(rest)]
        BY <1>1, <2>1, <3>1, <4>1, ConcatProperties
      <4>3. bytes[Len(decoder) + (i - Len(rest))] = after[i - Len(rest)]
        BY <1>4, <4>1
      <4> QED BY <2>2, <4>1, <4>2, <4>3
    <3>4. i <= Len(rest) \/ i > Len(rest)
      BY <3>1
    <3> QED BY <3>2, <3>3, <3>4
  <2>5. rest \o after = tail
    BY <2>2, <2>3, <2>4, SeqEqual
  <2>6. OnTheWay' = rest \o after
    <3>1. CASE client = None
      <4>1. OnTheWay' = rest \o socket \o <<>> /\ after = socket
        BY <1>0, <1>7, <3>1, ConcatEmptySeq DEF OnTheWay, after
      <4> QED BY <1>0, <1>1, <2>1, <4>1, ConcatEmptySeq, ConcatProperties
    <3>2. CASE client # None
      <4>1. OnTheWay' = rest \o socket \o Pending(client) /\ after = socket \o Pending(client)
        BY <1>7, <3>2 DEF OnTheWay, after
      <4>2. Pending(client) \in Seq(Byte)
        BY <1>0, <3>2, StreamTyped
      <4> DEFINE p == Pending(client)
      <4>3. p \in Seq(Byte) /\ OnTheWay' = rest \o socket \o p /\ after = socket \o p
        BY <4>1, <4>2
      <4> HIDE DEF p, after
      <4>4. (rest \o socket) \o p = rest \o (socket \o p)
        <5>1. rest \in Seq(Byte) /\ socket \in Seq(Byte) /\ p \in Seq(Byte)
          BY <1>0, <2>1, <4>3
        <5> QED BY <5>1, ConcatAssociative
      <4> QED BY <4>3, <4>4
    <3> QED BY <3>1, <3>2
  <2> QED BY <2>1, <2>5, <2>6 DEF tail
<1> HIDE DEF rest, F
<1>9. shared' \in Screen /\ shared'.connected
  BY <1>0, <1>6, <1>7, ApplyLemma
<1>10. Ended(bytes) => Ended(OnTheWay')
  <2> SUFFICES ASSUME Ended(bytes), OnTheWay' # <<>>
               PROVE  OnTheWay'[Len(OnTheWay')].place = FrameBytes
    BY DEF Ended
  <2>1. /\ OnTheWay' \in Seq(Byte) /\ Len(OnTheWay') = Len(bytes) - F
        /\ \A i \in 1..Len(OnTheWay') : OnTheWay'[i] = bytes[i + F]
    BY <1>0, <1>2, <1>4, <1>8
  <2>2. Len(OnTheWay') \in 1..Len(OnTheWay') /\ Len(OnTheWay') + F = Len(bytes)
    BY <1>0, <1>2, <2>1
  <2>3. OnTheWay'[Len(OnTheWay')] = bytes[Len(bytes)]
    BY <2>1, <2>2
  <2> QED BY <1>4, <2>3 DEF Ended
<1>11. StreamTypeOK'
  BY <1>0, <1>7, <1>8, <1>9 DEF StreamTypeOK
<1>12. StreamInv'
  <2>1. ~dialled
    BY <1>0, <1>3
  <2>2. ~(client # None /\ ~client.wants_status)
    BY <1>3, <1>4
  <2>3. /\ UNCHANGED <<client, dialled, hello, socket, reader>> /\ accepted'
        /\ Framed(OnTheWay') /\ (client # None => Ended(OnTheWay'))
    BY <1>3, <1>5, <1>7, <1>8, <1>10
  <2> QED BY <1>0, <1>3, <1>9, <2>1, <2>2, <2>3 DEF StreamInv
<1>13. Status!Deliver
  <2>1. /\ FramesOf(bytes) # <<>> /\ Head(FramesOf(bytes)) = decoder[1].frame
        /\ FramesOf(OnTheWay') = Tail(FramesOf(bytes))
    BY <1>2, <1>4, <1>6, <1>8, FramesTail DEF F
  <2>2. InFlight = FramesOf(bytes) /\ InFlight' = FramesOf(OnTheWay')
    BY InFlightLemma DEF bytes
  <2> QED BY <1>7, <2>1, <2>2, SameFrames DEF Status!Deliver
<1> QED BY <1>11, <1>12, <1>13 DEF StreamOK

\* Reading moves bytes from the socket to the decoder.
LEMMA ReadLemma ==
  ASSUME StreamOK, ReadBytes
  PROVE  StreamOK' /\ UNCHANGED <<client # None, InFlight, shared>>
<1>0. /\ StreamTypeOK /\ StreamInv /\ decoder \in Seq(Byte) /\ socket \in Seq(Byte)
      /\ Len(socket) <= SocketBytes /\ SocketBytes \in Nat
      /\ reader = "reading" /\ reader' = "decoding" /\ socket # <<>>
      /\ UNCHANGED <<client, dialled, hello, accepted, shared, connects>>
  BY StreamAssumption DEF StreamOK, StreamTypeOK, ReadBytes
<1>1. PICK n \in 1..Len(socket) : /\ decoder' = decoder \o SubSeq(socket, 1, n)
                                  /\ socket' = SubSeq(socket, n + 1, Len(socket))
  BY DEF ReadBytes
<1> DEFINE u == SubSeq(socket, 1, n)
           v == SubSeq(socket, n + 1, Len(socket))
<1>2. /\ u \in Seq(Byte) /\ v \in Seq(Byte) /\ Len(v) <= SocketBytes
  <2>1. Len(v) = Len(socket) - n
    BY <1>0
  <2> QED BY <1>0, <2>1
<1>3. u \o v = socket
  <2>1. 1 \in 1..(Len(socket) + 1) /\ n \in (1 - 1)..Len(socket)
        /\ Len(socket) \in n..Len(socket)
    BY <1>0
  <2>2. u \o v = SubSeq(socket, 1, Len(socket))
    BY <1>0, <2>1, ConcatAdjacentSubSeq
  <2> QED BY <1>0, <2>2, SubSeqFull
<1>4. decoder' = decoder \o u /\ socket' = v
  BY <1>1
<1> HIDE DEF u, v
<1>5. decoder' \o socket' = decoder \o socket
  <2>1. (decoder \o u) \o v = decoder \o (u \o v)
    BY <1>0, <1>2, ConcatAssociative
  <2> QED BY <1>3, <1>4, <2>1
<1>6. OnTheWay' = OnTheWay
  BY <1>0, <1>5 DEF OnTheWay
<1>7. StreamTypeOK'
  <2>1. decoder' \in Seq(Byte) /\ socket' \in Seq(Byte) /\ Len(socket') <= SocketBytes
    BY <1>0, <1>2, <1>4
  <2> QED BY <1>0, <2>1 DEF StreamTypeOK
<1>8. StreamInv'
  BY <1>0, <1>6 DEF StreamInv
<1>9. UNCHANGED <<client # None, InFlight, shared>>
  BY <1>0, <1>6, InFlightLemma
<1> QED BY <1>7, <1>8, <1>9 DEF StreamOK

\* The reader's other steps: nothing is on the way when it connects, and all
\* that is on the way is gone when it leaves a connection the server has closed.
LEMMA ReaderLemma ==
  ASSUME StreamOK, Reader
  PROVE  /\ StreamOK' /\ StatusStep
         /\ UNCHANGED client
         /\ client # None => Status!Deliver \/ UNCHANGED <<InFlight, shared>>
<1>0. /\ StreamTypeOK /\ StreamInv /\ shared \in Screen
  BY DEF StreamOK, StreamTypeOK
<1>a. <<>> \in Seq(Byte) /\ Len(<<>>) = 0 /\ 0 <= SocketBytes
  BY StreamAssumption
<1>1. CASE Connect
  <2>1. /\ reader = "asleep" /\ client = None /\ ~dialled /\ decoder = <<>> /\ socket = <<>>
        /\ ~hello
    BY <1>0, <1>1 DEF Connect, StreamInv
  <2>2. /\ reader' = "connected" /\ dialled' = TRUE /\ decoder' = <<>> /\ socket' = <<>>
        /\ accepted' = FALSE /\ UNCHANGED <<client, hello, shared>>
    BY <1>1 DEF Connect
  <2>3. OnTheWay = <<>> /\ OnTheWay' = <<>>
    BY <2>1, <2>2, <1>a, ConcatEmptySeq DEF OnTheWay
  <2>4. StreamTypeOK'
    <3>1. connects' \in 0..MaxConnects
      BY <1>0, <1>1, StreamAssumption DEF Connect, StreamTypeOK
    <3> QED BY <1>0, <2>1, <2>2, <3>1, <1>a DEF StreamTypeOK
  <2>5. StreamInv'
    BY <2>1, <2>2, <2>3, NothingOnTheWay DEF StreamInv
  <2>6. StatusStep
    BY <2>2, <2>3, InFlightLemma DEF StatusStep
  <2> QED BY <2>1, <2>2, <2>4, <2>5, <2>6 DEF StreamOK
<1>2. CASE SendHello
  <2>1. /\ reader = "connected" /\ UNCHANGED <<client, dialled, socket, decoder, accepted,
                                               shared, connects>>
        /\ \/ (dialled \/ client # None) /\ reader' = "reading" /\ hello' = TRUE
           \/ ~dialled /\ client = None /\ reader' = "asleep" /\ UNCHANGED hello
    BY <1>2 DEF SendHello
  <2>2. OnTheWay' = OnTheWay
    BY <2>1 DEF OnTheWay
  <2>3. StreamTypeOK'
    BY <1>0, <2>1 DEF StreamTypeOK
  <2>4. StreamInv'
    BY <1>0, <2>1, <2>2 DEF StreamInv
  <2>5. StatusStep
    BY <2>1, <2>2, InFlightLemma DEF StatusStep
  <2> QED BY <2>1, <2>2, <2>3, <2>4, <2>5, InFlightLemma DEF StreamOK
<1>3. CASE ReadBytes
  BY <1>3, ReadLemma DEF ReadBytes, StatusStep
<1>4. CASE ReadEnd
  <2>1. /\ client = None /\ ~dialled /\ reader' = "asleep" /\ accepted' = FALSE
        /\ shared' = Disconnected(shared) /\ decoder' = <<>> /\ socket' = <<>>
        /\ UNCHANGED <<client, dialled, hello, connects>>
    BY <1>4 DEF ReadEnd, Leave
  <2>2. OnTheWay' = <<>>
    BY <2>1, <1>a, ConcatEmptySeq DEF OnTheWay
  <2>3. shared' \in Screen
    BY <1>0, <2>1 DEF Screen, Disconnected
  <2>4. StreamTypeOK'
    BY <1>0, <2>1, <2>3, <1>a DEF StreamTypeOK
  <2>5. StreamInv'
    BY <1>0, <2>1, <2>2, NothingOnTheWay DEF StreamInv
  <2>6. InFlight' = <<>>
    BY <2>2, InFlightLemma, NothingOnTheWay
  <2>7. StatusStep
    BY <2>1, <2>6, SameFrames DEF StatusStep, Status!Next, Status!Break
  <2> QED BY <2>1, <2>4, <2>5, <2>7 DEF StreamOK
<1>5. CASE DecodeNothing
  <2>1. /\ reader = "decoding" /\ reader' = "reading"
        /\ UNCHANGED <<client, dialled, hello, socket, decoder, accepted, shared, connects>>
    BY <1>5 DEF DecodeNothing
  <2>2. OnTheWay' = OnTheWay
    BY <2>1 DEF OnTheWay
  <2>3. StreamTypeOK' /\ StreamInv'
    BY <1>0, <2>1, <2>2 DEF StreamTypeOK, StreamInv
  <2>4. StatusStep
    BY <2>1, <2>2, InFlightLemma DEF StatusStep
  <2> QED BY <2>1, <2>2, <2>3, <2>4, InFlightLemma DEF StreamOK
<1>6. CASE DecodeFrame
  <2>1. Status!Deliver
    BY <1>6, DecodedLemma
  <2>2. StatusStep
    BY <2>1 DEF StatusStep, Status!Next
  <2>3. UNCHANGED client
    BY <1>6 DEF DecodeFrame, Leave
  <2> QED BY <1>6, <2>1, <2>2, <2>3, DecodedLemma
<1> QED BY <1>1, <1>2, <1>3, <1>4, <1>5, <1>6 DEF Reader

-----------------------------------------------------------------------------
(***************************************************************************)
(* Which layout an observer is heading for.                                *)
(***************************************************************************)
\* A byte's place tells where its frame begins.
LEMMA PlaceLemma ==
  ASSUME NEW bytes \in Seq(Byte), Framed(bytes), NEW i \in 1..Len(bytes)
  PROVE  \E q \in Nat : i = q * FrameBytes + bytes[i].place
<1> DEFINE F == FrameBytes
           P(n) == \E q \in Nat : n = q * F + bytes[n].place
           T == {n \in 1..Len(bytes) : ~P(n)}
<1>0. F \in Nat /\ F >= 1 /\ Len(bytes) \in Nat
  BY StreamAssumption
<1>1. ASSUME T # {} PROVE FALSE
  <2>1. T \subseteq Nat /\ T \subseteq 1..Len(bytes)
        /\ \A n \in 1..Len(bytes) : n \in T <=> ~P(n)
    OBVIOUS
  <2> HIDE DEF T, P
  <2>2. PICK n \in T : \A m \in T : n <= m
    BY <1>1, <2>1, LeastNatural
  <2>3. n # 1
    <3>1. (1 \in 1..Len(bytes) /\ bytes[1].place = 1) \/ n # 1
      BY <2>1, <2>2 DEF Framed
    <3>2. ASSUME bytes[1].place = 1 PROVE P(1)
      <4>1. 0 \in Nat /\ 1 = 0 * F + bytes[1].place
        BY <1>0, <3>2
      <4> QED BY <4>1 DEF P
    <3> QED BY <2>1, <2>2, <3>1, <3>2
  <2>4. n - 1 \in 1..(Len(bytes) - 1) /\ n - 1 \in 1..Len(bytes) /\ (n - 1) + 1 = n
        /\ ~(n <= n - 1)
    BY <1>0, <2>1, <2>2, <2>3
  <2>5. P(n - 1)
    BY <2>1, <2>2, <2>4
  <2>6. PICK q \in Nat : n - 1 = q * F + bytes[n - 1].place
    BY <2>5 DEF P
  <2>7. bytes[n - 1] \in Byte /\ bytes[n - 1].place \in Nat
    <3>1. bytes[n - 1] \in Byte
      BY <2>4
    <3> QED BY <1>0, <3>1 DEF Byte
  <2>8. CASE bytes[n - 1].place = F
    <3>1. bytes[n].place = 1
      BY <2>4, <2>8 DEF Framed
    <3>2. q + 1 \in Nat /\ (q + 1) * F = q * F + F /\ q * F \in Nat
      BY <1>0
    <3>3. n = (q + 1) * F + bytes[n].place
      BY <1>0, <2>1, <2>2, <2>6, <2>8, <3>1, <3>2
    <3> QED BY <2>1, <2>2, <3>2, <3>3 DEF P
  <2>9. CASE bytes[n - 1].place # F
    <3>1. bytes[n] = [frame |-> bytes[n - 1].frame, place |-> bytes[n - 1].place + 1]
      BY <2>4, <2>9 DEF Framed
    <3>2. bytes[n].place = bytes[n - 1].place + 1 /\ q * F \in Nat
      BY <1>0, <3>1
    <3>3. n = q * F + bytes[n].place
      <4> DEFINE p == q * F
      <4>1. n \in Nat /\ p \in Nat /\ n - 1 = p + bytes[n - 1].place
        BY <2>1, <2>2, <2>6, <3>2
      <4> DEFINE x == bytes[n - 1].place
                 y == bytes[n].place
      <4>2. x \in Nat /\ y = x + 1 /\ n - 1 = p + x
        BY <2>7, <3>2, <4>1
      <4> HIDE DEF p, x, y
      <4>3. n = p + y
        BY <4>1, <4>2
      <4> QED BY <4>3 DEF p, y
    <3> QED BY <2>1, <2>2, <3>3 DEF P
  <2> QED BY <2>8, <2>9
<1>2. P(i)
  BY <1>1
<1> QED BY <1>2

\* Bytes that end with a frame are whole frames.
LEMMA WholeFrames ==
  ASSUME NEW bytes \in Seq(Byte), Framed(bytes), Ended(bytes)
  PROVE  Len(bytes) = Frames(Len(bytes)) * FrameBytes
<1> DEFINE F == FrameBytes
           n == Len(bytes)
<1>0. F \in Nat /\ F >= 1 /\ n \in Nat
  BY StreamAssumption
<1>1. \E k \in Nat : n = k * F
  <2>1. CASE bytes = <<>>
    <3>1. n = 0 * F /\ 0 \in Nat
      BY <1>0, <2>1
    <3> QED BY <3>1
  <2>2. CASE bytes # <<>>
    <3>1. n \in 1..n /\ bytes[n].place = F
      BY <1>0, <2>2 DEF Ended
    <3>2. PICK q \in Nat : n = q * F + F
      BY <3>1, PlaceLemma
    <3>3. (q + 1) * F = q * F + F /\ q + 1 \in Nat
      BY <1>0
    <3> QED BY <3>2, <3>3
  <2> QED BY <2>1, <2>2
<1>2. PICK k \in Nat : n = k * F
  BY <1>1
<1> HIDE DEF n
<1>3. n \div F = k
  BY <1>0, <1>2
<1> QED BY <1>2, <1>3 DEF Frames, n

\* A frame queued behind whole frames is the last of them.
LEMMA FramesAppend ==
  ASSUME NEW s \in Seq(Byte), Framed(s), Ended(s), NEW frame \in Frame
  PROVE  FramesOf(s \o Bytes(frame)) = Append(FramesOf(s), frame)
<1> DEFINE F == FrameBytes
           b == Bytes(frame)
           t == s \o b
           m == Len(s)
           k == Frames(m)
<1>0. /\ F \in Nat /\ F >= 1 /\ b \in Seq(Byte) /\ Len(b) = F /\ b[1].frame = frame
  BY BytesLemma, StreamAssumption
<1>1. m = k * F /\ m \in Nat /\ k \in Nat
  BY WholeFrames, FramesLemma
<1> HIDE DEF b
<1>2. /\ t \in Seq(Byte) /\ Len(t) = m + F /\ m + F \in Nat
      /\ \A i \in 1..m : t[i] = s[i]
      /\ t[m + 1] = b[1]
  BY <1>0
<1> HIDE DEF t, m, F
<1>3. Frames(m + F) = k + 1
  <2>1. Frames(m + F) \in Nat /\ Frames((m + F) - F) = Frames(m + F) - 1
    BY <1>0, <1>1, <1>2, FramesLemma DEF F
  <2>2. (m + F) - F = m
    BY <1>0, <1>1
  <2> QED BY <1>1, <2>1, <2>2
<1> HIDE DEF k
<1>4. FramesOf(t) \in Seq(Frame) /\ Len(FramesOf(t)) = k + 1
  BY <1>2, <1>3, FramesOfLemma
<1>5. FramesOf(s) \in Seq(Frame) /\ Len(FramesOf(s)) = k
  BY FramesOfLemma DEF k, m
<1>6. ASSUME NEW i \in 1..k PROVE FramesOf(t)[i] = FramesOf(s)[i]
  <2>1. (i - 1) * F + 1 \in 1..m
    BY <1>1, FramesLemma DEF k, F
  <2>2. t[(i - 1) * F + 1] = s[(i - 1) * F + 1]
    BY <1>2, <2>1
  <2>3. i \in 1..(k + 1)
    BY <1>1
  <2>4. FramesOf(t)[i] = t[(i - 1) * F + 1].frame
    BY <1>2, <1>3, <2>3 DEF FramesOf, F
  <2>5. FramesOf(s)[i] = s[(i - 1) * F + 1].frame
    BY DEF FramesOf, F, k, m
  <2> QED BY <2>2, <2>4, <2>5
<1>7. FramesOf(t)[k + 1] = frame
  <2>1. k + 1 \in 1..(k + 1) /\ ((k + 1) - 1) * F + 1 = m + 1
    BY <1>0, <1>1
  <2> QED BY <1>0, <1>2, <1>3, <2>1 DEF FramesOf, F
<1>8. /\ Append(FramesOf(s), frame) \in Seq(Frame) /\ Len(Append(FramesOf(s), frame)) = k + 1
      /\ \A i \in 1..k : Append(FramesOf(s), frame)[i] = FramesOf(s)[i]
      /\ Append(FramesOf(s), frame)[k + 1] = frame
  BY <1>1, <1>5
<1>9. ASSUME NEW i \in 1..(k + 1) PROVE FramesOf(t)[i] = Append(FramesOf(s), frame)[i]
  <2>1. i \in 1..k \/ i = k + 1
    BY <1>1
  <2> QED BY <1>6, <1>7, <1>8, <2>1
<1>10. FramesOf(t) = Append(FramesOf(s), frame)
  BY <1>4, <1>8, <1>9, SeqEqual
<1> QED BY <1>10 DEF t, b

\* A layout queued is the one headed for; another frame changes nothing.
LEMMA HeadsForAppend ==
  ASSUME NEW frames \in Seq(Frame), NEW frame \in Frame, NEW shown, NEW layout \in Layout
  PROVE  /\ frame = LayoutStatus(layout) => HeadsFor(Append(frames, frame), shown, layout)
         /\ HeadsFor(frames, shown, layout) /\ frame.kind # "Layout"
              => HeadsFor(Append(frames, frame), shown, layout)
<1> DEFINE n == Len(frames)
           t == Append(frames, frame)
<1>1. /\ n \in Nat /\ Len(t) = n + 1 /\ t[n + 1] = frame
      /\ \A i \in 1..n : t[i] = frames[i]
  OBVIOUS
<1>2. \A i : i \in 1..(n + 1) <=> i \in 1..n \/ i = n + 1
  BY <1>1
<1> HIDE DEF n, t
<1>3. ASSUME frame = LayoutStatus(layout) PROVE HeadsFor(t, shown, layout)
  <2>1. n + 1 \in 1..Len(t) /\ \A j : j \notin ((n + 1) + 1)..Len(t)
    BY <1>1
  <2> QED BY <1>1, <1>3, <2>1 DEF HeadsFor
<1>4. ASSUME HeadsFor(frames, shown, layout), frame.kind # "Layout"
      PROVE  HeadsFor(t, shown, layout)
  <2>1. CASE shown = layout /\ \A i \in 1..n : frames[i].kind # "Layout"
    BY <1>1, <1>2, <1>4, <2>1 DEF HeadsFor
  <2>2. ASSUME NEW i \in 1..n, frames[i] = LayoutStatus(layout),
               \A j \in (i + 1)..n : frames[j].kind # "Layout"
        PROVE  HeadsFor(t, shown, layout)
    <3>1. i \in 1..Len(t) /\ t[i] = LayoutStatus(layout)
      BY <1>1, <2>2
    <3>2. ASSUME NEW j \in (i + 1)..Len(t) PROVE t[j].kind # "Layout"
      <4>1. (j \in (i + 1)..n /\ j \in 1..n) \/ j = n + 1
        BY <1>1, <2>2
      <4> QED BY <1>1, <1>4, <2>2, <4>1
    <3> QED BY <3>1, <3>2 DEF HeadsFor
  <2> QED BY <1>4, <2>1, <2>2 DEF HeadsFor, n
<1> QED BY <1>3, <1>4 DEF t

\* A frame shown leaves the rest of the way.
LEMMA HeadsForTail ==
  ASSUME NEW frames \in Seq(Frame), frames # <<>>, NEW screen \in Screen,
         NEW layout \in Layout, HeadsFor(frames, screen.layout, layout)
  PROVE  HeadsFor(Tail(frames), Apply(screen, Head(frames)).layout, layout)
<1> DEFINE n == Len(frames)
           t == Tail(frames)
           shown == Apply(screen, Head(frames)).layout
<1>1. /\ n \in Nat /\ n >= 1 /\ t \in Seq(Frame) /\ Len(t) = n - 1
      /\ \A i \in 1..(n - 1) : t[i] = frames[i + 1]
      /\ Head(frames) = frames[1] /\ Head(frames) \in Frame
  BY HeadTailProperties
<1>2. /\ Head(frames) = LayoutStatus(layout) => shown = layout
      /\ Head(frames).kind # "Layout" => shown = screen.layout
  <2>1. ASSUME Head(frames) = LayoutStatus(layout) PROVE shown = layout
    <3>1. Head(frames).kind = "Layout" /\ Head(frames).layout = layout
      BY <2>1 DEF LayoutStatus
    <3>2. Apply(screen, Head(frames)) = [screen EXCEPT !.layout = layout]
      BY <3>1 DEF Apply
    <3> QED BY <3>2 DEF Screen
  <2>2. ASSUME Head(frames).kind # "Layout" PROVE shown = screen.layout
    BY <1>1, <2>2, KeepsLayout
  <2> QED BY <2>1, <2>2
<1> HIDE DEF n, t, shown
<1>3. ASSUME screen.layout = layout, \A i \in 1..n : frames[i].kind # "Layout"
      PROVE  HeadsFor(t, shown, layout)
  <2>1. 1 \in 1..n /\ \A i \in 1..(n - 1) : i + 1 \in 1..n
    BY <1>1
  <2> QED BY <1>1, <1>2, <1>3, <2>1 DEF HeadsFor
<1>4. ASSUME NEW i \in 1..n, frames[i] = LayoutStatus(layout),
             \A j \in (i + 1)..n : frames[j].kind # "Layout"
      PROVE  HeadsFor(t, shown, layout)
  <2>1. CASE i = 1
    <3>1. shown = layout
      BY <1>1, <1>2, <1>4, <2>1
    <3>2. \A j \in 1..(n - 1) : j + 1 \in (i + 1)..n
      BY <1>1, <2>1
    <3> QED BY <1>1, <1>4, <3>1, <3>2 DEF HeadsFor
  <2>2. CASE i # 1
    <3>1. i - 1 \in 1..(n - 1) /\ (i - 1) + 1 = i
      BY <1>1, <2>2
    <3>2. t[i - 1] = LayoutStatus(layout)
      BY <1>1, <1>4, <3>1
    <3>3. ASSUME NEW j \in ((i - 1) + 1)..(n - 1) PROVE t[j].kind # "Layout"
      <4>1. j \in 1..(n - 1) /\ j + 1 \in (i + 1)..n
        BY <1>1
      <4> QED BY <1>1, <1>4, <4>1
    <3> QED BY <1>1, <3>1, <3>2, <3>3 DEF HeadsFor
  <2> QED BY <2>1, <2>2
<1> QED BY <1>3, <1>4 DEF HeadsFor, n, t, shown

\* What c can become by queueing frames after which it heads for layout.
Telling(before, c, shown, layout) ==
  {d \in Behind(before, c) :
     /\ d.greeted = c.greeted
     /\ d.status_overflowed \/ HeadsFor(FramesOf(before \o Pending(d)), shown, layout)}

LEMMA TellLemma ==
  ASSUME NEW before \in Seq(Byte), NEW c, ClientOK(c), NEW d \in Behind(before, c),
         d.greeted = c.greeted, NEW shown, NEW layout \in Layout, NEW frame \in Frame,
         \/ frame = LayoutStatus(layout)
         \/ d \in Telling(before, c, shown, layout) /\ frame.kind # "Layout"
  PROVE  QueueFrame(d, frame) \in Telling(before, c, shown, layout)
<1> DEFINE n == QueueFrame(d, frame)
<1>1. /\ n \in Behind(before, c)
      /\ n.status_overflowed \/ Pending(n) = Pending(d) \o Bytes(frame)
      /\ n.greeted = c.greeted
      /\ d.status_overflowed => n.status_overflowed
  BY QueueFrameLemma
<1> HIDE DEF n
<1>2. ASSUME ~n.status_overflowed
      PROVE  HeadsFor(FramesOf(before \o Pending(n)), shown, layout)
  <2>1. Pending(d) \in Seq(Byte) /\ before \o Pending(d) \in Seq(Byte)
    BY PendingLemma DEF Behind, ClientOK
  <2>2. Bytes(frame) \in Seq(Byte) /\ Pending(n) = Pending(d) \o Bytes(frame)
    BY <1>1, <1>2, BytesLemma
  <2>3. before \o Pending(n) = (before \o Pending(d)) \o Bytes(frame)
    BY <2>1, <2>2, ConcatAssociative
  <2>4. FramesOf(before \o Pending(n)) = Append(FramesOf(before \o Pending(d)), frame)
    BY <2>1, <2>3, FramesAppend DEF Behind
  <2>5. FramesOf(before \o Pending(d)) \in Seq(Frame)
    BY <2>1, FramesOfLemma
  <2>6. \/ frame = LayoutStatus(layout)
        \/ /\ HeadsFor(FramesOf(before \o Pending(d)), shown, layout)
           /\ frame.kind # "Layout"
    BY <1>1, <1>2 DEF Telling
  <2> QED BY <2>4, <2>5, <2>6, HeadsForAppend
<1> QED BY <1>1, <1>2 DEF Telling, n

\* The greeting tells the layout it is given.
LEMMA GreetingTells ==
  ASSUME NEW before \in Seq(Byte), NEW c, ClientOK(c),
         Framed(before \o Pending(c)), Ended(before \o Pending(c)),
         NEW shown, NEW layout \in Layout, c.wants_status,
         c.greeted => \/ c.status_overflowed
                      \/ HeadsFor(FramesOf(before \o Pending(c)), shown, layout)
  PROVE  LET g == Greeted(c, layout)
         IN  /\ ClientOK(g) /\ g.wants_status /\ g.greeted
             /\ Framed(before \o Pending(g)) /\ Ended(before \o Pending(g))
             /\ \/ g.status_overflowed
                \/ HeadsFor(FramesOf(before \o Pending(g)), shown, layout)
<1>0. c \in Behind(before, c) /\ c \in Client
  <2>1. c \in Client /\ Pending(c) \in Seq(Byte) /\ before \o Pending(c) \in Seq(Byte)
    BY PendingLemma DEF ClientOK
  <2> QED BY <2>1, BeginsLemma DEF Behind
<1>1. CASE c.greeted
  <2>1. Greeted(c, layout) = c
    BY <1>1 DEF Greeted
  <2> QED BY <1>1, <2>1
<1>2. CASE ~c.greeted
  <2> DEFINE frames == <<LayoutStatus(layout), Routing>>
             S == [i \in 0..2 |-> IF i = 0 THEN {c} ELSE Telling(before, c, shown, layout)]
             q == QueueFrames(c, frames)
             g == [q EXCEPT !.greeted = TRUE]
  <2>1. /\ frames \in Seq(Frame) /\ Len(frames) = 2
        /\ frames[1] = LayoutStatus(layout) /\ frames[2] = Routing
        /\ LayoutStatus(layout) \in Frame /\ Routing \in Frame /\ Routing.kind # "Layout"
    BY DEF Frame, Routing
  <2> HIDE DEF frames
  <2>2. ASSUME NEW i \in 1..2, NEW d \in S[i - 1] PROVE QueueFrame(d, frames[i]) \in S[i]
    <3>1. CASE i = 1
      <4>1. d = c /\ S[1] = Telling(before, c, shown, layout)
        BY <3>1
      <4> QED BY <1>0, <2>1, <3>1, <4>1, TellLemma
    <3>2. CASE i = 2
      <4>1. d \in Telling(before, c, shown, layout) /\ S[2] = Telling(before, c, shown, layout)
        BY <3>2
      <4>2. d \in Behind(before, c) /\ d.greeted = c.greeted
        BY <4>1 DEF Telling
      <4> HIDE DEF S
      <4> QED BY <2>1, <3>2, <4>1, <4>2, TellLemma
    <3> QED BY <3>1, <3>2
  <2>3. c \in S[0] /\ S[2] = Telling(before, c, shown, layout)
    OBVIOUS
  <2> HIDE DEF S
  <2>4. q \in Telling(before, c, shown, layout)
    BY <2>1, <2>2, <2>3, QueueFramesLemma
  <2> HIDE DEF q
  <2>5. Greeted(c, layout) = g
    BY <1>2 DEF Greeted, q, frames
  <2>6. /\ g \in Client /\ g.status_output = q.status_output /\ g.greeted
        /\ g.status_cursor = q.status_cursor /\ g.wants_status = q.wants_status
        /\ g.status_overflowed = q.status_overflowed
    BY <2>4 DEF Telling, Behind, Client
  <2> HIDE DEF g
  <2>7. Pending(g) = Pending(q)
    BY <2>6 DEF Pending
  <2> QED BY <2>4, <2>5, <2>6, <2>7 DEF Telling, Behind, ClientOK
<1> QED BY <1>1, <1>2

LEMMA NewsLemma ==
  ASSUME NEW adopted \in Seq(Layout), NEW output \in BOOLEAN
  PROVE  LET frames == News(adopted, output)
         IN  /\ Len(adopted) \in Nat /\ Len(frames) \in Nat /\ Len(adopted) <= Len(frames)
             /\ frames \in Seq(Frame)
             /\ \A i \in 1..Len(frames) :
                  IF i <= Len(adopted) THEN frames[i] = LayoutStatus(adopted[i])
                  ELSE frames[i] = Output /\ i = Len(adopted) + 1
<1> DEFINE s == [i \in 1..Len(adopted) |-> LayoutStatus(adopted[i])]
           t == IF output THEN <<Output>> ELSE <<>>
           n == Len(adopted)
<1>1. /\ s \in Seq(Frame) /\ Len(s) = n /\ n \in Nat
      /\ \A i \in 1..n : s[i] = LayoutStatus(adopted[i])
  <2>1. \A l \in Layout : LayoutStatus(l) \in Frame
    BY DEF Frame
  <2> QED BY <2>1
<1>2. t \in Seq(Frame) /\ Len(t) \in {0, 1} /\ (Len(t) = 1 => t[1] = Output)
  <2>1. Output \in Frame
    BY DEF Frame
  <2>2. CASE output
    <3>1. t = <<Output>>
      BY <2>2
    <3> QED BY <2>1, <3>1
  <2>3. CASE ~output
    <3>1. t = <<>>
      BY <2>3
    <3> QED BY <3>1
  <2> QED BY <2>2, <2>3
<1>3. News(adopted, output) = s \o t
  BY DEF News
<1> HIDE DEF s, t, n
<1>4. /\ s \o t \in Seq(Frame) /\ Len(s \o t) = n + Len(t)
      /\ \A i \in 1..(n + Len(t)) : (s \o t)[i] = IF i <= n THEN s[i] ELSE t[i - n]
  BY <1>1, <1>2, ConcatProperties
<1>5. ASSUME NEW i \in 1..(n + Len(t))
      PROVE  IF i <= n THEN (s \o t)[i] = LayoutStatus(adopted[i])
             ELSE (s \o t)[i] = Output /\ i = n + 1
  <2>1. CASE i <= n
    <3>1. i \in 1..n
      BY <1>1, <1>2, <2>1
    <3> QED BY <1>1, <1>4, <2>1, <3>1
  <2>2. CASE ~(i <= n)
    <3>1. Len(t) = 1
      <4>1. Len(t) # 0
        BY <1>1, <2>2
      <4> QED BY <1>2, <4>1
    <3>2. i = n + 1 /\ i - n = 1
      BY <1>1, <2>2, <3>1
    <3> QED BY <1>2, <1>4, <2>2, <3>1, <3>2
  <2> QED BY <2>1, <2>2
<1> QED BY <1>1, <1>2, <1>3, <1>4, <1>5 DEF n

\* The broadcast of the adopted layouts tells the newest of them.
LEMMA BroadcastTells ==
  ASSUME NEW before \in Seq(Byte), NEW c, ClientOK(c),
         Framed(before \o Pending(c)), Ended(before \o Pending(c)),
         NEW shown, NEW layout \in Layout, c.wants_status,
         c.status_overflowed \/ HeadsFor(FramesOf(before \o Pending(c)), shown, layout),
         NEW adopted \in Seq(Layout), NEW output \in BOOLEAN
  PROVE  LET b == Broadcast(c, News(adopted, output))
         IN  /\ b.wants_status
             /\ \/ b.status_overflowed
                \/ HeadsFor(FramesOf(before \o Pending(b)), shown, Newest(adopted, layout))
<1> DEFINE n == Len(adopted)
           frames == News(adopted, output)
           m == Len(frames)
           told == [i \in 0..m |-> IF i = 0 THEN layout ELSE IF i <= n THEN adopted[i]
                                ELSE Newest(adopted, layout)]
           S == [i \in 0..m |-> Telling(before, c, shown, told[i])]
<1>1. /\ n \in Nat /\ m \in Nat /\ n <= m /\ frames \in Seq(Frame)
      /\ \A i \in 1..m : IF i <= n THEN frames[i] = LayoutStatus(adopted[i])
                          ELSE frames[i] = Output /\ i = n + 1
  BY NewsLemma
<1>2. \A i \in 0..m : told[i] \in Layout
  BY <1>1, NewestLemma
<1>3. /\ told[m] = Newest(adopted, layout) /\ told[0] = layout
      /\ \A i \in 1..m : i <= n => told[i] = adopted[i]
      /\ \A i \in 1..m : ~(i <= n) => told[i] = told[i - 1]
  <2>1. told[0] = layout /\ \A i \in 1..m : i <= n => told[i] = adopted[i]
    BY <1>1
  <2>2. n # 0 => Newest(adopted, layout) = adopted[n]
    BY <1>1 DEF Newest
  <2>3. n = 0 => Newest(adopted, layout) = layout
    BY <1>1 DEF Newest
  <2>4. told[n] = Newest(adopted, layout)
    BY <1>1, <2>2, <2>3
  <2>5. ASSUME NEW i \in 1..m, ~(i <= n)
        PROVE  i = n + 1 /\ told[i] = Newest(adopted, layout)
    BY <1>1, <2>5
  <2>6. \A i \in 1..m : ~(i <= n) => told[i] = told[i - 1]
    <3>1. (n + 1) - 1 = n
      BY <1>1
    <3> HIDE DEF told
    <3> QED BY <2>4, <2>5, <3>1
  <2>7. told[m] = Newest(adopted, layout)
    <3>1. m = n \/ (m \in 1..m /\ ~(m <= n))
      BY <1>1
    <3> HIDE DEF told, m
    <3> QED BY <2>4, <2>5, <3>1
  <2> QED BY <2>1, <2>6, <2>7
<1>4. c \in Telling(before, c, shown, layout)
  <2>1. c \in Client /\ Pending(c) \in Seq(Byte) /\ before \o Pending(c) \in Seq(Byte)
    BY PendingLemma DEF ClientOK
  <2> QED BY <2>1, BeginsLemma DEF Telling, Behind
<1> HIDE DEF told, frames, n
<1>5. ASSUME NEW i \in 1..m, NEW d \in S[i - 1] PROVE QueueFrame(d, frames[i]) \in S[i]
  <2>1. i - 1 \in 0..m /\ i \in 0..m
    BY <1>1
  <2>2. /\ S[i] = Telling(before, c, shown, told[i])
        /\ d \in Telling(before, c, shown, told[i - 1])
    BY <2>1
  <2>3. d \in Behind(before, c) /\ d.greeted = c.greeted
    BY <2>2 DEF Telling
  <2>4. told[i] \in Layout /\ frames[i] \in Frame
    BY <1>1, <1>2, <2>1
  <2> HIDE DEF S, m
  <2>5. CASE i <= n
    <3>1. frames[i] = LayoutStatus(told[i])
      BY <1>1, <1>3, <2>5
    <3> QED BY <2>2, <2>3, <2>4, <3>1, TellLemma
  <2>6. CASE ~(i <= n)
    <3>1. told[i] = told[i - 1] /\ frames[i].kind # "Layout"
      <4>1. told[i] = told[i - 1]
        BY <1>3, <2>6
      <4>2. frames[i] = Output
        BY <1>1, <2>6
      <4> QED BY <4>1, <4>2 DEF Output
    <3> QED BY <2>2, <2>3, <2>4, <3>1, TellLemma
  <2> QED BY <2>5, <2>6
<1>6. c \in S[0] /\ S[m] = Telling(before, c, shown, Newest(adopted, layout))
  <2>1. 0 \in 0..m /\ m \in 0..m
    BY <1>1
  <2> QED BY <1>3, <1>4, <2>1
<1> HIDE DEF S
<1>7. QueueFrames(c, frames) \in Telling(before, c, shown, Newest(adopted, layout))
  BY <1>1, <1>5, <1>6, QueueFramesLemma
<1>8. Broadcast(c, frames) = QueueFrames(c, frames)
  BY DEF Broadcast
<1> QED BY <1>7, <1>8 DEF Telling, Behind, frames

\* A turn tells an observer the layout it ends with.
LEMMA TurnTells ==
  ASSUME NEW before \in Seq(Byte), NEW c, ClientOK(c), ~c.status_overflowed,
         Framed(before \o Pending(c)), Ended(before \o Pending(c)),
         NEW shown, NEW layout \in Layout,
         c.greeted => /\ c.wants_status
                      /\ HeadsFor(FramesOf(before \o Pending(c)), shown, layout),
         NEW adopted \in Seq(Layout), NEW output \in BOOLEAN
  PROVE  LET t == Turned(c, layout, News(adopted, output))
         IN  t.greeted =>
               /\ t.wants_status
               /\ \/ t.status_overflowed
                  \/ HeadsFor(FramesOf(before \o Pending(t)), shown, Newest(adopted, layout))
<1> DEFINE a == Acknowledged(c)
           g == Greeted(a, layout)
           t == Turned(c, layout, News(adopted, output))
<1>0. /\ c \in Client /\ Pending(c) \in Seq(Byte) /\ before \o Pending(c) \in Seq(Byte)
      /\ t = Broadcast(g, News(adopted, output))
  BY PendingLemma DEF ClientOK, Turned
<1> HIDE DEF t
<1>1. /\ ClientOK(a) /\ a.greeted = c.greeted
      /\ c.wants_status => a.wants_status
      /\ Framed(before \o Pending(a)) /\ Ended(before \o Pending(a))
      /\ a.greeted => \/ a.status_overflowed
                      \/ HeadsFor(FramesOf(before \o Pending(a)), shown, layout)
  <2>1. CASE ~hello
    BY <2>1 DEF Acknowledged
  <2>2. CASE hello
    <3> DEFINE o == [c EXCEPT !.wants_status = TRUE]
    <3>1. /\ o \in Client /\ o.status_output = c.status_output /\ o.wants_status
          /\ o.status_cursor = c.status_cursor /\ ~o.status_overflowed
          /\ o.greeted = c.greeted
          /\ a = QueueFrame(o, Accepted) /\ Accepted \in Frame /\ Accepted.kind # "Layout"
      BY <1>0, <2>2 DEF Client, Acknowledged, Frame, Accepted
    <3> HIDE DEF o, a
    <3>2. Pending(o) = Pending(c)
      BY <3>1 DEF Pending
    <3>3. ClientOK(o) /\ o \in Behind(before, o)
      BY <1>0, <3>1, <3>2, BeginsLemma DEF ClientOK, Behind
    <3>4. a \in Behind(before, o) /\ a.greeted = c.greeted
      BY <3>1, <3>3, QueueFrameLemma
    <3>5. ASSUME c.greeted
          PROVE  \/ a.status_overflowed
                 \/ HeadsFor(FramesOf(before \o Pending(a)), shown, layout)
      <4>1. o \in Telling(before, o, shown, layout)
        BY <3>1, <3>2, <3>3, <3>5 DEF Telling
      <4>2. a \in Telling(before, o, shown, layout)
        BY <3>1, <3>3, <4>1, TellLemma
      <4> QED BY <4>2 DEF Telling
    <3> QED BY <3>1, <3>4, <3>5 DEF Behind
  <2> QED BY <2>1, <2>2
<1> HIDE DEF a
<1>2. CASE a.wants_status
  <2>1. /\ ClientOK(g) /\ g.wants_status /\ g.greeted
        /\ Framed(before \o Pending(g)) /\ Ended(before \o Pending(g))
        /\ \/ g.status_overflowed
           \/ HeadsFor(FramesOf(before \o Pending(g)), shown, layout)
    BY <1>1, <1>2, GreetingTells
  <2> HIDE DEF g
  <2> QED BY <1>0, <2>1, BroadcastTells DEF t
<1>3. CASE ~a.wants_status
  <2>1. g = a
    BY <1>3 DEF Greeted
  <2>2. t = a
    BY <1>0, <1>3, <2>1 DEF Broadcast
  <2> QED BY <1>1, <1>3, <2>2 DEF t
<1> QED BY <1>2, <1>3

-----------------------------------------------------------------------------
(***************************************************************************)
(* The reload and the connection together.                                 *)
(***************************************************************************)
LEMMA StreamInitOK == StreamInit => StreamOK /\ Status!Init
<1> SUFFICES ASSUME StreamInit PROVE StreamOK /\ Status!Init
  OBVIOUS
<1>1. <<>> \in Seq(Byte) /\ Len(<<>>) = 0 /\ 0 <= SocketBytes /\ 0 \in 0..MaxConnects
  BY StreamAssumption
<1>2. OnTheWay = <<>>
  BY <1>1, ConcatEmptySeq DEF StreamInit, OnTheWay
<1>3. BlankScreen \in Screen
  BY DEF BlankScreen, Screen
<1>4. StreamTypeOK
  BY <1>1, <1>3 DEF StreamInit, StreamTypeOK
<1>5. StreamInv
  BY <1>2, NothingOnTheWay DEF StreamInit, StreamInv
<1>6. Status!Init
  BY <1>2, InFlightLemma, NothingOnTheWay, SameFrames DEF StreamInit, Status!Init
<1> QED BY <1>4, <1>5, <1>6 DEF StreamOK

LEMMA StreamSame ==
  ASSUME StreamOK, UNCHANGED streamVars PROVE StreamOK' /\ StatusStep
<1>1. UNCHANGED <<client, dialled, hello, socket, reader, decoder, accepted, shared, connects>>
  BY DEF streamVars
<1>2. OnTheWay' = OnTheWay
  BY <1>1 DEF OnTheWay
<1>3. StreamTypeOK' /\ StreamInv'
  BY <1>1, <1>2 DEF StreamOK, StreamTypeOK, StreamInv
<1>4. StatusStep
  BY <1>1, <1>2, InFlightLemma DEF StatusStep
<1> QED BY <1>3, <1>4 DEF StreamOK

LEMMA StreamNext ==
  ASSUME LayoutTypeOK, StreamOK, [Next]_vars PROVE StreamOK' /\ StatusStep
<1>1. CASE UNCHANGED streamVars
  BY <1>1, StreamSame
<1>2. CASE IpcThread
  <2>1. ipc_layout \in Layout /\ ipc_ring \in Seq(Layout)
    BY DEF LayoutTypeOK
  <2>2. CASE dialled \/ client # None
    <3>1. PICK output \in BOOLEAN : ServePass(ipc_layout, ipc_ring, output)
      BY <1>2, <2>2 DEF IpcThread
    <3> QED BY <2>1, <3>1, ServedLemma
  <2>3. CASE ~(dialled \/ client # None)
    BY <1>1, <1>2, <2>3 DEF IpcThread
  <2> QED BY <2>2, <2>3
<1>3. CASE ServerDrops
  BY <1>3, DroppedLemma
<1>4. CASE Reader
  BY <1>4, ReaderLemma
<1> QED
  BY <1>1, <1>2, <1>3, <1>4 DEF Next, vars, WatcherThread, Callback, ReaderThread

\* The connection disturbs no step of the reload.
LEMMA ReloadSteps == [Next]_vars => [LayoutNext]_layoutVars
  BY DEF Next, vars, IpcThread, Callback, WatcherThread, ReaderThread, LayoutNext

\* The reload behaves the same with an observer connected: whatever the
\* connection does, the callback and the IPC thread head for the same layout.
THEOREM StreamKeepsTheReload == Spec => LayoutSpec /\ []LayoutsAgree
<1>1. Init => LayoutInit
  BY DEF Init
<1>2. Spec => LayoutSpec
  BY <1>1, ReloadSteps, PTL DEF Spec, LayoutSpec
<1> QED
  BY <1>2, LayoutsAlwaysAgree, PTL

\* Every variable of the connection keeps its type, and what waits in a client's
\* queue never exceeds its bound, nor the bytes in the socket theirs.
THEOREM StreamTypes == Spec => []StreamTypeOK
<1>1. Init => LayoutTypeOK /\ StreamOK
  BY LayoutTypeInit, StreamInitOK DEF Init
<1>2. LayoutTypeOK /\ StreamOK /\ [Next]_vars => LayoutTypeOK' /\ StreamOK'
  BY LayoutTypeNext, ReloadSteps, StreamNext
<1>3. StreamOK => StreamTypeOK
  BY DEF StreamOK
<1> QED
  BY <1>1, <1>2, <1>3, PTL DEF Spec

\* Whatever part of a frame a write or a read ends in, and whenever the server
\* drops the connection, the viewer shows whole frames in the order they were
\* queued, the acknowledgement first, and none lost before the server gives up.
THEOREM StreamImplementsFrameQueue == Spec => StreamIsFrameQueue
<1>1. Init => LayoutTypeOK /\ StreamOK /\ Status!Init
  BY LayoutTypeInit, StreamInitOK DEF Init
<1>2. LayoutTypeOK /\ StreamOK /\ [Next]_vars => LayoutTypeOK' /\ StreamOK'
  BY LayoutTypeNext, ReloadSteps, StreamNext
<1>3. LayoutTypeOK /\ StreamOK /\ [Next]_vars
        => [Status!Next]_<<client # None, InFlight, shared>>
  BY StreamNext DEF StatusStep
<1> QED
  BY <1>1, <1>2, <1>3, PTL DEF Spec, StreamIsFrameQueue, Status!Spec

\* ObserverHeadsForLayout, that an observer is greeted as one, and that there
\* is none before the layout is loaded.
FollowInv ==
  /\ main # "running" => client = None
  /\ client # None /\ client.greeted =>
       client.wants_status /\ HeadsFor(InFlight, shared.layout, ipc_layout)

LEMMA FollowInit == Init => FollowInv
  BY DEF Init, LayoutInit, StreamInit, FollowInv

\* A turn of the IPC thread leaves a greeted observer heading for its layout.
LEMMA ServedFollows ==
  ASSUME LayoutTypeOK, StreamOK, FollowInv, NEW output \in BOOLEAN, IpcAdopts,
         ServePass(ipc_layout, ipc_ring, output)
  PROVE  FollowInv'
<1> DEFINE before == decoder \o socket
           c == Visited
           shown == shared.layout
           t == Turned(c, ipc_layout, News(ipc_ring, output))
<1>0. /\ ipc_layout \in Layout /\ ipc_ring \in Seq(Layout)
      /\ main = "running" /\ main' = "running" /\ ipc_layout' = Newest(ipc_ring, ipc_layout)
  BY DEF LayoutTypeOK, IpcAdopts
<1>1. /\ shared' = shared
      /\ ClientOK(c) /\ ~c.status_overflowed
      /\ c.wants_status \/ c.greeted => c = client
      /\ before \o Pending(c) = OnTheWay
      /\ Ended(OnTheWay) /\ Framed(OnTheWay)
      /\ client' # None => /\ ~t.status_overflowed
                           /\ client'.greeted = t.greeted
                           /\ client'.wants_status = t.wants_status
                           /\ OnTheWay' = before \o Pending(t)
  <2>1. Framed(OnTheWay)
    BY DEF StreamOK, StreamInv
  <2> QED BY <1>0, <2>1, ServedLemma
<1>2. before \in Seq(Byte)
  BY StreamTyped DEF StreamOK
<1>3. c.greeted => /\ c.wants_status
                   /\ HeadsFor(FramesOf(before \o Pending(c)), shown, ipc_layout)
  <2> SUFFICES ASSUME c.greeted
               PROVE  c.wants_status
                      /\ HeadsFor(FramesOf(before \o Pending(c)), shown, ipc_layout)
    OBVIOUS
  <2>1. c = client /\ client # None
    <3>1. c = client
      BY <1>1
    <3>2. c # None
      BY <1>1, ClientAssumption DEF ClientOK
    <3> QED BY <3>1, <3>2
  <2>2. client.wants_status /\ HeadsFor(InFlight, shown, ipc_layout)
    BY <2>1 DEF FollowInv
  <2> QED BY <1>1, <2>1, <2>2, InFlightLemma
<1> HIDE DEF before, c, shown
<1>4. t.greeted => /\ t.wants_status
                   /\ \/ t.status_overflowed
                      \/ HeadsFor(FramesOf(before \o Pending(t)), shown,
                                  Newest(ipc_ring, ipc_layout))
  BY <1>0, <1>1, <1>2, <1>3, TurnTells
<1> HIDE DEF t
<1>5. client' # None /\ client'.greeted =>
        client'.wants_status /\ HeadsFor(InFlight', shown, ipc_layout')
  BY <1>0, <1>1, <1>4, InFlightLemma
<1>6. shared'.layout = shown
  BY <1>1 DEF shown
<1> QED BY <1>0, <1>5, <1>6 DEF FollowInv

LEMMA FollowNext ==
  ASSUME LayoutTypeOK, StreamOK, FollowInv, [Next]_vars PROVE FollowInv'
<1>1. CASE /\ UNCHANGED streamVars /\ ipc_layout' = ipc_layout
           /\ main' = main \/ client = None
  <2>1. UNCHANGED <<client, shared>> /\ InFlight' = InFlight
    BY <1>1 DEF streamVars, InFlight
  <2> QED BY <1>1, <2>1 DEF FollowInv
<1>2. CASE LoadAtStartup /\ UNCHANGED streamVars
  <2>1. client = None /\ client' = None
    BY <1>2 DEF LoadAtStartup, FollowInv, streamVars
  <2> QED BY <2>1 DEF FollowInv
<1>3. CASE IpcThread
  <2>1. CASE dialled \/ client # None
    <3>1. PICK output \in BOOLEAN : IpcAdopts /\ ServePass(ipc_layout, ipc_ring, output)
      BY <1>3, <2>1 DEF IpcThread
    <3> QED BY <3>1, ServedFollows
  <2>2. CASE ~(dialled \/ client # None)
    <3>1. client' = None
      BY <1>3, <2>2 DEF IpcThread, streamVars
    <3> QED BY <3>1 DEF FollowInv
  <2> QED BY <2>1, <2>2
<1>4. CASE ServerDrops
  <2>1. client' = None
    BY <1>4 DEF ServerDrops
  <2> QED BY <2>1 DEF FollowInv
<1>5. CASE Reader /\ main = "running" /\ UNCHANGED layoutVars
  <2>1. /\ UNCHANGED <<client, main, ipc_layout>>
        /\ client # None => Status!Deliver \/ UNCHANGED <<InFlight, shared>>
    BY <1>5, ReaderLemma DEF layoutVars
  <2>2. ASSUME client # None, client.greeted, Status!Deliver
        PROVE  HeadsFor(InFlight', shared'.layout, ipc_layout)
    <3>1. InFlight \in Seq(Frame) /\ shared \in Screen /\ ipc_layout \in Layout
      <4>1. InFlight \in Seq(Frame)
        BY StreamTyped, InFlightLemma, FramesOfLemma DEF StreamOK
      <4> QED BY <4>1 DEF StreamOK, StreamTypeOK, LayoutTypeOK
    <3>2. /\ InFlight # <<>> /\ InFlight' = Tail(InFlight)
          /\ shared' = Apply(shared, Head(InFlight))
      BY <2>2, SameFrames DEF Status!Deliver
    <3>3. HeadsFor(InFlight, shared.layout, ipc_layout)
      BY <2>2 DEF FollowInv
    <3>4. HeadsFor(Tail(InFlight), Apply(shared, Head(InFlight)).layout, ipc_layout)
      BY <3>1, <3>2, <3>3, HeadsForTail
    <3> QED BY <3>2, <3>4
  <2>3. ASSUME client # None, client.greeted, UNCHANGED <<InFlight, shared>>
        PROVE  HeadsFor(InFlight', shared'.layout, ipc_layout)
    BY <2>3 DEF FollowInv
  <2> QED BY <1>5, <2>1, <2>2, <2>3 DEF FollowInv
<1>6. CASE Edit /\ UNCHANGED streamVars
  BY <1>1, <1>6 DEF Edit
<1>7. CASE WatcherThread
  BY <1>1, <1>7 DEF WatcherThread, Watcher, FirstStat, Poll, Load, PushEngine, PushIpc
<1>8. CASE Callback
  BY <1>1, <1>8 DEF Callback, EngineAdopts
<1>9. CASE UNCHANGED vars
  BY <1>1, <1>9 DEF vars, layoutVars
<1> QED
  BY <1>2, <1>3, <1>4, <1>5, <1>6, <1>7, <1>8, <1>9 DEF Next, ReaderThread

\* A greeted observer is always on its way to the layout the IPC thread holds,
\* wherever a reload meets its greeting, for any rings, queues and sockets.
THEOREM ObserversAlwaysHeadForLayout == Spec => []ObserverHeadsForLayout
<1>1. Init => LayoutTypeOK /\ StreamOK /\ FollowInv
  BY LayoutTypeInit, StreamInitOK, FollowInit DEF Init
<1>2. LayoutTypeOK /\ StreamOK /\ FollowInv /\ [Next]_vars
        => LayoutTypeOK' /\ StreamOK' /\ FollowInv'
  BY LayoutTypeNext, ReloadSteps, StreamNext, FollowNext
<1>3. FollowInv => ObserverHeadsForLayout
  BY DEF FollowInv, ObserverHeadsForLayout
<1> QED
  BY <1>1, <1>2, <1>3, PTL DEF Spec
=============================================================================
