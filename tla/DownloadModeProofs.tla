------------------------- MODULE DownloadModeProofs -------------------------
(* What holds of a Download Mode session for every package, every chunk size, *)
(* every list of partitions and any number of calls, faults and returns of    *)
(* the device: the types, and that what is reported, programmed and believed  *)
(* agrees with the device while host and device are in step.                  *)
EXTENDS DownloadModeSession, SequenceTheorems, TLAPS

(* ------------------------- images and their chunks ---------------------- *)

ImageUnits == Package \X Nat

\* Partition p holds the first n units of its image, and nothing else.
Holds(p, n) == Len(flash[p]) = n /\ \A i \in 1 .. n : flash[p][i] = <<p, i>>

\* Where the chunk that begins after unit n of the current image ends.
ChunkEnd(n) ==
    IF n + ChunkUnits <= Units[Head(todo)] THEN n + ChunkUnits ELSE Units[Head(todo)]

\* A sequence that is unit by unit the image is the image.
LEMMA WholeIs ==
    ASSUME NEW p \in Package
    PROVE  /\ Whole(p) \in Seq(ImageUnits) /\ Len(Whole(p)) = Units[p] /\ Units[p] \in Nat
           /\ \A i \in 1 .. Units[p] : Whole(p)[i] = <<p, i>>
<1>1. Units[p] \in Nat
  BY SessionAssumption
<1>2. \A i \in 1 .. Units[p] : <<p, i>> \in ImageUnits
  BY <1>1 DEF ImageUnits
<1>3. Whole(p) \in [1 .. Units[p] -> ImageUnits]
  BY <1>2 DEF Whole
<1>4. Whole(p) \in Seq(ImageUnits)
  BY <1>1, <1>3
<1>5. Len(Whole(p)) = Units[p]
  BY <1>1, <1>3, <1>4, LenProperties
<1> QED BY <1>1, <1>4, <1>5 DEF Whole

LEMMA HoldsWhole ==
    ASSUME NEW p \in Package, flash[p] \in Seq(ImageUnits), Holds(p, Units[p])
    PROVE  flash[p] = Whole(p)
BY WholeIs, SeqEqual DEF Holds

\* The only place in a chunk at which the device acknowledges is its end.
LEMMA ChunkEndsAtBoundary ==
    ASSUME NEW c \in Nat \ {0}, NEW u \in Nat, NEW n \in Nat, NEW k \in Nat,
           n * c < k, k = u \/ k % c = 0,
           k <= IF n * c + c <= u THEN n * c + c ELSE u
    PROVE  k = IF n * c + c <= u THEN n * c + c ELSE u
<1>0. n * c \in Nat
  OBVIOUS
<1>1. CASE k = u
  BY <1>0, <1>1
<1>2. CASE k % c = 0
  <2> DEFINE q == k \div c
  <2>1. q \in Nat /\ k = c * q
    BY <1>2
  <2>2. q > n
    <3>1. SUFFICES ASSUME q <= n PROVE FALSE
      BY <2>1
    <3>2. c * q <= c * n
      BY <2>1, <3>1
    <3> QED BY <2>1, <3>2, <1>0
  <2>3. c * q >= c * (n + 1)
    BY <2>1, <2>2
  <2>4. k >= n * c + c
    BY <2>1, <2>3
  <2> QED BY <2>4, <1>0
<1> QED BY <1>1, <1>2

(* --------------------------------- types -------------------------------- *)

\* What makes TypeOK inductive: which method may be at which transfer, that the
\* current partition is one the package has an image of, that the offset is that of
\* a chunk and inside the image, and that a device that takes data has a target.
Control ==
    /\ op = "none" <=> pc = "idle"
    /\ pc \in {"next", "chunk", "ack"} => op = "flash"
    /\ op # "flash" => todo = <<>>
    /\ op = "flash" /\ pc # "next" => todo # <<>> /\ Head(todo) \in Package
    /\ pc \notin {"chunk", "ack"} => sent = 0
    /\ pc = "chunk" => sent < Units[Head(todo)] /\ \E n \in Nat : sent = n * ChunkUnits
    /\ pc = "ack" => \/ sent = Units[Head(todo)]
                     \/ sent < Units[Head(todo)] /\ \E n \in Nat : sent = n * ChunkUnits
HostTyped == HostOK /\ Control
DeviceTyped == DeviceOK /\ (dev = "transfer" => target \in Package)
Typed == HostTyped /\ WireOK /\ DeviceTyped /\ BoundsOK

(* -------------------------------- in step ------------------------------- *)

Quiet == toDev = <<>> /\ toHost = <<>>

\* The device programs the current partition and has its first n units.
Receiving(n) == dev = "transfer" /\ target = Head(todo) /\ Holds(Head(todo), n)

\* The request is on its way, or nothing is, or the answer to it is.
Granted ==
    /\ op = "initialize" => dev = "session"
    /\ op = "flash" => /\ Holds(Head(todo), 0)
                       /\ Units[Head(todo)] # 0 => dev = "transfer" /\ target = Head(todo)
AwaitsResponse ==
    \/ toDev = <<Request>> /\ toHost = <<>>
    \/ Quiet
    \/ toDev = <<>> /\ \E a \in Answers : toHost = <<a>> /\ (a = "OK" => Granted)

\* The chunk, or the first units of it, is on its way; or nothing is; or the ACK is.
IsChunk(m, n) ==
    /\ m.kind = "data" /\ m.units \in Seq(ImageUnits)
    /\ n * ChunkUnits < Units[Head(todo)] /\ sent = ChunkEnd(n * ChunkUnits)
    /\ n * ChunkUnits + Len(m.units) <= sent
    /\ \A i \in 1 .. Len(m.units) : m.units[i] = <<Head(todo), n * ChunkUnits + i>>
ChunkArrived ==
    Holds(Head(todo), sent) /\ (sent # Units[Head(todo)] => dev = "transfer" /\ target = Head(todo))
AwaitsAck ==
    \/ /\ toHost = <<>>
       /\ \E n \in Nat, m \in Messages :
             toDev = <<m>> /\ IsChunk(m, n) /\ Receiving(n * ChunkUnits)
    \/ Quiet
    \/ toDev = <<>> /\ \E a \in Answers : toHost = <<a>> /\ (a = "OK" => ChunkArrived)

\* While no answer was given up too early, at most one message is on its way, and it
\* is of the transfer the host is at.  A cable that is pulled empties the wire.
GoneIsQuiet == link = "gone" => Quiet
InStep ==
    ~strayed =>
        /\ pc \in {"idle", "next", "request", "chunk"} => Quiet
        /\ link = "up" /\ pc = "response" => AwaitsResponse
        /\ link = "up" /\ pc = "chunk" => Receiving(sent)
        /\ link = "up" /\ pc = "ack" => AwaitsAck

\* A partition counted as successful is not to be flashed again.
DoneOnce == \A i \in DOMAIN todo : todo[i] \notin ok

\* An active session is that of a device in a session, until an answer ends it.
Agrees ==
    active /\ link = "up" /\ returns = 0 /\ ~strayed =>
        \/ dev \in {"session", "transfer"}
        \/ dev = "off" /\ pc = "response" /\ op \in {"end", "dispose", "reboot"}

(* ---------------------------- the types hold ---------------------------- *)

IsRest(s) == s = <<>> \/ \E l \in Lists : \E i \in DOMAIN l : s = SubSeq(l, i, Len(l))

\* A list is a sequence of names without repetition, and it is its own rest.
LEMMA ListIs ==
    ASSUME NEW l \in Lists
    PROVE  /\ l \in Seq(Listed) /\ \A i, j \in DOMAIN l : l[i] = l[j] => i = j
           /\ IsRest(l)
<1>1. /\ l \in Seq(UNION {{l[i]} : i \in DOMAIN l})
      /\ \A i, j \in DOMAIN l : l[i] = l[j] => i = j
  BY SessionAssumption
<1>2. UNION {{l[i]} : i \in DOMAIN l} \subseteq Listed
  BY DEF Listed
<1>3. l \in Seq(Listed)
  BY <1>1, <1>2, SeqMonotonic
<1>4. CASE l = <<>>
  BY <1>1, <1>3, <1>4 DEF IsRest
<1>5. CASE l # <<>>
  <2>1. 1 \in DOMAIN l
    BY <1>3, <1>5
  <2>2. l = SubSeq(l, 1, Len(l))
    BY <1>3, SubSeqFull
  <2> QED BY <1>1, <1>3, <2>1, <2>2 DEF IsRest
<1> QED BY <1>4, <1>5

\* What is left of a list has no repetition either, and its tail is left of it.
LEMMA RestIs ==
    ASSUME NEW s, IsRest(s)
    PROVE  /\ s \in Seq(Listed) /\ \A i, j \in DOMAIN s : s[i] = s[j] => i = j
           /\ s # <<>> => Head(s) \in Listed /\ IsRest(Tail(s))
<1>1. CASE s = <<>>
  BY <1>1
<1>2. CASE s # <<>>
  <2>1. PICK l \in Lists : \E i \in DOMAIN l : s = SubSeq(l, i, Len(l))
    BY <1>2 DEF IsRest
  <2>2. PICK i \in DOMAIN l : s = SubSeq(l, i, Len(l))
    BY <2>1
  <2>3. l \in Seq(Listed) /\ \A j, k \in DOMAIN l : l[j] = l[k] => j = k
    BY ListIs
  <2>4. i \in 1 .. Len(l) /\ Len(l) \in Nat /\ Len(l) \in i .. Len(l)
    BY <2>2, <2>3
  <2>5. \A j \in i .. Len(l) : l[j] \in Listed
    BY <2>3, <2>4
  <2>6. /\ s \in Seq(Listed) /\ Len(s) = Len(l) - i + 1
        /\ \A j \in 1 .. Len(l) - i + 1 : s[j] = l[i + j - 1]
    BY <2>2, <2>4, <2>5, SubSeqProperties
  <2>7. \A j, k \in DOMAIN s : s[j] = s[k] => j = k
    <3>1. ASSUME NEW j \in DOMAIN s, NEW k \in DOMAIN s, s[j] = s[k] PROVE j = k
      <4>1. j \in 1 .. Len(l) - i + 1 /\ k \in 1 .. Len(l) - i + 1
        BY <2>6
      <4>2. i + j - 1 \in DOMAIN l /\ i + k - 1 \in DOMAIN l
        BY <2>3, <2>4, <4>1
      <4>3. l[i + j - 1] = l[i + k - 1]
        BY <2>6, <3>1, <4>1
      <4> QED BY <2>3, <2>4, <4>1, <4>2, <4>3
    <3> QED BY <3>1
  <2>8. Head(s) \in Listed /\ Tail(s) = SubSeq(l, i + 1, Len(l))
    <3>1. Head(s) = l[i] /\ Tail(s) = SubSeq(l, i + 1, Len(l))
      BY <2>2, <2>3, <2>4, HeadTailOfSubSeq
    <3> QED BY <2>4, <2>5, <3>1
  <2>9. IsRest(Tail(s))
    <3>1. CASE i = Len(l)
      BY <2>4, <2>8, <3>1, SubSeqEmpty DEF IsRest
    <3>2. CASE i # Len(l)
      <4>1. i + 1 \in DOMAIN l
        BY <2>3, <2>4, <3>2
      <4> QED BY <2>8, <4>1 DEF IsRest
    <3> QED BY <3>1, <3>2
  <2> QED BY <2>6, <2>7, <2>8, <2>9
<1> QED BY <1>1, <1>2

Outcomes == {"none", "true", "false", "success", "failure", "exception", "cancelled"}

\* A call ends, with a result or an exception.
LEMMA ReturnsTypes ==
    ASSUME HostTyped, NEW o \in Outcomes, active' \in BOOLEAN, Ends(o) \/ Throws(o)
    PROVE  HostTyped'
<1>1. Returns(o) /\ ok' \subseteq Package /\ failed' \subseteq Listed
  BY DEF Ends, Throws, HostTyped, HostOK
<1> QED BY <1>1 DEF Returns, HostTyped, HostOK, Control, Outcomes, Plain

\* A partition is done with, flashed or not.
LEMMA SettledTypes ==
    ASSUME HostTyped, op = "flash", todo # <<>>, active' \in BOOLEAN,
           NEW s \in BOOLEAN, s => Head(todo) \in Package, Settled(s)
    PROVE  HostTyped'
<1>1. Head(todo) \in Listed /\ IsRest(Tail(todo))
  BY RestIs DEF HostTyped, HostOK, IsRest
<1>2. ok' \subseteq Package /\ failed' \subseteq Listed
  BY <1>1 DEF Settled, HostTyped, HostOK
<1>3. HostOK'
  BY <1>1, <1>2 DEF Settled, HostTyped, HostOK, IsRest, Plain
<1>4. Control'
  BY DEF Settled, HostTyped, Control
<1> QED BY <1>3, <1>4 DEF HostTyped

\* Whatever answers a request, or nothing, or a failed transfer.
LEMMA RespondedTypes ==
    ASSUME HostTyped, pc \in {"request", "response"}, NEW a, Responded(a)
    PROVE  HostTyped'
<1>1. active' \in BOOLEAN
  BY DEF Responded, ActiveAfter, HostTyped, HostOK
<1>2. op \in Plain \cup {"flash"}
  BY DEF HostTyped, HostOK, Control
<1>3. CASE \E o \in Outcomes : Ends(o) \/ Throws(o)
  BY <1>1, <1>3, ReturnsTypes
<1>4. CASE op = "flash" /\ \E s \in BOOLEAN : Settled(s)
  <2>1. todo # <<>> /\ Head(todo) \in Package
    BY <1>4 DEF HostTyped, Control
  <2> QED BY <1>1, <1>4, <2>1, SettledTypes
<1>5. CASE op = "flash" /\ GoesTo("chunk") /\ Units[Head(todo)] # 0
  <2>1. sent = 0 /\ todo # <<>> /\ Head(todo) \in Package
    BY <1>5 DEF HostTyped, Control
  <2>2. sent < Units[Head(todo)]
    BY <1>5, <2>1, SessionAssumption
  <2>3. ChunkUnits \in Nat
    BY SessionAssumption
  <2>4. 0 \in Nat /\ sent = 0 * ChunkUnits
    BY <2>1, <2>3
  <2>5. Control'
    BY <1>5, <2>1, <2>2, <2>4 DEF GoesTo, HostTyped, Control
  <2> QED BY <1>1, <1>5, <2>5 DEF GoesTo, HostTyped, HostOK
<1>6. CASE op # "flash"
  <2>1. op \in Plain
    BY <1>2, <1>6
  <2>2. \E o \in Outcomes : Ends(o)
    BY <1>6, <2>1 DEF Responded, Plain, Outcomes
  <2> QED BY <1>3, <2>2
<1>7. CASE op = "flash"
  <2>1. Throws("exception") \/ (\E s \in BOOLEAN : Settled(s))
          \/ (GoesTo("chunk") /\ Units[Head(todo)] # 0)
    BY <1>7 DEF Responded
  <2> QED BY <1>3, <1>4, <1>5, <1>7, <2>1 DEF Outcomes
<1> QED BY <1>6, <1>7

\* Whatever answers a chunk, or nothing.
LEMMA AcknowledgedTypes ==
    ASSUME HostTyped, pc = "ack", active' = active, NEW a, Acknowledged(a)
    PROVE  HostTyped'
<1>1. op = "flash" /\ todo # <<>> /\ Head(todo) \in Package /\ active' \in BOOLEAN
  BY DEF HostTyped, HostOK, Control
<1>2. CASE \E s \in BOOLEAN : Settled(s)
  BY <1>1, <1>2, SettledTypes
<1>3. CASE GoesTo("chunk") /\ sent # Units[Head(todo)]
  BY <1>1, <1>3 DEF GoesTo, HostTyped, HostOK, Control
<1> QED BY <1>2, <1>3 DEF Acknowledged

LEMMA RequestIs ==
    ASSUME HostTyped, pc = "request"
    PROVE  Request \in Messages
<1>1. op \in Plain \cup {"flash"} /\ (op = "flash" => Head(todo) \in Package)
  BY DEF HostTyped, HostOK, Control
<1>2. CASE op = "flash"
  BY <1>1, <1>2 DEF Request, Messages
<1>3. CASE op # "flash"
  <2>1. Request.kind \in Plain \ {"dispose"} /\ Request = [kind |-> Request.kind]
    BY <1>1, <1>3 DEF Request, Plain
  <2> QED BY <2>1 DEF Messages
<1> QED BY <1>2, <1>3

\* What SendChunk sends of the current image.
LEMMA ChunkIs ==
    ASSUME HostTyped, pc = "chunk"
    PROVE  /\ Chunk \in Seq(ImageUnits) /\ Len(Chunk) = ChunkEnd(sent) - sent
           /\ ChunkEnd(sent) \in sent + 1 .. Units[Head(todo)]
           /\ \A i \in 1 .. Len(Chunk) : Chunk[i] = <<Head(todo), sent + i>>
           /\ \/ ChunkEnd(sent) = Units[Head(todo)]
              \/ \E n \in Nat : ChunkEnd(sent) = n * ChunkUnits
<1> DEFINE p == Head(todo)
           e == ChunkEnd(sent)
<1>1. /\ p \in Package /\ sent \in Nat /\ sent < Units[p]
      /\ Units[p] \in Nat /\ ChunkUnits \in Nat \ {0}
  BY SessionAssumption DEF HostTyped, HostOK, Control
<1>2. e \in sent + 1 .. Units[p] /\ Chunk = SubSeq(Whole(p), sent + 1, e)
  BY <1>1 DEF ChunkEnd, Chunk
<1>3. /\ Whole(p) \in Seq(ImageUnits) /\ Len(Whole(p)) = Units[p]
      /\ \A i \in 1 .. Units[p] : Whole(p)[i] = <<p, i>>
  BY <1>1, WholeIs
<1>4. \A i \in sent + 1 .. e : Whole(p)[i] \in ImageUnits
  BY <1>1, <1>2, <1>3
<1>5. /\ Chunk \in Seq(ImageUnits) /\ Len(Chunk) = e - sent
      /\ \A i \in 1 .. e - sent : Chunk[i] = Whole(p)[sent + i]
  <2> HIDE DEF p, e
  <2>1. sent + 1 \in Int /\ e \in Int /\ sent + 1 <= e
    BY <1>1, <1>2
  <2>2. /\ SubSeq(Whole(p), sent + 1, e) \in Seq(ImageUnits)
        /\ Len(SubSeq(Whole(p), sent + 1, e)) = e - (sent + 1) + 1
        /\ \A i \in 1 .. e - (sent + 1) + 1 :
              SubSeq(Whole(p), sent + 1, e)[i] = Whole(p)[(sent + 1) + i - 1]
    BY <2>1, <1>4, SubSeqProperties
  <2> QED BY <1>1, <1>2, <2>1, <2>2
<1>6. \A i \in 1 .. Len(Chunk) : Chunk[i] = <<p, sent + i>>
  BY <1>1, <1>2, <1>3, <1>5
<1>7. e = Units[p] \/ \E n \in Nat : e = n * ChunkUnits
  <2>1. PICK n \in Nat : sent = n * ChunkUnits
    BY DEF HostTyped, Control
  <2>2. sent + ChunkUnits = (n + 1) * ChunkUnits /\ n + 1 \in Nat
    BY <1>1, <2>1
  <2> QED BY <2>2 DEF ChunkEnd
<1> QED BY <1>2, <1>5, <1>6, <1>7

\* The first n units of a chunk, which is what a short write passes on.
LEMMA FirstUnits ==
    ASSUME NEW s \in Seq(ImageUnits), NEW n \in 0 .. Len(s)
    PROVE  /\ SubSeq(s, 1, n) \in Seq(ImageUnits) /\ Len(SubSeq(s, 1, n)) = n
           /\ \A i \in 1 .. n : SubSeq(s, 1, n)[i] = s[i]
<1>1. Len(s) \in Nat /\ \A i \in 1 .. n : s[i] \in ImageUnits
  OBVIOUS
<1> QED BY <1>1, SubSeqProperties

LEMMA DataIs ==
    ASSUME NEW u \in Seq(ImageUnits)
    PROVE  [kind |-> "data", units |-> u] \in Messages
BY DEF Messages, ImageUnits

LEMMA ReceivesTypes ==
    ASSUME WireOK, Receives
    PROVE  Head(toHost) \in Answers /\ toHost' \in Seq(Answers)
BY HeadTailProperties DEF WireOK, Receives

\* Every step of the host keeps the types.
LEMMA HostTypes == ASSUME Typed, Host PROVE Typed'
<1> USE DEF Typed
<1>1. CASE NextPartition
  <2>1. active' \in BOOLEAN /\ op = "flash"
    BY <1>1 DEF NextPartition, HostTyped, HostOK, Control
  <2>2. HostTyped'
    <3>1. CASE todo = <<>>
      <4>1. \E o \in Outcomes : Ends(o)
        BY <1>1, <3>1 DEF NextPartition, Verdict, Outcomes
      <4> QED BY <2>1, <4>1, ReturnsTypes
    <3>2. CASE todo # <<>> /\ Head(todo) \notin Package
      BY <1>1, <2>1, <3>2, SettledTypes DEF NextPartition
    <3>3. CASE todo # <<>> /\ Head(todo) \in Package /\ ~active
      BY <1>1, <2>1, <3>3, ReturnsTypes DEF NextPartition, Outcomes
    <3>4. CASE todo # <<>> /\ Head(todo) \in Package /\ active
      BY <1>1, <2>1, <3>4 DEF NextPartition, GoesTo, HostTyped, HostOK, Control
    <3> QED BY <3>1, <3>2, <3>3, <3>4
  <2> QED BY <1>1, <2>2 DEF NextPartition, wire, device, bounds, WireOK, DeviceTyped, DeviceOK, BoundsOK
<1>2. CASE SendRequest
  <2>1. HostTyped'
    BY <1>2 DEF SendRequest, GoesTo, HostTyped, HostOK, Control
  <2>2. toDev' \in Seq(Messages)
    BY <1>2, RequestIs, AppendProperties DEF SendRequest, WireOK
  <2> QED BY <1>2, <2>1, <2>2 DEF SendRequest, device, bounds, WireOK, DeviceTyped, DeviceOK, BoundsOK
<1>3. CASE ReceiveResponse
  <2>1. HostTyped'
    BY <1>3, RespondedTypes DEF ReceiveResponse
  <2>2. toHost' \in Seq(Answers)
    BY <1>3, ReceivesTypes DEF ReceiveResponse
  <2> QED BY <1>3, <2>1, <2>2 DEF ReceiveResponse, device, bounds, WireOK, DeviceTyped, DeviceOK, BoundsOK
<1>4. CASE ResponseTimesOut
  <2>1. HostTyped' /\ strayed' \in BOOLEAN
    BY <1>4, RespondedTypes DEF ResponseTimesOut, GivesUp, BoundsOK
  <2> QED BY <1>4, <2>1 DEF ResponseTimesOut, wire, device, WireOK, DeviceTyped, DeviceOK, BoundsOK
<1>5. CASE RequestFails
  <2>1. HostTyped'
    BY <1>5, RespondedTypes DEF RequestFails
  <2>3. strayed' \in BOOLEAN
    BY <1>5 DEF RequestFails, BoundsOK
  <2>4. faults' \in 0 .. MaxFaults
    BY <1>5, SessionAssumption DEF RequestFails, BoundsOK
  <2>2. toDev' \in Seq(Messages)
    BY <1>5, RequestIs, AppendProperties DEF RequestFails, WireOK
  <2> QED BY <1>5, <2>1, <2>2, <2>3, <2>4 DEF RequestFails, device, WireOK, DeviceTyped, DeviceOK, BoundsOK
<1>6. CASE SendChunk
  <2>1. PICK n \in 0 .. Len(Chunk) :
            /\ IF n = Len(Chunk) THEN faults' = faults
               ELSE faults < MaxFaults /\ faults' = faults + 1
            /\ toDev' = Append(toDev, [kind |-> "data", units |-> SubSeq(Chunk, 1, n)])
    BY <1>6 DEF SendChunk
  <2>2. /\ Chunk \in Seq(ImageUnits) /\ Len(Chunk) = ChunkEnd(sent) - sent
        /\ ChunkEnd(sent) \in sent + 1 .. Units[Head(todo)]
        /\ \/ ChunkEnd(sent) = Units[Head(todo)]
           \/ \E m \in Nat : ChunkEnd(sent) = m * ChunkUnits
    BY <1>6, ChunkIs DEF SendChunk
  <2>3. sent \in Nat /\ Head(todo) \in Package /\ Units[Head(todo)] \in Nat
    BY <1>6, SessionAssumption DEF SendChunk, HostTyped, HostOK, Control
  <2>4. sent' = ChunkEnd(sent) /\ sent' \in Nat /\ sent' <= Units[Head(todo)]
    BY <1>6, <2>2, <2>3 DEF SendChunk
  <2>5. HostTyped'
    BY <1>6, <2>2, <2>3, <2>4 DEF SendChunk, HostTyped, HostOK, Control
  <2>6. toDev' \in Seq(Messages)
    BY <2>1, <2>2, FirstUnits, DataIs, AppendProperties DEF WireOK
  <2>7. faults' \in 0 .. MaxFaults
    BY <2>1, SessionAssumption DEF BoundsOK
  <2> QED BY <1>6, <2>5, <2>6, <2>7 DEF SendChunk, device, WireOK, DeviceTyped, DeviceOK, BoundsOK
<1>7. CASE ReceiveAck
  <2>1. HostTyped'
    BY <1>7, AcknowledgedTypes DEF ReceiveAck
  <2>2. toHost' \in Seq(Answers)
    BY <1>7, ReceivesTypes DEF ReceiveAck
  <2> QED BY <1>7, <2>1, <2>2 DEF ReceiveAck, device, bounds, WireOK, DeviceTyped, DeviceOK, BoundsOK
<1>8. CASE AckTimesOut
  <2>1. HostTyped' /\ strayed' \in BOOLEAN
    BY <1>8, AcknowledgedTypes DEF AckTimesOut, GivesUp, BoundsOK
  <2> QED BY <1>8, <2>1 DEF AckTimesOut, wire, device, WireOK, DeviceTyped, DeviceOK, BoundsOK
<1>9. CASE DeviceIsGone
  <2>1. HostTyped'
    <3>1. CASE pc \in {"request", "response"}
      BY <1>9, <3>1, RespondedTypes DEF DeviceIsGone
    <3>2. CASE pc \in {"chunk", "ack"}
      <4>1. /\ op = "flash" /\ todo # <<>> /\ active' = active /\ active \in BOOLEAN
            /\ Throws("exception") \/ Settled(FALSE) \/ (pc = "ack" /\ Acknowledged("empty"))
        BY <1>9, <3>2 DEF DeviceIsGone, HostTyped, HostOK, Control
      <4> QED BY <4>1, ReturnsTypes, SettledTypes, AcknowledgedTypes DEF Outcomes
    <3> QED BY <1>9, <3>1, <3>2 DEF DeviceIsGone
  <2> QED BY <1>9, <2>1 DEF DeviceIsGone, wire, device, bounds, WireOK, DeviceTyped, DeviceOK, BoundsOK
<1> QED BY <1>1, <1>2, <1>3, <1>4, <1>5, <1>6, <1>7, <1>8, <1>9 DEF Host

\* What the device has taken, cut at the end of the image.
LEMMA TakenIs ==
    ASSUME DeviceTyped, dev = "transfer", NEW u \in Seq(ImageUnits)
    PROVE  LET got == flash[target] \o u
               new == SubSeq(got, 1, IF Len(got) <= Units[target] THEN Len(got) ELSE Units[target])
           IN  /\ got \in Seq(ImageUnits) /\ Len(got) = Len(flash[target]) + Len(u)
               /\ new \in Seq(ImageUnits)
               /\ Len(got) <= Units[target] => new = got
<1> DEFINE got == flash[target] \o u
           n == IF Len(got) <= Units[target] THEN Len(got) ELSE Units[target]
<1>1. flash[target] \in Seq(ImageUnits)
  BY DEF DeviceTyped, DeviceOK, ImageUnits
<1>2. got \in Seq(ImageUnits) /\ Len(got) = Len(flash[target]) + Len(u) /\ Len(got) \in Nat
  BY <1>1, ConcatProperties
<1>3. Units[target] \in Nat
  BY SessionAssumption DEF DeviceTyped
<1>4. n \in 0 .. Len(got)
  BY <1>2, <1>3
<1>5. SubSeq(got, 1, n) \in Seq(ImageUnits)
  <2> HIDE DEF got, n
  <2> QED BY <1>2, <1>4, FirstUnits
<1>6. SubSeq(got, 1, Len(got)) = got
  <2> HIDE DEF got
  <2> QED BY <1>2, SubSeqFull
<1> QED BY <1>2, <1>5, <1>6

\* Every step of the device keeps the types.
LEMMA DeviceTypes == ASSUME Typed, Device PROVE Typed'
<1> USE DEF Typed
<1>1. CASE DeviceReceives
  <2> DEFINE m == Head(toDev)
  <2>1. m \in Messages /\ toDev' \in Seq(Messages)
    BY <1>1, HeadTailProperties DEF DeviceReceives, WireOK
  <2>2. DeviceTakes(m) /\ UNCHANGED <<host, strayed, bounds>>
    BY <1>1 DEF DeviceReceives
  <2>3. HostTyped' /\ BoundsOK'
    BY <2>2 DEF host, bounds, HostTyped, HostOK, Control, BoundsOK
  <2>4. ASSUME NEW a \in Answers, Replies(a) PROVE toHost' \in Seq(Answers)
    BY <2>4, AppendProperties DEF Replies, WireOK
  <2>5. "OK" \in Answers /\ "NAK" \in Answers /\ "info" \in Answers
    BY DEF Answers
  <2>6. ASSUME toHost' \in Seq(Answers), Stays,
               dev' \in {"idle", "session", "off"} \/ dev' = dev
        PROVE  Typed'
    BY <2>1, <2>3, <2>6 DEF Stays, WireOK, DeviceTyped, DeviceOK
  <2>7. CASE m.kind = "file" /\ dev \in {"session", "transfer"}
    <3>1. CASE /\ Replies("OK") /\ target' = m.name
               /\ flash' = [flash EXCEPT ![m.name] = <<>>]
               /\ dev' = IF Units[m.name] = 0 THEN "session" ELSE "transfer"
               /\ link' = link
      <4>1. m.name \in Package
        BY <2>1, <2>7 DEF Messages, Plain
      <4>2. toHost' \in Seq(Answers)
        BY <2>4, <2>5, <3>1
      <4>3. flash' \in [Package -> Seq(Package \X Nat)]
        <5>1. <<>> \in Seq(Package \X Nat)
          OBVIOUS
        <5> QED BY <3>1, <5>1 DEF DeviceTyped, DeviceOK
      <4> QED BY <2>1, <2>3, <3>1, <4>1, <4>2, <4>3 DEF WireOK, DeviceTyped, DeviceOK
    <3>2. CASE Replies("NAK") /\ dev' \in {dev, "session"} /\ Stays
      BY <2>4, <2>5, <2>6, <3>2
    <3> QED BY <2>2, <2>7, <3>1, <3>2 DEF DeviceTakes
  <2>8. CASE m.kind = "data" /\ dev = "transfer"
    <3> DEFINE got == flash[target] \o m.units
               new == SubSeq(got, 1, IF Len(got) <= Units[target] THEN Len(got)
                                                                  ELSE Units[target])
    <3>1. m.units \in Seq(ImageUnits)
      BY <2>1, <2>8 DEF Messages, Plain, ImageUnits
    <3>2. new \in Seq(ImageUnits)
      BY <2>8, <3>1, TakenIs
    <3> HIDE DEF got
    <3>3. /\ flash' = [flash EXCEPT ![target] = new] /\ UNCHANGED <<target, link>>
          /\ \/ UNCHANGED <<toHost, dev>>
             \/ Replies("NAK") /\ dev' = "session"
             \/ Replies("OK") /\ dev' \in {"session", dev}
      <4> USE DEF got
      <4> QED BY <2>2, <2>8 DEF DeviceTakes
    <3>4. flash' \in [Package -> Seq(Package \X Nat)] /\ target \in Package
      BY <2>8, <3>2, <3>3 DEF DeviceTyped, DeviceOK, ImageUnits
    <3>5. toHost' \in Seq(Answers)
      BY <2>4, <2>5, <3>3 DEF WireOK
    <3> QED BY <2>1, <2>3, <3>3, <3>4, <3>5 DEF WireOK, DeviceTyped, DeviceOK
  <2>9. CASE ~(m.kind = "file" /\ dev \in {"session", "transfer"})
               /\ ~(m.kind = "data" /\ dev = "transfer")
    <3>1. Stays /\ \/ \E a \in Answers : Replies(a)
                   \/ toHost' = toHost
      BY <2>2, <2>5, <2>9 DEF DeviceTakes
    <3>2. dev' \in {"idle", "session", "off"} \/ dev' = dev
      BY <2>2, <2>9 DEF DeviceTakes
    <3> QED BY <2>4, <2>6, <3>1, <3>2 DEF WireOK
  <2> QED BY <2>7, <2>8, <2>9
<1>2. CASE DeviceLeaves \/ Unplugged
  <2>1. Leaves /\ UNCHANGED <<host, target, flash, calls, strayed, returns>>
    BY <1>2 DEF DeviceLeaves, Unplugged, bounds
  <2>2. faults' \in 0 .. MaxFaults
    BY <1>2, SessionAssumption DEF DeviceLeaves, Unplugged, bounds, BoundsOK
  <2> QED BY <2>1, <2>2 DEF Leaves, host, HostTyped, HostOK, Control, WireOK, DeviceTyped, DeviceOK, BoundsOK
<1>3. CASE DeviceReturns
  <2>1. returns' \in 0 .. MaxReturns
    BY <1>3, SessionAssumption DEF DeviceReturns, BoundsOK
  <2> QED BY <1>3, <2>1
        DEF DeviceReturns, host, HostTyped, HostOK, Control, WireOK, DeviceTyped, DeviceOK, BoundsOK
<1> QED BY <1>1, <1>2, <1>3 DEF Device

\* So does a call, and its cancellation.
LEMMA CallerTypes == ASSUME Typed, Caller PROVE Typed'
<1> USE DEF Typed
<1>0. calls < MaxCalls => calls + 1 \in 0 .. MaxCalls
  BY SessionAssumption DEF BoundsOK
<1>1. ASSUME NEW o \in Plain, Start(o) PROVE Typed'
  <2>1. HostTyped'
    BY <1>1 DEF Start, HostTyped, HostOK, Control, Plain
  <2> QED BY <1>0, <1>1, <2>1 DEF Start, wire, device, WireOK, DeviceTyped, DeviceOK, BoundsOK
<1>2. ASSUME NEW l \in Lists, FlashFirmware(l) PROVE Typed'
  <2>1. HostTyped'
    <3>1. sent' = 0
      BY <1>2 DEF FlashFirmware, HostTyped, Control
    <3>2. HostOK'
      <4>1. IsRest(todo')
        BY <1>2, ListIs DEF FlashFirmware
      <4>2. ok' \subseteq Package /\ failed' \subseteq Listed /\ sent' \in Nat /\ active' \in BOOLEAN
        BY <1>2 DEF FlashFirmware, HostTyped, HostOK
      <4>3. pc' = "next" /\ op' = "flash" /\ outcome' = "none"
        BY <1>2 DEF FlashFirmware
      <4> QED BY <4>1, <4>2, <4>3 DEF HostOK, IsRest
    <3>3. Control'
      BY <1>2, <3>1 DEF FlashFirmware, Control
    <3> QED BY <3>2, <3>3 DEF HostTyped
  <2> QED BY <1>0, <1>2, <2>1 DEF FlashFirmware, wire, device, WireOK, DeviceTyped, DeviceOK, BoundsOK
<1>3. CASE Cancel
  <2>1. HostTyped'
    BY <1>3, ReturnsTypes DEF Cancel, HostTyped, HostOK, Outcomes
  <2>2. strayed' \in BOOLEAN
    BY <1>3 DEF Cancel, GivesUp, BoundsOK
  <2> QED BY <1>3, <2>1, <2>2 DEF Cancel, wire, device, WireOK, DeviceTyped, DeviceOK, BoundsOK
<1> QED BY <1>1, <1>2, <1>3 DEF Caller

LEMMA TypedStep == Typed /\ [Next]_vars => Typed'
<1>1. Typed /\ UNCHANGED vars => Typed'
  BY DEF vars, host, wire, device, bounds, Typed, HostTyped, HostOK, Control, WireOK,
         DeviceTyped, DeviceOK, BoundsOK
<1> QED BY <1>1, HostTypes, DeviceTypes, CallerTypes DEF Next

LEMMA TypedInvariant == Spec => []Typed
<1>1. Init => Typed
  <2> SUFFICES ASSUME Init PROVE Typed
    OBVIOUS
  <2>1. \A p \in Package : Old(p) \in Seq(Package \X Nat)
    BY DEF Old
  <2>2. HostTyped
    BY DEF Init, HostTyped, HostOK, Control, Plain
  <2>3. WireOK /\ DeviceTyped
    BY <2>1 DEF Init, WireOK, DeviceTyped, DeviceOK
  <2>4. BoundsOK
    <3>1. {0} \subseteq 0 .. MaxCalls /\ {0} \subseteq 0 .. MaxFaults /\ {0} \subseteq 0 .. MaxReturns
      BY SessionAssumption
    <3> QED BY <3>1 DEF Init, BoundsOK
  <2> QED BY <2>2, <2>3, <2>4 DEF Typed
<1> QED BY <1>1, TypedStep, PTL DEF Spec

\* Every variable of the session keeps its type (TypeOK of DownloadModeSession):
\* whatever the device answers and whenever, no transfer is of a partition that the
\* package has no image of, and no offset is outside an image.
THEOREM SessionTypes == Spec => []TypeOK
<1>1. Typed => TypeOK
  BY DEF Typed, HostTyped, DeviceTyped, TypeOK
<1> QED BY <1>1, TypedInvariant, PTL

(* ---------------------------- in step, proved --------------------------- *)

StepInv == GoneIsQuiet /\ InStep

\* Where an answer to a request, or to a chunk, takes the host.
LEMMA RespondedGoes ==
    ASSUME HostTyped, pc \in {"request", "response"}, NEW a, Responded(a)
    PROVE  \/ pc' \in {"idle", "next"}
           \/ a = "OK" /\ op = "flash" /\ Units[Head(todo)] # 0 /\ GoesTo("chunk")
<1>1. op \in Plain \cup {"flash"}
  BY DEF HostTyped, HostOK, Control
<1> QED BY <1>1 DEF Responded, Begins, Ends, Throws, Returns, Settled, Plain

LEMMA AcknowledgedGoes ==
    ASSUME NEW a, Acknowledged(a)
    PROVE  \/ pc' = "next"
           \/ a = "OK" /\ sent # Units[Head(todo)] /\ GoesTo("chunk")
BY DEF Acknowledged, Acked, Settled

\* Where nothing is waited for, nothing is on its way.
LEMMA RestsInStep ==
    ASSUME pc' \in {"idle", "next", "request"}, Quiet'
    PROVE  StepInv'
BY DEF StepInv, GoneIsQuiet, InStep

LEMMA StrayedInStep ==
    ASSUME strayed', link' # "gone" \/ Quiet'
    PROVE  StepInv'
BY DEF StepInv, GoneIsQuiet, InStep

LEMMA HostInStep == ASSUME Typed, StepInv, Host PROVE StepInv'
<1> USE RestsInStep, StrayedInStep
<1>0. HostTyped /\ WireOK /\ strayed \in BOOLEAN /\ GoneIsQuiet /\ InStep
  BY DEF Typed, BoundsOK, StepInv
<1>1. CASE NextPartition
  <2>1. pc' \in {"idle", "next", "request"} /\ UNCHANGED <<wire, strayed>>
    BY <1>1 DEF NextPartition, Ends, Throws, Returns, Settled, GoesTo
  <2>2. strayed \/ Quiet
    BY <1>0, <1>1 DEF InStep, NextPartition
  <2> QED BY <1>0, <2>1, <2>2 DEF wire, Quiet, GoneIsQuiet
<1>2. CASE SendRequest
  <2>1. UNCHANGED <<op, todo, sent, toHost, link, strayed>> /\ link = "up" /\ pc' = "response"
    BY <1>2 DEF SendRequest, GoesTo
  <2>2. CASE strayed
    BY <1>0, <2>1, <2>2
  <2>3. CASE ~strayed
    <3>1. toDev' = <<Request>> /\ toHost' = <<>>
      BY <1>0, <1>2, <2>1, <2>3 DEF InStep, Quiet, SendRequest
    <3>2. Request' = Request
      BY <2>1 DEF Request
    <3> QED BY <2>1, <3>1, <3>2 DEF StepInv, GoneIsQuiet, InStep, AwaitsResponse
  <2> QED BY <1>0, <2>2, <2>3
<1>3. CASE ReceiveResponse
  <2>1. link = "up" /\ toHost # <<>> /\ pc = "response" /\ Responded(Head(toHost))
        /\ toHost' = Tail(toHost) /\ UNCHANGED <<toDev, link, dev, target, flash, strayed>>
    BY <1>3 DEF ReceiveResponse, Receives, device
  <2>2. CASE strayed
    BY <2>1, <2>2
  <2>3. CASE ~strayed
    <3>1. toDev = <<>> /\ \E a \in Answers : toHost = <<a>> /\ (a = "OK" => Granted)
      BY <1>0, <2>1, <2>3 DEF InStep, AwaitsResponse, Quiet
    <3>2. PICK a \in Answers : toHost = <<a>> /\ (a = "OK" => Granted)
      BY <3>1
    <3>3. Quiet' /\ Responded(a)
      BY <2>1, <3>1, <3>2 DEF Quiet
    <3>4. CASE pc' \in {"idle", "next"}
      BY <3>3, <3>4
    <3>5. CASE a = "OK" /\ op = "flash" /\ Units[Head(todo)] # 0 /\ GoesTo("chunk")
      <4>1. Granted /\ sent = 0
        BY <1>0, <2>1, <3>2, <3>5 DEF HostTyped, Control
      <4>2. Receiving(sent)
        BY <3>5, <4>1 DEF Granted, Receiving
      <4>3. Receiving(sent)'
        BY <2>1, <3>5, <4>2 DEF GoesTo, Receiving, Holds
      <4> QED BY <3>3, <3>5, <4>3 DEF GoesTo, StepInv, GoneIsQuiet, InStep
    <3> QED BY <1>0, <2>1, <3>3, <3>4, <3>5, RespondedGoes
  <2> QED BY <1>0, <2>2, <2>3
<1>4. CASE ResponseTimesOut
  <2>1. pc' \in {"idle", "next"} /\ UNCHANGED wire /\ link = "up"
    BY <1>0, <1>4, RespondedGoes DEF ResponseTimesOut
  <2>2. strayed' \/ Quiet
    BY <1>4 DEF ResponseTimesOut, GivesUp, Quiet
  <2> QED BY <2>1, <2>2 DEF wire, Quiet
<1>5. CASE RequestFails
  <2>1. pc' \in {"idle", "next"} /\ UNCHANGED <<toHost, link>> /\ link = "up"
    BY <1>0, <1>5, RespondedGoes DEF RequestFails
  <2>2. strayed' \/ (UNCHANGED <<strayed, toDev>> /\ ~strayed)
    BY <1>0, <1>5 DEF RequestFails
  <2>3. ~strayed => Quiet
    BY <1>0, <1>5 DEF RequestFails, InStep
  <2> QED BY <2>1, <2>2, <2>3 DEF Quiet
<1>6. CASE SendChunk
  <2>1. /\ UNCHANGED <<op, todo, toHost, link, dev, target, flash, strayed>> /\ link = "up"
        /\ pc = "chunk" /\ pc' = "ack" /\ sent' = sent + Len(Chunk)
    BY <1>6 DEF SendChunk, device
  <2>2. CASE strayed
    BY <2>1, <2>2
  <2>3. CASE ~strayed
    <3>1. Quiet /\ Receiving(sent)
      BY <1>0, <2>1, <2>3 DEF InStep
    <3>2. PICK k \in 0 .. Len(Chunk) :
              toDev' = Append(toDev, [kind |-> "data", units |-> SubSeq(Chunk, 1, k)])
      BY <1>6 DEF SendChunk
    <3>a. PICK u : u = SubSeq(Chunk, 1, k)
      OBVIOUS
    <3>b. PICK m : m = [kind |-> "data", units |-> u]
      OBVIOUS
    <3>3. /\ Chunk \in Seq(ImageUnits) /\ Len(Chunk) = ChunkEnd(sent) - sent
          /\ ChunkEnd(sent) \in sent + 1 .. Units[Head(todo)]
          /\ \A i \in 1 .. Len(Chunk) : Chunk[i] = <<Head(todo), sent + i>>
      BY <1>0, <2>1, ChunkIs
    <3>4. PICK n \in Nat : sent = n * ChunkUnits
      BY <1>0, <2>1 DEF HostTyped, Control
    <3>5. sent \in Nat /\ sent < Units[Head(todo)] /\ Units[Head(todo)] \in Nat
      BY <1>0, <2>1, SessionAssumption DEF HostTyped, HostOK, Control
    <3>6. /\ u \in Seq(ImageUnits) /\ Len(u) = k
          /\ \A i \in 1 .. k : u[i] = Chunk[i]
      BY <3>a, <3>2, <3>3, FirstUnits
    <3>7. m \in Messages
      BY <3>b, <3>6, DataIs
    <3>8. sent' = ChunkEnd(sent) /\ k <= ChunkEnd(sent) - sent
      BY <2>1, <3>2, <3>3, <3>5
    <3>9. ChunkEnd(sent)' = IF sent' + ChunkUnits <= Units[Head(todo)]
                             THEN sent' + ChunkUnits ELSE Units[Head(todo)]
      BY <2>1 DEF ChunkEnd
    <3>10. IsChunk(m, n)'
      <4>1. sent' = (IF n * ChunkUnits + ChunkUnits <= Units[Head(todo)]
                     THEN n * ChunkUnits + ChunkUnits ELSE Units[Head(todo)])
        BY <3>4, <3>8 DEF ChunkEnd
      <4>2. n * ChunkUnits + Len(u) <= sent'
        BY <3>2, <3>3, <3>4, <3>5, <3>6, <3>8
      <4>3. \A i \in 1 .. Len(u) : u[i] = <<Head(todo), n * ChunkUnits + i>>
        BY <3>2, <3>3, <3>4, <3>6
      <4>4. n * ChunkUnits < Units[Head(todo)]
        BY <3>4, <3>5
      <4>5. ImageUnits' = ImageUnits
        BY DEF ImageUnits
      <4>6. m.kind = "data" /\ m.units = u
        BY <3>b
      <4> QED BY <2>1, <4>5, <4>6, <3>6, <4>1, <4>2, <4>3, <4>4 DEF IsChunk, ChunkEnd
    <3>11. Receiving(n * ChunkUnits)'
      BY <2>1, <3>1, <3>4 DEF Receiving, Holds
    <3>12. toDev' = <<m>> /\ toHost' = <<>>
      BY <2>1, <3>1, <3>2, <3>a, <3>b DEF Quiet
    <3>13. AwaitsAck'
      <4>1. Messages' = Messages
        BY DEF Messages
      <4> QED BY <3>4, <3>7, <3>10, <3>11, <3>12, <4>1 DEF AwaitsAck
    <3> QED BY <2>1, <3>13 DEF StepInv, GoneIsQuiet, InStep
  <2> QED BY <1>0, <2>2, <2>3
<1>7. CASE ReceiveAck
  <2>1. link = "up" /\ toHost # <<>> /\ pc = "ack" /\ Acknowledged(Head(toHost))
        /\ toHost' = Tail(toHost) /\ UNCHANGED <<toDev, link, dev, target, flash, strayed>>
    BY <1>7 DEF ReceiveAck, Receives, device
  <2>2. CASE strayed
    BY <2>1, <2>2
  <2>3. CASE ~strayed
    <3>1. toDev = <<>> /\ \E a \in Answers : toHost = <<a>> /\ (a = "OK" => ChunkArrived)
      BY <1>0, <2>1, <2>3 DEF InStep, AwaitsAck, Quiet
    <3>2. PICK a \in Answers : toHost = <<a>> /\ (a = "OK" => ChunkArrived)
      BY <3>1
    <3>3. Quiet' /\ Acknowledged(a)
      BY <2>1, <3>1, <3>2 DEF Quiet
    <3>4. CASE pc' = "next"
      BY <3>3, <3>4
    <3>5. CASE a = "OK" /\ sent # Units[Head(todo)] /\ GoesTo("chunk")
      <4>1. Receiving(sent)
        BY <3>2, <3>5 DEF ChunkArrived, Receiving
      <4>2. Receiving(sent)'
        BY <2>1, <3>5, <4>1 DEF GoesTo, Receiving, Holds
      <4> QED BY <3>3, <3>5, <4>2 DEF GoesTo, StepInv, GoneIsQuiet, InStep
    <3> QED BY <3>3, <3>4, <3>5, AcknowledgedGoes
  <2> QED BY <1>0, <2>2, <2>3
<1>8. CASE AckTimesOut
  <2>1. pc' = "next" /\ UNCHANGED wire /\ link = "up"
    BY <1>8, AcknowledgedGoes DEF AckTimesOut
  <2>2. strayed' \/ Quiet
    BY <1>8 DEF AckTimesOut, GivesUp, Quiet
  <2> QED BY <2>1, <2>2 DEF wire, Quiet
<1>9. CASE DeviceIsGone
  <2>1. pc' \in {"idle", "next"}
    <3>1. CASE pc \in {"request", "response"}
      BY <1>0, <1>9, <3>1, RespondedGoes DEF DeviceIsGone
    <3>2. CASE pc \in {"chunk", "ack"}
      BY <1>9, <3>2, AcknowledgedGoes DEF DeviceIsGone, Throws, Returns, Settled
    <3> QED BY <1>9, <3>1, <3>2 DEF DeviceIsGone
  <2>2. Quiet /\ UNCHANGED wire
    BY <1>0, <1>9 DEF DeviceIsGone, GoneIsQuiet
  <2> QED BY <2>1, <2>2 DEF wire, Quiet
<1> QED BY <1>1, <1>2, <1>3, <1>4, <1>5, <1>6, <1>7, <1>8, <1>9 DEF Host

Ending == {"end", "dispose", "reboot"}

\* What the device makes of the request of the transfer the host is at.
LEMMA RequestTaken ==
    ASSUME HostTyped, DeviceTyped, pc = "response", toHost = <<>>, DeviceTakes(Request)
    PROVE  /\ link' = link
           /\ toHost' = <<>> \/ \E a \in Answers : toHost' = <<a>>
           /\ toHost' = <<"OK">> =>
                /\ op = "initialize" => dev' = "session"
                /\ op = "flash" => /\ flash' = [flash EXCEPT ![Head(todo)] = <<>>]
                                   /\ target' = Head(todo)
                                   /\ Units[Head(todo)] # 0 => dev' = "transfer"
           /\ flash' = flash \/ (op = "flash" /\ flash' = [flash EXCEPT ![Head(todo)] = <<>>])
           /\ dev' = dev \/ dev' \in {"session", "transfer"} \/ (dev' = "off" /\ op \in Ending)
<1>1. op \in Plain \cup {"flash"}
  BY DEF HostTyped, HostOK, Control
<1>2. /\ op # "flash" => Request.kind = IF op = "dispose" THEN "end" ELSE op
      /\ op = "flash" => Request.kind = "file" /\ Request.name = Head(todo)
  BY DEF Request
<1>3. "OK" # "NAK" /\ "OK" # "info" /\ {"OK", "NAK", "info"} \subseteq Answers
  BY DEF Answers
<1>4. ASSUME NEW a, Replies(a) PROVE toHost' = <<a>>
  BY <1>4 DEF Replies
<1>5. <<"OK">> # <<"NAK">> /\ <<"OK">> # <<"info">> /\ <<"OK">> # <<>>
  <2>1. <<"OK">>[1] # <<"NAK">>[1] /\ <<"OK">>[1] # <<"info">>[1]
    BY <1>3
  <2> QED BY <2>1
<1>6. CASE op = "initialize"
  <2>1. Request.kind = "initialize"
    BY <1>2, <1>6
  <2>2. \/ dev # "off" /\ Replies("OK") /\ dev' = "session" /\ Stays
        \/ dev # "off" /\ Replies("NAK") /\ dev' = dev /\ Stays
        \/ UNCHANGED <<toHost, dev>> /\ Stays
    BY <2>1 DEF DeviceTakes
  <2> QED BY <1>3, <1>4, <1>5, <1>6, <2>2 DEF Stays
<1>7. CASE op \in {"identify", "pit"}
  <2>1. Request.kind \in {"identify", "pit"}
    BY <1>2, <1>7
  <2>2. \/ dev # "off" /\ Replies("info") /\ dev' = dev /\ Stays
        \/ UNCHANGED <<toHost, dev>> /\ Stays
    BY <2>1 DEF DeviceTakes
  <2> QED BY <1>3, <1>4, <1>5, <1>7, <2>2 DEF Stays
<1>8. CASE op \in Ending
  <2>1. Request.kind \in {"end", "reboot"}
    BY <1>2, <1>8 DEF Ending
  <2>2. \/ dev # "off" /\ Replies("OK") /\ dev' = "off" /\ Stays
        \/ UNCHANGED <<toHost, dev>> /\ Stays
    BY <2>1 DEF DeviceTakes
  <2> QED BY <1>3, <1>4, <1>8, <2>2 DEF Stays, Ending
<1>9. CASE op = "flash"
  <2>1. Request.kind = "file" /\ Request.name = Head(todo)
    BY <1>2, <1>9
  <2>2. \/ /\ Replies("OK") /\ target' = Head(todo)
           /\ flash' = [flash EXCEPT ![Head(todo)] = <<>>]
           /\ dev' = IF Units[Head(todo)] = 0 THEN "session" ELSE "transfer"
           /\ link' = link
        \/ dev # "off" /\ Replies("NAK") /\ dev' \in {dev, "session"} /\ Stays
        \/ UNCHANGED <<toHost, dev>> /\ Stays
    BY <2>1 DEF DeviceTakes, DeviceTyped, DeviceOK
  <2> QED BY <1>3, <1>4, <1>5, <1>9, <2>2 DEF Stays
<1> QED BY <1>1, <1>6, <1>7, <1>8, <1>9 DEF Plain, Ending

\* Units of the image of p, those after the first b of it.
After(p, b, s) == \A i \in 1 .. Len(s) : s[i] = <<p, b + i>>

LEMMA UnitsAppended ==
    ASSUME NEW p \in Package, NEW s \in Seq(ImageUnits), NEW u \in Seq(ImageUnits),
           After(p, 0, s), After(p, Len(s), u)
    PROVE  s \o u \in Seq(ImageUnits) /\ Len(s \o u) = Len(s) + Len(u) /\ After(p, 0, s \o u)
<1>1. Len(s) \in Nat /\ Len(u) \in Nat
  BY LenProperties
<1>2. s \o u \in Seq(ImageUnits) /\ Len(s \o u) = Len(s) + Len(u)
  BY ConcatProperties
<1>3. ASSUME NEW i \in 1 .. Len(s) + Len(u) PROVE (s \o u)[i] = <<p, i>>
  <2>1. (s \o u)[i] = IF i <= Len(s) THEN s[i] ELSE u[i - Len(s)]
    BY ConcatProperties
  <2>2. CASE i <= Len(s)
    BY <1>1, <2>1, <2>2 DEF After
  <2>3. CASE i > Len(s)
    <3>1. i - Len(s) \in 1 .. Len(u) /\ Len(s) + (i - Len(s)) = i
      BY <1>1, <2>3
    <3> QED BY <2>1, <2>3, <3>1, <1>1 DEF After
  <2> QED BY <1>1, <2>2, <2>3
<1> QED BY <1>1, <1>2, <1>3 DEF After

\* What it makes of a chunk of the image, or of the first units of one: an answer
\* comes at the end of the chunk only.
LEMMA ChunkTaken ==
    ASSUME Typed, pc = "ack", toHost = <<>>, NEW n \in Nat, NEW m \in Messages,
           IsChunk(m, n), Receiving(n * ChunkUnits), DeviceTakes(m)
    PROVE  /\ link' = link /\ dev' \in {"session", "transfer"}
           /\ toHost' = <<>> \/ \E a \in Answers : toHost' = <<a>>
           /\ flash' = [flash EXCEPT ![Head(todo)] = flash[Head(todo)] \o m.units]
           /\ \A i \in 1 .. Len(flash'[Head(todo)]) : flash'[Head(todo)][i] = <<Head(todo), i>>
           /\ toHost' = <<"OK">> =>
                /\ Len(flash'[Head(todo)]) = sent
                /\ sent # Units[Head(todo)] => dev' = "transfer" /\ target' = Head(todo)
<1>a. PICK p : p = Head(todo)
  OBVIOUS
<1>b. PICK b : b = n * ChunkUnits
  OBVIOUS
<1>c. PICK got : got = flash[target] \o m.units
  OBVIOUS
<1>d. PICK new :
        new = SubSeq(got, 1, IF Len(got) <= Units[target] THEN Len(got) ELSE Units[target])
  OBVIOUS
<1>1. /\ m.kind = "data" /\ m.units \in Seq(ImageUnits) /\ dev = "transfer" /\ target = p
      /\ b < Units[p] /\ b + Len(m.units) <= sent
      /\ sent = (IF b + ChunkUnits <= Units[p] THEN b + ChunkUnits ELSE Units[p])
      /\ \A i \in 1 .. Len(m.units) : m.units[i] = <<p, b + i>>
      /\ Len(flash[p]) = b /\ \A i \in 1 .. b : flash[p][i] = <<p, i>>
  BY <1>a, <1>b DEF IsChunk, Receiving, Holds, ChunkEnd
<1>2. /\ p \in Package /\ Units[p] \in Nat /\ ChunkUnits \in Nat \ {0}
      /\ flash \in [Package -> Seq(ImageUnits)]
  BY <1>a, SessionAssumption DEF Typed, HostTyped, Control, DeviceTyped, DeviceOK, ImageUnits
<1>3. /\ b \in Nat /\ Len(m.units) \in Nat /\ sent \in Nat /\ sent <= Units[p]
      /\ flash[p] \in Seq(ImageUnits)
  BY <1>1, <1>2
<1>4. /\ got \in Seq(ImageUnits) /\ Len(got) = b + Len(m.units)
      /\ \A i \in 1 .. Len(got) : got[i] = <<p, i>>
  <2>1. PICK s : s = flash[p]
    OBVIOUS
  <2>2. PICK u : u = m.units
    OBVIOUS
  <2>3. /\ s \o u \in Seq(ImageUnits) /\ Len(s \o u) = b + Len(u)
        /\ \A i \in 1 .. b + Len(u) : (s \o u)[i] = <<p, i>>
    <3>1. s \in Seq(ImageUnits) /\ u \in Seq(ImageUnits) /\ Len(s) = b
      BY <2>1, <2>2, <1>1, <1>3
    <3>2. After(p, 0, s)
      BY <2>1, <1>1, <1>3 DEF After
    <3>3. After(p, Len(s), u)
      BY <2>2, <1>1, <3>1 DEF After
    <3>4. s \o u \in Seq(ImageUnits) /\ Len(s \o u) = Len(s) + Len(u) /\ After(p, 0, s \o u)
      BY <1>2, <3>1, <3>2, <3>3, UnitsAppended
    <3> QED BY <1>3, <3>1, <3>4, LenProperties DEF After
  <2> QED BY <1>c, <1>1, <2>1, <2>2, <2>3
<1>5. new = got
  <2>1. Len(got) <= Units[target]
    BY <1>1, <1>2, <1>3, <1>4
  <2> QED BY <1>d, <1>4, <2>1, SubSeqFull
<1>6. /\ flash' = [flash EXCEPT ![p] = got] /\ link' = link /\ target' = p
      /\ \/ UNCHANGED <<toHost, dev>>
         \/ Replies("NAK") /\ dev' = "session"
         \/ /\ Replies("OK") /\ dev' = (IF Len(got) = Units[p] THEN "session" ELSE dev)
            /\ Crossed(p, b, Len(got))
  <2>1. /\ flash' = [flash EXCEPT ![target] = new] /\ UNCHANGED <<target, link>>
        /\ \/ UNCHANGED <<toHost, dev>>
           \/ Replies("NAK") /\ dev' = "session"
           \/ /\ Replies("OK") /\ dev' = (IF Len(new) = Units[target] THEN "session" ELSE dev)
              /\ Crossed(target, Len(flash[target]), Len(new))
    BY <1>1, <1>c, <1>d DEF DeviceTakes
  <2> QED BY <1>1, <1>5, <2>1
<1>7. flash'[p] = got /\ flash' = [flash EXCEPT ![p] = flash[p] \o m.units]
  BY <1>1, <1>2, <1>c, <1>6
<1>8. ASSUME Crossed(p, b, Len(got)) PROVE Len(got) = sent
  <2>1. PICK k \in b + 1 .. Len(got) : k = Units[p] \/ k % ChunkUnits = 0
    BY <1>8 DEF Crossed, Boundary
  <2>2. k \in Nat /\ b < k /\ k <= sent /\ k <= Len(got) /\ Len(got) <= sent
    BY <1>1, <1>3, <1>4, <2>1
  <2>3. k = sent
    <3>1. PICK c : c = ChunkUnits
      OBVIOUS
    <3>2. PICK u : u = Units[p]
      OBVIOUS
    <3>3. c \in Nat \ {0} /\ u \in Nat /\ b = n * c /\ (k = u \/ k % c = 0)
      BY <1>b, <1>2, <2>1, <3>1, <3>2
    <3>4. sent = IF n * c + c <= u THEN n * c + c ELSE u
      BY <1>b, <1>1, <3>1, <3>2
    <3>5. n * c < k /\ k <= IF n * c + c <= u THEN n * c + c ELSE u
      BY <2>2, <3>3, <3>4
    <3>6. k = IF n * c + c <= u THEN n * c + c ELSE u
      BY <2>2, <3>3, <3>5, ChunkEndsAtBoundary
    <3> QED BY <3>4, <3>6
  <2> QED BY <1>3, <1>4, <2>2, <2>3
<1>9. ASSUME NEW a, Replies(a) PROVE toHost' = <<a>>
  BY <1>9 DEF Replies
<1>10. "OK" \in Answers /\ "NAK" \in Answers /\ <<"OK">> # <<"NAK">> /\ <<"OK">> # <<>>
  <2>1. <<"OK">>[1] # <<"NAK">>[1]
    OBVIOUS
  <2> QED BY <2>1 DEF Answers
<1>11. \A i \in 1 .. Len(flash'[p]) : flash'[p][i] = <<p, i>>
  BY <1>4, <1>7
<1>12. CASE UNCHANGED <<toHost, dev>>
  BY <1>a, <1>1, <1>6, <1>7, <1>10, <1>11, <1>12
<1>13. CASE Replies("NAK") /\ dev' = "session"
  BY <1>a, <1>6, <1>7, <1>9, <1>10, <1>11, <1>13
<1>14. CASE /\ Replies("OK") /\ dev' = (IF Len(got) = Units[p] THEN "session" ELSE dev)
            /\ Crossed(p, b, Len(got))
  <2>1. Len(got) = sent
    BY <1>8, <1>14
  <2>2. dev' \in {"session", "transfer"} /\ (sent # Units[p] => dev' = "transfer" /\ target' = p)
    BY <1>1, <1>6, <1>14, <2>1
  <2>3. toHost' = <<"OK">>
    BY <1>9, <1>14
  <2> QED BY <1>a, <1>6, <1>7, <1>10, <1>11, <2>1, <2>2, <2>3
<1> QED BY <1>6, <1>12, <1>13, <1>14

\* What the device may take in while host and device are in step.
LEMMA DeviceMeets ==
    ASSUME Typed, StepInv, ~strayed, DeviceReceives
    PROVE  /\ toDev' = <<>> /\ toHost = <<>> /\ link = "up"
           /\ \/ pc = "response" /\ DeviceTakes(Request)
              \/ /\ pc = "ack"
                 /\ \E n \in Nat, m \in Messages :
                       IsChunk(m, n) /\ Receiving(n * ChunkUnits) /\ DeviceTakes(m)
<1>1. toDev # <<>> /\ link = "up" /\ toDev' = Tail(toDev) /\ DeviceTakes(Head(toDev))
  BY DEF DeviceReceives
<1>2. InStep /\ pc \in {"idle", "next", "request", "response", "chunk", "ack"}
  BY DEF StepInv, Typed, HostTyped, HostOK
<1>3. pc \in {"response", "ack"}
  BY <1>1, <1>2 DEF InStep, Quiet
<1>4. CASE pc = "response"
  <2>1. toDev = <<Request>> /\ toHost = <<>>
    BY <1>1, <1>2, <1>4 DEF InStep, AwaitsResponse, Quiet
  <2> QED BY <1>1, <1>4, <2>1
<1>5. CASE pc = "ack"
  <2>1. toHost = <<>>
    BY <1>1, <1>2, <1>5 DEF InStep, AwaitsAck, Quiet
  <2>2. PICK n \in Nat, m \in Messages :
            toDev = <<m>> /\ IsChunk(m, n) /\ Receiving(n * ChunkUnits)
    BY <1>1, <1>2, <1>5 DEF InStep, AwaitsAck, Quiet
  <2>3. Head(toDev) = m /\ Tail(toDev) = <<>>
    BY <2>2
  <2> QED BY <1>1, <1>5, <2>1, <2>2, <2>3
<1> QED BY <1>3, <1>4, <1>5

LEMMA DeviceInStep == ASSUME Typed, StepInv, Device PROVE StepInv'
<1>0. HostTyped /\ DeviceTyped /\ WireOK /\ strayed \in BOOLEAN /\ GoneIsQuiet /\ InStep
  BY DEF Typed, BoundsOK, StepInv
<1>1. CASE DeviceReceives
  <2>1. UNCHANGED <<pc, op, todo, sent, strayed>> /\ link = "up"
    BY <1>1 DEF DeviceReceives, host
  <2>2. CASE strayed
    <3>1. link' = link
      <4>1. PICK m : m = Head(toDev)
        OBVIOUS
      <4>2. DeviceTakes(m)
        BY <1>1, <4>1 DEF DeviceReceives
      <4> QED BY <4>2 DEF DeviceTakes, Stays
    <3> QED BY <2>1, <2>2, <3>1, StrayedInStep
  <2>3. CASE ~strayed /\ pc = "response"
    <3>1. toDev' = <<>> /\ toHost = <<>> /\ DeviceTakes(Request)
      BY <1>1, <2>3, DeviceMeets
    <3>2. /\ link' = link
          /\ toHost' = <<>> \/ \E a \in Answers : toHost' = <<a>>
          /\ toHost' = <<"OK">> =>
               /\ op = "initialize" => dev' = "session"
               /\ op = "flash" => /\ flash' = [flash EXCEPT ![Head(todo)] = <<>>]
                                  /\ target' = Head(todo)
                                  /\ Units[Head(todo)] # 0 => dev' = "transfer"
      BY <1>0, <2>3, <3>1, RequestTaken
    <3>3. toHost' = <<"OK">> => Granted'
      <4>1. op = "flash" => Head(todo) \in Package /\ flash \in [Package -> Seq(Package \X Nat)]
        BY <1>0, <2>3 DEF HostTyped, Control, DeviceTyped, DeviceOK
      <4>2. ASSUME toHost' = <<"OK">>, op = "flash" PROVE Holds(Head(todo), 0)'
        <5>1. flash'[Head(todo)] = <<>> /\ todo' = todo
          BY <2>1, <3>2, <4>1, <4>2
        <5>2. Len(flash'[Head(todo)]) = 0
          BY <5>1
        <5> QED BY <5>1, <5>2 DEF Holds
      <4> QED BY <2>1, <3>2, <4>2 DEF Granted
    <3>4. AwaitsResponse'
      <4>1. Answers' = Answers
        BY DEF Answers
      <4>2. CASE toHost' = <<>>
        BY <3>1, <4>2 DEF AwaitsResponse, Quiet
      <4>3. CASE \E a \in Answers : toHost' = <<a>>
        BY <3>1, <3>3, <4>1, <4>3 DEF AwaitsResponse
      <4> QED BY <3>2, <4>2, <4>3
    <3> QED BY <2>1, <2>3, <3>2, <3>4 DEF StepInv, GoneIsQuiet, InStep
  <2>4. CASE ~strayed /\ pc = "ack"
    <3>1. toDev' = <<>> /\ toHost = <<>>
      BY <1>1, <2>4, DeviceMeets
    <3>2. PICK n \in Nat, m \in Messages :
              IsChunk(m, n) /\ Receiving(n * ChunkUnits) /\ DeviceTakes(m)
      BY <1>1, <2>4, DeviceMeets
    <3>3. /\ link' = link
          /\ toHost' = <<>> \/ \E a \in Answers : toHost' = <<a>>
          /\ \A i \in 1 .. Len(flash'[Head(todo)]) : flash'[Head(todo)][i] = <<Head(todo), i>>
          /\ toHost' = <<"OK">> =>
               /\ Len(flash'[Head(todo)]) = sent
               /\ sent # Units[Head(todo)] => dev' = "transfer" /\ target' = Head(todo)
      BY <2>4, <3>1, <3>2, ChunkTaken
    <3>4. toHost' = <<"OK">> => ChunkArrived'
      BY <2>1, <3>3 DEF ChunkArrived, Holds
    <3>5. AwaitsAck'
      <4>1. Answers' = Answers
        BY DEF Answers
      <4>2. CASE toHost' = <<>>
        BY <3>1, <4>2 DEF AwaitsAck, Quiet
      <4>3. CASE \E a \in Answers : toHost' = <<a>>
        BY <3>1, <3>4, <4>1, <4>3 DEF AwaitsAck
      <4> QED BY <3>3, <4>2, <4>3
    <3> QED BY <2>1, <2>4, <3>3, <3>5 DEF StepInv, GoneIsQuiet, InStep
  <2> QED BY <1>0, <1>1, <2>2, <2>3, <2>4, DeviceMeets
<1>2. CASE DeviceLeaves \/ Unplugged
  <2>1. link' = "gone" /\ Quiet'
    BY <1>2 DEF DeviceLeaves, Unplugged, Leaves, Quiet
  <2> QED BY <2>1 DEF StepInv, GoneIsQuiet, InStep
<1>3. CASE DeviceReturns
  <2>1. pc' = "idle" /\ Quiet'
    BY <1>0, <1>3 DEF DeviceReturns, GoneIsQuiet, Quiet, host
  <2> QED BY <2>1, RestsInStep
<1> QED BY <1>1, <1>2, <1>3 DEF Device

LEMMA CallerInStep == ASSUME Typed, StepInv, Caller PROVE StepInv'
<1>0. strayed \in BOOLEAN /\ GoneIsQuiet /\ InStep /\ link \in {"up", "gone"}
  BY DEF Typed, BoundsOK, StepInv, WireOK
<1>1. CASE (\E o \in Plain : Start(o)) \/ (\E l \in Lists : FlashFirmware(l))
  <2>1. pc = "idle" /\ pc' \in {"request", "next"} /\ UNCHANGED <<wire, strayed>>
    BY <1>1 DEF Start, FlashFirmware
  <2>2. strayed \/ Quiet
    BY <1>0, <2>1 DEF InStep
  <2> QED BY <1>0, <2>1, <2>2, RestsInStep, StrayedInStep DEF wire, Quiet, GoneIsQuiet
<1>2. CASE Cancel
  <2>1. /\ pc \in {"next", "request", "chunk", "ack"} /\ pc' = "idle" /\ UNCHANGED wire
        /\ IF pc = "ack" THEN GivesUp ELSE strayed' = strayed
    BY <1>2 DEF Cancel, Throws, Returns
  <2>2. strayed' \/ Quiet
    BY <1>0, <2>1 DEF InStep, GivesUp, Quiet
  <2> QED BY <1>0, <2>1, <2>2, RestsInStep, StrayedInStep DEF wire, Quiet, GoneIsQuiet
<1> QED BY <1>1, <1>2 DEF Caller

LEMMA InStepInvariant == Spec => [](Typed /\ StepInv)
<1>1. Init => StepInv
  BY DEF Init, StepInv, GoneIsQuiet, InStep, Quiet
<1>2. Typed /\ StepInv /\ [Next]_vars => StepInv'
  <2>1. ASSUME StepInv, UNCHANGED vars PROVE StepInv'
    <3>1. UNCHANGED <<pc, op, todo, sent, toDev, toHost, link, dev, target, flash, strayed>>
      BY <2>1 DEF vars, host, wire, device
    <3>2. /\ UNCHANGED <<Messages, Answers>>
          /\ \A m, n : IsChunk(m, n)' = IsChunk(m, n)
      BY <3>1 DEF Messages, Answers, IsChunk, ChunkEnd, ImageUnits
    <3>3. UNCHANGED <<AwaitsResponse, Quiet, Receiving(sent)>>
      BY <3>1, <3>2 DEF AwaitsResponse, Quiet, Receiving, Holds, Request, Granted
    <3>4. UNCHANGED AwaitsAck
      BY <3>1, <3>2, <3>3 DEF AwaitsAck, Quiet, Receiving, Holds, ChunkArrived
    <3> QED BY <2>1, <3>1, <3>3, <3>4 DEF StepInv, GoneIsQuiet, InStep
  <2> QED BY <2>1, HostInStep, DeviceInStep, CallerInStep DEF Next
<1> QED BY <1>1, <1>2, TypedInvariant, PTL DEF Spec

(* -------------------- what a step counts and programs ------------------- *)

\* A step of the host leaves what it counts alone, or its call returns, or it is done
\* with a partition, which counts as successful only when it is on the device.
Counted == UNCHANGED <<op, todo, ok, failed, outcome>>
ReturnsCounted ==
    \/ \E o : o # "success" /\ (Ends(o) \/ Throws(o))
    \/ op = "flash" /\ todo = <<>> /\ failed = {} /\ Ends("success")
SettledCounted ==
    /\ todo # <<>>
    /\ \/ Settled(FALSE)
       \/ /\ Settled(TRUE) /\ Head(todo) \in Package
          /\ ~strayed => flash[Head(todo)] = Whole(Head(todo))
Counts == Counted \/ ReturnsCounted \/ SettledCounted

LEMMA CountsPartitions ==
    ASSUME Counts
    PROVE  \/ UNCHANGED <<todo, ok>>
           \/ todo' = <<>> /\ ok' \subseteq ok
           \/ /\ todo # <<>> /\ todo' = Tail(todo)
              /\ \/ ok' = ok
                 \/ /\ ok' = ok \cup {Head(todo)} /\ Head(todo) \in Package
                    /\ ~strayed => flash[Head(todo)] = Whole(Head(todo))
BY DEF Counts, Counted, ReturnsCounted, SettledCounted, Ends, Throws, Returns, Settled

LEMMA ReturnsCounts == ASSUME NEW o, o # "success", Ends(o) \/ Throws(o) PROVE Counts
BY DEF Counts, ReturnsCounted

LEMMA SettledCounts ==
    ASSUME NEW s \in BOOLEAN, Settled(s), todo # <<>>,
           s => Head(todo) \in Package /\ (~strayed => flash[Head(todo)] = Whole(Head(todo)))
    PROVE  Counts
BY DEF Counts, SettledCounted

LEMMA WholeHeld ==
    ASSUME Typed, Head(todo) \in Package, Holds(Head(todo), Units[Head(todo)])
    PROVE  flash[Head(todo)] = Whole(Head(todo))
BY HoldsWhole DEF Typed, DeviceTyped, DeviceOK, ImageUnits

LEMMA RespondedCounts ==
    ASSUME Typed, pc \in {"request", "response"}, NEW a, Responded(a),
           ~strayed /\ a = "OK" => Granted
    PROVE  /\ Counts
           /\ active' => active \/ (a = "OK" /\ op = "initialize")
           /\ op \in Ending => ~active'
<1>1. /\ op \in Plain \cup {"flash"} /\ HostTyped
      /\ op = "flash" => todo # <<>> /\ Head(todo) \in Package
  BY DEF Typed, HostTyped, HostOK, Control
<1>2. CASE op # "flash"
  <2>1. \E o : o # "success" /\ Ends(o)
    BY <1>1, <1>2 DEF Responded, Plain
  <2> QED BY <2>1, <1>2, ReturnsCounts DEF Responded, ActiveAfter, Ending
<1>3. CASE op = "flash"
  <2>1. active' = active
    BY <1>3 DEF Responded, ActiveAfter
  <2>2. \/ Throws("exception") \/ Settled(FALSE) \/ GoesTo("chunk")
        \/ a = "OK" /\ Units[Head(todo)] = 0 /\ Settled(TRUE)
    BY <1>3 DEF Responded, Begins
  <2>3. CASE a = "OK" /\ Units[Head(todo)] = 0 /\ Settled(TRUE)
    <3>1. ~strayed => Holds(Head(todo), Units[Head(todo)])
      BY <1>3, <2>3 DEF Granted
    <3> QED BY <1>1, <1>3, <2>1, <2>3, <3>1, WholeHeld, SettledCounts DEF Ending
  <2>4. CASE GoesTo("chunk")
    BY <1>3, <2>1, <2>4 DEF GoesTo, Counts, Counted, Ending
  <2> QED BY <1>1, <1>3, <2>1, <2>2, <2>3, <2>4, ReturnsCounts, SettledCounts DEF Ending
<1> QED BY <1>1, <1>2, <1>3

LEMMA AcknowledgedCounts ==
    ASSUME Typed, pc = "ack", NEW a, Acknowledged(a), ~strayed /\ a = "OK" => ChunkArrived
    PROVE  Counts
<1>1. HostTyped /\ todo # <<>> /\ Head(todo) \in Package
  BY DEF Typed, HostTyped, Control
<1>2. \/ Settled(FALSE) \/ GoesTo("chunk")
      \/ a = "OK" /\ sent = Units[Head(todo)] /\ Settled(TRUE)
  BY DEF Acknowledged, Acked
<1>3. CASE a = "OK" /\ sent = Units[Head(todo)] /\ Settled(TRUE)
  <2>1. ~strayed => Holds(Head(todo), Units[Head(todo)])
    BY <1>3 DEF ChunkArrived
  <2> QED BY <1>1, <1>3, <2>1, WholeHeld, SettledCounts
<1>4. CASE GoesTo("chunk")
  BY <1>4 DEF GoesTo, Counts, Counted
<1> QED BY <1>1, <1>2, <1>3, <1>4, SettledCounts

\* What a step of the host does to what it counts and believes.
LEMMA HostCounts ==
    ASSUME Typed, StepInv, Host
    PROVE  /\ Counts /\ UNCHANGED <<link, dev, flash, returns>> /\ (strayed => strayed')
           /\ link = "up" /\ ~strayed /\ active' =>
                \/ active /\ ~(pc = "response" /\ op \in Ending)
                \/ dev = "session"
<1>0. HostTyped /\ strayed \in BOOLEAN /\ InStep
  BY DEF Typed, BoundsOK, StepInv
<1>a. "empty" # "OK" /\ "null" # "OK"
  OBVIOUS
<1>1. CASE NextPartition
  <2>1. active' = active /\ pc = "next" /\ UNCHANGED <<link, dev, flash, returns, strayed>>
    BY <1>1 DEF NextPartition, wire, device, bounds
  <2>2. \/ ReturnsCounted
        \/ todo # <<>> /\ Settled(FALSE)
        \/ GoesTo("request")
    BY <1>0, <1>1 DEF NextPartition, Verdict, ReturnsCounted, HostTyped, Control
  <2>3. GoesTo("request") \/ ReturnsCounted => Counts
    BY DEF GoesTo, Counts, Counted
  <2> QED BY <1>0, <2>1, <2>2, <2>3, ReturnsCounts, SettledCounts
<1>2. CASE SendRequest
  BY <1>2 DEF SendRequest, GoesTo, Counts, Counted, device, bounds
<1>3. CASE ReceiveResponse
  <2>1. /\ pc = "response" /\ Responded(Head(toHost)) /\ toHost # <<>> /\ link = "up"
        /\ UNCHANGED <<link, dev, flash, returns, strayed>>
    BY <1>3 DEF ReceiveResponse, Receives, device, bounds
  <2>2. ~strayed /\ Head(toHost) = "OK" => Granted
    BY <1>0, <2>1 DEF InStep, AwaitsResponse, Quiet
  <2>3. /\ Counts
        /\ active' => active \/ (Head(toHost) = "OK" /\ op = "initialize")
        /\ op \in Ending => ~active'
    BY <2>1, <2>2, RespondedCounts
  <2> QED BY <2>1, <2>2, <2>3 DEF Granted
<1>4. CASE ResponseTimesOut
  <2>1. Counts /\ (active' => active) /\ (op \in Ending => ~active')
    BY <1>4, <1>a, RespondedCounts DEF ResponseTimesOut
  <2> QED BY <1>4, <2>1 DEF ResponseTimesOut, GivesUp, wire, device
<1>5. CASE RequestFails
  <2>1. Counts /\ (active' => active) /\ pc = "request"
    BY <1>5, <1>a, RespondedCounts DEF RequestFails
  <2> QED BY <1>5, <2>1 DEF RequestFails, device
<1>6. CASE SendChunk
  BY <1>6 DEF SendChunk, Counts, Counted, device
<1>7. CASE ReceiveAck
  <2>1. pc = "ack" /\ Acknowledged(Head(toHost)) /\ toHost # <<>> /\ link = "up"
    BY <1>7 DEF ReceiveAck, Receives
  <2>2. ~strayed /\ Head(toHost) = "OK" => ChunkArrived
    BY <1>0, <2>1 DEF InStep, AwaitsAck, Quiet
  <2>3. Counts
    BY <2>1, <2>2, AcknowledgedCounts
  <2> QED BY <1>7, <2>1, <2>3 DEF ReceiveAck, device, bounds
<1>8. CASE AckTimesOut
  <2>1. Counts /\ pc = "ack"
    BY <1>8, <1>a, AcknowledgedCounts DEF AckTimesOut
  <2> QED BY <1>8, <2>1 DEF AckTimesOut, GivesUp, wire, device
<1>9. CASE DeviceIsGone
  <2>1. link = "gone" /\ UNCHANGED <<link, dev, flash, returns, strayed>>
    BY <1>9 DEF DeviceIsGone, wire, device, bounds
  <2>2. Counts
    <3>1. CASE pc \in {"request", "response"}
      BY <1>9, <1>a, <3>1, RespondedCounts DEF DeviceIsGone
    <3>2. CASE pc \in {"chunk", "ack"}
      <4>1. todo # <<>> /\ (Throws("exception") \/ Settled(FALSE)
                              \/ (pc = "ack" /\ Acknowledged("empty")))
        BY <1>0, <1>9, <3>2 DEF DeviceIsGone, HostTyped, Control
      <4> QED BY <1>0, <1>a, <4>1, ReturnsCounts, SettledCounts, AcknowledgedCounts
    <3> QED BY <1>9, <3>1, <3>2 DEF DeviceIsGone
  <2> QED BY <2>1, <2>2
<1> QED BY <1>1, <1>2, <1>3, <1>4, <1>5, <1>6, <1>7, <1>8, <1>9 DEF Host

\* In step, the device programs nothing but the current partition, in its place.
LEMMA DeviceProgramsInPlace ==
    ASSUME Typed, StepInv, ~strayed, Device
    PROVE  \/ flash' = flash
           \/ /\ todo # <<>> /\ Head(todo) \in Package
              /\ \A p \in Package : p # Head(todo) => flash'[p] = flash[p]
              /\ \A i \in DOMAIN flash'[Head(todo)] : flash'[Head(todo)][i] = <<Head(todo), i>>
<1>0. HostTyped /\ DeviceTyped /\ flash \in [Package -> Seq(ImageUnits)]
  BY DEF Typed, DeviceTyped, DeviceOK, ImageUnits
<1>1. CASE DeviceReceives
  <2>1. CASE pc = "response" /\ DeviceTakes(Request)
    <3>1. flash' = flash \/ (op = "flash" /\ flash' = [flash EXCEPT ![Head(todo)] = <<>>])
      BY <1>0, <1>1, <2>1, DeviceMeets, RequestTaken
    <3>2. op = "flash" => todo # <<>> /\ Head(todo) \in Package
      BY <1>0, <2>1 DEF HostTyped, Control
    <3> QED BY <1>0, <3>1, <3>2
  <2>2. CASE /\ pc = "ack"
             /\ \E n \in Nat, m \in Messages :
                   IsChunk(m, n) /\ Receiving(n * ChunkUnits) /\ DeviceTakes(m)
    <3>1. PICK n \in Nat, m \in Messages :
              IsChunk(m, n) /\ Receiving(n * ChunkUnits) /\ DeviceTakes(m)
      BY <2>2
    <3>2. /\ flash' = [flash EXCEPT ![Head(todo)] = flash[Head(todo)] \o m.units]
          /\ \A i \in 1 .. Len(flash'[Head(todo)]) : flash'[Head(todo)][i] = <<Head(todo), i>>
      BY <1>1, <2>2, <3>1, DeviceMeets, ChunkTaken
    <3>3. todo # <<>> /\ Head(todo) \in Package
      BY <1>0, <2>2 DEF HostTyped, Control
    <3>4. flash'[Head(todo)] \in Seq(ImageUnits)
      <4>1. flash[Head(todo)] \in Seq(ImageUnits) /\ m.units \in Seq(ImageUnits)
        BY <1>0, <3>1, <3>3 DEF IsChunk
      <4>2. flash[Head(todo)] \o m.units \in Seq(ImageUnits)
        BY <4>1, ConcatProperties
      <4> QED BY <1>0, <3>2, <3>3, <4>2
    <3>5. \A p \in Package : p # Head(todo) => flash'[p] = flash[p]
      BY <1>0, <3>2
    <3>6. DOMAIN flash'[Head(todo)] = 1 .. Len(flash'[Head(todo)])
      BY <3>4
    <3> QED BY <3>2, <3>3, <3>5, <3>6
  <2> QED BY <1>1, <2>1, <2>2, DeviceMeets
<1>2. CASE DeviceLeaves \/ Unplugged \/ DeviceReturns
  BY <1>2 DEF DeviceLeaves, Unplugged, DeviceReturns
<1> QED BY <1>1, <1>2 DEF Device

(* ---------------------------- the properties ---------------------------- *)

Good == Typed /\ StepInv

LEMMA DeviceKeepsHost ==
    ASSUME Device
    PROVE  UNCHANGED <<active, pc, op, todo, ok, strayed>>
BY DEF Device, DeviceReceives, DeviceLeaves, Unplugged, DeviceReturns, host

LEMMA CallerKeepsDevice ==
    ASSUME Caller
    PROVE  /\ UNCHANGED <<active, link, dev, flash, returns>> /\ (strayed => strayed')
           /\ pc # "response"
BY DEF Caller, Start, FlashFirmware, Cancel, GivesUp, wire, device

\* A returned device counts as returned, and one that leaves is gone.
LEMMA DeviceAgrees ==
    ASSUME Good, Agrees, Device, active', link' = "up", returns' = 0, ~strayed'
    PROVE  dev' \in {"session", "transfer"} \/ (dev' = "off" /\ pc' = "response" /\ op' \in Ending)
<1>0. HostTyped /\ DeviceTyped /\ returns \in Nat /\ UNCHANGED <<active, pc, op, strayed>>
  <2>1. MaxReturns \in Nat /\ returns \in 0 .. MaxReturns
    BY SessionAssumption DEF Good, Typed, BoundsOK
  <2>2. returns \in Nat
    BY <2>1
  <2> QED BY <2>2, DeviceKeepsHost DEF Good, Typed
<1>1. CASE DeviceReceives
  <2>1. link = "up" /\ returns = 0 /\ ~strayed /\ active
    BY <1>0, <1>1 DEF DeviceReceives, bounds
  <2>2. CASE pc = "response" /\ DeviceTakes(Request)
    <3>1. toHost = <<>>
      BY <1>1, <2>1, DeviceMeets DEF Good
    <3>2. dev' = dev \/ dev' \in {"session", "transfer"} \/ (dev' = "off" /\ op \in Ending)
      BY <1>0, <2>2, <3>1, RequestTaken
    <3> QED BY <1>0, <2>1, <2>2, <3>2 DEF Agrees, Ending
  <2>3. CASE /\ pc = "ack"
             /\ \E n \in Nat, m \in Messages :
                   IsChunk(m, n) /\ Receiving(n * ChunkUnits) /\ DeviceTakes(m)
    BY <1>1, <2>1, <2>3, DeviceMeets, ChunkTaken DEF Good
  <2> QED BY <1>1, <2>1, <2>2, <2>3, DeviceMeets DEF Good
<1>2. CASE DeviceLeaves \/ Unplugged
  BY <1>2 DEF DeviceLeaves, Unplugged, Leaves
<1>3. CASE DeviceReturns
  BY <1>0, <1>3 DEF DeviceReturns
<1> QED BY <1>1, <1>2, <1>3 DEF Device

LEMMA AgreesStep == ASSUME Good, Agrees, [Next]_vars PROVE Agrees'
<1> SUFFICES ASSUME active', link' = "up", returns' = 0, ~strayed'
             PROVE  \/ dev' \in {"session", "transfer"}
                    \/ dev' = "off" /\ pc' = "response" /\ op' \in Ending
  BY DEF Agrees, Ending
<1>1. CASE Host
  BY <1>1, HostCounts DEF Good, Agrees, Ending
<1>2. CASE Device
  BY <1>2, DeviceAgrees
<1>3. CASE Caller
  BY <1>3, CallerKeepsDevice DEF Agrees
<1>4. CASE UNCHANGED vars
  BY <1>4 DEF vars, host, wire, device, bounds, Agrees, Ending
<1> QED BY <1>1, <1>2, <1>3, <1>4 DEF Next

\* Between calls the host takes a session to be active only with a device that is in
\* one (SessionAgrees of DownloadModeSession), unless the device has been away or an
\* answer was given up too early: every transition of _sessionActive in
\* DownloadModeFlasher follows the device's, for every package and any sequence of calls.
THEOREM SessionKept == Spec => []SessionAgrees
<1>1. Init => Agrees
  BY DEF Init, Agrees
<1>2. Good /\ Agrees /\ [Next]_vars => Agrees'
  BY AgreesStep
<1>3. Agrees => SessionAgrees
  BY DEF Agrees, SessionAgrees
<1> QED BY <1>1, <1>2, <1>3, InStepInvariant, PTL DEF Spec, Good

LEMMA DoneOnceStep == ASSUME Good, DoneOnce, [Next]_vars PROVE DoneOnce'
<1>0. IsRest(todo) /\ todo \in Seq(Listed) /\ \A i, j \in DOMAIN todo : todo[i] = todo[j] => i = j
  BY RestIs DEF Good, Typed, HostTyped, HostOK, IsRest
<1>1. CASE Counts
  <2>1. CASE todo' = todo /\ ok' = ok
    BY <2>1 DEF DoneOnce
  <2>2. CASE todo' = <<>>
    BY <2>2 DEF DoneOnce
  <2>3. CASE todo # <<>> /\ todo' = Tail(todo) /\ ok' \subseteq ok \cup {Head(todo)}
    <3>1. ASSUME NEW i \in DOMAIN todo' PROVE todo'[i] \notin ok'
      <4>1. i \in 1 .. Len(todo) - 1 /\ Len(todo) \in Nat
        BY <1>0, <2>3, <3>1
      <4>2. i + 1 \in DOMAIN todo /\ 1 \in DOMAIN todo /\ i + 1 # 1
        BY <1>0, <4>1
      <4>3. todo'[i] = todo[i + 1] /\ Head(todo) = todo[1]
        BY <1>0, <2>3, <4>1
      <4>4. todo[i + 1] \notin ok /\ todo[i + 1] # todo[1]
        BY <1>0, <4>2 DEF DoneOnce
      <4> QED BY <2>3, <4>3, <4>4
    <3> QED BY <3>1 DEF DoneOnce
  <2> QED BY <1>1, <2>1, <2>2, <2>3, CountsPartitions
<1>2. CASE Host
  BY <1>1, <1>2, HostCounts DEF Good
<1>3. CASE Device \/ UNCHANGED vars
  BY <1>3, DeviceKeepsHost DEF vars, host, DoneOnce
<1>4. CASE Caller
  <2>1. UNCHANGED <<todo, ok>> \/ ok' = {}
    BY <1>4 DEF Caller, Start, FlashFirmware, Cancel, Throws
  <2> QED BY <2>1 DEF DoneOnce
<1> QED BY <1>2, <1>3, <1>4 DEF Next

LEMMA FlashedStep ==
    ASSUME Good, DoneOnce, FlashedUnlessStrayed, [Next]_vars
    PROVE  FlashedUnlessStrayed'
<1>0. /\ IsRest(todo) /\ ok \subseteq Package /\ todo \in Seq(Listed)
      /\ \A p : Whole(p)' = Whole(p)
  BY RestIs DEF Good, Typed, HostTyped, HostOK, IsRest, Whole
<1>1. CASE Host
  <2>1. Counts /\ flash' = flash /\ (strayed => strayed')
    BY <1>1, HostCounts DEF Good
  <2> QED BY <1>0, <2>1, CountsPartitions DEF FlashedUnlessStrayed
<1>2. CASE Device
  <2>1. strayed' = strayed /\ ok' = ok
    BY <1>2, DeviceKeepsHost
  <2>2. CASE ~strayed
    <3>1. \/ flash' = flash
          \/ /\ todo # <<>> /\ \A p \in Package : p # Head(todo) => flash'[p] = flash[p]
      BY <1>2, <2>2, DeviceProgramsInPlace DEF Good
    <3>2. todo # <<>> => Head(todo) \notin ok
      <4>1. ASSUME todo # <<>> PROVE 1 \in DOMAIN todo /\ Head(todo) = todo[1]
        BY <1>0, <4>1
      <4> QED BY <4>1 DEF DoneOnce
    <3> QED BY <1>0, <2>1, <2>2, <3>1, <3>2 DEF FlashedUnlessStrayed
  <2> QED BY <2>1, <2>2 DEF FlashedUnlessStrayed
<1>3. CASE Caller
  <2>1. flash' = flash /\ (strayed => strayed')
    BY <1>3, CallerKeepsDevice
  <2>2. ok' = ok \/ ok' = {}
    BY <1>3 DEF Caller, Start, FlashFirmware, Cancel, Throws
  <2> QED BY <1>0, <2>1, <2>2 DEF FlashedUnlessStrayed
<1>4. CASE UNCHANGED vars
  BY <1>0, <1>4 DEF vars, host, device, FlashedUnlessStrayed
<1> QED BY <1>1, <1>2, <1>3, <1>4 DEF Next

\* What FlashFirmwareAsync reports as successful is on the device, all of it
\* (FlashedUnlessStrayed of DownloadModeSession): for every package, every chunk
\* size, whatever is refused, cut short, unplugged or cancelled, and through every
\* later call, as long as no answer was given up that was still to come.
THEOREM SuccessIsFlashed == Spec => []FlashedUnlessStrayed
<1>1. Init => DoneOnce /\ FlashedUnlessStrayed
  BY DEF Init, DoneOnce, FlashedUnlessStrayed
<1>2. Good /\ DoneOnce /\ FlashedUnlessStrayed /\ [Next]_vars => (DoneOnce /\ FlashedUnlessStrayed)'
  BY DoneOnceStep, FlashedStep
<1> QED BY <1>1, <1>2, InStepInvariant, PTL DEF Spec, Good

LEMMA LandsStep ==
    ASSUME Good, LandsInItsPartition, [Next]_vars
    PROVE  LandsInItsPartition'
<1>1. CASE Host \/ Caller \/ UNCHANGED vars
  <2>1. flash' = flash /\ (strayed => strayed')
    BY <1>1, HostCounts, CallerKeepsDevice DEF Good, vars, device
  <2> QED BY <2>1 DEF LandsInItsPartition
<1>2. CASE Device
  <2>1. strayed' = strayed
    BY <1>2, DeviceKeepsHost
  <2>2. CASE ~strayed
    <3>1. \/ flash' = flash
          \/ /\ \A p \in Package : p # Head(todo) => flash'[p] = flash[p]
             /\ \A i \in DOMAIN flash'[Head(todo)] : flash'[Head(todo)][i] = <<Head(todo), i>>
      BY <1>2, <2>2, DeviceProgramsInPlace DEF Good
    <3> SUFFICES ASSUME NEW p \in Package, NEW i \in DOMAIN flash'[p]
                 PROVE  flash'[p][i][1] = p
      BY DEF LandsInItsPartition
    <3>2. CASE flash'[p] = flash[p]
      BY <2>2, <3>2 DEF LandsInItsPartition
    <3>3. CASE p = Head(todo) /\ flash'[p][i] = <<p, i>>
      BY <3>3
    <3> QED BY <3>1, <3>2, <3>3
  <2> QED BY <2>1, <2>2 DEF LandsInItsPartition
<1> QED BY <1>1, <1>2 DEF Next

\* No unit of one partition's image is ever programmed into another partition
\* (LandsInItsPartition of DownloadModeSession) while host and device are in step: a
\* file transfer the device refused is followed by none of its data.
THEOREM ImagesLandInPlace == Spec => []LandsInItsPartition
<1>1. Init => LandsInItsPartition
  <2> SUFFICES ASSUME Init, NEW p \in Package, NEW i \in DOMAIN flash[p]
               PROVE  flash[p][i][1] = p
    BY DEF LandsInItsPartition
  <2>1. flash[p] = << <<p, 0>> >>
    BY DEF Init, Old
  <2>2. i = 1
    BY <2>1
  <2> QED BY <2>1, <2>2
<1>2. Good /\ LandsInItsPartition /\ [Next]_vars => LandsInItsPartition'
  BY LandsStep
<1> QED BY <1>1, <1>2, InStepInvariant, PTL DEF Spec, Good

(* ---------------------------- a reliable flash -------------------------- *)

\* The partition the host is at is one that the call may still program.
LEMMA CurrentIsListed ==
    ASSUME Good, DoneOnce, todo # <<>>
    PROVE  /\ Head(todo) \in InList /\ Head(todo) \notin ok /\ op = "flash"
           /\ {Tail(todo)[i] : i \in DOMAIN Tail(todo)} \cup {Head(todo)} = InList
<1>1. todo \in Seq(Listed) /\ op = "flash"
  BY RestIs DEF Good, Typed, HostTyped, HostOK, Control, IsRest
<1>2. 1 \in DOMAIN todo /\ Head(todo) = todo[1] /\ Len(todo) \in Nat /\ DOMAIN todo = 1 .. Len(todo)
  BY <1>1
<1>3. DOMAIN Tail(todo) = 1 .. Len(todo) - 1 /\ \A i \in 1 .. Len(todo) - 1 : Tail(todo)[i] = todo[i + 1]
  BY <1>1
<1>4. ASSUME NEW i \in DOMAIN todo, i # 1 PROVE \E j \in DOMAIN Tail(todo) : todo[i] = Tail(todo)[j]
  <2>1. i - 1 \in 1 .. Len(todo) - 1 /\ (i - 1) + 1 = i
    BY <1>2, <1>4
  <2> QED BY <1>3, <2>1
<1>5. ASSUME NEW j \in DOMAIN Tail(todo) PROVE \E i \in DOMAIN todo : Tail(todo)[j] = todo[i]
  <2>1. j + 1 \in 1 .. Len(todo)
    BY <1>2, <1>3
  <2> QED BY <1>2, <1>3, <2>1
<1> QED BY <1>1, <1>2, <1>4, <1>5 DEF DoneOnce, InList

\* The call fails, or a call that flashes nothing takes its next step.
LEMMA FlasherGivesUp ==
    ASSUME op' # "flash", todo' = <<>>, outcome' # "success", flash' = flash, ok' \in {ok, {}}
    PROVE  Flasher!Step
<1>1. CallState' = "idle" /\ InList' = {} /\ Due' = {}
  BY DEF CallState, InList, Due
<1> QED BY <1>1 DEF Flasher!Step, Flasher!GiveUp, Flasher!Ends

LEMMA FlasherSettles ==
    ASSUME Good, DoneOnce, ~strayed, SettledCounted, flash' = flash
    PROVE  Flasher!Step
<1> DEFINE p == Head(todo)
<1>1. /\ p \in InList /\ p \notin ok /\ op = "flash" /\ op' = op /\ p \in Due
      /\ InList' \cup {p} = InList
  BY CurrentIsListed DEF SettledCounted, Settled, InList, Due
<1>2. CallState = "busy" /\ CallState' = "busy" /\ InList' \subseteq InList
  BY <1>1 DEF CallState
<1>3. CASE Settled(FALSE)
  <2>1. Due' = Due /\ ok' = ok
    BY <1>1, <1>3 DEF Settled, Due
  <2> QED BY <1>2, <2>1 DEF Flasher!Step, Flasher!PassOver, Flasher!Goes
<1>4. CASE Settled(TRUE) /\ p \in Package /\ flash[p] = Whole(p)
  <2>1. Due' = Due \ {p} /\ ok' = ok \cup {p}
    BY <1>1, <1>4 DEF Settled, Due
  <2>2. [q \in Package |-> Whole(q)][p] = flash[p]
    BY <1>4
  <2>3. Flasher!Report(p)
    BY <1>1, <1>2, <2>1, <2>2 DEF Flasher!Report, Flasher!Goes
  <2> QED BY <1>4, <2>3 DEF Flasher!Step
<1> QED BY <1>3, <1>4 DEF SettledCounted

LEMMA FlasherHost ==
    ASSUME Good, DoneOnce, ~strayed, Host
    PROVE  Flasher!Step \/ UNCHANGED <<CallState, InList, Due, ok, flash>>
<1>1. Counts /\ flash' = flash
  BY HostCounts DEF Good
<1>2. CASE Counted
  BY <1>1, <1>2 DEF Counted, CallState, InList, Due
<1>3. CASE \E o : o # "success" /\ (Ends(o) \/ Throws(o))
  BY <1>1, <1>3, FlasherGivesUp DEF Ends, Throws, Returns
<1>4. CASE op = "flash" /\ todo = <<>> /\ failed = {} /\ Ends("success")
  <2>1. CallState = "busy" /\ Due = {}
    BY <1>4 DEF CallState, Due, InList
  <2>2. CallState' = "success" /\ InList' = {} /\ Due' = {} /\ ok' = ok
    BY <1>4 DEF Ends, Returns, CallState, InList, Due
  <2> QED BY <1>1, <2>1, <2>2 DEF Flasher!Step, Flasher!Succeed, Flasher!Ends
<1>5. CASE SettledCounted
  BY <1>1, <1>5, FlasherSettles
<1> QED BY <1>1, <1>2, <1>3, <1>4, <1>5 DEF Counts, ReturnsCounted

LEMMA UnitsOfOne ==
    ASSUME NEW S, NEW s \in Seq(S), NEW p, \A i \in DOMAIN s : s[i] = <<p, i>>
    PROVE  s \in Seq({p} \X Nat)
<1>1. Len(s) \in Nat /\ s \in [1 .. Len(s) -> S]
  BY LenProperties
<1>2. \A i \in 1 .. Len(s) : s[i] \in {p} \X Nat
  BY <1>1
<1>3. s \in [1 .. Len(s) -> {p} \X Nat]
  BY <1>1, <1>2
<1> QED BY <1>1, <1>3, SeqDef

LEMMA FlasherDevice ==
    ASSUME Good, DoneOnce, Typed', ~strayed, Device
    PROVE  Flasher!Step \/ UNCHANGED <<CallState, InList, Due, ok, flash>>
<1> DEFINE p == Head(todo)
<1>1. UNCHANGED <<CallState, InList, Due, ok>>
  <2>1. UNCHANGED <<op, todo, ok, failed, outcome>>
    BY DEF Device, DeviceReceives, DeviceLeaves, Unplugged, DeviceReturns, host
  <2> QED BY <2>1 DEF CallState, InList, Due
<1>2. CASE /\ todo # <<>> /\ p \in Package
           /\ \A q \in Package : q # p => flash'[q] = flash[q]
           /\ \A i \in DOMAIN flash'[p] : flash'[p][i] = <<p, i>>
  <2>1. {flash, flash'} \subseteq [Package -> Seq(Package \X Nat)]
    BY DEF Good, Typed, DeviceTyped, DeviceOK
  <2>2. flash' = [flash EXCEPT ![p] = flash'[p]]
    BY <1>2, <2>1
  <2>3. flash'[p] \in Seq({p} \X Nat)
    <3>1. flash'[p] \in Seq(Package \X Nat)
      BY <1>2, <2>1
    <3> QED BY <1>2, <3>1, UnitsOfOne
  <2>4. [q \in Package |-> Seq({q} \X Nat)][p] = Seq({p} \X Nat)
    BY <1>2
  <2>5. p \in InList \ ok /\ CallState = "busy"
    BY <1>2, CurrentIsListed DEF CallState
  <2>6. Flasher!Program(p)
    BY <1>1, <2>2, <2>3, <2>4, <2>5 DEF Flasher!Program, Flasher!Goes
  <2> QED BY <1>2, <2>6 DEF Flasher!Step
<1> QED BY <1>1, <1>2, DeviceProgramsInPlace DEF Good

LEMMA FlasherCaller == ASSUME Good, Caller PROVE Flasher!Step
<1>1. flash' = flash /\ HostTyped
  BY CallerKeepsDevice DEF Good, Typed
<1>2. ASSUME NEW o \in Plain, Start(o) PROVE Flasher!Step
  <2>1. op' # "flash" /\ todo' = <<>> /\ outcome' # "success" /\ ok' = ok
    BY <1>1, <1>2 DEF Start, Plain, HostTyped, Control
  <2> QED BY <1>1, <2>1, FlasherGivesUp
<1>3. ASSUME NEW l \in Lists, FlashFirmware(l) PROVE Flasher!Step
  <2>1. op = "none" /\ outcome' = "none" /\ op' = "flash" /\ ok' = {} /\ failed' = {}
    BY <1>1, <1>3 DEF FlashFirmware, HostTyped, Control
  <2>2. CallState # "busy" /\ CallState' = "busy" /\ InList' \subseteq Due'
    BY <2>1 DEF CallState, Due
  <2> QED BY <1>1, <2>1, <2>2 DEF Flasher!Step, Flasher!Call
<1>4. CASE Cancel
  BY <1>1, <1>4, FlasherGivesUp DEF Cancel, Throws, Returns
<1> QED BY <1>2, <1>3, <1>4 DEF Caller

LEMMA FlasherStep ==
    ASSUME Good, DoneOnce, Typed', [Next]_vars
    PROVE  [Flasher!Next]_Flasher!vars
<1>1. CASE strayed'
  BY <1>1 DEF Flasher!Next
<1>2. CASE ~strayed'
  <2>1. ~strayed /\ strayed' = strayed
    <3>1. strayed => strayed'
      BY HostCounts, DeviceKeepsHost, CallerKeepsDevice DEF Good, Next, vars
    <3> QED BY <1>2, <3>1 DEF Good, Typed, BoundsOK
  <2>2. Flasher!Step \/ UNCHANGED <<CallState, InList, Due, ok, flash>>
    <3>1. CASE UNCHANGED vars
      BY <3>1 DEF vars, host, device, CallState, InList, Due
    <3> QED BY <2>1, <3>1, FlasherHost, FlasherDevice, FlasherCaller DEF Next
  <2> QED BY <1>2, <2>1, <2>2 DEF Flasher!Next, Flasher!vars
<1> QED BY <1>1, <1>2

\* The flasher is a reliable flash, for every package, every chunk size, all lists of
\* partitions, and any number of calls, faults and returns of the device, as long as
\* no answer has been given up that was still to come.
THEOREM FlasherIsReliable == Spec => FlashIsReliable
<1>1. Init => DoneOnce /\ Flasher!Init
  BY DEF Init, DoneOnce, Flasher!Init, CallState, InList, Due
<1>2. Good /\ DoneOnce /\ [Next]_vars => DoneOnce'
  BY DoneOnceStep
<1>3. Good /\ DoneOnce /\ Typed' /\ [Next]_vars => [Flasher!Next]_Flasher!vars
  BY FlasherStep
<1> QED BY <1>1, <1>2, <1>3, InStepInvariant, TypedInvariant, PTL
       DEF Spec, Good, Flasher!Spec, FlashIsReliable
=============================================================================
