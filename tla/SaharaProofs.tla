---------------------------- MODULE SaharaProofs ----------------------------
(* What holds of an EDL session for every loader, every word size and every   *)
(* device: the types, where the host ends the transfer, and the order of the  *)
(* handshake.                                                                 *)
EXTENDS SaharaSession, SequenceTheorems, TLAPS

(* ------------------------------ arithmetic ------------------------------ *)

\* Within the range of a signed word, wrapping changes nothing.
LEMMA WrapInRange ==
    ASSUME NEW n \in Int, -(Word \div 2) <= n, n < Word \div 2
    PROVE  Wrap(n) = n
<1> USE SessionAssumption
<1>0. Word = 2 * (Word \div 2) /\ Word \div 2 \in Nat
  OBVIOUS
<1>1. CASE n >= 0
  <2>1. n % Word = n
    BY <1>0, <1>1
  <2> QED BY <2>1, <1>0, <1>1 DEF Wrap, Signed
<1>2. CASE n < 0
  <2>1. n % Word = n + Word
    BY <1>0, <1>2
  <2> QED BY <2>1, <1>0, <1>2 DEF Wrap, Signed
<1> QED BY <1>1, <1>2

\* Wrapping gives an integer.
LEMMA WrapIsInt == ASSUME NEW n \in Int PROVE Wrap(n) \in Int
BY SessionAssumption DEF Wrap, Signed

\* What a request asks for, in integers.
LEMMA RequestTypes ==
    ASSUME NEW r \in Requests
    PROVE  /\ r.kind = "ReadData" /\ r.off \in 0..(Word - 1) /\ r.len \in 0..(Word - 1)
           /\ Signed(r.off) \in Int /\ Signed(r.len) \in Int
           /\ Available(r) \in Int /\ SendLen(r) \in Int /\ SendLen(r) <= Available(r)
<1>1. r.kind = "ReadData" /\ r.off \in 0..(Word - 1) /\ r.len \in 0..(Word - 1)
  BY SessionAssumption DEF Requests
<1>2. Signed(r.off) \in Int /\ Signed(r.len) \in Int
  BY <1>1, SessionAssumption DEF Signed
<1>3. Available(r) \in Int
  BY <1>2, WrapIsInt, SessionAssumption DEF Available
<1> QED BY <1>1, <1>2, <1>3 DEF SendLen

\* A request the host takes to be past the end starts past the loader's last byte.
LEMMA PastTheEndIsPast ==
    ASSUME NEW r \in Requests, PastTheEnd(r) PROVE r.off >= LoaderLen
<1> SUFFICES ASSUME r.off < LoaderLen PROVE FALSE
  BY RequestTypes, SessionAssumption
<1>1. Signed(r.off) = r.off
  BY RequestTypes, SessionAssumption DEF Signed
<1>2. Wrap(LoaderLen - r.off) = LoaderLen - r.off
  BY WrapInRange, RequestTypes, SessionAssumption
<1> QED BY <1>1, <1>2, RequestTypes, SessionAssumption DEF PastTheEnd, Available

\* A chunk holds bytes of the loader only.
LEMMA SliceIsLoader ==
    ASSUME NEW r \in Requests, ~PastTheEnd(r), ~CopyThrows(r)
    PROVE  Slice(r) \in Seq(0..(LoaderLen - 1))
<1>1. Signed(r.off) = r.off /\ r.off < Word \div 2
  BY RequestTypes, SessionAssumption DEF Signed, CopyThrows
<1>2. Wrap(LoaderLen - r.off) = LoaderLen - r.off
  BY <1>1, WrapInRange, RequestTypes, SessionAssumption
<1>3. SendLen(r) \in Nat /\ SendLen(r) <= LoaderLen - r.off
  BY <1>1, <1>2, RequestTypes, SessionAssumption DEF Available, CopyThrows
<1> DEFINE n == SendLen(r)
<1>4. n \in Nat /\ n <= LoaderLen - r.off /\ r.off \in Nat /\ LoaderLen \in Nat
  BY <1>3, RequestTypes, SessionAssumption
<1> HIDE DEF n
<1>5. \A k \in 1..n : r.off + k - 1 \in 0..(LoaderLen - 1)
  BY <1>4
<1>6. [k \in 1..n |-> r.off + k - 1] \in [1..n -> 0..(LoaderLen - 1)]
  BY <1>5
<1>7. [k \in 1..n |-> r.off + k - 1] \in Seq(0..(LoaderLen - 1))
  BY <1>4, <1>6, SeqDef
<1> QED BY <1>7 DEF n, Slice

(* ------------------------------- the types ------------------------------ *)

\* The host's variables keep their types when a call begins, goes on or ends.
LEMMA HostTypes ==
    ASSUME HostOK
    PROVE  /\ \A c \in Calls, l \in Points : Enter(c, l) => HostOK'
           /\ \A o \in Outcomes : Ends(o) /\ UNCHANGED <<sm, chip, calls>> => HostOK'
           /\ \A l \in Points : GoesTo(l) /\ UNCHANGED <<sm, chip, calls>> => HostOK'
           /\ \A s \in SaharaStates, l \in Points :
                 TransitionTo(s, l) /\ chip' \in BOOLEAN /\ calls' = calls => HostOK'
           /\ UNCHANGED host => HostOK'
<1>1. ASSUME NEW c \in Calls, NEW l \in Points, Enter(c, l) PROVE HostOK'
  <2>1. calls' \in 0..MaxCalls
    BY <1>1, SessionAssumption DEF HostOK, Enter
  <2>2. "none" \in Outcomes
    BY DEF Outcomes
  <2> QED BY <1>1, <2>1, <2>2 DEF HostOK, Enter
<1>2. ASSUME NEW o \in Outcomes, Ends(o), UNCHANGED <<sm, chip, calls>> PROVE HostOK'
  BY <1>2 DEF HostOK, Ends, Points
<1>3. ASSUME NEW l \in Points, GoesTo(l), UNCHANGED <<sm, chip, calls>> PROVE HostOK'
  BY <1>3 DEF HostOK, GoesTo
<1>4. ASSUME NEW s \in SaharaStates, NEW l \in Points,
             TransitionTo(s, l), chip' \in BOOLEAN, calls' = calls
      PROVE  HostOK'
  <2>1. CASE IsValidTransition(sm, s)
    BY <1>4, <2>1 DEF HostOK, TransitionTo, GoesTo
  <2>2. CASE ~IsValidTransition(sm, s)
    <3>1. "transition" \in Outcomes /\ "idle" \in Points
      BY DEF Outcomes, Points
    <3> QED BY <1>4, <2>2, <3>1 DEF HostOK, TransitionTo, Ends
  <2> QED BY <2>1, <2>2
<1>5. ASSUME UNCHANGED host PROVE HostOK'
  BY <1>5 DEF HostOK, host
<1> QED BY <1>1, <1>2, <1>3, <1>4, <1>5

\* What the host puts on the wire, and what it takes off it.
LEMMA SentTypes ==
    ASSUME WireOK
    PROVE  /\ Sends([kind |-> "HelloRsp"]) => toDev' \in Seq(FromHost)
           /\ Sends([kind |-> "Xml"]) => toDev' \in Seq(FromHost)
           /\ \A r \in Requests : Sends([kind |-> "EndOfImage", at |-> r.off])
                                    => toDev' \in Seq(FromHost)
           /\ \A r \in Requests : ~PastTheEnd(r) /\ ~CopyThrows(r)
                 /\ Sends([kind |-> "Chunk", bytes |-> Slice(r)]) => toDev' \in Seq(FromHost)
           /\ \A l : Receives(l) => toHost' \in Seq(FromDevice) /\ Head(toHost) \in FromDevice
<1>1. \A m \in FromHost : Sends(m) => toDev' \in Seq(FromHost)
  BY DEF Sends, WireOK
<1>2. [kind |-> "HelloRsp"] \in FromHost /\ [kind |-> "Xml"] \in FromHost
  BY DEF FromHost
<1>3. \A r \in Requests : [kind |-> "EndOfImage", at |-> r.off] \in FromHost
  BY RequestTypes DEF FromHost
<1>4. \A r \in Requests : ~PastTheEnd(r) /\ ~CopyThrows(r)
          => [kind |-> "Chunk", bytes |-> Slice(r)] \in FromHost
  BY SliceIsLoader DEF FromHost
<1>5. \A l : Receives(l) => toHost' \in Seq(FromDevice) /\ Head(toHost) \in FromDevice
  BY DEF Receives, WireOK
<1> QED BY <1>1, <1>2, <1>3, <1>4, <1>5

\* What the device puts on the wire.
LEMMA AnswerTypes ==
    ASSUME WireOK
    PROVE  /\ \A k \in PlainKinds : Answers(<<[kind |-> k]>>) => toHost' \in Seq(FromDevice)
           /\ \A k \in PlainKinds : <<[kind |-> k]>> \in Seq(FromDevice)
           /\ \A r \in Requests : Answers(<<r>>) => toHost' \in Seq(FromDevice)
           /\ \A a \in Replies : Answers([i \in 1..Len(a) |-> [kind |-> a[i]]])
                                   => toHost' \in Seq(FromDevice)
<1>1. \A ms \in Seq(FromDevice) : Answers(ms) => toHost' \in Seq(FromDevice)
  BY DEF Answers, WireOK
<1>2. \A k \in PlainKinds : [kind |-> k] \in FromDevice
  BY DEF Packets, FromDevice
<1>3. \A r \in Requests : r \in FromDevice
  BY DEF Packets, FromDevice
<1>4. \A a \in Replies : a \in Seq(Chunks)
  BY SessionAssumption DEF Chunks
<1> DEFINE reply(a) == [i \in 1..Len(a) |-> [kind |-> a[i]]]
<1>5. \A a \in Seq(Chunks) : reply(a) \in Seq(FromDevice)
  <2> SUFFICES ASSUME NEW a \in Seq(Chunks)
               PROVE  [i \in 1..Len(a) |-> [kind |-> a[i]]] \in Seq(FromDevice)
    OBVIOUS
  <2>1. Len(a) \in Nat /\ \A i \in 1..Len(a) : a[i] \in Chunks
    OBVIOUS
  <2>2. \A i \in 1..Len(a) : [kind |-> a[i]] \in FromDevice
    BY <2>1 DEF FromDevice
  <2>3. [i \in 1..Len(a) |-> [kind |-> a[i]]] \in [1..Len(a) -> FromDevice]
    BY <2>2
  <2> DEFINE f == [i \in 1..Len(a) |-> [kind |-> a[i]]]
  <2>4. f \in [1..Len(a) -> FromDevice]
    BY <2>2
  <2> HIDE DEF f
  <2>5. f \in Seq(FromDevice)
    BY <2>1, <2>4, SeqDef
  <2> QED BY <2>5 DEF f
<1> HIDE DEF reply
<1>6. \A a \in Replies : Answers(reply(a)) => toHost' \in Seq(FromDevice)
  BY <1>1, <1>4, <1>5
<1>7. /\ \A k \in PlainKinds : <<[kind |-> k]>> \in Seq(FromDevice)
      /\ \A r \in Requests : <<r>> \in Seq(FromDevice)
  BY <1>2, <1>3
<1> QED BY <1>1, <1>6, <1>7, Zenon DEF reply

\* A READ_DATA packet is a request.
LEMMA ReadDataIsRequest ==
    ASSUME NEW m \in FromDevice, m.kind = "ReadData"
    PROVE  m \in Requests
BY DEF FromDevice, Packets, PlainKinds, Chunks

\* A call that begins keeps the types.
LEMMA CallerTypes == TypeOK /\ Caller => TypeOK'
<1> SUFFICES ASSUME TypeOK, Caller PROVE TypeOK'
  OBVIOUS
<1>0. {"hello", "send"} \subseteq Points
  BY DEF Points
<1>1. HostOK'
  <2>1. CASE Initialize
    BY <1>0, <2>1, HostTypes DEF Initialize, TypeOK, Calls
  <2>2. CASE Detect
    BY <1>0, <2>2, HostTypes DEF Detect, TypeOK, Calls
  <2>3. CASE Disconnect
    <3>1. calls' \in 0..MaxCalls
      BY <2>3, SessionAssumption DEF Disconnect, TypeOK, HostOK
    <3>2. sm' \in SaharaStates /\ chip' = chip
      BY <2>3 DEF Disconnect, TypeOK, HostOK, SaharaStates
    <3>3. \E o \in Outcomes : Ends(o)
      BY <2>3 DEF Disconnect, Outcomes
    <3> QED BY <3>1, <3>2, <3>3 DEF Ends, Points, TypeOK, HostOK
  <2>4. ASSUME NEW c \in Commands, Command(c) PROVE HostOK'
    BY <1>0, <2>4, HostTypes DEF Command, Commands, TypeOK
  <2> QED BY <2>1, <2>2, <2>3, <2>4 DEF Caller
<1>2. WireOK'
  <2>1. (Initialize \/ Detect \/ \E c \in Commands : Command(c)) => WireOK'
    BY DEF Initialize, Detect, Command, TypeOK, WireOK
  <2>2. Disconnect => WireOK'
    BY DEF Disconnect, TypeOK, WireOK
  <2> QED BY <2>1, <2>2 DEF Caller
<1>3. DeviceOK'
  BY DEF Caller, Initialize, Detect, Disconnect, Command, TypeOK, DeviceOK, device
<1> QED BY <1>1, <1>2, <1>3 DEF TypeOK

\* A step of the handshake keeps the types.
LEMMA HandshakeTypes == TypeOK /\ Handshake => TypeOK'
<1> SUFFICES ASSUME TypeOK, Handshake PROVE TypeOK'
  OBVIOUS
<1>0. /\ {"HelloReceived", "HelloSent", "ImageUploading", "ImageUploadComplete",
          "CommandMode"} \subseteq SaharaStates
      /\ {"ok", "false", "protocol", "header", "range", "io"} \subseteq Outcomes
      /\ {"respond", "loader", "upload", "complete", "send"} \subseteq Points
  BY DEF SaharaStates, Outcomes, Points
<1>1. DeviceOK'
  BY DEF Handshake, ReceiveHello, DetectHello, SendHelloRsp, OpenLoader, ReceiveRequest,
         EnterCommandMode, PacketTimesOut, TypeOK, DeviceOK, device
<1>2. CASE ReceiveHello
  <2>1. WireOK'
    BY <1>2, SentTypes DEF ReceiveHello, TypeOK, WireOK
  <2>2. HostOK'
    BY <1>0, <1>2, HostTypes DEF ReceiveHello, TypeOK, HostOK
  <2> QED BY <1>1, <2>1, <2>2 DEF TypeOK
<1>3. CASE DetectHello
  <2>1. WireOK'
    BY <1>3, SentTypes DEF DetectHello, TypeOK, WireOK
  <2>2. HostOK'
    BY <1>0, <1>3, HostTypes DEF DetectHello, TypeOK
  <2> QED BY <1>1, <2>1, <2>2 DEF TypeOK
<1>4. CASE SendHelloRsp
  <2>1. WireOK'
    BY <1>4, SentTypes DEF SendHelloRsp, TypeOK, WireOK
  <2>2. HostOK'
    BY <1>0, <1>4, HostTypes DEF SendHelloRsp, TypeOK, HostOK
  <2> QED BY <1>1, <2>1, <2>2 DEF TypeOK
<1>5. CASE OpenLoader
  <2>1. WireOK'
    BY <1>5 DEF OpenLoader, TypeOK, WireOK
  <2>2. HostOK'
    BY <1>0, <1>5, HostTypes DEF OpenLoader, TypeOK, HostOK
  <2> QED BY <1>1, <2>1, <2>2 DEF TypeOK
<1>6. CASE ReceiveRequest
  <2> DEFINE m == Head(toHost)
  <2>1. toHost' \in Seq(FromDevice) /\ m \in FromDevice
    BY <1>6, SentTypes DEF ReceiveRequest, TypeOK
  <2>2. m.kind = "ReadData" => m \in Requests
    BY <2>1, ReadDataIsRequest
  <2>3. toDev' \in Seq(FromHost)
    BY <1>6, <2>2, SentTypes DEF ReceiveRequest, TypeOK, WireOK
  <2>4. link' = link
    BY <1>6 DEF ReceiveRequest
  <2>5. WireOK'
    BY <2>1, <2>3, <2>4 DEF TypeOK, WireOK
  <2>6. HostOK'
    BY <1>0, <1>6, HostTypes DEF ReceiveRequest, TypeOK, HostOK
  <2> QED BY <1>1, <2>5, <2>6 DEF TypeOK
<1>7. CASE EnterCommandMode
  <2>1. WireOK'
    BY <1>7 DEF EnterCommandMode, TypeOK, WireOK
  <2>2. HostOK'
    BY <1>0, <1>7, HostTypes DEF EnterCommandMode, TypeOK, HostOK
  <2> QED BY <1>1, <2>1, <2>2 DEF TypeOK
<1>8. CASE PacketTimesOut
  <2>1. WireOK'
    BY <1>8 DEF PacketTimesOut, TypeOK, WireOK
  <2>2. HostOK'
    BY <1>0, <1>8, HostTypes DEF PacketTimesOut, TypeOK
  <2> QED BY <1>1, <2>1, <2>2 DEF TypeOK
<1> QED BY <1>2, <1>3, <1>4, <1>5, <1>6, <1>7, <1>8 DEF Handshake

\* A step of a command keeps the types.
LEMMA ExchangeTypes == TypeOK /\ Exchange => TypeOK'
<1> SUFFICES ASSUME TypeOK, Exchange PROVE TypeOK'
  OBVIOUS
<1>1. DeviceOK'
  BY DEF Exchange, SendXml, ReadReply, ReplyIsOver, TransportFails, TypeOK, DeviceOK, device
<1>2. CASE SendXml
  <2>1. WireOK'
    BY <1>2, SentTypes DEF SendXml, TypeOK, WireOK
  <2>2. HostOK'
    BY <1>2, HostTypes DEF SendXml, TypeOK, Points
  <2> QED BY <1>1, <2>1, <2>2 DEF TypeOK
<1>3. CASE ReadReply
  <2>1. Head(toHost) \in FromDevice /\ WireOK'
    BY <1>3 DEF ReadReply, TypeOK, WireOK
  <2>2. Head(toHost).kind \in Kinds
    BY <2>1, RequestTypes DEF FromDevice, Packets, Kinds
  <2>3. HostOK'
    BY <1>3, <2>2 DEF ReadReply, TypeOK, HostOK
  <2> QED BY <1>1, <2>1, <2>3 DEF TypeOK
<1>4. CASE ReplyIsOver
  <2>1. Verdict(call, received) \in Outcomes
    BY DEF Verdict, Outcomes
  <2>2. HostOK'
    BY <1>4, <2>1, HostTypes DEF ReplyIsOver, TypeOK
  <2>3. WireOK'
    BY <1>4 DEF ReplyIsOver, TypeOK, WireOK
  <2> QED BY <1>1, <2>2, <2>3 DEF TypeOK
<1>5. CASE TransportFails
  <2>1. (IF call = "power" THEN "ok" ELSE "io") \in Outcomes
    BY DEF Outcomes
  <2>2. HostOK'
    BY <1>5, <2>1, HostTypes DEF TransportFails, TypeOK
  <2>3. WireOK'
    BY <1>5 DEF TransportFails, TypeOK, WireOK
  <2> QED BY <1>1, <2>2, <2>3 DEF TypeOK
<1> QED BY <1>2, <1>3, <1>4, <1>5 DEF Exchange

\* A step of the device keeps the types.
LEMMA DeviceTypes == TypeOK /\ Device => TypeOK'
<1> SUFFICES ASSUME TypeOK, Device PROVE TypeOK'
  OBVIOUS
<1>0. {"Hello", "ShortHello", "ShortRead", "EndOfImage", "EndWithError", "Other"}
         \subseteq PlainKinds
  BY DEF PlainKinds
<1>1. HostOK'
  BY HostTypes DEF Device, DeviceResets, DeviceAsks, DeviceReceives, TypeOK
<1>2. CASE DeviceResets
  <2>1. toHost' \in Seq(FromDevice)
    <3>1. CASE \E k \in {"Hello", "ShortHello", "Other"} : Answers(<<[kind |-> k]>>)
      BY <1>0, <3>1, AnswerTypes DEF TypeOK
    <3>2. CASE toHost' = <<>>
      BY <3>2
    <3>3. CASE toHost' = <<[kind |-> "Hello"]>>
      BY <1>0, <3>3, AnswerTypes DEF TypeOK
    <3> QED BY <1>2, <3>1, <3>2, <3>3 DEF DeviceResets
  <2>2. WireOK'
    BY <1>2, <2>1 DEF DeviceResets, TypeOK, WireOK
  <2>3. DeviceOK'
    BY <1>2, SessionAssumption DEF DeviceResets, DeviceStates, TypeOK, DeviceOK
  <2> QED BY <1>1, <2>2, <2>3 DEF TypeOK
<1>3. CASE DeviceAsks
  <2>1. toHost' \in Seq(FromDevice)
    BY <1>0, <1>3, AnswerTypes DEF DeviceAsks, TypeOK
  <2>2. WireOK'
    BY <1>3, <2>1 DEF DeviceAsks, TypeOK, WireOK
  <2>3. asked' \in Seq(Requests)
    <3>1. asked' = asked \/ \E r \in Requests : asked' = Append(asked, r)
      BY <1>3 DEF DeviceAsks
    <3> QED BY <3>1 DEF TypeOK, DeviceOK
  <2>6. dev' \in DeviceStates
    <3>1. dev' \in {dev, "firehose", "refused"}
      BY <1>3 DEF DeviceAsks
    <3> QED BY <3>1 DEF DeviceStates, TypeOK, DeviceOK
  <2>4. asks' \in 0..MaxAsks
    BY <1>3, SessionAssumption DEF DeviceAsks, TypeOK, DeviceOK
  <2>5. DeviceOK'
    BY <1>3, <2>3, <2>4, <2>6 DEF DeviceAsks, TypeOK, DeviceOK
  <2> QED BY <1>1, <2>2, <2>5 DEF TypeOK
<1>4. CASE DeviceReceives
  <2> DEFINE m == Head(toDev)
  <2>1. m \in FromHost /\ toDev' \in Seq(FromHost)
    BY <1>4 DEF DeviceReceives, TypeOK, WireOK
  <2>2. toHost' \in Seq(FromDevice)
    BY <1>4, AnswerTypes DEF DeviceReceives, TypeOK, WireOK
  <2>3. WireOK'
    BY <1>4, <2>1, <2>2 DEF DeviceReceives, TypeOK, WireOK
  <2>4. asked' \in Seq(Requests)
    <3>1. asked' = asked \/ (asked # <<>> /\ asked' = Tail(asked))
      BY <1>4 DEF DeviceReceives
    <3> QED BY <3>1 DEF TypeOK, DeviceOK
  <2>7. dev' \in DeviceStates
    <3>1. dev' \in {dev, "transfer", "refused"}
      BY <1>4 DEF DeviceReceives
    <3> QED BY <3>1 DEF DeviceStates, TypeOK, DeviceOK
  <2>5. held' \subseteq Nat \X (0..(LoaderLen - 1))
    <3>1. CASE m.kind = "Chunk" /\ asked # <<>>
      <4>1. m.bytes \in Seq(0..(LoaderLen - 1))
        BY <2>1, <3>1 DEF FromHost
      <4>2. Head(asked).off \in Nat
        BY <3>1, RequestTypes DEF TypeOK, DeviceOK
      <4>3. \A k \in 1..Len(m.bytes) :
               <<Head(asked).off + k - 1, m.bytes[k]>> \in Nat \X (0..(LoaderLen - 1))
        <5> SUFFICES ASSUME NEW k \in 1..Len(m.bytes)
                     PROVE  Head(asked).off + k - 1 \in Nat /\ m.bytes[k] \in 0..(LoaderLen - 1)
          OBVIOUS
        <5>1. ASSUME NEW S, NEW b \in Seq(S), NEW i \in 1..Len(b)
              PROVE  b[i] \in S /\ i \in Nat /\ i >= 1
          BY <5>1
        <5>2. m.bytes[k] \in 0..(LoaderLen - 1) /\ k \in Nat /\ k >= 1
          BY <4>1, <5>1
        <5> QED BY <4>2, <5>2
      <4>4. held' = held \cup {<<Head(asked).off + k - 1, m.bytes[k]>> : k \in 1..Len(m.bytes)}
        BY <1>4, <3>1 DEF DeviceReceives
      <4> QED BY <4>3, <4>4 DEF TypeOK, DeviceOK
    <3>2. CASE ~(m.kind = "Chunk" /\ asked # <<>>)
      <4>1. held' = held
        BY <1>4, <3>2 DEF DeviceReceives
      <4> QED BY <4>1 DEF TypeOK, DeviceOK
    <3> QED BY <3>1, <3>2
  <2>6. DeviceOK'
    BY <1>4, <2>4, <2>5, <2>7 DEF DeviceReceives, TypeOK, DeviceOK
  <2> QED BY <1>1, <2>3, <2>6 DEF TypeOK
<1> QED BY <1>2, <1>3, <1>4 DEF Device

\* Every variable of a session keeps its type (TypeOK of SaharaSession).
THEOREM SessionTypes == Spec => []TypeOK
<1>1. Init => TypeOK
  <2> SUFFICES ASSUME Init PROVE TypeOK
    OBVIOUS
  <2>1. HostOK
    <3>1. sm \in SaharaStates /\ pc \in Points /\ outcome \in Outcomes
      BY DEF Init, SaharaStates, Points, Outcomes
    <3>2. call \in Calls \cup {"none"} /\ received \in Seq(Kinds)
      BY DEF Init
    <3>4. chip \in BOOLEAN
      BY Zenon DEF Init
    <3>3. calls \in 0..MaxCalls
      BY SessionAssumption DEF Init
    <3> QED BY <3>1, <3>2, <3>3, <3>4 DEF HostOK
  <2>2. WireOK
    <3>1. [kind |-> "Hello"] \in FromDevice
      BY DEF FromDevice, Packets, PlainKinds
    <3> QED BY <3>1 DEF Init, WireOK
  <2>3. DeviceOK
    BY SessionAssumption DEF Init, DeviceOK, DeviceStates
  <2> QED BY <2>1, <2>2, <2>3 DEF TypeOK
<1>2. TypeOK /\ [Next]_vars => TypeOK'
  <2>1. TypeOK /\ UNCHANGED vars => TypeOK'
    BY DEF TypeOK, HostOK, WireOK, DeviceOK, vars, host, device
  <2> QED BY <2>1, CallerTypes, HandshakeTypes, ExchangeTypes, DeviceTypes DEF Next
<1> QED BY <1>1, <1>2, PTL DEF Spec

(* ------------------------- the end of the transfer ---------------------- *)

\* The host ends the transfer itself only on a request past the loader's last
\* byte (HostEndsPastLoader of SaharaSession).
THEOREM EndSafe == Spec => []HostEndsPastLoader
<1> DEFINE Late(m) == m.kind = "EndOfImage" => m.at >= LoaderLen
<1>1. Init => HostEndsPastLoader
  BY DEF Init, HostEndsPastLoader
<1>2. TypeOK /\ HostEndsPastLoader /\ [Next]_vars => HostEndsPastLoader'
  <2> SUFFICES ASSUME TypeOK, HostEndsPastLoader, [Next]_vars PROVE HostEndsPastLoader'
    OBVIOUS
  <2>0. toDev \in Seq(FromHost) /\ \A i \in DOMAIN toDev : Late(toDev[i])
    BY DEF TypeOK, WireOK, HostEndsPastLoader
  <2>1. ASSUME NEW m, Late(m), Sends(m) PROVE HostEndsPastLoader'
    <3> HIDE DEF Late
    <3>1. \A i \in DOMAIN Append(toDev, m) : Late(Append(toDev, m)[i])
      BY <2>0, <2>1
    <3> QED BY <2>1, <3>1 DEF Sends, HostEndsPastLoader, Late
  <2>2. ASSUME toDev' \in {toDev, <<>>} PROVE HostEndsPastLoader'
    BY <2>0, <2>2 DEF HostEndsPastLoader
  <2>3. ASSUME toDev # <<>>, toDev' = Tail(toDev) PROVE HostEndsPastLoader'
    <3> HIDE DEF Late
    <3>1. \A i \in DOMAIN Tail(toDev) : Late(Tail(toDev)[i])
      BY <2>0, <2>3
    <3> QED BY <2>3, <3>1 DEF HostEndsPastLoader, Late
  <2>4. CASE Caller
    BY <2>2, <2>4 DEF Caller, Initialize, Detect, Disconnect, Command
  <2>5. CASE Handshake
    <3>1. CASE ReceiveRequest
      <4> DEFINE m == Head(toHost)
      <4>1. m \in FromDevice
        BY <3>1, SentTypes DEF ReceiveRequest, TypeOK
      <4>2. CASE m.kind = "ReadData" /\ PastTheEnd(m)
        <5>1. m.off >= LoaderLen
          BY <4>1, <4>2, ReadDataIsRequest, PastTheEndIsPast
        <5>2. Late([kind |-> "EndOfImage", at |-> m.off])
          BY <5>1
        <5>3. Sends([kind |-> "EndOfImage", at |-> m.off])
          BY <3>1, <4>2 DEF ReceiveRequest
        <5> QED BY <2>1, <5>2, <5>3
      <4>3. CASE ~(m.kind = "ReadData" /\ PastTheEnd(m))
        <5>1. toDev' = toDev \/ Sends([kind |-> "Chunk", bytes |-> Slice(m)])
          BY <3>1, <4>3 DEF ReceiveRequest
        <5>2. Late([kind |-> "Chunk", bytes |-> Slice(m)])
          OBVIOUS
        <5> QED BY <2>1, <2>2, <5>1, <5>2
      <4> QED BY <4>2, <4>3
    <3>2. CASE DetectHello \/ SendHelloRsp
      <4>1. toDev' = toDev \/ Sends([kind |-> "HelloRsp"])
        BY <3>2 DEF DetectHello, SendHelloRsp
      <4>2. Late([kind |-> "HelloRsp"])
        OBVIOUS
      <4> QED BY <2>1, <2>2, <4>1, <4>2
    <3>3. CASE ReceiveHello \/ OpenLoader \/ EnterCommandMode \/ PacketTimesOut
      BY <2>2, <3>3 DEF ReceiveHello, OpenLoader, EnterCommandMode, PacketTimesOut
    <3> QED BY <2>5, <3>1, <3>2, <3>3 DEF Handshake
  <2>6. CASE Exchange
    <3>1. CASE SendXml
      <4>1. Late([kind |-> "Xml"]) /\ Sends([kind |-> "Xml"])
        BY <3>1 DEF SendXml
      <4> QED BY <2>1, <4>1
    <3>2. CASE ReadReply \/ ReplyIsOver \/ TransportFails
      BY <2>2, <3>2 DEF ReadReply, ReplyIsOver, TransportFails
    <3> QED BY <2>6, <3>1, <3>2 DEF Exchange
  <2>7. CASE Device
    BY <2>2, <2>3, <2>7 DEF Device, DeviceResets, DeviceAsks, DeviceReceives
  <2>8. CASE UNCHANGED vars
    BY <2>2, <2>8 DEF vars
  <2> QED BY <2>4, <2>5, <2>6, <2>7, <2>8 DEF Next
<1> QED BY <1>1, <1>2, SessionTypes, PTL DEF Spec

(* ------------------------- the order of the handshake ------------------- *)

\* The session is at one of the six stages: never in Done, MemoryDebugMode or
\* Error, from which alone the way back leads.
Staged == \E i \in 1..6 : sm = Stages[i]

\* A step of a staged session stays at its stage or goes to the next one.
LEMMA StepsForward ==
    Staged /\ [Next]_vars =>
        Staged' /\ (sm' = sm \/ \E i \in 1..5 : sm = Stages[i] /\ sm' = Stages[i + 1])
<1> SUFFICES ASSUME Staged, [Next]_vars
             PROVE  sm' = sm \/ \E i \in 1..5 : sm = Stages[i] /\ sm' = Stages[i + 1]
  <2>1. ASSUME NEW i \in 1..5 PROVE i + 1 \in 1..6
    OBVIOUS
  <2> QED BY <2>1 DEF Staged
<1>0. sm \in {"Disconnected", "HelloReceived", "HelloSent", "ImageUploading",
              "ImageUploadComplete", "CommandMode"}
  BY DEF Staged, Stages
<1> DEFINE Forward == \E i \in 1..5 : sm = Stages[i] /\ sm' = Stages[i + 1]
<1>1. ASSUME NEW l, NEW s \in {"HelloReceived", "HelloSent", "ImageUploading",
                                "ImageUploadComplete", "CommandMode"},
             TransitionTo(s, l)
      PROVE  sm' = sm \/ Forward
  <2>1. CASE IsValidTransition(sm, s)
    <3>1. sm' = s
      BY <1>1, <2>1 DEF TransitionTo
    <3>2. \/ sm = "Disconnected" /\ s = "HelloReceived"
          \/ sm = "HelloReceived" /\ s = "HelloSent"
          \/ sm = "HelloSent" /\ s = "ImageUploading"
          \/ sm = "ImageUploading" /\ s = "ImageUploading"
          \/ sm = "ImageUploading" /\ s = "ImageUploadComplete"
          \/ sm = "ImageUploadComplete" /\ s = "CommandMode"
      BY <1>0, <1>1, <2>1 DEF IsValidTransition, ValidTransitions
    <3>3. /\ Stages[1] = "Disconnected" /\ Stages[2] = "HelloReceived"
          /\ Stages[3] = "HelloSent" /\ Stages[4] = "ImageUploading"
          /\ Stages[5] = "ImageUploadComplete" /\ Stages[6] = "CommandMode"
      BY DEF Stages
    <3> QED BY <3>1, <3>2, <3>3
  <2>2. CASE ~IsValidTransition(sm, s)
    BY <1>1, <2>2 DEF TransitionTo
  <2> QED BY <2>1, <2>2
<1>2. CASE Caller
  <2>1. ~IsValidTransition(sm, "Disconnected")
    BY <1>0 DEF IsValidTransition, ValidTransitions
  <2> QED BY <1>2, <2>1 DEF Caller, Initialize, Detect, Disconnect, Command, Enter
<1>3. CASE Handshake
  <2>1. CASE ReceiveHello
    BY <1>1, <2>1 DEF ReceiveHello
  <2>2. CASE ReceiveRequest
    BY <1>1, <2>2 DEF ReceiveRequest
  <2>3. CASE SendHelloRsp \/ OpenLoader \/ EnterCommandMode
    BY <1>1, <2>3 DEF SendHelloRsp, OpenLoader, EnterCommandMode
  <2>4. CASE DetectHello \/ PacketTimesOut
    BY <2>4 DEF DetectHello, PacketTimesOut
  <2> QED BY <1>3, <2>1, <2>2, <2>3, <2>4 DEF Handshake
<1>4. CASE Exchange
  BY <1>4 DEF Exchange, SendXml, ReadReply, ReplyIsOver, TransportFails
<1>5. CASE Device
  BY <1>5 DEF Device, DeviceResets, DeviceAsks, DeviceReceives, host
<1>6. CASE UNCHANGED vars
  BY <1>6 DEF vars, host
<1> QED BY <1>2, <1>3, <1>4, <1>5, <1>6 DEF Next

\* The handshake goes one stage forward at a time and never back
\* (OneWayHandshake of SaharaSession).
THEOREM HandshakeForward == Spec => OneWayHandshake
<1>1. Init => Staged
  BY DEF Init, Staged, Stages
<1>2. Staged /\ [Next]_vars => Staged'
  BY StepsForward
<1>3. Staged /\ [Next]_vars
        => [sm' # sm => \E i \in 1..5 : sm = Stages[i] /\ sm' = Stages[i + 1]]_vars
  BY StepsForward
<1> QED BY <1>1, <1>2, <1>3, PTL DEF Spec, OneWayHandshake

(* ------------------------- what the device holds ------------------------ *)

\* The host is on its way from a HELLO to the end of an upload.
Active == pc \in {"respond", "loader", "upload"}

\* Behind the first i packets of q there are n requests, the same and in the same
\* order as those of rs behind its c-th; the device waits on no more, or what comes
\* next is no request.
Leads(q, rs, i, c, n) ==
    /\ i + n <= Len(q) /\ c + n <= Len(rs)
    /\ \A j \in 1..n : q[i + j] = rs[c + j]
    /\ \/ i + n = Len(q) /\ c + n = Len(rs)
       \/ i + n < Len(q) /\ q[i + n + 1].kind # "ReadData"

\* The chunks on their way are the c packets behind the first p, and they answer
\* the first c requests the device waits on.
Answering(q, rs, p, c) ==
    /\ p + c <= Len(q) /\ c <= Len(rs)
    /\ \A i \in 1..Len(q) : q[i].kind = "Chunk" => p < i /\ i <= p + c
    /\ \A j \in 1..c : q[p + j] = [kind |-> "Chunk", bytes |-> Slice(rs[j])]

\* While the host is active it goes on with the answers where it is.
Paired ==
    \E p, c \in Nat :
        /\ Answering(toDev, asked, p, c)
        /\ Active => /\ p + c = Len(toDev)
                     /\ \E n \in Nat : Leads(toHost, asked, 0, c, n)

\* The device has started over under an upload: it takes no chunk before the host has
\* greeted it again, and the host will read what is no request before it does that.
Stale ==
    /\ resets # 0 /\ dev = "hello" /\ asked = <<>> /\ sm \notin {"Disconnected", "HelloReceived"}
    /\ \A j \in 1..Len(toDev) : toDev[j].kind = "Chunk"
          => \A i \in 1..(j - 1) : toDev[i].kind # "HelloRsp"
    /\ Active => /\ \A i \in 1..Len(toDev) : toDev[i].kind # "HelloRsp"
                 /\ link = "down" \/ \E i \in 1..Len(toHost) : toHost[i].kind # "ReadData"

Places ==
    /\ pc = "respond" => sm = "HelloReceived"
    /\ pc = "loader" => sm = "HelloSent"
    /\ pc = "upload" => sm = "ImageUploading"

Greeted == \E i \in 1..Len(toDev) : toDev[i].kind = "HelloRsp"
Hello(q) == \E i \in 1..Len(q) : q[i].kind = "Hello"

\* The HELLO of power on finds the device as it was then.
FirstHello ==
    /\ Hello(toHost) => Len(toHost) = 1
    /\ Hello(toHost) \/ pc = "respond" => dev = "hello" /\ asked = <<>> /\ ~Greeted
    /\ pc = "respond" => toHost = <<>>

\* Before the upload no chunk is on its way, and the requests behind a HELLO are
\* those the device waits on.
BeforeUpload ==
    /\ sm \in {"Disconnected", "HelloReceived", "HelloSent"}
         => \A i \in 1..Len(toDev) : toDev[i].kind # "Chunk"
    /\ sm = "Disconnected"
         => \A i \in 1..Len(toHost) : toHost[i].kind = "Hello"
              => \E n \in Nat : Leads(toHost, asked, i, 0, n)

InOrder ==
    resets <= 1 =>
        /\ BeforeUpload /\ (Paired \/ Stale)
        /\ resets = 0 => FirstHello
        /\ \A x \in held : x[1] = x[2]

(* ------------------------- packets in sequences ------------------------- *)

LEMMA TailIs ==
    ASSUME NEW S, NEW q \in Seq(S), q # <<>>
    PROVE  /\ Head(q) = q[1] /\ Tail(q) \in Seq(S)
           /\ Len(q) \in Nat \ {0} /\ Len(Tail(q)) = Len(q) - 1
           /\ \A i \in 1..(Len(q) - 1) : Tail(q)[i] = q[i + 1]
<1>1. Len(q) \in Nat \ {0} /\ Len(Tail(q)) = Len(q) - 1
  BY HeadTailProperties, EmptySeq, LenProperties
<1> QED BY <1>1, HeadTailProperties

\* One more packet behind the others, whatever it is.
LEMMA OneMore ==
    ASSUME NEW S, NEW q \in Seq(S), NEW m
    PROVE  /\ Len(q) \in Nat /\ Len(Append(q, m)) = Len(q) + 1
           /\ \A i \in 1..Len(q) : Append(q, m)[i] = q[i]
           /\ Append(q, m)[Len(q) + 1] = m
<1>1. PICK T : T = S \cup {m}
  OBVIOUS
<1>2. q \in Seq(T) /\ m \in T
  BY <1>1, SeqMonotonic
<1> QED BY <1>2, AppendProperties, LenProperties

\* More packets behind the others.
LEMMA ManyMore ==
    ASSUME NEW S, NEW q \in Seq(S), NEW ms \in Seq(S)
    PROVE  /\ Len(q) \in Nat /\ Len(ms) \in Nat /\ Len(q \o ms) = Len(q) + Len(ms)
           /\ \A i \in 1..Len(q) : (q \o ms)[i] = q[i]
           /\ \A i \in 1..Len(ms) : (q \o ms)[Len(q) + i] = ms[i]
<1>1. Len(q) \in Nat /\ Len(ms) \in Nat /\ Len(q \o ms) = Len(q) + Len(ms)
  BY ConcatProperties, LenProperties
<1>2. \A i \in 1..(Len(q) + Len(ms)) :
         (q \o ms)[i] = IF i <= Len(q) THEN q[i] ELSE ms[i - Len(q)]
  BY ConcatProperties
<1>3. ASSUME NEW i \in 1..Len(ms) PROVE (q \o ms)[Len(q) + i] = ms[i]
  <2>1. Len(q) + i \in 1..(Len(q) + Len(ms)) /\ ~(Len(q) + i <= Len(q)) /\ (Len(q) + i) - Len(q) = i
    BY <1>1
  <2> QED BY <1>2, <2>1
<1> QED BY <1>1, <1>2, <1>3

(* ----------------------- requests and their answers --------------------- *)

\* The host reads what is no part of the run.
LEMMA LeadsTail ==
    ASSUME NEW S, NEW q \in Seq(S), q # <<>>, NEW T, NEW rs \in Seq(T),
           NEW i \in Nat, NEW c \in Nat, NEW n \in Nat, Leads(q, rs, i + 1, c, n)
    PROVE  Leads(Tail(q), rs, i, c, n)
<1>1. (i + 1) + n <= Len(q) /\ c + n <= Len(rs)
  BY DEF Leads
<1>2. \A j \in 1..n : q[(i + 1) + j] = rs[c + j]
  BY DEF Leads
<1>3. \/ (i + 1) + n = Len(q) /\ c + n = Len(rs)
      \/ (i + 1) + n < Len(q) /\ q[(i + 1) + n + 1].kind # "ReadData"
  BY DEF Leads
<1>4. Len(q) \in Nat \ {0} /\ Len(Tail(q)) = Len(q) - 1
  BY TailIs
<1>5. \A k \in 1..(Len(q) - 1) : Tail(q)[k] = q[k + 1]
  BY TailIs
<1>6. ASSUME NEW j \in 1..n PROVE Tail(q)[i + j] = rs[c + j]
  <2>1. i + j \in 1..(Len(q) - 1) /\ (i + j) + 1 = (i + 1) + j
    BY <1>1, <1>4
  <2> QED BY <1>2, <1>5, <2>1
<1>7. ASSUME (i + 1) + n < Len(q) PROVE Tail(q)[i + n + 1] = q[(i + 1) + n + 1]
  <2>1. i + n + 1 \in 1..(Len(q) - 1) /\ (i + n + 1) + 1 = (i + 1) + n + 1
    BY <1>4, <1>7
  <2> QED BY <1>5, <2>1
<1>8. i + n <= Len(q) - 1
  BY <1>1, <1>4
<1>9. (i + 1) + n = Len(q) => i + n = Len(q) - 1
  <2>1. ((i + 1) + n) - 1 = i + n
    OBVIOUS
  <2> QED BY <2>1
<1>10. (i + 1) + n < Len(q) => i + n < Len(q) - 1
  BY <1>4
<1> QED BY <1>1, <1>3, <1>4, <1>6, <1>7, <1>8, <1>9, <1>10 DEF Leads

\* The host reads the first request of the run.
LEMMA LeadsRead ==
    ASSUME NEW S, NEW q \in Seq(S), q # <<>>, NEW T, NEW rs \in Seq(T), NEW c \in Nat, NEW n \in Nat,
           Leads(q, rs, 0, c, n), Head(q).kind = "ReadData"
    PROVE  /\ c + 1 <= Len(rs) /\ Head(q) = rs[c + 1]
           /\ \E k \in Nat : Leads(Tail(q), rs, 0, c + 1, k)
<1>1. Len(q) \in Nat \ {0} /\ Len(Tail(q)) = Len(q) - 1 /\ Len(rs) \in Nat
  BY TailIs, LenProperties
<1>2. \A i \in 1..(Len(q) - 1) : Tail(q)[i] = q[i + 1]
  BY TailIs
<1>3. Head(q) = q[1]
  BY TailIs
<1>4. 0 + n <= Len(q) /\ c + n <= Len(rs)
  BY DEF Leads
<1>5. \A j \in 1..n : q[0 + j] = rs[c + j]
  BY DEF Leads
<1>6. \/ 0 + n = Len(q) /\ c + n = Len(rs)
      \/ 0 + n < Len(q) /\ q[0 + n + 1].kind # "ReadData"
  BY DEF Leads
<1>7. n # 0
  <2> SUFFICES ASSUME n = 0 PROVE FALSE
    OBVIOUS
  <2>1. 0 + n # Len(q) /\ 0 + n + 1 = 1
    BY <1>1
  <2> QED BY <1>3, <1>6, <2>1
<1>8. PICK k \in Nat : k = n - 1
  BY <1>7
<1>9. 1 \in 1..n /\ 0 + 1 = 1 /\ c + 1 <= Len(rs)
  BY <1>1, <1>4, <1>7
<1>10. q[1] = rs[c + 1]
  BY <1>5, <1>9
<1>11. ASSUME NEW j \in 1..k PROVE Tail(q)[0 + j] = rs[(c + 1) + j]
  <2>1. j + 1 \in 1..n /\ 0 + j = j /\ 0 + (j + 1) = j + 1 /\ c + (j + 1) = (c + 1) + j
    BY <1>8
  <2>2. j \in 1..(Len(q) - 1)
    BY <1>1, <1>4, <1>8
  <2>3. q[j + 1] = rs[(c + 1) + j]
    BY <1>5, <2>1
  <2> QED BY <1>2, <2>1, <2>2, <2>3
<1>12. ASSUME 0 + n < Len(q) PROVE Tail(q)[0 + k + 1] = q[0 + n + 1]
  <2>1. 0 + k + 1 = n /\ n \in 1..(Len(q) - 1) /\ 0 + n + 1 = n + 1
    BY <1>1, <1>7, <1>8, <1>12
  <2> QED BY <1>2, <2>1
<1>13. 0 + k = n - 1 /\ (c + 1) + k = c + n
  BY <1>8
<1>14. /\ 0 + k <= Len(q) - 1
       /\ 0 + n = Len(q) => 0 + k = Len(q) - 1
       /\ 0 + n < Len(q) => 0 + k < Len(q) - 1
  <2>1. 0 + n = n /\ n <= Len(q) /\ Len(q) \in Nat
    BY <1>1, <1>4
  <2>2. n - 1 <= Len(q) - 1 /\ (n < Len(q) => n - 1 < Len(q) - 1)
    BY <2>1
  <2> QED BY <1>13, <2>1, <2>2
<1>15. Leads(Tail(q), rs, 0, c + 1, k)
  BY <1>1, <1>4, <1>6, <1>11, <1>12, <1>13, <1>14 DEF Leads
<1> QED BY <1>3, <1>9, <1>10, <1>15

\* The device sends what is no request.
LEMMA LeadsMore ==
    ASSUME NEW S, NEW q \in Seq(S), NEW ms \in Seq(S), NEW rs,
           NEW i \in Nat, NEW c \in Nat, NEW n \in Nat, Leads(q, rs, i, c, n),
           \A k \in 1..Len(ms) : ms[k].kind # "ReadData"
    PROVE  Leads(q \o ms, rs, i, c, n)
<1>1. i + n <= Len(q) /\ c + n <= Len(rs)
  BY DEF Leads
<1>2. \A j \in 1..n : q[i + j] = rs[c + j]
  BY DEF Leads
<1>3. \/ i + n = Len(q) /\ c + n = Len(rs)
      \/ i + n < Len(q) /\ q[i + n + 1].kind # "ReadData"
  BY DEF Leads
<1>4. PICK r : r = q \o ms
  OBVIOUS
<1>5. Len(q) \in Nat /\ Len(ms) \in Nat /\ Len(r) = Len(q) + Len(ms)
  BY <1>4, ManyMore
<1>6. \A k \in 1..Len(q) : r[k] = q[k]
  BY <1>4, ManyMore
<1>7. \A k \in 1..Len(ms) : r[Len(q) + k] = ms[k]
  BY <1>4, ManyMore
<1>8. ASSUME NEW j \in 1..n PROVE r[i + j] = rs[c + j]
  <2>1. i + j \in 1..Len(q)
    BY <1>1, <1>5
  <2> QED BY <1>2, <1>6, <2>1
<1>9. i + n <= Len(r)
  BY <1>1, <1>5
<1>10. CASE i + n < Len(q) /\ q[i + n + 1].kind # "ReadData"
  <2>1. i + n + 1 \in 1..Len(q) /\ i + n < Len(r)
    BY <1>5, <1>10
  <2>2. r[i + n + 1] = q[i + n + 1]
    BY <1>6, <2>1
  <2> QED BY <1>1, <1>4, <1>8, <1>9, <1>10, <2>1, <2>2 DEF Leads
<1>11. CASE i + n = Len(q) /\ c + n = Len(rs)
  <2>1. CASE Len(ms) = 0
    <3>1. i + n = Len(r)
      BY <1>5, <1>11, <2>1
    <3> QED BY <1>1, <1>4, <1>8, <1>9, <1>11, <3>1 DEF Leads
  <2>2. CASE Len(ms) # 0
    <3>1. 1 \in 1..Len(ms) /\ i + n < Len(r) /\ i + n + 1 = Len(q) + 1
      BY <1>5, <1>11, <2>2
    <3>2. r[i + n + 1].kind # "ReadData"
      BY <1>7, <3>1
    <3> QED BY <1>1, <1>4, <1>8, <1>9, <3>1, <3>2 DEF Leads
  <2> QED BY <2>1, <2>2
<1> QED BY <1>3, <1>10, <1>11

\* The device sends a request and waits on it.
LEMMA LeadsAsked ==
    ASSUME NEW S, NEW q \in Seq(S), NEW T, NEW rs \in Seq(T), NEW r \in S,
           NEW i \in Nat, NEW c \in Nat, NEW n \in Nat, Leads(q, rs, i, c, n)
    PROVE  \E k \in Nat : Leads(q \o <<r>>, Append(rs, r), i, c, k)
<1>1. i + n <= Len(q) /\ c + n <= Len(rs)
  BY DEF Leads
<1>2. \A j \in 1..n : q[i + j] = rs[c + j]
  BY DEF Leads
<1>3. \/ i + n = Len(q) /\ c + n = Len(rs)
      \/ i + n < Len(q) /\ q[i + n + 1].kind # "ReadData"
  BY DEF Leads
<1>4. PICK u, bs : u = q \o <<r>> /\ bs = Append(rs, r)
  OBVIOUS
<1>5. PICK w \in Seq(S) : w = <<r>>
  <2>1. <<r>> \in Seq(S)
    OBVIOUS
  <2> QED BY <2>1
<1>6. Len(w) = 1 /\ w[1] = r /\ 1 \in 1..1
  BY <1>5
<1>7. Len(q) \in Nat /\ Len(u) = Len(q) + 1
  BY <1>4, <1>5, <1>6, ManyMore
<1>8. \A k \in 1..Len(q) : u[k] = q[k]
  BY <1>4, <1>5, ManyMore
<1>9. u[Len(q) + 1] = r
  BY <1>4, <1>5, <1>6, ManyMore
<1>10. Len(rs) \in Nat /\ Len(bs) = Len(rs) + 1
  BY <1>4, OneMore
<1>11. \A k \in 1..Len(rs) : bs[k] = rs[k]
  BY <1>4, OneMore
<1>12. bs[Len(rs) + 1] = r
  BY <1>4, OneMore
<1>13. ASSUME NEW j \in 1..n PROVE u[i + j] = bs[c + j]
  <2>1. i + j \in 1..Len(q)
    BY <1>1, <1>7
  <2>2. c + j \in 1..Len(rs)
    BY <1>1, <1>10
  <2> QED BY <1>2, <1>8, <1>11, <2>1, <2>2
<1>14. CASE i + n < Len(q) /\ q[i + n + 1].kind # "ReadData"
  <2>1. i + n + 1 \in 1..Len(q) /\ i + n < Len(u) /\ i + n <= Len(u)
    BY <1>1, <1>7, <1>14
  <2>2. c + n <= Len(bs)
    BY <1>1, <1>10
  <2>3. u[i + n + 1] = q[i + n + 1]
    BY <1>8, <2>1
  <2>4. Leads(u, bs, i, c, n)
    BY <1>13, <1>14, <2>1, <2>2, <2>3 DEF Leads
  <2> QED BY <1>4, <2>4
<1>15. CASE i + n = Len(q) /\ c + n = Len(rs)
  <2>1. ASSUME NEW j \in 1..(n + 1) PROVE u[i + j] = bs[c + j]
    <3>1. CASE j \in 1..n
      BY <1>13, <3>1
    <3>2. CASE j = n + 1
      <4>1. i + j = Len(q) + 1
        BY <1>15, <3>2
      <4>2. c + j = Len(rs) + 1
        BY <1>15, <3>2
      <4> QED BY <1>9, <1>12, <4>1, <4>2
    <3> QED BY <3>1, <3>2
  <2>2. PICK k \in Nat : k = n + 1
    OBVIOUS
  <2>a. i + k = (i + n) + 1 /\ c + k = (c + n) + 1
    BY <2>2
  <2>3. i + k = Len(u)
    BY <1>7, <1>15, <2>a
  <2>4. c + k = Len(bs)
    BY <1>10, <1>15, <2>a
  <2>5. i + k <= Len(u) /\ c + k <= Len(bs)
    BY <1>7, <1>10, <2>3, <2>4
  <2>6. Leads(u, bs, i, c, k)
    BY <2>1, <2>2, <2>3, <2>4, <2>5 DEF Leads
  <2> QED BY <1>4, <2>6
<1> QED BY <1>3, <1>14, <1>15

\* The device takes the first answer.
LEMMA LeadsTaken ==
    ASSUME NEW q, NEW T, NEW rs \in Seq(T), rs # <<>>, NEW c \in Nat, c # 0, NEW n \in Nat,
           Leads(q, rs, 0, c, n)
    PROVE  Leads(q, Tail(rs), 0, c - 1, n)
<1>1. 0 + n <= Len(q) /\ c + n <= Len(rs)
  BY DEF Leads
<1>2. \A j \in 1..n : q[0 + j] = rs[c + j]
  BY DEF Leads
<1>3. \/ 0 + n = Len(q) /\ c + n = Len(rs)
      \/ 0 + n < Len(q) /\ q[0 + n + 1].kind # "ReadData"
  BY DEF Leads
<1>4. Len(rs) \in Nat \ {0} /\ Len(Tail(rs)) = Len(rs) - 1
  BY TailIs
<1>5. \A k \in 1..(Len(rs) - 1) : Tail(rs)[k] = rs[k + 1]
  BY TailIs
<1>6. ASSUME NEW j \in 1..n PROVE q[0 + j] = Tail(rs)[(c - 1) + j]
  <2>1. (c - 1) + j \in 1..(Len(rs) - 1) /\ ((c - 1) + j) + 1 = c + j
    BY <1>1, <1>4
  <2> QED BY <1>2, <1>5, <2>1
<1>7. (c - 1) + n = (c + n) - 1 /\ c - 1 \in Nat
  OBVIOUS
<1>8. (c - 1) + n <= Len(rs) - 1
  BY <1>1, <1>4, <1>7
<1>9. c + n = Len(rs) => (c - 1) + n = Len(rs) - 1
  BY <1>7
<1> QED BY <1>1, <1>3, <1>4, <1>6, <1>8, <1>9 DEF Leads

\* With no chunk on its way no answer is.
LEMMA AnsweringNone ==
    ASSUME NEW S, NEW q \in Seq(S), NEW T, NEW rs \in Seq(T),
           \A i \in 1..Len(q) : q[i].kind # "Chunk"
    PROVE  /\ Answering(q, rs, Len(q), 0)
           /\ \A p, c \in Nat : Answering(q, rs, p, c) => c = 0
<1>1. Len(q) \in Nat /\ Len(rs) \in Nat
  BY LenProperties
<1>2. Answering(q, rs, Len(q), 0)
  BY <1>1 DEF Answering
<1>3. ASSUME NEW p \in Nat, NEW c \in Nat, Answering(q, rs, p, c), c # 0 PROVE FALSE
  <2>1. p + c <= Len(q)
    BY <1>3 DEF Answering
  <2>2. 1 \in 1..c /\ p + 1 \in 1..Len(q)
    BY <1>1, <1>3, <2>1
  <2>3. q[p + 1] = [kind |-> "Chunk", bytes |-> Slice(rs[1])]
    BY <1>3, <2>2 DEF Answering
  <2> QED BY <2>2, <2>3
<1> QED BY <1>2, <1>3

\* What is put behind the answers is no chunk.
LEMMA AnsweringSent ==
    ASSUME NEW S, NEW q \in Seq(S), NEW T, NEW rs \in Seq(T), NEW p \in Nat, NEW c \in Nat,
           Answering(q, rs, p, c), NEW m, m.kind # "Chunk"
    PROVE  Answering(Append(q, m), rs, p, c)
<1>1. p + c <= Len(q) /\ c <= Len(rs)
  BY DEF Answering
<1>2. \A i \in 1..Len(q) : q[i].kind = "Chunk" => p < i /\ i <= p + c
  BY DEF Answering
<1>3. \A j \in 1..c : q[p + j] = [kind |-> "Chunk", bytes |-> Slice(rs[j])]
  BY DEF Answering
<1>4. PICK r : r = Append(q, m)
  OBVIOUS
<1>5. Len(q) \in Nat /\ Len(r) = Len(q) + 1
  BY <1>4, OneMore
<1>6. \A i \in 1..Len(q) : r[i] = q[i]
  BY <1>4, OneMore
<1>7. r[Len(q) + 1] = m
  BY <1>4, OneMore
<1>8. p + c <= Len(r)
  BY <1>1, <1>5
<1>9. ASSUME NEW i \in 1..Len(r), r[i].kind = "Chunk" PROVE p < i /\ i <= p + c
  <2>1. i \in 1..Len(q) \/ i = Len(q) + 1
    BY <1>5
  <2> QED BY <1>2, <1>6, <1>7, <1>9, <2>1
<1>10. ASSUME NEW j \in 1..c PROVE r[p + j] = [kind |-> "Chunk", bytes |-> Slice(rs[j])]
  <2>1. p + j \in 1..Len(q)
    BY <1>1, <1>5
  <2> QED BY <1>3, <1>6, <2>1
<1> QED BY <1>1, <1>4, <1>8, <1>9, <1>10 DEF Answering

\* The host answers the next request.
LEMMA AnsweringChunk ==
    ASSUME NEW S, NEW q \in Seq(S), NEW T, NEW rs \in Seq(T), NEW p \in Nat, NEW c \in Nat,
           Answering(q, rs, p, c), p + c = Len(q), c + 1 <= Len(rs),
           NEW m, m = [kind |-> "Chunk", bytes |-> Slice(rs[c + 1])]
    PROVE  Answering(Append(q, m), rs, p, c + 1) /\ p + (c + 1) = Len(Append(q, m))
<1>2. \A i \in 1..Len(q) : q[i].kind = "Chunk" => p < i /\ i <= p + c
  BY DEF Answering
<1>3. \A j \in 1..c : q[p + j] = [kind |-> "Chunk", bytes |-> Slice(rs[j])]
  BY DEF Answering
<1>4. PICK r : r = Append(q, m)
  OBVIOUS
<1>5. Len(q) \in Nat /\ Len(r) = Len(q) + 1
  BY <1>4, OneMore
<1>6. \A i \in 1..Len(q) : r[i] = q[i]
  BY <1>4, OneMore
<1>7. r[Len(q) + 1] = m
  BY <1>4, OneMore
<1>8. p + (c + 1) = Len(r)
  <2>1. p + (c + 1) = (p + c) + 1
    OBVIOUS
  <2> QED BY <1>5, <2>1
<1>9. ASSUME NEW i \in 1..Len(r), r[i].kind = "Chunk" PROVE p < i /\ i <= p + (c + 1)
  <2>1. i \in 1..Len(q) \/ i = Len(q) + 1
    BY <1>5
  <2>2. CASE i \in 1..Len(q)
    <3>1. p < i /\ i <= p + c
      BY <1>2, <1>6, <1>9, <2>2
    <3> QED BY <2>2, <3>1
  <2>3. CASE i = Len(q) + 1
    <3>1. i = (p + c) + 1
      BY <2>3
    <3> QED BY <3>1
  <2> QED BY <2>1, <2>2, <2>3
<1>10. ASSUME NEW j \in 1..(c + 1) PROVE r[p + j] = [kind |-> "Chunk", bytes |-> Slice(rs[j])]
  <2>1. CASE j = c + 1
    <3>1. p + j = (p + c) + 1
      BY <2>1
    <3> QED BY <1>7, <2>1, <3>1
  <2>2. CASE j # c + 1
    <3>1. j \in 1..c /\ p + j <= p + c /\ p + j >= 1 /\ p + j \in Nat
      BY <2>2
    <3>2. p + j \in 1..Len(q)
      BY <3>1
    <3> QED BY <1>3, <1>6, <3>1, <3>2
  <2> QED BY <2>1, <2>2
<1>11. p + (c + 1) <= Len(r)
  BY <1>5, <1>8
<1> QED BY <1>4, <1>8, <1>9, <1>10, <1>11 DEF Answering

\* The device waits on one more request.
LEMMA AnsweringAsked ==
    ASSUME NEW q, NEW T, NEW rs \in Seq(T), NEW p \in Nat, NEW c \in Nat,
           Answering(q, rs, p, c), NEW r
    PROVE  Answering(q, Append(rs, r), p, c)
<1>1. c <= Len(rs) /\ Len(rs) \in Nat /\ Len(Append(rs, r)) = Len(rs) + 1
  BY OneMore DEF Answering
<1>2. \A j \in 1..Len(rs) : Append(rs, r)[j] = rs[j]
  BY OneMore
<1>3. \A j \in 1..c : j \in 1..Len(rs)
  BY <1>1
<1>4. c <= Len(Append(rs, r))
  BY <1>1
<1> QED BY <1>2, <1>3, <1>4 DEF Answering

\* The device takes the answer it waits on.
LEMMA AnsweringTaken ==
    ASSUME NEW S, NEW q \in Seq(S), q # <<>>, NEW T, NEW rs \in Seq(T),
           NEW p \in Nat, NEW c \in Nat, Answering(q, rs, p, c), Head(q).kind = "Chunk"
    PROVE  /\ p = 0 /\ c # 0 /\ rs # <<>>
           /\ Head(q) = [kind |-> "Chunk", bytes |-> Slice(Head(rs))]
           /\ Answering(Tail(q), Tail(rs), 0, c - 1)
<1>1. p + c <= Len(q) /\ c <= Len(rs)
  BY DEF Answering
<1>2. \A i \in 1..Len(q) : q[i].kind = "Chunk" => p < i /\ i <= p + c
  BY DEF Answering
<1>3. \A j \in 1..c : q[p + j] = [kind |-> "Chunk", bytes |-> Slice(rs[j])]
  BY DEF Answering
<1>4. Head(q) = q[1] /\ Len(q) \in Nat \ {0} /\ Len(Tail(q)) = Len(q) - 1
  BY TailIs
<1>5. \A i \in 1..(Len(q) - 1) : Tail(q)[i] = q[i + 1]
  BY TailIs
<1>6. p = 0 /\ c # 0
  <2>1. 1 \in 1..Len(q)
    BY <1>4
  <2>2. p < 1 /\ 1 <= p + c
    BY <1>2, <1>4, <2>1
  <2> QED BY <2>2
<1>7. Len(rs) \in Nat /\ rs # <<>>
  <2>1. Len(rs) \in Nat /\ Len(rs) # 0
    BY <1>1, <1>6, LenProperties
  <2> QED BY <2>1, EmptySeq
<1>8. Head(rs) = rs[1] /\ Len(rs) \in Nat \ {0} /\ Len(Tail(rs)) = Len(rs) - 1
  BY <1>7, TailIs
<1>9. \A i \in 1..(Len(rs) - 1) : Tail(rs)[i] = rs[i + 1]
  BY <1>7, TailIs
<1>10. \A j \in 1..c : q[j] = [kind |-> "Chunk", bytes |-> Slice(rs[j])]
  <2>1. \A j \in 1..c : p + j = j
    BY <1>6
  <2> QED BY <1>3, <2>1
<1>11. Head(q) = [kind |-> "Chunk", bytes |-> Slice(Head(rs))]
  <2>1. 1 \in 1..c
    BY <1>6
  <2> QED BY <1>4, <1>8, <1>10, <2>1
<1>12. PICK k \in Nat : k = c - 1
  BY <1>6
<1>13. 0 + k <= Len(Tail(q)) /\ k <= Len(Tail(rs))
  BY <1>1, <1>4, <1>6, <1>8, <1>12
<1>14. ASSUME NEW i \in 1..Len(Tail(q)), Tail(q)[i].kind = "Chunk" PROVE 0 < i /\ i <= 0 + k
  <2>1. i \in 1..(Len(q) - 1) /\ i + 1 \in 1..Len(q)
    BY <1>4
  <2>2. i + 1 <= p + c
    BY <1>2, <1>5, <1>14, <2>1
  <2> QED BY <1>6, <1>12, <2>2
<1>15. ASSUME NEW j \in 1..k
       PROVE  Tail(q)[0 + j] = [kind |-> "Chunk", bytes |-> Slice(Tail(rs)[j])]
  <2>1. j + 1 \in 1..c /\ 0 + j = j
    BY <1>12
  <2>2. j \in 1..(Len(q) - 1)
    BY <1>4, <1>13
  <2>3. j \in 1..(Len(rs) - 1)
    BY <1>8, <1>13
  <2> QED BY <1>5, <1>9, <1>10, <2>1, <2>2, <2>3
<1>16. Answering(Tail(q), Tail(rs), 0, k)
  BY <1>13, <1>14, <1>15 DEF Answering
<1> QED BY <1>6, <1>7, <1>11, <1>12, <1>16

\* The device takes what is no answer.
LEMMA AnsweringSkips ==
    ASSUME NEW S, NEW q \in Seq(S), q # <<>>, NEW rs,
           NEW p \in Nat, NEW c \in Nat, Answering(q, rs, p, c), Head(q).kind # "Chunk"
    PROVE  \E k \in Nat : /\ Answering(Tail(q), rs, k, c)
                          /\ p + c = Len(q) => k + c = Len(Tail(q))
<1>1. p + c <= Len(q)
  BY DEF Answering
<1>2. \A i \in 1..Len(q) : q[i].kind = "Chunk" => p < i /\ i <= p + c
  BY DEF Answering
<1>3. \A j \in 1..c : q[p + j] = [kind |-> "Chunk", bytes |-> Slice(rs[j])]
  BY DEF Answering
<1>4. Head(q) = q[1] /\ Len(q) \in Nat \ {0} /\ Len(Tail(q)) = Len(q) - 1
  BY TailIs
<1>5. \A i \in 1..(Len(q) - 1) : Tail(q)[i] = q[i + 1]
  BY TailIs
<1>6. p = 0 => c = 0
  <2> SUFFICES ASSUME p = 0, c # 0 PROVE FALSE
    OBVIOUS
  <2>1. 1 \in 1..c /\ p + 1 = 1
    OBVIOUS
  <2>2. q[p + 1] = [kind |-> "Chunk", bytes |-> Slice(rs[1])]
    BY <1>3, <2>1
  <2>3. q[1].kind = "Chunk"
    BY <2>1, <2>2
  <2> QED BY <1>4, <2>3
<1>7. PICK k \in Nat : k = IF p = 0 THEN 0 ELSE p - 1
  OBVIOUS
<1>8. k + c <= Len(Tail(q)) /\ (p + c = Len(q) => k + c = Len(Tail(q)))
  <2>1. CASE p = 0
    BY <1>4, <1>6, <1>7, <2>1
  <2>2. CASE p # 0
    <3>1. k + c = (p + c) - 1
      BY <1>7, <2>2
    <3>2. (p + c) - 1 <= Len(q) - 1
      BY <1>1, <1>4
    <3> QED BY <1>4, <3>1, <3>2
  <2> QED BY <2>1, <2>2
<1>9. ASSUME NEW i \in 1..Len(Tail(q)), Tail(q)[i].kind = "Chunk" PROVE k < i /\ i <= k + c
  <2>1. i \in 1..(Len(q) - 1) /\ i + 1 \in 1..Len(q)
    BY <1>4
  <2>2. p < i + 1 /\ i + 1 <= p + c
    BY <1>2, <1>5, <1>9, <2>1
  <2>3. p # 0
    <3> SUFFICES ASSUME p = 0 PROVE FALSE
      OBVIOUS
    <3> QED BY <1>6, <2>1, <2>2
  <2> QED BY <1>7, <2>1, <2>2, <2>3
<1>10. ASSUME NEW j \in 1..c PROVE Tail(q)[k + j] = [kind |-> "Chunk", bytes |-> Slice(rs[j])]
  <2>1. p # 0 /\ k = p - 1
    BY <1>6, <1>7
  <2>2. k + j \in 1..(Len(q) - 1) /\ (k + j) + 1 = p + j
    BY <1>1, <1>4, <2>1
  <2> QED BY <1>3, <1>5, <2>2
<1> QED BY <1>8, <1>9, <1>10 DEF Answering

(* ---------------------- what the device holds, proved ------------------- *)

Early == {"Disconnected", "HelloReceived", "HelloSent"}

\* No stage comes back.
LEMMA NoStageBack ==
    ASSUME Staged, [Next]_vars
    PROVE  /\ sm' \in Early => sm \in Early
           /\ sm' = "Disconnected" => sm = "Disconnected"
           /\ sm \notin {"Disconnected", "HelloReceived"}
                => sm' \notin {"Disconnected", "HelloReceived"}
<1>1. CASE sm' = sm
  BY <1>1
<1>2. CASE \E i \in 1..5 : sm = Stages[i] /\ sm' = Stages[i + 1]
  <2>1. PICK i \in 1..5 : sm = Stages[i] /\ sm' = Stages[i + 1]
    BY <1>2
  <2>2. /\ Stages[1] = "Disconnected" /\ Stages[2] = "HelloReceived"
        /\ Stages[3] = "HelloSent" /\ Stages[4] = "ImageUploading"
        /\ Stages[5] = "ImageUploadComplete" /\ Stages[6] = "CommandMode"
    BY DEF Stages
  <2>3. i = 1 \/ i = 2 \/ i = 3 \/ i = 4 \/ i = 5
    BY <2>1
  <2>4. \/ sm = "Disconnected" /\ sm' = "HelloReceived"
        \/ sm = "HelloReceived" /\ sm' = "HelloSent"
        \/ sm = "HelloSent" /\ sm' = "ImageUploading"
        \/ sm = "ImageUploading" /\ sm' = "ImageUploadComplete"
        \/ sm = "ImageUploadComplete" /\ sm' = "CommandMode"
    BY <2>1, <2>2, <2>3
  <2> QED BY <2>4 DEF Early
<1> QED BY <1>1, <1>2, StepsForward

\* Where the host is parked goes with the state of the machine.
LEMMA PlacesStep == ASSUME Places, [Next]_vars PROVE Places'
<1>1. CASE Caller
  BY <1>1 DEF Caller, Initialize, Detect, Disconnect, Command, Enter, Ends, Places
<1>2. CASE Handshake
  <2>1. CASE ReceiveHello \/ DetectHello \/ PacketTimesOut \/ EnterCommandMode
    BY <2>1 DEF ReceiveHello, DetectHello, PacketTimesOut, EnterCommandMode, TransitionTo, Ends,
                GoesTo, Places
  <2>2. CASE SendHelloRsp \/ OpenLoader
    BY <2>2 DEF SendHelloRsp, OpenLoader, TransitionTo, Ends, GoesTo, Places
  <2>3. CASE ReceiveRequest
    <3>1. pc = "upload" /\ sm = "ImageUploading"
      BY <2>3 DEF ReceiveRequest, Receives, Places
    <3>2. pc' \in {"idle", "complete"} \/ (pc' = "upload" /\ sm' = sm)
      BY <2>3 DEF ReceiveRequest, TransitionTo, Ends, GoesTo
    <3> QED BY <3>1, <3>2 DEF Places
  <2> QED BY <1>2, <2>1, <2>2, <2>3 DEF Handshake
<1>3. CASE Exchange
  BY <1>3 DEF Exchange, SendXml, ReadReply, ReplyIsOver, TransportFails, Ends, GoesTo, Places
<1>4. CASE Device \/ UNCHANGED vars
  <2>1. UNCHANGED host
    BY <1>4 DEF Device, DeviceResets, DeviceAsks, DeviceReceives, vars
  <2> QED BY <2>1 DEF host, Places
<1> QED BY <1>1, <1>2, <1>3, <1>4 DEF Next

\* A step of the host that takes part in no upload.
LEMMA HostAside ==
    ASSUME TypeOK, Paired \/ Stale, UNCHANGED device, Active' => Active,
           Active' => UNCHANGED <<toHost, toDev, link>>,
           sm \notin {"Disconnected", "HelloReceived"}
              => sm' \notin {"Disconnected", "HelloReceived"},
           toDev' = toDev \/ \E m : m.kind # "Chunk" /\ Sends(m)
    PROVE  (Paired \/ Stale)'
<1>a. toDev \in Seq(FromHost) /\ asked \in Seq(Requests) /\ UNCHANGED <<asked, dev, resets>>
  BY DEF TypeOK, WireOK, DeviceOK, device
<1>1. CASE Paired
  <2>1. PICK p, c \in Nat :
            /\ Answering(toDev, asked, p, c)
            /\ Active => /\ p + c = Len(toDev)
                         /\ \E n \in Nat : Leads(toHost, asked, 0, c, n)
    BY <1>1 DEF Paired
  <2>2. Answering(toDev', asked', p, c)
    BY <1>a, <2>1, AnsweringSent DEF Sends
  <2>3. Active' => p + c = Len(toDev') /\ \E n \in Nat : Leads(toHost', asked', 0, c, n)
    BY <1>a, <2>1
  <2> QED BY <2>2, <2>3 DEF Paired
<1>2. CASE Stale
  <2>1. ASSUME NEW j \in 1..Len(toDev'), toDev'[j].kind = "Chunk",
               NEW i \in 1..(j - 1)
        PROVE  toDev'[i].kind # "HelloRsp"
    <3>1. CASE toDev' = toDev
      BY <1>2, <2>1, <3>1 DEF Stale
    <3>2. CASE \E m : m.kind # "Chunk" /\ Sends(m)
      <4>1. PICK m : m.kind # "Chunk" /\ toDev' = Append(toDev, m)
        BY <3>2 DEF Sends
      <4>2. /\ Len(toDev) \in Nat /\ Len(toDev') = Len(toDev) + 1
            /\ \A k \in 1..Len(toDev) : toDev'[k] = toDev[k]
            /\ toDev'[Len(toDev) + 1] = m
        BY <1>a, <4>1, OneMore
      <4>3. j # Len(toDev) + 1
        BY <2>1, <4>1, <4>2
      <4>4. j \in 1..Len(toDev) /\ i \in 1..Len(toDev)
        BY <2>1, <4>2, <4>3
      <4> QED BY <1>2, <2>1, <4>2, <4>4 DEF Stale
    <3> QED BY <3>1, <3>2
  <2> QED BY <1>2, <1>a, <2>1 DEF Stale
<1> QED BY <1>1, <1>2

\* The host takes the HELLO up: what is behind it the device waits on.
LEMMA HelloPairs ==
    ASSUME TypeOK, BeforeUpload, ReceiveHello, sm = "Disconnected", pc' = "respond"
    PROVE  Paired'
<1>1. /\ toHost # <<>> /\ toHost' = Tail(toHost) /\ UNCHANGED <<toDev, device>>
      /\ Head(toHost).kind = "Hello"
  BY DEF ReceiveHello, Receives, Ends
<1>2. /\ toDev \in Seq(FromHost) /\ asked \in Seq(Requests) /\ toHost \in Seq(FromDevice)
      /\ asked' = asked
  BY <1>1 DEF TypeOK, WireOK, DeviceOK, device
<1>3. Answering(toDev, asked, Len(toDev), 0)
  BY <1>2, AnsweringNone DEF BeforeUpload
<1>4. 1 \in 1..Len(toHost) /\ toHost[1].kind = "Hello"
  BY <1>1, <1>2, TailIs
<1>5. PICK n \in Nat : Leads(toHost, asked, 1, 0, n)
  BY <1>4 DEF BeforeUpload
<1>6. Leads(Tail(toHost), asked, 0, 0, n)
  <2>1. Leads(toHost, asked, 0 + 1, 0, n)
    BY <1>5
  <2> QED BY <1>1, <1>2, <2>1, LeadsTail
<1>7. Len(toDev) \in Nat /\ Len(toDev) + 0 = Len(toDev)
  BY <1>2, LenProperties
<1> QED BY <1>1, <1>2, <1>3, <1>6, <1>7 DEF Paired

\* The host answers a request.
LEMMA AnswerPairs ==
    ASSUME TypeOK, Places, Paired \/ Stale, ReceiveRequest, pc' = "upload"
    PROVE  (Paired \/ Stale)'
<1>1. PICK m : m = Head(toHost)
  OBVIOUS
<1>2. /\ toHost # <<>> /\ toHost' = Tail(toHost) /\ UNCHANGED <<device, link>> /\ pc = "upload"
      /\ link = "up"
  BY DEF ReceiveRequest, Receives
<1>3. m.kind = "ReadData" /\ Sends([kind |-> "Chunk", bytes |-> Slice(m)]) /\ sm' = sm
  BY <1>1 DEF ReceiveRequest, TransitionTo, Ends, GoesTo
<1>4. /\ toDev \in Seq(FromHost) /\ asked \in Seq(Requests) /\ toHost \in Seq(FromDevice)
      /\ UNCHANGED <<asked, dev, resets>>
  BY <1>2 DEF TypeOK, WireOK, DeviceOK, device
<1>5. PICK a : a = [kind |-> "Chunk", bytes |-> Slice(m)]
  OBVIOUS
<1>6. toDev' = Append(toDev, a) /\ Active /\ Active'
  BY <1>2, <1>3, <1>5 DEF Sends, Active
<1>7. CASE Paired
  <2>1. PICK p, c \in Nat : /\ Answering(toDev, asked, p, c) /\ p + c = Len(toDev)
                            /\ \E n \in Nat : Leads(toHost, asked, 0, c, n)
    BY <1>6, <1>7 DEF Paired
  <2>2. PICK n \in Nat : Leads(toHost, asked, 0, c, n)
    BY <2>1
  <2>3. /\ c + 1 <= Len(asked) /\ m = asked[c + 1]
        /\ \E k \in Nat : Leads(Tail(toHost), asked, 0, c + 1, k)
    BY <1>1, <1>2, <1>3, <1>4, <2>2, LeadsRead
  <2>4. Answering(Append(toDev, a), asked, p, c + 1) /\ p + (c + 1) = Len(Append(toDev, a))
    BY <1>4, <1>5, <2>1, <2>3, AnsweringChunk
  <2>5. c + 1 \in Nat
    OBVIOUS
  <2> QED BY <1>2, <1>4, <1>6, <2>3, <2>4, <2>5 DEF Paired
<1>8. CASE Stale
  <2>1. /\ Len(toDev) \in Nat /\ Len(toDev') = Len(toDev) + 1
        /\ \A k \in 1..Len(toDev) : toDev'[k] = toDev[k]
        /\ toDev'[Len(toDev) + 1] = a
    BY <1>4, <1>6, OneMore
  <2>2. \A i \in 1..Len(toDev') : toDev'[i].kind # "HelloRsp"
    <3>1. ASSUME NEW i \in 1..Len(toDev') PROVE toDev'[i].kind # "HelloRsp"
      <4>1. i \in 1..Len(toDev) \/ i = Len(toDev) + 1
        BY <2>1
      <4>2. a.kind # "HelloRsp"
        BY <1>5
      <4> QED BY <1>6, <1>8, <2>1, <4>1, <4>2 DEF Stale
    <3> QED BY <3>1
  <2>3. \E i \in 1..Len(toHost') : toHost'[i].kind # "ReadData"
    <3>1. PICK i \in 1..Len(toHost) : toHost[i].kind # "ReadData"
      BY <1>2, <1>6, <1>8 DEF Stale
    <3>2. /\ m = toHost[1] /\ Len(toHost) \in Nat \ {0} /\ Len(toHost') = Len(toHost) - 1
          /\ \A k \in 1..(Len(toHost) - 1) : toHost'[k] = toHost[k + 1]
      BY <1>1, <1>2, <1>4, TailIs
    <3>3. i # 1
      BY <1>3, <3>1, <3>2
    <3>4. i - 1 \in 1..(Len(toHost) - 1) /\ (i - 1) + 1 = i
      BY <3>1, <3>2, <3>3
    <3>5. toHost'[i - 1] = toHost[i]
      BY <3>2, <3>4
    <3> QED BY <3>1, <3>2, <3>4, <3>5
  <2>4. \A j \in 1..Len(toDev') : \A i \in 1..(j - 1) : i \in 1..Len(toDev')
    BY <2>1
  <2> QED BY <1>3, <1>4, <1>8, <2>2, <2>3, <2>4 DEF Stale
<1> QED BY <1>7, <1>8

\* The host greets the device: no chunk is on its way yet.
LEMMA GreetingPairs ==
    ASSUME TypeOK, Places, BeforeUpload, Paired \/ Stale, SendHelloRsp
    PROVE  Paired'
<1>1. /\ pc = "respond" /\ sm = "HelloReceived" /\ UNCHANGED <<toHost, device>>
      /\ toDev' = Append(toDev, [kind |-> "HelloRsp"])
  BY DEF SendHelloRsp, Sends, Places
<1>2. toDev \in Seq(FromHost) /\ asked \in Seq(Requests) /\ asked' = asked
  BY <1>1 DEF TypeOK, WireOK, DeviceOK, device
<1>3. PICK p, c \in Nat : /\ Answering(toDev, asked, p, c)
                          /\ \E n \in Nat : Leads(toHost, asked, 0, c, n)
  BY <1>1 DEF Paired, Stale, Active
<1>4. PICK m : m = [kind |-> "HelloRsp"]
  OBVIOUS
<1>5. \A i \in 1..Len(toDev) : toDev[i].kind # "Chunk"
  BY <1>1 DEF BeforeUpload
<1>6. c = 0
  BY <1>2, <1>3, <1>5, AnsweringNone
<1>7. /\ Len(toDev) \in Nat /\ Len(toDev') = Len(toDev) + 1
      /\ \A i \in 1..Len(toDev) : toDev'[i] = toDev[i]
      /\ toDev'[Len(toDev) + 1] = m
  BY <1>1, <1>2, <1>4, OneMore
<1>8. \A i \in 1..Len(toDev') : toDev'[i].kind # "Chunk"
  <2>1. m.kind # "Chunk"
    BY <1>4
  <2>2. ASSUME NEW i \in 1..Len(toDev') PROVE toDev'[i].kind # "Chunk"
    <3>1. i \in 1..Len(toDev) \/ i = Len(toDev) + 1
      BY <1>7
    <3> QED BY <1>5, <1>7, <2>1, <3>1
  <2> QED BY <2>2
<1>9. Answering(toDev', asked, Len(toDev'), 0)
  <2>1. toDev' \in Seq(FromHost \cup {m})
    <3>1. toDev \in Seq(FromHost \cup {m})
      BY <1>2, SeqMonotonic
    <3> QED BY <1>1, <1>4, <3>1
  <2> QED BY <1>2, <1>8, <2>1, AnsweringNone
<1>10. Len(toDev') \in Nat /\ Len(toDev') + 0 = Len(toDev')
  BY <1>7
<1> QED BY <1>1, <1>2, <1>3, <1>6, <1>9, <1>10 DEF Paired

LEMMA HostPairs ==
    ASSUME TypeOK, Staged, Places, BeforeUpload, Paired \/ Stale, Caller \/ Handshake \/ Exchange
    PROVE  (Paired \/ Stale)'
<1>1. UNCHANGED device
  BY DEF Caller, Initialize, Detect, Disconnect, Command, Handshake, ReceiveHello, DetectHello,
         SendHelloRsp, OpenLoader, ReceiveRequest, EnterCommandMode, PacketTimesOut,
         Exchange, SendXml, ReadReply, ReplyIsOver, TransportFails
<1>2. sm \notin {"Disconnected", "HelloReceived"} => sm' \notin {"Disconnected", "HelloReceived"}
  BY NoStageBack DEF Next
<1>3. ASSUME Active' => Active /\ UNCHANGED <<toHost, toDev, link>>,
             toDev' = toDev \/ \E m : m.kind # "Chunk" /\ Sends(m)
      PROVE  (Paired \/ Stale)'
  BY <1>1, <1>2, <1>3, HostAside
<1>4. CASE Initialize \/ Detect \/ \E k \in Commands : Command(k)
  BY <1>3, <1>4 DEF Initialize, Detect, Command, Enter, Active
<1>5. CASE Disconnect
  <2>1. pc' = "idle" /\ toDev' = <<>> /\ asked' = asked
    BY <1>1, <1>5 DEF Disconnect, Ends, device
  <2>2. asked \in Seq(Requests) /\ Len(asked) \in Nat
    BY LenProperties DEF TypeOK, DeviceOK
  <2>3. Answering(<<>>, asked, 0, 0)
    BY <2>2 DEF Answering
  <2> QED BY <2>1, <2>3 DEF Paired, Active
<1>6. CASE ReceiveHello
  <2>1. CASE sm = "Disconnected" /\ pc' = "respond"
    BY <1>6, <2>1, HelloPairs
  <2>2. CASE ~(sm = "Disconnected" /\ pc' = "respond")
    <3>1. pc' = "idle"
      <4>1. pc' \in {"idle", "respond"}
        BY <1>6 DEF ReceiveHello, TransitionTo, Ends, GoesTo
      <4>2. pc' = "respond" => IsValidTransition(sm, "HelloReceived")
        BY <1>6 DEF ReceiveHello, TransitionTo, Ends
      <4>3. IsValidTransition(sm, "HelloReceived") => sm = "Disconnected"
        BY DEF IsValidTransition, ValidTransitions
      <4> QED BY <2>2, <4>1, <4>2, <4>3
    <3> QED BY <1>3, <1>6, <3>1 DEF ReceiveHello, Active
  <2> QED BY <2>1, <2>2
<1>7. CASE DetectHello
  <2>1. pc' = "idle" /\ (toDev' = toDev \/ Sends([kind |-> "HelloRsp"]))
    BY <1>7 DEF DetectHello, Ends
  <2>2. [kind |-> "HelloRsp"].kind # "Chunk"
    OBVIOUS
  <2> QED BY <1>3, <2>1, <2>2 DEF Active
<1>8. CASE SendHelloRsp
  BY <1>8, GreetingPairs
<1>9. CASE OpenLoader
  BY <1>3, <1>9 DEF OpenLoader, Active
<1>10. CASE ReceiveRequest
  <2>1. CASE pc' = "upload"
    BY <1>10, <2>1, AnswerPairs
  <2>2. CASE pc' # "upload"
    <3>1. pc' \in {"idle", "complete"}
      BY <1>10, <2>2 DEF ReceiveRequest, TransitionTo, Ends, GoesTo
    <3>2. toDev' = toDev \/ \E m : m.kind # "Chunk" /\ Sends(m)
      <4>1. toDev' = toDev \/ Sends([kind |-> "EndOfImage", at |-> Head(toHost).off])
        BY <1>10, <2>2 DEF ReceiveRequest, GoesTo
      <4>2. [kind |-> "EndOfImage", at |-> Head(toHost).off].kind # "Chunk"
        OBVIOUS
      <4> QED BY <4>1, <4>2
    <3> QED BY <1>3, <3>1, <3>2 DEF Active
  <2> QED BY <2>1, <2>2
<1>11. CASE EnterCommandMode \/ PacketTimesOut \/ ReadReply \/ ReplyIsOver \/ TransportFails
  BY <1>3, <1>11 DEF EnterCommandMode, PacketTimesOut, ReadReply, ReplyIsOver, TransportFails,
                     TransitionTo, Ends, GoesTo, Active
<1>12. CASE SendXml
  <2>1. pc' = "reply" /\ Sends([kind |-> "Xml"])
    BY <1>12 DEF SendXml, GoesTo
  <2>2. [kind |-> "Xml"].kind # "Chunk"
    OBVIOUS
  <2> QED BY <1>3, <2>1, <2>2 DEF Active
<1> QED BY <1>4, <1>5, <1>6, <1>7, <1>8, <1>9, <1>10, <1>11, <1>12
        DEF Caller, Handshake, Exchange

\* The device starts over for the first time.
LEMMA ResetPairs ==
    ASSUME TypeOK, Places, resets = 0, FirstHello, DeviceResets
    PROVE  (Paired \/ Stale)'
<1>1. /\ UNCHANGED host /\ dev' = "hello" /\ asked' = <<>> /\ toDev' = <<>> /\ resets' = 1
      /\ toHost \in Seq(FromDevice)
  BY DEF DeviceResets, TypeOK, WireOK
<1>2. \/ \E k \in {"Hello", "ShortHello", "Other"} : toHost' = toHost \o <<[kind |-> k]>>
      \/ link' = "down" /\ toHost' = <<>>
      \/ toHost' = <<[kind |-> "Hello"]>>
  BY DEF DeviceResets, Answers
<1>3. ASSUME NEW k \in {"Hello", "ShortHello", "Other"}, toHost' = toHost \o <<[kind |-> k]>>
      PROVE  Len(toHost') = Len(toHost) + 1 /\ toHost'[Len(toHost) + 1].kind # "ReadData"
  <2>1. PICK m : m = [kind |-> k]
    OBVIOUS
  <2>2. toHost' = Append(toHost, m)
    BY <1>1, <1>3, <2>1, AppendIsConcat, AnswerTypes DEF TypeOK
  <2> QED BY <1>1, <2>1, <2>2, OneMore
<1>4. Answering(<<>>, <<>>, 0, 0)
  BY DEF Answering
<1>5. CASE pc = "respond"
  <2>1. toHost = <<>>
    BY <1>5 DEF FirstHello
  <2>2. Leads(toHost', <<>>, 0, 0, 0)
    <3>1. CASE \E k \in {"Hello", "ShortHello", "Other"} : toHost' = toHost \o <<[kind |-> k]>>
      <4>1. Len(toHost') = 1 /\ toHost'[1].kind # "ReadData"
        <5>1. Len(toHost) = 0 /\ Len(toHost) + 1 = 1
          BY <2>1
        <5> QED BY <1>3, <3>1, <5>1
      <4> QED BY <4>1 DEF Leads
    <3>2. CASE toHost' = <<>>
      BY <3>2 DEF Leads
    <3>3. CASE toHost' = <<[kind |-> "Hello"]>>
      <4>1. Len(toHost') = 1 /\ toHost'[1].kind # "ReadData"
        BY <3>3
      <4> QED BY <4>1 DEF Leads
    <3> QED BY <1>2, <3>1, <3>2, <3>3
  <2>3. 0 + 0 = Len(<<>>) /\ 0 \in Nat
    OBVIOUS
  <2> QED BY <1>1, <1>4, <2>2, <2>3 DEF Paired
<1>6. CASE pc \in {"loader", "upload"}
  <2>1. sm' \notin {"Disconnected", "HelloReceived"}
    BY <1>1, <1>6 DEF Places, host
  <2>2. link' = "down" \/ \E i \in 1..Len(toHost') : toHost'[i].kind # "ReadData"
    <3>1. CASE \E k \in {"Hello", "ShortHello", "Other"} : toHost' = toHost \o <<[kind |-> k]>>
      <4>1. Len(toHost') = Len(toHost) + 1 /\ toHost'[Len(toHost) + 1].kind # "ReadData"
        BY <1>3, <3>1
      <4>2. Len(toHost) \in Nat
        BY <1>1, LenProperties
      <4>3. Len(toHost) + 1 \in 1..Len(toHost')
        BY <4>1, <4>2
      <4> QED BY <4>1, <4>3
    <3>2. CASE toHost' = <<[kind |-> "Hello"]>>
      <4>1. 1 \in 1..Len(toHost') /\ toHost'[1].kind # "ReadData"
        BY <3>2
      <4> QED BY <4>1
    <3> QED BY <1>2, <3>1, <3>2
  <2> QED BY <1>1, <2>1, <2>2 DEF Stale
<1>7. CASE pc \notin {"respond", "loader", "upload"}
  <2>1. ~Active'
    BY <1>1, <1>7 DEF Active, host
  <2> QED BY <1>1, <1>4, <2>1 DEF Paired
<1> QED BY <1>5, <1>6, <1>7

\* What the device sends of its own accord.
LEMMA AsksPairs ==
    ASSUME TypeOK, Paired \/ Stale, DeviceAsks
    PROVE  Paired'
<1>1. /\ UNCHANGED <<pc, toDev>> /\ dev = "transfer"
      /\ toHost \in Seq(FromDevice) /\ asked \in Seq(Requests)
  BY DEF DeviceAsks, host, TypeOK, WireOK, DeviceOK
<1>2. PICK p, c \in Nat :
          /\ Answering(toDev, asked, p, c)
          /\ Active => /\ p + c = Len(toDev)
                       /\ \E n \in Nat : Leads(toHost, asked, 0, c, n)
  BY <1>1 DEF Paired, Stale
<1>3. CASE \E r \in Requests : Answers(<<r>>) /\ asked' = Append(asked, r)
  <2>1. PICK r \in Requests : toHost' = toHost \o <<r>> /\ asked' = Append(asked, r)
    BY <1>3 DEF Answers
  <2>2. r \in FromDevice
    BY DEF FromDevice, Packets
  <2>3. Answering(toDev, asked', p, c)
    BY <1>1, <1>2, <2>1, AnsweringAsked
  <2>4. ASSUME NEW n \in Nat, Leads(toHost, asked, 0, c, n)
        PROVE  \E k \in Nat : Leads(toHost', asked', 0, c, k)
    BY <1>1, <2>1, <2>2, <2>4, LeadsAsked
  <2> QED BY <1>1, <1>2, <2>3, <2>4 DEF Paired, Active
<1>4. CASE asked' = asked /\ \E k \in {"ShortRead", "Other", "EndOfImage", "EndWithError"} :
                                Answers(<<[kind |-> k]>>)
  <2>1. PICK k \in {"ShortRead", "Other", "EndOfImage", "EndWithError"} :
              toHost' = toHost \o <<[kind |-> k]>>
    BY <1>4 DEF Answers
  <2>2. PICK ms : ms = <<[kind |-> k]>>
    OBVIOUS
  <2>3. ms \in Seq(FromDevice)
    BY <2>2, AnswerTypes DEF PlainKinds, TypeOK
  <2>4. \A i \in 1..Len(ms) : ms[i].kind # "ReadData"
    BY <2>2
  <2>5. \A n \in Nat : Leads(toHost, asked, 0, c, n) => Leads(toHost', asked', 0, c, n)
    BY <1>1, <1>4, <2>1, <2>2, <2>3, <2>4, LeadsMore
  <2> QED BY <1>1, <1>2, <1>4, <2>5 DEF Paired, Active
<1> QED BY <1>3, <1>4 DEF DeviceAsks

\* What the device does with a packet, as far as the transfer goes.
LEMMA ReceivesIs ==
    ASSUME TypeOK, DeviceReceives
    PROVE  /\ toDev # <<>> /\ toDev' = Tail(toDev) /\ UNCHANGED <<host, link, resets>>
           /\ \/ /\ Head(toDev).kind = "Chunk" /\ asked # <<>> /\ asked' = Tail(asked)
                 /\ UNCHANGED <<toHost, dev>>
                 /\ held' = held \cup {<<Head(asked).off + k - 1, Head(toDev).bytes[k]>> :
                                          k \in 1..Len(Head(toDev).bytes)}
              \/ /\ Head(toDev).kind = "Chunk" => asked = <<>>
                 /\ UNCHANGED <<asked, held>>
                 /\ \E ms \in Seq(FromDevice) :
                       /\ toHost' = toHost \o ms
                       /\ \A i \in 1..Len(ms) : ms[i].kind \in Chunks
                       /\ ms # <<>> => dev = "firehose"
                 /\ \/ dev' = dev
                    \/ Head(toDev).kind = "HelloRsp" /\ dev = "hello" /\ dev' = "transfer"
                    \/ dev = "transfer" /\ dev' = "refused"
<1>0. PICK m : m = Head(toDev)
  OBVIOUS
<1>1. /\ toDev # <<>> /\ toDev' = Tail(toDev) /\ UNCHANGED <<host, link, resets>>
      /\ toHost \in Seq(FromDevice)
  BY DEF DeviceReceives, TypeOK, WireOK
<1>2. ASSUME toHost' = toHost
      PROVE  \E ms \in Seq(FromDevice) : /\ toHost' = toHost \o ms
                                         /\ \A i \in 1..Len(ms) : ms[i].kind \in Chunks
                                         /\ ms # <<>> => dev = "firehose"
  <2>1. <<>> \in Seq(FromDevice) /\ Len(<<>>) = 0 /\ toHost' = toHost \o <<>>
    BY <1>1, <1>2, ConcatEmptySeq
  <2>2. PICK e \in Seq(FromDevice) : e = <<>>
    BY <2>1
  <2>3. \A i \in 1..Len(e) : e[i].kind \in Chunks
    BY <2>1, <2>2
  <2> QED BY <2>1, <2>2, <2>3
<1>3. CASE m.kind = "Chunk" /\ asked # <<>>
  BY <1>0, <1>1, <1>3 DEF DeviceReceives
<1>4. CASE m.kind = "Xml" /\ dev = "firehose"
  <2>1. PICK a \in Replies : /\ Answers([i \in 1..Len(a) |-> [kind |-> a[i]]])
                             /\ UNCHANGED <<dev, asked, held>>
    BY <1>0, <1>4 DEF DeviceReceives
  <2>2. PICK ms : ms = [i \in 1..Len(a) |-> [kind |-> a[i]]]
    OBVIOUS
  <2>3. a \in Seq(Chunks) /\ Len(a) \in Nat
    BY SessionAssumption, LenProperties DEF Chunks
  <2>4. \A i \in 1..Len(a) : a[i] \in Chunks
    BY <2>3, ElementOfSeq
  <2>5. \A i \in 1..Len(a) : ms[i] \in FromDevice /\ ms[i].kind \in Chunks
    BY <2>2, <2>4 DEF FromDevice
  <2>6. ms \in [1..Len(a) -> FromDevice]
    BY <2>2, <2>5
  <2>7. ms \in Seq(FromDevice)
    BY <2>3, <2>6, SeqDef
  <2>8. Len(ms) = Len(a)
    <3>1. DOMAIN ms = 1..Len(a)
      BY <2>2
    <3> QED BY <2>3, <2>7, <3>1, LenProperties
  <2>9. toHost' = toHost \o ms
    BY <2>1, <2>2 DEF Answers
  <2> QED BY <1>0, <1>1, <1>4, <2>1, <2>5, <2>7, <2>8, <2>9
<1>5. CASE ~(m.kind = "Chunk" /\ asked # <<>>) /\ ~(m.kind = "Xml" /\ dev = "firehose")
  <2>1. /\ toHost' = toHost /\ UNCHANGED <<asked, held>>
        /\ \/ dev' = dev
           \/ m.kind = "HelloRsp" /\ dev = "hello" /\ dev' = "transfer"
           \/ dev = "transfer" /\ dev' = "refused"
    BY <1>0, <1>5 DEF DeviceReceives
  <2> QED BY <1>0, <1>1, <1>2, <1>5, <2>1
<1> QED BY <1>3, <1>4, <1>5

\* The device takes a packet: an answer goes to the request it was made for.
LEMMA ReceivesPairs ==
    ASSUME TypeOK, Paired \/ Stale, DeviceReceives
    PROVE  (Paired \/ Stale)'
<1>1. /\ toDev # <<>> /\ toDev' = Tail(toDev) /\ UNCHANGED <<sm, pc, link, resets>>
      /\ toDev \in Seq(FromHost) /\ toHost \in Seq(FromDevice) /\ asked \in Seq(Requests)
  BY ReceivesIs DEF host, TypeOK, WireOK, DeviceOK
<1>2. PICK m : m = Head(toDev)
  OBVIOUS
<1>3. CASE Paired
  <2>1. PICK p, c \in Nat :
            /\ Answering(toDev, asked, p, c)
            /\ Active => /\ p + c = Len(toDev)
                         /\ \E n \in Nat : Leads(toHost, asked, 0, c, n)
    BY <1>3 DEF Paired
  <2>2. CASE m.kind = "Chunk"
    <3>1. p = 0 /\ c # 0 /\ asked # <<>> /\ Answering(Tail(toDev), Tail(asked), 0, c - 1)
      BY <1>1, <1>2, <2>1, <2>2, AnsweringTaken
    <3>2. asked' = Tail(asked) /\ toHost' = toHost
      BY <1>2, <2>2, <3>1, ReceivesIs
    <3>3. c - 1 \in Nat
      BY <3>1
    <3>4. Active => 0 + (c - 1) = Len(toDev')
      <4>1. Len(Tail(toDev)) = Len(toDev) - 1
        BY <1>1, TailIs
      <4>2. Active => Len(toDev) = c
        BY <2>1, <3>1
      <4>3. 0 + (c - 1) = c - 1
        OBVIOUS
      <4> QED BY <1>1, <4>1, <4>2, <4>3
    <3>5. \A n \in Nat : Leads(toHost, asked, 0, c, n) => Leads(toHost, Tail(asked), 0, c - 1, n)
      BY <1>1, <3>1, LeadsTaken
    <3> QED BY <1>1, <2>1, <3>1, <3>2, <3>3, <3>4, <3>5 DEF Paired, Active
  <2>3. CASE m.kind # "Chunk"
    <3>1. PICK k \in Nat : /\ Answering(Tail(toDev), asked, k, c)
                           /\ p + c = Len(toDev) => k + c = Len(Tail(toDev))
      BY <1>1, <1>2, <2>1, <2>3, AnsweringSkips
    <3>2. /\ asked' = asked
          /\ \E ms \in Seq(FromDevice) : /\ toHost' = toHost \o ms
                                         /\ \A i \in 1..Len(ms) : ms[i].kind \in Chunks
      BY <1>2, <2>3, ReceivesIs
    <3>3. PICK ms \in Seq(FromDevice) : /\ toHost' = toHost \o ms
                                        /\ \A i \in 1..Len(ms) : ms[i].kind \in Chunks
      BY <3>2
    <3>4. \A i \in 1..Len(ms) : ms[i].kind # "ReadData"
      BY <3>3 DEF Chunks
    <3>5. \A n \in Nat : Leads(toHost, asked, 0, c, n) => Leads(toHost', asked', 0, c, n)
      BY <1>1, <3>2, <3>3, <3>4, LeadsMore
    <3> QED BY <1>1, <2>1, <3>1, <3>2, <3>5 DEF Paired, Active
  <2> QED BY <2>2, <2>3
<1>4. CASE Stale
  <2>1. dev = "hello" /\ asked = <<>>
    BY <1>4 DEF Stale
  <2>2. /\ asked' = asked /\ (dev' = dev \/ (m.kind = "HelloRsp" /\ dev' = "transfer"))
        /\ \E ms \in Seq(FromDevice) : toHost' = toHost \o ms /\ (ms # <<>> => dev = "firehose")
    BY <1>2, <2>1, ReceivesIs
  <2>3. toHost' = toHost
    <3>1. PICK ms \in Seq(FromDevice) : toHost' = toHost \o ms /\ ms = <<>>
      BY <2>1, <2>2
    <3> QED BY <1>1, <3>1, ConcatEmptySeq
  <2>4. /\ m = toDev[1] /\ Len(toDev) \in Nat \ {0} /\ Len(toDev') = Len(toDev) - 1
        /\ \A k \in 1..(Len(toDev) - 1) : toDev'[k] = toDev[k + 1]
    BY <1>1, <1>2, TailIs
  <2>5. CASE m.kind = "HelloRsp"
    <3>1. ASSUME NEW j \in 1..Len(toDev') PROVE toDev'[j].kind # "Chunk"
      <4>1. j \in 1..(Len(toDev) - 1) /\ j + 1 \in 1..Len(toDev) /\ 1 \in 1..((j + 1) - 1)
        BY <2>4
      <4>2. toDev[j + 1].kind # "Chunk"
        BY <1>4, <2>4, <2>5, <4>1 DEF Stale
      <4> QED BY <2>4, <4>1, <4>2
    <3>2. toDev' \in Seq(FromHost)
      BY <1>1, TailIs
    <3>3. Answering(toDev', asked', Len(toDev'), 0)
      <4>1. asked' \in Seq(Requests)
        BY <1>1, <2>2
      <4> QED BY <3>1, <3>2, <4>1, AnsweringNone
    <3>4. ~Active
      <4>1. 1 \in 1..Len(toDev)
        BY <2>4
      <4> QED BY <1>4, <2>4, <2>5, <4>1 DEF Stale
    <3>5. Len(toDev') \in Nat
      BY <2>4
    <3> QED BY <1>1, <3>3, <3>4, <3>5 DEF Paired, Active
  <2>6. CASE m.kind # "HelloRsp"
    <3>1. ASSUME NEW j \in 1..Len(toDev'), toDev'[j].kind = "Chunk", NEW i \in 1..(j - 1)
          PROVE  toDev'[i].kind # "HelloRsp"
      <4>1. /\ j \in 1..(Len(toDev) - 1) /\ j + 1 \in 1..Len(toDev)
            /\ i \in 1..(Len(toDev) - 1) /\ i + 1 \in 1..((j + 1) - 1)
        BY <2>4
      <4> QED BY <1>4, <2>4, <3>1, <4>1 DEF Stale
    <3>2. ASSUME Active, NEW i \in 1..Len(toDev') PROVE toDev'[i].kind # "HelloRsp"
      <4>1. i \in 1..(Len(toDev) - 1) /\ i + 1 \in 1..Len(toDev)
        BY <2>4
      <4> QED BY <1>4, <2>4, <3>2, <4>1 DEF Stale
    <3> QED BY <1>1, <1>4, <2>2, <2>3, <2>6, <3>1, <3>2 DEF Stale, Active
  <2> QED BY <2>5, <2>6
<1> QED BY <1>3, <1>4

\* What the device writes down of an answer is the loader's.
LEMMA HeldStep ==
    ASSUME TypeOK, Paired \/ Stale, \A x \in held : x[1] = x[2], [Next]_vars
    PROVE  \A x \in held' : x[1] = x[2]
<1>1. CASE held' = held \/ held' = {}
  BY <1>1
<1>2. CASE DeviceReceives
  <2>1. toDev # <<>> /\ toDev \in Seq(FromHost) /\ asked \in Seq(Requests)
    BY ReceivesIs, <1>2 DEF TypeOK, WireOK, DeviceOK
  <2>2. PICK m : m = Head(toDev)
    OBVIOUS
  <2>3. CASE m.kind = "Chunk" /\ asked # <<>>
    <3>1. Paired
      BY <2>3 DEF Stale
    <3>2. PICK p, c \in Nat : Answering(toDev, asked, p, c)
      BY <3>1 DEF Paired
    <3>3. PICK r : r = Head(asked)
      OBVIOUS
    <3>4. m = [kind |-> "Chunk", bytes |-> Slice(r)]
      BY <2>1, <2>2, <2>3, <3>2, <3>3, AnsweringTaken
    <3>5. m \in FromHost /\ r \in Requests
      BY <2>1, <2>2, <2>3, <3>3, HeadTailProperties
    <3>6. m.bytes = Slice(r) /\ m.bytes \in Seq(0..(LoaderLen - 1))
      BY <3>4, <3>5 DEF FromHost
    <3>7. DOMAIN m.bytes = 1..Len(m.bytes)
      BY <3>6, LenProperties
    <3>8. \A k \in DOMAIN m.bytes : m.bytes[k] = r.off + k - 1
      BY <3>6 DEF Slice
    <3>9. held' = held \cup {<<r.off + k - 1, m.bytes[k]>> : k \in 1..Len(m.bytes)}
      BY <1>2, <2>2, <2>3, <3>3, ReceivesIs
    <3>10. ASSUME NEW x \in held' PROVE x[1] = x[2]
      <4>1. CASE x \in held
        BY <4>1
      <4>2. CASE x \in {<<r.off + k - 1, m.bytes[k]>> : k \in 1..Len(m.bytes)}
        BY <3>7, <3>8, <4>2
      <4> QED BY <3>9, <3>10, <4>1, <4>2
    <3> QED BY <3>10
  <2>4. CASE ~(m.kind = "Chunk" /\ asked # <<>>)
    <3>1. held' = held
      BY <1>2, <2>2, <2>4, ReceivesIs
    <3> QED BY <1>1, <3>1
  <2> QED BY <2>3, <2>4
<1>3. ASSUME ~DeviceReceives PROVE held' = held \/ held' = {}
  <2>1. CASE Caller
    BY <2>1 DEF Caller, Initialize, Detect, Disconnect, Command, device
  <2>2. CASE Handshake
    BY <2>2 DEF Handshake, ReceiveHello, DetectHello, SendHelloRsp, OpenLoader, ReceiveRequest,
                EnterCommandMode, PacketTimesOut, device
  <2>3. CASE Exchange
    BY <2>3 DEF Exchange, SendXml, ReadReply, ReplyIsOver, TransportFails, device
  <2>4. CASE DeviceResets \/ DeviceAsks \/ UNCHANGED vars
    BY <2>4 DEF DeviceResets, DeviceAsks, vars, device
  <2> QED BY <1>3, <2>1, <2>2, <2>3, <2>4 DEF Next, Device
<1> QED BY <1>1, <1>2, <1>3

\* No packet of a kind comes into a queue but with what is put into it.
LEMMA NoneInMore ==
    ASSUME NEW S, NEW q \in Seq(S), NEW ms \in Seq(S), NEW k,
           \A i \in 1..Len(ms) : ms[i].kind # k, NEW i \in 1..Len(q \o ms), (q \o ms)[i].kind = k
    PROVE  i \in 1..Len(q) /\ q[i].kind = k
<1>1. PICK r : r = q \o ms
  OBVIOUS
<1>2. /\ Len(q) \in Nat /\ Len(ms) \in Nat /\ Len(r) = Len(q) + Len(ms)
      /\ \A j \in 1..Len(q) : r[j] = q[j]
  BY <1>1, ManyMore
<1>3. \A j \in 1..Len(ms) : r[Len(q) + j] = ms[j]
  BY <1>1, ManyMore
<1>4. i \in 1..Len(r) /\ r[i].kind = k
  BY <1>1
<1>5. i \in 1..Len(q)
  <2> SUFFICES ASSUME i \notin 1..Len(q) PROVE FALSE
    OBVIOUS
  <2>1. i - Len(q) \in 1..Len(ms) /\ Len(q) + (i - Len(q)) = i
    BY <1>2, <1>4
  <2> QED BY <1>3, <1>4, <2>1
<1> QED BY <1>2, <1>4, <1>5

LEMMA NoneInTail ==
    ASSUME NEW S, NEW q \in Seq(S), q # <<>>, NEW i \in 1..Len(Tail(q))
    PROVE  i + 1 \in 1..Len(q) /\ i \in Nat /\ Tail(q)[i] = q[i + 1]
<1>1. Len(q) \in Nat \ {0} /\ Len(Tail(q)) = Len(q) - 1
  BY TailIs
<1>2. i \in 1..(Len(q) - 1) /\ i + 1 \in 1..Len(q) /\ i \in Nat
  BY <1>1
<1> QED BY <1>2, TailIs

LEMMA NoneInSent ==
    ASSUME NEW S, NEW q \in Seq(S), NEW m, NEW k, m.kind # k,
           NEW i \in 1..Len(Append(q, m)), Append(q, m)[i].kind = k
    PROVE  i \in 1..Len(q) /\ q[i].kind = k
<1>1. PICK r : r = Append(q, m)
  OBVIOUS
<1>2. /\ Len(q) \in Nat /\ Len(r) = Len(q) + 1 /\ r[Len(q) + 1] = m
      /\ \A j \in 1..Len(q) : r[j] = q[j]
  BY <1>1, OneMore
<1>3. i \in 1..Len(r) /\ r[i].kind = k
  BY <1>1
<1>4. i \in 1..Len(q) \/ i = Len(q) + 1
  BY <1>2, <1>3
<1> QED BY <1>2, <1>3, <1>4

\* What a step of the host does to the wire.
LEMMA HostWire ==
    ASSUME Caller \/ Handshake \/ Exchange
    PROVE  /\ UNCHANGED device
           /\ \/ toHost' = toHost /\ (pc' # "respond" \/ UNCHANGED <<pc, toDev>>)
              \/ toHost # <<>> /\ toHost' = Tail(toHost)
                 /\ (pc' = "respond" => Head(toHost).kind = "Hello" /\ toDev' = toDev)
              \/ toHost' = <<>> /\ pc' # "respond"
           /\ \/ toDev' = toDev \/ toDev' = <<>>
              \/ pc = "upload" /\ Sends([kind |-> "Chunk", bytes |-> Slice(Head(toHost))])
              \/ \E m : m.kind # "Chunk" /\ Sends(m) /\ (m.kind = "HelloRsp" => pc \in {"respond", "hello"})
<1>0. /\ [kind |-> "HelloRsp"].kind = "HelloRsp" /\ [kind |-> "Xml"].kind = "Xml"
      /\ [kind |-> "EndOfImage", at |-> Head(toHost).off].kind = "EndOfImage"
  OBVIOUS
<1>1. CASE Caller
  BY <1>1 DEF Caller, Initialize, Detect, Disconnect, Command, Enter, Ends
<1>2. CASE ReceiveHello
  BY <1>2 DEF ReceiveHello, Receives, TransitionTo, Ends, GoesTo
<1>3. CASE DetectHello
  <2>1. toDev' = toDev \/ Sends([kind |-> "HelloRsp"])
    BY <1>3 DEF DetectHello
  <2>2. /\ UNCHANGED device /\ toHost # <<>> /\ toHost' = Tail(toHost) /\ pc' = "idle"
        /\ pc = "hello"
    BY <1>3 DEF DetectHello, Receives, Ends
  <2> QED BY <1>0, <2>1, <2>2
<1>4. CASE SendHelloRsp
  <2>1. UNCHANGED <<toHost, device>> /\ pc = "respond" /\ Sends([kind |-> "HelloRsp"])
        /\ pc' \in {"loader", "idle"}
    BY <1>4 DEF SendHelloRsp, TransitionTo, Ends, GoesTo
  <2> QED BY <1>0, <2>1
<1>5. CASE OpenLoader \/ EnterCommandMode \/ PacketTimesOut
  BY <1>5 DEF OpenLoader, EnterCommandMode, PacketTimesOut, TransitionTo, Ends, GoesTo
<1>6. CASE ReceiveRequest
  <2>1. /\ UNCHANGED device /\ toHost # <<>> /\ toHost' = Tail(toHost) /\ pc = "upload"
        /\ pc' # "respond"
    BY <1>6 DEF ReceiveRequest, Receives, TransitionTo, Ends, GoesTo
  <2>2. \/ toDev' = toDev \/ Sends([kind |-> "Chunk", bytes |-> Slice(Head(toHost))])
        \/ Sends([kind |-> "EndOfImage", at |-> Head(toHost).off])
    BY <1>6 DEF ReceiveRequest
  <2> QED BY <1>0, <2>1, <2>2
<1>7. CASE SendXml
  <2>1. UNCHANGED <<toHost, device>> /\ Sends([kind |-> "Xml"]) /\ pc' = "reply"
    BY <1>7 DEF SendXml, GoesTo
  <2> QED BY <1>0, <2>1
<1>8. CASE ReadReply \/ ReplyIsOver \/ TransportFails
  BY <1>8 DEF ReadReply, ReplyIsOver, TransportFails, Ends
<1> QED BY <1>1, <1>2, <1>3, <1>4, <1>5, <1>6, <1>7, <1>8 DEF Handshake, Exchange

\* What DeviceAsks and DeviceReceives send.
LEMMA DeviceWire ==
    ASSUME TypeOK, DeviceAsks \/ DeviceReceives
    PROVE  /\ UNCHANGED <<host, link, resets>>
           /\ toDev' = toDev \/ (toDev # <<>> /\ toDev' = Tail(toDev))
           /\ \/ \E r \in Requests : /\ dev = "transfer" /\ toHost' = toHost \o <<r>>
                                     /\ asked' = Append(asked, r)
              \/ /\ asked' = asked
                 /\ \E ms \in Seq(FromDevice) :
                       /\ toHost' = toHost \o ms /\ (ms # <<>> => dev # "hello")
                       /\ \A i \in 1..Len(ms) : ms[i].kind \notin {"Hello", "ReadData"}
              \/ /\ toHost' = toHost /\ toDev # <<>> /\ Head(toDev).kind = "Chunk"
                 /\ asked # <<>> /\ asked' = Tail(asked)
<1>1. CASE DeviceAsks
  <2>1. UNCHANGED <<host, link, resets, toDev>> /\ dev = "transfer"
    BY <1>1 DEF DeviceAsks
  <2>2. CASE \E r \in Requests : Answers(<<r>>) /\ asked' = Append(asked, r)
    BY <2>1, <2>2 DEF Answers
  <2>3. ASSUME asked' = asked, NEW k \in {"ShortRead", "Other", "EndOfImage", "EndWithError"},
               Answers(<<[kind |-> k]>>)
        PROVE  \E ms \in Seq(FromDevice) :
                  /\ toHost' = toHost \o ms
                  /\ \A i \in 1..Len(ms) : ms[i].kind \notin {"Hello", "ReadData"}
    <3>1. PICK ms : ms = <<[kind |-> k]>>
      OBVIOUS
    <3>2. ms \in Seq(FromDevice)
      BY <3>1, AnswerTypes DEF PlainKinds, TypeOK
    <3>3. \A i \in 1..Len(ms) : ms[i].kind \notin {"Hello", "ReadData"}
      BY <3>1
    <3> QED BY <2>3, <3>1, <3>2, <3>3 DEF Answers
  <2>4. (\E r \in Requests : Answers(<<r>>) /\ asked' = Append(asked, r)) \/
        (asked' = asked /\ \E k \in {"ShortRead", "Other", "EndOfImage", "EndWithError"} :
                              Answers(<<[kind |-> k]>>))
    BY <1>1 DEF DeviceAsks
  <2> QED BY <2>1, <2>2, <2>3, <2>4
<1>2. CASE DeviceReceives
  <2>1. Chunks \cap {"Hello", "ReadData"} = {}
    BY DEF Chunks
  <2> QED BY <1>2, <2>1, ReceivesIs
<1> QED BY <1>1, <1>2

LEMMA BeforeUploadStep ==
    ASSUME TypeOK, Staged, Places, BeforeUpload, resets = 0 => FirstHello,
           resets' <= 1, [Next]_vars
    PROVE  BeforeUpload'
<1>0. /\ toDev \in Seq(FromHost) /\ toHost \in Seq(FromDevice) /\ asked \in Seq(Requests)
      /\ resets \in Nat
  BY SessionAssumption DEF TypeOK, WireOK, DeviceOK
<1>1. ASSUME sm' \in Early PROVE \A i \in 1..Len(toDev') : toDev'[i].kind # "Chunk"
  <2>0. \A i \in 1..Len(toDev) : toDev[i].kind # "Chunk"
    BY <1>1, NoStageBack DEF Early, BeforeUpload
  <2>1. CASE toDev' = toDev \/ toDev' = <<>>
    BY <2>0, <2>1
  <2>2. CASE \E m : m.kind # "Chunk" /\ Sends(m)
    BY <1>0, <2>0, <2>2, NoneInSent DEF Sends
  <2>3. CASE toDev # <<>> /\ toDev' = Tail(toDev)
    BY <1>0, <2>0, <2>3, NoneInTail
  <2>4. pc # "upload"
    BY <1>1, NoStageBack DEF Places, Early
  <2>5. CASE Caller \/ Handshake \/ Exchange
    BY <2>1, <2>2, <2>4, <2>5, HostWire
  <2>6. CASE DeviceAsks \/ DeviceReceives
    BY <2>1, <2>3, <2>6, DeviceWire
  <2>7. CASE DeviceResets \/ UNCHANGED vars
    BY <2>1, <2>7 DEF DeviceResets, vars
  <2> QED BY <2>5, <2>6, <2>7 DEF Next, Device
<1>2. ASSUME sm' = "Disconnected", NEW i \in 1..Len(toHost'), toHost'[i].kind = "Hello"
      PROVE  \E n \in Nat : Leads(toHost', asked', i, 0, n)
  <2>0. /\ \A j \in 1..Len(toHost) : toHost[j].kind = "Hello"
              => \E n \in Nat : Leads(toHost, asked, j, 0, n)
        /\ \A j \in 1..Len(toDev) : toDev[j].kind # "Chunk"
        /\ i \in Nat
    BY <1>2, NoStageBack DEF BeforeUpload
  <2>1. CASE toHost' = toHost /\ asked' = asked
    BY <1>2, <2>0, <2>1
  <2>2. CASE toHost # <<>> /\ toHost' = Tail(toHost) /\ asked' = asked
    <3>1. i + 1 \in 1..Len(toHost) /\ toHost'[i] = toHost[i + 1]
      BY <1>0, <1>2, <2>2, NoneInTail
    <3>2. PICK n \in Nat : Leads(toHost, asked, i + 1, 0, n)
      BY <1>2, <2>0, <3>1
    <3>3. Leads(Tail(toHost), asked, i, 0, n)
      BY <1>0, <2>0, <2>2, <3>2, LeadsTail
    <3> QED BY <2>2, <3>3
  <2>3. CASE toHost' = <<>>
    BY <1>2, <2>3
  <2>4. CASE Caller \/ Handshake \/ Exchange
    <3>1. asked' = asked
      BY <2>4, HostWire DEF device
    <3> QED BY <2>1, <2>2, <2>3, <2>4, <3>1, HostWire
  <2>5. CASE DeviceAsks \/ DeviceReceives
    <3>1. CASE \E r \in Requests : toHost' = toHost \o <<r>> /\ asked' = Append(asked, r)
      <4>1. PICK r \in Requests : toHost' = toHost \o <<r>> /\ asked' = Append(asked, r)
        BY <3>1
      <4>2. r \in FromDevice /\ r.kind # "Hello"
        BY RequestTypes DEF FromDevice, Packets
      <4>3. PICK ms : ms = <<r>>
        OBVIOUS
      <4>4. ms \in Seq(FromDevice) /\ \A j \in 1..Len(ms) : ms[j].kind # "Hello"
        BY <4>2, <4>3
      <4>5. i \in 1..Len(toHost) /\ toHost[i].kind = "Hello"
        BY <1>0, <1>2, <4>1, <4>3, <4>4, NoneInMore
      <4>6. PICK n \in Nat : Leads(toHost, asked, i, 0, n)
        BY <2>0, <4>5
      <4> QED BY <1>0, <2>0, <4>1, <4>2, <4>6, LeadsAsked
    <3>2. ASSUME asked' = asked, NEW ms \in Seq(FromDevice), toHost' = toHost \o ms,
                 \A j \in 1..Len(ms) : ms[j].kind \notin {"Hello", "ReadData"}
          PROVE  \E n \in Nat : Leads(toHost', asked', i, 0, n)
      <4>1. i \in 1..Len(toHost) /\ toHost[i].kind = "Hello"
        BY <1>0, <1>2, <3>2, NoneInMore
      <4>2. PICK n \in Nat : Leads(toHost, asked, i, 0, n)
        BY <2>0, <4>1
      <4> QED BY <1>0, <2>0, <3>2, <4>2, LeadsMore
    <3>3. toDev # <<>> => Head(toDev).kind # "Chunk"
      <4>1. toDev # <<>> => 1 \in 1..Len(toDev) /\ Head(toDev) = toDev[1]
        BY <1>0, TailIs
      <4> QED BY <2>0, <4>1
    <3> QED BY <2>5, <3>1, <3>2, <3>3, DeviceWire
  <2>6. CASE DeviceResets
    <3>1. resets = 0 /\ asked' = <<>> /\ FirstHello
      BY <1>0, <2>6 DEF DeviceResets
    <3>2. CASE \E k \in {"Hello", "ShortHello", "Other"} : Answers(<<[kind |-> k]>>)
      <4>1. PICK k \in {"Hello", "ShortHello", "Other"} : toHost' = toHost \o <<[kind |-> k]>>
        BY <3>2 DEF Answers
      <4>2. PICK m : m = [kind |-> k]
        OBVIOUS
      <4>3. toHost' = Append(toHost, m) /\ m.kind # "ReadData"
        BY <1>0, <4>1, <4>2, AppendIsConcat, AnswerTypes DEF TypeOK
      <4>4. Len(toHost) \in Nat /\ Len(toHost') = Len(toHost) + 1 /\ toHost'[Len(toHost) + 1] = m
            /\ \A j \in 1..Len(toHost) : toHost'[j] = toHost[j]
        BY <1>0, <4>3, OneMore
      <4>5. CASE i = Len(toHost) + 1
        <5>1. i + 0 = Len(toHost') /\ 0 + 0 = Len(<<>>) /\ i + 0 <= Len(toHost')
          BY <4>4, <4>5
        <5>2. Leads(toHost', <<>>, i, 0, 0)
          BY <5>1 DEF Leads
        <5> QED BY <3>1, <5>2
      <4>6. CASE i # Len(toHost) + 1
        <5>1. i \in 1..Len(toHost)
          BY <1>2, <4>4, <4>6
        <5>2. Hello(toHost)
          BY <1>2, <4>4, <5>1 DEF Hello
        <5>3. Len(toHost) = 1 /\ i = 1
          <6>1. Len(toHost) = 1
            BY <3>1, <5>2 DEF FirstHello
          <6> QED BY <5>1, <6>1
        <5>4. i + 0 < Len(toHost') /\ i + 0 + 1 = Len(toHost) + 1 /\ i + 0 <= Len(toHost')
          BY <4>4, <5>3
        <5>5. Leads(toHost', <<>>, i, 0, 0)
          BY <4>3, <4>4, <5>4 DEF Leads
        <5> QED BY <3>1, <5>5
      <4> QED BY <4>5, <4>6
    <3>3. CASE toHost' = <<[kind |-> "Hello"]>>
      <4>1. Len(toHost') = 1 /\ i = 1
        BY <1>2, <3>3
      <4>2. Leads(toHost', <<>>, i, 0, 0)
        BY <4>1 DEF Leads
      <4> QED BY <3>1, <4>2
    <3> QED BY <2>3, <2>6, <3>2, <3>3 DEF DeviceResets
  <2>7. CASE UNCHANGED vars
    BY <2>1, <2>7 DEF vars, device
  <2> QED BY <2>4, <2>5, <2>6, <2>7 DEF Next, Device
<1> QED BY <1>1, <1>2 DEF BeforeUpload, Early

LEMMA FirstHelloStep ==
    ASSUME TypeOK, Places, FirstHello, resets = 0, resets' = 0, [Next]_vars
    PROVE  FirstHello'
<1>0. /\ toDev \in Seq(FromHost) /\ toHost \in Seq(FromDevice) /\ asked \in Seq(Requests)
  BY DEF TypeOK, WireOK, DeviceOK
<1>1. CASE Caller \/ Handshake \/ Exchange
  <2>0. UNCHANGED <<dev, asked>>
    BY <1>1, HostWire DEF device
  <2>1. CASE toHost' = toHost /\ pc' # "respond"
    <3>1. Hello(toHost) => ~Greeted'
      <4> SUFFICES ASSUME Hello(toHost), NEW i \in 1..Len(toDev'), toDev'[i].kind = "HelloRsp"
                   PROVE  FALSE
        BY DEF Greeted
      <4>1. ~Greeted
        BY DEF FirstHello
      <4>2. pc # "respond"
        BY DEF FirstHello, Hello
      <4>3. CASE toDev' = toDev \/ toDev' = <<>>
        BY <4>1, <4>3 DEF Greeted
      <4>4. ASSUME NEW m, m.kind # "HelloRsp", Sends(m) PROVE FALSE
        BY <1>0, <4>1, <4>4, NoneInSent DEF Greeted, Sends
      <4>5. CASE pc = "hello" /\ call = "detect" /\ DetectHello
        <5>1. toHost # <<>> /\ toHost' = Tail(toHost)
          BY <4>5 DEF DetectHello, Receives
        <5>2. Len(Tail(toHost)) = Len(toHost) - 1 /\ Len(toHost) \in Nat
          BY <1>0, <5>1, TailIs
        <5> QED BY <2>1, <5>1, <5>2
      <4>6. CASE ~DetectHello
        <5>1. \/ toDev' = toDev \/ toDev' = <<>>
              \/ Sends([kind |-> "Chunk", bytes |-> Slice(Head(toHost))])
              \/ \E m : m.kind # "HelloRsp" /\ Sends(m)
          <6>1. CASE \E m : m.kind # "Chunk" /\ Sends(m) /\ m.kind = "HelloRsp"
            <7>1. /\ toDev' = toDev \/ Sends([kind |-> "Xml"]) \/ toDev' = <<>>
                     \/ Sends([kind |-> "Chunk", bytes |-> Slice(Head(toHost))])
                     \/ Sends([kind |-> "EndOfImage", at |-> Head(toHost).off])
              BY <1>1, <4>2, <4>6
                 DEF Caller, Initialize, Detect, Disconnect, Command, Handshake, ReceiveHello,
                     SendHelloRsp, OpenLoader, ReceiveRequest, EnterCommandMode,
                     PacketTimesOut, Exchange, SendXml, ReadReply, ReplyIsOver, TransportFails
            <7>2. /\ [kind |-> "Xml"].kind # "HelloRsp"
                  /\ [kind |-> "EndOfImage", at |-> Head(toHost).off].kind # "HelloRsp"
              OBVIOUS
            <7> QED BY <7>1, <7>2
          <6> QED BY <1>1, <6>1, HostWire
        <5>2. [kind |-> "Chunk", bytes |-> Slice(Head(toHost))].kind # "HelloRsp"
          OBVIOUS
        <5> QED BY <4>3, <4>4, <5>1, <5>2
      <4> QED BY <4>5, <4>6 DEF DetectHello, Receives
    <3> QED BY <2>0, <2>1, <3>1 DEF FirstHello
  <2>2. CASE toHost' = toHost /\ UNCHANGED <<pc, toDev>>
    BY <2>0, <2>2 DEF FirstHello, Greeted
  <2>3. CASE toHost # <<>> /\ toHost' = Tail(toHost)
             /\ (pc' = "respond" => Head(toHost).kind = "Hello" /\ toDev' = toDev)
    <3>1. /\ Head(toHost) = toHost[1] /\ Len(toHost) \in Nat \ {0}
          /\ Len(toHost') = Len(toHost) - 1
      BY <1>0, <2>3, TailIs
    <3>2. ~Hello(toHost')
      <4> SUFFICES ASSUME NEW i \in 1..Len(toHost'), toHost'[i].kind = "Hello" PROVE FALSE
        BY DEF Hello
      <4>1. i + 1 \in 1..Len(toHost) /\ toHost[i + 1].kind = "Hello"
        BY <1>0, <2>3, NoneInTail
      <4>2. Len(toHost) = 1
        BY <4>1 DEF FirstHello, Hello
      <4> QED BY <3>1, <4>2
    <3>3. ASSUME pc' = "respond" PROVE toHost' = <<>> /\ dev = "hello" /\ asked = <<>> /\ ~Greeted
      <4>1. Hello(toHost)
        <5>1. 1 \in 1..Len(toHost) /\ toHost[1].kind = "Hello"
          BY <2>3, <3>1, <3>3
        <5> QED BY <5>1 DEF Hello
      <4>2. Len(toHost) = 1 /\ dev = "hello" /\ asked = <<>> /\ ~Greeted
        BY <4>1 DEF FirstHello
      <4>3. toHost' \in Seq(FromDevice) /\ Len(toHost') = 0
        BY <1>0, <2>3, <3>1, <4>2, TailIs
      <4> QED BY <4>2, <4>3, EmptySeq
    <3>4. pc' = "respond" => (Greeted' <=> Greeted)
      BY <2>3 DEF Greeted
    <3> QED BY <2>0, <3>2, <3>3, <3>4 DEF FirstHello
  <2>4. CASE toHost' = <<>> /\ pc' # "respond"
    BY <2>4 DEF FirstHello, Hello
  <2> QED BY <1>1, <2>1, <2>2, <2>3, <2>4, HostWire
<1>2. CASE DeviceAsks \/ DeviceReceives
  <2>1. pc' = pc
    BY <1>2, DeviceWire DEF host
  <2>2. CASE Hello(toHost) \/ pc = "respond"
    <3>1. dev = "hello" /\ asked = <<>> /\ ~Greeted
      BY <2>2 DEF FirstHello
    <3>2. DeviceReceives
      BY <1>2, <3>1 DEF DeviceAsks
    <3>3. asked' = asked /\ \E ms \in Seq(FromDevice) : toHost' = toHost \o ms /\ ms = <<>>
      BY <3>1, <3>2, ReceivesIs
    <3>4. toHost' = toHost
      BY <1>0, <3>3, ConcatEmptySeq
    <3>5. toDev # <<>> /\ toDev' = Tail(toDev)
      BY <3>2, ReceivesIs
    <3>6. Head(toDev).kind # "HelloRsp"
      <4>1. Head(toDev) = toDev[1] /\ 1 \in 1..Len(toDev)
        BY <1>0, <3>5, TailIs
      <4> QED BY <3>1, <4>1 DEF Greeted
    <3>7. dev' = dev
      BY <3>1, <3>2, <3>6, ReceivesIs
    <3>8. ~Greeted'
      BY <1>0, <3>1, <3>5, NoneInTail DEF Greeted
    <3> QED BY <2>1, <3>1, <3>3, <3>4, <3>7, <3>8 DEF FirstHello
  <2>3. CASE ~Hello(toHost) /\ pc # "respond"
    <3>1. ~Hello(toHost')
      <4>1. CASE \E r \in Requests : toHost' = toHost \o <<r>>
        <5>1. PICK r \in Requests : toHost' = toHost \o <<r>>
          BY <4>1
        <5>2. r \in FromDevice /\ r.kind # "Hello"
          BY RequestTypes DEF FromDevice, Packets
        <5>3. PICK ms : ms = <<r>>
          OBVIOUS
        <5>4. ms \in Seq(FromDevice) /\ \A j \in 1..Len(ms) : ms[j].kind # "Hello"
          BY <5>2, <5>3
        <5> QED BY <1>0, <2>3, <5>1, <5>3, <5>4, NoneInMore DEF Hello
      <4>2. ASSUME NEW ms \in Seq(FromDevice), toHost' = toHost \o ms,
                   \A j \in 1..Len(ms) : ms[j].kind \notin {"Hello", "ReadData"}
            PROVE  ~Hello(toHost')
        BY <1>0, <2>3, <4>2, NoneInMore DEF Hello
      <4> QED BY <1>2, <2>3, <4>1, <4>2, DeviceWire
    <3> QED BY <2>1, <2>3, <3>1 DEF FirstHello
  <2> QED BY <2>2, <2>3
<1>3. CASE DeviceResets
  BY <1>3 DEF DeviceResets
<1>4. CASE UNCHANGED vars
  BY <1>4 DEF vars, host, device, FirstHello, Hello, Greeted
<1> QED BY <1>1, <1>2, <1>3, <1>4 DEF Next, Device

LEMMA InOrderStep ==
    ASSUME TypeOK, Staged, Places, InOrder, [Next]_vars
    PROVE  InOrder'
<1> SUFFICES ASSUME resets' <= 1
             PROVE  /\ BeforeUpload' /\ (Paired \/ Stale)'
                    /\ resets' = 0 => FirstHello'
                    /\ \A x \in held' : x[1] = x[2]
  BY DEF InOrder
<1>1. resets \in Nat /\ resets' \in {resets, resets + 1} /\ (resets' # resets => DeviceResets)
  <2>1. resets \in Nat
    BY SessionAssumption DEF TypeOK, DeviceOK
  <2>2. CASE Caller \/ Handshake \/ Exchange
    BY <2>1, <2>2, HostWire DEF device
  <2>3. CASE Device \/ UNCHANGED vars
    BY <2>1, <2>3 DEF Device, DeviceResets, DeviceAsks, DeviceReceives, vars, device
  <2> QED BY <2>2, <2>3 DEF Next
<1>2. resets <= 1
  BY <1>1
<1>3. /\ BeforeUpload /\ (Paired \/ Stale) /\ \A x \in held : x[1] = x[2]
      /\ resets = 0 => FirstHello
  BY <1>2 DEF InOrder
<1>4. BeforeUpload'
  BY <1>3, BeforeUploadStep
<1>5. ASSUME resets' = 0 PROVE FirstHello'
  <2>1. resets = 0
    BY <1>1, <1>5
  <2> QED BY <1>3, <1>5, <2>1, FirstHelloStep
<1>6. \A x \in held' : x[1] = x[2]
  BY <1>3, HeldStep
<1>7. (Paired \/ Stale)'
  <2>1. CASE Caller \/ Handshake \/ Exchange
    BY <1>3, <2>1, HostPairs
  <2>2. CASE DeviceResets
    <3>1. resets = 0
      BY <1>1, <2>2 DEF DeviceResets
    <3> QED BY <1>3, <2>2, <3>1, ResetPairs
  <2>3. CASE DeviceAsks
    BY <1>3, <2>3, AsksPairs
  <2>4. CASE DeviceReceives
    BY <1>3, <2>4, ReceivesPairs
  <2>5. CASE UNCHANGED vars
    BY <1>3, <2>5 DEF vars, host, device, Paired, Stale, Active, Leads, Answering
  <2> QED BY <2>1, <2>2, <2>3, <2>4, <2>5 DEF Next, Device
<1> QED BY <1>4, <1>5, <1>6, <1>7

\* Over at most one restart of the device, whatever it asks for and in whatever order,
\* a byte it holds is the loader's byte of that position (DeviceHoldsLoader of
\* SaharaSession): the chunks of SaharaLoaderUploader.UploadAsync carry no offset, so
\* each must meet the request it was cut for, with any calls before and after.
THEOREM LoaderArrives == Spec => []DeviceHoldsLoader
<1>1. Init => Staged /\ Places /\ InOrder
  <2> SUFFICES ASSUME Init PROVE Staged /\ Places /\ InOrder
    OBVIOUS
  <2>1. /\ toDev = <<>> /\ asked = <<>> /\ toHost = <<[kind |-> "Hello"]>> /\ held = {}
        /\ pc = "idle" /\ dev = "hello" /\ sm = "Disconnected"
    BY DEF Init
  <2>2. Len(toHost) = 1 /\ Len(toDev) = 0
    BY <2>1
  <2>3. Staged /\ Places
    BY <2>1 DEF Staged, Stages, Places
  <2>4. BeforeUpload
    <3>1. ASSUME NEW i \in 1..Len(toHost) PROVE \E n \in Nat : Leads(toHost, asked, i, 0, n)
      <4>1. Leads(toHost, asked, i, 0, 0)
        BY <2>1, <2>2 DEF Leads
      <4> QED BY <4>1
    <3> QED BY <2>2, <3>1 DEF BeforeUpload
  <2>5. Paired
    <3>1. Answering(toDev, asked, 0, 0)
      BY <2>1, <2>2 DEF Answering
    <3> QED BY <2>1, <3>1 DEF Paired, Active
  <2>6. FirstHello
    BY <2>1, <2>2 DEF FirstHello, Greeted
  <2> QED BY <2>1, <2>3, <2>4, <2>5, <2>6 DEF InOrder
<1>2. TypeOK /\ Staged /\ Places /\ InOrder /\ [Next]_vars => (Staged /\ Places /\ InOrder)'
  BY StepsForward, PlacesStep, InOrderStep
<1>3. InOrder => DeviceHoldsLoader
  BY DEF InOrder, DeviceHoldsLoader
<1> QED BY <1>1, <1>2, <1>3, SessionTypes, PTL DEF Spec
=============================================================================
