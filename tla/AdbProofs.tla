------------------------------- MODULE AdbProofs -------------------------------
(* What holds of an ADB connection for every transport, every greeting, every  *)
(* length of output and of file, and any number of operations and faults: the  *)
(* types, that only an authorised connection is used, and that a shell command *)
(* returns its own output while no operation has left packets behind.          *)
EXTENDS AdbSession, SequenceTheorems, TLAPS

(* --------------------------------- types -------------------------------- *)

Operations == [kind : Kinds, n : 1 .. MaxOps, size : Nat] \cup {Props}
Piece == (0 .. MaxOps) \X Nat
Asked == (1 .. MaxOps) \X Parts \X Nat

\* getprop runs on the first stream of the client, once
OwnStream(l, o) == l = 1 <=> o = Props

ForHost ==
    [type : {"CNXN", "AUTH", "STLS"}]
      \cup [type : {"OKAY", "CLSE"}, local : 0 .. nextRemote - 1, remote : Nat]
      \cup [type : {"WRTE"}, local : 0 .. nextRemote - 1, remote : Nat, data : Piece]
ForDevice ==
    [type : {"CNXN", "SIGNATURE", "KEY"}]
      \cup {m \in [type : {"OPEN"}, local : Nat \ {0}, service : Operations] :
              OwnStream(m.local, m.service)}
      \cup [type : {"OKAY", "CLSE"}, local : Nat, remote : Nat]
      \cup [type : {"WRTE"}, local : Nat \ {0, 1}, remote : Nat, data : Asked]
Streams ==
    {s \in [local : Nat \ {0}, remote : 1 .. nextRemote - 1, op : Operations, ready : BOOLEAN,
            heard : Seq(Asked), refused : BOOLEAN, out : Seq(Piece)] : OwnStream(s.local, s.op)}

Handshaking == {"start", "cnxn", "signature", "polls"}

\* What makes TypeOK inductive: whose stream is whose, and where a count may stand.
HostTyped ==
    /\ {connected, secure} \subseteq BOOLEAN
    /\ pc \in Handshaking \cup {"idle", "down"} \cup Busy
    /\ op \in Operations /\ outcome.value \in {"none", "true", "false", "exception"}
    /\ stream \in [local : Nat, remote : 0 .. nextRemote - 1]
    /\ nextId \in Nat /\ stream.local < nextId
    /\ sent \in 0 .. PushLength /\ polls \in 0 .. MaxPolls /\ got \in Seq(Piece)
    /\ pc \in Handshaking => nextId = 1
    /\ pc \in Busy => stream.local # 0 /\ OwnStream(stream.local, op)
    /\ pc = "idle" => nextId # 1
    /\ pc \in {"open", "push"} => sent # PushLength
    /\ pc = "open" => sent = 0
    /\ pc \in {"pull", "push"} => op # Props
WireTyped == toDev \in Seq(ForDevice) /\ toHost \in Seq(ForHost) /\ link \in {"up", "gone"}
DeviceTyped ==
    /\ greeting \in Greetings \cup {"open", "unknown"} /\ {online, asked} \subseteq BOOLEAN
    /\ streams \subseteq Streams /\ nextRemote \in Nat \ {0} /\ delivered \subseteq Seq(Asked)
BoundsTyped ==
    /\ transport \in Transports /\ strayed \in BOOLEAN
    /\ ops \in 0 .. MaxOps /\ faults \in 0 .. MaxFaults
Typed == HostTyped /\ WireTyped /\ DeviceTyped /\ BoundsTyped

(* ----------------------------- authorisation ---------------------------- *)

Only(q, types) == \A i \in DOMAIN q : q[i].type \in types

\* A CNXN that is on its way is that of a device that has authorised the host.
Authorised ==
    /\ connected => online
    /\ online \/ Only(toHost, {"AUTH", "STLS", "OKAY", "CLSE", "WRTE"})

(* -------------------------------- in step ------------------------------- *)

Syncs == {"pull", "push"}

\* The first n packets of q are pieces of the output of o, those after the g-th.
Run(o, q, n, g) == \A i \in 1 .. n : q[i].type = "WRTE" /\ q[i].data = <<o.n, g + i>>
\* All of the output of o after the g-th piece is in out.
Remains(o, out, g) ==
    Len(out) = o.size - g /\ \A i \in 1 .. Len(out) : out[i] = <<o.n, g + i>>

\* The packets q and what the device has still to write on its streams are the output
\* of o after its g-th piece, and then the end of the stream.
Flow(o, ss, q, g) ==
    \/ /\ Run(o, q, Len(q), g)
       /\ \E s \in ss : ss = {s} /\ s.op = o /\ Remains(o, s.out, g + Len(q))
    \/ /\ q # <<>> /\ Run(o, q, Len(q) - 1, g) /\ q[Len(q)].type = "CLSE"
       /\ ss = {} /\ g + Len(q) - 1 = o.size

Syncing(ss, q) == Only(q, {"OKAY", "WRTE"}) /\ \A s \in ss : s.op.kind \in Syncs

Output(n, size) == [i \in 1 .. size |-> <<n, i>>]

\* One packet of the handshake is on its way at a time, or the user is asked.
Greeting ==
    /\ streams = {} /\ Only(toDev, {"CNXN", "SIGNATURE", "KEY"})
    /\ Only(toHost, {"CNXN", "AUTH", "STLS"})
    /\ Len(toDev) + Len(toHost) <= IF asked THEN 0 ELSE 1

\* OPEN is the last of what was sent, or it was refused, or it was accepted.
OpenIsSent ==
    /\ toHost = <<>> /\ streams = {}
    /\ toDev # <<>> /\ toDev[Len(toDev)] = Open(stream.local, op)
    /\ \A i \in 1 .. Len(toDev) - 1 : toDev[i].type = "OKAY"
OpenIsRefused ==
    /\ Only(toDev, {"OKAY"}) /\ streams = {}
    /\ toHost # <<>> /\ Tail(toHost) = <<>> /\ Head(toHost).type = "CLSE"
OpenIsAccepted ==
    /\ Only(toDev, {"OKAY"}) /\ toHost # <<>> /\ Head(toHost).type = "OKAY"
    /\ IF op.kind \in Syncs THEN Syncing(streams, Tail(toHost))
                            ELSE Flow(op, streams, Tail(toHost), 0)
Opening == got = <<>> /\ (OpenIsSent \/ OpenIsRefused \/ OpenIsAccepted)

Reading ==
    /\ op.kind \notin Syncs /\ Only(toDev, {"OKAY"})
    /\ Flow(op, streams, toHost, Len(got)) /\ \A i \in DOMAIN got : got[i] = <<op.n, i>>
Transferring == Only(toDev, {"OKAY", "WRTE"}) /\ Syncing(streams, toHost)
Resting ==
    /\ toHost = <<>> /\ streams = {} /\ Only(toDev, {"OKAY"})
    /\ op.kind = "shell" /\ outcome = [op |-> op, value |-> "true"]
         => got = Output(op.n, op.size)

InStep ==
    ~strayed /\ link = "up" =>
        /\ pc = "start" => toDev = <<>> /\ toHost = <<>> /\ ~asked
        /\ pc \in Handshaking => Greeting
        /\ pc \in Busy \cup {"idle"} => ~asked
        /\ pc = "open" => Opening
        /\ pc = "shell" => Reading
        /\ pc \in {"pull", "push", "pushed"} => Transferring
        /\ pc = "idle" => Resting

(* --------------------------- the types hold ----------------------------- *)

\* The packets of a push are typed, and their number is that of PushLength.
LEMMA PushPacketsIs ==
    ASSUME NEW n \in 1 .. MaxOps
    PROVE  PushPackets(n) \in Seq(Asked) /\ Len(PushPackets(n)) = PushLength
<1> DEFINE Data == [i \in 1 .. 2 * Pieces |-> <<n, IF i % 2 = 1 THEN "DATA" ELSE "bytes", i>>]
           First == << <<n, "SEND", 0>>, <<n, "SENDpath", 0>> >>
           Last == << <<n, "DONE", 0>> >>
<1>1. Pieces \in Nat /\ 2 * Pieces \in Nat
  BY AdbAssumption
<1>2. Data \in Seq(Asked) /\ Len(Data) = 2 * Pieces
  <2>1. \A i \in 1 .. 2 * Pieces : <<n, IF i % 2 = 1 THEN "DATA" ELSE "bytes", i>> \in Asked
    BY <1>1 DEF Asked, Parts
  <2> QED BY <1>1, <2>1
<1>3. First \in Seq(Asked) /\ Len(First) = 2 /\ Last \in Seq(Asked) /\ Len(Last) = 1
  BY DEF Asked, Parts
<1>4. PushPackets(n) = First \o Data \o Last
  BY DEF PushPackets
<1>5. PICK first \in Seq(Asked), data \in Seq(Asked), last \in Seq(Asked) :
          /\ first = First /\ data = Data /\ last = Last
          /\ Len(first) = 2 /\ Len(data) = 2 * Pieces /\ Len(last) = 1
  BY <1>2, <1>3
<1> HIDE DEF First, Data, Last
<1>6. PICK begun : begun = first \o data
  OBVIOUS
<1>7. begun \in Seq(Asked) /\ Len(begun) = 2 + 2 * Pieces
  <2>1. begun \in Seq(Asked) /\ Len(begun) = Len(first) + Len(data)
    BY <1>6, ConcatProperties
  <2> QED BY <1>1, <1>5, <2>1
<1>8. begun \o last \in Seq(Asked) /\ Len(begun \o last) = (2 + 2 * Pieces) + 1
  <2>1. begun \o last \in Seq(Asked) /\ Len(begun \o last) = Len(begun) + Len(last)
    BY <1>7, ConcatProperties
  <2> QED BY <1>1, <1>5, <1>7, <2>1
<1>9. PushPackets(n) = begun \o last
  BY <1>4, <1>5, <1>6
<1> QED BY <1>1, <1>8, <1>9 DEF PushLength

LEMMA PushLengthIs == PushLength \in Nat \ {0}
BY AdbAssumption DEF PushLength

\* What a packet for the host carries.
LEMMA PacketIs ==
    ASSUME NEW m \in ForHost \cup {Nothing}
    PROVE  /\ m.type \in {"OKAY", "CLSE"} => m.local \in 0 .. nextRemote - 1
           /\ m.type = "WRTE" => m.data \in Piece
BY DEF ForHost, Nothing

\* What the host may send.
LEMMA SentIs ==
    ASSUME HostTyped, nextRemote \in Nat
    PROVE  /\ <<>> \in Seq(ForDevice)
           /\ \A t \in {"CNXN", "SIGNATURE", "KEY"} : <<[type |-> t]>> \in Seq(ForDevice)
           /\ \A t \in {"OKAY", "CLSE"} :
                <<Packet(t, stream.local, stream.remote)>> \in Seq(ForDevice)
           /\ \A l \in Nat \ {0}, o \in Operations :
                OwnStream(l, o) => <<Open(l, o)>> \in Seq(ForDevice)
           /\ \A l \in Nat \ {0, 1}, r \in Nat, p \in Asked :
                <<Write(l, r, p)>> \in Seq(ForDevice)
<1>1. stream.local \in Nat /\ stream.remote \in Nat
  BY DEF HostTyped
<1>2. \A t \in {"CNXN", "SIGNATURE", "KEY"} : [type |-> t] \in ForDevice
  BY DEF ForDevice
<1>3. \A t \in {"OKAY", "CLSE"} : Packet(t, stream.local, stream.remote) \in ForDevice
  BY <1>1 DEF ForDevice, Packet
<1>4. ASSUME NEW l \in Nat \ {0}, NEW o \in Operations, OwnStream(l, o)
      PROVE  Open(l, o) \in ForDevice
  <2>1. Open(l, o) \in [type : {"OPEN"}, local : Nat \ {0}, service : Operations]
    BY DEF Open
  <2>2. OwnStream(Open(l, o).local, Open(l, o).service)
    BY <1>4 DEF Open
  <2> QED BY <2>1, <2>2 DEF ForDevice
<1>5. ASSUME NEW l \in Nat \ {0, 1}, NEW r \in Nat, NEW p \in Asked
      PROVE  Write(l, r, p) \in ForDevice
  BY DEF ForDevice, Write
<1> QED BY <1>2, <1>3, <1>4, <1>5

LEMMA SendsTypes ==
    ASSUME WireTyped, NEW s \in Seq(ForDevice), Sends(s)
    PROVE  toDev' \in Seq(ForDevice)
BY ConcatProperties DEF Sends, WireTyped

LEMMA ReturnsTypes ==
    ASSUME HostTyped, pc \in Busy, NEW v \in {"true", "exception"}, Returns(v),
           nextRemote' = nextRemote
    PROVE  HostTyped'
BY DEF Returns, Result, hostData, HostTyped, Busy, Handshaking

LEMMA ConnectFailsTypes ==
    ASSUME HostTyped, ConnectFails, nextRemote' = nextRemote, polls' = polls
    PROVE  HostTyped'
BY DEF ConnectFails, hostData, HostTyped, Busy, Handshaking

LEMMA HandshakeTypes ==
    ASSUME HostTyped, pc \in Handshaking, nextRemote' = nextRemote,
           NEW l \in Handshaking, NEW s, HandshakeGoesOn(l, s),
           secure' \in BOOLEAN, polls' \in 0 .. MaxPolls
    PROVE  HostTyped'
BY DEF HandshakeGoesOn, HostTyped, Busy, Handshaking

\* A stream is opened on an id of its own.
LEMMA OpensTypes ==
    ASSUME HostTyped, WireTyped, nextRemote \in Nat \ {0}, nextRemote' = nextRemote,
           NEW o \in Operations, Opens(o), OwnStream(nextId, o),
           {connected', secure'} \subseteq BOOLEAN, polls' \in 0 .. MaxPolls
    PROVE  HostTyped' /\ toDev' \in Seq(ForDevice)
<1>1. nextId \in Nat \ {0}
  BY DEF HostTyped
<1>2. <<Open(nextId, o)>> \in Seq(ForDevice)
  BY <1>1, SentIs
<1>3. toDev' \in Seq(ForDevice)
  BY <1>2, SendsTypes DEF Opens
<1>4. 0 # PushLength /\ 0 \in 0 .. PushLength
  BY PushLengthIs
<1>5. stream' = [local |-> nextId, remote |-> 0] /\ nextId' = nextId + 1 /\ op' = o
      /\ pc' = "open" /\ outcome' = [op |-> o, value |-> "none"] /\ sent' = 0 /\ got' = <<>>
  BY DEF Opens
<1>6. stream' \in [local : Nat, remote : 0 .. nextRemote - 1] /\ stream'.local = nextId
  BY <1>1, <1>5
<1>7. got' \in Seq(Piece) /\ outcome'.value = "none"
  BY <1>5
<1>8. OwnStream(stream'.local, op')
  BY <1>5, <1>6
<1>9. /\ UNCHANGED <<Piece, Operations, PushLength>>
      /\ OwnStream(stream.local, op)' = OwnStream(stream'.local, op')
  BY DEF Piece, Operations, Props, PushLength, OwnStream
<1>10. HostTyped'
  BY <1>1, <1>4, <1>5, <1>6, <1>7, <1>8, <1>9 DEF HostTyped, Busy, Handshaking
<1> QED BY <1>3, <1>10

LEMMA AcceptedTypes ==
    ASSUME HostTyped, WireTyped, nextRemote \in Nat \ {0}, nextRemote' = nextRemote,
           pc \in Handshaking, Accepted
    PROVE  HostTyped' /\ toDev' \in Seq(ForDevice)
<1>1. nextId = 1 /\ {connected', secure'} \subseteq BOOLEAN
  BY DEF Accepted, HostTyped
<1>2. Props \in Operations /\ OwnStream(nextId, Props)
  BY <1>1 DEF Operations, OwnStream
<1>3. polls' \in 0 .. MaxPolls
  BY AdbAssumption DEF Accepted
<1> QED BY <1>1, <1>2, <1>3, OpensTypes DEF Accepted

\* The packets of the handshake, or a read that timed out.
LEMMA GreetingTypes ==
    ASSUME HostTyped, WireTyped, nextRemote \in Nat \ {0}, nextRemote' = nextRemote,
           NEW m, \/ pc = "cnxn" /\ CnxnAnswered(m)
                  \/ pc = "signature" /\ SignatureAnswered(m)
                  \/ pc = "polls" /\ Polled(m)
    PROVE  HostTyped' /\ toDev' \in Seq(ForDevice)
<1>1. {secure} \subseteq BOOLEAN /\ polls \in 0 .. MaxPolls /\ pc \in Handshaking
  BY DEF HostTyped, Handshaking
<1>2. CASE Accepted
  BY <1>1, <1>2, AcceptedTypes
<1>3. CASE ConnectFails /\ polls' = polls
  BY <1>3, ConnectFailsTypes DEF ConnectFails, WireTyped
<1>4. CASE \E l \in Handshaking, t \in {"CNXN", "SIGNATURE", "KEY"} :
              HandshakeGoesOn(l, <<[type |-> t]>>) /\ secure' \in BOOLEAN /\ polls' = polls
  <2>1. PICK l \in Handshaking, t \in {"CNXN", "SIGNATURE", "KEY"} :
              HandshakeGoesOn(l, <<[type |-> t]>>) /\ secure' \in BOOLEAN /\ polls' = polls
    BY <1>4
  <2>2. <<[type |-> t]>> \in Seq(ForDevice) /\ Sends(<<[type |-> t]>>)
    BY <2>1, SentIs DEF HandshakeGoesOn
  <2>3. toDev' \in Seq(ForDevice)
    BY <2>2, SendsTypes
  <2> QED BY <1>1, <2>1, <2>3, HandshakeTypes
<1>5. CASE /\ HandshakeGoesOn("polls", <<>>) /\ secure' = secure
           /\ polls' = polls + 1 /\ polls + 1 < MaxPolls
  <2>1. Sends(<<>>) /\ <<>> \in Seq(ForDevice)
    BY <1>5, SentIs DEF HandshakeGoesOn
  <2>2. polls' \in 0 .. MaxPolls
    BY <1>1, <1>5, AdbAssumption
  <2> QED BY <1>1, <1>5, <2>1, <2>2, SendsTypes, HandshakeTypes DEF Handshaking
<1>6. CASE pc = "cnxn" /\ CnxnAnswered(m)
  <2>1. \/ HandshakeGoesOn("cnxn", <<[type |-> "CNXN"]>>) /\ secure' = TRUE /\ polls' = polls
        \/ HandshakeGoesOn("signature", <<[type |-> "SIGNATURE"]>>) /\ UNCHANGED <<secure, polls>>
        \/ Accepted
        \/ ConnectFails
    BY <1>6 DEF CnxnAnswered
  <2> QED BY <1>1, <1>2, <1>3, <1>4, <2>1 DEF Handshaking, ConnectFails, hostData
<1>7. CASE pc = "signature" /\ SignatureAnswered(m)
  <2>1. \/ HandshakeGoesOn("polls", <<[type |-> "KEY"]>>) /\ UNCHANGED <<secure, polls>>
        \/ Accepted
        \/ ConnectFails
    BY <1>7 DEF SignatureAnswered
  <2> QED BY <1>1, <1>2, <1>3, <1>4, <2>1 DEF Handshaking, ConnectFails, hostData
<1>8. CASE pc = "polls" /\ Polled(m)
  <2>1. \/ HandshakeGoesOn("polls", <<>>) /\ polls' = polls + 1 /\ secure' = secure
             /\ polls + 1 < MaxPolls
        \/ Accepted
        \/ ConnectFails
    BY <1>8 DEF Polled
  <2> QED BY <1>2, <1>3, <1>5, <2>1 DEF ConnectFails, hostData
<1> QED BY <1>6, <1>7, <1>8

\* One more packet read of a stream.
LEMMA TakesTypes ==
    ASSUME HostTyped, WireTyped, nextRemote \in Nat \ {0}, nextRemote' = nextRemote,
           pc \in Busy \ {"open"}, NEW m \in ForHost, m.type = "WRTE", Takes(m)
    PROVE  HostTyped' /\ toDev' \in Seq(ForDevice)
<1>1. m.data \in Piece
  BY PacketIs
<1>2. got' \in Seq(Piece)
  BY <1>1, AppendProperties DEF Takes, HostTyped
<1>3. toDev' \in Seq(ForDevice)
  BY SentIs, SendsTypes DEF Takes
<1>4. pc' = pc /\ UNCHANGED <<connected, secure, op, stream, nextId, sent, polls, outcome>>
  BY DEF Takes, Waits
<1> QED BY <1>2, <1>3, <1>4 DEF HostTyped, Busy

LEMMA LeavesTypes ==
    ASSUME HostTyped, WireTyped, nextRemote \in Nat \ {0}, nextRemote' = nextRemote,
           pc \in Busy, NEW v \in {"true", "exception"}, Leaves(v)
    PROVE  HostTyped' /\ toDev' \in Seq(ForDevice)
<1>1. Close \in Seq(ForDevice)
  BY SentIs DEF Close
<1> QED BY <1>1, SendsTypes, ReturnsTypes DEF Leaves

LEMMA OpenAnsweredTypes ==
    ASSUME HostTyped, WireTyped, nextRemote \in Nat \ {0}, nextRemote' = nextRemote,
           pc = "open", NEW m \in ForHost \cup {Nothing}, OpenAnswered(m)
    PROVE  HostTyped' /\ toDev' \in Seq(ForDevice)
<1>1. CASE m.type # "OKAY"
  BY <1>1, ReturnsTypes DEF OpenAnswered, WireTyped, Busy
<1>2. CASE m.type = "OKAY"
  <2>1. m.local \in 0 .. nextRemote - 1 /\ m.local \in Nat
    BY <1>2, PacketIs
  <2>2. /\ stream' = [local |-> stream.local, remote |-> m.local]
        /\ pc' = IF op.kind \in {"pull", "push"} THEN op.kind ELSE "shell"
        /\ Sends(IF op.kind = "pull"
                 THEN <<Write(stream.local, m.local, <<op.n, "RECV", 0>>)>> ELSE <<>>)
        /\ UNCHANGED <<connected, secure, op, nextId, hostData, outcome, strayed>>
    BY <1>2 DEF OpenAnswered, Opened
  <2>3. /\ stream.local \in Nat \ {0} /\ OwnStream(stream.local, op)
        /\ op.kind \in {"pull", "push"} => op # Props /\ op.n \in 1 .. MaxOps
    BY DEF HostTyped, Operations, Busy, Props
  <2>4. toDev' \in Seq(ForDevice)
    <3>1. CASE op.kind = "pull"
      <4>1. stream.local \in Nat \ {0, 1} /\ <<op.n, "RECV", 0>> \in Asked
        BY <2>3, <3>1 DEF OwnStream, Asked, Parts
      <4> QED BY <2>1, <2>2, <3>1, <4>1, SentIs, SendsTypes
    <3>2. CASE op.kind # "pull"
      BY <2>2, <3>2, SentIs, SendsTypes
    <3> QED BY <3>1, <3>2
  <2>5. stream' \in [local : Nat, remote : 0 .. nextRemote - 1] /\ stream'.local = stream.local
    BY <2>1, <2>2 DEF HostTyped
  <2>6. pc' \in {"pull", "push", "shell"} /\ (pc' \in {"pull", "push"} => op # Props)
    BY <2>2, <2>3
  <2>7. HostTyped'
    BY <2>2, <2>3, <2>5, <2>6 DEF hostData, HostTyped, Busy, Handshaking, OwnStream
  <2> QED BY <2>4, <2>7
<1> QED BY <1>1, <1>2

\* Whatever packet comes, or none, wherever the host is.
LEMMA HandlesTypes ==
    ASSUME HostTyped, WireTyped, nextRemote \in Nat \ {0}, nextRemote' = nextRemote,
           strayed \in BOOLEAN, NEW m \in ForHost \cup {Nothing}, Handles(m)
    PROVE  HostTyped' /\ toDev' \in Seq(ForDevice) /\ strayed' \in BOOLEAN
<1>0. ASSUME toDev' = toDev PROVE toDev' \in Seq(ForDevice)
  BY <1>0 DEF WireTyped
<1>a. m.type = "WRTE" => m \in ForHost
  BY DEF Nothing
<1>1. CASE pc \in Handshaking
  <2>1. \/ pc = "cnxn" /\ CnxnAnswered(m)
        \/ pc = "signature" /\ SignatureAnswered(m)
        \/ pc = "polls" /\ Polled(m)
    BY <1>1 DEF Handles, Handshaking
  <2> QED BY <1>1, <2>1, GreetingTypes DEF Handles, Handshaking
<1>2. CASE pc = "open"
  <2>1. OpenAnswered(m)
    BY <1>2 DEF Handles
  <2>2. strayed' \in BOOLEAN
    BY <2>1 DEF OpenAnswered
  <2> QED BY <1>2, <2>1, <2>2, OpenAnsweredTypes
<1>3. CASE pc = "shell"
  <2>1. \/ m.type = "WRTE" /\ Takes(m)
        \/ Returns("true") /\ UNCHANGED <<toDev, strayed>>
        \/ Leaves("true")
    BY <1>3 DEF Handles, ShellReads
  <2>2. strayed' \in BOOLEAN
    BY <2>1 DEF Takes, Leaves
  <2> QED BY <1>0, <1>a, <1>3, <2>1, <2>2, TakesTypes, ReturnsTypes, LeavesTypes DEF Busy
<1>4. CASE pc = "pull"
  <2>1. \/ m.type = "WRTE" /\ Takes(m)
        \/ (\E v \in {"true", "exception"} : Returns(v)) /\ UNCHANGED <<toDev, strayed>>
        \/ Leaves("true")
        \/ Waits(pc) /\ UNCHANGED <<got, toDev, strayed>>
    BY <1>4 DEF Handles, PullReads
  <2>2. strayed' \in BOOLEAN
    BY <2>1 DEF Takes, Leaves
  <2>3. CASE Waits(pc) /\ UNCHANGED <<got, toDev, strayed>>
    BY <1>0, <2>2, <2>3 DEF Waits, HostTyped
  <2> QED BY <1>0, <1>a, <1>4, <2>1, <2>2, <2>3, TakesTypes, ReturnsTypes, LeavesTypes DEF Busy
<1>5. CASE pc = "pushed"
  <2>1. \/ /\ Sends(<<Packet("OKAY", stream.local, stream.remote)>> \o Close)
           /\ Returns("true") /\ strayed' = TRUE
        \/ Returns("true") /\ UNCHANGED <<toDev, strayed>>
        \/ Leaves("true")
    BY <1>5 DEF Handles, PushReads
  <2>2. strayed' \in BOOLEAN
    BY <2>1 DEF Leaves
  <2>3. <<Packet("OKAY", stream.local, stream.remote)>> \o Close \in Seq(ForDevice)
    <3>1. <<Packet("OKAY", stream.local, stream.remote)>> \in Seq(ForDevice) /\ Close \in Seq(ForDevice)
      BY SentIs DEF Close
    <3> QED BY <3>1, ConcatProperties
  <2> QED BY <1>0, <1>5, <2>1, <2>2, <2>3, ReturnsTypes, LeavesTypes, SendsTypes DEF Busy
<1> QED BY <1>1, <1>2, <1>3, <1>4, <1>5 DEF Handles, Handshaking

\* The ids the device gives its streams only grow.
Grown == nextRemote \in Nat \ {0} /\ nextRemote' \in Nat /\ nextRemote <= nextRemote'

LEMMA RangesGrow ==
    ASSUME NEW n \in Nat, NEW k \in Nat, n <= k
    PROVE  /\ \A i \in 0 .. n - 1 : i \in 0 .. k - 1
           /\ \A i \in 1 .. n - 1 : i \in 1 .. k - 1
OBVIOUS

LEMMA GrownKeeps ==
    ASSUME Grown
    PROVE  /\ ForHost \subseteq ForHost' /\ Streams \subseteq Streams'
           /\ \A q \in Seq(ForHost) : q \in Seq(ForHost')
<1>0. nextRemote \in Nat /\ nextRemote' \in Nat /\ nextRemote <= nextRemote'
  BY DEF Grown
<1>1. /\ \A i \in 0 .. nextRemote - 1 : i \in 0 .. nextRemote' - 1
      /\ \A i \in 1 .. nextRemote - 1 : i \in 1 .. nextRemote' - 1
  BY <1>0, RangesGrow
<1>2. \A i \in 1 .. nextRemote - 1 : i \in 1 .. nextRemote' - 1
  BY <1>1
<1>3. UNCHANGED <<Piece, Operations>>
  BY DEF Piece, Operations, Props
<1>4. ForHost \subseteq ForHost'
  <2>2. ForHost' = [type : {"CNXN", "AUTH", "STLS"}]
          \cup [type : {"OKAY", "CLSE"}, local : 0 .. nextRemote' - 1, remote : Nat]
          \cup [type : {"WRTE"}, local : 0 .. nextRemote' - 1, remote : Nat, data : Piece]
    BY <1>3 DEF ForHost
  <2> QED BY <1>1, <2>2 DEF ForHost
<1>5. Streams \subseteq Streams'
  <2>1. SUFFICES ASSUME NEW s \in Streams PROVE s \in Streams'
    OBVIOUS
  <2>2. /\ s \in [local : Nat \ {0}, remote : 1 .. nextRemote' - 1, op : Operations,
                  ready : BOOLEAN, heard : Seq(Asked), refused : BOOLEAN,
                  out : Seq(Piece)]
        /\ OwnStream(s.local, s.op)
    BY <1>2 DEF Streams
  <2> QED BY <1>3, <2>2 DEF Streams, OwnStream
<1>6. \A q \in Seq(ForHost) : q \in Seq(ForHost')
  BY <1>4, SeqMonotonic
<1> QED BY <1>4, <1>5, <1>6

LEMMA HostKept ==
    ASSUME HostTyped, Grown, UNCHANGED host
    PROVE  HostTyped'
<1>1. stream' \in [local : Nat, remote : 0 .. nextRemote' - 1]
  BY DEF HostTyped, Grown, host
<1>2. UNCHANGED <<connected, secure, pc, op, stream, nextId, sent, polls, got, outcome>>
  BY DEF host, hostData
<1> QED BY <1>1, <1>2 DEF HostTyped, OwnStream

LEMMA RepliesTypes ==
    ASSUME WireTyped, Grown, NEW s \in Seq(ForHost'), Replies(s)
    PROVE  toHost' \in Seq(ForHost')
<1>1. toHost \in Seq(ForHost')
  BY GrownKeeps DEF WireTyped
<1> QED BY <1>1, ConcatProperties DEF Replies

\* What the device may send.
LEMMA RepliedIs ==
    ASSUME nextRemote \in Nat \ {0}
    PROVE  /\ <<>> \in Seq(ForHost)
           /\ \A t \in {"CNXN", "AUTH", "STLS"} : <<[type |-> t]>> \in Seq(ForHost)
           /\ \A t \in {"OKAY", "CLSE"}, l \in 0 .. nextRemote - 1, r \in Nat :
                <<Packet(t, l, r)>> \in Seq(ForHost)
           /\ \A l \in 0 .. nextRemote - 1, r \in Nat, p \in Piece :
                <<Write(l, r, p)>> \in Seq(ForHost)
<1>1. \A t \in {"CNXN", "AUTH", "STLS"} : [type |-> t] \in ForHost
  BY DEF ForHost
<1>2. \A t \in {"OKAY", "CLSE"}, l \in 0 .. nextRemote - 1, r \in Nat : Packet(t, l, r) \in ForHost
  BY DEF ForHost, Packet
<1>3. \A l \in 0 .. nextRemote - 1, r \in Nat, p \in Piece : Write(l, r, p) \in ForHost
  BY DEF ForHost, Write
<1> QED BY <1>1, <1>2, <1>3

LEMMA OperationIs ==
    ASSUME NEW o \in Operations
    PROVE  /\ o.n \in 0 .. MaxOps /\ o.size \in Nat /\ o.kind \in Kinds \cup {"props"}
           /\ o # Props => o.n \in 1 .. MaxOps
           /\ o.kind \in Syncs => o # Props
           /\ [i \in 1 .. o.size |-> <<o.n, i>>] \in Seq(Piece)
           /\ Len([i \in 1 .. o.size |-> <<o.n, i>>]) = o.size
<1>1. MaxOps \in Nat
  BY AdbAssumption
<1>2. o.n \in 0 .. MaxOps /\ o.size \in Nat /\ (o # Props => o.n \in 1 .. MaxOps)
  BY <1>1 DEF Operations, Props
<1>3. o.kind \in Kinds \cup {"props"} /\ (o.kind \in Syncs => o # Props)
  BY DEF Operations, Props, Syncs, Kinds
<1>4. PICK out : out = [i \in 1 .. o.size |-> <<o.n, i>>]
  OBVIOUS
<1>5. out \in [1 .. o.size -> Piece]
  BY <1>2, <1>4 DEF Piece
<1>6. out \in Seq(Piece)
  BY <1>2, <1>5
<1>7. Len(out) = o.size
  BY <1>2, <1>5, <1>6, LenProperties
<1> QED BY <1>2, <1>3, <1>4, <1>6, <1>7

\* A stream the device has opened, heard on or written to is one still.
LEMMA StreamIs ==
    ASSUME NEW s \in Streams, nextRemote \in Nat
    PROVE  /\ s.local \in Nat \ {0} /\ s.remote \in 1 .. nextRemote - 1 /\ s.op \in Operations
           /\ s.heard \in Seq(Asked) /\ s.out \in Seq(Piece) /\ OwnStream(s.local, s.op)
           /\ \A r \in BOOLEAN, h \in Seq(Asked), out \in Seq(Piece) :
                [s EXCEPT !.ready = r, !.heard = h, !.out = out] \in Streams
BY DEF Streams

LEMMA GreetsTypes ==
    ASSUME WireTyped, DeviceTyped, NEW m, DeviceGreets(m), nextRemote' = nextRemote
    PROVE  /\ toHost' \in Seq(ForHost) /\ greeting' \in Greetings \cup {"open", "unknown"}
           /\ {online', asked'} \subseteq BOOLEAN
<1>1. nextRemote \in Nat \ {0} /\ Grown
  BY DEF DeviceTyped, Grown
<1>2. ForHost' = ForHost
  BY DEF ForHost, Piece
<1>3. ASSUME NEW t \in {"CNXN", "AUTH", "STLS"}, Replies(<<[type |-> t]>>)
      PROVE  toHost' \in Seq(ForHost)
  BY <1>1, <1>2, <1>3, RepliedIs, RepliesTypes
<1> QED BY <1>3 DEF DeviceGreets, Authorises, DeviceTyped, WireTyped

LEMMA DeviceOpensTypes ==
    ASSUME WireTyped, DeviceTyped, NEW m \in ForDevice, m.type = "OPEN", DeviceOpens(m)
    PROVE  Grown /\ toHost' \in Seq(ForHost') /\ streams' \subseteq Streams'
<1>1. nextRemote \in Nat \ {0} /\ m.local \in Nat \ {0} /\ m.service \in Operations
      /\ OwnStream(m.local, m.service)
  BY DEF ForDevice, DeviceTyped
<1>2. CASE Replies(<<Packet("CLSE", 0, m.local)>>) /\ UNCHANGED <<streams, nextRemote>>
  <2>1. Grown /\ <<Packet("CLSE", 0, m.local)>> \in Seq(ForHost)
    BY <1>1, <1>2, RepliedIs DEF Grown
  <2>2. <<Packet("CLSE", 0, m.local)>> \in Seq(ForHost')
    BY <2>1, GrownKeeps
  <2> QED BY <1>2, <2>1, <2>2, RepliesTypes, GrownKeeps DEF DeviceTyped
<1>3. PICK out : out = IF m.service.kind \in {"pull", "push"} THEN <<>>
                       ELSE [i \in 1 .. m.service.size |-> <<m.service.n, i>>]
  OBVIOUS
<1>4. PICK s : s = [local |-> m.local, remote |-> nextRemote, op |-> m.service, ready |-> TRUE,
                    heard |-> <<>>, refused |-> FALSE, out |-> out]
  OBVIOUS
<1>5. CASE /\ Replies(<<Packet("OKAY", nextRemote, m.local)>>)
           /\ nextRemote' = nextRemote + 1 /\ streams' = streams \cup {s}
  <2>1. Grown /\ nextRemote' \in Nat \ {0}
    BY <1>1, <1>5 DEF Grown
  <2>2. Packet("OKAY", nextRemote, m.local) \in ForHost'
    <3>1. nextRemote \in 0 .. nextRemote' - 1
      BY <1>1, <1>5
    <3>2. [type |-> "OKAY", local |-> nextRemote, remote |-> m.local]
            \in [type : {"OKAY", "CLSE"}, local : 0 .. nextRemote' - 1, remote : Nat]
      BY <1>1, <3>1
    <3> QED BY <3>2 DEF ForHost, Packet
  <2>3. toHost' \in Seq(ForHost')
    <3>1. PICK r : r = <<Packet("OKAY", nextRemote, m.local)>>
      OBVIOUS
    <3>2. r \in Seq(ForHost') /\ Replies(r)
      BY <1>5, <2>2, <3>1
    <3> QED BY <2>1, <3>2, RepliesTypes
  <2>4. out \in Seq(Piece)
    <3>1. <<>> \in Seq(Piece)
      OBVIOUS
    <3> QED BY <1>1, <1>3, <3>1, OperationIs
  <2>5. s \in Streams'
    <3>1. nextRemote \in 1 .. nextRemote' - 1 /\ <<>> \in Seq(Asked)
      BY <1>1, <1>5
    <3>2. s \in [local : Nat \ {0}, remote : 1 .. nextRemote' - 1, op : Operations,
                 ready : BOOLEAN, heard : Seq(Asked), refused : BOOLEAN,
                  out : Seq(Piece)]
      BY <1>1, <1>4, <2>4, <3>1
    <3>3. s.local = m.local /\ s.op = m.service
      BY <1>4
    <3>4. UNCHANGED <<Piece, Operations>>
      BY DEF Piece, Operations, Props
    <3> QED BY <1>1, <3>2, <3>3, <3>4 DEF Streams, OwnStream
  <2>6. streams \subseteq Streams'
    BY <2>1, GrownKeeps DEF DeviceTyped
  <2> QED BY <1>5, <2>1, <2>3, <2>5, <2>6
<1> QED BY <1>2, <1>3, <1>4, <1>5 DEF DeviceOpens

LEMMA HeardIs ==
    ASSUME DeviceTyped, NEW s \in Streams, NEW p \in Asked
    PROVE  /\ Heard(s, p) \in Streams /\ Heard(s, p).op = s.op
           /\ Refused(s) \in Streams /\ Refused(s).op = s.op
<1>1. /\ s.heard \in Seq(Asked) /\ s.out \in Seq(Piece) /\ s.op \in Operations
      /\ s.ready \in BOOLEAN /\ s = [s EXCEPT !.ready = s.ready]
  BY DEF Streams
<1>2. Append(s.heard, p) \in Seq(Asked) /\ <<>> \in Seq(Asked)
  BY <1>1, AppendProperties
<1>3. <<s.op.n, 1>> \in Piece /\ <<s.op.n, 2>> \in Piece
  BY <1>1, OperationIs DEF Piece
<1>4. Answers(s, p) \in Seq(Piece)
  BY <1>3 DEF Answers
<1>5. s.out \o Answers(s, p) \in Seq(Piece) /\ Append(s.out, <<s.op.n, 1>>) \in Seq(Piece)
  BY <1>1, <1>3, <1>4, ConcatProperties, AppendProperties
<1>6. Heard(s, p) \in Streams /\ Heard(s, p).op = s.op
  <2>1. CASE s.refused
    BY <2>1 DEF Heard
  <2>2. CASE ~s.refused
    <3>1. Heard(s, p) = [s EXCEPT !.heard = Append(@, p), !.out = @ \o Answers(s, p)]
      BY <2>2 DEF Heard
    <3>2. PICK heard \in Seq(Asked), out \in Seq(Piece) :
              heard = Append(s.heard, p) /\ out = s.out \o Answers(s, p)
      BY <1>2, <1>5
    <3>3. Heard(s, p) = [s EXCEPT !.heard = heard, !.out = out]
      BY <3>1, <3>2
    <3> QED BY <3>3 DEF Streams
  <2> QED BY <2>1, <2>2
<1>7. Refused(s) \in Streams /\ Refused(s).op = s.op
  <2>1. PICK out \in Seq(Piece) : out = Append(s.out, <<s.op.n, 1>>)
    BY <1>5
  <2>2. Refused(s) = [s EXCEPT !.heard = <<>>, !.out = out, !.refused = TRUE]
    BY <2>1 DEF Refused
  <2> QED BY <1>2, <2>2 DEF Streams
<1> QED BY <1>6, <1>7

LEMMA DeviceTakesTypes ==
    ASSUME WireTyped, DeviceTyped, NEW m \in ForDevice, DeviceTakes(m)
    PROVE  /\ Grown /\ toHost' \in Seq(ForHost') /\ streams' \subseteq Streams'
           /\ delivered' \subseteq Seq(Asked)
<1>0. nextRemote \in Nat \ {0} /\ streams \subseteq Streams /\ delivered \subseteq Seq(Asked)
  BY DEF DeviceTyped
<1>a. ASSUME nextRemote' = nextRemote
      PROVE  /\ Grown /\ UNCHANGED <<ForHost, Streams>>
             /\ \A q \in Seq(ForHost) : Replies(q) => toHost' \in Seq(ForHost')
             /\ toHost' = toHost => toHost' \in Seq(ForHost')
  <2>1. Grown
    BY <1>0, <1>a DEF Grown
  <2>2. UNCHANGED <<ForHost, Streams>>
    BY <1>a DEF ForHost, Streams, Piece, Operations, Props, OwnStream
  <2> QED BY <2>1, <2>2, RepliesTypes DEF WireTyped
<1>b. Of(m.local, m.remote) \subseteq streams /\ \A s \in Of(m.local, m.remote) : s.local = m.local
  BY DEF Of
<1>1. CASE m.type = "OPEN"
  BY <1>0, <1>1, DeviceOpensTypes DEF DeviceTakes
<1>2. CASE m.type = "WRTE" /\ Of(m.local, m.remote) # {}
  <2>1. PICK s \in Of(m.local, m.remote) :
              /\ Replies(<<Packet("OKAY", s.remote, s.local)>>)
              /\ \E t \in {Heard(s, m.data), Refused(s)} : streams' = (streams \ {s}) \cup {t}
              /\ delivered' \subseteq delivered \cup {Append(s.heard, m.data)}
              /\ nextRemote' = nextRemote
    BY <1>2 DEF DeviceTakes
  <2>2. s \in Streams
    BY <1>0, <1>b
  <2>3. m.data \in Asked
    BY <1>2 DEF ForDevice
  <2>4. Heard(s, m.data) \in Streams /\ Refused(s) \in Streams
    BY <2>2, <2>3, HeardIs
  <2>5. Append(s.heard, m.data) \in Seq(Asked)
    <3>1. s.heard \in Seq(Asked)
      BY <2>2 DEF Streams
    <3> QED BY <2>3, <3>1, AppendProperties
  <2>6. <<Packet("OKAY", s.remote, s.local)>> \in Seq(ForHost)
    <3>1. s.remote \in 0 .. nextRemote - 1 /\ s.local \in Nat
      BY <1>0, <2>2 DEF Streams
    <3> QED BY <1>0, <3>1, RepliedIs
  <2> QED BY <1>0, <1>a, <2>1, <2>4, <2>5, <2>6
<1>3. CASE m.type = "OKAY" /\ Of(m.local, m.remote) # {}
  <2>1. PICK s \in Of(m.local, m.remote) :
              /\ streams' = (streams \ {s}) \cup {[s EXCEPT !.ready = TRUE]}
              /\ UNCHANGED <<toHost, nextRemote, delivered>>
    BY <1>3 DEF DeviceTakes
  <2>2. [s EXCEPT !.ready = TRUE] \in Streams
    <3>1. s \in Streams
      BY <1>0, <1>b
    <3> QED BY <3>1 DEF Streams
  <2> QED BY <1>0, <1>a, <2>1, <2>2
<1>4. CASE m.type = "CLSE" /\ Of(m.local, m.remote) # {}
  <2>1. /\ streams' = streams \ Of(m.local, m.remote)
        /\ Replies(<<>>) \/ Replies(<<Packet("CLSE", 0, m.local)>>)
        /\ UNCHANGED <<nextRemote, delivered>>
    BY <1>4 DEF DeviceTakes
  <2>2. <<>> \in Seq(ForHost) /\ <<Packet("CLSE", 0, m.local)>> \in Seq(ForHost)
    <3>1. m.local \in Nat
      BY <1>4 DEF ForDevice
    <3>2. 0 \in 0 .. nextRemote - 1
      BY <1>0
    <3> QED BY <1>0, <3>1, <3>2, RepliedIs
  <2> QED BY <1>0, <1>a, <2>1, <2>2
<1>5. CASE UNCHANGED <<toHost, streams, nextRemote, delivered>>
  BY <1>0, <1>a, <1>5
<1> QED BY <1>1, <1>2, <1>3, <1>4, <1>5 DEF DeviceTakes

LEMMA NextStream == nextRemote' = nextRemote /\ DeviceTyped => Grown /\ UNCHANGED <<ForHost, Streams>>
<1>1. UNCHANGED <<Piece, Operations>>
  BY DEF Piece, Operations, Props
<1> QED BY <1>1 DEF Grown, DeviceTyped, ForHost, Streams, OwnStream

LEMMA ConstantTypes == UNCHANGED <<Piece, Operations, Asked, ForDevice, PushLength>>
BY DEF Piece, Operations, Props, Asked, Parts, ForDevice, OwnStream, PushLength

\* The transport goes, with what was on its way.
LEMMA GoesTypes ==
    ASSUME WireTyped, DeviceTyped, Goes
    PROVE  WireTyped' /\ DeviceTyped' /\ Grown
<1>1. Grown /\ UNCHANGED <<ForHost, Streams>>
  BY NextStream DEF Goes
<1>2. WireTyped'
  <2>1. <<>> \in Seq(ForDevice) /\ <<>> \in Seq(ForHost)
    OBVIOUS
  <2> QED BY <1>1, <2>1, ConstantTypes DEF Goes, WireTyped
<1>3. DeviceTyped'
  BY <1>1 DEF Goes, DeviceTyped
<1> QED BY <1>1, <1>2, <1>3

\* Every step of the client, of the caller and of the timers keeps the types.
LEMMA HostStepTypes ==
    ASSUME Typed, Caller \/ Client \/ ReadTimesOut
    PROVE  Typed'
<1> USE DEF Typed
<1>0. nextRemote \in Nat \ {0} /\ strayed \in BOOLEAN /\ ops \in 0 .. MaxOps /\ faults \in 0 .. MaxFaults
  BY DEF DeviceTyped, BoundsTyped
<1>a. ASSUME UNCHANGED device PROVE DeviceTyped' /\ nextRemote' = nextRemote /\ UNCHANGED ForHost
  <2>1. Grown /\ UNCHANGED <<ForHost, Streams>>
    BY <1>a, NextStream DEF device
  <2> QED BY <1>a, <2>1 DEF device, DeviceTyped
<1>b. ASSUME UNCHANGED device, UNCHANGED <<toHost, link>>, toDev' \in Seq(ForDevice) PROVE WireTyped'
  BY <1>a, <1>b, ConstantTypes DEF WireTyped
<1>c. ASSUME UNCHANGED <<transport, ops>>, strayed' \in BOOLEAN,
             faults' = faults \/ (faults < MaxFaults /\ faults' = faults + 1)
      PROVE  BoundsTyped'
  BY <1>0, <1>c, AdbAssumption DEF BoundsTyped
<1>1. CASE Connect
  <2>1. <<[type |-> "CNXN"]>> \in Seq(ForDevice)
    BY <1>0, SentIs
  <2>2. toDev' \in Seq(ForDevice)
    BY <1>1, <2>1, SendsTypes DEF Connect, HandshakeGoesOn
  <2>3. HostTyped'
    BY <1>0, <1>1, <1>a, HandshakeTypes DEF Connect, Handshaking, HostTyped
  <2> QED BY <1>0, <1>1, <1>a, <1>b, <1>c, <2>2, <2>3 DEF Connect
<1>2. CASE Disconnect
  <2>1. WireTyped' /\ DeviceTyped' /\ Grown
    BY <1>2, GoesTypes DEF Disconnect
  <2>2. HostTyped'
    <3>1. stream' \in [local : Nat, remote : 0 .. nextRemote' - 1]
      BY <1>2, <2>1 DEF Disconnect, Goes, HostTyped
    <3> QED BY <1>2, <3>1 DEF Disconnect, hostData, HostTyped, Busy, Handshaking
  <2> QED BY <1>0, <1>2, <1>c, <2>1, <2>2 DEF Disconnect, Goes
<1>3. CASE Cancel
  <2>1. HostTyped'
    BY <1>0, <1>3, <1>a, ReturnsTypes DEF Cancel, Busy
  <2> QED BY <1>0, <1>3, <1>a, <1>b, <1>c, <2>1 DEF Cancel, wire, WireTyped
<1>4. ASSUME NEW k \in Kinds, NEW size \in Nat, Operation(k, size) PROVE Typed'
  <2>1. PICK o : o = [kind |-> k, n |-> ops + 1, size |-> size]
    OBVIOUS
  <2>2. MaxOps \in Nat /\ ops < MaxOps /\ ops' = ops + 1 /\ ops' \in 1 .. MaxOps /\ pc = "idle"
    BY <1>0, <1>4, AdbAssumption DEF Operation
  <2>3. o \in Operations /\ o # Props /\ o.kind = k
    BY <2>1, <2>2 DEF Operations, Props, Kinds
  <2>4. BoundsTyped'
    BY <1>4, <2>2 DEF Operation, BoundsTyped
  <2>5. UNCHANGED <<toHost, link, device>>
    BY <1>4 DEF Operation
  <2>6. CASE Opens(o) /\ UNCHANGED <<connected, secure, polls>>
    <3>1. OwnStream(nextId, o)
      BY <2>2, <2>3 DEF HostTyped, OwnStream
    <3>2. {connected', secure'} \subseteq BOOLEAN /\ polls' \in 0 .. MaxPolls
      BY <2>6 DEF HostTyped
    <3>3. HostTyped' /\ toDev' \in Seq(ForDevice)
      BY <1>0, <1>a, <2>3, <2>5, <2>6, <3>1, <3>2, OpensTypes
    <3> QED BY <1>a, <1>b, <2>4, <2>5, <3>3
  <2>7. CASE /\ outcome' = [op |-> o, value |-> IF k = "reboot" THEN "true" ELSE "exception"]
             /\ connected' = (connected /\ k # "reboot")
             /\ UNCHANGED <<secure, pc, op, stream, nextId, hostData, toDev>>
    <3>1. outcome'.value \in {"none", "true", "false", "exception"} /\ connected' \in BOOLEAN
      BY <2>7 DEF HostTyped
    <3>2. HostTyped'
      BY <1>a, <2>2, <2>5, <2>7, <3>1, ConstantTypes DEF hostData, HostTyped, Busy, Handshaking, OwnStream
    <3> QED BY <1>a, <1>b, <2>4, <2>5, <2>7, <3>2 DEF WireTyped
  <2> QED BY <1>4, <2>1, <2>6, <2>7 DEF Operation
<1>5. CASE ReceivePacket
  <2>1. Head(toHost) \in ForHost /\ Tail(toHost) \in Seq(ForHost)
    BY <1>5, HeadTailProperties DEF ReceivePacket, WireTyped
  <2>2. HostTyped' /\ toDev' \in Seq(ForDevice) /\ strayed' \in BOOLEAN
    BY <1>0, <1>5, <1>a, <2>1, HandlesTypes DEF ReceivePacket
  <2>3. WireTyped'
    BY <1>5, <1>a, <2>1, <2>2, ConstantTypes DEF ReceivePacket, WireTyped
  <2> QED BY <1>5, <1>a, <1>c, <2>2, <2>3 DEF ReceivePacket
<1>6. CASE ReadTimesOut
  <2>1. HostTyped' /\ toDev' \in Seq(ForDevice) /\ strayed' \in BOOLEAN
    BY <1>0, <1>6, <1>a, HandlesTypes DEF ReadTimesOut
  <2> QED BY <1>6, <1>a, <1>b, <1>c, <2>1 DEF ReadTimesOut
<1>7. CASE SendFile
  <2>1. sent \in 0 .. PushLength /\ sent # PushLength /\ pc = "push"
    BY <1>7 DEF SendFile, HostTyped
  <2>2. /\ sent + 1 \in 1 .. PushLength /\ PushPackets(op.n)[sent + 1] \in Asked
        /\ sent + 1 \in 0 .. PushLength
    <3>1. op \in Operations /\ op # Props
      BY <1>0, <2>1 DEF HostTyped
    <3>2. op.n \in 1 .. MaxOps
      BY <3>1, OperationIs
    <3> QED BY <2>1, <3>2, PushPacketsIs, PushLengthIs
  <2>3. stream.local \in Nat \ {0, 1} /\ stream.remote \in Nat
    BY <1>0, <2>1 DEF HostTyped, Busy, OwnStream
  <2>4. toDev' \in Seq(ForDevice)
    BY <1>0, <1>7, <2>2, <2>3, SentIs, SendsTypes DEF SendFile
  <2>5. HostTyped'
    <3>1. sent' = sent + 1 /\ pc' = IF sent' = PushLength THEN "pushed" ELSE "push"
      BY <1>7 DEF SendFile
    <3>2. UNCHANGED <<connected, secure, op, stream, nextId, polls, got, outcome, nextRemote>>
      BY <1>7, <1>a DEF SendFile
    <3> QED BY <2>1, <2>2, <3>1, <3>2, ConstantTypes DEF HostTyped, Busy, Handshaking, OwnStream
  <2> QED BY <1>7, <1>0, <1>a, <1>b, <1>c, <2>4, <2>5 DEF SendFile
<1>8. CASE LinkIsGone
  <2>1. toDev' = toDev /\ UNCHANGED <<transport, toHost, link, device, strayed, ops, faults>>
    BY <1>8 DEF LinkIsGone, ConnectFails
  <2>2. HostTyped'
    <3>1. CASE ConnectFails
      BY <1>a, <2>1, <3>1, ConnectFailsTypes DEF ConnectFails, hostData
    <3>2. CASE pc \in Busy /\ \E v \in {"true", "exception"} : Returns(v)
      BY <1>a, <2>1, <3>2, ReturnsTypes
    <3> QED BY <1>8, <3>1, <3>2 DEF LinkIsGone, Busy
  <2> QED BY <1>0, <1>a, <1>b, <1>c, <2>1, <2>2 DEF WireTyped
<1>9. \A size \in Lengths : size \in Nat
  BY AdbAssumption
<1> QED BY <1>1, <1>2, <1>3, <1>4, <1>5, <1>6, <1>7, <1>8, <1>9 DEF Caller, Client, Kinds

\* Every step of the device, of its user and of the cable keeps the types.
LEMMA DeviceStepTypes ==
    ASSUME Typed, Adbd \/ UserAccepts \/ CableIsCut
    PROVE  Typed'
<1> USE DEF Typed
<1>0. nextRemote \in Nat \ {0} /\ streams \subseteq Streams
  BY DEF DeviceTyped
<1>a. ASSUME UNCHANGED host, Grown PROVE HostTyped'
  BY <1>a, HostKept
<1>b. ASSUME UNCHANGED <<transport, strayed, ops>>,
             faults' = faults \/ (faults < MaxFaults /\ faults' = faults + 1)
      PROVE  BoundsTyped'
  BY <1>b, AdbAssumption DEF BoundsTyped
<1>c. ASSUME nextRemote' = nextRemote PROVE Grown /\ UNCHANGED <<ForHost, Streams>>
  BY <1>c, NextStream
<1>1. CASE DeviceReceives
  <2>1. PICK m : m = Head(toDev)
    OBVIOUS
  <2>2. m \in ForDevice /\ toDev' \in Seq(ForDevice)
    BY <1>1, <2>1, HeadTailProperties DEF DeviceReceives, WireTyped
  <2>3. CASE DeviceGreets(m) /\ UNCHANGED <<streams, nextRemote, delivered>>
    <3>1. /\ toHost' \in Seq(ForHost) /\ greeting' \in Greetings \cup {"open", "unknown"}
          /\ {online', asked'} \subseteq BOOLEAN
      BY <2>3, GreetsTypes
    <3>2. WireTyped'
      BY <1>1, <1>c, <2>2, <2>3, <3>1, ConstantTypes DEF DeviceReceives, WireTyped
    <3>3. DeviceTyped'
      BY <1>c, <2>3, <3>1 DEF DeviceTyped
    <3> QED BY <1>1, <1>a, <1>b, <1>c, <2>3, <3>2, <3>3 DEF DeviceReceives
  <2>4. CASE DeviceTakes(m) /\ UNCHANGED <<greeting, online, asked>>
    <3>1. /\ Grown /\ toHost' \in Seq(ForHost') /\ streams' \subseteq Streams'
          /\ delivered' \subseteq Seq(Asked)
      BY <2>2, <2>4, DeviceTakesTypes
    <3>2. WireTyped'
      BY <1>1, <2>2, <3>1, ConstantTypes DEF DeviceReceives, WireTyped
    <3>3. nextRemote' \in Nat \ {0}
      BY <3>1 DEF Grown
    <3>4. DeviceTyped'
      BY <2>4, <3>1, <3>3 DEF DeviceTyped
    <3> QED BY <1>1, <1>a, <1>b, <3>1, <3>2, <3>4 DEF DeviceReceives
  <2> QED BY <1>1, <2>1, <2>3, <2>4 DEF DeviceReceives
<1>2. CASE UserAccepts
  <2>1. <<[type |-> "CNXN"]>> \in Seq(ForHost)
    BY <1>0, RepliedIs
  <2>2. toHost' \in Seq(ForHost')
    BY <1>2, <1>c, <2>1, RepliesTypes DEF UserAccepts, Authorises
  <2>3. WireTyped'
    BY <1>2, <2>2, ConstantTypes DEF UserAccepts, WireTyped
  <2>4. DeviceTyped'
    BY <1>2, <1>c DEF UserAccepts, Authorises, DeviceTyped
  <2> QED BY <1>2, <1>a, <1>b, <1>c, <2>3, <2>4 DEF UserAccepts
<1>3. CASE DeviceWrites
  <2>1. PICK s \in streams :
              /\ s.ready /\ s.out # <<>>
              /\ Replies(<<Write(s.remote, s.local, Head(s.out))>>)
              /\ streams' = (streams \ {s}) \cup {[s EXCEPT !.ready = FALSE, !.out = Tail(@)]}
    BY <1>3 DEF DeviceWrites
  <2>2. s \in Streams /\ s.out \in Seq(Piece) /\ s.remote \in 1 .. nextRemote - 1 /\ s.local \in Nat
    BY <1>0 DEF Streams
  <2>3. Head(s.out) \in Piece /\ Tail(s.out) \in Seq(Piece)
    BY <2>1, <2>2, HeadTailProperties
  <2>4. [s EXCEPT !.ready = FALSE, !.out = Tail(@)] \in Streams
    BY <2>2, <2>3 DEF Streams
  <2>5. <<Write(s.remote, s.local, Head(s.out))>> \in Seq(ForHost)
    <3>1. s.remote \in 0 .. nextRemote - 1
      BY <1>0, <2>2
    <3> QED BY <1>0, <2>2, <2>3, <3>1, RepliedIs
  <2>6. Grown /\ UNCHANGED <<ForHost, Streams>>
    BY <1>3, <1>c DEF DeviceWrites
  <2>7. WireTyped'
    BY <1>3, <2>1, <2>5, <2>6, RepliesTypes, ConstantTypes DEF DeviceWrites, WireTyped
  <2>8. DeviceTyped'
    BY <1>3, <2>1, <2>4, <2>6 DEF DeviceWrites, DeviceTyped
  <2> QED BY <1>3, <1>a, <1>b, <2>6, <2>7, <2>8 DEF DeviceWrites
<1>4. CASE CommandEnds
  <2>1. PICK s \in streams : /\ Replies(<<Packet("CLSE", s.remote, s.local)>>)
                             /\ streams' = streams \ {s}
    BY <1>4 DEF CommandEnds
  <2>2. s.remote \in 1 .. nextRemote - 1 /\ s.local \in Nat
    BY <1>0 DEF Streams
  <2>3. <<Packet("CLSE", s.remote, s.local)>> \in Seq(ForHost)
    <3>1. s.remote \in 0 .. nextRemote - 1
      BY <1>0, <2>2
    <3> QED BY <1>0, <2>2, <3>1, RepliedIs
  <2>4. Grown /\ UNCHANGED <<ForHost, Streams>>
    BY <1>4, <1>c DEF CommandEnds
  <2>5. WireTyped'
    BY <1>4, <2>1, <2>3, <2>4, RepliesTypes, ConstantTypes DEF CommandEnds, WireTyped
  <2>6. DeviceTyped'
    BY <1>4, <2>1, <2>4 DEF CommandEnds, DeviceTyped
  <2> QED BY <1>4, <1>a, <1>b, <2>4, <2>5, <2>6 DEF CommandEnds
<1>5. CASE CableIsCut
  <2>1. WireTyped' /\ DeviceTyped' /\ Grown
    BY <1>5, GoesTypes DEF CableIsCut
  <2> QED BY <1>5, <1>a, <1>b, <2>1 DEF CableIsCut, Goes
<1> QED BY <1>1, <1>2, <1>3, <1>4, <1>5 DEF Adbd

LEMMA TypedStep == Typed /\ [Next]_vars => Typed'
<1>1. Typed /\ UNCHANGED vars => Typed'
  <2> SUFFICES ASSUME Typed, UNCHANGED vars PROVE Typed'
    OBVIOUS
  <2>1. UNCHANGED host /\ Grown /\ UNCHANGED <<ForHost, Streams>>
    BY NextStream DEF vars, device, Typed
  <2>2. HostTyped'
    BY <2>1, HostKept DEF Typed
  <2> QED BY <2>1, <2>2, ConstantTypes
        DEF vars, wire, device, Typed, WireTyped, DeviceTyped, BoundsTyped
<1> QED BY <1>1, HostStepTypes, DeviceStepTypes DEF Next

LEMMA TypedInvariant == Spec => []Typed
<1>1. Init => Typed
  <2> SUFFICES ASSUME Init PROVE Typed
    OBVIOUS
  <2>1. <<>> \in Seq(Piece) /\ <<>> \in Seq(ForDevice) /\ <<>> \in Seq(ForHost)
    OBVIOUS
  <2>2. 0 \in 0 .. PushLength /\ {0} \subseteq 0 .. MaxPolls /\ {0} \subseteq 0 .. MaxOps
        /\ {0} \subseteq 0 .. MaxFaults
    BY PushLengthIs, AdbAssumption
  <2>3. HostTyped
    <3>1. stream \in [local : Nat, remote : 0 .. nextRemote - 1] /\ stream.local < nextId
      BY DEF Init
    <3>2. op \in Operations /\ outcome.value = "none"
      BY DEF Init, Operations
    <3> QED BY <2>1, <2>2, <3>1, <3>2 DEF Init, HostTyped, Handshaking, Busy
  <2>4. DeviceTyped
    <3>1. nextRemote \in Nat \ {0} /\ streams \subseteq Streams /\ delivered \subseteq Seq(Asked)
      BY DEF Init
    <3>2. greeting \in Greetings \cup {"open", "unknown"} /\ {online, asked} \subseteq BOOLEAN
      BY DEF Init
    <3> QED BY <3>1, <3>2 DEF DeviceTyped
  <2> QED BY <2>1, <2>2, <2>3, <2>4 DEF Init, Typed, WireTyped, BoundsTyped
<1> QED BY <1>1, TypedStep, PTL DEF Spec

\* Every variable of the connection keeps its type (TypeOK of AdbSession): ids are
\* those that were given out, whatever packets cross.
THEOREM SessionTypes == Spec => []TypeOK
<1>1. Typed => TypeOK
  <2> SUFFICES ASSUME Typed PROVE TypeOK
    OBVIOUS
  <2>1. op.kind \in Kinds \cup {"props"} /\ op.n \in 0 .. MaxOps
    BY OperationIs DEF Typed, HostTyped
  <2>2. stream.remote < nextRemote
    BY DEF Typed, HostTyped, DeviceTyped
  <2>3. got \in Seq((0 .. MaxOps) \X Nat)
    BY DEF Typed, HostTyped, Piece
  <2>4. delivered \subseteq Seq((1 .. MaxOps) \X Parts \X Nat)
    BY DEF Typed, DeviceTyped, Asked
  <2> QED BY <2>1, <2>2, <2>3, <2>4
        DEF TypeOK, Typed, HostTyped, WireTyped, DeviceTyped, BoundsTyped, Handshaking
<1> QED BY <1>1, TypedInvariant, PTL

(* ------------------------- packets in sequences ------------------------- *)

\* One more packet behind the others.
LEMMA OneMore ==
    ASSUME NEW S, NEW q \in Seq(S), NEW m
    PROVE  /\ q \o <<m>> \in Seq(S \cup {m}) /\ Len(q \o <<m>>) = Len(q) + 1
           /\ \A i \in 1 .. Len(q) : (q \o <<m>>)[i] = q[i]
           /\ (q \o <<m>>)[Len(q) + 1] = m
<1>1. q \in Seq(S \cup {m}) /\ <<m>> \in Seq(S \cup {m}) /\ Len(<<m>>) = 1 /\ <<m>>[1] = m
  BY SeqMonotonic
<1>2. PICK r : r = <<m>>
  OBVIOUS
<1>3. /\ q \o r \in Seq(S \cup {m}) /\ Len(q \o r) = Len(q) + Len(r)
      /\ \A i \in 1 .. Len(q) + Len(r) : (q \o r)[i] = IF i <= Len(q) THEN q[i] ELSE r[i - Len(q)]
  BY <1>1, <1>2, ConcatProperties
<1>4. Len(q) \in Nat /\ Len(r) = 1
  BY <1>1, <1>2, LenProperties
<1>5. \A i \in 1 .. Len(q) : (q \o r)[i] = q[i]
  BY <1>3, <1>4
<1>6. (q \o r)[Len(q) + 1] = m
  <2>1. (q \o r)[Len(q) + 1] = r[(Len(q) + 1) - Len(q)]
    BY <1>3, <1>4
  <2> QED BY <1>1, <1>2, <1>4, <2>1
<1> QED BY <1>2, <1>3, <1>4, <1>5, <1>6

LEMMA OnlyOneMore ==
    ASSUME NEW S, NEW q \in Seq(S), NEW m, NEW types, Only(q, types), m.type \in types
    PROVE  Only(q \o <<m>>, types)
<1>1. PICK r : r = q \o <<m>>
  OBVIOUS
<1>2. /\ r \in Seq(S \cup {m}) /\ Len(r) = Len(q) + 1 /\ Len(q) \in Nat
      /\ \A i \in 1 .. Len(q) : r[i] = q[i]
      /\ r[Len(q) + 1] = m
  BY <1>1, OneMore, LenProperties
<1>3. DOMAIN r = 1 .. Len(q) + 1 /\ DOMAIN q = 1 .. Len(q)
  BY <1>2
<1>4. ASSUME NEW i \in DOMAIN r PROVE r[i].type \in types
  <2>1. i \in 1 .. Len(q) \/ i = Len(q) + 1
    BY <1>2, <1>3
  <2> QED BY <1>2, <1>3, <2>1 DEF Only
<1> QED BY <1>1, <1>4 DEF Only

LEMMA OnlyNone ==
    ASSUME NEW S, NEW q \in Seq(S)
    PROVE  q \o <<>> = q
BY ConcatEmptySeq

LEMMA OnlyTail ==
    ASSUME NEW S, NEW q \in Seq(S), q # <<>>, NEW types, Only(q, types)
    PROVE  Head(q).type \in types /\ Only(Tail(q), types)
<1>1. /\ Head(q) = q[1] /\ Tail(q) \in Seq(S) /\ Len(Tail(q)) = Len(q) - 1 /\ Len(q) \in Nat \ {0}
      /\ \A i \in 1 .. Len(Tail(q)) : Tail(q)[i] = q[i + 1]
  BY HeadTailProperties, EmptySeq, LenProperties
<1>2. DOMAIN q = 1 .. Len(q) /\ DOMAIN Tail(q) = 1 .. Len(q) - 1
  BY <1>1
<1>3. 1 \in DOMAIN q /\ \A i \in DOMAIN Tail(q) : i + 1 \in DOMAIN q
  BY <1>1, <1>2
<1>4. \A i \in DOMAIN Tail(q) : Tail(q)[i].type \in types
  BY <1>1, <1>2, <1>3 DEF Only
<1> QED BY <1>1, <1>3, <1>4 DEF Only

(* ------------------------- authorised, proved --------------------------- *)

\* A connection is made by a CNXN and nothing else.
LEMMA ConnectedBy ==
    ASSUME NEW m, Handles(m), HostTyped
    PROVE  connected' => connected \/ m.type = "CNXN"
BY DEF Handles, CnxnAnswered, SignatureAnswered, Polled, OpenAnswered, ShellReads, PullReads,
       PushReads, Accepted, ConnectFails, HandshakeGoesOn, Returns, Leaves, Takes, Waits, HostTyped

\* What the device sends, when it is not yet online, is no CNXN.
LEMMA NotYet ==
    ASSUME WireTyped, NEW m, Replies(<<m>>), NEW types, Only(toHost, types), m.type \in types
    PROVE  Only(toHost', types)
BY OnlyOneMore DEF Replies, WireTyped

LEMMA AuthorisedStep == ASSUME Typed, Authorised, [Next]_vars PROVE Authorised'
<1> DEFINE Other == {"AUTH", "STLS", "OKAY", "CLSE", "WRTE"}
<1>0. HostTyped /\ WireTyped /\ toHost \in Seq(ForHost)
  BY DEF Typed, WireTyped
<1>a. Only(<<>>, Other)
  BY DEF Only
<1>b. ASSUME UNCHANGED <<connected, online, toHost>> PROVE Authorised'
  BY <1>b DEF Authorised
<1>c. ASSUME connected' => connected, online' = online, toHost' = <<>> PROVE Authorised'
  BY <1>a, <1>c DEF Authorised
<1>1. CASE ReceivePacket
  <2>1. toHost # <<>> /\ toHost' = Tail(toHost) /\ Handles(Head(toHost)) /\ online' = online
    BY <1>1 DEF ReceivePacket, device
  <2>2. ~online => Head(toHost).type \in Other /\ Only(Tail(toHost), Other)
    BY <1>0, <2>1, OnlyTail DEF Authorised
  <2>3. connected' => connected \/ Head(toHost).type = "CNXN"
    BY <1>0, <2>1, ConnectedBy
  <2> QED BY <2>1, <2>2, <2>3 DEF Authorised
<1>2. CASE ReadTimesOut
  <2>1. connected' => connected
    BY <1>0, <1>2, ConnectedBy DEF ReadTimesOut, Nothing
  <2> QED BY <1>2, <2>1 DEF ReadTimesOut, device, Authorised
<1>3. CASE SendFile \/ LinkIsGone \/ Connect \/ Cancel
  <2>1. online' = online /\ toHost' = toHost /\ (connected' => connected)
    BY <1>0, <1>3 DEF SendFile, LinkIsGone, ConnectFails, Returns, Connect, HandshakeGoesOn,
                      Cancel, device, wire, HostTyped
  <2> QED BY <2>1 DEF Authorised
<1>4. CASE Disconnect \/ CableIsCut
  BY <1>4, <1>c DEF Disconnect, CableIsCut, Goes, host
<1>5. ASSUME NEW k, NEW size, Operation(k, size) PROVE Authorised'
  <2>1. online' = online /\ toHost' = toHost /\ (connected' => connected)
    BY <1>0, <1>5 DEF Operation, device, HostTyped
  <2> QED BY <2>1 DEF Authorised
<1>6. CASE DeviceReceives
  <2>1. PICK m : m = Head(toDev)
    OBVIOUS
  <2>2. connected' = connected
    BY <1>6 DEF DeviceReceives, host
  <2>3. CASE DeviceGreets(m)
    <3>1. \/ Authorises
          \/ online' = online /\ \E t \in Other : Replies(<<[type |-> t]>>)
          \/ UNCHANGED <<online, toHost>>
      BY <2>3 DEF DeviceGreets
    <3>2. ASSUME online' = online, NEW t \in Other, Replies(<<[type |-> t]>>) PROVE Authorised'
      BY <1>0, <2>2, <3>2, NotYet DEF Authorised
    <3> QED BY <1>b, <2>2, <3>1, <3>2 DEF Authorises, Authorised
  <2>4. CASE DeviceTakes(m) /\ online' = online
    <3>1. \/ toHost' = toHost \/ Replies(<<>>)
          \/ \E t \in {"OKAY", "CLSE"} : \E l, r : Replies(<<Packet(t, l, r)>>)
      BY <2>4 DEF DeviceTakes, DeviceOpens
    <3>2. ASSUME NEW t \in {"OKAY", "CLSE"}, NEW l, NEW r, Replies(<<Packet(t, l, r)>>)
          PROVE  Authorised'
      BY <1>0, <2>2, <2>4, <3>2, NotYet DEF Authorised, Packet
    <3>3. Replies(<<>>) => toHost' = toHost
      BY <1>0, OnlyNone DEF Replies
    <3> QED BY <1>b, <2>2, <2>4, <3>1, <3>2, <3>3
  <2> QED BY <1>6, <2>1, <2>3, <2>4 DEF DeviceReceives
<1>7. CASE UserAccepts
  BY <1>7 DEF UserAccepts, Authorises, Authorised
<1>8. CASE DeviceWrites
  <2>1. PICK s \in streams : Replies(<<Write(s.remote, s.local, Head(s.out))>>)
    BY <1>8 DEF DeviceWrites
  <2> QED BY <1>0, <1>8, <2>1, NotYet DEF DeviceWrites, host, Write, Authorised
<1>9. CASE CommandEnds
  <2>1. PICK s \in streams : Replies(<<Packet("CLSE", s.remote, s.local)>>)
    BY <1>9 DEF CommandEnds
  <2> QED BY <1>0, <1>9, <2>1, NotYet DEF CommandEnds, host, Packet, Authorised
<1>10. CASE UNCHANGED vars
  BY <1>b, <1>10 DEF vars, host, wire, device
<1> QED BY <1>1, <1>2, <1>3, <1>4, <1>5, <1>6, <1>7, <1>8, <1>9, <1>10
      DEF Next, Caller, Client, Adbd

\* The client holds itself connected only with a device that has taken it for
\* authorised (ConnectedIsAuthorised of AdbSession): no second challenge, no read
\* that timed out and no last poll of AdbClient.ConnectAsync is taken for a CNXN,
\* with any number of polls.
THEOREM OnlyAuthorised == Spec => []ConnectedIsAuthorised
<1>1. Init => Authorised
  BY DEF Init, Authorised, Only
<1>2. Typed /\ Authorised /\ [Next]_vars => Authorised'
  BY AuthorisedStep
<1>3. Authorised => ConnectedIsAuthorised
  BY DEF Authorised, ConnectedIsAuthorised
<1> QED BY <1>1, <1>2, <1>3, TypedInvariant, PTL DEF Spec

(* ---------------------------- the flow of output ------------------------ *)

\* The device writes the next piece.
LEMMA FlowWrites ==
    ASSUME NEW o, o.size \in Nat, NEW S, NEW q \in Seq(S), NEW g \in Nat,
           NEW ss, Flow(o, ss, q, g), NEW s \in ss, s.out \in Seq(Piece), s.out # <<>>,
           NEW t, t.op = s.op, t.out = Tail(s.out),
           NEW m, m.type = "WRTE", m.data = Head(s.out)
    PROVE  Flow(o, (ss \ {s}) \cup {t}, q \o <<m>>, g)
<1>1. /\ ss = {s} /\ s.op = o /\ Run(o, q, Len(q), g)
      /\ Len(s.out) = o.size - (g + Len(q))
      /\ \A i \in 1 .. Len(s.out) : s.out[i] = <<o.n, (g + Len(q)) + i>>
  BY DEF Flow, Remains
<1>2. PICK r : r = q \o <<m>>
  OBVIOUS
<1>3. /\ Len(r) = Len(q) + 1 /\ Len(q) \in Nat /\ \A i \in 1 .. Len(q) : r[i] = q[i]
      /\ r[Len(q) + 1] = m
  BY <1>2, OneMore, LenProperties
<1>4. PICK out \in Seq(Piece) : out = s.out
  OBVIOUS
<1>5. /\ Head(out) = out[1] /\ Len(Tail(out)) = Len(out) - 1 /\ Len(out) \in Nat \ {0}
      /\ \A i \in 1 .. Len(Tail(out)) : Tail(out)[i] = out[i + 1]
  BY <1>4, HeadTailProperties, EmptySeq, LenProperties
<1>6. Run(o, r, Len(r), g)
  <2>1. ASSUME NEW i \in 1 .. Len(q) + 1 PROVE r[i].type = "WRTE" /\ r[i].data = <<o.n, g + i>>
    <3>1. CASE i \in 1 .. Len(q)
      BY <1>1, <1>3, <3>1 DEF Run
    <3>2. CASE i = Len(q) + 1
      <4>1. m.data = <<o.n, (g + Len(q)) + 1>>
        BY <1>1, <1>4, <1>5
      <4>2. (g + Len(q)) + 1 = g + i
        BY <1>3, <3>2
      <4> QED BY <1>3, <3>2, <4>1, <4>2
    <3> QED BY <1>3, <3>1, <3>2
  <2> QED BY <1>3, <2>1 DEF Run
<1>7. Remains(o, t.out, g + Len(r))
  <2>1. Len(Tail(out)) = o.size - (g + (Len(q) + 1))
    <3>1. PICK size \in Nat : size = o.size
      OBVIOUS
    <3>2. Len(out) = size - (g + Len(q)) /\ Len(out) \in Nat /\ Len(Tail(out)) = Len(out) - 1
      BY <1>1, <1>4, <1>5, <3>1
    <3>3. Len(q) \in Nat
      BY <1>3
    <3> QED BY <3>1, <3>2, <3>3
  <2>2. ASSUME NEW i \in 1 .. Len(Tail(out))
        PROVE  Tail(out)[i] = <<o.n, (g + (Len(q) + 1)) + i>>
    <3>1. i + 1 \in 1 .. Len(out) /\ Tail(out)[i] = out[i + 1]
      BY <1>5
    <3>2. out[i + 1] = <<o.n, (g + Len(q)) + (i + 1)>>
      BY <1>1, <1>4, <3>1
    <3> QED BY <1>3, <3>1, <3>2
  <2> QED BY <1>3, <1>4, <2>1, <2>2 DEF Remains
<1>8. (ss \ {s}) \cup {t} = {t}
  BY <1>1
<1> QED BY <1>1, <1>2, <1>6, <1>7, <1>8 DEF Flow

\* It ends the stream when all is written.
LEMMA FlowEnds ==
    ASSUME NEW o, o.size \in Nat, NEW S, NEW q \in Seq(S), NEW g \in Nat,
           NEW ss, Flow(o, ss, q, g), NEW s \in ss, s.out = <<>>, NEW m, m.type = "CLSE"
    PROVE  Flow(o, ss \ {s}, q \o <<m>>, g)
<1>1. ss = {s} /\ Run(o, q, Len(q), g) /\ 0 = o.size - (g + Len(q))
  BY DEF Flow, Remains
<1>2. PICK r : r = q \o <<m>>
  OBVIOUS
<1>3. /\ Len(r) = Len(q) + 1 /\ Len(q) \in Nat /\ \A i \in 1 .. Len(q) : r[i] = q[i]
      /\ r[Len(q) + 1] = m /\ r # <<>>
  BY <1>2, OneMore, LenProperties
<1>4. Len(r) - 1 = Len(q)
  BY <1>3
<1>5. Run(o, r, Len(r) - 1, g)
  BY <1>1, <1>3, <1>4 DEF Run
<1>6. g + Len(r) - 1 = o.size
  BY <1>1, <1>3
<1> QED BY <1>1, <1>2, <1>3, <1>5, <1>6 DEF Flow

\* The host reads the next piece, or the end.
LEMMA FlowReads ==
    ASSUME NEW o, o.size \in Nat, NEW S, NEW q \in Seq(S), q # <<>>, NEW g \in Nat,
           NEW ss, Flow(o, ss, q, g)
    PROVE  \/ /\ Head(q).type = "WRTE" /\ Head(q).data = <<o.n, g + 1>>
              /\ Flow(o, ss, Tail(q), g + 1)
           \/ Head(q).type = "CLSE" /\ Tail(q) = <<>> /\ ss = {} /\ g = o.size
<1>1. /\ Head(q) = q[1] /\ Tail(q) \in Seq(S) /\ Len(Tail(q)) = Len(q) - 1 /\ Len(q) \in Nat \ {0}
      /\ \A i \in 1 .. Len(Tail(q)) : Tail(q)[i] = q[i + 1]
  BY HeadTailProperties, EmptySeq, LenProperties
<1>2. PICK r \in Seq(S) : r = Tail(q)
  BY <1>1
<1>3. ASSUME NEW n \in 1 .. Len(q), Run(o, q, n, g)
      PROVE  /\ Head(q).type = "WRTE" /\ Head(q).data = <<o.n, g + 1>>
             /\ Run(o, r, n - 1, g + 1)
  <2>1. 1 \in 1 .. n /\ n \in Nat
    BY <1>1, <1>3
  <2>2. ASSUME NEW i \in 1 .. n - 1 PROVE r[i].type = "WRTE" /\ r[i].data = <<o.n, (g + 1) + i>>
    <3>1. i + 1 \in 1 .. n /\ r[i] = q[i + 1]
      BY <1>1, <1>2, <2>1
    <3>2. q[i + 1].type = "WRTE" /\ q[i + 1].data = <<o.n, g + (i + 1)>>
      BY <1>3, <3>1 DEF Run
    <3> QED BY <3>1, <3>2
  <2>3. q[1].type = "WRTE" /\ q[1].data = <<o.n, g + 1>>
    BY <1>3, <2>1 DEF Run
  <2> QED BY <1>1, <2>2, <2>3 DEF Run
<1>4. CASE /\ Run(o, q, Len(q), g)
           /\ \E s \in ss : ss = {s} /\ s.op = o /\ Remains(o, s.out, g + Len(q))
  <2>1. Len(q) \in 1 .. Len(q) /\ Len(r) = Len(q) - 1 /\ (g + 1) + Len(r) = g + Len(q)
    BY <1>1, <1>2
  <2> QED BY <1>2, <1>3, <1>4, <2>1 DEF Flow
<1>5. CASE /\ Run(o, q, Len(q) - 1, g) /\ q[Len(q)].type = "CLSE"
           /\ ss = {} /\ g + Len(q) - 1 = o.size
  <2>1. CASE Len(q) = 1
    <3>1. Tail(q) = <<>>
      <4>1. Len(r) = 0 /\ r \in Seq(S)
        BY <1>1, <1>2, <2>1
      <4> QED BY <1>2, <4>1, EmptySeq
    <3>2. g = o.size
      BY <1>5, <2>1
    <3> QED BY <1>1, <1>5, <2>1, <3>1, <3>2
  <2>2. CASE Len(q) # 1
    <3>1. /\ Len(q) - 1 \in 1 .. Len(q) /\ Len(r) = Len(q) - 1 /\ Len(r) \in 1 .. Len(r)
          /\ (Len(q) - 1) - 1 = Len(r) - 1 /\ (g + 1) + Len(r) - 1 = o.size
      BY <1>1, <1>2, <1>5, <2>2
    <3>2. r[Len(r)] = q[Len(q)] /\ r # <<>>
      <4>1. Len(r) + 1 = Len(q)
        BY <1>1, <3>1
      <4>2. r[Len(r)] = q[Len(r) + 1]
        BY <1>1, <1>2, <3>1
      <4>3. r # <<>>
        BY <3>1, <1>1, <2>2
      <4> QED BY <4>1, <4>2, <4>3
    <3>3. /\ Head(q).type = "WRTE" /\ Head(q).data = <<o.n, g + 1>>
          /\ Run(o, r, Len(r) - 1, g + 1)
      BY <1>3, <1>5, <3>1
    <3> QED BY <1>2, <1>5, <3>1, <3>2, <3>3 DEF Flow
  <2> QED BY <2>1, <2>2
<1> QED BY <1>4, <1>5 DEF Flow

\* An acknowledgement changes nothing of what is still to come.
LEMMA FlowKept ==
    ASSUME NEW o, NEW q, NEW g, NEW ss, Flow(o, ss, q, g),
           NEW s \in ss, NEW t, t.op = s.op, t.out = s.out
    PROVE  Flow(o, (ss \ {s}) \cup {t}, q, g)
<1>1. CASE /\ Run(o, q, Len(q), g)
           /\ \E u \in ss : ss = {u} /\ u.op = o /\ Remains(o, u.out, g + Len(q))
  <2>1. ss = {s} /\ (ss \ {s}) \cup {t} = {t}
    BY <1>1
  <2> QED BY <1>1, <2>1 DEF Flow
<1> QED BY <1>1 DEF Flow

(* ---------------------------- in step, proved --------------------------- *)

\* What was left behind stays so, and a connection that is gone stays gone.
LEMMA NeverBack ==
    ASSUME Typed, [Next]_vars
    PROVE  (strayed => strayed') /\ (link' = "up" => link = "up")
<1>0. link \in {"up", "gone"} /\ strayed \in BOOLEAN
  BY DEF Typed, WireTyped, BoundsTyped
<1>1. ASSUME NEW m, Handles(m) PROVE strayed => strayed'
  BY <1>1 DEF Handles, OpenAnswered, ShellReads, PullReads, PushReads, Takes, Leaves
<1>2. CASE Caller
  <2>1. Connect => UNCHANGED <<link, strayed>>
    BY DEF Connect
  <2>2. Disconnect => strayed' = strayed /\ link' = "gone"
    BY DEF Disconnect, Goes
  <2>3. Cancel => strayed' = TRUE /\ link' = link
    BY DEF Cancel, wire
  <2>4. \A k, size : Operation(k, size) => UNCHANGED <<link, strayed>>
    BY DEF Operation
  <2> QED BY <1>2, <2>1, <2>2, <2>3, <2>4 DEF Caller
<1>3. CASE Client \/ ReadTimesOut
  <2>1. ReceivePacket \/ ReadTimesOut => link' = link /\ (strayed => strayed')
    BY <1>1 DEF ReceivePacket, ReadTimesOut
  <2> QED BY <1>3, <2>1 DEF Client, SendFile, LinkIsGone
<1>4. CASE Adbd \/ UserAccepts \/ CableIsCut
  <2>1. Adbd \/ UserAccepts => UNCHANGED <<link, strayed>>
    BY DEF Adbd, DeviceReceives, DeviceWrites, CommandEnds, UserAccepts
  <2>2. CableIsCut => strayed' = strayed /\ link' = "gone"
    BY DEF CableIsCut, Goes
  <2> QED BY <1>4, <2>1, <2>2
<1>5. CASE UNCHANGED vars
  BY <1>5 DEF vars, wire
<1> QED BY <1>2, <1>3, <1>4, <1>5 DEF Next

LEMMA LenOne ==
    ASSUME NEW S, NEW q \in Seq(S), q # <<>>, Len(q) <= 1
    PROVE  q = <<Head(q)>> /\ Tail(q) = <<>> /\ q[Len(q)] = Head(q)
<1>1. Len(q) \in Nat \ {0}
  BY EmptySeq
<1>2. Len(q) = 1
  BY <1>1
<1>3. Head(q) = q[1] /\ q[1] \in S /\ Tail(q) \in Seq(S) /\ Len(Tail(q)) = 0
  BY <1>2, HeadTailProperties
<1>4. <<q[1]>> \in Seq(S) /\ Len(<<q[1]>>) = 1 /\ <<q[1]>>[1] = q[1]
  BY <1>3
<1>5. q = <<q[1]>>
  BY <1>2, <1>4, SeqEqual
<1>6. Tail(q) = <<>>
  BY <1>3, EmptySeq
<1> QED BY <1>2, <1>3, <1>5, <1>6

\* An OPEN goes out behind acknowledgements.
LEMMA OpensInStep ==
    ASSUME Typed, NEW o, Opens(o), link = "up", UNCHANGED <<link, device, strayed>>,
           Only(toDev, {"OKAY"}), toHost' = <<>>, streams = {}, ~asked
    PROVE  InStep'
<1>1. /\ pc' = "open" /\ op' = o /\ got' = <<>> /\ stream' = [local |-> nextId, remote |-> 0]
      /\ toDev' = toDev \o <<Open(nextId, o)>>
  BY DEF Opens, Sends
<1>2. toDev \in Seq(ForDevice)
  BY DEF Typed, WireTyped
<1>3. PICK m : m = Open(nextId, o)
  OBVIOUS
<1>4. /\ toDev' \in Seq(ForDevice \cup {m}) /\ Len(toDev') = Len(toDev) + 1 /\ Len(toDev) \in Nat
      /\ \A i \in 1 .. Len(toDev) : toDev'[i] = toDev[i]
      /\ toDev'[Len(toDev) + 1] = m
  BY <1>1, <1>2, <1>3, OneMore, LenProperties
<1>5. toDev' # <<>> /\ toDev'[Len(toDev')] = Open(stream'.local, op')
  BY <1>1, <1>3, <1>4
<1>6. \A i \in 1 .. Len(toDev') - 1 : toDev'[i].type = "OKAY"
  <2>1. Len(toDev') - 1 = Len(toDev) /\ DOMAIN toDev = 1 .. Len(toDev)
    BY <1>2, <1>4
  <2> QED BY <1>4, <2>1 DEF Only
<1>7. streams' = {} /\ asked' = asked
  BY DEF device
<1>8. OpenIsSent'
  BY <1>5, <1>6, <1>7 DEF OpenIsSent, Open
<1> QED BY <1>1, <1>7, <1>8 DEF InStep, Opening, Handshaking, Busy

\* The handshake goes on, with one packet or none.
LEMMA HandshakeInStep ==
    ASSUME Typed, Greeting, toHost' = <<>>, link = "up", UNCHANGED <<link, device, strayed>>,
           NEW l \in {"cnxn", "signature", "polls"},
           \/ toDev = <<>> /\ ~asked
                /\ \E t \in {"CNXN", "SIGNATURE", "KEY"} : HandshakeGoesOn(l, <<[type |-> t]>>)
           \/ HandshakeGoesOn(l, <<>>)
    PROVE  InStep'
<1>0. toDev \in Seq(ForDevice) /\ toHost \in Seq(ForHost) /\ asked \in BOOLEAN
  BY DEF Typed, WireTyped, DeviceTyped
<1>1. pc' = l /\ streams' = {} /\ asked' = asked
  BY DEF HandshakeGoesOn, Greeting, device
<1>2. CASE \E t \in {"CNXN", "SIGNATURE", "KEY"} : toDev = <<>> /\ ~asked
                 /\ HandshakeGoesOn(l, <<[type |-> t]>>)
  <2>1. PICK t \in {"CNXN", "SIGNATURE", "KEY"} : HandshakeGoesOn(l, <<[type |-> t]>>)
    BY <1>2
  <2>2. toDev' = <<>> \o <<[type |-> t]>>
    BY <1>2, <2>1 DEF HandshakeGoesOn, Sends
  <2>3. toDev' = <<[type |-> t]>>
    BY <2>2
  <2>4. Only(toDev', {"CNXN", "SIGNATURE", "KEY"}) /\ Len(toDev') = 1
    BY <2>3 DEF Only
  <2>5. Only(toHost', {"CNXN", "AUTH", "STLS"}) /\ Len(toHost') = 0
    BY DEF Only
  <2>6. Greeting'
    BY <1>1, <1>2, <2>4, <2>5 DEF Greeting
  <2> QED BY <1>1, <2>6 DEF InStep, Handshaking, Busy
<1>3. CASE HandshakeGoesOn(l, <<>>)
  <2>1. toDev' = toDev
    BY <1>0, <1>3, OnlyNone DEF HandshakeGoesOn, Sends
  <2>2. Only(toHost', {"CNXN", "AUTH", "STLS"}) /\ Len(toHost') = 0
    BY DEF Only
  <2>3. Len(toDev) \in Nat /\ Len(toHost) \in Nat
    BY <1>0, LenProperties
  <2>4. Len(toDev') + Len(toHost') <= IF asked' THEN 0 ELSE 1
    BY <1>0, <1>1, <2>1, <2>2, <2>3 DEF Greeting
  <2>5. Greeting'
    BY <1>1, <2>1, <2>2, <2>4 DEF Greeting
  <2> QED BY <1>1, <2>5 DEF InStep, Handshaking, Busy
<1> QED BY <1>2, <1>3

LEMMA GreetingReadInStep ==
    ASSUME Typed, Greeting, toHost' = <<>>, link = "up", UNCHANGED <<link, device, strayed>>,
           NEW m, m = Nothing \/ (toDev = <<>> /\ ~asked),
           \/ pc = "cnxn" /\ CnxnAnswered(m)
           \/ pc = "signature" /\ SignatureAnswered(m)
           \/ pc = "polls" /\ Polled(m)
    PROVE  InStep'
<1>1. Nothing.type = "none"
  BY DEF Nothing
<1>2. \/ ConnectFails
      \/ HandshakeGoesOn("polls", <<>>)
      \/ Accepted /\ m.type = "CNXN"
      \/ /\ m.type # "none"
         /\ \E l \in {"cnxn", "signature", "polls"}, t \in {"CNXN", "SIGNATURE", "KEY"} :
               HandshakeGoesOn(l, <<[type |-> t]>>)
  BY <1>1 DEF CnxnAnswered, SignatureAnswered, Polled
<1>3. CASE ConnectFails
  BY <1>3 DEF ConnectFails, InStep, Handshaking, Busy
<1>4. CASE HandshakeGoesOn("polls", <<>>)
  BY <1>4, HandshakeInStep
<1>5. CASE Accepted /\ m.type = "CNXN"
  <2>1. toDev = <<>> /\ ~asked /\ Only(toDev, {"OKAY"}) /\ streams = {}
    BY <1>1, <1>5 DEF Only, Greeting
  <2> QED BY <1>5, <2>1, OpensInStep DEF Accepted
<1>6. CASE /\ m.type # "none"
           /\ \E l \in {"cnxn", "signature", "polls"}, t \in {"CNXN", "SIGNATURE", "KEY"} :
                 HandshakeGoesOn(l, <<[type |-> t]>>)
  BY <1>1, <1>6, HandshakeInStep
<1> QED BY <1>2, <1>3, <1>4, <1>5, <1>6

LEMMA OutputIs ==
    ASSUME HostTyped, Len(got) = op.size, \A i \in DOMAIN got : got[i] = <<op.n, i>>
    PROVE  got = Output(op.n, op.size)
<1>1. got \in Seq(Piece) /\ op \in Operations
  BY DEF HostTyped
<1>2. /\ Output(op.n, op.size) \in Seq(Piece) /\ Len(Output(op.n, op.size)) = op.size
      /\ op.size \in Nat
  BY <1>1, OperationIs DEF Output
<1>3. \A i \in 1 .. Len(got) : got[i] = Output(op.n, op.size)[i]
  BY <1>1 DEF Output
<1> QED BY <1>1, <1>2, <1>3, SeqEqual

\* What a host in step makes of the packet it reads.
LEMMA ReceiveInStep ==
    ASSUME Typed, InStep, ReceivePacket, ~strayed, strayed' = strayed, link = "up"
    PROVE  InStep'
<1>0. /\ toHost # <<>> /\ toHost' = Tail(toHost) /\ Handles(Head(toHost))
      /\ UNCHANGED <<link, device, strayed>>
  BY DEF ReceivePacket
<1>a. HostTyped /\ toHost \in Seq(ForHost) /\ toDev \in Seq(ForDevice) /\ op \in Operations
      /\ got \in Seq(Piece)
  BY DEF Typed, WireTyped, HostTyped
<1>b. UNCHANGED <<asked, streams>>
  BY <1>0 DEF device
<1>c. PICK m : m = Head(toHost)
  OBVIOUS
<1>1. CASE pc \in Handshaking
  <2>1. Greeting /\ pc # "start"
    BY <1>0, <1>1 DEF InStep
  <2>2. toDev = <<>> /\ ~asked /\ Len(toHost) <= 1
    <3>1. Len(toHost) \in Nat \ {0} /\ Len(toDev) \in Nat /\ (toDev # <<>> => Len(toDev) # 0)
      BY <1>0, <1>a, EmptySeq, LenProperties
    <3> QED BY <2>1, <3>1 DEF Greeting
  <2>3. toHost' = <<>>
    BY <1>0, <1>a, <2>2, LenOne
  <2> QED BY <1>0, <1>1, <2>1, <2>2, <2>3, GreetingReadInStep DEF Handles, Handshaking
<1>2. CASE pc = "open"
  <2>1. Opening /\ ~asked /\ OpenAnswered(m)
    BY <1>0, <1>2, <1>c DEF InStep, Busy, Handles
  <2>2. CASE OpenIsRefused
    <3>1. Returns("exception") /\ toDev' = toDev /\ toHost' = <<>> /\ op' = op
      BY <1>0, <1>c, <2>1, <2>2 DEF OpenIsRefused, OpenAnswered, Returns
    <3>2. outcome' = [op |-> op, value |-> Result("exception")] /\ pc' = "idle"
      BY <3>1 DEF Returns
    <3>3. op.kind = "shell" => outcome' # [op |-> op, value |-> "true"]
      <4>1. op.kind = "shell" => outcome'.value = "exception"
        BY <3>2 DEF Result
      <4> QED BY <4>1
    <3>4. Resting'
      BY <1>b, <2>2, <3>1, <3>3 DEF OpenIsRefused, Resting
    <3> QED BY <1>b, <2>1, <3>2, <3>4 DEF InStep, Handshaking, Busy
  <2>3. CASE OpenIsAccepted
    <3>1. /\ pc' = IF op.kind \in {"pull", "push"} THEN op.kind ELSE "shell"
          /\ Sends(IF op.kind = "pull"
                   THEN <<Write(stream.local, m.local, <<op.n, "RECV", 0>>)>> ELSE <<>>)
          /\ op' = op /\ got' = got
      BY <1>c, <2>1, <2>3 DEF OpenIsAccepted, OpenAnswered, hostData
    <3>2. op.kind = "pull" => toDev' = toDev \o <<Write(stream.local, m.local, <<op.n, "RECV", 0>>)>>
      BY <3>1 DEF Sends
    <3>3. op.kind # "pull" => toDev' = toDev
      BY <1>a, <3>1, OnlyNone DEF Sends
    <3>4. CASE op.kind \in Syncs
      <4>1. Only(toDev, {"OKAY", "WRTE"})
        BY <2>3 DEF OpenIsAccepted, Only
      <4>2. Only(toDev', {"OKAY", "WRTE"})
        <5>1. CASE op.kind = "pull"
          <6>1. Write(stream.local, m.local, <<op.n, "RECV", 0>>).type = "WRTE"
            BY DEF Write
          <6> QED BY <1>a, <3>2, <4>1, <5>1, <6>1, OnlyOneMore
        <5>2. CASE op.kind # "pull"
          BY <3>3, <4>1, <5>2
        <5> QED BY <5>1, <5>2
      <4>3. Transferring'
        BY <1>0, <1>b, <2>3, <3>4, <4>2 DEF OpenIsAccepted, Transferring
      <4>4. pc' \in {"pull", "push"}
        BY <3>1, <3>4 DEF Syncs
      <4> QED BY <1>b, <2>1, <4>3, <4>4 DEF InStep, Handshaking, Busy
    <3>5. CASE op.kind \notin Syncs
      <4>1. pc' = "shell" /\ toDev' = toDev
        BY <3>1, <3>3, <3>5 DEF Syncs
      <4>2. got' = <<>> /\ Len(got') = 0 /\ DOMAIN got' = {}
        BY <2>1, <3>1 DEF Opening
      <4>3. Reading'
        BY <1>0, <1>b, <2>3, <3>1, <3>5, <4>1, <4>2 DEF OpenIsAccepted, Reading
      <4> QED BY <1>b, <2>1, <4>1, <4>3 DEF InStep, Handshaking, Busy
    <3> QED BY <3>4, <3>5
  <2> QED BY <1>0, <2>1, <2>2, <2>3 DEF Opening, OpenIsSent
<1>3. CASE pc = "shell"
  <2>1. Reading /\ ~asked /\ ShellReads(m)
    BY <1>0, <1>3, <1>c DEF InStep, Busy, Handles
  <2>2. Len(got) \in Nat /\ op.size \in Nat
    BY <1>a, OperationIs, LenProperties
  <2>3. \/ /\ m.type = "WRTE" /\ m.data = <<op.n, Len(got) + 1>>
           /\ Flow(op, streams, toHost', Len(got) + 1)
        \/ m.type = "CLSE" /\ toHost' = <<>> /\ streams = {} /\ Len(got) = op.size
    BY <1>0, <1>a, <1>c, <2>1, <2>2, FlowReads DEF Reading
  <2>4. CASE /\ m.type = "WRTE" /\ m.data = <<op.n, Len(got) + 1>>
             /\ Flow(op, streams, toHost', Len(got) + 1)
    <3>1. /\ got' = Append(got, m.data) /\ pc' = "shell" /\ op' = op
          /\ toDev' = toDev \o <<Packet("OKAY", stream.local, stream.remote)>>
      BY <1>3, <2>1, <2>4 DEF ShellReads, Takes, Waits, Sends
    <3>2. m.data \in Piece
      BY <1>0, <1>a, <1>c, <2>4, PacketIs, HeadTailProperties
    <3>3. /\ Len(got') = Len(got) + 1 /\ DOMAIN got' = 1 .. Len(got) + 1
          /\ \A i \in 1 .. Len(got) : got'[i] = got[i]
          /\ got'[Len(got) + 1] = m.data
      BY <1>a, <3>1, <3>2, AppendProperties
    <3>4. \A i \in DOMAIN got' : got'[i] = <<op.n, i>>
      <4>1. ASSUME NEW i \in DOMAIN got' PROVE got'[i] = <<op.n, i>>
        <5>1. i \in 1 .. Len(got) \/ i = Len(got) + 1
          BY <2>2, <3>3
        <5>2. DOMAIN got = 1 .. Len(got)
          BY <1>a
        <5> QED BY <2>1, <2>4, <3>3, <5>1, <5>2 DEF Reading
      <4> QED BY <4>1
    <3>5. Only(toDev', {"OKAY"})
      <4>1. Packet("OKAY", stream.local, stream.remote).type = "OKAY"
        BY DEF Packet
      <4> QED BY <1>a, <2>1, <3>1, <4>1, OnlyOneMore DEF Reading
    <3>6. Reading'
      BY <1>b, <2>1, <2>4, <3>1, <3>3, <3>4, <3>5 DEF Reading
    <3> QED BY <1>b, <2>1, <3>1, <3>6 DEF InStep, Handshaking, Busy
  <2>5. CASE m.type = "CLSE" /\ toHost' = <<>> /\ streams = {} /\ Len(got) = op.size
    <3>1. Returns("true") /\ toDev' = toDev
      BY <2>1, <2>5 DEF ShellReads
    <3>2. pc' = "idle" /\ op' = op /\ got' = got
      BY <3>1 DEF Returns, hostData
    <3>3. got = Output(op.n, op.size)
      BY <1>a, <2>1, <2>5, OutputIs DEF Reading
    <3>4. Resting'
      BY <1>b, <2>1, <2>5, <3>1, <3>2, <3>3 DEF Reading, Resting
    <3> QED BY <1>b, <2>1, <3>2, <3>4 DEF InStep, Handshaking, Busy
  <2> QED BY <2>3, <2>4, <2>5
<1>4. CASE pc \in {"pull", "pushed"}
  <2>1. Transferring /\ ~asked /\ (PullReads(m) \/ PushReads(m))
    BY <1>0, <1>4, <1>c DEF InStep, Busy, Handles
  <2>2. m.type \in {"OKAY", "WRTE"} /\ Syncing(streams, toHost')
    BY <1>0, <1>a, <1>c, <2>1, OnlyTail DEF Transferring, Syncing
  <2>3. Takes(m) \/ (Waits(pc) /\ UNCHANGED <<got, toDev>>)
    BY <2>1, <2>2 DEF PullReads, PushReads, Leaves
  <2>4. pc' = pc
    BY <2>3 DEF Takes, Waits
  <2>5. Only(toDev', {"OKAY", "WRTE"})
    <3>1. Packet("OKAY", stream.local, stream.remote).type = "OKAY"
      BY DEF Packet
    <3>2. Takes(m) => toDev' = toDev \o <<Packet("OKAY", stream.local, stream.remote)>>
      BY DEF Takes, Sends
    <3> QED BY <1>a, <2>1, <2>3, <3>1, <3>2, OnlyOneMore DEF Transferring
  <2>6. Transferring'
    BY <1>b, <2>2, <2>5 DEF Transferring
  <2> QED BY <1>4, <1>b, <2>1, <2>4, <2>6 DEF InStep, Handshaking, Busy
<1> QED BY <1>0, <1>1, <1>2, <1>3, <1>4 DEF Handles, Handshaking

\* A read that times out in step ends the operation and leaves its stream behind,
\* but for the polls, which go on.
LEMMA TimeoutInStep ==
    ASSUME Typed, InStep, ReadTimesOut, ~strayed, strayed' = strayed, link = "up"
    PROVE  InStep'
<1>0. /\ toHost = <<>> /\ toHost' = toHost /\ Handles(Nothing) /\ Nothing.type = "none"
      /\ UNCHANGED <<link, device, strayed>>
  BY DEF ReadTimesOut, Nothing
<1>1. CASE pc \in Handshaking
  <2>1. Greeting
    BY <1>1 DEF InStep
  <2> QED BY <1>0, <1>1, <2>1, GreetingReadInStep DEF Handles, Handshaking
<1>2. CASE pc \in {"open", "shell", "pushed"}
  <2>1. PICK m : m = Nothing
    OBVIOUS
  <2>2. m.type = "none" /\ (OpenAnswered(m) \/ ShellReads(m) \/ PushReads(m))
    BY <1>0, <1>2, <2>1 DEF Handles
  <2>3. strayed'
    BY <2>2 DEF OpenAnswered, ShellReads, PushReads, Leaves
  <2> QED BY <1>0, <2>3
<1>3. CASE pc = "pull"
  <2>1. Waits(pc) /\ UNCHANGED <<got, toDev, strayed>>
    BY <1>0, <1>3 DEF Handles, PullReads, Leaves
  <2>2. Transferring /\ ~asked
    BY <1>3 DEF InStep, Busy
  <2>3. Transferring' /\ asked' = asked /\ pc' = pc
    BY <1>0, <2>1, <2>2 DEF Transferring, Waits, device
  <2> QED BY <1>3, <2>2, <2>3 DEF InStep, Handshaking, Busy
<1> QED BY <1>0, <1>1, <1>2, <1>3 DEF Handles, Handshaking

LEMMA OperationInStep ==
    ASSUME Typed, InStep, NEW k, NEW size, Operation(k, size), ~strayed, link = "up"
    PROVE  InStep'
<1>1. Resting /\ ~asked /\ pc = "idle"
  BY DEF Operation, InStep
<1>2. PICK o : o = [kind |-> k, n |-> ops + 1, size |-> size]
  OBVIOUS
<1>3. UNCHANGED <<toHost, link, device, strayed>>
  BY DEF Operation
<1>4. CASE Opens(o)
  BY <1>1, <1>3, <1>4, OpensInStep DEF Resting
<1>5. CASE /\ outcome' = [op |-> o, value |-> IF k = "reboot" THEN "true" ELSE "exception"]
           /\ UNCHANGED <<secure, pc, op, stream, nextId, hostData, toDev>>
  <2>1. op.kind = "shell" => outcome' # [op |-> op, value |-> "true"]
    <3>1. ASSUME outcome' = [op |-> op, value |-> "true"] PROVE op.kind = "reboot"
      <4>1. outcome'.op = o /\ outcome'.op = op /\ outcome'.value = "true"
        BY <1>5, <3>1
      <4>2. k = "reboot"
        BY <1>5, <4>1
      <4> QED BY <1>2, <4>1, <4>2
    <3> QED BY <3>1
  <2>2. Resting'
    BY <1>1, <1>3, <1>5, <2>1 DEF Resting, hostData, device
  <2> QED BY <1>1, <1>3, <1>5, <2>2 DEF InStep, Handshaking, Busy, device
<1> QED BY <1>2, <1>4, <1>5 DEF Operation

LEMMA HostInStep ==
    ASSUME Typed, InStep, Caller \/ Client \/ ReadTimesOut,
           ~strayed, strayed' = strayed, link = "up", link' = "up"
    PROVE  InStep'
<1>a. toDev \in Seq(ForDevice) /\ asked \in BOOLEAN
  BY DEF Typed, WireTyped, DeviceTyped
<1>1. CASE Connect
  <2>1. HandshakeGoesOn("cnxn", <<[type |-> "CNXN"]>>) /\ UNCHANGED <<toHost, link, device>>
        /\ pc = "start"
    BY <1>1 DEF Connect
  <2>2. Greeting /\ toDev = <<>> /\ toHost = <<>> /\ ~asked
    BY <2>1 DEF InStep, Handshaking
  <2> QED BY <2>1, <2>2, HandshakeInStep
<1>2. CASE Disconnect \/ Cancel
  BY <1>2 DEF Disconnect, Goes, Cancel
<1>3. CASE SendFile
  <2>1. /\ pc = "push" /\ pc' \in {"push", "pushed"}
        /\ UNCHANGED <<op, got, outcome, toHost, device>>
        /\ toDev' = toDev \o <<Write(stream.local, stream.remote, PushPackets(op.n)[sent + 1])>>
    BY <1>3 DEF SendFile, Sends
  <2>2. Transferring /\ ~asked
    BY <2>1 DEF InStep, Busy
  <2>3. PICK m : m = Write(stream.local, stream.remote, PushPackets(op.n)[sent + 1])
    OBVIOUS
  <2>4. m.type \in {"OKAY", "WRTE"}
    BY <2>3 DEF Write
  <2>5. Only(toDev', {"OKAY", "WRTE"})
    BY <1>a, <2>1, <2>2, <2>3, <2>4, OnlyOneMore DEF Transferring
  <2>6. Transferring' /\ asked' = asked
    BY <2>1, <2>2, <2>5 DEF Transferring, device
  <2> QED BY <2>1, <2>2, <2>6 DEF InStep, Handshaking, Busy
<1>4. CASE LinkIsGone
  BY <1>4 DEF LinkIsGone
<1> QED BY <1>1, <1>2, <1>3, <1>4, ReceiveInStep, TimeoutInStep, OperationInStep
        DEF Caller, Client

\* What the device does with an acknowledgement.
LEMMA OkayTaken ==
    ASSUME DeviceTyped, NEW m, m.type = "OKAY", DeviceTakes(m)
    PROVE  /\ toHost' = toHost
           /\ \/ streams' = streams
              \/ \E s \in streams : \E t \in Streams :
                    streams' = (streams \ {s}) \cup {t} /\ t.op = s.op /\ t.out = s.out
<1>1. CASE Of(m.local, m.remote) # {}
  <2>1. PICK s \in Of(m.local, m.remote) :
              streams' = (streams \ {s}) \cup {[s EXCEPT !.ready = TRUE]} /\ toHost' = toHost
    BY <1>1 DEF DeviceTakes
  <2>2. s \in streams /\ s \in Streams
    BY <2>1 DEF Of, DeviceTyped
  <2>3. PICK t : t = [s EXCEPT !.ready = TRUE]
    OBVIOUS
  <2>4. t \in Streams /\ t.op = s.op /\ t.out = s.out
    BY <2>2, <2>3 DEF Streams
  <2> QED BY <2>1, <2>2, <2>3, <2>4
<1>2. CASE Of(m.local, m.remote) = {}
  BY <1>2 DEF DeviceTakes
<1> QED BY <1>1, <1>2

LEMMA DeviceReceivesInStep ==
    ASSUME Typed, InStep, DeviceReceives, ~strayed, link = "up"
    PROVE  InStep'
<1>0. /\ toDev # <<>> /\ toDev' = Tail(toDev) /\ UNCHANGED <<host, link, strayed>>
      /\ toDev \in Seq(ForDevice) /\ toHost \in Seq(ForHost)
  BY DEF DeviceReceives, Typed, WireTyped
<1>a. HostTyped /\ DeviceTyped /\ UNCHANGED <<pc, op, got, stream, outcome>>
  BY <1>0 DEF Typed, host, hostData
<1>b. PICK m : m = Head(toDev)
  OBVIOUS
<1>c. /\ IF m.type \in {"CNXN", "SIGNATURE", "KEY"}
         THEN DeviceGreets(m) /\ UNCHANGED <<streams, nextRemote, delivered>>
         ELSE DeviceTakes(m) /\ UNCHANGED <<greeting, online, asked>>
      /\ m \in ForDevice
  BY <1>0, <1>b, HeadTailProperties DEF DeviceReceives
<1>1. CASE pc \in Handshaking
  <2>1. Greeting /\ pc # "start"
    BY <1>0, <1>1 DEF InStep
  <2>2. m.type \in {"CNXN", "SIGNATURE", "KEY"}
    BY <1>0, <1>b, <2>1, OnlyTail DEF Greeting
  <2>3. toHost = <<>> /\ ~asked /\ Len(toDev) <= 1
    <3>1. Len(toDev) \in Nat \ {0} /\ Len(toHost) \in Nat /\ (toHost # <<>> => Len(toHost) # 0)
      BY <1>0, EmptySeq, LenProperties
    <3> QED BY <2>1, <3>1 DEF Greeting
  <2>4. toDev' = <<>> /\ streams' = {}
    BY <1>0, <1>c, <2>1, <2>2, <2>3, LenOne DEF Greeting
  <2>5. \/ /\ asked' = asked
           /\ \E t \in {"CNXN", "AUTH", "STLS"} : toHost' = toHost \o <<[type |-> t]>>
        \/ toHost' = toHost
    BY <1>c, <2>2 DEF DeviceGreets, Authorises, Replies
  <2>6. \/ ~asked' /\ \E t \in {"CNXN", "AUTH", "STLS"} : toHost' = <<[type |-> t]>>
        \/ toHost' = <<>>
    BY <2>3, <2>5
  <2>7. /\ Only(toHost', {"CNXN", "AUTH", "STLS"}) /\ Only(toDev', {"CNXN", "SIGNATURE", "KEY"})
        /\ Len(toDev') = 0 /\ (Len(toHost') = 0 \/ (Len(toHost') = 1 /\ ~asked'))
    BY <2>4, <2>6 DEF Only
  <2>8. asked' => Len(toHost') = 0
    BY <2>7
  <2>9. Len(toDev') + Len(toHost') <= IF asked' THEN 0 ELSE 1
    <3>1. CASE asked'
      BY <2>7, <2>8, <3>1
    <3>2. CASE ~asked'
      <4>1. (IF asked' THEN 0 ELSE 1) = 1
        BY <3>2
      <4>2. Len(toDev') = 0 /\ Len(toHost') \in {0, 1}
        BY <2>7
      <4>3. PICK a, b : a = Len(toDev') /\ b = Len(toHost')
        OBVIOUS
      <4>4. a + b <= 1
        BY <4>2, <4>3
      <4> QED BY <4>1, <4>3, <4>4
    <3> QED BY <3>1, <3>2
  <2>10. Greeting'
    BY <2>4, <2>7, <2>9 DEF Greeting
  <2> QED BY <1>1, <1>a, <2>1, <2>10 DEF InStep, Handshaking, Busy
<1>2. CASE pc = "open" /\ OpenIsSent
  <2>1. Opening /\ ~asked /\ m = toDev[1]
    BY <1>0, <1>2, <1>b DEF InStep, Busy
  <2>2. /\ Tail(toDev) \in Seq(ForDevice) /\ Len(Tail(toDev)) = Len(toDev) - 1
        /\ Len(toDev) \in Nat \ {0} /\ Len(Tail(toDev)) \in Nat
        /\ \A i \in 1 .. Len(Tail(toDev)) : Tail(toDev)[i] = toDev[i + 1]
    BY <1>0, HeadTailProperties, EmptySeq, LenProperties
  <2>3. CASE Len(toDev) = 1
    <3>1. m = Open(stream.local, op) /\ toDev' = <<>>
      BY <1>0, <1>2, <2>1, <2>2, <2>3, LenOne DEF OpenIsSent
    <3>2. m.type = "OPEN" /\ m.service = op /\ m.local = stream.local
      BY <3>1 DEF Open
    <3>3. DeviceOpens(m) /\ asked' = asked
      BY <1>c, <3>2 DEF DeviceTakes
    <3>4. Only(toDev', {"OKAY"}) /\ toHost = <<>> /\ streams = {} /\ op \in Operations
      BY <1>2, <1>a, <3>1 DEF Only, OpenIsSent, HostTyped
    <3>5. CASE Replies(<<Packet("CLSE", 0, m.local)>>) /\ UNCHANGED <<streams, nextRemote>>
      <4>1. toHost' = <<Packet("CLSE", 0, m.local)>>
        BY <3>4, <3>5 DEF Replies
      <4>2. toHost' # <<>> /\ Tail(toHost') = <<>> /\ Head(toHost').type = "CLSE"
        BY <4>1 DEF Packet
      <4>3. OpenIsRefused'
        BY <3>4, <3>5, <4>2 DEF OpenIsRefused
      <4> QED BY <1>2, <1>a, <2>1, <3>3, <4>3 DEF InStep, Opening, Handshaking, Busy
    <3>6. CASE ~(Replies(<<Packet("CLSE", 0, m.local)>>) /\ UNCHANGED <<streams, nextRemote>>)
      <4>1. PICK s : s = [local |-> m.local, remote |-> nextRemote, op |-> m.service, ready |-> TRUE,
                 heard |-> <<>>, refused |-> FALSE,
                 out |-> IF m.service.kind \in {"pull", "push"} THEN <<>>
                         ELSE [i \in 1 .. m.service.size |-> <<m.service.n, i>>]]
        OBVIOUS
      <4>2. streams' = {s} /\ Replies(<<Packet("OKAY", nextRemote, m.local)>>)
        BY <3>3, <3>4, <3>6, <4>1 DEF DeviceOpens
      <4>3. toHost' = <<Packet("OKAY", nextRemote, m.local)>>
        BY <3>4, <4>2 DEF Replies
      <4>4. toHost' # <<>> /\ Tail(toHost') = <<>> /\ Head(toHost').type = "OKAY"
        BY <4>3 DEF Packet
      <4>5. s.op = op
        BY <3>2, <4>1
      <4>6. op.kind \in Syncs => Syncing(streams', Tail(toHost'))
        BY <4>2, <4>4, <4>5 DEF Syncing, Only
      <4>7. ASSUME op.kind \notin Syncs PROVE Flow(op, streams', Tail(toHost'), 0)
        <5>1. s.out = [i \in 1 .. op.size |-> <<op.n, i>>]
          BY <3>2, <4>1, <4>7 DEF Syncs
        <5>2. Len(s.out) = op.size /\ op.size \in Nat
          BY <3>4, <5>1, OperationIs
        <5>3. Remains(op, s.out, 0 + Len(<<>>))
          BY <5>1, <5>2 DEF Remains
        <5>4. Run(op, <<>>, Len(<<>>), 0)
          BY DEF Run
        <5> QED BY <4>2, <4>4, <4>5, <5>3, <5>4 DEF Flow
      <4>8. OpenIsAccepted'
        BY <1>a, <3>4, <4>4, <4>6, <4>7 DEF OpenIsAccepted
      <4> QED BY <1>2, <1>a, <2>1, <3>3, <4>8 DEF InStep, Opening, Handshaking, Busy
    <3> QED BY <3>5, <3>6
  <2>4. CASE Len(toDev) # 1
    <3>1. 1 \in 1 .. Len(toDev) - 1 /\ toDev' # <<>> /\ Len(toDev') = Len(toDev) - 1
      BY <1>0, <2>2, <2>4, EmptySeq
    <3>2. m.type = "OKAY" /\ Of(m.local, m.remote) = {}
      BY <1>2, <2>1, <3>1 DEF OpenIsSent, Of
    <3>3. UNCHANGED <<toHost, streams, asked>>
      BY <1>c, <3>2 DEF DeviceTakes
    <3>4. toDev'[Len(toDev')] = toDev[Len(toDev)]
      <4>1. Len(toDev') \in 1 .. Len(Tail(toDev)) /\ Len(toDev') + 1 = Len(toDev)
        BY <1>0, <2>2, <2>4, <3>1
      <4> QED BY <1>0, <2>2, <4>1
    <3>5. \A i \in 1 .. Len(toDev') - 1 : toDev'[i].type = "OKAY"
      <4>1. ASSUME NEW i \in 1 .. Len(toDev') - 1 PROVE toDev'[i].type = "OKAY"
        <5>1. i \in 1 .. Len(Tail(toDev)) /\ i + 1 \in 1 .. Len(toDev) - 1
          BY <1>0, <2>2, <3>1
        <5> QED BY <1>0, <1>2, <2>2, <5>1 DEF OpenIsSent
      <4> QED BY <4>1
    <3>6. OpenIsSent'
      BY <1>2, <1>a, <3>1, <3>3, <3>4, <3>5 DEF OpenIsSent, Open
    <3> QED BY <1>2, <1>a, <2>1, <3>3, <3>6 DEF InStep, Opening, Handshaking, Busy
  <2> QED BY <2>3, <2>4
<1>3. CASE \/ pc = "open" /\ (OpenIsRefused \/ OpenIsAccepted)
           \/ pc = "shell" \/ pc = "idle"
  <2>1. Only(toDev, {"OKAY"}) /\ ~asked
    BY <1>3 DEF InStep, Busy, OpenIsRefused, OpenIsAccepted, Reading, Resting
  <2>2. m.type = "OKAY" /\ Only(toDev', {"OKAY"})
    BY <1>0, <1>b, <2>1, OnlyTail
  <2>3. DeviceTakes(m) /\ asked' = asked
    BY <1>c, <2>2
  <2>4. /\ toHost' = toHost
        /\ \/ streams' = streams
           \/ \E s \in streams : \E t \in Streams :
                 streams' = (streams \ {s}) \cup {t} /\ t.op = s.op /\ t.out = s.out
    BY <1>a, <2>2, <2>3, OkayTaken
  <2>5. ASSUME NEW q, NEW g, Flow(op, streams, q, g) PROVE Flow(op, streams', q, g)
    BY <2>4, <2>5, FlowKept
  <2>6. ASSUME NEW q, Syncing(streams, q) PROVE Syncing(streams', q)
    BY <2>4, <2>6 DEF Syncing
  <2>7. streams = {} => streams' = {}
    BY <2>4
  <2>8. CASE pc = "open" /\ OpenIsRefused
    <3>1. OpenIsRefused' /\ Opening
      BY <2>2, <2>4, <2>7, <2>8 DEF OpenIsRefused, InStep
    <3> QED BY <1>a, <2>1, <2>3, <2>8, <3>1 DEF InStep, Opening, Handshaking, Busy
  <2>9. CASE pc = "open" /\ OpenIsAccepted
    <3>1. OpenIsAccepted' /\ Opening
      BY <1>a, <2>2, <2>4, <2>5, <2>6, <2>9 DEF OpenIsAccepted, InStep
    <3> QED BY <1>a, <2>1, <2>3, <2>9, <3>1 DEF InStep, Opening, Handshaking, Busy
  <2>10. CASE pc = "shell"
    <3>1. Reading
      BY <2>10 DEF InStep
    <3>2. Reading'
      BY <1>a, <2>2, <2>4, <2>5, <3>1 DEF Reading
    <3> QED BY <1>a, <2>1, <2>3, <2>10, <3>2 DEF InStep, Handshaking, Busy
  <2>11. CASE pc = "idle"
    <3>1. Resting
      BY <2>11 DEF InStep
    <3>2. Resting'
      BY <1>a, <2>2, <2>4, <2>7, <3>1 DEF Resting
    <3> QED BY <1>a, <2>1, <2>3, <2>11, <3>2 DEF InStep, Handshaking, Busy
  <2> QED BY <1>3, <2>8, <2>9, <2>10, <2>11
<1>4. CASE pc \in {"pull", "push", "pushed"}
  <2>1. Transferring /\ ~asked
    BY <1>4 DEF InStep, Busy
  <2>2. m.type \in {"OKAY", "WRTE"} /\ Only(toDev', {"OKAY", "WRTE"})
    BY <1>0, <1>b, <2>1, OnlyTail DEF Transferring
  <2>3. DeviceTakes(m) /\ asked' = asked
    BY <1>c, <2>2
  <2>4. Syncing(streams', toHost')
    <3>1. CASE m.type = "OKAY"
      <4>1. /\ toHost' = toHost
            /\ \/ streams' = streams
               \/ \E s \in streams : \E t \in Streams :
                     streams' = (streams \ {s}) \cup {t} /\ t.op = s.op /\ t.out = s.out
        BY <1>a, <2>3, <3>1, OkayTaken
      <4> QED BY <2>1, <4>1 DEF Transferring, Syncing
    <3>2. CASE m.type = "WRTE" /\ Of(m.local, m.remote) # {}
      <4>1. PICK s \in Of(m.local, m.remote) :
                /\ Replies(<<Packet("OKAY", s.remote, s.local)>>)
                /\ \E t \in {Heard(s, m.data), Refused(s)} : streams' = (streams \ {s}) \cup {t}
        BY <2>3, <3>2 DEF DeviceTakes
      <4>2. s \in streams /\ s \in Streams /\ m.data \in Asked
        BY <1>a, <1>c, <3>2, <4>1 DEF Of, DeviceTyped, ForDevice
      <4>3. Heard(s, m.data).op = s.op /\ Refused(s).op = s.op
        BY <1>a, <4>2, HeardIs
      <4>4. Only(toHost', {"OKAY", "WRTE"})
        <5>1. Packet("OKAY", s.remote, s.local).type = "OKAY"
          BY DEF Packet
        <5> QED BY <1>0, <2>1, <4>1, <5>1, OnlyOneMore DEF Replies, Transferring, Syncing
      <4> QED BY <2>1, <4>1, <4>2, <4>3, <4>4 DEF Transferring, Syncing
    <3>3. CASE m.type = "WRTE" /\ Of(m.local, m.remote) = {}
      <4>1. UNCHANGED <<toHost, streams>>
        BY <2>3, <3>3 DEF DeviceTakes
      <4> QED BY <2>1, <4>1 DEF Transferring
    <3> QED BY <2>2, <3>1, <3>2, <3>3
  <2>5. Transferring'
    BY <2>2, <2>4 DEF Transferring
  <2> QED BY <1>4, <1>a, <2>1, <2>3, <2>5 DEF InStep, Handshaking, Busy
<1>5. CASE pc = "down"
  BY <1>5, <1>a DEF InStep, Handshaking, Busy
<1>6. pc = "open" => OpenIsSent \/ OpenIsRefused \/ OpenIsAccepted
  BY DEF InStep, Opening
<1> QED BY <1>a, <1>1, <1>2, <1>3, <1>4, <1>5, <1>6 DEF HostTyped, Busy

LEMMA UserAcceptsInStep ==
    ASSUME Typed, InStep, UserAccepts, ~strayed, link = "up"
    PROVE  InStep'
<1>0. /\ asked /\ asked' = FALSE /\ toHost' = toHost \o <<[type |-> "CNXN"]>>
      /\ UNCHANGED <<pc, toDev, streams>>
      /\ toDev \in Seq(ForDevice) /\ toHost \in Seq(ForHost)
  BY DEF UserAccepts, Authorises, Replies, host, Typed, WireTyped
<1>1. pc \in (Handshaking \ {"start"}) \cup {"down"}
  BY <1>0 DEF InStep, Handshaking, Typed, HostTyped
<1>2. CASE pc \in Handshaking
  <2>1. Greeting /\ pc # "start"
    BY <1>1, <1>2 DEF InStep
  <2>2. toDev = <<>> /\ toHost = <<>>
    <3>1. /\ Len(toDev) \in Nat /\ (toDev # <<>> => Len(toDev) # 0)
          /\ Len(toHost) \in Nat /\ (toHost # <<>> => Len(toHost) # 0)
      BY <1>0, EmptySeq, LenProperties
    <3> QED BY <1>0, <2>1, <3>1 DEF Greeting
  <2>3. toHost' = <<[type |-> "CNXN"]>> /\ toDev' = <<>>
    BY <1>0, <2>2
  <2>4. Only(toHost', {"CNXN", "AUTH", "STLS"}) /\ Len(toDev') = 0 /\ Len(toHost') = 1
    BY <2>3 DEF Only
  <2>5. Len(toDev') + Len(toHost') <= IF asked' THEN 0 ELSE 1
    BY <1>0, <2>4
  <2>6. Greeting'
    BY <1>0, <2>1, <2>3, <2>4, <2>5 DEF Greeting
  <2> QED BY <1>0, <1>2, <2>1, <2>6 DEF InStep, Handshaking, Busy
<1>3. CASE pc = "down"
  BY <1>0, <1>3 DEF InStep, Handshaking, Busy
<1> QED BY <1>1, <1>2, <1>3

\* No stream of the device is open where the host does not expect one.
LEMMA StreamsInStep ==
    ASSUME InStep, ~strayed, link = "up", pc \in Handshaking \cup {"idle"} \cup Busy, streams # {}
    PROVE  \/ pc = "open" /\ Opening /\ OpenIsAccepted
           \/ pc = "shell" /\ Reading
           \/ pc \in {"pull", "push", "pushed"} /\ Transferring
<1>1. pc \notin Handshaking \cup {"idle"}
  BY DEF InStep, Greeting, Resting
<1> QED BY <1>1 DEF InStep, Busy, Opening, OpenIsSent, OpenIsRefused

\* What goes behind the head of a queue goes behind its tail.
LEMMA TailOfMore ==
    ASSUME NEW S, NEW q \in Seq(S), q # <<>>, NEW m
    PROVE  q \o <<m>> # <<>> /\ Head(q \o <<m>>) = Head(q)
           /\ Tail(q \o <<m>>) = Tail(q) \o <<m>>
<1>1. PICK T : T = S \cup {m}
  OBVIOUS
<1>2. q \in Seq(T) /\ <<m>> \in Seq(T) /\ <<m>> # <<>>
  BY <1>1, SeqMonotonic
<1>3. PICK r : r = q \o <<m>>
  OBVIOUS
<1>4. /\ r \in Seq(T) /\ Len(r) = Len(q) + 1 /\ Len(q) \in Nat \ {0}
      /\ \A i \in 1 .. Len(q) : r[i] = q[i]
      /\ r[Len(q) + 1] = m
  BY <1>1, <1>3, OneMore, EmptySeq, LenProperties
<1>5. r # <<>> /\ Head(r) = Head(q)
  BY <1>2, <1>4
<1>6. /\ Tail(q) \in Seq(S) /\ Len(Tail(q)) = Len(q) - 1
      /\ \A i \in 1 .. Len(Tail(q)) : Tail(q)[i] = q[i + 1]
  BY HeadTailProperties
<1>7. /\ Tail(r) \in Seq(T) /\ Len(Tail(r)) = Len(q)
      /\ \A i \in 1 .. Len(q) : Tail(r)[i] = r[i + 1]
  <2>1. /\ Tail(r) \in Seq(T) /\ Len(Tail(r)) = Len(r) - 1
        /\ \A i \in 1 .. Len(Tail(r)) : Tail(r)[i] = r[i + 1]
    BY <1>4, <1>5, HeadTailProperties
  <2> QED BY <1>4, <2>1
<1>8. PICK u : u = Tail(q) \o <<m>>
  OBVIOUS
<1>9. /\ u \in Seq(T) /\ Len(u) = Len(q) /\ \A i \in 1 .. Len(q) - 1 : u[i] = Tail(q)[i]
      /\ u[Len(q)] = m
  <2>1. /\ u \in Seq(T) /\ Len(u) = Len(Tail(q)) + 1 /\ \A i \in 1 .. Len(Tail(q)) : u[i] = Tail(q)[i]
        /\ u[Len(Tail(q)) + 1] = m
    <3>1. PICK v \in Seq(S) : v = Tail(q)
      BY <1>6
    <3> QED BY <1>1, <1>8, <3>1, OneMore
  <2>2. Len(Tail(q)) + 1 = Len(q)
    BY <1>4, <1>6
  <2> QED BY <1>6, <2>1, <2>2
<1>10. ASSUME NEW i \in 1 .. Len(q) PROVE Tail(r)[i] = u[i]
  <2>1. CASE i = Len(q)
    BY <1>4, <1>7, <1>9, <2>1
  <2>2. CASE i # Len(q)
    <3>1. i \in 1 .. Len(q) - 1 /\ i + 1 \in 1 .. Len(q)
      BY <1>4, <2>2
    <3> QED BY <1>4, <1>6, <1>7, <1>9, <3>1
  <2> QED BY <2>1, <2>2
<1>11. Tail(r) = u
  BY <1>7, <1>9, <1>10, SeqEqual
<1> QED BY <1>3, <1>5, <1>8, <1>11

LEMMA DeviceWritesInStep ==
    ASSUME Typed, InStep, DeviceWrites, ~strayed, link = "up"
    PROVE  InStep'
<1>1. PICK s \in streams :
          /\ s.ready /\ s.out # <<>>
          /\ toHost' = toHost \o <<Write(s.remote, s.local, Head(s.out))>>
          /\ streams' = (streams \ {s}) \cup {[s EXCEPT !.ready = FALSE, !.out = Tail(@)]}
  BY DEF DeviceWrites, Replies
<1>2. /\ UNCHANGED <<pc, op, got, stream, outcome, toDev, asked>>
      /\ toHost \in Seq(ForHost) /\ op \in Operations /\ got \in Seq(Piece)
      /\ s \in Streams /\ pc \in Handshaking \cup {"idle", "down"} \cup Busy
  BY DEF DeviceWrites, host, hostData, Typed, WireTyped, HostTyped, DeviceTyped
<1>3. PICK m : m = Write(s.remote, s.local, Head(s.out))
  OBVIOUS
<1>4. m.type = "WRTE" /\ m.data = Head(s.out)
  BY <1>3 DEF Write
<1>5. PICK t : t = [s EXCEPT !.ready = FALSE, !.out = Tail(@)]
  OBVIOUS
<1>6. t.op = s.op /\ t.out = Tail(s.out) /\ s.out \in Seq(Piece)
  BY <1>2, <1>5 DEF Streams
<1>7. toHost' = toHost \o <<m>> /\ streams' = (streams \ {s}) \cup {t}
  BY <1>1, <1>3, <1>5
<1>8. op.size \in Nat
  BY <1>2, OperationIs
<1>9. ASSUME NEW q \in Seq(ForHost), NEW g \in Nat, Flow(op, streams, q, g)
      PROVE  Flow(op, streams', q \o <<m>>, g)
  <2>1. Flow(op, (streams \ {s}) \cup {t}, q \o <<m>>, g)
    <3>1. PICK ss : ss = streams
      OBVIOUS
    <3>2. s \in ss /\ Flow(op, ss, q, g) /\ s.out # <<>>
      BY <1>1, <1>9, <3>1
    <3>3. Flow(op, (ss \ {s}) \cup {t}, q \o <<m>>, g)
      BY <1>4, <1>6, <1>8, <3>2, FlowWrites
    <3> QED BY <3>1, <3>3
  <2> QED BY <1>7, <2>1
<1>10. ASSUME NEW q \in Seq(ForHost), Syncing(streams, q) PROVE Syncing(streams', q \o <<m>>)
  <2>1. Only(q \o <<m>>, {"OKAY", "WRTE"})
    BY <1>4, <1>10, OnlyOneMore DEF Syncing
  <2> QED BY <1>6, <1>7, <1>10, <2>1 DEF Syncing
<1>11. CASE pc = "open" /\ Opening /\ OpenIsAccepted
  <2>1. toHost # <<>> /\ Tail(toHost) \in Seq(ForHost)
    BY <1>2, <1>11, HeadTailProperties DEF OpenIsAccepted
  <2>2. toHost' # <<>> /\ Head(toHost') = Head(toHost) /\ Tail(toHost') = Tail(toHost) \o <<m>>
    BY <1>2, <1>7, <2>1, TailOfMore
  <2>3. op.kind \in Syncs => Syncing(streams', Tail(toHost'))
    BY <1>10, <1>11, <2>1, <2>2 DEF OpenIsAccepted
  <2>4. op.kind \notin Syncs => Flow(op, streams', Tail(toHost'), 0)
    BY <1>9, <1>11, <2>1, <2>2 DEF OpenIsAccepted
  <2>5. OpenIsAccepted'
    BY <1>2, <1>11, <2>2, <2>3, <2>4 DEF OpenIsAccepted
  <2>6. ~asked
    BY <1>11 DEF InStep, Busy
  <2> QED BY <1>2, <1>11, <2>5, <2>6 DEF InStep, Opening, Handshaking, Busy
<1>12. CASE pc = "shell" /\ Reading
  <2>1. Flow(op, streams', toHost', Len(got))
    BY <1>2, <1>7, <1>9, <1>12, LenProperties DEF Reading
  <2>2. Reading' /\ ~asked
    BY <1>2, <1>12, <2>1 DEF Reading, InStep, Busy
  <2> QED BY <1>2, <1>12, <2>2 DEF InStep, Handshaking, Busy
<1>13. CASE pc \in {"pull", "push", "pushed"} /\ Transferring
  <2>1. Syncing(streams', toHost')
    BY <1>2, <1>7, <1>10, <1>13 DEF Transferring
  <2>2. Transferring' /\ ~asked
    BY <1>2, <1>13, <2>1 DEF Transferring, InStep, Busy
  <2> QED BY <1>2, <1>13, <2>2 DEF InStep, Handshaking, Busy
<1>14. CASE pc = "down"
  BY <1>2, <1>14 DEF InStep, Handshaking, Busy
<1> QED BY <1>1, <1>2, <1>11, <1>12, <1>13, <1>14, StreamsInStep

LEMMA CommandEndsInStep ==
    ASSUME Typed, InStep, CommandEnds, ~strayed, link = "up"
    PROVE  InStep'
<1>1. PICK s \in streams :
          /\ s.op.kind \notin Syncs /\ s.out = <<>>
          /\ toHost' = toHost \o <<Packet("CLSE", s.remote, s.local)>>
          /\ streams' = streams \ {s}
  BY DEF CommandEnds, Replies, Syncs
<1>2. /\ UNCHANGED <<pc, op, got, stream, outcome, toDev, asked>>
      /\ toHost \in Seq(ForHost) /\ op \in Operations /\ got \in Seq(Piece)
      /\ pc \in Handshaking \cup {"idle", "down"} \cup Busy
  BY DEF CommandEnds, host, hostData, Typed, WireTyped, HostTyped
<1>3. PICK m : m = Packet("CLSE", s.remote, s.local)
  OBVIOUS
<1>4. m.type = "CLSE" /\ toHost' = toHost \o <<m>>
  BY <1>1, <1>3 DEF Packet
<1>5. op.size \in Nat
  BY <1>2, OperationIs
<1>6. ASSUME NEW q \in Seq(ForHost), NEW g \in Nat, Flow(op, streams, q, g)
      PROVE  Flow(op, streams', q \o <<m>>, g)
  BY <1>1, <1>4, <1>5, <1>6, FlowEnds
<1>7. \A q : ~Syncing(streams, q)
  BY <1>1 DEF Syncing
<1>8. CASE pc = "open" /\ Opening /\ OpenIsAccepted
  <2>1. toHost # <<>> /\ Tail(toHost) \in Seq(ForHost) /\ op.kind \notin Syncs
    BY <1>2, <1>7, <1>8, HeadTailProperties DEF OpenIsAccepted
  <2>2. toHost' # <<>> /\ Head(toHost') = Head(toHost) /\ Tail(toHost') = Tail(toHost) \o <<m>>
    BY <1>2, <1>4, <2>1, TailOfMore
  <2>3. Flow(op, streams', Tail(toHost'), 0)
    BY <1>6, <1>8, <2>1, <2>2 DEF OpenIsAccepted
  <2>4. OpenIsAccepted'
    BY <1>2, <1>8, <2>1, <2>2, <2>3 DEF OpenIsAccepted
  <2>5. ~asked
    BY <1>8 DEF InStep, Busy
  <2> QED BY <1>2, <1>8, <2>4, <2>5 DEF InStep, Opening, Handshaking, Busy
<1>9. CASE pc = "shell" /\ Reading
  <2>1. Flow(op, streams', toHost', Len(got))
    BY <1>2, <1>4, <1>6, <1>9, LenProperties DEF Reading
  <2>2. Reading' /\ ~asked
    BY <1>2, <1>9, <2>1 DEF Reading, InStep, Busy
  <2> QED BY <1>2, <1>9, <2>2 DEF InStep, Handshaking, Busy
<1>10. CASE pc = "down"
  BY <1>2, <1>10 DEF InStep, Handshaking, Busy
<1> QED BY <1>1, <1>2, <1>7, <1>8, <1>9, <1>10, StreamsInStep DEF Transferring

LEMMA InStepStep == ASSUME Typed, InStep, [Next]_vars PROVE InStep'
<1> SUFFICES ASSUME ~strayed', link' = "up" PROVE InStep'
  BY DEF InStep
<1>1. strayed' \in BOOLEAN
  BY TypedStep DEF Typed, BoundsTyped
<1>2. ~strayed /\ link = "up" /\ strayed' = strayed
  BY <1>1, NeverBack DEF Typed, BoundsTyped
<1>3. CASE Caller \/ Client \/ ReadTimesOut
  BY <1>2, <1>3, HostInStep
<1>4. CASE Adbd \/ UserAccepts
  BY <1>2, <1>4, DeviceReceivesInStep, DeviceWritesInStep, CommandEndsInStep, UserAcceptsInStep
     DEF Adbd
<1>5. CASE CableIsCut
  BY <1>5 DEF CableIsCut, Goes
<1>6. CASE UNCHANGED vars
  <2>1. UNCHANGED <<pc, op, got, stream, outcome, toDev, toHost, streams, asked>>
    BY <1>6 DEF vars, host, hostData, wire, device
  <2>2. /\ Greeting => Greeting'
        /\ Reading => Reading'
        /\ Transferring => Transferring'
        /\ Resting => Resting'
    BY <2>1 DEF Greeting, Reading, Transferring, Resting
  <2>3. Opening => Opening'
    BY <2>1 DEF Opening, OpenIsSent, OpenIsRefused, OpenIsAccepted, Open
  <2> QED BY <1>2, <2>1, <2>2, <2>3 DEF InStep
<1> QED BY <1>3, <1>4, <1>5, <1>6 DEF Next

\* While no operation has left packets behind, what a shell command returns is its
\* own output, all of it and in order (ShellReturnsItsOutput of AdbSession), although
\* AdbStream.ReadAsync looks at no stream id: for every length of output, any number
\* of operations of every kind before it, and any reads that time out.
THEOREM ShellOutputIsItsOwn == Spec => []ShellReturnsItsOutput
<1>1. Init => InStep
  <2> SUFFICES ASSUME Init PROVE InStep
    OBVIOUS
  <2>1. toDev = <<>> /\ toHost = <<>> /\ streams = {} /\ asked = FALSE /\ pc = "start"
    BY DEF Init
  <2>2. Greeting
    BY <2>1 DEF Greeting, Only
  <2> QED BY <2>1, <2>2 DEF InStep, Handshaking, Busy
<1>2. Typed /\ InStep /\ [Next]_vars => InStep'
  BY InStepStep
<1>3. InStep => ShellReturnsItsOutput
  BY DEF InStep, ShellReturnsItsOutput, Resting, Output
<1> QED BY <1>1, <1>2, <1>3, TypedInvariant, PTL DEF Spec
=============================================================================
