------------------------------ MODULE AdbSession ------------------------------
(* AdbClient and AdbStream: one connection to adbd, made without the ADB       *)
(* server, and the operations run on it one after the other.                   *)
(*                                                                            *)
(* Every packet names the stream it belongs to.  The client does not look: it *)
(* takes the next packet that comes in for the answer it waits for, whichever *)
(* stream it is of.  An operation that ends before it has read all that the   *)
(* device sends on its stream leaves the rest to the next one; "strayed" says *)
(* that this has happened.  A payload of the device is <<operation, index>>:  *)
(* which piece of the answer to which operation it is; one of the host is     *)
(* <<operation, part, index>>.  The device is code outside the repository; the *)
(* stream protocol is the one the code is documented with.                    *)
EXTENDS Integers, Sequences

CONSTANTS
    Transports,    \* subset of {"tcp", "usb"}
    Greetings,     \* how the device meets CNXN: "open", "known", "unknown", "stls"
    Lengths,       \* pieces in the output of a shell command
    Pieces,        \* pieces in the file that is pushed
    MaxPolls,      \* reads after the public key was sent (30 in the code)
    MaxOps,        \* bound: operations after the connection is made
    MaxFaults      \* bound: late answers, cancellations and cut cables

ASSUME AdbAssumption ==
    /\ Transports \subseteq {"tcp", "usb"}
    /\ Greetings \subseteq {"open", "known", "unknown", "stls"}
    /\ Lengths \subseteq Nat /\ {Pieces, MaxPolls, MaxOps, MaxFaults} \subseteq Nat

VARIABLES
    transport, connected, secure,    \* _transport, _connected, the SslStream
    pc, op, stream,                  \* where the host is, in which operation
    nextId,                          \* _localId
    sent, polls, got,                \* packets pushed, reads polled, payloads read
    outcome,                         \* what the last operation returned
    toDev, toHost, link,
    greeting, online, asked,         \* adbd: the challenge to come, is the user being asked
    streams, nextRemote, delivered,  \* adbd: its streams, the files it has taken
    strayed, ops, faults

hostData == <<sent, polls, got>>
host == <<connected, secure, pc, op, stream, nextId, hostData, outcome>>
wire == <<toDev, toHost, link>>
device == <<greeting, online, asked, streams, nextRemote, delivered>>
vars == <<transport, host, wire, device, strayed, ops, faults>>

Kinds == {"shell", "reboot", "pull", "push"}
Props == [kind |-> "props", n |-> 0, size |-> 1]

Packet(t, l, r) == [type |-> t, local |-> l, remote |-> r]
Open(l, o) == [type |-> "OPEN", local |-> l, service |-> o]
Write(l, r, p) == [type |-> "WRTE", local |-> l, remote |-> r, data |-> p]
Nothing == [type |-> "none"]        \* ReadPacketAsync returned null

Busy == {"open", "shell", "pull", "push", "pushed"}
Parts == {"SEND", "SENDpath", "DATA", "bytes", "DONE", "RECV"}

\* The packets of PushFileAsync: each WriteAsync is one.  The text after the header
\* is "SEND<path>,<mode>": what the device reads for the path, all up to the comma,
\* begins with the letters SEND and is not the path the caller gave.
PushPackets(n) ==
    << <<n, "SEND", 0>>, <<n, "SENDpath", 0>> >>
      \o [i \in 1 .. 2 * Pieces |-> <<n, IF i % 2 = 1 THEN "DATA" ELSE "bytes", i>>]
      \o << <<n, "DONE", 0>> >>
PushLength == 2 * Pieces + 3

(* ------------------------------- the host ------------------------------- *)

Sends(s) == toDev' = IF link = "up" THEN toDev \o s ELSE toDev

\* The operation ends with v; what it makes of an exception depends on the call:
\* RebootAsync takes one for the reboot, PopulateDeviceInfoAsync only logs it.
Result(v) ==
    IF v = "exception" /\ op.kind \in {"reboot", "props"} THEN "true" ELSE v
Returns(v) ==
    /\ pc' = "idle" /\ outcome' = [op |-> op, value |-> Result(v)]
    /\ connected' = (connected /\ ~(v = "exception" /\ op.kind = "reboot"))
    /\ UNCHANGED <<secure, op, stream, nextId, hostData>>

\* CloseAsync of a stream the device has not closed: its answers are not awaited
Close == <<Packet("CLSE", stream.local, stream.remote)>>
Leaves(v) == Sends(Close) /\ Returns(v) /\ strayed' = TRUE

Opens(o) ==
    /\ op' = o /\ pc' = "open" /\ outcome' = [op |-> o, value |-> "none"]
    /\ stream' = [local |-> nextId, remote |-> 0] /\ nextId' = nextId + 1
    /\ sent' = 0 /\ got' = <<>>
    /\ Sends(<<Open(nextId, o)>>)

\* The device has said CNXN: connected, and PopulateDeviceInfoAsync runs getprop.
Accepted == connected' = TRUE /\ Opens(Props) /\ polls' = 0 /\ secure' = secure

ConnectFails ==
    /\ pc' = "down" /\ outcome' = [op |-> op, value |-> "false"]
    /\ UNCHANGED <<connected, secure, op, stream, nextId, hostData, toDev>>

HandshakeGoesOn(l, s) ==
    pc' = l /\ Sends(s) /\ UNCHANGED <<connected, op, stream, nextId, sent, got, outcome>>

Connect ==
    /\ pc = "start"
    /\ HandshakeGoesOn("cnxn", <<[type |-> "CNXN"]>>)
    /\ UNCHANGED <<transport, secure, polls, toHost, link, device, strayed, ops, faults>>

CnxnAnswered(m) ==
    CASE m.type = "STLS" /\ ~secure /\ transport = "tcp" ->
           \/ HandshakeGoesOn("cnxn", <<[type |-> "CNXN"]>>) /\ secure' = TRUE /\ polls' = polls
           \/ ConnectFails          \* the TLS handshake fails
      [] m.type = "AUTH" ->
           HandshakeGoesOn("signature", <<[type |-> "SIGNATURE"]>>) /\ UNCHANGED <<secure, polls>>
      [] m.type = "CNXN" -> Accepted
      [] OTHER -> ConnectFails

SignatureAnswered(m) ==
    CASE m.type = "CNXN" -> Accepted
      [] m.type = "AUTH" ->
           HandshakeGoesOn("polls", <<[type |-> "KEY"]>>) /\ UNCHANGED <<secure, polls>>
      [] OTHER -> ConnectFails

AnyAnswerPolls(m) == Accepted                    \* mutant
PollsOn(m) ==                                    \* mutant
    IF m.type = "CNXN" THEN Accepted
    ELSE HandshakeGoesOn("polls", <<>>) /\ polls' = polls + 1 /\ secure' = secure
Polled(m) ==
    CASE m.type = "CNXN" -> Accepted
      [] m.type # "CNXN" /\ polls + 1 < MaxPolls ->
           HandshakeGoesOn("polls", <<>>) /\ polls' = polls + 1 /\ secure' = secure
      [] OTHER -> ConnectFails

\* everything of the host but what was read stays as it is
Waits(l) == pc' = l /\ UNCHANGED <<connected, secure, op, stream, nextId, sent, polls, outcome>>

\* OpenStreamAsync: any OKAY opens the stream, with the sender's id as its remote
\* id.  A pull writes the text "RECV<length><path>", the length in four digits where
\* the device reads a number.
OpenedAs(local, m) == [local |-> m.remote, remote |-> m.local]     \* mutant
Opened(local, m) == [local |-> local, remote |-> m.local]
OpenAnswered(m) ==
    CASE m.type = "OKAY" ->
           /\ stream' = Opened(stream.local, m)
           /\ pc' = IF op.kind \in {"pull", "push"} THEN op.kind ELSE "shell"
           /\ Sends(IF op.kind = "pull"
                    THEN <<Write(stream.local, m.local, <<op.n, "RECV", 0>>)>> ELSE <<>>)
           /\ UNCHANGED <<connected, secure, op, nextId, hostData, outcome, strayed>>
      [] OTHER ->
           /\ Returns("exception") /\ toDev' = toDev
           /\ strayed' = (strayed \/ m.type # "CLSE")

\* AdbStream.ReadAsync of a WRTE: acknowledged on the client's own stream
TakesUnacknowledged(m) ==                        \* mutant
    /\ got' = Append(got, m.data)
    /\ Waits(pc) /\ UNCHANGED <<toDev, strayed>>
Takes(m) ==
    /\ got' = Append(got, m.data)
    /\ Sends(<<Packet("OKAY", stream.local, stream.remote)>>)
    /\ Waits(pc) /\ strayed' = strayed

ShellTakesOne(m) ==                              \* mutant
    CASE m.type = "WRTE" -> /\ got' = Append(got, m.data)
                            /\ Sends(<<Packet("OKAY", stream.local, stream.remote)>>)
                            /\ pc' = "idle" /\ outcome' = [op |-> op, value |-> "true"]
                            /\ UNCHANGED <<connected, secure, op, stream, nextId, sent, polls, strayed>>
      [] m.type = "CLSE" -> Returns("true") /\ UNCHANGED <<toDev, strayed>>
      [] OTHER -> Leaves("true")
ShellReads(m) ==
    CASE m.type = "WRTE" -> Takes(m)
      [] m.type = "CLSE" -> Returns("true") /\ UNCHANGED <<toDev, strayed>>
      [] OTHER -> Leaves("true")

\* PullFileAsync: a payload is a header to be skipped or data to be kept.  What is
\* no WRTE ends the file, unless some bytes of a header were read before it: then
\* the loop goes round, on a stream that a CLSE has closed.
PullReads(m) ==
    CASE m.type = "WRTE" -> Takes(m)
      [] m.type = "CLSE" ->
           /\ \E v \in {"true"} \cup (IF got = <<>> THEN {} ELSE {"exception"}) : Returns(v)
           /\ UNCHANGED <<toDev, strayed>>
      [] OTHER ->
           \/ Leaves("true")
           \/ got # <<>> /\ Waits(pc) /\ UNCHANGED <<got, toDev, strayed>>

\* PushFileAsync: one read, of whatever comes first, and its result is dropped
PushReads(m) ==
    CASE m.type = "CLSE" -> Returns("true") /\ UNCHANGED <<toDev, strayed>>
      [] m.type = "WRTE" ->
           /\ Sends(<<Packet("OKAY", stream.local, stream.remote)>> \o Close)
           /\ Returns("true") /\ strayed' = TRUE
      [] OTHER -> Leaves("true")

Handles(m) ==
    \/ pc = "cnxn" /\ CnxnAnswered(m) /\ strayed' = strayed
    \/ pc = "signature" /\ SignatureAnswered(m) /\ strayed' = strayed
    \/ pc = "polls" /\ Polled(m) /\ strayed' = strayed
    \/ pc = "open" /\ OpenAnswered(m)
    \/ pc = "shell" /\ ShellReads(m)
    \/ pc = "pull" /\ PullReads(m)
    \/ pc = "pushed" /\ PushReads(m)

ReceivePacket ==
    /\ link = "up" /\ toHost # <<>>
    /\ toHost' = Tail(toHost)
    /\ Handles(Head(toHost))
    /\ UNCHANGED <<transport, link, device, ops, faults>>

\* UsbStream: a bulk read that has waited 5 s returns 0, as a closed stream does
ReadTimesOut ==
    /\ transport = "usb" /\ link = "up" /\ toHost = <<>>
    /\ IF pc = "polls" THEN faults' = faults
       ELSE faults < MaxFaults /\ faults' = faults + 1
    /\ Handles(Nothing)
    /\ UNCHANGED <<transport, toHost, link, device, ops>>

SendFile ==
    /\ pc = "push" /\ link = "up"
    /\ Sends(<<Write(stream.local, stream.remote, PushPackets(op.n)[sent + 1])>>)
    /\ sent' = sent + 1
    /\ pc' = IF sent' = PushLength THEN "pushed" ELSE "push"
    /\ UNCHANGED <<transport, connected, secure, op, stream, nextId, polls, got, outcome,
                   toHost, link, device, strayed, ops, faults>>

\* On a connection that is gone a read returns null or throws, and a write throws
\* or is lost; the close that follows a read may throw too.
LinkIsGone ==
    /\ link = "gone"
    /\ \/ pc \in {"cnxn", "signature", "polls"} /\ ConnectFails
       \/ pc \in {"open", "push"} /\ Returns("exception") /\ toDev' = toDev
       \/ pc \in {"shell", "pull", "pushed"} /\ toDev' = toDev
            /\ \E v \in {"true", "exception"} : Returns(v)
    /\ UNCHANGED <<transport, toHost, link, device, strayed, ops, faults>>

Operation(k, size) ==
    /\ pc = "idle" /\ ops < MaxOps
    /\ ops' = ops + 1
    /\ LET o == [kind |-> k, n |-> ops + 1, size |-> size]
       IN  IF connected /\ link = "up"
           THEN Opens(o) /\ UNCHANGED <<connected, secure, polls>>
           ELSE /\ outcome' = [op |-> o, value |-> IF k = "reboot" THEN "true" ELSE "exception"]
                /\ connected' = (connected /\ k # "reboot")
                /\ UNCHANGED <<secure, pc, op, stream, nextId, hostData, toDev>>
    /\ UNCHANGED <<transport, toHost, link, device, strayed, faults>>

\* The token stops a read or a write, and then the close as well: the stream stays
\* open, and what a push has not written yet is never written.
Cancel ==
    /\ pc \in Busy /\ faults < MaxFaults
    /\ op.kind # "reboot"
    /\ faults' = faults + 1
    /\ Returns("exception") /\ strayed' = TRUE
    /\ UNCHANGED <<transport, wire, device, ops>>

\* The transport goes: what is on the way is lost, and adbd ends its streams.
Goes ==
    /\ link' = "gone" /\ toDev' = <<>> /\ toHost' = <<>>
    /\ streams' = {} /\ asked' = FALSE
    /\ UNCHANGED <<transport, greeting, online, nextRemote, delivered, strayed, ops>>

Disconnect ==
    /\ pc = "idle"
    /\ pc' = "down" /\ connected' = FALSE
    /\ Goes
    /\ UNCHANGED <<secure, op, stream, nextId, hostData, outcome, faults>>

(* ------------------------------ the device ------------------------------ *)

Replies(s) == toHost' = toHost \o s
Of(l, r) == {s \in streams : s.local = l /\ s.remote = r}

Authorises == Replies(<<[type |-> "CNXN"]>>) /\ online' = TRUE /\ greeting' = "open"
DeviceGreets(m) ==
    CASE greeting = "stls" /\ m.type = "CNXN" ->
           Replies(<<[type |-> "STLS"]>>) /\ greeting' \in {"open", "unknown"}
             /\ UNCHANGED <<online, asked>>
      [] \/ greeting = "open" /\ m.type = "CNXN"
         \/ greeting = "known" /\ m.type = "SIGNATURE" ->
           Authorises /\ asked' = asked
      [] m.type = "KEY" -> asked' = TRUE /\ UNCHANGED <<toHost, greeting, online>>
      [] OTHER -> Replies(<<[type |-> "AUTH"]>>) /\ UNCHANGED <<greeting, online, asked>>

\* a stream is "ready" when its last WRTE has been acknowledged
DeviceOpens(m) ==
    \/ Replies(<<Packet("CLSE", 0, m.local)>>) /\ UNCHANGED <<streams, nextRemote>>
    \/ /\ Replies(<<Packet("OKAY", nextRemote, m.local)>>)
       /\ nextRemote' = nextRemote + 1
       /\ streams' = streams \cup
            {[local |-> m.local, remote |-> nextRemote, op |-> m.service, ready |-> TRUE,
              heard |-> <<>>, refused |-> FALSE,
              out |-> IF m.service.kind \in {"pull", "push"} THEN <<>>
                      ELSE [i \in 1 .. m.service.size |-> <<m.service.n, i>>]]}

\* The sync service answers a request that is complete.  It may refuse one once it has
\* the path: then it says FAIL, at any time, and reads the rest but takes no file.
Answers(s, p) ==
    CASE p[2] = "RECV" -> << <<s.op.n, 1>>, <<s.op.n, 2>> >>
      [] p[2] = "DONE" -> << <<s.op.n, 1>> >>
      [] OTHER -> <<>>
Heard(s, p) ==
    IF s.refused THEN s ELSE [s EXCEPT !.heard = Append(@, p), !.out = @ \o Answers(s, p)]
Refused(s) ==
    [s EXCEPT !.heard = <<>>, !.out = Append(@, <<s.op.n, 1>>), !.refused = TRUE]

DeviceTakes(m) ==
    CASE m.type = "OPEN" -> DeviceOpens(m) /\ delivered' = delivered
      [] m.type = "WRTE" /\ Of(m.local, m.remote) # {} ->
           \E s \in Of(m.local, m.remote) :
              /\ Replies(<<Packet("OKAY", s.remote, s.local)>>)
              /\ \/ /\ streams' = (streams \ {s}) \cup {Heard(s, m.data)}
                    /\ delivered' = IF m.data[2] = "DONE" /\ ~s.refused
                                    THEN delivered \cup {Append(s.heard, m.data)} ELSE delivered
                 \/ /\ ~s.refused /\ m.data[2] \in {"SENDpath", "RECV"}
                    /\ streams' = (streams \ {s}) \cup {Refused(s)}
                    /\ delivered' = delivered
              /\ nextRemote' = nextRemote
      [] m.type = "OKAY" /\ Of(m.local, m.remote) # {} ->
           \E s \in Of(m.local, m.remote) :
              /\ streams' = (streams \ {s}) \cup {[s EXCEPT !.ready = TRUE]}
              /\ UNCHANGED <<toHost, nextRemote, delivered>>
      \* it may answer with a CLSE of its own
      [] m.type = "CLSE" /\ Of(m.local, m.remote) # {} ->
           /\ streams' = streams \ Of(m.local, m.remote)
           /\ Replies(<<>>) \/ Replies(<<Packet("CLSE", 0, m.local)>>)
           /\ UNCHANGED <<nextRemote, delivered>>
      [] OTHER -> UNCHANGED <<toHost, streams, nextRemote, delivered>>

DeviceReceives ==
    /\ link = "up" /\ toDev # <<>>
    /\ toDev' = Tail(toDev)
    /\ IF Head(toDev).type \in {"CNXN", "SIGNATURE", "KEY"}
       THEN DeviceGreets(Head(toDev)) /\ UNCHANGED <<streams, nextRemote, delivered>>
       ELSE DeviceTakes(Head(toDev)) /\ UNCHANGED <<greeting, online, asked>>
    /\ UNCHANGED <<transport, host, link, strayed, ops, faults>>

UserAccepts ==
    /\ asked /\ link = "up"
    /\ asked' = FALSE /\ Authorises
    /\ UNCHANGED <<transport, host, toDev, link, streams, nextRemote,
                   delivered, strayed, ops, faults>>

DeviceWrites ==
    /\ link = "up"
    /\ \E s \in streams :
          /\ s.ready /\ s.out # <<>>
          /\ Replies(<<Write(s.remote, s.local, Head(s.out))>>)
          /\ streams' = (streams \ {s}) \cup {[s EXCEPT !.ready = FALSE, !.out = Tail(@)]}
    /\ UNCHANGED <<transport, host, toDev, link, greeting, online, asked, nextRemote,
                   delivered, strayed, ops, faults>>

\* the command has ended and its output has been sent
CommandEnds ==
    /\ link = "up"
    /\ \E s \in streams :
          /\ s.op.kind \notin {"pull", "push"} /\ s.out = <<>>
          /\ Replies(<<Packet("CLSE", s.remote, s.local)>>)
          /\ streams' = streams \ {s}
    /\ UNCHANGED <<transport, host, toDev, link, greeting, online, asked, nextRemote,
                   delivered, strayed, ops, faults>>

CableIsCut ==
    /\ link = "up" /\ pc # "start" /\ faults < MaxFaults
    /\ faults' = faults + 1
    /\ Goes
    /\ UNCHANGED host

(* ---------------------------- specification ----------------------------- *)

Init ==
    /\ transport \in Transports /\ connected = FALSE /\ secure = FALSE
    /\ pc = "start" /\ op = Props /\ stream = [local |-> 0, remote |-> 0] /\ nextId = 1
    /\ sent = 0 /\ polls = 0 /\ got = <<>> /\ outcome = [op |-> Props, value |-> "none"]
    /\ toDev = <<>> /\ toHost = <<>> /\ link = "up"
    /\ greeting \in Greetings /\ (greeting = "stls" => transport = "tcp")
    /\ online = FALSE /\ asked = FALSE /\ streams = {} /\ nextRemote = 1 /\ delivered = {}
    /\ strayed = FALSE /\ ops = 0 /\ faults = 0

Caller ==
    \/ Connect \/ Disconnect \/ Cancel
    \/ \E size \in Lengths : Operation("shell", size)
    \/ \E k \in {"reboot", "pull", "push"} : Operation(k, 1)
Client == ReceivePacket \/ SendFile \/ LinkIsGone
Adbd == DeviceReceives \/ DeviceWrites \/ CommandEnds
Next == Caller \/ Client \/ ReadTimesOut \/ Adbd \/ UserAccepts \/ CableIsCut

\* The client's tasks run and adbd answers; nothing is assumed of the caller, of
\* the user, of timers or of the cable.
Spec == Init /\ [][Next]_vars /\ WF_vars(Client) /\ WF_vars(Adbd)

(* ------------------------------ properties ------------------------------ *)

TypeOK ==
    /\ transport \in Transports /\ {connected, secure, online, asked, strayed} \subseteq BOOLEAN
    /\ pc \in {"start", "cnxn", "signature", "polls", "idle", "down"} \cup Busy
    /\ op.kind \in Kinds \cup {"props"} /\ op.n \in 0 .. MaxOps
    /\ stream.local < nextId /\ stream.remote < nextRemote
    /\ sent \in 0 .. PushLength /\ polls \in 0 .. MaxPolls
    /\ got \in Seq((0 .. MaxOps) \X Nat)
    /\ outcome.value \in {"none", "true", "false", "exception"}
    /\ link \in {"up", "gone"} /\ greeting \in Greetings \cup {"open", "unknown"}
    /\ delivered \subseteq Seq((1 .. MaxOps) \X Parts \X Nat) /\ ops \in 0 .. MaxOps /\ faults \in 0 .. MaxFaults

\* Over a connection that stands, the client holds itself connected only when the
\* device has taken it for authorised: not on a second challenge, not when the
\* last of the polls is over.
ConnectedIsAuthorised == connected /\ link = "up" => online

\* While no operation has left packets behind, a shell command returns its own
\* output, all of it and in order.
ShellReturnsItsOutput ==
    (/\ pc = "idle" /\ op.kind = "shell" /\ outcome = [op |-> op, value |-> "true"]
     /\ link = "up" /\ ~strayed)
        => got = [i \in 1 .. op.size |-> <<op.n, i>>]

\* An operation begun in step comes to an end.
OperationsEnd == pc \in Busy /\ ~strayed ~> pc \notin Busy

\* Every file the device takes is the whole of one push, under the path that very
\* push has asked for, and no file of pieces of two: however a push was cancelled or
\* cut off between its packets, and whichever stray answer has opened the stream of
\* the next.  (That the path asked for is the caller's is not so, and that a push
\* which returns true has been taken is not either: its FAIL is never looked at.)
FilesAreWhole == \A file \in delivered : \E n \in 1 .. MaxOps : file = PushPackets(n)
=============================================================================
