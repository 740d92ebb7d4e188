---------------------------- MODULE SaharaSession ----------------------------
(* One EDL session: FirehoseClient.InitializeAsync with the Sahara state      *)
(* machine and the loader uploader, the Firehose commands sent afterwards,    *)
(* and DisconnectAsync, against a device on the other end of IDeviceTransport.*)
(*                                                                            *)
(* The host is one async method at a time: "pc" is the await it is parked at  *)
(* and "call" the public method it runs.  The two directions of the transport *)
(* are FIFO queues.  The device is code outside the repository; it may ask    *)
(* for any part of the loader in any order, end the transfer when it likes,   *)
(* reset, or send what the protocol does not expect.                          *)
EXTENDS Integers, Sequences, FiniteSets

CONSTANTS
    LoaderLen,      \* bytes of the programmer file
    Word,           \* 2^w: offsets and lengths travel as w-bit words
    Offsets, Sizes, \* the words a device may put in a READ_DATA request
    Replies,        \* the chunk sequences a Firehose programmer may answer with
    MaxCalls,       \* bound: public calls the host makes
    MaxAsks,        \* bound: packets the boot ROM sends after HELLO
    MaxResets,      \* bound: times the device starts over
    MaxReply        \* chunks that make up the 1 MB cap on a response

ASSUME SessionAssumption ==
    /\ Word \in Nat /\ Word > 0 /\ Word % 2 = 0
    /\ LoaderLen \in Nat /\ LoaderLen < Word \div 2
    /\ Offsets \subseteq 0..(Word - 1) /\ Sizes \subseteq 0..(Word - 1)
    /\ Replies \subseteq Seq({"log", "ACK", "NAK"})
    /\ {MaxCalls, MaxAsks, MaxResets, MaxReply} \subseteq Nat

VARIABLES
    sm,         \* SaharaStateMachine.CurrentState
    chip,       \* ChipInfo has been set
    pc,         \* the await the host is parked at
    call,       \* the public method it runs
    outcome,    \* how the last call ended
    received,   \* chunks the transport returned for the current response
    toHost, toDev,  \* the two directions of the transport
    link,       \* the transport is connected
    dev,        \* what the device is doing
    asked,      \* READ_DATA requests the device waits on
    held,       \* <<position, byte>>: the part of the loader the device holds
    calls, asks, resets

host == <<sm, chip, pc, call, outcome, received, calls>>
device == <<dev, asked, held, asks, resets>>
vars == <<host, toHost, toDev, link, device>>

SaharaStates == {"Disconnected", "HelloReceived", "HelloSent", "ImageUploading",
                 "ImageUploadComplete", "CommandMode", "MemoryDebugMode", "Done",
                 "Error"}
Calls == {"initialize", "detect", "asks", "needs", "info", "power"}
Commands == Calls \ {"initialize", "detect"}
\* "protocol" (an unexpected packet), "header" (no packet) and "transition" (a
\* refused TransitionTo) are all a SaharaProtocolException
Outcomes == {"none", "ok", "false", "protocol", "header", "transition", "firehose",
             "range", "io"}
Points == {"idle", "hello", "respond", "loader", "upload", "complete", "send", "reply"}
Chunks == {"log", "ACK", "NAK"}
DeviceStates == {"hello", "transfer", "firehose", "refused"}

Requests == [kind : {"ReadData"}, off : Offsets, len : Sizes]
PlainKinds == {"Hello", "ShortHello", "ShortRead", "EndOfImage", "EndWithError", "Other"}
Packets == Requests \cup [kind : PlainKinds]
FromDevice == Packets \cup [kind : Chunks]
Kinds == {"ReadData"} \cup PlainKinds \cup Chunks
FromHost == [kind : {"HelloRsp", "Xml"}]
              \cup [kind : {"Chunk"}, bytes : Seq(0..(LoaderLen - 1))]
              \cup [kind : {"EndOfImage"}, at : 0..(Word - 1)]

(* ------------------------------ arithmetic ------------------------------ *)

\* (int)u for an unsigned word u, and the unchecked int subtraction
Signed(u) == IF u >= Word \div 2 THEN u - Word ELSE u
Wrap(n) == Signed(n % Word)

Available(r) == Wrap(LoaderLen - Signed(r.off))
SendLen(r) == IF Signed(r.len) <= Available(r) THEN Signed(r.len) ELSE Available(r)

\* the host ends the transfer itself when the request starts past the loader
PastTheEndOrLast(r) == Available(r) <= 1                \* mutant
PastTheEnd(r) == Available(r) <= 0

\* new byte[sendLen] and Array.Copy throw on a negative length or offset
CopyThrowsOnLength(r) == SendLen(r) < 0                \* mutant
CopyThrows(r) == SendLen(r) < 0 \/ Signed(r.off) < 0

\* the chunk sent for a request: byte i of the loader is written i
SliceFromStart(r) == [k \in 1..SendLen(r) |-> k - 1]    \* mutant
Slice(r) == [k \in 1..SendLen(r) |-> r.off + k - 1]

(* --------------------------- the state machine -------------------------- *)

ValidTransitions ==
    {<<"Disconnected", "HelloReceived">>, <<"HelloReceived", "HelloSent">>,
     <<"HelloSent", "ImageUploading">>, <<"ImageUploading", "ImageUploading">>,
     <<"ImageUploading", "ImageUploadComplete">>,
     <<"ImageUploadComplete", "CommandMode">>, <<"HelloSent", "MemoryDebugMode">>,
     <<"ImageUploadComplete", "MemoryDebugMode">>, <<"CommandMode", "Done">>,
     <<"MemoryDebugMode", "Done">>, <<"ImageUploadComplete", "Done">>,
     <<"Error", "Disconnected">>}
AnyTransition(from, to) == TRUE                         \* mutant
IsValidTransition(from, to) == to = "Error" \/ <<from, to>> \in ValidTransitions

(* ------------------------------- the host ------------------------------- *)

\* a call ends: o is what its caller sees
Ends(o) == pc' = "idle" /\ call' = "none" /\ outcome' = o /\ received' = <<>>
GoesTo(l) == pc' = l /\ UNCHANGED <<call, outcome, received>>

\* TransitionTo, going on at l when the transition is valid
TransitionTo(s, l) ==
    IF IsValidTransition(sm, s)
    THEN sm' = s /\ GoesTo(l)
    ELSE sm' = sm /\ Ends("transition")

Sends(m) == toDev' = Append(toDev, m)

Enter(c, l) ==
    /\ pc = "idle" /\ calls < MaxCalls
    /\ calls' = calls + 1 /\ call' = c /\ pc' = l /\ outcome' = "none" /\ received' = <<>>
    /\ UNCHANGED <<sm, chip>>

Initialize == Enter("initialize", "hello") /\ UNCHANGED <<toHost, toDev, link, device>>

\* LoaderDetector.DetectAsync opens the transport itself
Detect ==
    /\ Enter("detect", "hello")
    /\ link' = "up"
    /\ UNCHANGED <<toHost, toDev, device>>

\* the commands do not look at IsInitialized
Command(c) == Enter(c, "send") /\ UNCHANGED <<toHost, toDev, link, device>>

Receives(l) == pc = l /\ link = "up" /\ toHost # <<>> /\ toHost' = Tail(toHost)

ReceiveHello ==
    /\ Receives("hello") /\ call = "initialize"
    /\ CASE Head(toHost).kind = "Hello" ->
              chip' = TRUE /\ TransitionTo("HelloReceived", "respond")
         [] Head(toHost).kind = "ShortHello" -> Ends("range") /\ UNCHANGED <<sm, chip>>
         [] OTHER -> Ends("protocol") /\ UNCHANGED <<sm, chip>>
    /\ UNCHANGED <<calls, toDev, link, device>>

\* DetectAsync answers HELLO without telling the state machine
DetectHello ==
    /\ Receives("hello") /\ call = "detect"
    /\ CASE Head(toHost).kind = "Hello" ->
              Sends([kind |-> "HelloRsp"]) /\ \E o \in {"ok", "false"} : Ends(o)
         [] Head(toHost).kind = "ShortHello" -> Ends("range") /\ toDev' = toDev
         [] OTHER -> Ends("protocol") /\ toDev' = toDev
    /\ UNCHANGED <<sm, chip, calls, link, device>>

SendHelloRsp ==
    /\ pc = "respond" /\ link = "up"
    /\ Sends([kind |-> "HelloRsp"])
    /\ TransitionTo("HelloSent", "loader")
    /\ UNCHANGED <<chip, calls, toHost, link, device>>

\* the loader file is looked for only after the device has been answered
OpenLoader ==
    /\ pc = "loader"
    /\ \/ Ends("io") /\ sm' = sm
       \/ TransitionTo("ImageUploading", "upload")
    /\ UNCHANGED <<chip, calls, toHost, toDev, link, device>>

\* one pass of UploadAsync's loop.  EndOfImageTransfer is success whatever
\* status it carries.
ReceiveRequest ==
    /\ Receives("upload")
    /\ LET m == Head(toHost) IN
       CASE m.kind \in {"EndOfImage", "EndWithError"} ->
              TransitionTo("ImageUploadComplete", "complete") /\ toDev' = toDev
         [] m.kind = "ReadData" /\ PastTheEnd(m) ->
              /\ Sends([kind |-> "EndOfImage", at |-> m.off])
              /\ TransitionTo("ImageUploadComplete", "complete")
         [] m.kind = "ReadData" /\ ~PastTheEnd(m) /\ CopyThrows(m) ->
              Ends("range") /\ UNCHANGED <<sm, toDev>>
         [] m.kind = "ReadData" /\ ~PastTheEnd(m) /\ ~CopyThrows(m) ->
              /\ Sends([kind |-> "Chunk", bytes |-> Slice(m)])
              /\ GoesTo("upload") /\ sm' = sm
         [] OTHER -> Ends("protocol") /\ UNCHANGED <<sm, toDev>>
    /\ UNCHANGED <<chip, calls, link, device>>

\* CommandMode is entered before <configure> is sent
EnterCommandMode ==
    /\ pc = "complete"
    /\ TransitionTo("CommandMode", "send")
    /\ UNCHANGED <<chip, calls, toHost, toDev, link, device>>

SendXml ==
    /\ pc = "send" /\ link = "up"
    /\ Sends([kind |-> "Xml"])
    /\ GoesTo("reply")
    /\ UNCHANGED <<sm, chip, calls, toHost, link, device>>

\* ReadWithTimeoutAsync returns the length of what arrived and leaves the
\* caller's buffer as it was: what is parsed is blank.  The branch that ends
\* the loop on an ACK or NAK in the text is therefore never taken.
Stored(c) == "blank"
IsAck(chunks) == chunks # <<>> /\ Stored(chunks[Len(chunks)]) = "ACK"

\* what the caller of a command sees of the response
Verdict(c, chunks) ==
    CASE c \in {"initialize", "needs"} -> IF IsAck(chunks) THEN "ok" ELSE "firehose"
      [] c = "asks" -> IF IsAck(chunks) THEN "ok" ELSE "false"
      [] OTHER -> "ok"

ReplyEnds == Len(received) = MaxReply
ReadReply ==
    /\ pc = "reply" /\ link = "up" /\ toHost # <<>> /\ ~ReplyEnds
    /\ toHost' = Tail(toHost)
    /\ received' = Append(received, Head(toHost).kind)
    /\ UNCHANGED <<sm, chip, pc, call, outcome, calls, toDev, link, device>>

\* the 500 ms timer fires, whatever is on its way, or the response is at its cap
OverAtTheCap ==                                          \* mutant
    /\ pc = "reply" /\ link = "up" /\ ReplyEnds
    /\ Ends(Verdict(call, received))
    /\ UNCHANGED <<sm, chip, calls, toHost, toDev, link, device>>
ReplyIsOver ==
    /\ pc = "reply" /\ link = "up"
    /\ Ends(Verdict(call, received))
    /\ UNCHANGED <<sm, chip, calls, toHost, toDev, link, device>>

\* a read of the header that brings nothing is a protocol exception
PacketTimesOut ==
    /\ pc \in {"hello", "upload"} /\ link = "up" /\ toHost = <<>>
    /\ Ends("header")
    /\ UNCHANGED <<sm, chip, calls, toHost, toDev, link, device>>

\* a closed transport throws; ResetAsync swallows it
TransportFails ==
    /\ pc \in {"hello", "respond", "upload", "send", "reply"} /\ link = "down"
    /\ Ends(IF call = "power" THEN "ok" ELSE "io")
    /\ UNCHANGED <<sm, chip, calls, toHost, toDev, link, device>>

\* The transport is closed first; the transition back is then refused, as
\* nothing ever calls SetError.
Disconnect ==
    /\ pc = "idle" /\ calls < MaxCalls
    /\ calls' = calls + 1
    /\ link' = "down" /\ toHost' = <<>> /\ toDev' = <<>>
    /\ IF IsValidTransition(sm, "Disconnected")
       THEN sm' = "Disconnected" /\ Ends("ok")
       ELSE sm' = sm /\ Ends("transition")
    /\ UNCHANGED <<chip, device>>

(* ------------------------------ the device ------------------------------ *)

Answers(ms) == toHost' = toHost \o ms

\* power on, a watchdog reset, or the cable: the boot ROM starts with HELLO
DeviceResets ==
    /\ resets < MaxResets
    /\ resets' = resets + 1
    /\ dev' = "hello" /\ asked' = <<>> /\ held' = {} /\ toDev' = <<>>
    /\ \/ link = "up" /\ link' = link
             /\ \E k \in {"Hello", "ShortHello", "Other"} : Answers(<<[kind |-> k]>>)
       \/ link = "up" /\ link' = "down" /\ toHost' = <<>>
       \/ link = "down" /\ link' = "up" /\ toHost' = <<[kind |-> "Hello"]>>
    /\ UNCHANGED <<host, asks>>

\* the boot ROM asks for a part of the loader or ends the transfer
DeviceAsks ==
    /\ dev = "transfer" /\ link = "up" /\ asks < MaxAsks
    /\ asks' = asks + 1
    /\ \/ \E r \in Requests : Answers(<<r>>) /\ asked' = Append(asked, r) /\ dev' = dev
       \/ \E k \in {"ShortRead", "Other"} : Answers(<<[kind |-> k]>>) /\ UNCHANGED <<asked, dev>>
       \/ Answers(<<[kind |-> "EndOfImage"]>>) /\ dev' = "firehose" /\ asked' = asked
       \/ Answers(<<[kind |-> "EndWithError"]>>) /\ dev' = "refused" /\ asked' = asked
    /\ UNCHANGED <<host, toDev, link, held, resets>>

\* the device puts a chunk where it asked for it
DeviceReceives ==
    /\ toDev # <<>> /\ link = "up"
    /\ toDev' = Tail(toDev)
    /\ LET m == Head(toDev) IN
       CASE m.kind = "HelloRsp" /\ dev = "hello" ->
              dev' = "transfer" /\ UNCHANGED <<toHost, asked, held>>
         [] m.kind = "Chunk" /\ asked # <<>> ->
              /\ held' = held \cup {<<Head(asked).off + k - 1, m.bytes[k]>> : k \in 1..Len(m.bytes)}
              /\ asked' = Tail(asked)
              /\ UNCHANGED <<toHost, dev>>
         [] m.kind = "EndOfImage" /\ dev = "transfer" ->
              dev' = "refused" /\ UNCHANGED <<toHost, asked, held>>
         [] m.kind = "Xml" /\ dev = "firehose" ->
              /\ \E a \in Replies : Answers([i \in 1..Len(a) |-> [kind |-> a[i]]])
              /\ UNCHANGED <<dev, asked, held>>
         [] OTHER -> UNCHANGED <<toHost, dev, asked, held>>
    /\ UNCHANGED <<host, link, asks, resets>>

(* ---------------------------- specification ----------------------------- *)

Init ==
    /\ sm = "Disconnected" /\ chip = FALSE
    /\ pc = "idle" /\ call = "none" /\ outcome = "none" /\ received = <<>>
    /\ toHost = <<[kind |-> "Hello"]>> /\ toDev = <<>> /\ link = "up"
    /\ dev = "hello" /\ asked = <<>> /\ held = {}
    /\ calls = 0 /\ asks = 0 /\ resets = 0

Caller == Initialize \/ Detect \/ Disconnect \/ \E c \in Commands : Command(c)
Handshake == ReceiveHello \/ DetectHello \/ SendHelloRsp \/ OpenLoader
                \/ ReceiveRequest \/ EnterCommandMode \/ PacketTimesOut
Exchange == SendXml \/ ReadReply \/ ReplyIsOver \/ TransportFails
Device == DeviceResets \/ DeviceAsks \/ DeviceReceives
Next == Caller \/ Handshake \/ Exchange \/ Device

\* The host is one thread: while it can take a step of a call it does, and
\* its timers fire.  Nothing is assumed of the caller or of the device.
Spec == Init /\ [][Next]_vars /\ WF_vars(Exchange)

(* ------------------------------ properties ------------------------------ *)

HostOK ==
    /\ sm \in SaharaStates /\ chip \in BOOLEAN
    /\ pc \in Points /\ call \in Calls \cup {"none"} /\ outcome \in Outcomes
    /\ received \in Seq(Kinds) /\ calls \in 0..MaxCalls
WireOK == toHost \in Seq(FromDevice) /\ toDev \in Seq(FromHost) /\ link \in {"up", "down"}
DeviceOK ==
    /\ dev \in DeviceStates /\ asked \in Seq(Requests)
    /\ held \subseteq Nat \X (0..(LoaderLen - 1))
    /\ asks \in 0..MaxAsks /\ resets \in 0..MaxResets
TypeOK == HostOK /\ WireOK /\ DeviceOK

\* Whatever the device asks for, in whatever order, a byte it holds is the loader's
\* byte of that position (SaharaLoaderUploader.UploadAsync's chunks), also when it
\* starts over once at any point of the transfer.  Twice is too often: the host
\* greets the device it finds in the queue, and what it then answers may be a
\* request of the device before the last.
DeviceHoldsLoader == resets <= 1 => \A x \in held : x[1] = x[2]

\* The host ends the transfer itself only on a request past the loader's last
\* byte, with offsets taken as the unsigned words they are on the wire: no
\* request inside the loader is lost to the cast to int.
HostEndsPastLoader ==
    \A i \in DOMAIN toDev : toDev[i].kind = "EndOfImage" => toDev[i].at >= LoaderLen

Stages == <<"Disconnected", "HelloReceived", "HelloSent", "ImageUploading",
            "ImageUploadComplete", "CommandMode">>

\* However calls, failures and device resets interleave, the session moves
\* forward one stage of the handshake at a time: no stage is skipped or
\* repeated, and no call (DisconnectAsync included) brings an object that has
\* left Disconnected back to it.
OneWayHandshake ==
    [][sm' # sm => \E i \in 1..5 : sm = Stages[i] /\ sm' = Stages[i + 1]]_vars

\* A command that has been sent ends: its caller is answered even when the
\* device is silent, keeps talking, or resets (SendCommandAsync's timer).
CommandsEnd == pc \in {"send", "reply"} ~> pc = "idle"
=============================================================================
