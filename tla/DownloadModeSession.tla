------------------------- MODULE DownloadModeSession -------------------------
(* DownloadModeFlasher: a Samsung Download Mode session over UsbDeviceManager.*)
(*                                                                            *)
(* The host runs one public method at a time; "pc" is the transfer it is at.  *)
(* Requests and image data go out in order; answers come back in order and    *)
(* carry nothing that says what they answer.  Whatever the host has given up  *)
(* waiting for is therefore the first thing a later call reads: "strayed"     *)
(* says that it has once given up on an answer that was still to come.        *)
(* An image is a sequence of units <<partition, index>>.  The device is code  *)
(* outside the repository.                                                    *)
EXTENDS Integers, Sequences, FiniteSets

CONSTANTS
    Package,      \* partitions the FirmwarePackage holds an image of
    Units,        \* Package -> the length of the image in units
    ChunkUnits,   \* units in a chunk of MAX_TRANSFER_SIZE bytes
    Lists,        \* the partition lists FlashFirmwareAsync is called with
    MaxCalls,     \* bound: public calls
    MaxFaults,    \* bound: transfers that fail, and cables pulled
    MaxReturns    \* bound: times the device comes back

\* a firmware package is a dictionary and its list of names is its keys, so no
\* list has a partition twice
ASSUME SessionAssumption ==
    /\ Units \in [Package -> Nat]
    /\ ChunkUnits \in Nat \ {0}
    /\ \A l \in Lists : /\ l \in Seq(UNION {{l[i]} : i \in DOMAIN l})
                        /\ \A i, j \in DOMAIN l : l[i] = l[j] => i = j
    /\ {MaxCalls, MaxFaults, MaxReturns} \subseteq Nat

VARIABLES
    active,     \* _sessionActive
    pc, op,     \* the transfer the host is at, in which method
    todo,       \* partitions FlashFirmwareAsync has left, the current one first
    sent,       \* units of the current image passed to WriteAsync
    ok, failed, \* FirmwareFlashResult.SuccessfulPartitions, FailedPartitions
    outcome,    \* how the last call ended
    toDev, toHost, link,
    dev, target,    \* what the device is doing, the partition it programs
    flash,          \* what it has programmed
    strayed,
    calls, faults, returns

host == <<active, pc, op, todo, sent, ok, failed, outcome>>
bounds == <<calls, faults, returns>>
device == <<dev, target, flash>>
wire == <<toDev, toHost, link>>
vars == <<host, wire, device, strayed, bounds>>

Whole(p) == [i \in 1 .. Units[p] |-> <<p, i>>]
Old(p) == << <<p, 0>> >>        \* what a partition holds before

Plain == {"initialize", "identify", "pit", "end", "reboot", "dispose"}
Answers == {"OK", "NAK", "info"}
\* "empty": the read returned nothing; "null": the transfer itself failed
Responses == Answers \cup {"empty", "null"}

(* ------------------------------- the host ------------------------------- *)

Returns(o) == pc' = "idle" /\ op' = "none" /\ todo' = <<>> /\ sent' = 0 /\ outcome' = o
Ends(o) == Returns(o) /\ UNCHANGED <<ok, failed>>
\* an exception: the caller of FlashFirmwareAsync gets no result
Throws(o) == Returns(o) /\ ok' = {} /\ failed' = {}

GoesTo(l) == pc' = l /\ UNCHANGED <<op, todo, sent, ok, failed, outcome>>

Start(o) ==
    /\ pc = "idle" /\ calls < MaxCalls
    /\ o = "dispose" => active
    /\ calls' = calls + 1
    /\ op' = o /\ pc' = "request" /\ outcome' = "none"
    /\ UNCHANGED <<active, todo, sent, ok, failed, wire, device, strayed, faults, returns>>

FlashFirmware(l) ==
    /\ pc = "idle" /\ calls < MaxCalls
    /\ calls' = calls + 1
    /\ op' = "flash" /\ pc' = "next" /\ outcome' = "none"
    /\ todo' = l /\ ok' = {} /\ failed' = {}
    /\ UNCHANGED <<active, sent, wire, device, strayed, faults, returns>>

\* the current partition is done with
Settled(success) ==
    /\ pc' = "next" /\ todo' = Tail(todo) /\ sent' = 0
    /\ ok' = IF success THEN ok \cup {Head(todo)} ELSE ok
    /\ failed' = IF success THEN failed ELSE failed \cup {Head(todo)}
    /\ UNCHANGED <<op, outcome>>

VerdictOfAny == IF ok # {} THEN "success" ELSE "failure"        \* mutant
Verdict == IF failed = {} THEN "success" ELSE "failure"

NextPartition ==
    /\ pc = "next"
    /\ CASE todo = <<>> -> Ends(Verdict)
         [] todo # <<>> /\ Head(todo) \notin Package -> Settled(FALSE)
         [] todo # <<>> /\ Head(todo) \in Package /\ ~active -> Throws("exception")
         [] OTHER -> GoesTo("request")
    /\ UNCHANGED <<active, wire, device, strayed, bounds>>

RequestOfCall ==                                \* mutant
    IF op = "flash" THEN [kind |-> "file", name |-> Head(todo)] ELSE [kind |-> op]
Request ==
    IF op = "flash" THEN [kind |-> "file", name |-> Head(todo)]
                    ELSE [kind |-> IF op = "dispose" THEN "end" ELSE op]

SendRequest ==
    /\ pc = "request" /\ link = "up"
    /\ toDev' = Append(toDev, Request)
    /\ GoesTo("response")
    /\ UNCHANGED <<active, toHost, link, device, strayed, bounds>>

\* response[0] on an array that a read timeout left empty throws
BeginsUnchecked(a) == a \in Answers             \* mutant
Begins(a) == a = "OK"

StaysActive(a) ==                               \* mutant
    CASE op = "initialize" -> active \/ a = "OK"
      [] op = "reboot" -> FALSE
      [] OTHER -> active
ActiveAfter(a) ==
    CASE op = "initialize" -> active \/ a = "OK"
      [] op \in {"end", "dispose", "reboot"} -> FALSE
      [] OTHER -> active

Responded(a) ==
    /\ active' = ActiveAfter(a)
    /\ CASE op = "initialize" -> Ends(IF a = "OK" THEN "true" ELSE "false")
         [] op = "identify" -> Ends(IF a = "info" THEN "true" ELSE "exception")
         [] op = "pit" -> Ends("exception")
         [] op = "end" -> Ends(IF a = "empty" THEN "exception" ELSE "true")
         [] op \in {"reboot", "dispose"} -> Ends("true")
         [] op = "flash" /\ a = "empty" -> Throws("exception")
         [] op = "flash" /\ Begins(a) ->
              IF Units[Head(todo)] = 0 THEN Settled(TRUE) ELSE GoesTo("chunk")
         [] OTHER -> Settled(FALSE)

Receives == link = "up" /\ toHost # <<>> /\ toHost' = Tail(toHost)

ReceiveResponse ==
    /\ pc = "response" /\ Receives
    /\ Responded(Head(toHost))
    /\ UNCHANGED <<toDev, link, device, strayed, bounds>>

Chunk == SubSeq(Whole(Head(todo)), sent + 1,
                IF sent + ChunkUnits <= Units[Head(todo)] THEN sent + ChunkUnits
                                                          ELSE Units[Head(todo)])

\* The number of bytes written is only reported: a short write, of the first n
\* units, is followed by the wait for the ACK all the same.
SendChunk ==
    /\ pc = "chunk" /\ link = "up"
    /\ \E n \in 0 .. Len(Chunk) :
        /\ IF n = Len(Chunk) THEN faults' = faults
           ELSE faults < MaxFaults /\ faults' = faults + 1
        /\ toDev' = Append(toDev, [kind |-> "data", units |-> SubSeq(Chunk, 1, n)])
    /\ sent' = sent + Len(Chunk)
    /\ pc' = "ack"
    /\ UNCHANGED <<active, op, todo, ok, failed, outcome, toHost, link, device,
                   calls, strayed, returns>>

\* "ack.Length == 0 || ack[0] != 0x01"
AckedUnlessRefused(a) == a # "NAK"              \* mutant
Acked(a) == a = "OK"

Acknowledged(a) ==
    IF Acked(a)
    THEN IF sent = Units[Head(todo)] THEN Settled(TRUE) ELSE GoesTo("chunk")
    ELSE Settled(FALSE)

ReceiveAck ==
    /\ pc = "ack" /\ Receives
    /\ Acknowledged(Head(toHost))
    /\ UNCHANGED <<active, toDev, link, device, strayed, bounds>>

\* The host stops waiting while the device still has something to answer.
GivesUp == strayed' = (strayed \/ toDev # <<>> \/ toHost # <<>>)

\* the 5 s timer fires
ResponseTimesOut ==
    /\ pc = "response" /\ link = "up" /\ toHost = <<>>
    /\ GivesUp
    /\ Responded("empty")
    /\ UNCHANGED <<wire, device, calls, faults, returns>>

AckTimesOutIfIdle ==                            \* mutant
    /\ pc = "ack" /\ link = "up" /\ toHost = <<>> /\ toDev = <<>>
    /\ Acknowledged("empty")
    /\ UNCHANGED <<active, wire, device, strayed, bounds>>
AckTimesOut ==
    /\ pc = "ack" /\ link = "up" /\ toHost = <<>>
    /\ GivesUp
    /\ Acknowledged("empty")
    /\ UNCHANGED <<active, wire, device, calls, faults, returns>>

\* A control transfer that reports failure may have reached the device.
RequestFails ==
    /\ pc = "request" /\ link = "up" /\ faults < MaxFaults
    /\ faults' = faults + 1
    /\ \/ UNCHANGED <<strayed, toDev>>
       \/ strayed' = TRUE /\ toDev' = Append(toDev, Request)
    /\ Responded("null")
    /\ UNCHANGED <<toHost, link, device, calls, returns>>

\* With the device gone a transfer returns 0, or throws once the handle is
\* closed.  ControlTransferAsync turns either into a response.
DeviceIsGone ==
    /\ link = "gone"
    /\ \/ pc \in {"request", "response"} /\ \E a \in {"empty", "null"} :
             (pc = "request" => a = "null") /\ Responded(a)
       \/ pc = "chunk" /\ active' = active /\ (Throws("exception") \/ Settled(FALSE))
       \/ pc = "ack" /\ active' = active /\ (Throws("exception") \/ Acknowledged("empty"))
    /\ UNCHANGED <<wire, device, strayed, bounds>>

\* The token is looked at before each partition, each chunk and each transfer.
Cancel ==
    /\ \/ pc = "next" /\ todo # <<>>
       \/ pc \in {"request", "chunk", "ack"} /\ op # "dispose"
    /\ IF pc = "ack" THEN GivesUp ELSE strayed' = strayed
    /\ Throws("cancelled")
    /\ UNCHANGED <<active, wire, device, calls, faults, returns>>

(* ------------------------------ the device ------------------------------ *)

Replies(a) == toHost' = Append(toHost, a)
Stays == UNCHANGED <<link, target, flash>>

\* how much of an image has come in when the device acknowledges: a whole chunk
\* more than before, or all of it
Boundary(p, n) == n = Units[p] \/ n % ChunkUnits = 0
Crossed(p, m, n) == \E k \in m + 1 .. n : Boundary(p, k)

Leaves == dev' = "off" /\ link' = "gone" /\ toHost' = <<>> /\ toDev' = <<>>

DeviceTakes(m) ==
    CASE m.kind = "initialize" /\ dev # "off" ->
           \/ Replies("OK") /\ dev' = "session" /\ Stays
           \/ Replies("NAK") /\ dev' = dev /\ Stays
      [] m.kind \in {"identify", "pit"} /\ dev # "off" ->
           Replies("info") /\ dev' = dev /\ Stays
      [] m.kind \in {"end", "reboot"} /\ dev # "off" ->
           Replies("OK") /\ dev' = "off" /\ Stays
      [] m.kind = "file" /\ dev \in {"session", "transfer"} ->
           \/ /\ Replies("OK") /\ target' = m.name
              /\ flash' = [flash EXCEPT ![m.name] = <<>>]
              /\ dev' = IF Units[m.name] = 0 THEN "session" ELSE "transfer"
              /\ link' = link
           \/ Replies("NAK") /\ dev' \in {dev, "session"} /\ Stays
      [] m.kind = "file" /\ dev = "idle" -> Replies("NAK") /\ dev' = dev /\ Stays
      [] m.kind = "data" /\ dev = "transfer" ->
           LET got == flash[target] \o m.units
               new == SubSeq(got, 1, IF Len(got) <= Units[target] THEN Len(got)
                                                                  ELSE Units[target])
           IN  /\ flash' = [flash EXCEPT ![target] = new]
               /\ UNCHANGED <<target, link>>
               /\ IF ~Crossed(target, Len(flash[target]), Len(new))
                  THEN UNCHANGED <<toHost, dev>>
                  ELSE \/ Replies("NAK") /\ dev' = "session"
                       \/ Replies("OK") /\ dev' = IF Len(new) = Units[target]
                                                  THEN "session" ELSE dev
      [] OTHER -> UNCHANGED <<toHost, dev>> /\ Stays

DeviceReceives ==
    /\ toDev # <<>> /\ link = "up"
    /\ toDev' = Tail(toDev)
    /\ DeviceTakes(Head(toDev))
    /\ UNCHANGED <<host, strayed, bounds>>

\* after an end or reboot request, and whatever was still to be read is lost
DeviceLeaves ==
    /\ dev = "off" /\ link = "up"
    /\ Leaves
    /\ UNCHANGED <<host, target, flash, strayed, bounds>>

Unplugged ==
    /\ link = "up" /\ dev # "off" /\ faults < MaxFaults
    /\ faults' = faults + 1
    /\ Leaves
    /\ UNCHANGED <<host, target, flash, calls, strayed, returns>>

\* the user puts the device back into Download Mode and the program opens it
DeviceReturns ==
    /\ link = "gone" /\ pc = "idle" /\ returns < MaxReturns
    /\ returns' = returns + 1
    /\ link' = "up" /\ dev' = "idle"
    /\ UNCHANGED <<host, toDev, toHost, target, flash, calls, strayed, faults>>

(* ---------------------------- specification ----------------------------- *)

Init ==
    /\ active = FALSE /\ pc = "idle" /\ op = "none" /\ todo = <<>> /\ sent = 0
    /\ ok = {} /\ failed = {} /\ outcome = "none"
    /\ toDev = <<>> /\ toHost = <<>> /\ link = "up"
    /\ dev = "idle" /\ target = "none" /\ flash = [p \in Package |-> Old(p)]
    /\ strayed = FALSE /\ calls = 0 /\ faults = 0 /\ returns = 0

Caller == (\E o \in Plain : Start(o)) \/ (\E l \in Lists : FlashFirmware(l)) \/ Cancel
Host == NextPartition \/ SendRequest \/ ReceiveResponse \/ ResponseTimesOut \/ RequestFails
          \/ SendChunk \/ ReceiveAck \/ AckTimesOut \/ DeviceIsGone
Device == DeviceReceives \/ DeviceLeaves \/ Unplugged \/ DeviceReturns
Next == Caller \/ Host \/ Device

\* A transfer ends, by its timeout if need be: nothing is assumed of the caller
\* or of the device.
Spec == Init /\ [][Next]_vars /\ WF_vars(Host)

(* ------------------------------ properties ------------------------------ *)

Listed == UNION {{l[i] : i \in DOMAIN l} : l \in Lists}
Messages ==
    [kind : Plain \ {"dispose"}] \cup [kind : {"file"}, name : Package]
      \cup [kind : {"data"}, units : Seq(Package \X Nat)]

HostOK ==
    /\ active \in BOOLEAN /\ sent \in Nat
    /\ pc \in {"idle", "next", "request", "response", "chunk", "ack"}
    /\ op \in Plain \cup {"flash", "none"}
    /\ todo = <<>> \/ \E l \in Lists : \E i \in DOMAIN l : todo = SubSeq(l, i, Len(l))
    /\ ok \subseteq Package /\ failed \subseteq Listed
    /\ outcome \in {"none", "true", "false", "success", "failure", "exception", "cancelled"}
WireOK == toDev \in Seq(Messages) /\ toHost \in Seq(Answers) /\ link \in {"up", "gone"}
DeviceOK ==
    /\ dev \in {"idle", "session", "transfer", "off"}
    /\ target \in Package \cup {"none"}
    /\ flash \in [Package -> Seq(Package \X Nat)]
BoundsOK ==
    /\ strayed \in BOOLEAN /\ calls \in 0 .. MaxCalls
    /\ faults \in 0 .. MaxFaults /\ returns \in 0 .. MaxReturns
TypeOK == HostOK /\ WireOK /\ DeviceOK /\ BoundsOK

\* While no answer has been given up too early, a partition FlashFirmwareAsync
\* counts as successful is on the device, all of it: whatever was refused, cut
\* short, unplugged or cancelled on the way, and whatever a later call did.
FlashedUnlessStrayed == ~strayed => \A p \in ok : flash[p] = Whole(p)

\* While no answer has been given up too early, no byte of one partition's image
\* is programmed into another: a refused transfer is followed by no data.
LandsInItsPartition ==
    ~strayed => \A p \in Package : \A i \in DOMAIN flash[p] : flash[p][i][1] = p

\* Between calls _sessionActive is only true of a device that is in a session,
\* unless the device has been away or an answer was given up too early.
SessionAgrees ==
    pc = "idle" /\ active /\ link = "up" /\ returns = 0 /\ ~strayed
        => dev \in {"session", "transfer"}

\* The flasher is a reliable flash, as long as no answer has been given up too early:
\* a partition changes only in a call that names it, and no more once the call has
\* reported it; FlashFirmwareAsync succeeds only when it has reported all of its list.
CallState == IF op = "flash" THEN "busy" ELSE IF outcome = "success" THEN "success" ELSE "idle"
InList == {todo[i] : i \in DOMAIN todo}
Due == IF op = "flash" THEN (InList \cup failed) \ ok ELSE {}
Flasher == INSTANCE ReliableFlash WITH
    Partitions <- Package,
    Image <- [p \in Package |-> Whole(p)],
    Content <- [p \in Package |-> Seq({p} \X Nat)],
    state <- CallState, asked <- InList, due <- Due, reported <- ok, late <- strayed
FlashIsReliable == Flasher!Spec

\* Every call returns to its caller, if only by a timeout.
CallsReturn == pc # "idle" ~> pc = "idle"
=============================================================================
