----------------------------- MODULE FrameWire -----------------------------
(***************************************************************************)
(* Frames on one connection: writers that share it, what the transport     *)
(* makes of their bytes, and the loop that reads frames off it.  Source:   *)
(* frame/frame.go, the transports of client/ and direct/, and the dispatch *)
(* of their read loops as far as it decides which frames are accepted.     *)
(*                                                                         *)
(* Up, goroutines of the SDK write requests and a peer reads them with the *)
(* functions of frame/; down, a peer writes frames of any shape and the    *)
(* SDK reads.  The wire of "tcp" and "kcp" is a sequence of bytes, that of *)
(* "ws", "udp" and "edge" (the UDP of direct/, with a flow id before each  *)
(* datagram) a sequence of messages.                                       *)
(***************************************************************************)
EXTENDS FrameCodec, SequencesExt

CONSTANTS
    Writers,
    Calls,          \* requests: [op, session, id, payload]
    Answers,        \* what the writers of a peer write, each a frame of any
                    \* shape: functions from Writers to [bytes, means]
    Options,        \* [carrier, dir, max, direct], the last whether the
                    \* requests are those of a direct session
    FlowPrefix,     \* the flow id of this flow, 8 bytes
    OtherPrefix,    \* that of another
    DatagramMax,    \* udpMaxDatagramSize, and the size of a read buffer
    MaxMishaps      \* bound: datagrams lost, repeated or misdirected

Streams   == {"tcp", "kcp"}
Datagrams == {"udp", "edge"}
Byte      == 0 .. (Base - 1)
Strings   == Seq(Byte)

ASSUME WireAssumption ==
    /\ Writers \subseteq 1 .. (Base * Base * Base * Base - 1)
    /\ Calls \subseteq [op : Strings, session : Strings, id : Strings, payload : Strings]
    /\ \A a \in Answers : \A w \in Writers : a[w].bytes \in Strings
    /\ Options \subseteq [carrier : Streams \union Datagrams \union {"ws"},
                         dir : {"up", "down"}, max : 0 .. MaxBodySize,
                         direct : BOOLEAN]
    /\ \A o \in Options : o.carrier = "edge" => o.direct
    /\ {FlowPrefix, OtherPrefix} \subseteq Strings
    /\ FlowPrefix # OtherPrefix /\ Len(FlowPrefix) = Len(OtherPrefix)
    /\ DatagramMax \in Nat /\ MaxMishaps \in Nat

VARIABLES
    opt,        \* how the connection was made
    work,       \* what each writer has to write
    writer,     \* where each writer is
    lock,       \* the writer inside the write lock, or {}
    wire,       \* written and not yet read
    down,       \* the connection is closed
    reader,     \* "header", "body", or how the read loop ended
    hdr,        \* the header it has read
    readBuf,    \* the buffer that ReadFrame of a datagram transport reuses
    handed,     \* frames handed to requests and handlers, in order
    mishaps,
    sent,       \* history: writers whose frame was put on the wire, in order
    torn        \* history: a header was written without its body

writeVars == <<work, writer, lock>>
readVars  == <<reader, hdr, readBuf, handed>>
vars == <<opt, writeVars, wire, down, readVars, mishaps, sent, torn>>

IsStream   == opt.carrier \in Streams
IsDatagram == opt.carrier \in Datagrams

-----------------------------------------------------------------------------
(* Writing.                                                                *)

(* The channels of client/ carry the session over connectionless           *)
(* transports only, a direct session carries its ticket over any.          *)
SlotToken(c) ==
    IF opt.direct \/ opt.carrier \in {"kcp", "udp"} THEN c.session ELSE << >>

RequestFlags(c) ==
    (IF SlotToken(c) # << >> THEN FlagSession ELSE 0)
      + (IF c.id # << >> THEN FlagRequestID ELSE 0)

RequestHeader(w, c) ==
    [magic |-> 0, ver |-> 0, type |-> Request, flags |-> RequestFlags(c), seq |-> w,
     len |-> 0]

RequestBody(c) == BuildRequestBody(c.op, SlotToken(c), c.id, c.payload)

(* What a transport refuses to write.                                      *)
Accepts(body) ==
    /\ MayEncode(body, opt.max)
    /\ opt.carrier = "udp"  => HeaderSize + Len(body) <= DatagramMax
    /\ opt.carrier = "edge" => HeaderSize + Len(body) + Len(FlowPrefix) <= DatagramMax

(* One message, or so many bytes of a stream.                              *)
Wrapped(bytes) == IF opt.carrier = "edge" THEN FlowPrefix \o bytes ELSE bytes
OnWire(bytes)  == IF IsStream THEN wire \o bytes ELSE Append(wire, Wrapped(bytes))

BytesOf(w) ==
    IF opt.dir = "down" THEN work[w].bytes
    ELSE LET body == CHOOSE b \in RequestBody(work[w]) : TRUE
         IN  Encode(RequestHeader(w, work[w]), body)

MayWrite == lock = {}

WriterAt(w, from, to) == writer[w] = from /\ writer' = [writer EXCEPT ![w] = to]

(* buildRequestFrame and the size checks of WriteFrame.                    *)
Build(w) ==
    /\ opt.dir = "up"
    /\ WriterAt(w, "idle",
         IF \E b \in RequestBody(work[w]) : Accepts(b) THEN "ready" ELSE "refused")
    /\ UNCHANGED <<opt, work, lock, wire, down, readVars, mishaps, sent, torn>>

(* The whole frame in one write: writev, a WebSocket message, a datagram,  *)
(* and whatever the peer does.                                             *)
WriteFrame(w) ==
    /\ ~down /\ MayWrite
    /\ opt.dir = "up" => opt.carrier # "kcp"
    /\ WriterAt(w, IF opt.dir = "up" THEN "ready" ELSE "idle", "done")
    /\ wire' = OnWire(BytesOf(w))
    /\ sent' = Append(sent, w)
    /\ UNCHANGED <<opt, work, lock, down, readVars, mishaps, torn>>

(* A KCP session is no connection that writev knows: header first.         *)
WriteHeader(w) ==
    /\ ~down /\ MayWrite
    /\ opt.dir = "up" /\ opt.carrier = "kcp"
    /\ WriterAt(w, "ready", "header")
    /\ lock' = lock \union {w}
    /\ wire' = OnWire(SubSeq(BytesOf(w), 1, HeaderSize))
    /\ sent' = Append(sent, w)
    /\ UNCHANGED <<opt, work, down, readVars, mishaps, torn>>

WriteBody(w) ==
    /\ ~down
    /\ WriterAt(w, "header", "done")
    /\ lock' = lock \ {w}
    /\ wire' = OnWire(Rest(BytesOf(w), HeaderSize))
    /\ UNCHANGED <<opt, work, down, readVars, mishaps, sent, torn>>

(* The write deadline of KCP passes with its window full.  The connection  *)
(* stays as it is.                                                         *)
WriteTimeout(w) ==
    /\ opt.dir = "up" /\ opt.carrier = "kcp"
    /\ \/ WriterAt(w, "ready", "failed") /\ MayWrite
       \/ WriterAt(w, "header", "failed")
    /\ lock' = lock \ {w}
    /\ torn' = (torn \/ writer[w] = "header")
    /\ UNCHANGED <<opt, work, wire, down, readVars, mishaps, sent>>

Over == {"done", "failed", "refused"}

(* Whoever still writes to a closed connection fails, in any order: one    *)
(* step, as nobody is affected by it.                                      *)
WritesFail ==
    /\ down /\ \E w \in Writers : writer[w] \notin Over
    /\ writer' = [w \in Writers |-> IF writer[w] \in Over THEN writer[w] ELSE "failed"]
    /\ lock' = {}
    /\ torn' = (torn \/ lock # {})
    /\ UNCHANGED <<opt, work, wire, down, readVars, mishaps, sent>>

-----------------------------------------------------------------------------
(* The network.                                                            *)

(* Some of what is under way still arrives.                                *)
Cut ==
    /\ ~down
    /\ down' = TRUE
    /\ \E k \in 0 .. Len(wire) : wire' = SubSeq(wire, 1, k)
    /\ UNCHANGED <<opt, writeVars, readVars, mishaps, sent, torn>>

Mishap ==
    /\ IsDatagram /\ mishaps < MaxMishaps
    /\ mishaps' = mishaps + 1
    /\ \/ \E i \in DOMAIN wire : wire' = RemoveAt(wire, i)
       \/ \E i \in DOMAIN wire : wire' = Append(wire, wire[i])
       \/ /\ opt.carrier = "edge"
          /\ \E w \in Writers :
               /\ opt.dir = "down"
               /\ wire' = Append(wire, OtherPrefix \o BytesOf(w))
    /\ UNCHANGED <<opt, writeVars, down, readVars, sent, torn>>

-----------------------------------------------------------------------------
(* Reading.                                                                *)

(* What a frame says to the party that reads it: {} ends the connection.   *)
(* A push whose body cannot be parsed says nothing.                        *)
Nothing == [kind |-> "nothing"]
Reply(h, r) == [kind |-> "reply", seq |-> h.seq, data |-> r.data, status |-> r.status]
Push(h, r)  == [kind |-> "push", ver |-> h.ver, op |-> r.op, payload |-> r.payload]
Asked(h, r) == [kind |-> "request", seq |-> h.seq] @@ r

OrNothing(S) == IF S = {} THEN {Nothing} ELSE S

HeardByPeer(h, body) == OrNothing({Asked(h, r) : r \in ParseRequestBody(body, h.flags)})

HeardBySDK(h, body) ==      \* the version of the SDK's side is DefaultVersion
    CASE h.type = Response ->
           {Reply(h, r) : r \in IF h.ver = DefaultVersion THEN DecodeReply(body) ELSE {}}
      [] h.type = Notify -> OrNothing({Push(h, r) : r \in ParseRequestBody(body, 0)})
      [] OTHER -> {}

Meaning(h, body) == IF opt.dir = "up" THEN HeardByPeer(h, body) ELSE HeardBySDK(h, body)

(* An answer is a frame of the length that its header says, and means what *)
(* the SDK hears in this frame alone; but no reader may ask what a frame   *)
(* beyond the absolute limit means.                                        *)
SaysWhatItMeans(a) ==
    LET h == HeaderOf(a.bytes)
    IN  /\ Len(a.bytes) >= HeaderSize /\ Len(a.bytes) = HeaderSize + h.len
        /\ h.len <= MaxBodySize =>
              a.means = IF CheckHeader([h EXCEPT !.len = 0], 0)
                        THEN HeardBySDK(h, Rest(a.bytes, HeaderSize)) ELSE {}

ASSUME AnswersAssumption ==
    \A a \in Answers : \A w \in Writers : SaysWhatItMeans(a[w])

End(how) == /\ reader' = how
            /\ down' = TRUE
            /\ hdr' = Nothing
            /\ UNCHANGED handed

\* Fault: the frames of udp point into the read buffer.
Owned_stream(carrier) == carrier # "udp"
(* The body that leaves ReadFrame is the caller's own: a stream allocates  *)
(* it per frame, a datagram transport copies it out of its buffer.         *)
Owned(carrier) == TRUE

Take(h, body, m) ==
    IF m = {} THEN End("protocol")
    ELSE /\ reader' = "header"
         /\ handed' = IF m = {Nothing} THEN handed
                      ELSE Append(handed, [hdr |-> h, body |-> body,
                                           own |-> Owned(opt.carrier)])
         /\ hdr' = Nothing
         /\ UNCHANGED down
Accept(h, body) == Take(h, body, Meaning(h, body))

ReadOnly == UNCHANGED <<opt, writeVars, mishaps, sent, torn>>

(* ReadFull lacks bytes, or there is no message.                           *)
Needed  == IF reader = "header" THEN HeaderSize ELSE hdr.len
Starved == IF IsStream THEN Len(wire) < Needed ELSE wire = << >>

ReadHeader ==
    /\ IsStream /\ reader = "header" /\ Len(wire) >= HeaderSize
    /\ wire' = Rest(wire, HeaderSize)
    /\ LET h == HeaderOf(wire)
       IN  IF CheckHeader(h, opt.max)
           THEN /\ reader' = "body"
                /\ hdr' = h
                /\ UNCHANGED <<down, handed>>
           ELSE End("protocol")
    /\ UNCHANGED readBuf
    /\ ReadOnly

ReadBody ==
    /\ reader = "body" /\ Len(wire) >= hdr.len
    /\ wire' = Rest(wire, hdr.len)
    /\ Accept(hdr, SubSeq(wire, 1, hdr.len))
    /\ UNCHANGED readBuf
    /\ ReadOnly

(* ReadFull meets the end of the connection before it has its bytes.       *)
ReadEOF ==
    /\ down /\ reader \in {"header", "body"}
    /\ Starved
    /\ End("eof")
    /\ UNCHANGED <<wire, readBuf>>
    /\ ReadOnly

(* gorilla ends a message that is longer than its read limit.              *)
ReadMessage ==
    /\ opt.carrier = "ws" /\ reader = "header" /\ wire # << >>
    /\ wire' = Tail(wire)
    /\ LET ms == IF Len(wire[1]) > HeaderSize + Limit(opt.max) THEN {}
                 ELSE DecodeMessage(wire[1], opt.max)
       IN  IF ms = {} THEN End("protocol")
           ELSE \E m \in ms : Accept(m.hdr, m.body)
    /\ UNCHANGED readBuf
    /\ ReadOnly

MinLen(b)   == IF Len(b) < DatagramMax THEN Len(b) ELSE DatagramMax
Received(b) == SubSeq(b, 1, MinLen(b))
OfFlow(b)   == Len(b) >= Len(FlowPrefix) /\ SubSeq(b, 1, Len(FlowPrefix)) = FlowPrefix

Stripped(b) ==
    IF opt.carrier = "udp" THEN {b}
    ELSE {Rest(x, Len(FlowPrefix)) : x \in {y \in {b} : OfFlow(y)}}

(* A datagram that is no frame is skipped in client/, and an error in      *)
(* direct/; one of another flow is skipped there.                          *)
ReadDatagram(i) ==
    /\ IsDatagram /\ reader = "header" /\ i \in DOMAIN wire
    /\ wire' = RemoveAt(wire, i)
    /\ LET d  == Stripped(Received(wire[i]))
           ms == UNION {DecodeMessage(x, opt.max) : x \in d}
       IN  IF ms # {} THEN \E m \in ms : Accept(m.hdr, m.body)
           ELSE IF opt.carrier = "udp" \/ d = {}
                THEN UNCHANGED <<down, reader, hdr, handed>>
                ELSE End("protocol")
    /\ readBuf' = Received(wire[i]) \o Rest(readBuf, Len(Received(wire[i])))
    /\ ReadOnly

-----------------------------------------------------------------------------
(* Requests of a direct session carry its ticket and no request id.        *)
CallsOver(direct) ==
    IF direct THEN {c \in Calls : c.session # << >> /\ c.id = << >>} ELSE Calls

Init ==
    /\ opt \in Options
    /\ work \in IF opt.dir = "up" THEN [Writers -> CallsOver(opt.direct)] ELSE Answers
    /\ writer = [w \in Writers |-> "idle"]
    /\ lock = {} /\ wire = << >> /\ down = FALSE
    /\ reader = "header" /\ hdr = Nothing /\ readBuf = << >> /\ handed = << >>
    /\ mishaps = 0 /\ sent = << >> /\ torn = FALSE

Stopped == \A w \in Writers : writer[w] \in Over
Done == Stopped /\ reader \in {"protocol", "eof"} /\ UNCHANGED vars

Next ==
    \/ \E w \in Writers : Build(w) \/ WriteFrame(w) \/ WriteHeader(w) \/ WriteBody(w)
                            \/ WriteTimeout(w)
    \/ WritesFail \/ Cut \/ Mishap
    \/ ReadHeader \/ ReadBody \/ ReadEOF \/ ReadMessage
    \/ \E i \in 1 .. Len(wire) : ReadDatagram(i)
    \/ Done

Spec == Init /\ [][Next]_vars
-----------------------------------------------------------------------------
(* Properties.  Said is what a writer wants to say; {} is a frame that no  *)
(* reader may accept.                                                      *)

Said(w) ==
    IF opt.dir = "down" THEN work[w].means
    ELSE {Asked([seq |-> w], [op |-> work[w].op, session |-> SlotToken(work[w]),
                              id |-> work[w].id, payload |-> work[w].payload])}

TooLong(bytes) ==
    \/ Len(bytes) > HeaderSize + Limit(opt.max)
    \/ IsDatagram /\ Len(Wrapped(bytes)) > DatagramMax

Bad(w) == Said(w) = {} \/ TooLong(BytesOf(w))

BytesNow(f) == IF f.own THEN f.body
               ELSE LET from == Len(Wrapped(<< >>)) + HeaderSize
                    IN  SubSeq(readBuf, from + 1, from + f.hdr.len)

(* What the handed frames say to whoever looks at them now.                *)
Got == [i \in 1 .. Len(handed) |-> Meaning(handed[i].hdr, BytesNow(handed[i]))]

(* Frame i went out without its body.                                      *)
HalfWritten(i) == writer[sent[i]] = "failed"

(* The first n frames handed over are the first k written, in their order, *)
(* those that say nothing left out; at[i] is where the i-th was written.   *)
SaidBy(n, k) ==
    \E at \in [1 .. n -> 1 .. k] :
       /\ \A i, j \in 1 .. n : i < j => at[i] < at[j]
       /\ {at[i] : i \in 1 .. n} = {i \in 1 .. k : Said(sent[i]) # {Nothing}}
       /\ \A i \in 1 .. n : Got[i] = Said(sent[at[i]])

TypeOK ==
    /\ opt \in Options
    /\ writer \in [Writers -> {"idle", "ready", "header", "done", "failed", "refused"}]
    /\ lock \subseteq Writers /\ Cardinality(lock) <= 1
    /\ wire \in IF IsStream THEN Strings ELSE Seq(Strings)
    /\ readBuf \in Strings /\ Len(readBuf) <= DatagramMax
    /\ reader \in {"header", "body", "protocol", "eof"}
    /\ reader = "body" <=> hdr # Nothing
    /\ reader = "body" => CheckHeader(hdr, opt.max)
    /\ {down, torn} \subseteq BOOLEAN
    /\ mishaps \in 0 .. MaxMishaps

(* On a reliable transport frames are handed over whole, unchanged and in  *)
(* the order in which they were written, whatever the writers, the cut and *)
(* the chunks of the stream (frame.go:98 and channel.go:25: no frame is    *)
(* interleaved with another), up to the first bad one, and up to the first *)
(* whose header went out without its body: of what follows that one the    *)
(* reader makes what it can.                                               *)
InOrder ==
    ~IsDatagram => \E k \in 0 .. Len(sent), n \in 0 .. Len(handed) :
        /\ \A i \in 1 .. k : ~Bad(sent[i]) /\ ~HalfWritten(i)
        /\ SaidBy(n, k)
        /\ n < Len(handed) => k < Len(sent) /\ HalfWritten(k + 1)

(* Nobody is handed what was not said: not after a datagram was repeated,  *)
(* truncated or belongs to another flow, and not once the read buffer has  *)
(* been filled again (transport_udp.go:61, direct/transport.go:246).       *)
NothingMadeUp ==
    IsDatagram => \A i \in DOMAIN Got : \E w \in ToSet(sent) : ~Bad(w) /\ Got[i] = Said(w)

(* A read loop ends with a protocol error only if a frame was bad: a frame *)
(* at a limit, a lost one or a misdirected one is no reason.               *)
EndsForAReason ==
    reader = "protocol" => torn \/ \E w \in ToSet(sent) : Bad(w)

(* A read loop that waits for more has left nothing unread, and everything *)
(* that could be read has been handed over.                                *)
AllArrive ==
    Stopped /\ ~down /\ ~torn /\ mishaps = 0 /\ Starved =>
        /\ reader = "header" /\ wire = << >>
        /\ \A w \in ToSet(sent) : Bad(w) \/ Said(w) = {Nothing} \/ Said(w) \in ToSet(Got)

(* What transport_kcp.go:60 and 68 say, a whole frame in one write.  TLC   *)
(* refutes it: a deadline may pass between the two writes of a frame, the  *)
(* connection goes on (invoke.go:230-235) and the next frame is taken for  *)
(* the missing body.                                                       *)
WholeFrames == reader = "protocol" => \E w \in ToSet(sent) : Bad(w)
=============================================================================
