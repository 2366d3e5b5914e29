---------------------------- MODULE MCFrameWire ----------------------------
(* Small instances of FrameWire: what is asked and answered.               *)
EXTENDS FrameWire

ATLS  == ((65 * Base + 84) * Base + 76) * Base + 83
Flow  == <<0, 0, 0, 0, 0, 0, 1, 2>>
Other == <<0, 0, 0, 0, 0, 0, 1, 3>>
Conn(c, d, m) == [carrier |-> c, dir |-> d, max |-> m, direct |-> c = "edge"]
Direct(c) == [Conn(c, "up", 0) EXCEPT !.direct = TRUE]
All == {Conn(c, d, 0) : c \in {"tcp", "ws", "udp", "edge"}, d \in {"up", "down"}}
         \union {Conn("kcp", "up", 0), Direct("ws"), Direct("kcp")}
         \union {Conn("tcp", "up", 10), Conn("ws", "down", 10)}

Zeros(n) == [i \in 1 .. n |-> 0]
Frame(ver, type, flags, seq, body) ==
    EncodeHeader([magic |-> Magic, ver |-> ver, type |-> type, flags |-> flags,
                  seq |-> seq, len |-> Len(body)]) \o body

(* Calls: with and without session and id, a payload that looks like a     *)
(* segment or holds a frame, too long an operation, sizes at the limits.   *)
Call(op, session, id, payload) ==
    [op |-> op, session |-> session, id |-> id, payload |-> payload]
Inner == <<0, 3, 9>> \o Zeros(6) \o Frame(1, Request, 0, 9, <<0, 1, 1>>)
Asks == {Call(<<1>>, <<2, 3>>, << >>, << >>), Call(<<4>>, << >>, <<5>>, <<0, 1>>),
         Call(<<6>>, <<7>>, <<8>>, Inner), Call(Zeros(5), << >>, << >>, << >>),
         Call(<<1>>, <<2>>, << >>, Zeros(28)), Call(<<1>>, <<2>>, << >>, Zeros(29)),
         Call(<<1>>, << >>, << >>, Zeros(39)), Call(<<1>>, << >>, << >>, Zeros(41)),
         Call(<<1>>, << >>, << >>, Zeros(42))}

(* What a peer writes.                                                     *)
Answer(bytes, means) == [bytes |-> bytes, means |-> means]

Counted(b) == Put(4, Len(b)) \o b
Key(f, w)  == <<8 * f + w>>
Str(f, s)  == Key(f, Bytes) \o <<Len(s)>> \o s
MinusOne   == <<Base - 1, Base - 1, 1>>
StatusBytes ==
    Str(2, <<1, 2>>) \o Key(1, Varint) \o MinusOne \o Key(7, Varint) \o <<Base - 1, 1>>
      \o Str(4, Str(1, <<3>>) \o Str(2, <<4>>)) \o Str(4, Str(1, <<3>>) \o Str(2, << >>))
      \o Key(5, Varint) \o <<2>>
StatusMeant ==
    [code |-> -1, reason |-> <<1, 2>>, message |-> << >>, metadata |-> {<< <<3>>, << >> >>},
     class |-> 2]

Ok(seq, data)  == {[kind |-> "reply", seq |-> seq, data |-> data, status |-> {}]}
No(seq, st)    == {[kind |-> "reply", seq |-> seq, data |-> << >>, status |-> {st}]}
Pushed(v, p)   == {[kind |-> "push", ver |-> v, op |-> <<1>>, payload |-> p]}
Success(data)  == <<0>> \o Counted(data)
Failure(st)    == <<1>> \o Counted(st) \o Counted(<< >>)

Sound == {
    Answer(Frame(1, Response, 0, 1, Success(<<0, 1>>)), Ok(1, <<0, 1>>)),
    Answer(Frame(1, Response, 0, 2, Failure(StatusBytes)), No(2, StatusMeant)),
    Answer(Frame(1, Response, 0, 3, Failure(<< >>)), No(3, ZeroStatus)),
    Answer(Frame(3, Notify, 0, 4, <<0, 1, 1, 9>>), Pushed(3, <<9>>)),
    Answer(Frame(1, Notify, 3, 5, <<0, 1, 1>> \o Zeros(MaxBodySize - 3)),
           Pushed(1, Zeros(MaxBodySize - 3))),
    Answer(Frame(1, Notify, 0, 6, <<0, 9, 1>>), {Nothing}),
    Answer(Frame(1, Notify, 0, 7, << >>), {Nothing})}
Unsound == {
    Answer(bytes, {}) : bytes \in {
        Frame(1, Response, 0, 0, Success(<< >>)), Frame(2, Response, 0, 1, Success(<< >>)),
        Frame(4, Notify, 0, 1, <<0, 0>>), Frame(1, Notify, 4, 1, <<0, 0>>),
        Frame(1, Request, 0, 1, <<0, 0>>), Frame(1, Notify, 0, 1, Zeros(MaxBodySize + 1)),
        Frame(1, Response, 0, 1, <<0, 0, 0, 0, 1>>), Frame(1, Response, 0, 1, << >>),
        Frame(1, Response, 0, 1, Failure(<<Base - 1>>)),
        Frame(1, Response, 0, 1, Failure(Str(4, <<Base - 1>>))),
        Frame(1, Response, 0, 1, Failure(Key(1, Varint) \o <<Base - 1, Base - 1, 2>>))}}

(* Two frames that are never both unsound: the first of those ends it all. *)
Peers == {[w \in Writers |-> IF w = 1 THEN a ELSE b] : a \in Sound, b \in Sound \union Unsound}
=============================================================================
