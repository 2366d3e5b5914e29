----------------------------- MODULE FrameCodec -----------------------------
(***************************************************************************)
(* The frame codec: header, request body, reply envelope and status.       *)
(* Source: frame/ and frame/gen/codec_gen.go.                              *)
(*                                                                         *)
(* A byte is a number below Base.  The code has Base = 256; a smaller even *)
(* one keeps a four-byte field within TLC's integers, and every limit that *)
(* the code derives from a width is a constant here.  A decoder that may   *)
(* refuse returns the set of what its input stands for: empty if refused,  *)
(* one element otherwise.  The code's two kinds of refusal (incomplete and *)
(* protocol) meet the same fate wherever the SDK decodes a whole message.  *)
(***************************************************************************)
EXTENDS Integers, Sequences, FiniteSets

CONSTANTS
    Base,
    Magic, DefaultVersion, PayloadVersions,
    MaxBodySize, MaxOperationLen, MaxSessionLen, MaxRequestIDLen,
    VarintLen,      \* bytes of the longest varint; the code's 10
    VarintTop,      \* the last of so many is at most this; the code's 1
    Int32Range      \* the code's 2^32

ASSUME CodecAssumption ==
    /\ Base \in Nat /\ Base % 2 = 0 /\ Base > 8
    /\ Magic \in 1 .. (Base * Base * Base * Base - 1)
    /\ MaxBodySize \in 0 .. (Base * Base * Base * Base - 1)
    /\ {MaxOperationLen, MaxSessionLen, MaxRequestIDLen} \subseteq 0 .. (Base * Base - 1)
    /\ DefaultVersion \in PayloadVersions \intersect 1 .. (Base - 1)

HeaderSize == 16
Request    == 1
Response   == 2
Notify     == 3
FlagSession   == 1
FlagRequestID == 2

Has(flags, bit) == (flags \div bit) % 2 = 1
Rest(b, n)      == SubSeq(b, n + 1, Len(b))

-----------------------------------------------------------------------------
(* Big-endian numbers of two or four bytes: Put drops what does not fit in *)
(* w bytes, as the conversion to uint16 or uint32 does.                    *)

Two(n)    == <<(n \div Base) % Base, n % Base>>
Put(w, n) == IF w = 2 THEN Two(n) ELSE Two((n \div Base) \div Base) \o Two(n)
Num(b)    == IF Len(b) = 2 THEN Base * b[1] + b[2]
             ELSE Base * (Base * (Base * b[1] + b[2]) + b[3]) + b[4]

-----------------------------------------------------------------------------
(* The header.                                                             *)

EncodeHeader(h) ==
    Put(4, h.magic) \o <<h.ver, h.type, h.flags, 0>> \o Put(4, h.seq) \o Put(4, h.len)

HeaderOf(b) ==
    [magic |-> Num(SubSeq(b, 1, 4)), ver |-> b[5], type |-> b[6], flags |-> b[7],
     seq |-> Num(SubSeq(b, 9, 12)), len |-> Num(SubSeq(b, 13, 16))]

Limit(max) == IF max <= 0 THEN MaxBodySize ELSE max

\* Fault: a body may not be as long as the limit.
Fits_below(len, max) == len < Limit(max)
Fits(len, max) == len <= Limit(max)

CheckHeader(h, max) ==
    /\ h.magic = Magic
    /\ h.seq # 0
    /\ h.type \in {Request, Response, Notify}
    /\ h.ver \in PayloadVersions
    /\ h.flags < FlagSession + FlagRequestID + 1
    /\ Fits(h.len, max)

\* Fault: the length counts the header.
LengthOf_frame(body) == HeaderSize + Len(body)
LengthOf(body) == Len(body)

(* The header that Encode and Write put before a body.                     *)
Completed(h, body) ==
    [h EXCEPT !.magic = IF @ = 0 THEN Magic ELSE @,
              !.ver   = IF @ = 0 THEN DefaultVersion ELSE @,
              !.len   = LengthOf(body)]

MayEncode(body, max) == Fits(Len(body), max)

Encode(h, body) == EncodeHeader(Completed(h, body)) \o body

DecodeMessage(b, max) ==
    IF Len(b) < HeaderSize THEN {}
    ELSE {[hdr |-> h, body |-> Rest(b, HeaderSize)] :
             h \in {x \in {HeaderOf(b)} :
                      CheckHeader(x, max) /\ Len(b) - HeaderSize = x.len}}

-----------------------------------------------------------------------------
(* A request body: operation, optional session and request id, payload.    *)

Segment(b, w) ==
    IF Len(b) < w \/ Len(b) < w + Num(SubSeq(b, 1, w)) THEN {}
    ELSE LET n == Num(SubSeq(b, 1, w))
         IN  {[seg |-> SubSeq(b, w + 1, w + n), rest |-> Rest(b, w + n)]}

Optional(b, there) == IF there THEN Segment(b, 2) ELSE {[seg |-> << >>, rest |-> b]}

ParseRequestBody(body, flags) ==
    UNION {UNION {{[op |-> o.seg, session |-> s.seg, id |-> i.seg, payload |-> i.rest] :
                     i \in Optional(s.rest, Has(flags, FlagRequestID))} :
              s \in Optional(o.rest, Has(flags, FlagSession))} :
       o \in {x \in Segment(body, 2) : Len(x.seg) <= MaxOperationLen}}

Prefixed(s) == Put(2, Len(s)) \o s
Slot(s)     == IF s = << >> THEN << >> ELSE Prefixed(s)

\* Fault: the request id goes first.
Slots_swapped(session, id) == Slot(id) \o Slot(session)
Slots(session, id) == Slot(session) \o Slot(id)

BuildRequestBody(op, session, id, payload) ==
    IF Len(op) \in 1 .. MaxOperationLen /\ Len(session) <= MaxSessionLen
                                        /\ Len(id) <= MaxRequestIDLen
    THEN {Prefixed(op) \o Slots(session, id) \o payload}
    ELSE {}

-----------------------------------------------------------------------------
(* The status of a refusal: protobuf fields, of which varints and byte     *)
(* strings are understood.  A varint that the code gives a length that is  *)
(* not positive has the length 0.                                          *)

Half    == Base \div 2
Illegal == [n |-> 0, num |-> 0]

MinOf(S) == CHOOSE i \in S : \A j \in S : i <= j
MaxOf(S) == CHOOSE i \in S : \A j \in S : i >= j

VarintOf(b, n) ==
    LET from[i \in 1 .. n + 1] == IF i > n THEN 0 ELSE (b[i] % Half) + Half * from[i + 1]
    IN  IF n > VarintLen \/ (n = VarintLen /\ b[n] > VarintTop) THEN Illegal
        ELSE [n |-> n, num |-> from[1]]

Uvarint(b) ==
    IF \A i \in 1 .. Len(b) : b[i] >= Half THEN Illegal
    ELSE VarintOf(b, MinOf({i \in 1 .. Len(b) : b[i] < Half}))

Varint == 0
Bytes  == 2
Field(key, val, num) ==
    [field |-> key.num \div 8, wire |-> key.num % 8, val |-> val, num |-> num]
Broken == [field |-> 0, wire |-> 9, val |-> << >>, num |-> 0]

(* The field of b whose key ends at position p and whose number is v, and  *)
(* where the next one starts.                                              *)
FieldWith(b, p, key, v) ==
    IF key.n = 0 \/ v.n = 0 \/ key.num % 8 \notin {Varint, Bytes}
    THEN [f |-> Broken, next |-> 0]
    ELSE IF key.num % 8 = Varint THEN [f |-> Field(key, << >>, v.num), next |-> p + v.n]
    ELSE IF Len(b) - (p + v.n) < v.num THEN [f |-> Broken, next |-> 0]
    ELSE [f    |-> Field(key, SubSeq(b, p + v.n + 1, p + v.n + v.num), 0),
          next |-> p + v.n + v.num]

FieldFrom(b, p, key) == FieldWith(b, p, key, Uvarint(Rest(b, p)))
FieldAt(b, p) ==
    LET key == Uvarint(Rest(b, p)) IN FieldFrom(b, p + key.n, key)

(* The fields of a message in order; the last is Broken if it ends badly.  *)
Fields(b) ==
    LET at == [p \in 0 .. Len(b) - 1 |-> FieldAt(b, p)]
        walk[p \in 0 .. Len(b)] ==
          IF p = Len(b) THEN << >>
          ELSE <<at[p].f>> \o (IF at[p].f = Broken THEN << >> ELSE walk[at[p].next])
    IN  walk[0]

Whole(fs) == \A i \in DOMAIN fs : fs[i] # Broken

(* What the last field f of that wire type leaves behind.                  *)
LastOf(fs, f, wire) ==
    LET is == {i \in DOMAIN fs : fs[i].field = f /\ fs[i].wire = wire}
    IN  IF is = {} THEN Broken ELSE fs[MaxOf(is)]

MapEntries(fs) == {i \in DOMAIN fs : fs[i].field = 4 /\ fs[i].wire = Bytes}
KeyOf(entry)   == LastOf(Fields(entry), 1, Bytes).val
ValueOf(entry) == LastOf(Fields(entry), 2, Bytes).val

(* Metadata is a map: a later entry with the same key replaces the value.  *)
Metadata(fs) ==
    {<<KeyOf(fs[i].val), ValueOf(fs[i].val)>> :
        i \in {j \in MapEntries(fs) : \A k \in MapEntries(fs) :
                 k > j => KeyOf(fs[k].val) # KeyOf(fs[j].val)}}

Int32(n) == LET m == n % Int32Range
            IN  IF m < Int32Range \div 2 THEN m ELSE m - Int32Range

ZeroStatus == [code |-> 0, reason |-> << >>, message |-> << >>, metadata |-> {},
               class |-> 0]

StatusOf(fs) ==
    IF Whole(fs) /\ \A i \in MapEntries(fs) : Whole(Fields(fs[i].val))
    THEN {[code     |-> Int32(LastOf(fs, 1, Varint).num),
           reason   |-> LastOf(fs, 2, Bytes).val,
           message  |-> LastOf(fs, 3, Bytes).val,
           metadata |-> Metadata(fs),
           class    |-> Int32(LastOf(fs, 5, Varint).num)]}
    ELSE {}
DecodeStatus(b) == StatusOf(Fields(b))

-----------------------------------------------------------------------------
(* The reply envelope.  status is {} in a success.                         *)

DecodeReply(b) ==
    IF Len(b) < 5 THEN {}
    ELSE IF b[1] = 0
    THEN {[data |-> d.seg, status |-> {}] : d \in Segment(Rest(b, 1), 4)}
    ELSE UNION {UNION {{[data |-> d.seg, status |-> {st}] : d \in Segment(s.rest, 4)} :
                   st \in IF s.seg = << >> THEN {ZeroStatus} ELSE DecodeStatus(s.seg)} :
            s \in Segment(Rest(b, 1), 4)}
=============================================================================
