--------------------------- MODULE FrameWire_proofs ---------------------------
(***************************************************************************)
(* Machine-checked facts about FrameCodec and FrameWire: a request reads   *)
(* back as it was built, for every width of a byte; and whatever writers,  *)
(* network and reader do to frames on any carrier, for every set of calls, *)
(* of a peer's frames and of options.                                      *)
(***************************************************************************)
EXTENDS FrameWire, FiniteSetTheorems, TLAPS

-----------------------------------------------------------------------------
(* Sequences, put together and cut.                                        *)

(* Sequences with the same elements are one.                               *)
LEMMA Equal ==
    ASSUME NEW S, NEW s \in Seq(S), NEW t \in Seq(S), Len(s) = Len(t),
           \A i \in 1 .. Len(s) : s[i] = t[i]
    PROVE  s = t
OBVIOUS

(* z is s and then t; z is what s has from position a to b.                *)
Within(s, a, b) == a \in Nat \ {0} /\ b \in Nat /\ a <= b + 1 /\ b <= Len(s)

IsCat(z, s, t) ==
    /\ Len(z) = Len(s) + Len(t)
    /\ \A i \in 1 .. Len(s) : z[i] = s[i]
    /\ \A i \in 1 .. Len(t) : z[Len(s) + i] = t[i]

IsCut(z, s, a, b) ==
    /\ Len(z) = b - a + 1
    /\ \A i \in 1 .. b - a + 1 : z[i] = s[a + i - 1]

(* What is in one sequence followed by another.                            *)
LEMMA Joined ==
    ASSUME NEW S, NEW s \in Seq(S), NEW t \in Seq(S)
    PROVE  s \o t \in Seq(S) /\ IsCat(s \o t, s, t)
BY DEF IsCat

(* What SubSeq takes out of a sequence.                                    *)
LEMMA Cuts ==
    ASSUME NEW S, NEW s \in Seq(S), NEW a, NEW b, Within(s, a, b)
    PROVE  SubSeq(s, a, b) \in Seq(S) /\ IsCut(SubSeq(s, a, b), s, a, b)
BY DEF IsCut, Within

LEMMA CutIs ==
    ASSUME NEW S, NEW s \in Seq(S), NEW t \in Seq(S), NEW a, NEW b,
           Within(s, a, b), IsCut(t, s, a, b)
    PROVE  SubSeq(s, a, b) = t
<1> DEFINE u == SubSeq(s, a, b)
<1>1. u \in Seq(S) /\ IsCut(u, s, a, b)  BY Cuts, Zenon
<1> HIDE DEF u
<1>2. Len(u) = Len(t) /\ \A i \in 1 .. Len(u) : u[i] = t[i]  BY <1>1 DEF IsCut
<1>3. u = t  BY <1>1, <1>2, Equal
<1> QED  BY <1>3 DEF u

LEMMA WholeCut ==
    ASSUME NEW S, NEW s \in Seq(S)
    PROVE  SubSeq(s, 1, Len(s)) = s
BY CutIs DEF Within, IsCut

LEMMA Rests ==
    ASSUME NEW S, NEW s \in Seq(S), NEW m \in 0 .. Len(s)
    PROVE  Rest(s, m) \in Seq(S) /\ IsCut(Rest(s, m), s, m + 1, Len(s))
BY DEF Rest, IsCut

(* Rest drops the first of two sequences put together.                     *)
LEMMA RestOfJoined ==
    ASSUME NEW S, NEW s \in Seq(S), NEW t \in Seq(S)
    PROVE  Rest(s \o t, Len(s)) = t
<1> DEFINE z == s \o t
           a == Len(s) + 1
           b == Len(z)
<1>1. z \in Seq(S) /\ IsCat(z, s, t)  BY Joined, Zenon
<1> HIDE DEF z
<1>2. Len(s) \in Nat /\ Len(t) \in Nat /\ b = Len(s) + Len(t)  BY <1>1 DEF IsCat
<1>3. Within(z, a, b) /\ IsCut(t, z, a, b)
  <2>1. Len(t) = b - a + 1  BY <1>2
  <2>2. \A i \in 1 .. Len(t) : a + i - 1 = Len(s) + i  BY <1>2
  <2> QED  BY <1>1, <1>2, <2>1, <2>2 DEF Within, IsCut, IsCat
<1>4. Rest(z, Len(s)) = SubSeq(z, a, b)  BY DEF Rest
<1> HIDE DEF a, b
<1>5. SubSeq(z, a, b) = t  BY <1>1, <1>3, CutIs
<1>6. Rest(z, Len(s)) = t  BY <1>4, <1>5
<1> QED  BY <1>6 DEF z

(* A prefix taken of two sequences put together is the first of them.      *)
LEMMA StartOfJoined ==
    ASSUME NEW S, NEW s \in Seq(S), NEW t \in Seq(S)
    PROVE  SubSeq(s \o t, 1, Len(s)) = s
<1> DEFINE z == s \o t
<1>1. z \in Seq(S) /\ IsCat(z, s, t)  BY Joined, Zenon
<1> HIDE DEF z
<1>2. Within(z, 1, Len(s)) /\ IsCut(s, z, 1, Len(s))  BY <1>1 DEF IsCat, Within, IsCut
<1>3. SubSeq(z, 1, Len(s)) = s  BY <1>1, <1>2, CutIs
<1> QED  BY <1>3 DEF z

-----------------------------------------------------------------------------
(* Numbers of two and four bytes.                                          *)

(* What CodecAssumption says of Base.                                      *)
LEMMA ByteIs == Base \in Nat /\ Base > 8 /\ 0 \in Byte /\ Byte \subseteq Nat
BY CodecAssumption DEF Byte

(* A number is its last byte and the others.                               *)
LEMMA LastByte ==
    ASSUME NEW n \in Nat
    PROVE  /\ n \div Base \in Nat /\ n % Base \in Byte
           /\ n = Base * (n \div Base) + (n % Base)
<1>1. Base \in Nat /\ Base > 8  BY ByteIs
<1> QED  BY <1>1 DEF Byte

(* A number below Base times m, divided by Base, is below m.               *)
LEMMA Shorter ==
    ASSUME NEW n \in Nat, NEW m \in Nat, n < Base * m
    PROVE  n \div Base < m
<1> DEFINE q == n \div Base
<1>1. q \in Nat /\ Base * q <= n  BY LastByte, ByteIs DEF Byte
<1> HIDE DEF q
<1>2. SUFFICES ASSUME q >= m PROVE FALSE  BY <1>1 DEF q
<1>3. \A b, x, y \in Nat : x >= y => b * x >= b * y  OBVIOUS
<1>4. Base * q >= Base * m  BY <1>1, <1>2, <1>3, ByteIs
<1>5. Base * q \in Nat /\ Base * m \in Nat  BY <1>1, ByteIs
<1> QED  BY <1>1, <1>4, <1>5

(* PutUint16 and Uint16: two bytes written and read.                       *)
LEMMA TwoBytes ==
    ASSUME NEW n \in Nat, n < Base * Base
    PROVE  Two(n) \in Strings /\ Len(Two(n)) = 2 /\ Num(Two(n)) = n
<1> DEFINE q == n \div Base
           r == n % Base
<1>1. q \in Nat /\ q < Base /\ r \in Byte /\ n = Base * q + r
  BY LastByte, Shorter, ByteIs
<1>2. q % Base = q
  <2>1. \A x, y \in Nat : x < y => x % y = x  OBVIOUS
  <2> QED  BY <1>1, <2>1, ByteIs
<1>3. Two(n) = <<q, r>>  BY <1>2 DEF Two
<1> HIDE DEF q, r
<1>4. q \in Byte /\ r \in Byte  BY <1>1, ByteIs DEF Byte
<1>5. /\ Two(n) \in Seq(Byte) /\ Len(Two(n)) = 2 /\ Two(n)[1] = q /\ Two(n)[2] = r
  BY <1>3, <1>4
<1> QED  BY <1>1, <1>5 DEF Num, Strings

(* PutUint32 and Uint32: four bytes written and read.                      *)
LEMMA FourBytes ==
    ASSUME NEW n \in Nat, n < Base * Base * Base * Base
    PROVE  Put(4, n) \in Strings /\ Len(Put(4, n)) = 4 /\ Num(Put(4, n)) = n
<1> DEFINE q1 == n \div Base
           q2 == q1 \div Base
           q3 == q2 \div Base
<1>0. Base \in Nat /\ Base * Base \in Nat /\ Base * Base * Base \in Nat
  BY ByteIs
<1>1. q1 \in Nat /\ n % Base \in Byte /\ n = Base * q1 + (n % Base) /\ q1 < Base * Base * Base
  <2>1. n < Base * (Base * Base * Base)
    <3>1. \A b \in Nat : b * b * b * b = b * (b * b * b)  OBVIOUS
    <3> QED  BY <1>0, <3>1
  <2> QED  BY <1>0, <2>1, LastByte, Shorter
<1> HIDE DEF q1
<1>2. q2 \in Nat /\ q1 % Base \in Byte /\ q1 = Base * q2 + (q1 % Base) /\ q2 < Base * Base
  <2>1. q1 < Base * (Base * Base)
    <3>1. \A b \in Nat : b * b * b = b * (b * b)  OBVIOUS
    <3> QED  BY <1>0, <1>1, <3>1
  <2> QED  BY <1>0, <1>1, <2>1, LastByte, Shorter
<1> HIDE DEF q2
<1>3. q3 \in Nat /\ q2 % Base \in Byte /\ q2 = Base * q3 + (q2 % Base) /\ q3 < Base
  BY <1>0, <1>2, LastByte, Shorter
<1> HIDE DEF q3
<1>4. q3 % Base = q3 /\ q3 \in Byte
  <2>1. \A x, y \in Nat : x < y => x % y = x  OBVIOUS
  <2>2. q3 % Base = q3  BY <1>0, <1>3, <2>1, Zenon
  <2> QED  BY <1>0, <1>3, <2>2 DEF Byte
<1> DEFINE r2 == q2 % Base
           r1 == q1 % Base
           r0 == n % Base
<1> DEFINE x == <<q3, r2>>
           y == <<r1, r0>>
<1>5. Put(4, n) = x \o y
  <2>1. Two(q2) = x  BY <1>4 DEF Two, q3
  <2>2. Two(n) = y  BY DEF Two, q1
  <2>3. Put(4, n) = Two(q2) \o Two(n)  BY DEF Put, q1, q2
  <2> QED  BY <2>1, <2>2, <2>3
<1>6. {q3, r2, r1, r0} \subseteq Byte /\ n = Base * (Base * (Base * q3 + r2) + r1) + r0
  BY <1>1, <1>2, <1>3, <1>4
<1> HIDE DEF r2, r1, r0
<1>7. /\ x \in Seq(Byte) /\ y \in Seq(Byte) /\ Len(x) = 2 /\ Len(y) = 2
      /\ x[1] = q3 /\ x[2] = r2 /\ y[1] = r1 /\ y[2] = r0
  BY <1>6
<1> HIDE DEF x, y
<1>8. Put(4, n) \in Seq(Byte) /\ IsCat(Put(4, n), x, y)  BY <1>5, <1>7, Joined, Zenon
<1>9. /\ Len(Put(4, n)) = 4
      /\ Put(4, n)[1] = q3 /\ Put(4, n)[2] = r2 /\ Put(4, n)[3] = r1 /\ Put(4, n)[4] = r0
  BY <1>7, <1>8 DEF IsCat
<1>10. Num(Put(4, n)) = Base * (Base * (Base * q3 + r2) + r1) + r0  BY <1>9 DEF Num
<1> QED  BY <1>6, <1>8, <1>9, <1>10 DEF Strings

-----------------------------------------------------------------------------
(* The header.                                                             *)

Quads   == 0 .. (Base * Base * Base * Base - 1)
Headers == [magic : Quads, ver : Byte, type : Byte, flags : Byte, seq : Quads, len : Quads]

(* A field of the header of four bytes.                                    *)
LEMMA QuadBytes ==
    ASSUME NEW n \in Quads
    PROVE  Put(4, n) \in Seq(Byte) /\ Len(Put(4, n)) = 4 /\ Num(Put(4, n)) = n
<1>1. \A b \in Nat : b * b * b * b \in Nat  OBVIOUS
<1>2. \A m \in Nat : \A i \in 0 .. (m - 1) : i \in Nat /\ i < m  OBVIOUS
<1>3. n \in Nat /\ n < Base * Base * Base * Base  BY <1>1, <1>2, ByteIs DEF Quads
<1> QED  BY <1>3, FourBytes DEF Strings

(* The first sixteen bytes are all that a header is read from.             *)
LEMMA HeaderAgrees ==
    ASSUME NEW b \in Strings, NEW c \in Strings, Len(b) >= HeaderSize, Len(c) >= HeaderSize,
           \A i \in 1 .. HeaderSize : b[i] = c[i]
    PROVE  HeaderOf(b) = HeaderOf(c)
<1>1. ASSUME NEW m \in 1 .. 16, NEW n \in 1 .. 16, m <= n
      PROVE  SubSeq(b, m, n) = SubSeq(c, m, n)
  <2> DEFINE u == SubSeq(c, m, n)
  <2>1. Within(b, m, n) /\ Within(c, m, n)
    <3>1. m \in Nat \ {0} /\ n \in Nat /\ m <= n + 1 /\ n <= 16  BY <1>1
    <3>2. \A j \in Nat, q \in Nat : j <= 16 /\ q >= 16 => j <= q  OBVIOUS
    <3>3. Len(b) \in Nat /\ Len(c) \in Nat  BY DEF Strings
    <3>4. Len(b) >= 16 /\ Len(c) >= 16  BY DEF HeaderSize
    <3>5. n <= Len(b) /\ n <= Len(c)  BY <3>1, <3>2, <3>3, <3>4, Zenon
    <3> QED  BY <3>1, <3>5, Zenon DEF Within
  <2>2. u \in Seq(Byte) /\ IsCut(u, c, m, n)  BY <2>1, Cuts, Zenon DEF Strings
  <2> HIDE DEF u
  <2>3. IsCut(u, b, m, n)
    <3>1. \A i \in 1 .. n - m + 1 : m + i - 1 \in 1 .. 16  BY <1>1
    <3> QED  BY <2>2, <3>1 DEF IsCut, HeaderSize
  <2>4. SubSeq(b, m, n) = u  BY <2>1, <2>2, <2>3, CutIs DEF Strings
  <2> QED  BY <2>4 DEF u
<1>2. /\ SubSeq(b, 1, 4) = SubSeq(c, 1, 4) /\ SubSeq(b, 9, 12) = SubSeq(c, 9, 12)
      /\ SubSeq(b, 13, 16) = SubSeq(c, 13, 16)
  BY <1>1
<1>3. b[5] = c[5] /\ b[6] = c[6] /\ b[7] = c[7]  BY DEF HeaderSize
<1> QED  BY <1>2, <1>3 DEF HeaderOf

(* EncodeHeader and DecodeHeader.                                          *)
LEMMA HeaderReads ==
    ASSUME NEW h \in Headers
    PROVE  /\ EncodeHeader(h) \in Strings /\ Len(EncodeHeader(h)) = HeaderSize
           /\ HeaderOf(EncodeHeader(h)) = h
<1> DEFINE p == Put(4, h.magic)
           m == <<h.ver, h.type, h.flags, 0>>
           q == Put(4, h.seq)
           r == Put(4, h.len)
           x == p \o m
           y == x \o q
           z == y \o r
<1>1. /\ p \in Seq(Byte) /\ Len(p) = 4 /\ Num(p) = h.magic
      /\ q \in Seq(Byte) /\ Len(q) = 4 /\ Num(q) = h.seq
      /\ r \in Seq(Byte) /\ Len(r) = 4 /\ Num(r) = h.len
  BY QuadBytes DEF Headers
<1>2. /\ m \in Seq(Byte) /\ Len(m) = 4
      /\ m[1] = h.ver /\ m[2] = h.type /\ m[3] = h.flags
  BY ByteIs DEF Headers
<1>3. EncodeHeader(h) = z  BY DEF EncodeHeader
<1> HIDE DEF p, m, q, r
<1>4. x \in Seq(Byte) /\ IsCat(x, p, m)  BY <1>1, <1>2, Joined, Zenon
<1> HIDE DEF x
<1>5. y \in Seq(Byte) /\ IsCat(y, x, q)  BY <1>1, <1>4, Joined, Zenon
<1> HIDE DEF y
<1>6. z \in Seq(Byte) /\ IsCat(z, y, r)  BY <1>1, <1>5, Joined, Zenon
<1> HIDE DEF z
<1>7. Len(x) = 8 /\ Len(y) = 12 /\ Len(z) = 16
  BY <1>1, <1>2, <1>4, <1>5, <1>6 DEF IsCat
<1>8. /\ \A i \in 1 .. 4 : z[i] = p[i] /\ z[8 + i] = q[i] /\ z[12 + i] = r[i]
      /\ z[5] = m[1] /\ z[6] = m[2] /\ z[7] = m[3]
  <2>1. \A i \in 1 .. 12 : z[i] = y[i]  BY <1>6, <1>7 DEF IsCat
  <2>2. \A i \in 1 .. 8 : y[i] = x[i]  BY <1>5, <1>7 DEF IsCat
  <2>3. \A i \in 1 .. 4 : x[i] = p[i]  BY <1>1, <1>4 DEF IsCat
  <2>4. x[4 + 1] = m[1] /\ x[4 + 2] = m[2] /\ x[4 + 3] = m[3]  BY <1>1, <1>2, <1>4 DEF IsCat
  <2>5. \A i \in 1 .. 4 : y[8 + i] = q[i]  BY <1>1, <1>5, <1>7 DEF IsCat
  <2>6. \A i \in 1 .. 4 : z[12 + i] = r[i]  BY <1>1, <1>6, <1>7 DEF IsCat
  <2>7. \A i \in 1 .. 4 : z[i] = p[i]  BY <2>1, <2>2, <2>3
  <2>8. \A i \in 1 .. 4 : z[8 + i] = q[i]  BY <2>1, <2>5
  <2>9. z[5] = m[1] /\ z[6] = m[2] /\ z[7] = m[3]  BY <2>1, <2>2, <2>4
  <2> QED  BY <2>6, <2>7, <2>8, <2>9
<1>9. SubSeq(z, 1, 4) = p /\ SubSeq(z, 9, 12) = q /\ SubSeq(z, 13, 16) = r
  <2>1. Within(z, 1, 4) /\ Within(z, 9, 12) /\ Within(z, 13, 16)  BY <1>7 DEF Within
  <2>2. IsCut(p, z, 1, 4)
    <3>1. \A i \in 1 .. 4 : 1 + i - 1 = i  OBVIOUS
    <3> QED  BY <1>1, <1>8, <3>1 DEF IsCut
  <2>3. IsCut(q, z, 9, 12)
    <3>1. \A i \in 1 .. 4 : 9 + i - 1 = 8 + i  OBVIOUS
    <3> QED  BY <1>1, <1>8, <3>1 DEF IsCut
  <2>4. IsCut(r, z, 13, 16)
    <3>1. \A i \in 1 .. 4 : 13 + i - 1 = 12 + i  OBVIOUS
    <3> QED  BY <1>1, <1>8, <3>1 DEF IsCut
  <2> QED  BY <1>1, <1>6, <2>1, <2>2, <2>3, <2>4, CutIs
<1>10. HeaderOf(z) = h
  <2>1. h = [magic |-> h.magic, ver |-> h.ver, type |-> h.type, flags |-> h.flags,
             seq |-> h.seq, len |-> h.len]
    BY DEF Headers
  <2> QED  BY <1>1, <1>2, <1>8, <1>9, <2>1 DEF HeaderOf
<1> QED  BY <1>3, <1>6, <1>7, <1>10 DEF HeaderSize, Strings

(* A header and its body, put together and taken apart.                    *)
LEMMA EncodedFrame ==
    ASSUME NEW h \in Headers, NEW body \in Strings
    PROVE  LET b == EncodeHeader(h) \o body
           IN  /\ b \in Strings /\ Len(b) = HeaderSize + Len(body)
               /\ HeaderOf(b) = h /\ Rest(b, HeaderSize) = body
<1> DEFINE e == EncodeHeader(h)
           b == e \o body
<1>1. e \in Seq(Byte) /\ Len(e) = HeaderSize /\ HeaderOf(e) = h  BY HeaderReads DEF Strings
<1> HIDE DEF e
<1>2. b \in Seq(Byte) /\ IsCat(b, e, body)  BY <1>1, Joined, Zenon DEF Strings
<1>3. Rest(b, HeaderSize) = body  BY <1>1, RestOfJoined DEF Strings
<1> HIDE DEF b
<1>4. Len(b) = HeaderSize + Len(body) /\ Len(body) \in Nat  BY <1>1, <1>2 DEF IsCat, Strings
<1>5. HeaderOf(b) = HeaderOf(e)
  <2>1. \A i \in 1 .. HeaderSize : b[i] = e[i]  BY <1>1, <1>2 DEF IsCat
  <2>2. Len(b) >= HeaderSize /\ Len(e) >= HeaderSize  BY <1>1, <1>4 DEF HeaderSize
  <2> QED  BY <1>1, <1>2, <2>1, <2>2, HeaderAgrees DEF Strings
<1> QED  BY <1>1, <1>2, <1>3, <1>4, <1>5 DEF Strings, b, e

-----------------------------------------------------------------------------
(* The request body: what buildRequestBody puts together, parseRequestBody *)
(* takes apart.                                                            *)

Pairs == 0 .. (Base * Base - 1)

(* The length of a segment, two bytes.                                     *)
LEMMA PairBytes ==
    ASSUME NEW n \in Pairs
    PROVE  n \in Nat /\ Two(n) \in Seq(Byte) /\ Len(Two(n)) = 2 /\ Num(Two(n)) = n
<1>1. \A b \in Nat : b * b \in Nat  OBVIOUS
<1>2. \A m \in Nat : \A i \in 0 .. (m - 1) : i \in Nat /\ i < m  OBVIOUS
<1>3. n \in Nat /\ n < Base * Base  BY <1>1, <1>2, ByteIs DEF Pairs
<1> QED  BY <1>3, TwoBytes DEF Strings

LEMMA Empties == \A s \in Strings : << >> \o s = s /\ << >> \in Strings
BY DEF Strings

LEMMA Joins == \A s, t \in Strings : s \o t \in Strings
BY DEF Strings

(* A string behind its length.                                             *)
LEMMA PrefixedIs ==
    ASSUME NEW s \in Strings, Len(s) \in Pairs
    PROVE  Prefixed(s) \in Strings /\ Len(Prefixed(s)) = 2 + Len(s)
<1> DEFINE n == Two(Len(s))
<1>1. n \in Seq(Byte) /\ Len(n) = 2  BY PairBytes
<1>2. Prefixed(s) = n \o s  BY DEF Prefixed, Put
<1> HIDE DEF n
<1>3. n \o s \in Seq(Byte) /\ IsCat(n \o s, n, s)  BY <1>1, Joined, Zenon DEF Strings
<1> QED  BY <1>1, <1>2, <1>3 DEF IsCat, Strings

(* A segment that was written with its length is read back.                *)
LEMMA SegmentIs ==
    ASSUME NEW s \in Strings, Len(s) \in Pairs, NEW t \in Strings
    PROVE  Segment(Prefixed(s) \o t, 2) = {[seg |-> s, rest |-> t]}
<1> DEFINE n == Two(Len(s))
           p == Prefixed(s)
           b == p \o t
           m == Len(s)
           k == 2 + m
<1>1. n \in Seq(Byte) /\ Len(n) = 2 /\ Num(n) = m /\ m \in Nat  BY PairBytes
<1>2. p = n \o s  BY DEF Prefixed, Put
<1>3. p \in Seq(Byte) /\ Len(p) = k  BY PrefixedIs DEF Strings
<1> HIDE DEF n
<1>4. IsCat(p, n, s)  BY <1>1, <1>2, Joined, Zenon DEF Strings
<1> HIDE DEF p, m
<1>5. b \in Seq(Byte) /\ IsCat(b, p, t)  BY <1>3, Joined, Zenon DEF Strings
<1>6. Rest(b, Len(p)) = t  BY <1>3, RestOfJoined DEF Strings
<1> HIDE DEF b
<1>7. Len(b) = k + Len(t) /\ Len(t) \in Nat /\ k \in Nat  BY <1>1, <1>3, <1>5 DEF IsCat, Strings
<1>8. SubSeq(b, 1, 2) = n
  <2>1. IsCut(n, b, 1, 2)
    <3>1. \A i \in 1 .. 2 : 1 + i - 1 = i  OBVIOUS
    <3>2. \A i \in 1 .. 2 : b[i] = p[i]  BY <1>1, <1>3, <1>5 DEF IsCat
    <3>3. \A i \in 1 .. 2 : p[i] = n[i]  BY <1>1, <1>4 DEF IsCat
    <3> QED  BY <1>1, <3>1, <3>2, <3>3 DEF IsCut
  <2>2. Within(b, 1, 2)  BY <1>1, <1>7 DEF Within
  <2> QED  BY <1>1, <1>5, <2>1, <2>2, CutIs
<1>9. SubSeq(b, 3, k) = s
  <2>1. IsCut(s, b, 3, k)
    <3>1. \A i \in 1 .. m : 3 + i - 1 = 2 + i /\ 2 + i \in 1 .. k  BY <1>1
    <3>2. \A i \in 1 .. m : b[2 + i] = p[2 + i]  BY <1>1, <1>3, <1>5, <3>1 DEF IsCat
    <3>3. \A i \in 1 .. m : p[2 + i] = s[i]  BY <1>1, <1>4 DEF IsCat, m
    <3>4. Len(s) = k - 3 + 1  BY <1>1 DEF m
    <3>5. \A i \in 1 .. m : s[i] = b[3 + i - 1]  BY <3>1, <3>2, <3>3
    <3>6. k - 3 + 1 = m  BY <1>1
    <3> QED  BY <3>4, <3>5, <3>6 DEF IsCut
  <2>2. Within(b, 3, k)  BY <1>1, <1>7 DEF Within
  <2> HIDE DEF k
  <2> QED  BY <1>5, <2>1, <2>2, CutIs DEF Strings
<1>10. Segment(b, 2) = {[seg |-> SubSeq(b, 2 + 1, 2 + m), rest |-> Rest(b, 2 + m)]}
  <2>1. ~(Len(b) < 2) /\ ~(Len(b) < 2 + m)  BY <1>1, <1>7
  <2> QED  BY <1>1, <1>8, <2>1 DEF Segment
<1>11. 2 + 1 = 3  OBVIOUS
<1>12. Segment(b, 2) = {[seg |-> s, rest |-> t]}  BY <1>3, <1>6, <1>9, <1>10, <1>11
<1> QED  BY <1>12 DEF b, p

(* So is an optional segment, if its flag is set; otherwise nothing is     *)
(* read.                                                                   *)
LEMMA OptionalIs ==
    ASSUME NEW s \in Strings, Len(s) \in Pairs, NEW t \in Strings
    PROVE  /\ Slot(s) \in Strings
           /\ Optional(Slot(s) \o t, s # << >>) = {[seg |-> s, rest |-> t]}
<1>1. CASE s = << >>
  BY <1>1, Empties DEF Slot, Optional
<1>2. CASE s # << >>
  BY <1>2, SegmentIs, PrefixedIs DEF Slot, Optional
<1> QED  BY <1>1, <1>2

Strung == [op : Strings, session : Strings, id : Strings, payload : Strings]

FlagsOf(session, id) ==
    (IF session # << >> THEN FlagSession ELSE 0) + (IF id # << >> THEN FlagRequestID ELSE 0)

(* Each flag of a request can be told from the other.                      *)
LEMMA FlagsSay ==
    ASSUME NEW s, NEW i
    PROVE  /\ Has(FlagsOf(s, i), FlagSession) = (s # << >>)
           /\ Has(FlagsOf(s, i), FlagRequestID) = (i # << >>)
           /\ FlagsOf(s, i) \in Byte /\ FlagsOf(s, i) < FlagSession + FlagRequestID + 1
<1>1. \A n \in 0 .. 3 : n \in Byte /\ n < FlagSession + FlagRequestID + 1
  BY ByteIs DEF Byte, FlagSession, FlagRequestID
<1>2. /\ Has(0, 1) = FALSE /\ Has(1, 1) = TRUE /\ Has(2, 1) = FALSE /\ Has(3, 1) = TRUE
      /\ Has(0, 2) = FALSE /\ Has(1, 2) = FALSE /\ Has(2, 2) = TRUE /\ Has(3, 2) = TRUE
  BY DEF Has
<1>3. FlagsOf(s, i) = IF s # << >> THEN IF i # << >> THEN 3 ELSE 1
                      ELSE IF i # << >> THEN 2 ELSE 0
  BY DEF FlagsOf, FlagSession, FlagRequestID
<1>4. FlagsOf(s, i) \in 0 .. 3  BY <1>3
<1> HIDE DEF Has
<1>5. /\ Has(FlagsOf(s, i), 1) = (s # << >>)
      /\ Has(FlagsOf(s, i), 2) = (i # << >>)
  <2>1. CASE s # << >> /\ i # << >>  BY <1>2, <1>3, <2>1
  <2>2. CASE s # << >> /\ i = << >>  BY <1>2, <1>3, <2>2
  <2>3. CASE s = << >> /\ i # << >>  BY <1>2, <1>3, <2>3
  <2>4. CASE s = << >> /\ i = << >>  BY <1>2, <1>3, <2>4
  <2> QED  BY <2>1, <2>2, <2>3, <2>4
<1> QED  BY <1>1, <1>4, <1>5 DEF FlagSession, FlagRequestID

(* What BuildRequestBodyFull builds, ParseRequestBodyFull reads as it was  *)
(* meant, whatever the payload looks like (body.go).                       *)
THEOREM RequestReads ==
    ASSUME NEW r \in Strung,
           NEW body \in BuildRequestBody(r.op, r.session, r.id, r.payload)
    PROVE  /\ body \in Strings
           /\ ParseRequestBody(body, FlagsOf(r.session, r.id)) = {r}
<1> DEFINE o == r.op
           s == r.session
           i == r.id
           y == r.payload
           f == FlagsOf(s, i)
           t3 == y
           t2 == Slot(i) \o y
           t1 == Slot(s) \o (Slot(i) \o y)
<1>1. /\ o \in Strings /\ s \in Strings /\ i \in Strings /\ y \in Strings
      /\ r = [op |-> o, session |-> s, id |-> i, payload |-> y]
  BY DEF Strung
<1>2. /\ Len(o) <= MaxOperationLen /\ Len(s) <= MaxSessionLen /\ Len(i) <= MaxRequestIDLen
      /\ body = Prefixed(o) \o Slots(s, i) \o y
  <2>1. Len(o) \in 1 .. MaxOperationLen /\ Len(s) <= MaxSessionLen /\ Len(i) <= MaxRequestIDLen
    BY DEF BuildRequestBody
  <2>2. body = Prefixed(o) \o Slots(s, i) \o y  BY DEF BuildRequestBody
  <2> HIDE DEF o
  <2>3. MaxOperationLen \in Int  BY CodecAssumption
  <2> QED  BY <2>1, <2>2, <2>3
<1> HIDE DEF o, s, i, y, f
<1>3. Len(o) \in Pairs /\ Len(s) \in Pairs /\ Len(i) \in Pairs
  <2>1. Len(o) \in Nat /\ Len(s) \in Nat /\ Len(i) \in Nat  BY <1>1 DEF Strings
  <2>2. MaxOperationLen \in Pairs /\ MaxSessionLen \in Pairs /\ MaxRequestIDLen \in Pairs
    BY CodecAssumption DEF Pairs
  <2>3. \A m \in Nat : \A x \in 0 .. m, n \in Nat : n <= x => n \in 0 .. m  OBVIOUS
  <2>4. Base * Base - 1 \in Nat
    <3>1. \A b \in Nat : b > 8 => b * b - 1 \in Nat
      <4>1. \A b \in Nat : b > 8 => b * b >= b  OBVIOUS
      <4> QED  BY <4>1
    <3> QED  BY <3>1, ByteIs
  <2> HIDE DEF Pairs
  <2> QED  BY <1>2, <2>1, <2>2, <2>3, <2>4 DEF Pairs
<1>4. /\ Prefixed(o) \in Strings /\ Slot(s) \in Strings /\ Slot(i) \in Strings
      /\ t2 \in Strings /\ t1 \in Strings
  <2>1. Prefixed(o) \in Strings  BY <1>1, <1>3, PrefixedIs
  <2>2. Slot(s) \in Strings /\ Slot(i) \in Strings  BY <1>1, <1>3, OptionalIs
  <2> HIDE DEF Slot
  <2> QED  BY <1>1, <2>1, <2>2, Joins
<1>5. body = Prefixed(o) \o t1 /\ body \in Strings
  <2>1. Slots(s, i) = Slot(s) \o Slot(i)  BY DEF Slots
  <2>2. Slots(s, i) \in Strings  BY <1>4, <2>1, Joins
  <2>3. body = Prefixed(o) \o (Slots(s, i) \o y)
    <3> DEFINE P == Prefixed(o)
               Q == Slots(s, i)
    <3>1. P \in Strings /\ Q \in Strings /\ y \in Strings /\ body = P \o Q \o y
      BY <1>1, <1>2, <1>4, <2>2
    <3> HIDE DEF P, Q
    <3>2. body = P \o (Q \o y)  BY <3>1 DEF Strings
    <3> QED  BY <3>2 DEF P, Q
  <2>4. Slots(s, i) \o y = t1
    <3> DEFINE P == Slot(s)
               Q == Slot(i)
    <3>1. P \in Strings /\ Q \in Strings /\ y \in Strings  BY <1>1, <1>4
    <3> HIDE DEF P, Q
    <3>2. (P \o Q) \o y = P \o (Q \o y)  BY <3>1 DEF Strings
    <3> QED  BY <2>1, <3>2 DEF P, Q
  <2> QED  BY <1>4, <2>3, <2>4, Joins
<1>6. Segment(body, 2) = {[seg |-> o, rest |-> t1]}
  BY <1>1, <1>3, <1>4, <1>5, SegmentIs
<1>7. Optional(t1, Has(f, FlagSession)) = {[seg |-> s, rest |-> t2]}
  <2>1. Has(f, FlagSession) = (s # << >>)  BY FlagsSay DEF f
  <2> QED  BY <1>1, <1>3, <1>4, <2>1, OptionalIs
<1>8. Optional(t2, Has(f, FlagRequestID)) = {[seg |-> i, rest |-> y]}
  <2>1. Has(f, FlagRequestID) = (i # << >>)  BY FlagsSay DEF f
  <2> QED  BY <1>1, <1>3, <2>1, OptionalIs
<1> HIDE DEF t1, t2
<1> DEFINE Third(p, q) == {[op |-> p.seg, session |-> q.seg, id |-> x.seg, payload |-> x.rest] :
                             x \in Optional(q.rest, Has(f, FlagRequestID))}
           Second(p) == UNION {Third(p, q) : q \in Optional(p.rest, Has(f, FlagSession))}
           po == [seg |-> o, rest |-> t1]
           qo == [seg |-> s, rest |-> t2]
<1>9. ParseRequestBody(body, f) = UNION {Second(p) : p \in {po}}
  <2>1. {x \in Segment(body, 2) : Len(x.seg) <= MaxOperationLen} = {po}
    BY <1>2, <1>6
  <2>2. ParseRequestBody(body, f)
          = UNION {Second(p) : p \in {x \in Segment(body, 2) : Len(x.seg) <= MaxOperationLen}}
    BY DEF ParseRequestBody
  <2> HIDE DEF Second
  <2> QED  BY <2>1, <2>2
<1>10. Third(po, qo) = {r}
  <2>1. po.seg = o /\ qo.seg = s /\ qo.rest = t2  OBVIOUS
  <2> HIDE DEF po, qo
  <2>2. Third(po, qo) = {[op |-> o, session |-> s, id |-> x.seg, payload |-> x.rest] :
                           x \in {[seg |-> i, rest |-> y]}}
    BY <1>8, <2>1
  <2> QED  BY <1>1, <2>2
<1>11. Second(po) = {r}
  <2> HIDE DEF Third
  <2>1. po.rest = t1  OBVIOUS
  <2>2. Second(po) = UNION {Third(po, q) : q \in {qo}}  BY <1>7, <2>1
  <2> QED  BY <1>10, <2>2
<1> HIDE DEF Second, po
<1>12. ParseRequestBody(body, f) = {r}  BY <1>9, <1>11
<1> QED  BY <1>5, <1>12 DEF f, s, i


-----------------------------------------------------------------------------
(* What a writer writes.                                                   *)

Typed == /\ opt \in Options
         /\ work \in IF opt.dir = "up" THEN [Writers -> Calls] ELSE Answers

(* The request was built, and the transport did not refuse it.             *)
Prepared(w) == opt.dir = "up" => \E b \in RequestBody(work[w]) : Accepts(b)

Heads == {HeaderOf(b) : b \in {x \in Strings : Len(x) >= HeaderSize}}

LEMMA QuadsTop == Base * Base * Base * Base - 1 \in Nat
<1>1. \A b \in Nat : b > 8 => b * b \in Nat /\ b * b > 8
  <2>1. \A b \in Nat : b > 8 => b * b >= b  OBVIOUS
  <2> QED  BY <2>1
<1>2. Base * Base \in Nat /\ Base * Base > 8  BY <1>1, ByteIs
<1>3. (Base * Base) * (Base * Base) \in Nat /\ (Base * Base) * (Base * Base) > 8
  BY <1>1, <1>2
<1>4. Base * Base * Base * Base = (Base * Base) * (Base * Base)  BY ByteIs
<1> QED  BY <1>3, <1>4

(* What WireAssumption says of the options of a connection.                *)
LEMMA OptionsAre ==
    ASSUME Typed
    PROVE  /\ opt.carrier \in {"tcp", "kcp", "udp", "edge", "ws"}
           /\ opt.dir \in {"up", "down"}
           /\ opt.max \in 0 .. MaxBodySize
           /\ MaxBodySize \in Nat
           /\ Limit(opt.max) \in 0 .. MaxBodySize
<1>1. opt \in [carrier : Streams \union Datagrams \union {"ws"}, dir : {"up", "down"},
               max : 0 .. MaxBodySize, direct : BOOLEAN]
  BY WireAssumption DEF Typed
<1>2. opt.carrier \in Streams \union Datagrams \union {"ws"} /\ opt.dir \in {"up", "down"}
      /\ opt.max \in 0 .. MaxBodySize
  BY <1>1
<1>3. MaxBodySize \in Nat  BY CodecAssumption
<1> QED  BY <1>2, <1>3 DEF Streams, Datagrams, Limit

(* What Encode writes for a header that lacks its magic, version or        *)
(* length.                                                                 *)
LEMMA CompletedIs ==
    ASSUME NEW t, NEW f, NEW n, NEW l, NEW body
    PROVE  Completed([magic |-> 0, ver |-> 0, type |-> t, flags |-> f, seq |-> n,
                      len |-> l], body)
             = [magic |-> Magic, ver |-> DefaultVersion, type |-> t, flags |-> f, seq |-> n,
                len |-> Len(body)]
<1> DEFINE g == [magic |-> 0, ver |-> 0, type |-> t, flags |-> f, seq |-> n, len |-> l]
           g1 == [magic |-> Magic, ver |-> 0, type |-> t, flags |-> f, seq |-> n, len |-> l]
           g2 == [magic |-> Magic, ver |-> DefaultVersion, type |-> t, flags |-> f,
                  seq |-> n, len |-> l]
<1>1. [g EXCEPT !.magic = Magic] = g1  OBVIOUS
<1>2. [g1 EXCEPT !.ver = DefaultVersion] = g2  OBVIOUS
<1>3. [g2 EXCEPT !.len = Len(body)]
        = [magic |-> Magic, ver |-> DefaultVersion, type |-> t, flags |-> f, seq |-> n,
           len |-> Len(body)]
  OBVIOUS
<1>4. [g EXCEPT !.magic = Magic, !.ver = DefaultVersion, !.len = Len(body)]
        = [[[g EXCEPT !.magic = Magic] EXCEPT !.ver = DefaultVersion] EXCEPT !.len = Len(body)]
  OBVIOUS
<1>5. Completed(g, body)
        = [g EXCEPT !.magic = Magic, !.ver = DefaultVersion, !.len = Len(body)]
  <2>1. g.magic = 0 /\ g.ver = 0  OBVIOUS
  <2> QED  BY <2>1 DEF Completed, LengthOf
<1> QED  BY <1>1, <1>2, <1>3, <1>4, <1>5

(* A request is one: a frame whose header says so, with the body built.    *)
LEMMA CallFrame ==
    ASSUME Typed, opt.dir = "up", NEW w \in Writers, Prepared(w)
    PROVE  LET b == BytesOf(w)
               h == HeaderOf(b)
           IN  /\ b \in Strings /\ Len(b) = HeaderSize + h.len /\ h.len \in Nat \ {0}
               /\ CheckHeader(h, opt.max)
               /\ HeardByPeer(h, Rest(b, HeaderSize)) = Said(w)
               /\ Said(w) # {} /\ ~TooLong(b)
<1> DEFINE call == work[w]
           t    == SlotToken(call)
           r    == [op |-> call.op, session |-> t, id |-> call.id, payload |-> call.payload]
<1>1. call \in Strung
  BY WireAssumption DEF Typed, Strung
<1>2. r \in Strung
  <2>1. t \in Strings  BY <1>1, Empties DEF SlotToken, Strung
  <2> HIDE DEF t, call
  <2> QED  BY <1>1, <2>1 DEF Strung
<1>3. RequestBody(call) = BuildRequestBody(r.op, r.session, r.id, r.payload)
  BY DEF RequestBody
<1>4. RequestFlags(call) = FlagsOf(r.session, r.id)
  BY DEF RequestFlags, FlagsOf
<1> DEFINE body == CHOOSE b \in RequestBody(call) : TRUE
<1>5. body \in RequestBody(call) /\ Accepts(body)
  <2>1. PICK b \in RequestBody(call) : Accepts(b)  BY DEF Prepared
  <2>2. RequestBody(call) = {b}
    <3>1. \A x \in RequestBody(call) : RequestBody(call) = {x}
      BY DEF RequestBody, BuildRequestBody
    <3> QED  BY <3>1, <2>1
  <2>3. body = b  BY <2>2
  <2> QED  BY <2>1, <2>3
<1>6. body \in Strings /\ ParseRequestBody(body, RequestFlags(call)) = {r}
  BY <1>2, <1>3, <1>4, <1>5, RequestReads
<1>7. Len(body) \in Nat \ {0}
  <2>1. ASSUME Len(body) = 0 PROVE FALSE
    <3> HIDE DEF body
    <3>1. Segment(body, 2) = {}  BY <2>1 DEF Segment
    <3>2. ParseRequestBody(body, RequestFlags(call)) = {}  BY <3>1 DEF ParseRequestBody
    <3> QED  BY <1>6, <3>2
  <2> QED  BY <1>6, <2>1 DEF Strings
<1> DEFINE h == [magic |-> Magic, ver |-> DefaultVersion, type |-> Request,
                 flags |-> RequestFlags(call), seq |-> w, len |-> Len(body)]
           b == BytesOf(w)
<1>8. Completed(RequestHeader(w, call), body) = h
  BY CompletedIs DEF RequestHeader
<1>9. b = EncodeHeader(h) \o body
  BY <1>8 DEF BytesOf, Encode
<1>10. Len(body) <= Limit(opt.max) /\ Limit(opt.max) \in Nat /\ MaxBodySize \in Quads
       /\ Limit(opt.max) <= MaxBodySize
  <2>1. Len(body) <= Limit(opt.max)  BY <1>5 DEF Accepts, MayEncode, Fits
  <2>2. MaxBodySize \in Quads  BY CodecAssumption DEF Quads
  <2> HIDE DEF body
  <2> QED  BY <2>1, <2>2, OptionsAre
<1>11. Len(body) \in Quads
  <2>1. \A m \in Nat : \A x \in 0 .. m, p \in Nat : p <= x => p \in 0 .. m  OBVIOUS
  <2>2. Len(body) \in Nat /\ Len(body) <= MaxBodySize
    <3> HIDE DEF body
    <3> QED  BY <1>7, <1>10, OptionsAre
  <2> HIDE DEF body
  <2> QED  BY <1>10, <2>1, <2>2, QuadsTop DEF Quads
<1>12. h \in Headers
  <2>1. Magic \in Quads /\ w \in Quads
    <3>1. \A m \in Nat : 1 .. m \subseteq 0 .. m  OBVIOUS
    <3>2. Magic \in 1 .. (Base * Base * Base * Base - 1)
          /\ w \in 1 .. (Base * Base * Base * Base - 1)
      BY CodecAssumption, WireAssumption
    <3> QED  BY <3>1, <3>2, QuadsTop DEF Quads
  <2>2. DefaultVersion \in Byte /\ Request \in Byte
    BY CodecAssumption, ByteIs DEF Byte, Request
  <2>3. RequestFlags(call) \in Byte  BY <1>4, FlagsSay
  <2> HIDE DEF body, call
  <2> QED  BY <1>11, <2>1, <2>2, <2>3 DEF Headers
<1>13. /\ h.len = Len(body) /\ h.seq = w /\ h.flags = RequestFlags(call) /\ h.magic = Magic
       /\ h.ver = DefaultVersion /\ h.type = Request
  OBVIOUS
<1> HIDE DEF h, body, r
<1>14. b \in Strings /\ Len(b) = HeaderSize + Len(body) /\ HeaderOf(b) = h
       /\ Rest(b, HeaderSize) = body
  BY <1>6, <1>9, <1>12, EncodedFrame
<1>15. CheckHeader(h, opt.max)
  <2>1. w # 0
    <3>1. \A m \in Nat : \A x \in 1 .. m : x # 0  OBVIOUS
    <3>2. w \in 1 .. (Base * Base * Base * Base - 1)  BY WireAssumption
    <3> QED  BY <3>1, <3>2, QuadsTop
  <2>2. h.flags < FlagSession + FlagRequestID + 1  BY <1>4, <1>13, FlagsSay
  <2>3. h.ver \in PayloadVersions  BY <1>13, CodecAssumption
  <2>4. Fits(h.len, opt.max)  BY <1>10, <1>13 DEF Fits
  <2> QED  BY <1>13, <2>1, <2>2, <2>3, <2>4 DEF CheckHeader
<1>16. HeardByPeer(h, body) = {Asked(h, r)}
  <2>1. {Asked(h, x) : x \in ParseRequestBody(body, h.flags)} = {Asked(h, r)}
    BY <1>6, <1>13
  <2> QED  BY <2>1 DEF HeardByPeer, OrNothing
<1>17. Said(w) = {Asked(h, r)}
  <2>1. Said(w) = {Asked([seq |-> w], r)}  BY DEF Said, r
  <2>2. Asked([seq |-> w], r) = Asked(h, r)  BY <1>13 DEF Asked
  <2> QED  BY <2>1, <2>2
<1>18. ~TooLong(b)
  <2>1. Len(b) <= HeaderSize + Limit(opt.max)  BY <1>7, <1>10, <1>14 DEF HeaderSize
  <2>2. CASE opt.carrier = "udp"
    <3>1. Len(Wrapped(b)) <= DatagramMax  BY <1>5, <1>14, <2>2 DEF Accepts, Wrapped
    <3> QED  BY <1>7, <1>10, <1>14, <2>1, <3>1, WireAssumption DEF TooLong, HeaderSize
  <2>3. CASE opt.carrier = "edge"
    <3>1. Len(Wrapped(b)) = Len(FlowPrefix) + Len(b)
      <4> HIDE DEF b
      <4>1. Wrapped(b) = FlowPrefix \o b  BY <2>3 DEF Wrapped
      <4>2. FlowPrefix \in Strings  BY WireAssumption
      <4> QED  BY <1>14, <4>1, <4>2 DEF Strings
    <3>2. HeaderSize + Len(body) + Len(FlowPrefix) <= DatagramMax  BY <1>5, <2>3 DEF Accepts
    <3>3. Len(FlowPrefix) \in Nat /\ DatagramMax \in Nat  BY WireAssumption DEF Strings
    <3> QED  BY <1>7, <1>10, <1>14, <2>1, <3>1, <3>2, <3>3 DEF TooLong, HeaderSize
  <2>4. CASE opt.carrier \notin {"udp", "edge"}
    BY <1>7, <1>10, <1>14, <2>1, <2>4 DEF TooLong, IsDatagram, Datagrams, HeaderSize
  <2> QED  BY <2>2, <2>3, <2>4
<1> QED  BY <1>7, <1>13, <1>14, <1>15, <1>16, <1>17, <1>18

(* The header of any bytes is of the type of a header.                     *)
LEMMA HeadIs ==
    ASSUME NEW b \in Strings, Len(b) >= HeaderSize
    PROVE  HeaderOf(b) \in Heads /\ HeaderOf(b).len \in Nat /\ HeaderOf(b) # Nothing
<1>2. Len(b) \in Nat  BY DEF Strings
<1>1. \A i \in 1 .. HeaderSize : b[i] \in Nat
  <2>1. \A i \in 1 .. Len(b) : b[i] \in Byte  BY DEF Strings
  <2>2. \A i \in 1 .. HeaderSize : i \in 1 .. Len(b)  BY <1>2 DEF HeaderSize
  <2>3. \A x \in Byte : x \in Nat  BY ByteIs
  <2> QED  BY <2>1, <2>2, <2>3, Zenon
<1> DEFINE q == SubSeq(b, 13, 16)
<1>3. IsCut(q, b, 13, 16)  BY <1>2, Cuts DEF Within, HeaderSize, Strings
<1> HIDE DEF q
<1>4. Len(q) = 4 /\ \A i \in 1 .. 4 : q[i] \in Nat
  <2>1. \A i \in 1 .. 4 : q[i] = b[13 + i - 1]  BY <1>3 DEF IsCut
  <2> QED  BY <1>1, <1>3, <2>1 DEF IsCut, HeaderSize
<1>5. Num(q) \in Nat
  <2>1. \A p \in Nat, m \in Nat : p * m \in Nat  OBVIOUS
  <2>2. \A m, z \in Nat : Base * m + z \in Nat
    <3>1. \A m \in Nat : Base * m \in Nat  BY <2>1, ByteIs
    <3> QED  BY <3>1
  <2>3. q[1] \in Nat /\ q[2] \in Nat /\ q[3] \in Nat /\ q[4] \in Nat  BY <1>4
  <2>4. Base * q[1] + q[2] \in Nat  BY <2>2, <2>3, Zenon
  <2>5. Base * (Base * q[1] + q[2]) + q[3] \in Nat  BY <2>2, <2>3, <2>4, Zenon
  <2>6. Base * (Base * (Base * q[1] + q[2]) + q[3]) + q[4] \in Nat
    BY <2>2, <2>3, <2>5, Zenon
  <2> QED  BY <1>4, <2>6 DEF Num
<1>6. HeaderOf(b).len = Num(q)  BY DEF HeaderOf, q
<1>7. HeaderOf(b) # Nothing
  <2>1. "magic" \in DOMAIN HeaderOf(b)  BY DEF HeaderOf
  <2>2. "magic" \notin DOMAIN Nothing  BY DEF Nothing
  <2> QED  BY <2>1, <2>2
<1> QED  BY <1>5, <1>6, <1>7 DEF Heads

(* A limit below the absolute one only refuses more.                       *)
LEMMA CheckedAtAll ==
    ASSUME Typed, NEW b
    PROVE  LET h == HeaderOf(b)
           IN  CheckHeader(h, opt.max)
                 <=> CheckHeader([h EXCEPT !.len = 0], 0) /\ h.len <= Limit(opt.max)
<1> DEFINE h == HeaderOf(b)
           g == [h EXCEPT !.len = 0]
<1>1. /\ g.magic = h.magic /\ g.seq = h.seq /\ g.type = h.type /\ g.ver = h.ver
      /\ g.flags = h.flags /\ g.len = 0
  BY DEF HeaderOf
<1>2. 0 <= Limit(0)  BY OptionsAre DEF Limit
<1> HIDE DEF h, g
<1>3. CheckHeader(h, opt.max) <=> CheckHeader(g, 0) /\ h.len <= Limit(opt.max)
  BY <1>1, <1>2 DEF CheckHeader, Fits
<1> QED  BY <1>3 DEF h, g

(* A frame of a peer.                                                      *)
LEMMA AnswerFrame ==
    ASSUME Typed, opt.dir # "up", NEW w \in Writers
    PROVE  LET b == BytesOf(w)
               h == HeaderOf(b)
           IN  /\ b \in Strings /\ Len(b) >= HeaderSize /\ Len(b) = HeaderSize + h.len
               /\ h.len \in Nat
               /\ CheckHeader(h, opt.max) => HeardBySDK(h, Rest(b, HeaderSize)) = Said(w)
               /\ ~CheckHeader(h, opt.max) => Said(w) = {} \/ h.len > Limit(opt.max)
<1> DEFINE b == BytesOf(w)
           h == HeaderOf(b)
           g == [h EXCEPT !.len = 0]
<1>1. work \in Answers  BY DEF Typed
<1>2. b = work[w].bytes /\ Said(w) = work[w].means
  BY OptionsAre DEF BytesOf, Said
<1>3. b \in Strings  BY <1>1, <1>2, WireAssumption
<1>4. SaysWhatItMeans(work[w])  BY <1>1, AnswersAssumption
<1>5. /\ Len(b) >= HeaderSize /\ Len(b) = HeaderSize + h.len
      /\ h.len <= MaxBodySize =>
           Said(w) = IF CheckHeader(g, 0) THEN HeardBySDK(h, Rest(b, HeaderSize)) ELSE {}
  BY <1>2, <1>4 DEF SaysWhatItMeans
<1>6. h.len \in Nat  BY <1>3, <1>5, HeadIs
<1>7. CheckHeader(h, opt.max) <=> CheckHeader(g, 0) /\ h.len <= Limit(opt.max)
  BY CheckedAtAll
<1> HIDE DEF b, h, g
<1>8. h.len <= Limit(opt.max) => h.len <= MaxBodySize  BY <1>6, OptionsAre
<1>9. Limit(opt.max) \in Nat  BY OptionsAre
<1> QED  BY <1>3, <1>5, <1>6, <1>7, <1>8, <1>9 DEF b, h

(* What every writer's frame is to whom it reaches whole.                  *)
Readable(w) == CheckHeader(HeaderOf(BytesOf(w)), opt.max)
Fitting(w)  == IsDatagram => Len(Wrapped(BytesOf(w))) <= DatagramMax

(* A frame on the wire, a request or an answer: its length is the one in   *)
(* its header, a reader that may read it understands what was said, and    *)
(* one that may not has a bad frame.                                       *)
LEMMA FrameOf ==
    ASSUME Typed, NEW w \in Writers, Prepared(w)
    PROVE  LET b == BytesOf(w)
               h == HeaderOf(b)
           IN  /\ b \in Strings /\ Len(b) >= HeaderSize /\ Len(b) = HeaderSize + h.len
               /\ h \in Heads /\ h.len \in Nat
               /\ Readable(w) => Meaning(h, Rest(b, HeaderSize)) = Said(w)
               /\ Readable(w) /\ Said(w) # {} /\ Fitting(w) => ~Bad(w)
               /\ Said(w) = {} \/ ~Readable(w) \/ ~Fitting(w) => Bad(w)
               /\ Len(b) > HeaderSize + Limit(opt.max) => Bad(w)
               /\ opt.dir = "up" => Len(b) > HeaderSize
<1> DEFINE b == BytesOf(w)
           h == HeaderOf(b)
<1>1. /\ b \in Strings /\ Len(b) = HeaderSize + h.len /\ h.len \in Nat
      /\ opt.dir = "up" => h.len > 0
      /\ Readable(w) => Meaning(h, Rest(b, HeaderSize)) = Said(w)
      /\ ~Readable(w) => Said(w) = {} \/ h.len > Limit(opt.max)
  <2>1. CASE opt.dir = "up"  BY <2>1, CallFrame DEF Readable, Meaning
  <2>2. CASE opt.dir # "up"  BY <2>2, AnswerFrame DEF Readable, Meaning
  <2> QED  BY <2>1, <2>2
<1>2. Len(b) >= HeaderSize /\ Limit(opt.max) \in Nat
  <2> HIDE DEF b, h
  <2> QED  BY <1>1, OptionsAre DEF HeaderSize
<1>3. h \in Heads  BY <1>1, <1>2, HeadIs
<1>4. Readable(w) => h.len <= Limit(opt.max)  BY DEF Readable, CheckHeader, Fits
<1>5. Len(Wrapped(b)) \in Nat /\ DatagramMax \in Nat
  <2>1. Wrapped(b) \in Strings  BY <1>1, WireAssumption, Joins DEF Wrapped
  <2> QED  BY <2>1, WireAssumption DEF Strings
<1>6. Bad(w) <=> Said(w) = {} \/ Len(b) > HeaderSize + Limit(opt.max) \/ ~Fitting(w)
  BY <1>5 DEF Bad, TooLong, Fitting
<1>7. Len(b) > HeaderSize + Limit(opt.max) <=> h.len > Limit(opt.max)
  <2> HIDE DEF b, h
  <2> QED  BY <1>1, <1>2 DEF HeaderSize
<1>8. h.len > Limit(opt.max) <=> ~(h.len <= Limit(opt.max))
  <2> HIDE DEF b, h
  <2> QED  BY <1>1, <1>2
<1>9. opt.dir = "up" => Len(b) > HeaderSize
  <2> HIDE DEF b, h
  <2> QED  BY <1>1 DEF HeaderSize
<1> QED  BY <1>1, <1>2, <1>3, <1>4, <1>6, <1>7, <1>8, <1>9

(* What a writer says and which bytes it writes never change.              *)
LEMMA Frozen ==
    ASSUME opt' = opt, work' = work
    PROVE  /\ IsStream' = IsStream /\ IsDatagram' = IsDatagram /\ Typed' = Typed
           /\ \A w : /\ BytesOf(w)' = BytesOf(w) /\ Said(w)' = Said(w)
                     /\ Bad(w)' = Bad(w) /\ Prepared(w)' = Prepared(w)
           /\ \A b : Wrapped(b)' = Wrapped(b)
           /\ \A h, b : Meaning(h, b)' = Meaning(h, b)
<1>1. IsStream' = IsStream /\ IsDatagram' = IsDatagram /\ Typed' = Typed
  BY DEF IsStream, IsDatagram, Typed
<1>2. \A c : SlotToken(c)' = SlotToken(c)  BY DEF SlotToken
<1>3. \A c : RequestFlags(c)' = RequestFlags(c) /\ RequestBody(c)' = RequestBody(c)
  BY <1>2 DEF RequestFlags, RequestBody
<1>4. \A w, c : RequestHeader(w, c)' = RequestHeader(w, c)
  BY <1>3 DEF RequestHeader
<1>5. \A b : Wrapped(b)' = Wrapped(b)  BY DEF Wrapped
<1>6. \A b : Accepts(b)' = Accepts(b)  BY DEF Accepts
<1>7. \A w : BytesOf(w)' = BytesOf(w) /\ Said(w)' = Said(w) /\ Prepared(w)' = Prepared(w)
  <2> TAKE w
  <2>1. BytesOf(w)' = BytesOf(w)
    <3>1. RequestBody(work[w])' = RequestBody(work[w])  BY <1>2 DEF RequestBody
    <3> DEFINE body == CHOOSE b \in RequestBody(work[w]) : TRUE
               head == RequestHeader(w, work[w])
    <3>2. body' = body  BY <3>1
    <3>3. head' = head  BY <1>2 DEF RequestHeader, RequestFlags
    <3>4. BytesOf(w) = IF opt.dir = "down" THEN work[w].bytes ELSE Encode(head, body)
      BY DEF BytesOf
    <3>5. BytesOf(w)' = IF opt'.dir = "down" THEN work'[w].bytes ELSE Encode(head', body')
      BY DEF BytesOf
    <3> HIDE DEF body, head
    <3> QED  BY <3>2, <3>3, <3>4, <3>5
  <2>2. Said(w)' = Said(w)  BY <1>2 DEF Said
  <2>3. Prepared(w)' = Prepared(w)  BY <1>3, <1>6 DEF Prepared
  <2> QED  BY <2>1, <2>2, <2>3
<1>8. \A b : TooLong(b)' = TooLong(b)  BY <1>1, <1>5 DEF TooLong
<1>9. \A w : Bad(w)' = Bad(w)  BY <1>7, <1>8 DEF Bad
<1>10. \A h, b : Meaning(h, b)' = Meaning(h, b)  BY DEF Meaning
<1> QED  BY <1>1, <1>5, <1>7, <1>9, <1>10

-----------------------------------------------------------------------------
(* What was said and what is heard: the m first of g are the k first of s, *)
(* those that say nothing left out.                                        *)

Matches(at, g, s, m, k) ==
    /\ at \in [1 .. m -> 1 .. k]
    /\ \A i, j \in 1 .. m : i < j => at[i] < at[j]
    /\ \A i \in 1 .. m : s[at[i]] # {Nothing} /\ g[i] = s[at[i]]
    /\ \A j \in 1 .. k : s[j] # {Nothing} => \E i \in 1 .. m : at[i] = j

Embeds(g, s, m, k) == \E at : Matches(at, g, s, m, k)

(* Nothing was heard of nothing.                                           *)
LEMMA EmbedsNone == ASSUME NEW g, NEW s PROVE Embeds(g, s, 0, 0)
<1>1. Matches([i \in 1 .. 0 |-> 0], g, s, 0, 0)  BY DEF Matches
<1> QED  BY <1>1 DEF Embeds

(* What was heard depends on no other frames than those counted.           *)
LEMMA EmbedsStill ==
    ASSUME NEW g, NEW s, NEW g2, NEW s2, NEW m \in Nat, NEW k \in Nat, Embeds(g, s, m, k),
           \A i \in 1 .. m : g2[i] = g[i], \A i \in 1 .. k : s2[i] = s[i]
    PROVE  Embeds(g2, s2, m, k)
<1>1. PICK at : Matches(at, g, s, m, k)  BY DEF Embeds
<1>2. \A i \in 1 .. m : at[i] \in 1 .. k  BY <1>1 DEF Matches
<1>3. Matches(at, g2, s2, m, k)  BY <1>1, <1>2 DEF Matches
<1> QED  BY <1>3 DEF Embeds

(* A frame that says nothing is read and nothing is handed over.           *)
LEMMA EmbedsSilence ==
    ASSUME NEW g, NEW s, NEW m \in Nat, NEW k \in Nat, Embeds(g, s, m, k),
           s[k + 1] = {Nothing}
    PROVE  Embeds(g, s, m, k + 1)
<1>1. PICK at : Matches(at, g, s, m, k)  BY DEF Embeds
<1>2. \A j \in 1 .. k + 1 : j \in 1 .. k \/ j = k + 1  OBVIOUS
<1>3. 1 .. k \subseteq 1 .. k + 1  OBVIOUS
<1>4. at \in [1 .. m -> 1 .. k + 1]  BY <1>1, <1>3 DEF Matches
<1>5. \A j \in 1 .. k + 1 : s[j] # {Nothing} => \E i \in 1 .. m : at[i] = j
  BY <1>1, <1>2 DEF Matches
<1>6. Matches(at, g, s, m, k + 1)  BY <1>1, <1>4, <1>5 DEF Matches
<1> QED  BY <1>6 DEF Embeds

(* One more frame is read and handed over.                                 *)
LEMMA EmbedsMore ==
    ASSUME NEW g, NEW s, NEW m \in Nat, NEW k \in Nat, Embeds(g, s, m, k),
           s[k + 1] # {Nothing}, g[m + 1] = s[k + 1]
    PROVE  Embeds(g, s, m + 1, k + 1)
<1>1. PICK at : Matches(at, g, s, m, k)  BY DEF Embeds
<1> DEFINE to == [i \in 1 .. m + 1 |-> IF i = m + 1 THEN k + 1 ELSE at[i]]
<1>2. \A i \in 1 .. m + 1 : (i \in 1 .. m /\ i # m + 1) \/ i = m + 1  OBVIOUS
<1>3. \A j \in 1 .. k + 1 : j \in 1 .. k \/ j = k + 1  OBVIOUS
<1>4. \A i \in 1 .. m : at[i] \in 1 .. k  BY <1>1 DEF Matches
<1>5. /\ \A i \in 1 .. m : to[i] = at[i] /\ i \in 1 .. m + 1
      /\ to[m + 1] = k + 1 /\ m + 1 \in 1 .. m + 1 /\ k + 1 \in 1 .. k + 1
  OBVIOUS
<1>6. \A j \in 1 .. k : j \in 1 .. k + 1 /\ j < k + 1  OBVIOUS
<1>7. to \in [1 .. m + 1 -> 1 .. k + 1]
  <2>1. \A i \in 1 .. m + 1 : to[i] \in 1 .. k + 1  BY <1>2, <1>4, <1>5, <1>6
  <2> QED  BY <2>1
<1> HIDE DEF to
<1>8. \A i, j \in 1 .. m + 1 : i < j => to[i] < to[j]
  <2> SUFFICES ASSUME NEW i \in 1 .. m + 1, NEW j \in 1 .. m + 1, i < j
               PROVE  to[i] < to[j]
    OBVIOUS
  <2>1. i \in 1 .. m  BY <1>2
  <2>2. CASE j \in 1 .. m  BY <1>1, <1>5, <2>1, <2>2 DEF Matches
  <2>3. CASE j = m + 1  BY <1>4, <1>5, <1>6, <2>1, <2>3
  <2> QED  BY <1>2, <2>2, <2>3
<1>9. \A i \in 1 .. m + 1 : s[to[i]] # {Nothing} /\ g[i] = s[to[i]]
  BY <1>1, <1>2, <1>5 DEF Matches
<1>10. \A j \in 1 .. k + 1 : s[j] # {Nothing} => \E i \in 1 .. m + 1 : to[i] = j
  BY <1>1, <1>3, <1>5 DEF Matches
<1>11. Matches(to, g, s, m + 1, k + 1)  BY <1>7, <1>8, <1>9, <1>10 DEF Matches
<1> QED  BY <1>11 DEF Embeds

(* Whatever was said is heard.                                             *)
LEMMA EmbedsAll ==
    ASSUME NEW g, NEW s, NEW m \in Nat, NEW k \in Nat, Embeds(g, s, m, k),
           NEW j \in 1 .. k, s[j] # {Nothing}
    PROVE  \E i \in 1 .. m : g[i] = s[j]
BY DEF Embeds, Matches

-----------------------------------------------------------------------------
(* A stream T of bytes: frame i of F lies in it from f[i - 1] to f[i], as  *)
(* far as it is written; W is what T holds behind position c.              *)

Shows(T, c, b) == \A p \in 1 .. Len(b) : c + p <= Len(T) => T[c + p] = b[p]

On(W, T, c) == c \in Nat /\ c + Len(W) <= Len(T) /\ \A p \in 1 .. Len(W) : W[p] = T[c + p]

Starts(x, b) == Len(x) <= Len(b) /\ \A p \in 1 .. Len(x) : x[p] = b[p]

Laid(T, f, F, u) ==
    /\ f \in [0 .. u -> Nat] /\ f[0] = 0
    /\ \A i, j \in 0 .. u : i <= j => f[i] <= f[j]
    /\ \A i \in 1 .. u : f[i] = f[i - 1] + Len(F[i]) /\ Shows(T, f[i - 1], F[i])

LEMMA StringLen == \A s \in Strings : Len(s) \in Nat
BY DEF Strings

LEMMA CatIs ==
    ASSUME NEW s \in Strings, NEW t \in Strings
    PROVE  /\ s \o t \in Strings /\ Len(s \o t) = Len(s) + Len(t)
           /\ \A i \in 1 .. Len(s) : (s \o t)[i] = s[i]
           /\ \A i \in 1 .. Len(t) : (s \o t)[Len(s) + i] = t[i]
BY DEF Strings

(* Bytes that T shows at c are still there when T grows.                   *)
LEMMA ShowsMore ==
    ASSUME NEW T \in Strings, NEW x \in Strings, NEW b \in Strings, NEW c \in Nat,
           Shows(T, c, b), c + Len(b) <= Len(T)
    PROVE  Shows(T \o x, c, b)
<1> DEFINE z == T \o x
<1>1. /\ \A i \in 1 .. Len(T) : z[i] = T[i]
      /\ Len(T) \in Nat /\ Len(b) \in Nat
  BY CatIs, StringLen
<1> HIDE DEF z
<1>2. \A p \in 1 .. Len(b) : c + p \in 1 .. Len(T)  BY <1>1
<1>3. Shows(z, c, b)  BY <1>1, <1>2 DEF Shows
<1> QED  BY <1>3 DEF z

(* What starts a frame is shown where the frame is.                        *)
LEMMA ShowsStart ==
    ASSUME NEW T \in Strings, NEW x \in Strings, NEW b \in Strings, Starts(x, b)
    PROVE  Shows(T \o x, Len(T), b)
<1> DEFINE z == T \o x
<1>1. /\ Len(z) = Len(T) + Len(x) /\ \A i \in 1 .. Len(x) : z[Len(T) + i] = x[i]
      /\ Len(T) \in Nat /\ Len(b) \in Nat /\ Len(x) \in Nat
  BY CatIs, StringLen
<1> HIDE DEF z
<1>2. \A p \in 1 .. Len(b) : Len(T) + p <= Len(z) => p \in 1 .. Len(x)  BY <1>1
<1>3. Shows(z, Len(T), b)  BY <1>1, <1>2 DEF Shows, Starts
<1> QED  BY <1>3 DEF z

LEMMA RestIs ==
    ASSUME NEW s \in Strings, NEW m \in 0 .. Len(s)
    PROVE  /\ Rest(s, m) \in Strings /\ Len(Rest(s, m)) = Len(s) - m
           /\ \A p \in 1 .. Len(s) - m : Rest(s, m)[p] = s[m + p]
<1>1. Rest(s, m) \in Strings /\ IsCut(Rest(s, m), s, m + 1, Len(s))  BY Rests DEF Strings
<1>2. Len(s) \in Nat /\ m \in Nat  BY StringLen
<1> DEFINE r == Rest(s, m)
<1> HIDE DEF r
<1>3. \A p \in 1 .. Len(s) - m : p \in 1 .. Len(s) - (m + 1) + 1 /\ m + 1 + p - 1 = m + p
  BY <1>2
<1>4. Len(s) - (m + 1) + 1 = Len(s) - m  BY <1>2
<1>5. r \in Strings /\ IsCut(r, s, m + 1, Len(s))  BY <1>1 DEF r
<1>6. Len(r) = Len(s) - m  BY <1>4, <1>5 DEF IsCut
<1>7. \A p \in 1 .. Len(s) - m : r[p] = s[m + p]  BY <1>3, <1>5 DEF IsCut
<1> QED  BY <1>5, <1>6, <1>7 DEF r

LEMMA StartIs ==
    ASSUME NEW s \in Strings, NEW m \in 0 .. Len(s)
    PROVE  /\ SubSeq(s, 1, m) \in Strings /\ Len(SubSeq(s, 1, m)) = m
           /\ \A p \in 1 .. m : SubSeq(s, 1, m)[p] = s[p]
BY DEF Strings

(* A frame whose header and body were written one after the other.         *)
LEMMA ShowsBody ==
    ASSUME NEW T \in Strings, NEW b \in Strings, NEW c \in Nat, Shows(T, c, b),
           NEW e \in 0 .. Len(b), c + e = Len(T)
    PROVE  Shows(T \o Rest(b, e), c, b)
<1> DEFINE x == Rest(b, e)
           z == T \o x
<1>1. /\ x \in Strings /\ Len(x) = Len(b) - e /\ \A p \in 1 .. Len(b) - e : x[p] = b[e + p]
      /\ Len(b) \in Nat /\ Len(T) \in Nat /\ e \in Nat
  BY RestIs, StringLen
<1> HIDE DEF x
<1>2. /\ Len(z) = Len(T) + Len(x) /\ \A i \in 1 .. Len(T) : z[i] = T[i]
      /\ \A i \in 1 .. Len(x) : z[Len(T) + i] = x[i]
  BY <1>1, CatIs
<1> HIDE DEF z
<1>3. ASSUME NEW p \in 1 .. Len(b) PROVE z[c + p] = b[p]
  <2>1. CASE p <= e
    <3>1. c + p \in 1 .. Len(T)  BY <1>1, <2>1
    <3> QED  BY <1>2, <3>1 DEF Shows
  <2>2. CASE p > e
    <3>0. Len(b) \in Nat /\ Len(T) \in Nat /\ e \in Nat /\ p \in Nat /\ p <= Len(b)
      BY <1>1
    <3>1. p - e \in 1 .. Len(b) - e /\ c + p = Len(T) + (p - e) /\ e + (p - e) = p
      BY <2>2, <3>0
    <3>2. z[Len(T) + (p - e)] = x[p - e]  BY <1>1, <1>2, <3>1
    <3>3. x[p - e] = b[e + (p - e)]  BY <1>1, <3>1
    <3> QED  BY <3>1, <3>2, <3>3
  <2> QED  BY <1>1, <2>1, <2>2
<1>4. Shows(z, c, b)  BY <1>3 DEF Shows
<1> QED  BY <1>4 DEF z, x

LEMMA LaidNone == ASSUME NEW F PROVE Laid(<< >>, [i \in 0 .. 0 |-> 0], F, 0)
BY DEF Laid

(* What is written later.                                                  *)
LEMMA LaidMore ==
    ASSUME NEW T \in Strings, NEW x \in Strings, NEW f, NEW F, NEW G, NEW u \in Nat,
           Laid(T, f, F, u), \A i \in 1 .. u : G[i] = F[i] /\ F[i] \in Strings,
           f[u] <= Len(T)
    PROVE  Laid(T \o x, f, G, u)
<1> DEFINE z == T \o x
<1>1. /\ f \in [0 .. u -> Nat] /\ f[0] = 0
      /\ \A i, j \in 0 .. u : i <= j => f[i] <= f[j]
      /\ \A i \in 1 .. u : f[i] = f[i - 1] + Len(F[i]) /\ Shows(T, f[i - 1], F[i])
  BY DEF Laid
<1>2. ASSUME NEW i \in 1 .. u PROVE f[i] = f[i - 1] + Len(G[i]) /\ Shows(z, f[i - 1], G[i])
  <2>1. i \in 0 .. u /\ i - 1 \in 0 .. u /\ u \in 0 .. u /\ i <= u  OBVIOUS
  <2>2. f[i] <= f[u] /\ f[i] \in Nat /\ f[i - 1] \in Nat /\ f[u] \in Nat  BY <1>1, <2>1
  <2>3. Len(T) \in Nat  BY StringLen
  <2>4. f[i] <= Len(T)  BY <2>2, <2>3
  <2>5. f[i] = f[i - 1] + Len(F[i]) /\ Shows(T, f[i - 1], F[i])  BY <1>1
  <2>6. Shows(z, f[i - 1], F[i])  BY <2>2, <2>4, <2>5, ShowsMore
  <2> QED  BY <2>5, <2>6
<1> HIDE DEF z
<1>3. Laid(z, f, G, u)  BY <1>1, <1>2 DEF Laid
<1> QED  BY <1>3 DEF z

Same(F, G, u) == \A i \in 1 .. u : G[i] = F[i] /\ F[i] \in Strings

LaidTo(z, f, G, u, n) ==
    \E e : Laid(z, e, G, u + 1) /\ e[u + 1] = n /\ \A i \in 0 .. u : e[i] = f[i]

(* A frame of which the beginning is written.                              *)
LEMMA LaidNext ==
    ASSUME NEW T \in Strings, NEW x \in Strings, NEW b \in Strings, Starts(x, b),
           NEW f, NEW F, NEW G, NEW u \in Nat,
           Laid(T, f, F, u), Same(F, G, u), f[u] = Len(T), G[u + 1] = b
    PROVE  LaidTo(T \o x, f, G, u, Len(T) + Len(b))
<1> DEFINE z == T \o x
           n == Len(T) + Len(b)
           e == [i \in 0 .. u + 1 |-> IF i = u + 1 THEN n ELSE f[i]]
<1>0. Len(T) \in Nat /\ Len(b) \in Nat /\ n \in Nat /\ Len(T) <= n  BY StringLen
<1>1. Laid(z, f, G, u)  BY <1>0, LaidMore DEF Same
<1>2. Shows(z, Len(T), b)  BY ShowsStart
<1> HIDE DEF z, n
<1>3. /\ f \in [0 .. u -> Nat] /\ f[0] = 0
      /\ \A i, j \in 0 .. u : i <= j => f[i] <= f[j]
      /\ \A i \in 1 .. u : f[i] = f[i - 1] + Len(G[i]) /\ Shows(z, f[i - 1], G[i])
  BY <1>1 DEF Laid
<1>4. /\ \A i \in 0 .. u + 1 : (i \in 0 .. u /\ i # u + 1) \/ i = u + 1
      /\ \A i \in 0 .. u : i \in 0 .. u + 1 /\ i # u + 1 /\ i <= u
      /\ u + 1 \in 0 .. u + 1 /\ 0 \in 0 .. u /\ u \in 0 .. u
  OBVIOUS
<1>5. e[u + 1] = n /\ \A i \in 0 .. u : e[i] = f[i]  BY <1>4
<1>6. e \in [0 .. u + 1 -> Nat] /\ e[0] = 0
  <2>1. \A i \in 0 .. u + 1 : e[i] \in Nat  BY <1>0, <1>3, <1>4, <1>5
  <2> QED  BY <1>3, <1>4, <1>5, <2>1
<1> HIDE DEF e
<1>7. ASSUME NEW i \in 0 .. u + 1, NEW j \in 0 .. u + 1, i <= j PROVE e[i] <= e[j]
  <2>1. CASE j \in 0 .. u
    <3>1. i \in 0 .. u  BY <1>7, <2>1
    <3> QED  BY <1>3, <1>5, <1>7, <2>1, <3>1
  <2>2. CASE j = u + 1 /\ i \in 0 .. u
    <3>1. f[i] <= f[u] /\ f[i] \in Nat  BY <1>3, <1>4, <2>2
    <3> QED  BY <1>0, <1>5, <2>2, <3>1
  <2>3. CASE j = u + 1 /\ i = u + 1  BY <1>0, <1>5, <2>3
  <2> QED  BY <1>4, <2>1, <2>2, <2>3
<1>8. ASSUME NEW i \in 1 .. u + 1
      PROVE e[i] = e[i - 1] + Len(G[i]) /\ Shows(z, e[i - 1], G[i])
  <2>1. CASE i \in 1 .. u
    <3>1. i \in 0 .. u /\ i - 1 \in 0 .. u  BY <2>1
    <3> QED  BY <1>3, <1>5, <2>1, <3>1
  <2>2. CASE i = u + 1
    <3>1. i - 1 = u  BY <2>2
    <3> QED  BY <1>2, <1>4, <1>5, <2>2, <3>1 DEF n
  <2> QED  BY <2>1, <2>2
<1>9. Laid(z, e, G, u + 1)  BY <1>6, <1>7, <1>8 DEF Laid
<1> QED  BY <1>5, <1>9 DEF n, z, LaidTo

Begun(T, f, F, u, e) == u # 0 /\ e \in 0 .. Len(F[u]) /\ f[u - 1] + e = Len(T)

(* The rest of a frame of which only the beginning was written.            *)
LEMMA LaidBody ==
    ASSUME NEW T \in Strings, NEW f, NEW F, NEW u \in Nat, Laid(T, f, F, u),
           Same(F, F, u), NEW e, Begun(T, f, F, u, e)
    PROVE  Laid(T \o Rest(F[u], e), f, F, u) /\ f[u] = Len(T \o Rest(F[u], e))
<1> DEFINE x == Rest(F[u], e)
           z == T \o x
<1>1. /\ f \in [0 .. u -> Nat] /\ f[0] = 0
      /\ \A i, j \in 0 .. u : i <= j => f[i] <= f[j]
      /\ \A i \in 1 .. u : f[i] = f[i - 1] + Len(F[i]) /\ Shows(T, f[i - 1], F[i])
  BY DEF Laid
<1>2. /\ F[u] \in Strings /\ u \in 1 .. u /\ u - 1 \in 0 .. u /\ u \in 0 .. u
      /\ e \in 0 .. Len(F[u]) /\ f[u - 1] + e = Len(T)
  BY DEF Same, Begun
<1>3. Len(F[u]) \in Nat /\ Len(T) \in Nat /\ e \in Nat /\ e <= Len(F[u])
  <2>1. Len(F[u]) \in Nat /\ Len(T) \in Nat  BY <1>2, StringLen
  <2> QED  BY <1>2, <2>1
<1>4. x \in Strings /\ Len(x) = Len(F[u]) - e /\ Len(z) = Len(T) + Len(x)
  <2>1. x \in Strings /\ Len(x) = Len(F[u]) - e  BY <1>2, RestIs
  <2> HIDE DEF x
  <2> QED  BY <2>1, CatIs
<1>5. f[u - 1] \in Nat /\ f[u] = f[u - 1] + Len(F[u])  BY <1>1, <1>2
<1>6. f[u] = Len(z)
  <2> HIDE DEF x, z
  <2>1. f[u - 1] + e = Len(T)  BY <1>2
  <2>2. \A p, l, d, t \in Nat : p + d = t => p + l = t + (l - d)  OBVIOUS
  <2>3. f[u - 1] + Len(F[u]) = Len(T) + (Len(F[u]) - e)
    <3>1. f[u - 1] \in Nat /\ Len(F[u]) \in Nat /\ e \in Nat /\ Len(T) \in Nat
      BY <1>3, <1>5
    <3> QED  BY <2>1, <2>2, <3>1
  <2> QED  BY <1>4, <1>5, <2>3, Zenon
<1>7. Shows(z, f[u - 1], F[u])  BY <1>1, <1>2, <1>5, ShowsBody
<1>8. ASSUME NEW i \in 1 .. u PROVE Shows(z, f[i - 1], F[i])
  <2>1. CASE i = u  BY <1>7, <2>1
  <2>2. CASE i # u
    <3>1. i \in 0 .. u /\ i - 1 \in 0 .. u /\ i <= u - 1  BY <2>2
    <3>2. f[i] <= f[u - 1] /\ f[i - 1] \in Nat /\ f[i] \in Nat  BY <1>1, <1>2, <3>1
    <3>3. f[i] = f[i - 1] + Len(F[i]) /\ Shows(T, f[i - 1], F[i])  BY <1>1
    <3>5. f[u - 1] + e = Len(T)  BY <1>2
    <3>4. f[i] <= Len(T)  BY <1>3, <1>5, <3>2, <3>5
    <3> QED  BY <1>4, <3>2, <3>3, <3>4, ShowsMore DEF Same
  <2> QED  BY <2>1, <2>2
<1> HIDE DEF z
<1>9. Laid(z, f, F, u)  BY <1>1, <1>8 DEF Laid
<1> QED  BY <1>6, <1>9 DEF z

(* Fewer frames are laid out as more are.                                  *)
LEMMA LaidLess ==
    ASSUME NEW T, NEW f, NEW F, NEW u \in Nat, NEW v \in 0 .. u, Laid(T, f, F, u)
    PROVE  \E e : Laid(T, e, F, v) /\ \A i \in 0 .. v : e[i] = f[i]
<1> DEFINE e == [i \in 0 .. v |-> f[i]]
<1>1. \A i \in 0 .. v : i \in 0 .. u  OBVIOUS
<1>2. \A i \in 1 .. v : i \in 1 .. u /\ i \in 0 .. v /\ i - 1 \in 0 .. v  OBVIOUS
<1>3. \A i \in 0 .. v : e[i] = f[i]  OBVIOUS
<1>4. e \in [0 .. v -> Nat] /\ 0 \in 0 .. v  BY <1>1 DEF Laid
<1> HIDE DEF e
<1>5. Laid(T, e, F, v)  BY <1>1, <1>2, <1>3, <1>4 DEF Laid
<1> QED  BY <1>3, <1>5

Reaches(W, T, c) == c + Len(W) = Len(T)

(* What is written is what can be read.                                    *)
LEMMA OnMore ==
    ASSUME NEW W \in Strings, NEW T \in Strings, NEW c, NEW x \in Strings, On(W, T, c),
           Reaches(W, T, c)
    PROVE  On(W \o x, T \o x, c) /\ Reaches(W \o x, T \o x, c)
<1> DEFINE y == W \o x
           z == T \o x
<1>0. c + Len(W) = Len(T)  BY DEF Reaches
<1>1. /\ Len(y) = Len(W) + Len(x) /\ Len(z) = Len(T) + Len(x)
      /\ \A i \in 1 .. Len(W) : y[i] = W[i]
      /\ \A i \in 1 .. Len(T) : z[i] = T[i]
      /\ \A i \in 1 .. Len(x) : y[Len(W) + i] = x[i]
      /\ \A i \in 1 .. Len(x) : z[Len(T) + i] = x[i]
      /\ Len(W) \in Nat /\ Len(T) \in Nat /\ Len(x) \in Nat /\ c \in Nat
  BY CatIs, StringLen DEF On
<1> HIDE DEF y, z
<1>2. ASSUME NEW p \in 1 .. Len(y) PROVE y[p] = z[c + p]
  <2>1. CASE p <= Len(W)
    <3>1. p \in 1 .. Len(W) /\ c + p \in 1 .. Len(T)  BY <1>0, <1>1, <2>1
    <3> QED  BY <1>1, <3>1 DEF On
  <2>2. CASE p > Len(W)
    <3>0. /\ Len(W) \in Nat /\ Len(T) \in Nat /\ Len(x) \in Nat /\ c \in Nat /\ p \in Nat
          /\ Len(y) = Len(W) + Len(x) /\ p <= Len(y)
      BY <1>1
    <3>1. /\ p - Len(W) \in 1 .. Len(x) /\ Len(W) + (p - Len(W)) = p
          /\ Len(T) + (p - Len(W)) = c + p
      BY <1>0, <2>2, <3>0
    <3>2. y[Len(W) + (p - Len(W))] = x[p - Len(W)]  BY <1>1, <3>1
    <3>3. z[Len(T) + (p - Len(W))] = x[p - Len(W)]  BY <1>1, <3>1
    <3> QED  BY <3>1, <3>2, <3>3
  <2> QED  BY <1>1, <2>1, <2>2
<1>3. c + Len(y) = Len(z)
  <2>1. /\ Len(y) = Len(W) + Len(x) /\ Len(z) = Len(T) + Len(x)
        /\ Len(W) \in Nat /\ Len(T) \in Nat /\ Len(x) \in Nat /\ c \in Nat
    BY <1>1
  <2> QED  BY <1>0, <2>1
<1>4. On(y, z, c)  BY <1>1, <1>2, <1>3 DEF On
<1> QED  BY <1>3, <1>4 DEF y, z, Reaches

(* The network cuts the end of what is under way.                          *)
LEMMA OnLess ==
    ASSUME NEW W \in Strings, NEW T \in Strings, NEW c, On(W, T, c), NEW m \in 0 .. Len(W)
    PROVE  On(SubSeq(W, 1, m), T, c)
<1> DEFINE y == SubSeq(W, 1, m)
<1>1. /\ Len(y) = m /\ \A p \in 1 .. m : y[p] = W[p]
      /\ Len(W) \in Nat /\ Len(T) \in Nat
  BY StartIs, StringLen
<1> HIDE DEF y
<1>2. c \in Nat /\ c + Len(W) <= Len(T) /\ m \in Nat /\ m <= Len(W)  BY <1>1 DEF On
<1>3. c + Len(y) <= Len(T)  BY <1>1, <1>2
<1>4. \A p \in 1 .. Len(y) : p \in 1 .. Len(W) /\ y[p] = W[p]  BY <1>1, <1>2
<1>5. On(y, T, c)  BY <1>2, <1>3, <1>4 DEF On
<1> QED  BY <1>5 DEF y

(* The reader takes bytes off the start.                                   *)
LEMMA OnRest ==
    ASSUME NEW W \in Strings, NEW T \in Strings, NEW c, On(W, T, c), NEW m \in 0 .. Len(W)
    PROVE  On(Rest(W, m), T, c + m) /\ c + m + Len(Rest(W, m)) = c + Len(W)
<1> DEFINE y == Rest(W, m)
<1>1. /\ Len(y) = Len(W) - m /\ \A p \in 1 .. Len(W) - m : y[p] = W[m + p]
      /\ Len(W) \in Nat /\ Len(T) \in Nat
  BY RestIs, StringLen
<1> HIDE DEF y
<1>2. c \in Nat /\ c + Len(W) <= Len(T) /\ m \in Nat /\ m <= Len(W)  BY <1>1 DEF On
<1>3. c + m + Len(y) = c + Len(W)  BY <1>1, <1>2
<1>4. ASSUME NEW p \in 1 .. Len(y) PROVE y[p] = T[c + m + p]
  <2>1. p \in 1 .. Len(W) - m /\ m + p \in 1 .. Len(W) /\ c + (m + p) = c + m + p
    BY <1>1, <1>2
  <2> QED  BY <1>1, <2>1 DEF On
<1>5. On(y, T, c + m)  BY <1>2, <1>3, <1>4 DEF On
<1> QED  BY <1>3, <1>5 DEF y

(* The reader at the beginning of frame k + 1.                             *)
LEMMA ReadsHead ==
    ASSUME NEW W \in Strings, NEW T \in Strings, NEW f, NEW F, NEW u \in Nat, NEW k \in 0 .. u,
           k < u, Laid(T, f, F, u), F[k + 1] \in Strings, Len(F[k + 1]) >= HeaderSize,
           On(W, T, f[k]), Len(W) >= HeaderSize
    PROVE  HeaderOf(W) = HeaderOf(F[k + 1])
<1>1. k + 1 \in 1 .. u /\ (k + 1) - 1 = k  OBVIOUS
<1>2. Shows(T, f[k], F[k + 1]) /\ f[k] \in Nat  BY <1>1 DEF Laid
<1>3. Len(W) \in Nat /\ Len(T) \in Nat /\ Len(F[k + 1]) \in Nat  BY StringLen
<1>4. ASSUME NEW p \in 1 .. HeaderSize PROVE W[p] = F[k + 1][p]
  <2>1. p \in 1 .. Len(W) /\ p \in 1 .. Len(F[k + 1])  BY <1>3 DEF HeaderSize
  <2>2. f[k] + p <= Len(T)  BY <1>2, <1>3, <2>1 DEF On
  <2>3. W[p] = T[f[k] + p]  BY <2>1 DEF On
  <2>4. T[f[k] + p] = F[k + 1][p]  BY <1>2, <2>1, <2>2 DEF Shows
  <2> QED  BY <2>3, <2>4
<1> QED  BY <1>4, HeaderAgrees

(* The reader at the body of frame k + 1.                                  *)
LEMMA ReadsBody ==
    ASSUME NEW W \in Strings, NEW T \in Strings, NEW f, NEW F, NEW u \in Nat, NEW k \in 0 .. u,
           k < u, Laid(T, f, F, u), F[k + 1] \in Strings, NEW n \in Nat,
           Len(F[k + 1]) = HeaderSize + n, On(W, T, f[k] + HeaderSize), Len(W) >= n
    PROVE  /\ SubSeq(W, 1, n) = Rest(F[k + 1], HeaderSize)
           /\ f[k + 1] = f[k] + HeaderSize + n
<1>1. k + 1 \in 1 .. u /\ (k + 1) - 1 = k  OBVIOUS
<1>2. /\ Shows(T, f[k], F[k + 1]) /\ f[k] \in Nat
      /\ f[k + 1] = f[k] + Len(F[k + 1])
  BY <1>1 DEF Laid
<1> DEFINE y == SubSeq(W, 1, n)
           z == Rest(F[k + 1], HeaderSize)
           c == f[k] + HeaderSize
<1>3. Len(W) \in Nat /\ Len(T) \in Nat /\ n \in 0 .. Len(W)
  <2>1. Len(W) \in Nat /\ Len(T) \in Nat  BY StringLen
  <2> QED  BY <2>1
<1>4. y \in Strings /\ Len(y) = n /\ \A p \in 1 .. n : y[p] = W[p]
  BY <1>3, StartIs
<1>5. HeaderSize \in 0 .. Len(F[k + 1]) /\ Len(F[k + 1]) - HeaderSize = n
  BY DEF HeaderSize
<1>6. z \in Strings /\ Len(z) = n /\ \A p \in 1 .. n : z[p] = F[k + 1][HeaderSize + p]
  BY <1>5, RestIs
<1> HIDE DEF y, z
<1>7. ASSUME NEW p \in 1 .. n PROVE y[p] = z[p]
  <2>1. /\ p \in 1 .. Len(W) /\ HeaderSize + p \in 1 .. Len(F[k + 1])
        /\ c + p = f[k] + (HeaderSize + p)
    <3>1. \A N \in Nat : \A L \in Nat : L >= N => \A j \in 1 .. N : j \in 1 .. L
      OBVIOUS
    <3>2. \A N \in Nat : \A j \in 1 .. N : HeaderSize + j \in 1 .. HeaderSize + N
      BY DEF HeaderSize
    <3>3. \A m \in Nat : m + HeaderSize + p = m + (HeaderSize + p)  BY DEF HeaderSize
    <3>4. Len(W) \in Nat /\ Len(W) >= n  BY <1>3
    <3>5. p \in 1 .. Len(W)  BY <3>1, <3>4, Zenon
    <3>6. HeaderSize + p \in 1 .. Len(F[k + 1])  BY <3>2, Zenon
    <3>7. c + p = f[k] + (HeaderSize + p)  BY <1>2, <3>3, Zenon
    <3> QED  BY <3>5, <3>6, <3>7
  <2>2. c + p <= Len(T)  BY <1>2, <1>3, <2>1 DEF On, HeaderSize
  <2>3. W[p] = T[c + p]  BY <2>1 DEF On
  <2>4. T[c + p] = F[k + 1][HeaderSize + p]  BY <1>2, <2>1, <2>2 DEF Shows
  <2> QED  BY <1>4, <1>6, <2>3, <2>4
<1>8. y = z
  <2>1. \A i \in 1 .. Len(y) : y[i] = z[i]  BY <1>4, <1>7
  <2> QED  BY <1>4, <1>6, <2>1, Equal DEF Strings
<1>9. f[k + 1] = f[k] + HeaderSize + n  BY <1>2 DEF HeaderSize
<1> QED  BY <1>8, <1>9 DEF y, z

(* A datagram taken out of those under way.                                *)
LEMMA RemovedIs ==
    ASSUME NEW S, NEW s \in Seq(S), NEW i \in DOMAIN s
    PROVE  /\ RemoveAt(s, i) \in Seq(S) /\ Len(RemoveAt(s, i)) = Len(s) - 1
           /\ \A j \in 1 .. Len(s) - 1 : RemoveAt(s, i)[j] = IF j < i THEN s[j] ELSE s[j + 1]
<1> DEFINE x == SubSeq(s, 1, i - 1)
           y == SubSeq(s, i + 1, Len(s))
           z == x \o y
<1>1. i \in 1 .. Len(s) /\ Len(s) \in Nat  OBVIOUS
<1>2. x \in Seq(S) /\ IsCut(x, s, 1, i - 1)  BY <1>1, Cuts DEF Within
<1>3. y \in Seq(S) /\ IsCut(y, s, i + 1, Len(s))  BY <1>1, Cuts DEF Within
<1> HIDE DEF x, y
<1>4. z \in Seq(S) /\ IsCat(z, x, y)  BY <1>2, <1>3, Joined, Zenon
<1> HIDE DEF z
<1>5. Len(x) = i - 1 /\ Len(y) = Len(s) - i /\ Len(z) = Len(s) - 1
  <2>1. Len(x) = (i - 1) - 1 + 1  BY <1>2 DEF IsCut
  <2>2. Len(y) = Len(s) - (i + 1) + 1  BY <1>3 DEF IsCut
  <2>3. Len(z) = Len(x) + Len(y)  BY <1>4 DEF IsCat
  <2>4. i \in Nat /\ i >= 1 /\ i <= Len(s) /\ Len(s) \in Nat  BY <1>1
  <2>5. \A a, b \in Nat : (a - 1) - 1 + 1 = a - 1 /\ b - (a + 1) + 1 = b - a
                          /\ (a - 1) + (b - a) = b - 1
    OBVIOUS
  <2>6. Len(x) = i - 1 /\ Len(y) = Len(s) - i  BY <2>1, <2>2, <2>4, <2>5
  <2> QED  BY <2>3, <2>4, <2>5, <2>6
<1>6. ASSUME NEW j \in 1 .. Len(s) - 1 PROVE z[j] = IF j < i THEN s[j] ELSE s[j + 1]
  <2>1. CASE j < i
    <3>1. j \in 1 .. Len(x) /\ j \in 1 .. (i - 1) - 1 + 1 /\ 1 + j - 1 = j
      BY <1>1, <1>5, <2>1
    <3>2. z[j] = x[j]  BY <1>4, <3>1 DEF IsCat
    <3>3. x[j] = s[1 + j - 1]  BY <1>2, <3>1 DEF IsCut
    <3> QED  BY <2>1, <3>1, <3>2, <3>3
  <2>2. CASE ~(j < i)
    <3>1. /\ j - (i - 1) \in 1 .. Len(y) /\ j - (i - 1) \in 1 .. Len(s) - (i + 1) + 1
          /\ (i + 1) + (j - (i - 1)) - 1 = j + 1 /\ Len(x) + (j - (i - 1)) = j
      <4>1. /\ i \in Nat /\ i >= 1 /\ i <= Len(s) /\ Len(s) \in Nat
            /\ j \in Nat /\ j <= Len(s) - 1
        BY <1>1
      <4>2. \A a, l, b \in Nat :
               a >= 1 /\ a <= l /\ ~(b < a) /\ b <= l - 1 =>
                  /\ b - (a - 1) \in 1 .. l - a /\ b - (a - 1) \in 1 .. l - (a + 1) + 1
                  /\ (a + 1) + (b - (a - 1)) - 1 = b + 1 /\ (a - 1) + (b - (a - 1)) = b
        OBVIOUS
      <4>3. /\ j - (i - 1) \in 1 .. Len(s) - i /\ j - (i - 1) \in 1 .. Len(s) - (i + 1) + 1
            /\ (i + 1) + (j - (i - 1)) - 1 = j + 1 /\ (i - 1) + (j - (i - 1)) = j
        BY <2>2, <4>1, <4>2, Zenon
      <4> QED  BY <1>5, <4>3, Zenon
    <3>2. z[Len(x) + (j - (i - 1))] = y[j - (i - 1)]  BY <1>4, <3>1 DEF IsCat
    <3>3. y[j - (i - 1)] = s[(i + 1) + (j - (i - 1)) - 1]  BY <1>3, <3>1 DEF IsCut
    <3> QED  BY <2>2, <3>1, <3>2, <3>3
  <2> QED  BY <2>1, <2>2
<1>7. RemoveAt(s, i) = z  BY DEF RemoveAt, z, x, y
<1> QED  BY <1>4, <1>5, <1>6, <1>7

-----------------------------------------------------------------------------
(* Decoding a message that holds a frame, and one that lost its end.       *)

(* DecodeMessage of a frame with the length that its header says.          *)
LEMMA Decoded ==
    ASSUME Typed, NEW w \in Writers, Prepared(w)
    PROVE  LET b == BytesOf(w)
           IN  DecodeMessage(b, opt.max)
                 = IF Readable(w) THEN {[hdr |-> HeaderOf(b), body |-> Rest(b, HeaderSize)]}
                   ELSE {}
<1> DEFINE b == BytesOf(w)
           h == HeaderOf(b)
<1>1. b \in Strings /\ Len(b) >= HeaderSize /\ Len(b) = HeaderSize + h.len /\ h.len \in Nat
  BY FrameOf
<1>2. Readable(w) = CheckHeader(h, opt.max)  BY DEF Readable
<1> HIDE DEF b, h
<1>3. ~(Len(b) < HeaderSize) /\ Len(b) - HeaderSize = h.len  BY <1>1 DEF HeaderSize
<1>4. DecodeMessage(b, opt.max)
        = {[hdr |-> g, body |-> Rest(b, HeaderSize)] :
             g \in {x \in {h} : CheckHeader(x, opt.max) /\ Len(b) - HeaderSize = x.len}}
  BY <1>3 DEF DecodeMessage, h
<1>5. {x \in {h} : CheckHeader(x, opt.max) /\ Len(b) - HeaderSize = x.len}
        = IF Readable(w) THEN {h} ELSE {}
  BY <1>2, <1>3
<1> QED  BY <1>4, <1>5 DEF b, h

(* DecodeMessage refuses a frame that lost its end.                        *)
LEMMA Truncated ==
    ASSUME NEW b \in Strings, Len(b) = HeaderSize + HeaderOf(b).len, NEW m \in 0 .. Len(b),
           m # Len(b), NEW max
    PROVE  DecodeMessage(SubSeq(b, 1, m), max) = {}
<1> DEFINE x == SubSeq(b, 1, m)
<1>1. x \in Strings /\ Len(x) = m /\ \A p \in 1 .. m : x[p] = b[p]  BY StartIs
<1>2. Len(b) \in Nat /\ m \in Nat /\ m < Len(b)
  <2>1. Len(b) \in Nat  BY StringLen
  <2> QED  BY <2>1
<1> HIDE DEF x
<1>3. CASE m < HeaderSize  BY <1>1, <1>3 DEF DecodeMessage, x
<1>4. CASE m >= HeaderSize
  <2>1. \A p \in 1 .. HeaderSize : p \in 1 .. m  BY <1>2, <1>4 DEF HeaderSize
  <2>2. HeaderOf(x) = HeaderOf(b)
    <3>1. Len(b) >= HeaderSize /\ Len(x) >= HeaderSize  BY <1>1, <1>2, <1>4 DEF HeaderSize
    <3> QED  BY <1>1, <2>1, <3>1, HeaderAgrees
  <2> DEFINE l == HeaderOf(b).len
  <2>3. Len(b) = HeaderSize + l  OBVIOUS
  <2>4. l \in Nat
    <3>1. Len(b) >= HeaderSize  BY <1>2, <1>4 DEF HeaderSize
    <3> QED  BY <3>1, HeadIs
  <2> HIDE DEF l
  <2>5. Len(x) - HeaderSize # l  BY <1>1, <1>2, <2>3, <2>4 DEF HeaderSize
  <2>6. {g \in {HeaderOf(x)} : CheckHeader(g, max) /\ Len(x) - HeaderSize = g.len} = {}
    BY <2>2, <2>5 DEF l
  <2>7. DecodeMessage(x, max) = {}  BY <2>6 DEF DecodeMessage
  <2> QED  BY <2>7 DEF x
<1>5. m < HeaderSize \/ m >= HeaderSize  BY <1>2 DEF HeaderSize
<1> QED  BY <1>3, <1>4, <1>5

-----------------------------------------------------------------------------
(* What holds whatever the carrier.                                        *)

Handed == [hdr : Heads, body : Strings, own : {TRUE}]

Shape ==
    /\ Typed
    /\ wire \in IF IsStream THEN Strings ELSE Seq(Strings)
    /\ readBuf \in Strings /\ Len(readBuf) <= DatagramMax
    /\ reader \in {"header", "body", "protocol", "eof"}
    /\ reader = "body" => hdr \in Heads /\ CheckHeader(hdr, opt.max) /\ IsStream
    /\ reader # "body" => hdr = Nothing
    /\ reader \in {"protocol", "eof"} => down
    /\ handed \in Seq(Handed)
    /\ down \in BOOLEAN /\ torn \in BOOLEAN /\ mishaps \in 0 .. MaxMishaps

(* The writers: one at a time is between the header and the body of its    *)
(* frame, the last of those sent, and only over KCP.                       *)
Discipline ==
    /\ sent \in Seq(Writers)
    /\ writer \in [Writers -> {"idle", "ready", "header", "done", "failed", "refused"}]
    /\ lock \subseteq Writers
    /\ \A i \in 1 .. Len(sent) :
          writer[sent[i]] \in {"header", "done", "failed"} /\ Prepared(sent[i])
    /\ \A w \in Writers : writer[w] = "ready" => Prepared(w)
    /\ \A w \in Writers : w \in lock <=> writer[w] = "header"
    /\ \A w \in lock : /\ Len(sent) # 0 /\ sent[Len(sent)] = w
                       /\ \A i \in 1 .. Len(sent) : sent[i] = w => i = Len(sent)
    /\ lock # {} => opt.dir = "up" /\ opt.carrier = "kcp"
    /\ torn => opt.carrier = "kcp"
    /\ \A i \in 1 .. Len(sent) : HalfWritten(i) => torn

(* A connection keeps its options and its writers their work.              *)
LEMMA Fixed == ASSUME [Next]_vars PROVE opt' = opt /\ work' = work
BY DEF Next, vars, writeVars, readVars, Build, WriteFrame, WriteHeader, WriteBody, WriteTimeout,
       WritesFail, Cut, Mishap, ReadHeader, ReadBody, ReadEOF, ReadMessage, ReadDatagram,
       ReadOnly, Done

(* What Take and Accept do with a frame.                                   *)
LEMMA AcceptIs ==
    ASSUME NEW h, NEW body, Accept(h, body)
    PROVE  /\ hdr' = Nothing
           /\ Meaning(h, body) = {} => reader' = "protocol" /\ down' /\ handed' = handed
           /\ Meaning(h, body) # {} => reader' = "header" /\ down' = down
           /\ Meaning(h, body) = {Nothing} => handed' = handed
           /\ Meaning(h, body) \notin {{}, {Nothing}} =>
                 handed' = Append(handed, [hdr |-> h, body |-> body, own |-> TRUE])
BY DEF Accept, Take, End, Owned

(* A frame handed over is the last of those handed over.                   *)
LEMMA HandedMore ==
    ASSUME handed \in Seq(Handed), NEW h \in Heads, NEW body \in Strings, Accept(h, body)
    PROVE  /\ handed' \in Seq(Handed) /\ hdr' = Nothing
           /\ reader' \in {"header", "protocol"} /\ (reader' = "protocol" => down')
           /\ down \in BOOLEAN => down' \in BOOLEAN
<1>1. [hdr |-> h, body |-> body, own |-> TRUE] \in Handed  BY DEF Handed
<1>2. handed' = handed \/ handed' = Append(handed, [hdr |-> h, body |-> body, own |-> TRUE])
  BY AcceptIs
<1>3. handed' \in Seq(Handed)
  <2> HIDE DEF Handed
  <2> QED  BY <1>1, <1>2
<1> QED  BY <1>3, AcceptIs

(* A frame put on the wire.                                                *)
LEMMA WireTakes ==
    ASSUME wire \in IF IsStream THEN Strings ELSE Seq(Strings), NEW b \in Strings
    PROVE  OnWire(b) \in IF IsStream THEN Strings ELSE Seq(Strings)
<1>1. Wrapped(b) \in Strings  BY WireAssumption, Joins DEF Wrapped
<1>2. CASE IsStream  BY <1>2, Joins DEF OnWire
<1>3. CASE ~IsStream
  <2>1. wire \in Seq(Strings)  BY <1>3
  <2>2. OnWire(b) = Append(wire, Wrapped(b))  BY <1>3 DEF OnWire
  <2> HIDE DEF Strings
  <2>3. Append(wire, Wrapped(b)) \in Seq(Strings)  BY <1>1, <2>1
  <2> QED  BY <1>3, <2>2, <2>3
<1> QED  BY <1>2, <1>3

(* A datagram is cut to the size of the buffer that it is read into.       *)
LEMMA ReceivedIs ==
    ASSUME NEW b \in Strings
    PROVE  /\ MinLen(b) \in 0 .. Len(b) /\ MinLen(b) <= DatagramMax
           /\ Received(b) \in Strings /\ Len(Received(b)) = MinLen(b)
           /\ Len(b) <= DatagramMax => Received(b) = b
           /\ ~(Len(b) <= DatagramMax) => MinLen(b) # Len(b)
<1>1. Len(b) \in Nat /\ DatagramMax \in Nat  BY StringLen, WireAssumption
<1>2. MinLen(b) \in 0 .. Len(b) /\ MinLen(b) <= DatagramMax
      /\ (Len(b) <= DatagramMax => MinLen(b) = Len(b))
      /\ (~(Len(b) <= DatagramMax) => MinLen(b) # Len(b))
  BY <1>1 DEF MinLen
<1>3. Received(b) \in Strings /\ Len(Received(b)) = MinLen(b)
  BY <1>2, StartIs DEF Received
<1>4. Len(b) <= DatagramMax => Received(b) = b
  BY <1>2, WholeCut DEF Received, Strings
<1> QED  BY <1>2, <1>3, <1>4

(* A datagram is read over the start of the buffer and leaves what is      *)
(* behind.                                                                 *)
LEMMA BufferIs ==
    ASSUME NEW s \in Strings, NEW t \in Strings
    PROVE  /\ s \o Rest(t, Len(s)) \in Strings
           /\ Len(s \o Rest(t, Len(s))) = IF Len(s) <= Len(t) THEN Len(t) ELSE Len(s)
<1>1. Len(s) \in Nat /\ Len(t) \in Nat  BY StringLen
<1>2. CASE Len(s) <= Len(t)
  <2> DEFINE r == Rest(t, Len(s))
  <2>1. r \in Strings /\ Len(r) = Len(t) - Len(s)  BY <1>1, <1>2, RestIs
  <2> HIDE DEF r
  <2>2. s \o r \in Strings /\ Len(s \o r) = Len(s) + Len(r)  BY <2>1, CatIs
  <2>3. Len(s \o r) = Len(t)  BY <1>1, <2>1, <2>2
  <2> QED  BY <1>2, <2>2, <2>3 DEF r
<1>3. CASE ~(Len(s) <= Len(t))
  <2>1. Len(s) + 1 > Len(t)  BY <1>1, <1>3
  <2>2. Rest(t, Len(s)) = << >>  BY <1>1, <2>1 DEF Rest, Strings
  <2>3. s \o << >> = s  BY DEF Strings
  <2> QED  BY <1>3, <2>2, <2>3
<1> QED  BY <1>2, <1>3

(* What is left of a datagram without its flow id.                         *)
LEMMA StrippedIs ==
    ASSUME NEW b \in Strings, NEW x \in Stripped(b)
    PROVE  x \in Strings
<1>1. CASE opt.carrier = "udp"  BY <1>1 DEF Stripped
<1>2. CASE opt.carrier # "udp"
  <2>1. OfFlow(b) /\ x = Rest(b, Len(FlowPrefix))  BY <1>2 DEF Stripped
  <2>2. Len(FlowPrefix) \in 0 .. Len(b)
    <3>1. Len(FlowPrefix) \in Nat /\ Len(b) \in Nat  BY StringLen, WireAssumption
    <3>2. Len(b) >= Len(FlowPrefix)  BY <2>1 DEF OfFlow
    <3> QED  BY <3>1, <3>2
  <2> QED  BY <2>1, <2>2, RestIs
<1> QED  BY <1>1, <1>2

(* A decoded message has a header and a body of their types.               *)
LEMMA DecodedIs ==
    ASSUME NEW b \in Strings, NEW max, NEW m \in DecodeMessage(b, max)
    PROVE  m.hdr \in Heads /\ m.body \in Strings
<1>1. ~(Len(b) < HeaderSize) /\ m = [hdr |-> HeaderOf(b), body |-> Rest(b, HeaderSize)]
  BY DEF DecodeMessage
<1>2. Len(b) \in Nat /\ Len(b) >= HeaderSize /\ HeaderSize \in 0 .. Len(b)
  BY <1>1, StringLen DEF HeaderSize
<1> QED  BY <1>1, <1>2, HeadIs, RestIs

(* Everything about the reader that a step of a writer leaves alone.       *)
LEMMA ShapeWrites ==
    ASSUME Shape, opt' = opt, work' = work, UNCHANGED readVars, down' = down,
           mishaps' = mishaps, torn' \in BOOLEAN,
           wire' \in IF IsStream THEN Strings ELSE Seq(Strings)
    PROVE  Shape'
<1>1. Typed' /\ IsStream' = IsStream  BY Frozen DEF Shape
<1> QED  BY <1>1 DEF Shape, readVars

LEMMA ShapeReads ==
    ASSUME Shape, opt' = opt, work' = work, mishaps' = mishaps, torn' = torn,
           wire' \in IF IsStream THEN Strings ELSE Seq(Strings),
           readBuf' \in Strings /\ Len(readBuf') <= DatagramMax,
           handed' \in Seq(Handed), down' \in BOOLEAN,
           \/ reader' = "header" /\ hdr' = Nothing
           \/ reader' = "body" /\ hdr' \in Heads /\ CheckHeader(hdr', opt.max) /\ IsStream
           \/ reader' \in {"protocol", "eof"} /\ hdr' = Nothing /\ down'
    PROVE  Shape'
<1>1. Typed' /\ IsStream' = IsStream  BY Frozen DEF Shape
<1> QED  BY <1>1 DEF Shape

(* A prepared frame has its header and its body.                           *)
LEMMA PartsAre ==
    ASSUME Shape, NEW w \in Writers, Prepared(w)
    PROVE  /\ BytesOf(w) \in Strings /\ SubSeq(BytesOf(w), 1, HeaderSize) \in Strings
           /\ Rest(BytesOf(w), HeaderSize) \in Strings
<1>1. BytesOf(w) \in Strings /\ Len(BytesOf(w)) >= HeaderSize  BY FrameOf DEF Shape
<1>2. HeaderSize \in 0 .. Len(BytesOf(w))
  <2>1. Len(BytesOf(w)) \in Nat  BY <1>1, StringLen
  <2> QED  BY <1>1, <2>1 DEF HeaderSize
<1> QED  BY <1>1, <1>2, StartIs, RestIs

(* Shape is inductive by itself.                                           *)
LEMMA ShapeStep ==
    ASSUME Shape, Discipline, [Next]_vars
    PROVE  Shape'
<1>1. opt' = opt /\ work' = work  BY Fixed
<1>2. wire \in IF IsStream THEN Strings ELSE Seq(Strings)  BY DEF Shape
<1>3. \A w \in Writers : Prepared(w) => OnWire(BytesOf(w)) \in IF IsStream THEN Strings ELSE Seq(Strings)
  BY <1>2, WireTakes, PartsAre
<1>4. torn \in BOOLEAN  BY DEF Shape
<1>5. ASSUME NEW w \in Writers, Build(w) PROVE Shape'
  BY <1>1, <1>2, <1>4, <1>5, ShapeWrites DEF Build
<1>6. ASSUME NEW w \in Writers, WriteFrame(w) PROVE Shape'
  <2>1. Prepared(w)
    <3>1. CASE opt.dir = "up"  BY <1>6, <3>1 DEF WriteFrame, WriterAt, Discipline
    <3>2. CASE opt.dir # "up"  BY <3>2 DEF Prepared
    <3> QED  BY <3>1, <3>2
  <2> QED  BY <1>1, <1>3, <1>4, <1>6, <2>1, ShapeWrites DEF WriteFrame
<1>7. ASSUME NEW w \in Writers, WriteHeader(w) PROVE Shape'
  <2>1. Prepared(w)  BY <1>7 DEF WriteHeader, WriterAt, Discipline
  <2>2. OnWire(SubSeq(BytesOf(w), 1, HeaderSize)) \in IF IsStream THEN Strings ELSE Seq(Strings)
    BY <1>2, <2>1, WireTakes, PartsAre
  <2> QED  BY <1>1, <1>4, <1>7, <2>2, ShapeWrites DEF WriteHeader
<1>8. ASSUME NEW w \in Writers, WriteBody(w) PROVE Shape'
  <2>1. Prepared(w)
    <3>1. w \in lock  BY <1>8 DEF WriteBody, WriterAt, Discipline
    <3>2. Len(sent) # 0 /\ sent[Len(sent)] = w /\ sent \in Seq(Writers)
      BY <3>1 DEF Discipline
    <3>3. Len(sent) \in 1 .. Len(sent)  BY <3>2
    <3> QED  BY <3>2, <3>3 DEF Discipline
  <2>2. OnWire(Rest(BytesOf(w), HeaderSize)) \in IF IsStream THEN Strings ELSE Seq(Strings)
    BY <1>2, <2>1, WireTakes, PartsAre
  <2> QED  BY <1>1, <1>4, <1>8, <2>2, ShapeWrites DEF WriteBody
<1>9. ASSUME NEW w \in Writers, WriteTimeout(w) PROVE Shape'
  <2>1. torn' \in BOOLEAN  BY <1>4, <1>9 DEF WriteTimeout
  <2> QED  BY <1>1, <1>2, <1>9, <2>1, ShapeWrites DEF WriteTimeout
<1>10. CASE WritesFail
  <2>1. torn' \in BOOLEAN  BY <1>4, <1>10 DEF WritesFail
  <2> QED  BY <1>1, <1>2, <1>10, <2>1, ShapeWrites DEF WritesFail
<1>11. CASE Cut
  <2>1. wire' \in IF IsStream THEN Strings ELSE Seq(Strings)
    <3>1. PICK k \in 0 .. Len(wire) : wire' = SubSeq(wire, 1, k)  BY <1>11 DEF Cut
    <3>2. CASE IsStream  BY <1>2, <3>1, <3>2 DEF Strings
    <3>3. CASE ~IsStream
      <4>1. wire \in Seq(Strings)  BY <1>2, <3>3
      <4> HIDE DEF Strings
      <4>2. SubSeq(wire, 1, k) \in Seq(Strings)  BY <4>1
      <4> QED  BY <3>1, <3>3, <4>2
    <3> QED  BY <3>2, <3>3
  <2>2. Typed' /\ IsStream' = IsStream  BY <1>1, Frozen DEF Shape
  <2> QED  BY <1>1, <1>11, <2>1, <2>2 DEF Cut, Shape, readVars
<1>12. CASE Mishap
  <2>1. ~IsStream /\ wire \in Seq(Strings) /\ mishaps' \in 0 .. MaxMishaps
    <3>1. ~IsStream  BY <1>12 DEF Mishap, IsDatagram, IsStream, Datagrams, Streams
    <3>2. mishaps \in 0 .. MaxMishaps /\ mishaps < MaxMishaps /\ mishaps' = mishaps + 1
          /\ MaxMishaps \in Nat
      BY <1>12, WireAssumption DEF Mishap, Shape
    <3> QED  BY <1>2, <3>1, <3>2
  <2>2. wire' \in Seq(Strings)
    <3> HIDE DEF Strings
    <3>1. CASE \E i \in DOMAIN wire : wire' = RemoveAt(wire, i)
      BY <2>1, <3>1, RemovedIs
    <3>2. CASE \E i \in DOMAIN wire : wire' = Append(wire, wire[i])
      <4>1. PICK i \in DOMAIN wire : wire' = Append(wire, wire[i])  BY <3>2
      <4>2. wire[i] \in Strings  BY <2>1, <4>1
      <4> QED  BY <2>1, <4>1, <4>2
    <3>3. CASE \E w \in Writers : opt.dir = "down" /\ wire' = Append(wire, OtherPrefix \o BytesOf(w))
      <4>1. PICK w \in Writers : opt.dir = "down" /\ wire' = Append(wire, OtherPrefix \o BytesOf(w))
        BY <3>3
      <4>2. BytesOf(w) \in Strings  BY <4>1, PartsAre DEF Prepared
      <4>3. OtherPrefix \o BytesOf(w) \in Strings  BY <4>2, WireAssumption, Joins
      <4> QED  BY <2>1, <4>1, <4>3
    <3> QED  BY <1>12, <3>1, <3>2, <3>3 DEF Mishap
  <2>3. Typed' /\ IsStream' = IsStream  BY <1>1, Frozen DEF Shape
  <2> QED  BY <1>1, <1>12, <2>1, <2>2, <2>3 DEF Mishap, Shape, readVars
<1>13. CASE ReadHeader
  <2>1. IsStream /\ wire \in Strings /\ Len(wire) >= HeaderSize
    BY <1>2, <1>13 DEF ReadHeader
  <2>2. HeaderSize \in 0 .. Len(wire)
    <3>1. Len(wire) \in Nat  BY <2>1, StringLen
    <3> QED  BY <2>1, <3>1 DEF HeaderSize
  <2>3. wire' \in Strings  BY <1>13, <2>1, <2>2, RestIs DEF ReadHeader
  <2>4. HeaderOf(wire) \in Heads  BY <2>1, HeadIs
  <2>5. CASE CheckHeader(HeaderOf(wire), opt.max)
    BY <1>1, <1>13, <2>1, <2>3, <2>4, <2>5, ShapeReads DEF ReadHeader, ReadOnly, Shape
  <2>6. CASE ~CheckHeader(HeaderOf(wire), opt.max)
    BY <1>1, <1>13, <2>1, <2>3, <2>6, ShapeReads DEF ReadHeader, ReadOnly, Shape, End
  <2> QED  BY <2>5, <2>6
<1>14. CASE ReadBody
  <2>1. /\ IsStream /\ wire \in Strings /\ Len(wire) >= hdr.len /\ hdr \in Heads
        /\ Accept(hdr, SubSeq(wire, 1, hdr.len)) /\ wire' = Rest(wire, hdr.len)
    BY <1>2, <1>14 DEF ReadBody, Shape
  <2>2. hdr.len \in 0 .. Len(wire)
    <3>1. Len(wire) \in Nat  BY <2>1, StringLen
    <3>2. hdr.len \in Nat
      <4>1. PICK b \in Strings : Len(b) >= HeaderSize /\ hdr = HeaderOf(b)  BY <2>1 DEF Heads
      <4> QED  BY <4>1, HeadIs
    <3> QED  BY <2>1, <3>1, <3>2
  <2>3. wire' \in Strings /\ SubSeq(wire, 1, hdr.len) \in Strings
    BY <2>1, <2>2, RestIs, StartIs
  <2>4. /\ handed' \in Seq(Handed) /\ hdr' = Nothing /\ down' \in BOOLEAN
        /\ reader' \in {"header", "protocol"} /\ (reader' = "protocol" => down')
    BY <2>1, <2>3, HandedMore DEF Shape
  <2> QED  BY <1>1, <1>14, <2>1, <2>3, <2>4, ShapeReads DEF ReadBody, ReadOnly, Shape
<1>15. CASE ReadEOF
  BY <1>1, <1>2, <1>15, ShapeReads DEF ReadEOF, ReadOnly, End, Shape
<1>16. CASE ReadMessage
  <2>1. ~IsStream /\ wire \in Seq(Strings) /\ wire # << >>
    BY <1>2, <1>16 DEF ReadMessage, IsStream, Streams
  <2>2. wire' \in Seq(Strings) /\ wire[1] \in Strings
    <3> HIDE DEF Strings
    <3>1. wire' = Tail(wire)  BY <1>16 DEF ReadMessage
    <3> QED  BY <2>1, <3>1
  <2>3. /\ handed' \in Seq(Handed) /\ hdr' = Nothing /\ down' \in BOOLEAN
        /\ reader' \in {"header", "protocol"} /\ (reader' = "protocol" => down')
    <3>1. \/ End("protocol")
          \/ \E m \in DecodeMessage(wire[1], opt.max) : Accept(m.hdr, m.body)
      BY <1>16 DEF ReadMessage
    <3>2. CASE End("protocol")  BY <3>2 DEF End, Shape
    <3>3. CASE \E m \in DecodeMessage(wire[1], opt.max) : Accept(m.hdr, m.body)
      <4>1. PICK m \in DecodeMessage(wire[1], opt.max) : Accept(m.hdr, m.body)  BY <3>3
      <4>2. m.hdr \in Heads /\ m.body \in Strings  BY <2>2, <4>1, DecodedIs
      <4> QED  BY <4>1, <4>2, HandedMore DEF Shape
    <3> QED  BY <3>1, <3>2, <3>3
  <2> QED  BY <1>1, <1>16, <2>1, <2>2, <2>3, ShapeReads DEF ReadMessage, ReadOnly, Shape
<1>17. ASSUME NEW i \in 1 .. Len(wire), ReadDatagram(i) PROVE Shape'
  <2>1. ~IsStream /\ wire \in Seq(Strings) /\ i \in DOMAIN wire /\ reader = "header"
    BY <1>2, <1>17 DEF ReadDatagram, IsDatagram, Datagrams, IsStream, Streams
  <2>2. wire' \in Seq(Strings) /\ wire[i] \in Strings
    <3> HIDE DEF Strings
    <3>1. wire' = RemoveAt(wire, i)  BY <1>17 DEF ReadDatagram
    <3> QED  BY <2>1, <3>1, RemovedIs
  <2> DEFINE r == Received(wire[i])
  <2>3. r \in Strings /\ Len(r) <= DatagramMax
    BY <2>2, ReceivedIs
  <2>4. readBuf' \in Strings /\ Len(readBuf') <= DatagramMax
    <3>1. readBuf' = r \o Rest(readBuf, Len(r))  BY <1>17 DEF ReadDatagram
    <3>2. readBuf \in Strings /\ Len(readBuf) <= DatagramMax  BY DEF Shape
    <3> HIDE DEF r
    <3> QED  BY <2>3, <3>1, <3>2, BufferIs
  <2>5. /\ handed' \in Seq(Handed) /\ hdr' = Nothing /\ down' \in BOOLEAN
        /\ reader' \in {"header", "protocol"} /\ (reader' = "protocol" => down')
    <3>1. \/ End("protocol")
          \/ UNCHANGED <<down, reader, hdr, handed>>
          \/ \E m \in UNION {DecodeMessage(x, opt.max) : x \in Stripped(r)} : Accept(m.hdr, m.body)
      BY <1>17 DEF ReadDatagram
    <3>2. CASE End("protocol")  BY <3>2 DEF End, Shape
    <3>3. CASE UNCHANGED <<down, reader, hdr, handed>>  BY <2>1, <3>3 DEF Shape
    <3>4. CASE \E m \in UNION {DecodeMessage(x, opt.max) : x \in Stripped(r)} : Accept(m.hdr, m.body)
      <4>1. PICK x \in Stripped(r) :
                   \E m \in DecodeMessage(x, opt.max) : Accept(m.hdr, m.body)
        BY <3>4
      <4>2. x \in Strings
        <5> HIDE DEF r
        <5> QED  BY <2>3, <4>1, StrippedIs
      <4>4. PICK m \in DecodeMessage(x, opt.max) : Accept(m.hdr, m.body)  BY <4>1
      <4>3. m.hdr \in Heads /\ m.body \in Strings  BY <4>2, <4>4, DecodedIs
      <4> QED  BY <4>3, <4>4, HandedMore DEF Shape
    <3> QED  BY <3>1, <3>2, <3>3, <3>4
  <2> QED  BY <1>1, <1>17, <2>1, <2>2, <2>4, <2>5, ShapeReads DEF ReadDatagram, ReadOnly, Shape
<1>18. CASE UNCHANGED vars
  BY <1>1, <1>2, <1>4, <1>18, ShapeWrites DEF vars, writeVars
<1> QED
  BY <1>5, <1>6, <1>7, <1>8, <1>9, <1>10, <1>11, <1>12, <1>13, <1>14, <1>15, <1>16, <1>17,
     <1>18 DEF Next, Done

(* Shape and Discipline hold initially.                                    *)
LEMMA StartOK ==
    ASSUME Init
    PROVE  Shape /\ Discipline
<1>1. Typed
  <2>1. opt.dir = "up" => work \in [Writers -> Calls]
    <3>1. CallsOver(opt.direct) \subseteq Calls  BY DEF CallsOver
    <3> QED  BY <3>1 DEF Init
  <2> QED  BY <2>1 DEF Init, Typed
<1>2. /\ wire = << >> /\ readBuf = << >> /\ handed = << >> /\ lock = {} /\ sent = << >>
      /\ reader = "header" /\ hdr = Nothing /\ down = FALSE /\ torn = FALSE /\ mishaps = 0
      /\ writer = [w \in Writers |-> "idle"]
  BY DEF Init
<1>3. Shape
  <2>1. \A S : << >> \in Seq(S)  OBVIOUS
  <2>2. << >> \in Strings /\ << >> \in Seq(Strings) /\ << >> \in Seq(Handed)
    BY <2>1, Zenon DEF Strings
  <2>3. 0 \in 0 .. MaxMishaps /\ Len(<< >>) <= DatagramMax  BY WireAssumption
  <2>4. Len(readBuf) <= DatagramMax /\ mishaps \in 0 .. MaxMishaps  BY <1>2, <2>3
  <2> QED  BY <1>1, <1>2, <2>2, <2>4 DEF Shape
<1>4. Discipline  BY <1>2 DEF Discipline
<1> QED  BY <1>3, <1>4

(* A step of one writer w that sends nothing new.                          *)
LEMMA DisciplineKept ==
    ASSUME Discipline, opt' = opt, work' = work, sent' = sent, lock' = lock, torn' = torn,
           NEW w \in Writers, NEW s \in {"ready", "failed", "refused"},
           writer' = [writer EXCEPT ![w] = s], writer[w] \in {"idle", "ready"},
           s = "ready" => Prepared(w)
    PROVE  Discipline'
<1>1. \A x : Prepared(x)' = Prepared(x)  BY Frozen
<1>2. \A x \in Writers : writer'[x] = IF x = w THEN s ELSE writer[x]  BY DEF Discipline
<1>3. \A i \in 1 .. Len(sent) : sent[i] \in Writers /\ sent[i] # w
  BY DEF Discipline
<1>4. \A i \in 1 .. Len(sent) : HalfWritten(i)' = HalfWritten(i)
  BY <1>2, <1>3 DEF HalfWritten
<1>5. writer' \in [Writers -> {"idle", "ready", "header", "done", "failed", "refused"}]
  BY DEF Discipline
<1> QED  BY <1>1, <1>2, <1>3, <1>4, <1>5 DEF Discipline

(* A writer begins.                                                        *)
LEMMA DisciplineSends ==
    ASSUME Discipline, opt' = opt, work' = work, torn' = torn, lock = {},
           NEW w \in Writers, sent' = Append(sent, w), writer[w] \in {"idle", "ready"},
           Prepared(w),
           \/ writer' = [writer EXCEPT ![w] = "done"] /\ lock' = {}
           \/ /\ writer' = [writer EXCEPT ![w] = "header"] /\ lock' = {w}
              /\ opt.dir = "up" /\ opt.carrier = "kcp"
    PROVE  Discipline'
<1>1. \A x : Prepared(x)' = Prepared(x)  BY Frozen
<1> DEFINE s == writer'[w]
<1>2. /\ \A x \in Writers : writer'[x] = IF x = w THEN s ELSE writer[x]
      /\ s \in {"done", "header"} /\ (s = "done" => lock' = {})
      /\ (s = "header" => lock' = {w} /\ opt.dir = "up" /\ opt.carrier = "kcp")
      /\ writer' \in [Writers -> {"idle", "ready", "header", "done", "failed", "refused"}]
  BY DEF Discipline
<1> HIDE DEF s
<1>3. \A i \in 1 .. Len(sent) : sent[i] \in Writers /\ sent[i] # w
  BY DEF Discipline
<1>4. /\ sent \in Seq(Writers) /\ sent' \in Seq(Writers) /\ Len(sent') = Len(sent) + 1
      /\ \A i \in 1 .. Len(sent) : sent'[i] = sent[i]
      /\ sent'[Len(sent) + 1] = w /\ Len(sent) \in Nat
  BY DEF Discipline
<1>5. \A i \in 1 .. Len(sent) + 1 : i \in 1 .. Len(sent) \/ i = Len(sent) + 1
  BY <1>4
<1>6. \A i \in 1 .. Len(sent') : /\ writer'[sent'[i]] \in {"header", "done", "failed"}
                                 /\ Prepared(sent'[i])
  BY <1>2, <1>3, <1>4, <1>5 DEF Discipline
<1>7. \A i \in 1 .. Len(sent') : HalfWritten(i)' => torn'
  BY <1>2, <1>3, <1>4, <1>5 DEF Discipline, HalfWritten
<1>8. \A x \in Writers : writer'[x] = "ready" => Prepared(x)
  BY <1>2 DEF Discipline
<1>9. \A x \in Writers : x \in lock' <=> writer'[x] = "header"
  BY <1>2 DEF Discipline
<1>10. \A x \in lock' : /\ Len(sent') # 0 /\ sent'[Len(sent')] = x
                        /\ \A i \in 1 .. Len(sent') : sent'[i] = x => i = Len(sent')
  BY <1>2, <1>3, <1>4, <1>5
<1> QED  BY <1>1, <1>2, <1>4, <1>6, <1>7, <1>8, <1>9, <1>10 DEF Discipline

(* A writer ends: with its body, or without it.                            *)
LEMMA DisciplineEnds ==
    ASSUME Discipline, opt' = opt, work' = work, sent' = sent, lock' = {},
           NEW S \in SUBSET Writers, NEW s \in {"done", "failed"},
           lock \subseteq S, \A w \in S : writer[w] \in {"idle", "ready", "header"},
           s = "done" => S \subseteq lock,
           writer' = [w \in Writers |-> IF w \in S THEN s ELSE writer[w]],
           torn' = (torn \/ (s = "failed" /\ lock # {}))
    PROVE  Discipline'
<1>1. \A x : Prepared(x)' = Prepared(x)  BY Frozen
<1>2. \A x \in Writers : writer'[x] = IF x \in S THEN s ELSE writer[x]  OBVIOUS
<1>3. writer' \in [Writers -> {"idle", "ready", "header", "done", "failed", "refused"}]
  BY DEF Discipline
<1>4. \A i \in 1 .. Len(sent) : sent[i] \in Writers  BY DEF Discipline
<1>5. \A i \in 1 .. Len(sent) : sent[i] \in S => sent[i] \in lock
  BY <1>4 DEF Discipline
<1>6. \A i \in 1 .. Len(sent) : HalfWritten(i)' => torn'
  BY <1>2, <1>4, <1>5 DEF Discipline, HalfWritten
<1>7. \A x \in Writers : writer'[x] # "header"
  BY <1>2 DEF Discipline
<1>8. \A x \in Writers : writer'[x] = "ready" => Prepared(x)  BY <1>2 DEF Discipline
<1>9. torn' => opt.carrier = "kcp"  BY DEF Discipline
<1>10. \A i \in 1 .. Len(sent) : writer'[sent[i]] \in {"header", "done", "failed"}
  BY <1>2, <1>4 DEF Discipline
<1> QED  BY <1>1, <1>3, <1>6, <1>7, <1>8, <1>9, <1>10 DEF Discipline

LEMMA DisciplineSame ==
    ASSUME Discipline, opt' = opt, work' = work, UNCHANGED <<writer, lock, sent, torn>>
    PROVE  Discipline'
<1>1. \A x : Prepared(x)' = Prepared(x)  BY Frozen
<1>2. \A i : HalfWritten(i)' = HalfWritten(i)  BY DEF HalfWritten
<1> QED  BY <1>1, <1>2 DEF Discipline

(* Discipline is inductive, given Shape.                                   *)
LEMMA DisciplineStep ==
    ASSUME Shape, Discipline, [Next]_vars
    PROVE  Discipline'
<1>1. opt' = opt /\ work' = work  BY Fixed
<1>2. ASSUME NEW w \in Writers, Build(w) PROVE Discipline'
  <2>1. (\E b \in RequestBody(work[w]) : Accepts(b)) => Prepared(w)  BY DEF Prepared
  <2> QED  BY <1>1, <1>2, <2>1, DisciplineKept DEF Build, WriterAt
<1>3. ASSUME NEW w \in Writers, WriteFrame(w) PROVE Discipline'
  <2>1. Prepared(w)
    <3>1. CASE opt.dir = "up"  BY <1>3, <3>1 DEF WriteFrame, WriterAt, Discipline
    <3>2. CASE opt.dir # "up"  BY <3>2 DEF Prepared
    <3> QED  BY <3>1, <3>2
  <2> QED  BY <1>1, <1>3, <2>1, DisciplineSends DEF WriteFrame, WriterAt, MayWrite
<1>4. ASSUME NEW w \in Writers, WriteHeader(w) PROVE Discipline'
  <2>1. Prepared(w)  BY <1>4 DEF WriteHeader, WriterAt, Discipline
  <2>2. lock' = {w} /\ lock = {}  BY <1>4 DEF WriteHeader, MayWrite
  <2> QED  BY <1>1, <1>4, <2>1, <2>2, DisciplineSends DEF WriteHeader, WriterAt
<1>5. \A w \in lock : lock = {w}
  <2>1. \A w, x \in lock : w = x  BY DEF Discipline
  <2> QED  BY <2>1
<1>6. ASSUME NEW w \in Writers, WriteBody(w) PROVE Discipline'
  <2>1. w \in lock  BY <1>6 DEF WriteBody, WriterAt, Discipline
  <2>2. lock = {w} /\ lock' = {}  BY <1>5, <1>6, <2>1 DEF WriteBody
  <2>3. writer' = [x \in Writers |-> IF x \in {w} THEN "done" ELSE writer[x]]
    BY <1>6 DEF WriteBody, WriterAt, Discipline
  <2>4. torn \in BOOLEAN /\ torn' = torn  BY <1>6 DEF WriteBody, Shape
  <2>5. torn' = (torn \/ ("done" = "failed" /\ lock # {}))  BY <2>4
  <2>6. {w} \in SUBSET Writers /\ sent' = sent /\ \A x \in {w} : writer[x] = "header"
    BY <1>6 DEF WriteBody, WriterAt
  <2> QED  BY <1>1, <2>2, <2>3, <2>5, <2>6, DisciplineEnds
<1>7. ASSUME NEW w \in Writers, WriteTimeout(w) PROVE Discipline'
  <2>1. CASE writer[w] = "header"
    <3>1. w \in lock  BY <2>1 DEF Discipline
    <3>2. lock = {w} /\ lock' = {}  BY <1>5, <1>7, <3>1 DEF WriteTimeout
    <3>3. writer' = [x \in Writers |-> IF x \in {w} THEN "failed" ELSE writer[x]]
      BY <1>7 DEF WriteTimeout, WriterAt, Discipline
    <3>4. torn' = (torn \/ ("failed" = "failed" /\ lock # {}))
      BY <1>7, <2>1, <3>2 DEF WriteTimeout
    <3>5. {w} \in SUBSET Writers /\ sent' = sent /\ \A x \in {w} : writer[x] = "header"
      BY <1>7, <2>1 DEF WriteTimeout
    <3> QED  BY <1>1, <3>2, <3>3, <3>4, <3>5, DisciplineEnds
  <2>2. CASE writer[w] # "header"
    <3>1. writer[w] = "ready" /\ writer' = [writer EXCEPT ![w] = "failed"] /\ lock = {}
          /\ lock' = lock /\ sent' = sent
      BY <1>7, <2>2 DEF WriteTimeout, WriterAt, MayWrite
    <3>2. torn' = torn
      <4>1. torn \in BOOLEAN /\ torn' = (torn \/ writer[w] = "header")
        BY <1>7 DEF WriteTimeout, Shape
      <4> QED  BY <2>2, <4>1
    <3> QED  BY <1>1, <3>1, <3>2, DisciplineKept
  <2> QED  BY <2>1, <2>2
<1>8. CASE WritesFail
  <2> DEFINE S == {w \in Writers : writer[w] \notin Over}
  <2>1. \A w \in S : writer[w] \in {"idle", "ready", "header"}  BY DEF Over, Discipline
  <2>2. lock \subseteq S  BY DEF Over, Discipline
  <2>3. writer' = [w \in Writers |-> IF w \in S THEN "failed" ELSE writer[w]]
    BY <1>8 DEF WritesFail
  <2>4. torn' = (torn \/ ("failed" = "failed" /\ lock # {}))  BY <1>8 DEF WritesFail
  <2>5. S \in SUBSET Writers /\ lock' = {} /\ sent' = sent  BY <1>8 DEF WritesFail
  <2> HIDE DEF S
  <2> QED  BY <1>1, <2>1, <2>2, <2>3, <2>4, <2>5, DisciplineEnds
<1>9. CASE UNCHANGED <<writer, lock, sent, torn>>
  BY <1>1, <1>9, DisciplineSame
<1>10. Cut \/ Mishap \/ ReadHeader \/ ReadBody \/ ReadEOF \/ ReadMessage \/ Done
         \/ (\E i \in 1 .. Len(wire) : ReadDatagram(i)) \/ UNCHANGED vars
       => UNCHANGED <<writer, lock, sent, torn>>
  BY DEF Cut, Mishap, ReadHeader, ReadBody, ReadEOF, ReadMessage, ReadDatagram, ReadOnly, Done,
         vars, writeVars
<1> QED  BY <1>2, <1>3, <1>4, <1>6, <1>7, <1>8, <1>9, <1>10 DEF Next

-----------------------------------------------------------------------------
(* Streams.  T holds all bytes that were ever written; the frames of the   *)
(* first u writers, whole, and then the half of a frame that is being      *)
(* written or was left so.                                                 *)

Frames  == [i \in 1 .. Len(sent) |-> BytesOf(sent[i])]
Sayings == [i \in 1 .. Len(sent) |-> Said(sent[i])]

Written(T, f, u) ==
    /\ T \in Strings /\ u \in 0 .. Len(sent)
    /\ Laid(T, f, Frames, u)
    /\ \A i \in 1 .. u : ~HalfWritten(i)
    /\ u # Len(sent) => HalfWritten(u + 1) /\ f[u] <= Len(T)
    /\ u = Len(sent) /\ lock = {} => f[u] = Len(T)
    /\ u = Len(sent) /\ lock # {} => f[u] + HeaderSize = Len(T) + Len(Frames[u])

(* The first k frames were read to their end, and what they say are the    *)
(* first m frames handed over.                                             *)
Heard(T, f, u, k, m) ==
    /\ k \in 0 .. u /\ m \in 0 .. Len(handed) /\ f[k] <= Len(T)
    /\ \A i \in 1 .. k : ~Bad(sent[i])
    /\ Embeds(Got, Sayings, m, k)

(* Before a half-written frame the reader is where a frame begins or its   *)
(* body does, and nothing else was handed over.                            *)
Place(f, k) == f[k] + (IF reader = "body" THEN HeaderSize ELSE 0)

Follows(T, f, u, k, m) ==
    k < u \/ u = Len(sent) =>
       /\ m = Len(handed)
       /\ reader \in {"header", "body"} =>
             /\ On(wire, T, Place(f, k))
             /\ ~down => Place(f, k) + Len(wire) = Len(T)
             /\ reader = "body" => k < u /\ hdr = HeaderOf(Frames[k + 1])

StreamInv ==
    IsStream => \E T, f, u, k, m : /\ Written(T, f, u) /\ Heard(T, f, u, k, m)
                                   /\ Follows(T, f, u, k, m)

(* What Frames and Sayings hold.                                           *)
LEMMA FramesAre ==
    ASSUME Shape, Discipline
    PROVE  /\ Len(sent) \in Nat
           /\ \A i \in 1 .. Len(sent) :
                 /\ sent[i] \in Writers /\ Prepared(sent[i])
                 /\ Frames[i] = BytesOf(sent[i]) /\ Frames[i] \in Strings
                 /\ Len(Frames[i]) \in Nat /\ Len(Frames[i]) >= HeaderSize
                 /\ Sayings[i] = Said(sent[i])
<1>1. Len(sent) \in Nat  BY DEF Discipline
<1>2. ASSUME NEW i \in 1 .. Len(sent)
      PROVE  /\ sent[i] \in Writers /\ Prepared(sent[i])
             /\ Frames[i] = BytesOf(sent[i]) /\ Frames[i] \in Strings
             /\ Len(Frames[i]) \in Nat /\ Len(Frames[i]) >= HeaderSize
             /\ Sayings[i] = Said(sent[i])
  <2>1. sent[i] \in Writers /\ Prepared(sent[i])  BY DEF Discipline
  <2>2. Frames[i] = BytesOf(sent[i]) /\ Sayings[i] = Said(sent[i])  BY DEF Frames, Sayings
  <2>3. BytesOf(sent[i]) \in Strings /\ Len(BytesOf(sent[i])) >= HeaderSize
    BY <2>1, FrameOf DEF Shape
  <2> QED  BY <2>1, <2>2, <2>3, StringLen
<1> QED  BY <1>1, <1>2

(* A step that sends at most one more frame leaves the others.             *)
LEMMA FramesStay ==
    ASSUME Shape, Discipline, opt' = opt, work' = work,
           Len(sent') \in Nat, Len(sent) <= Len(sent'),
           \A i \in 1 .. Len(sent) : sent'[i] = sent[i]
    PROVE  /\ \A i \in 1 .. Len(sent) :
                 Frames'[i] = Frames[i] /\ Sayings'[i] = Sayings[i] /\ Bad(sent[i])' = Bad(sent[i])
           /\ sent' = sent => Frames' = Frames /\ Sayings' = Sayings
           /\ Frames' = [i \in 1 .. Len(sent') |-> BytesOf(sent'[i])]
           /\ Sayings' = [i \in 1 .. Len(sent') |-> Said(sent'[i])]
<1>1. \A w : BytesOf(w)' = BytesOf(w) /\ Said(w)' = Said(w) /\ Bad(w)' = Bad(w)  BY Frozen
<1>2. Len(sent) \in Nat  BY DEF Discipline
<1>3. \A i \in 1 .. Len(sent) : i \in 1 .. Len(sent')  BY <1>2
<1>4. Frames' = [i \in 1 .. Len(sent') |-> BytesOf(sent'[i])]  BY <1>1 DEF Frames
<1>5. Sayings' = [i \in 1 .. Len(sent') |-> Said(sent'[i])]  BY <1>1 DEF Sayings
<1>6. \A i \in 1 .. Len(sent) : Frames'[i] = Frames[i] /\ Sayings'[i] = Sayings[i]
  BY <1>3, <1>4, <1>5 DEF Frames, Sayings
<1>7. sent' = sent => Frames' = Frames /\ Sayings' = Sayings
  BY <1>4, <1>5 DEF Frames, Sayings
<1> QED  BY <1>1, <1>4, <1>5, <1>6, <1>7

(* Nothing is written, and nobody who has begun ends.                      *)
LEMMA WrittenSame ==
    ASSUME Shape, Discipline, opt' = opt, work' = work, sent' = sent, lock' = lock,
           \A i \in 1 .. Len(sent) : HalfWritten(i)' = HalfWritten(i),
           NEW T, NEW f, NEW u, Written(T, f, u)
    PROVE  Written(T, f, u)'
<1>1. Frames' = Frames /\ Len(sent) \in Nat  BY FramesStay, FramesAre
<1>2. u \in 0 .. Len(sent)  BY DEF Written
<1>3. \A i \in 1 .. u : i \in 1 .. Len(sent)  BY <1>1, <1>2
<1>4. u # Len(sent) => u + 1 \in 1 .. Len(sent)  BY <1>1, <1>2
<1> QED  BY <1>1, <1>3, <1>4 DEF Written

(* A frame or its header is written.                                       *)
LEMMA WrittenSends ==
    ASSUME Shape, Discipline, opt' = opt, work' = work, lock = {}, NEW w \in Writers,
           Prepared(w), sent' = Append(sent, w),
           \A i \in 1 .. Len(sent) : HalfWritten(i)' = HalfWritten(i),
           writer'[w] # "failed",
           NEW x \in Strings, Starts(x, BytesOf(w)),
           lock' = {} => Len(x) = Len(BytesOf(w)), lock' # {} => Len(x) = HeaderSize,
           NEW T, NEW f, NEW u, Written(T, f, u)
    PROVE  \E e, v : /\ Written(T \o x, e, v)' /\ u <= v
                     /\ \A i \in 0 .. u : e[i] = f[i]
                     /\ u # Len(sent) => v = u /\ v # Len(sent')
<1>0. PICK n, b : n = Len(sent) /\ b = BytesOf(w)  OBVIOUS
<1>1. /\ sent \in Seq(Writers) /\ n \in Nat /\ Len(sent') = n + 1
      /\ \A i \in 1 .. n : sent'[i] = sent[i]
      /\ sent'[n + 1] = w
  BY <1>0 DEF Discipline
<1>2. n <= Len(sent') /\ Len(sent') \in Nat  BY <1>1
<1>3. \A i \in 1 .. n : Frames'[i] = Frames[i] /\ Frames[i] \in Strings
  BY <1>0, <1>1, <1>2, FramesStay, FramesAre
<1>4. Frames'[n + 1] = b
  <2>1. n + 1 \in 1 .. Len(sent')  BY <1>1
  <2>2. Frames' = [i \in 1 .. Len(sent') |-> BytesOf(sent'[i])]  BY <1>0, <1>1, <1>2, FramesStay
  <2>3. BytesOf(w) = b  BY <1>0
  <2> QED  BY <1>1, <2>1, <2>2, <2>3
<1>5. b \in Strings /\ Len(b) \in Nat  BY <1>0, FrameOf, StringLen DEF Shape
<1>6. /\ T \in Strings /\ u \in 0 .. n /\ Laid(T, f, Frames, u)
      /\ \A i \in 1 .. u : ~HalfWritten(i)
      /\ u # n => HalfWritten(u + 1) /\ f[u] <= Len(T)
      /\ u = n => f[u] = Len(T)
  BY <1>0 DEF Written
<1>7. T \o x \in Strings /\ Len(T \o x) = Len(T) + Len(x) /\ Len(T) \in Nat /\ Len(x) \in Nat
  BY <1>6, CatIs, StringLen
<1>8. u \in Nat /\ \A i \in 1 .. u : i \in 1 .. n  BY <1>1, <1>6
<1>9. CASE u = n
  <2>1. PICK e : /\ Laid(T \o x, e, Frames', n + 1) /\ e[n + 1] = Len(T) + Len(b)
                 /\ \A i \in 0 .. n : e[i] = f[i]
    <3>1. /\ Laid(T, f, Frames, n) /\ f[n] = Len(T) /\ n \in Nat /\ T \in Strings
          /\ b \in Strings /\ Starts(x, b)
      BY <1>0, <1>1, <1>5, <1>6, <1>9
    <3>2. Same(Frames, Frames', n)  BY <1>3 DEF Same
    <3>3. LaidTo(T \o x, f, Frames', n, Len(T) + Len(b))
      BY <1>4, <3>1, <3>2, LaidNext, Zenon
    <3> QED  BY <3>3, Zenon DEF LaidTo
  <2>2. ~HalfWritten(n + 1)'  BY <1>1 DEF HalfWritten
  <2>3. \A i \in 1 .. n + 1 : ~HalfWritten(i)'
    <3>1. \A i \in 1 .. n + 1 : i \in 1 .. n \/ i = n + 1  BY <1>1
    <3> QED  BY <1>0, <1>6, <1>9, <2>2, <3>1
  <2>4. lock' = {} => e[n + 1] = Len(T \o x)  BY <1>0, <1>7, <2>1
  <2>5. lock' # {} => e[n + 1] + HeaderSize = Len(T \o x) + Len(Frames'[n + 1])
    <3>1. \A p, q, r \in Nat : p + q + r = p + r + q  OBVIOUS
    <3>2. HeaderSize \in Nat  BY DEF HeaderSize
    <3> QED  BY <1>4, <1>5, <1>7, <2>1, <3>1, <3>2
  <2>6. n + 1 \in 0 .. Len(sent') /\ u <= n + 1  BY <1>1, <1>8, <1>9
  <2>7. Written(T \o x, e, n + 1)'  BY <1>1, <1>7, <2>1, <2>3, <2>4, <2>5, <2>6 DEF Written
  <2> QED  BY <1>0, <1>1, <1>9, <2>1, <2>6, <2>7
<1>10. CASE u # n
  <2>1. Laid(T \o x, f, Frames', u)  BY <1>3, <1>6, <1>8, <1>10, LaidMore
  <2>2. f[u] <= Len(T \o x)
    <3>1. f[u] \in Nat
      <4>1. u \in 0 .. u  BY <1>8
      <4> QED  BY <1>6, <4>1 DEF Laid
    <3> QED  BY <1>6, <1>7, <1>10, <3>1
  <2>3. u \in 0 .. Len(sent') /\ u # Len(sent') /\ u + 1 \in 1 .. n  BY <1>1, <1>6, <1>10
  <2>4. HalfWritten(u + 1)' /\ \A i \in 1 .. u : ~HalfWritten(i)'
    BY <1>0, <1>6, <1>8, <1>10, <2>3
  <2>5. Written(T \o x, f, u)'  BY <1>7, <2>1, <2>2, <2>3, <2>4 DEF Written
  <2> QED  BY <1>0, <1>8, <1>10, <2>5
<1> QED  BY <1>9, <1>10

(* The body follows its header.                                            *)
LEMMA WrittenEnds ==
    ASSUME Shape, Discipline, opt' = opt, work' = work, NEW w \in Writers, lock = {w},
           lock' = {}, sent' = sent,
           \A i \in 1 .. Len(sent) : HalfWritten(i)' = HalfWritten(i),
           NEW T, NEW f, NEW u, Written(T, f, u), NEW x, x = Rest(BytesOf(w), HeaderSize)
    PROVE  Written(T \o x, f, u)'
<1>0. PICK n : n = Len(sent)  OBVIOUS
<1>1. /\ n \in Nat /\ n # 0 /\ sent[n] = w /\ n \in 1 .. n
  BY <1>0 DEF Discipline
<1>2. /\ \A i \in 1 .. n : Frames[i] \in Strings
      /\ Frames[n] = BytesOf(w) /\ Len(Frames[n]) \in Nat /\ Len(Frames[n]) >= HeaderSize
      /\ Frames' = Frames /\ Prepared(w)
  BY <1>0, <1>1, FramesAre, FramesStay
<1>3. /\ T \in Strings /\ u \in 0 .. n /\ Laid(T, f, Frames, u)
      /\ \A i \in 1 .. u : ~HalfWritten(i)
      /\ u # n => HalfWritten(u + 1) /\ f[u] <= Len(T)
      /\ u = n => f[u] + HeaderSize = Len(T) + Len(Frames[u])
  BY <1>0 DEF Written
<1>4. u \in Nat /\ \A i \in 1 .. u : i \in 1 .. n  BY <1>0, <1>1, <1>3
<1>5. x \in Strings  BY <1>0, <1>2, PartsAre
<1>6. T \o x \in Strings /\ Len(T \o x) = Len(T) + Len(x) /\ Len(T) \in Nat /\ Len(x) \in Nat
  BY <1>0, <1>3, <1>5, CatIs, StringLen
<1>7. \A i \in 1 .. u : ~HalfWritten(i)'  BY <1>0, <1>3, <1>4
<1>8. CASE u = n
  <2>1. f[n] = f[n - 1] + Len(Frames[n]) /\ f[n - 1] \in Nat
    <3>1. n \in 1 .. u /\ n - 1 \in 0 .. u  BY <1>0, <1>1, <1>8
    <3> QED  BY <1>0, <1>3, <3>1 DEF Laid
  <2>2. f[n - 1] + HeaderSize = Len(T)
    <3>1. f[n] + HeaderSize = Len(T) + Len(Frames[n])  BY <1>0, <1>3, <1>8
    <3>2. \A p, q, r, h \in Nat : p + q + h = r + q => p + h = r  OBVIOUS
    <3>3. HeaderSize \in Nat  BY <1>0 DEF HeaderSize
    <3> QED  BY <1>0, <1>2, <1>6, <2>1, <3>1, <3>2, <3>3
  <2>3. HeaderSize \in 0 .. Len(Frames[n])  BY <1>0, <1>2 DEF HeaderSize
  <2>4. Laid(T \o x, f, Frames, n) /\ f[n] = Len(T \o x)
    <3>1. n \in Nat \ {0} /\ x = Rest(Frames[n], HeaderSize)  BY <1>0, <1>1, <1>2
    <3>2. T \in Strings /\ Laid(T, f, Frames, n) /\ Same(Frames, Frames, n)
      BY <1>2, <1>3, <1>8 DEF Same
    <3>3. Begun(T, f, Frames, n, HeaderSize)  BY <1>1, <2>2, <2>3 DEF Begun
    <3>4. n \in Nat  BY <1>1
    <3> DEFINE y == Rest(Frames[n], HeaderSize)
    <3>5. Laid(T \o y, f, Frames, n) /\ f[n] = Len(T \o y)
      BY <3>2, <3>3, <3>4, LaidBody
    <3> QED  BY <3>1, <3>5
  <2> QED  BY <1>0, <1>2, <1>3, <1>6, <1>7, <1>8, <2>4 DEF Written
<1>9. CASE u # n
  <2>1. Laid(T \o x, f, Frames, u)  BY <1>0, <1>2, <1>3, <1>4, <1>5, <1>9, LaidMore
  <2>2. f[u] <= Len(T \o x)
    <3>1. f[u] \in Nat
      <4>1. u \in 0 .. u  BY <1>0, <1>4
      <4> QED  BY <1>0, <1>3, <4>1 DEF Laid
    <3> QED  BY <1>0, <1>3, <1>6, <1>9, <3>1
  <2>3. HalfWritten(u + 1)'
    <3>1. u + 1 \in 1 .. n  BY <1>0, <1>1, <1>3, <1>9
    <3> QED  BY <1>0, <1>3, <1>9, <3>1
  <2> QED  BY <1>0, <1>2, <1>3, <1>6, <1>7, <1>9, <2>1, <2>2, <2>3 DEF Written
<1> QED  BY <1>0, <1>8, <1>9

(* The body never follows: the frame no longer counts.                     *)
LEMMA WrittenFails ==
    ASSUME Shape, Discipline, opt' = opt, work' = work, NEW w \in Writers, lock = {w},
           lock' = {}, sent' = sent, writer'[w] = "failed",
           \A i \in 1 .. Len(sent) : sent[i] # w => HalfWritten(i)' = HalfWritten(i),
           NEW T, NEW f, NEW u, Written(T, f, u)
    PROVE  \E e, v : /\ Written(T, e, v)' /\ v # Len(sent) /\ v \in 0 .. u
                     /\ \A i \in 0 .. v : e[i] = f[i]
                     /\ \A k \in 0 .. u : f[k] <= Len(T) => k <= v
                     /\ v # u => u = Len(sent)
<1>0. PICK n : n = Len(sent)  OBVIOUS
<1>1. /\ n \in Nat /\ n # 0 /\ sent[n] = w /\ n \in 1 .. n
      /\ \A i \in 1 .. n : i # n => sent[i] # w
      /\ opt.dir = "up"
  BY <1>0 DEF Discipline
<1>2. /\ Frames[n] = BytesOf(w) /\ Len(Frames[n]) \in Nat /\ Len(Frames[n]) > HeaderSize
      /\ Frames' = Frames
  <2>1. Prepared(w)  BY <1>0, <1>1, FramesAre
  <2>2. Len(BytesOf(w)) > HeaderSize  BY <1>0, <1>1, <2>1, FrameOf DEF Shape
  <2> QED  BY <1>0, <1>1, <2>2, FramesAre, FramesStay
<1>3. /\ T \in Strings /\ u \in 0 .. n /\ Laid(T, f, Frames, u)
      /\ \A i \in 1 .. u : ~HalfWritten(i)
      /\ u # n => HalfWritten(u + 1) /\ f[u] <= Len(T)
      /\ u = n => f[u] + HeaderSize = Len(T) + Len(Frames[u])
  BY <1>0 DEF Written
<1>4. Len(T) \in Nat  BY <1>0, <1>3, StringLen
<1>5. HalfWritten(n)'  BY <1>0, <1>1 DEF HalfWritten
<1>6. \A i \in 1 .. n : i # n => HalfWritten(i)' = HalfWritten(i)  BY <1>0, <1>1
<1>7. CASE u = n
  <2>1. f[n] = f[n - 1] + Len(Frames[n]) /\ f[n - 1] \in Nat /\ f[n] \in Nat
    <3>1. n \in 1 .. u /\ n - 1 \in 0 .. u /\ n \in 0 .. u  BY <1>0, <1>1, <1>7
    <3> QED  BY <1>0, <1>3, <3>1 DEF Laid
  <2>2. f[n - 1] + HeaderSize = Len(T)
    <3>1. f[n] + HeaderSize = Len(T) + Len(Frames[n])  BY <1>0, <1>3, <1>7
    <3>2. \A p, q, r, h \in Nat : p + q + h = r + q => p + h = r  OBVIOUS
    <3>3. HeaderSize \in Nat  BY <1>0 DEF HeaderSize
    <3> QED  BY <1>0, <1>2, <1>4, <2>1, <3>1, <3>2, <3>3
  <2>3. f[n - 1] <= Len(T) /\ ~(f[n] <= Len(T))
    BY <1>0, <1>2, <1>4, <2>1, <2>2 DEF HeaderSize
  <2>4. n - 1 \in 0 .. u /\ u \in Nat /\ n - 1 \in 0 .. n /\ n - 1 # n /\ (n - 1) + 1 = n
    BY <1>0, <1>1, <1>7
  <2>5. PICK e : Laid(T, e, Frames, n - 1) /\ \A i \in 0 .. n - 1 : e[i] = f[i]
    BY <1>0, <1>3, <2>4, LaidLess
  <2>6. e[n - 1] = f[n - 1]
    <3>1. n - 1 \in 0 .. n - 1  BY <1>0, <1>1
    <3> QED  BY <1>0, <2>5, <3>1
  <2>7. \A i \in 1 .. n - 1 : ~HalfWritten(i)'
    <3>1. \A i \in 1 .. n - 1 : i \in 1 .. n /\ i # n  BY <1>0, <1>1
    <3> QED  BY <1>0, <1>3, <1>6, <1>7, <3>1
  <2>8. HalfWritten(n - 1 + 1)'  BY <1>0, <1>5, <2>4
  <2>9. Written(T, e, n - 1)'
    BY <1>0, <1>2, <1>3, <2>3, <2>4, <2>5, <2>6, <2>7, <2>8 DEF Written
  <2>10. \A k \in 0 .. u : f[k] <= Len(T) => k <= n - 1
    <3>1. \A k \in 0 .. u : k # n => k <= n - 1  BY <1>0, <1>1, <1>7
    <3> QED  BY <1>0, <2>3, <3>1
  <2> QED  BY <1>0, <1>7, <2>4, <2>5, <2>9, <2>10
<1>8. CASE u # n
  <2>1. u \in Nat /\ u + 1 \in 1 .. n /\ u \in 0 .. u
        /\ \A i \in 1 .. u : i \in 1 .. n /\ i # n
    BY <1>0, <1>1, <1>3, <1>8
  <2>2. HalfWritten(u + 1)'
    <3>1. CASE u + 1 = n  BY <1>0, <1>5, <3>1
    <3>2. CASE u + 1 # n  BY <1>0, <1>3, <1>6, <1>8, <2>1, <3>2
    <3> QED  BY <1>0, <3>1, <3>2
  <2>3. \A i \in 1 .. u : ~HalfWritten(i)'  BY <1>0, <1>3, <1>6, <2>1
  <2>4. Written(T, f, u)'  BY <1>0, <1>2, <1>3, <1>8, <2>2, <2>3 DEF Written
  <2>5. \A k \in 0 .. u : k <= u  OBVIOUS
  <2> QED  BY <1>0, <1>8, <2>1, <2>4, <2>5
<1> QED  BY <1>0, <1>7, <1>8

(* No frame handed over points into the read buffer.                       *)
LEMMA OwnedAll ==
    ASSUME NEW s \in Seq(Handed), NEW i \in 1 .. Len(s)
    PROVE  s[i].own = TRUE /\ s[i].hdr \in Heads /\ s[i].body \in Strings
<1>1. s[i] \in Handed
  <2> HIDE DEF Handed
  <2> QED  OBVIOUS
<1> QED  BY <1>1 DEF Handed

(* What was handed over is the caller's own, so it says what it said.      *)
LEMMA GotIs ==
    ASSUME Shape
    PROVE  \A i \in 1 .. Len(handed) : Got[i] = Meaning(handed[i].hdr, handed[i].body)
<1>1. \A i \in 1 .. Len(handed) : handed[i].own = TRUE  BY OwnedAll DEF Shape
<1> QED  BY <1>1 DEF Got, BytesNow

(* What was handed over says the same after a step.                        *)
LEMMA GotNext ==
    ASSUME Shape', opt' = opt, work' = work
    PROVE  \A i \in 1 .. Len(handed') : Got'[i] = Meaning(handed'[i].hdr, handed'[i].body)
<1>1. \A i \in 1 .. Len(handed') : handed'[i].own = TRUE  BY OwnedAll DEF Shape
<1>2. \A i \in 1 .. Len(handed') : BytesNow(handed[i])' = handed'[i].body  BY <1>1 DEF BytesNow
<1>3. \A i \in 1 .. Len(handed') : Got'[i] = Meaning(handed[i].hdr, BytesNow(handed[i]))'
  BY DEF Got
<1> QED  BY <1>2, <1>3 DEF Meaning

(* A step of a writer leaves the reader where it was.                      *)
LEMMA Carried ==
    ASSUME Shape, Shape', Discipline, opt' = opt, work' = work, UNCHANGED readVars,
           down' = down, Len(sent') \in Nat, Len(sent) <= Len(sent'),
           \A i \in 1 .. Len(sent) : sent'[i] = sent[i],
           NEW T, NEW f, NEW u, NEW k, NEW m,
           Written(T, f, u), Heard(T, f, u, k, m), Follows(T, f, u, k, m),
           NEW T2 \in Strings, NEW f2, NEW u2 \in Nat, Len(T) <= Len(T2),
           k <= u2, f2[k] = f[k],
           k < u2 \/ u2 = Len(sent') => (k < u \/ u = Len(sent)) /\ (k < u => k < u2),
           \A c : On(wire, T, c) /\ (~down => c + Len(wire) = Len(T)) =>
                     On(wire', T2, c) /\ (~down => c + Len(wire') = Len(T2))
    PROVE  Heard(T2, f2, u2, k, m)' /\ Follows(T2, f2, u2, k, m)'
<1>1. /\ u \in 0 .. Len(sent) /\ T \in Strings /\ Len(sent) \in Nat
      /\ f[k] \in Nat /\ f[k] <= Len(T) /\ k \in 0 .. u /\ m \in 0 .. Len(handed)
      /\ \A i \in 1 .. k : ~Bad(sent[i])
      /\ Embeds(Got, Sayings, m, k)
  BY DEF Written, Heard, Discipline, Laid
<1>2. Len(T) \in Nat /\ Len(T2) \in Nat /\ Len(handed) \in Nat
  BY <1>1, StringLen DEF Shape
<1>3. /\ \A i \in 1 .. Len(sent) : Frames'[i] = Frames[i] /\ Sayings'[i] = Sayings[i]
      /\ \A w : Bad(w)' = Bad(w)
  BY FramesStay, Frozen
<1>4. k \in Nat /\ m \in Nat /\ \A i \in 1 .. k : i \in 1 .. Len(sent)  BY <1>1, <1>2
<1>5. \A i \in 1 .. m : Got'[i] = Got[i]
  <2>1. \A i \in 1 .. m : i \in 1 .. Len(handed)  BY <1>1, <1>2
  <2>2. handed' = handed  BY DEF readVars
  <2> QED  BY <2>1, <2>2, GotIs, GotNext
<1>6. Embeds(Got', Sayings', m, k)  BY <1>1, <1>3, <1>4, <1>5, EmbedsStill
<1>7. \A i \in 1 .. k : ~Bad(sent[i])'  BY <1>1, <1>3, <1>4
<1>8. Heard(T2, f2, u2, k, m)'
  <2>1. k \in 0 .. u2 /\ f2[k] <= Len(T2)  BY <1>1, <1>2, <1>4
  <2> QED  BY <1>1, <1>6, <1>7, <2>1 DEF Heard, readVars
<1>9. Follows(T2, f2, u2, k, m)'
  <2> SUFFICES ASSUME k < u2 \/ u2 = Len(sent')
               PROVE  /\ m = Len(handed')
                      /\ reader' \in {"header", "body"} =>
                           /\ On(wire', T2, Place(f2, k)')
                           /\ ~down' => Place(f2, k)' + Len(wire') = Len(T2)
                           /\ reader' = "body" => k < u2 /\ hdr' = HeaderOf(Frames'[k + 1])
    BY DEF Follows
  <2>1. (k < u \/ u = Len(sent)) /\ (k < u => k < u2)  OBVIOUS
  <2>2. /\ m = Len(handed)
        /\ reader \in {"header", "body"} =>
              /\ On(wire, T, Place(f, k))
              /\ ~down => Place(f, k) + Len(wire) = Len(T)
              /\ reader = "body" => k < u /\ hdr = HeaderOf(Frames[k + 1])
    BY <2>1 DEF Follows
  <2>3. Place(f2, k)' = Place(f, k)  BY DEF Place, readVars
  <2>4. k < u => k + 1 \in 1 .. Len(sent)  BY <1>1, <1>4
  <2>5. reader' = reader /\ hdr' = hdr /\ handed' = handed  BY DEF readVars
  <2>6. reader \in {"header", "body"} =>
           On(wire', T2, Place(f, k)) /\ (~down => Place(f, k) + Len(wire') = Len(T2))
    BY <2>2
  <2>7. reader = "body" => k < u2 /\ hdr = HeaderOf(Frames'[k + 1])
    BY <1>3, <2>1, <2>2, <2>4
  <2> QED  BY <2>2, <2>3, <2>5, <2>6, <2>7
<1> QED  BY <1>8, <1>9

-----------------------------------------------------------------------------
(* The steps of writers on a stream.                                       *)

(* A step that touches neither the bytes nor the reader.                   *)
LEMMA StreamKept ==
    ASSUME Shape, Shape', Discipline, IsStream, StreamInv, opt' = opt, work' = work,
           UNCHANGED readVars, down' = down, wire' = wire, sent' = sent, lock' = lock,
           \A i \in 1 .. Len(sent) : HalfWritten(i)' = HalfWritten(i)
    PROVE  StreamInv'
<1>1. PICK T, f, u, k, m : Written(T, f, u) /\ Heard(T, f, u, k, m) /\ Follows(T, f, u, k, m)
  BY DEF StreamInv
<1>2. Written(T, f, u)'  BY <1>1, WrittenSame
<1>3. T \in Strings /\ u \in Nat /\ k \in 0 .. u /\ Len(T) \in Nat /\ Len(sent) \in Nat
  BY <1>1, StringLen DEF Written, Heard, Discipline
<1>4. \A i \in 1 .. Len(sent) : sent'[i] = sent[i]  OBVIOUS
<1>5. Len(T) <= Len(T) /\ k <= u /\ Len(sent) <= Len(sent')  BY <1>3
<1>6. Heard(T, f, u, k, m)' /\ Follows(T, f, u, k, m)'
  BY <1>1, <1>3, <1>4, <1>5, Carried
<1> QED  BY <1>2, <1>6 DEF StreamInv

LEMMA Appended ==
    ASSUME wire \in Strings, ~down, NEW x \in Strings, NEW T \in Strings, wire' = wire \o x
    PROVE  \A c : On(wire, T, c) /\ (~down => c + Len(wire) = Len(T)) =>
                     On(wire', T \o x, c) /\ (~down => c + Len(wire') = Len(T \o x))
<1>1. \A c : On(wire, T, c) /\ Reaches(wire, T, c) =>
                 On(wire \o x, T \o x, c) /\ Reaches(wire \o x, T \o x, c)
  BY OnMore, Zenon
<1> QED  BY <1>1, Zenon DEF Reaches

(* A frame, or the header of one, is written behind all bytes there are.   *)
LEMMA StreamSends ==
    ASSUME Shape, Shape', Discipline, IsStream, StreamInv, opt' = opt, work' = work,
           UNCHANGED readVars, down' = down, ~down, lock = {}, NEW w \in Writers, Prepared(w),
           sent' = Append(sent, w),
           \A i \in 1 .. Len(sent) : HalfWritten(i)' = HalfWritten(i),
           writer'[w] # "failed",
           NEW x \in Strings, Starts(x, BytesOf(w)), wire' = wire \o x,
           lock' = {} => Len(x) = Len(BytesOf(w)), lock' # {} => Len(x) = HeaderSize
    PROVE  StreamInv'
<1>1. PICK T, f, u, k, m : Written(T, f, u) /\ Heard(T, f, u, k, m) /\ Follows(T, f, u, k, m)
  BY DEF StreamInv
<1>2. PICK e, v : /\ Written(T \o x, e, v)' /\ u <= v
                  /\ \A i \in 0 .. u : e[i] = f[i]
                  /\ u # Len(sent) => v = u /\ v # Len(sent')
  BY <1>1, WrittenSends
<1>3. PICK Z : Z = T \o x  OBVIOUS
<1>4. /\ T \in Strings /\ u \in Nat /\ k \in 0 .. u /\ Len(T) \in Nat /\ Len(sent) \in Nat
      /\ v \in Nat /\ wire \in Strings /\ sent \in Seq(Writers) /\ Len(sent') \in Nat
  <2>1. v \in 0 .. Len(sent') /\ Len(sent') = Len(sent) + 1 /\ Len(sent) \in Nat
    BY <1>2 DEF Written, Discipline
  <2>2. sent \in Seq(Writers) /\ wire \in Strings  BY DEF Discipline, Shape
  <2> QED  BY <1>1, <2>1, <2>2, StringLen DEF Written, Heard
<1>5. /\ \A i \in 1 .. Len(sent) : sent'[i] = sent[i]
      /\ Len(sent) <= Len(sent')
  BY <1>4
<1>6. Z \in Strings /\ Len(T) <= Len(Z)
  <2>1. T \o x \in Strings /\ Len(T \o x) = Len(T) + Len(x) /\ Len(x) \in Nat
    BY <1>4, CatIs, StringLen
  <2> QED  BY <1>3, <1>4, <2>1
<1>7. \A c : On(wire, T, c) /\ (~down => c + Len(wire) = Len(T)) =>
                 On(wire', Z, c) /\ (~down => c + Len(wire') = Len(Z))
  BY <1>3, <1>4, Appended
<1>8. k <= v /\ e[k] = f[k] /\ (k < u => k < v)  BY <1>2, <1>4
<1>9. k < v \/ v = Len(sent') => (k < u \/ u = Len(sent)) /\ (k < u => k < v)
  BY <1>2, <1>8
<1>10. Heard(Z, e, v, k, m)' /\ Follows(Z, e, v, k, m)'
  BY <1>1, <1>4, <1>5, <1>6, <1>7, <1>8, <1>9, Carried
<1>11. Written(Z, e, v)'  BY <1>2, <1>3
<1> QED  BY <1>10, <1>11 DEF StreamInv

(* The body of the last frame follows its header.                          *)
LEMMA StreamEnds ==
    ASSUME Shape, Shape', Discipline, IsStream, StreamInv, opt' = opt, work' = work,
           UNCHANGED readVars, down' = down, ~down, NEW w \in Writers, lock = {w}, lock' = {},
           sent' = sent, Prepared(w), wire' = wire \o Rest(BytesOf(w), HeaderSize),
           \A i \in 1 .. Len(sent) : HalfWritten(i)' = HalfWritten(i)
    PROVE  StreamInv'
<1>1. PICK T, f, u, k, m : Written(T, f, u) /\ Heard(T, f, u, k, m) /\ Follows(T, f, u, k, m)
  BY DEF StreamInv
<1>2. PICK x : x = Rest(BytesOf(w), HeaderSize)  OBVIOUS
<1>3. x \in Strings  BY <1>2, PartsAre
<1>4. Written(T \o x, f, u)'  BY <1>1, <1>2, WrittenEnds
<1>5. PICK Z : Z = T \o x  OBVIOUS
<1>6. /\ T \in Strings /\ u \in Nat /\ k \in 0 .. u /\ Len(T) \in Nat /\ Len(sent) \in Nat
      /\ wire \in Strings
  BY <1>1, StringLen DEF Written, Heard, Discipline, Shape
<1>7. \A i \in 1 .. Len(sent) : sent'[i] = sent[i]  OBVIOUS
<1>8. Z \in Strings /\ Len(T) <= Len(Z)
  <2>1. T \o x \in Strings /\ Len(T \o x) = Len(T) + Len(x) /\ Len(x) \in Nat
    BY <1>3, <1>6, CatIs, StringLen
  <2> QED  BY <1>5, <1>6, <2>1
<1>9. \A c : On(wire, T, c) /\ (~down => c + Len(wire) = Len(T)) =>
                 On(wire', Z, c) /\ (~down => c + Len(wire') = Len(Z))
  BY <1>2, <1>3, <1>5, <1>6, Appended
<1>10. k <= u /\ Len(sent) <= Len(sent')  BY <1>6
<1>11. Heard(Z, f, u, k, m)' /\ Follows(Z, f, u, k, m)'
  BY <1>1, <1>6, <1>7, <1>8, <1>9, <1>10, Carried
<1>12. Written(Z, f, u)'  BY <1>4, <1>5
<1> QED  BY <1>11, <1>12 DEF StreamInv

(* The body of the last frame will not come.                               *)
LEMMA StreamFails ==
    ASSUME Shape, Shape', Discipline, IsStream, StreamInv, opt' = opt, work' = work,
           UNCHANGED readVars, down' = down, NEW w \in Writers, lock = {w}, lock' = {},
           sent' = sent, wire' = wire, writer'[w] = "failed",
           \A i \in 1 .. Len(sent) : sent[i] # w => HalfWritten(i)' = HalfWritten(i)
    PROVE  StreamInv'
<1>1. PICK T, f, u, k, m : Written(T, f, u) /\ Heard(T, f, u, k, m) /\ Follows(T, f, u, k, m)
  BY DEF StreamInv
<1>2. PICK e, v : /\ Written(T, e, v)' /\ v # Len(sent) /\ v \in 0 .. u
                  /\ \A i \in 0 .. v : e[i] = f[i]
                  /\ \A i \in 0 .. u : f[i] <= Len(T) => i <= v
  BY <1>1, WrittenFails
<1>3. /\ T \in Strings /\ u \in Nat /\ k \in 0 .. u /\ f[k] <= Len(T) /\ Len(T) \in Nat
      /\ Len(sent) \in Nat
  BY <1>1, StringLen DEF Written, Heard, Discipline
<1>4. \A i \in 1 .. Len(sent) : sent'[i] = sent[i]  OBVIOUS
<1>5. Len(T) <= Len(T) /\ Len(sent) <= Len(sent')  BY <1>3
<1>6. k <= v  BY <1>2, <1>3
<1>7. v \in Nat /\ k \in 0 .. v  BY <1>2, <1>3, <1>6
<1>8. e[k] = f[k]  BY <1>2, <1>7
<1>9. k < v \/ v = Len(sent') => (k < u \/ u = Len(sent)) /\ (k < u => k < v)
  BY <1>2, <1>3
<1>10. Heard(T, e, v, k, m)' /\ Follows(T, e, v, k, m)'
  BY <1>1, <1>3, <1>4, <1>5, <1>6, <1>7, <1>8, <1>9, Carried
<1> QED  BY <1>2, <1>10 DEF StreamInv

-----------------------------------------------------------------------------
(* The steps of the reader and of the network on a stream.                 *)

(* What was read stays read, whatever else is written.                     *)
LEMMA HeardStays ==
    ASSUME Shape, Shape', Discipline, opt' = opt, work' = work, sent' = sent,
           Len(handed) <= Len(handed'), \A i \in 1 .. Len(handed) : handed'[i] = handed[i],
           NEW T, NEW f, NEW u, NEW k, NEW m, Written(T, f, u), Heard(T, f, u, k, m)
    PROVE  /\ Heard(T, f, u, k, m)'
           /\ Len(handed) \in Nat /\ Len(handed') \in Nat
           /\ \A i \in 1 .. Len(handed) : Got'[i] = Got[i]
           /\ Sayings' = Sayings /\ Frames' = Frames
<1>1. /\ u \in 0 .. Len(sent) /\ Len(sent) \in Nat /\ k \in 0 .. u /\ m \in 0 .. Len(handed)
      /\ f[k] <= Len(T)
      /\ \A i \in 1 .. k : ~Bad(sent[i])
      /\ Embeds(Got, Sayings, m, k)
  BY DEF Written, Heard, Discipline
<1>2. Sayings' = Sayings /\ Frames' = Frames /\ \A w : Bad(w)' = Bad(w)
  <2>1. Len(sent') \in Nat /\ Len(sent) <= Len(sent')  BY <1>1
  <2>2. \A i \in 1 .. Len(sent) : sent'[i] = sent[i]  OBVIOUS
  <2> QED  BY <2>1, <2>2, FramesStay, Frozen
<1>3. Len(handed) \in Nat /\ Len(handed') \in Nat  BY DEF Shape
<1>4. \A i \in 1 .. Len(handed) : Got'[i] = Got[i]
  <2>1. \A i \in 1 .. Len(handed) : i \in 1 .. Len(handed')  BY <1>3
  <2> QED  BY <2>1, GotIs, GotNext
<1>5. k \in Nat /\ m \in Nat /\ \A i \in 1 .. m : i \in 1 .. Len(handed)  BY <1>1, <1>3
<1>6. Embeds(Got', Sayings', m, k)  BY <1>1, <1>2, <1>4, <1>5, EmbedsStill
<1>7. \A i \in 1 .. k : ~Bad(sent[i])'  BY <1>1, <1>2
<1>8. m \in 0 .. Len(handed')  BY <1>1, <1>3
<1> QED  BY <1>1, <1>2, <1>3, <1>4, <1>6, <1>7, <1>8 DEF Heard

(* Behind a half-written frame nothing is said of the reader.              *)
LEMMA StreamLost ==
    ASSUME Shape, Shape', Discipline, opt' = opt, work' = work, sent' = sent, lock' = lock,
           writer' = writer,
           Len(handed) <= Len(handed'), \A i \in 1 .. Len(handed) : handed'[i] = handed[i],
           NEW T, NEW f, NEW u, NEW k, NEW m, Written(T, f, u), Heard(T, f, u, k, m),
           Follows(T, f, u, k, m)',
           IsStream
    PROVE  StreamInv'
<1>1. Heard(T, f, u, k, m)'  BY HeardStays
<1>2. \A i \in 1 .. Len(sent) : HalfWritten(i)' = HalfWritten(i)  BY DEF HalfWritten
<1>3. Written(T, f, u)'  BY <1>2, WrittenSame
<1> QED  BY <1>1, <1>3 DEF StreamInv

(* The network cuts the stream after any byte.                             *)
LEMMA StreamCut ==
    ASSUME Shape, Shape', Discipline, IsStream, StreamInv, opt' = opt, work' = work, Cut
    PROVE  StreamInv'
<1>1. PICK T, f, u, k, m : Written(T, f, u) /\ Heard(T, f, u, k, m) /\ Follows(T, f, u, k, m)
  BY DEF StreamInv
<1>2. PICK p \in 0 .. Len(wire) : wire' = SubSeq(wire, 1, p)  BY DEF Cut
<1>3. /\ down' /\ reader' = reader /\ hdr' = hdr /\ handed' = handed /\ sent' = sent
      /\ lock' = lock /\ writer' = writer
  BY DEF Cut, readVars, writeVars
<1>4. Len(handed) <= Len(handed') /\ \A i \in 1 .. Len(handed) : handed'[i] = handed[i]
  <2>1. Len(handed) \in Nat  BY DEF Shape
  <2> QED  BY <1>3, <2>1
<1>5. Frames' = Frames  BY <1>1, <1>3, <1>4, HeardStays
<1>6. wire \in Strings /\ T \in Strings  BY <1>1 DEF Shape, Written
<1>7. \A c : On(wire, T, c) => On(wire', T, c)  BY <1>2, <1>6, OnLess
<1>8. Place(f, k)' = Place(f, k)  BY <1>3 DEF Place
<1>9. Follows(T, f, u, k, m)'  BY <1>1, <1>3, <1>5, <1>7, <1>8 DEF Follows
<1> QED  BY <1>1, <1>3, <1>4, <1>9, StreamLost

(* A read loop that ends hands nothing over.                               *)
LEMMA StreamOver ==
    ASSUME Shape, Shape', Discipline, IsStream, StreamInv, opt' = opt, work' = work, ReadOnly,
           handed' = handed, reader' \notin {"header", "body"}
    PROVE  StreamInv'
<1>1. PICK T, f, u, k, m : Written(T, f, u) /\ Heard(T, f, u, k, m) /\ Follows(T, f, u, k, m)
  BY DEF StreamInv
<1>2. sent' = sent /\ lock' = lock /\ writer' = writer  BY DEF ReadOnly, writeVars
<1>3. Len(handed) <= Len(handed') /\ \A i \in 1 .. Len(handed) : handed'[i] = handed[i]
  <2>1. Len(handed) \in Nat  BY DEF Shape
  <2> QED  BY <2>1
<1>4. Follows(T, f, u, k, m)'  BY <1>1, <1>2 DEF Follows
<1> QED  BY <1>1, <1>2, <1>3, <1>4, StreamLost

(* A header that can be read begins a frame that was begun.                *)
LEMMA HeaderThere ==
    ASSUME Shape, Discipline, wire \in Strings, NEW T, NEW f, NEW u, NEW k \in 0 .. u,
           Written(T, f, u), k < u \/ u = Len(sent), On(wire, T, f[k]), Len(wire) >= HeaderSize
    PROVE  k < u
<1>1. /\ T \in Strings /\ u \in 0 .. Len(sent) /\ Laid(T, f, Frames, u)
      /\ u = Len(sent) /\ lock = {} => f[u] = Len(T)
      /\ u = Len(sent) /\ lock # {} => f[u] + HeaderSize = Len(T) + Len(Frames[u])
  BY DEF Written
<1>2. Len(sent) \in Nat /\ u \in Nat /\ k \in Nat /\ Len(T) \in Nat /\ Len(wire) \in Nat
  <2>1. Len(sent) \in Nat  BY DEF Discipline
  <2>2. u \in Nat  BY <1>1, <2>1
  <2> QED  BY <1>1, <2>1, <2>2, StringLen
<1>3. f[u] \in Nat
  <2>1. u \in 0 .. u  BY <1>2
  <2> QED  BY <1>1, <2>1 DEF Laid
<1> SUFFICES ASSUME k = u, u = Len(sent) PROVE FALSE  BY <1>2
<1>4. f[u] + Len(wire) <= Len(T)  BY DEF On
<1>5. CASE lock = {}  BY <1>1, <1>2, <1>3, <1>4, <1>5 DEF HeaderSize
<1>6. CASE lock # {}
  <2>1. u \in 1 .. Len(sent)  BY <1>2, <1>6 DEF Discipline
  <2>2. Len(Frames[u]) \in Nat /\ Len(Frames[u]) >= HeaderSize  BY <2>1, FramesAre
  <2> QED  BY <1>1, <1>2, <1>3, <1>4, <1>6, <2>2 DEF HeaderSize
<1> QED  BY <1>5, <1>6

(* The reader takes a header.                                              *)
LEMMA StreamHeader ==
    ASSUME Shape, Shape', Discipline, IsStream, StreamInv, opt' = opt, work' = work, ReadHeader
    PROVE  StreamInv'
<1>1. PICK T, f, u, k, m : Written(T, f, u) /\ Heard(T, f, u, k, m) /\ Follows(T, f, u, k, m)
  BY DEF StreamInv
<1>2. CASE ~CheckHeader(HeaderOf(wire), opt.max)
  BY <1>2, StreamOver DEF ReadHeader, End
<1>3. CASE CheckHeader(HeaderOf(wire), opt.max)
  <2>1. /\ reader = "header" /\ Len(wire) >= HeaderSize /\ wire' = Rest(wire, HeaderSize)
        /\ reader' = "body" /\ hdr' = HeaderOf(wire) /\ down' = down /\ handed' = handed
        /\ sent' = sent /\ lock' = lock /\ writer' = writer
    BY <1>3 DEF ReadHeader, ReadOnly, writeVars
  <2>2. Len(handed) <= Len(handed') /\ \A i \in 1 .. Len(handed) : handed'[i] = handed[i]
    <3>1. Len(handed) \in Nat  BY DEF Shape
    <3> QED  BY <2>1, <3>1
  <2>3. Frames' = Frames  BY <1>1, <2>1, <2>2, HeardStays
  <2>4. Follows(T, f, u, k, m)'
    <3> SUFFICES ASSUME k < u \/ u = Len(sent) PROVE Follows(T, f, u, k, m)'
      BY <2>1 DEF Follows
    <3>1. /\ m = Len(handed) /\ On(wire, T, Place(f, k))
          /\ ~down => Place(f, k) + Len(wire) = Len(T)
      BY <1>1, <2>1 DEF Follows
    <3>2. Place(f, k) = f[k] /\ Place(f, k)' = f[k] + HeaderSize
      <4>1. f[k] \in Nat  BY <1>1 DEF Written, Heard, Laid
      <4> QED  BY <2>1, <4>1 DEF Place
    <3>3. wire \in Strings /\ T \in Strings /\ u \in Nat /\ k \in 0 .. u /\ Laid(T, f, Frames, u)
          /\ Len(sent) \in Nat /\ u \in 0 .. Len(sent)
      BY <1>1 DEF Shape, Written, Heard, Discipline
    <3>4. k < u  BY <1>1, <2>1, <3>1, <3>2, <3>3, HeaderThere
    <3>5. k + 1 \in 1 .. Len(sent)  BY <3>3, <3>4
    <3>6. Frames[k + 1] \in Strings /\ Len(Frames[k + 1]) >= HeaderSize  BY <3>5, FramesAre
    <3>7. HeaderOf(wire) = HeaderOf(Frames[k + 1])
      BY <2>1, <3>1, <3>2, <3>3, <3>4, <3>6, ReadsHead
    <3>8. HeaderSize \in 0 .. Len(wire)
      <4>1. Len(wire) \in Nat  BY <3>3, StringLen
      <4> QED  BY <2>1, <4>1 DEF HeaderSize
    <3>9. On(wire', T, f[k] + HeaderSize) /\ f[k] + HeaderSize + Len(wire') = f[k] + Len(wire)
      BY <2>1, <3>1, <3>2, <3>3, <3>8, OnRest
    <3> QED  BY <2>1, <2>3, <3>1, <3>2, <3>4, <3>7, <3>9 DEF Follows
  <2> QED  BY <1>1, <2>1, <2>2, <2>4, StreamLost
<1> QED  BY <1>2, <1>3

(* A frame read to its end is what was said in it.                         *)
LEMMA StreamBody ==
    ASSUME Shape, Shape', Discipline, IsStream, StreamInv, opt' = opt, work' = work, ReadBody
    PROVE  StreamInv'
<1>1. PICK T, f, u, k, m : Written(T, f, u) /\ Heard(T, f, u, k, m) /\ Follows(T, f, u, k, m)
  BY DEF StreamInv
<1> DEFINE body == SubSeq(wire, 1, hdr.len)
<1>2. /\ reader = "body" /\ Len(wire) >= hdr.len /\ wire' = Rest(wire, hdr.len)
      /\ Accept(hdr, body) /\ sent' = sent /\ lock' = lock /\ writer' = writer
  BY DEF ReadBody, ReadOnly, writeVars
<1>3. PICK h, b : h = hdr /\ b = body  OBVIOUS
<1> HIDE DEF body
<1>4. /\ hdr' = Nothing
      /\ Meaning(h, b) = {} => reader' = "protocol" /\ handed' = handed
      /\ Meaning(h, b) # {} => reader' = "header" /\ down' = down
      /\ Meaning(h, b) = {Nothing} => handed' = handed
      /\ Meaning(h, b) \notin {{}, {Nothing}} =>
            handed' = Append(handed, [hdr |-> h, body |-> b, own |-> TRUE])
  BY <1>2, <1>3, AcceptIs
<1>5. CASE Meaning(h, b) = {}
  <2>1. reader' \notin {"header", "body"} /\ handed' = handed  BY <1>4, <1>5
  <2> QED  BY <2>1, StreamOver DEF ReadBody
<1>6. CASE Meaning(h, b) # {}
  <2>1. Len(handed) \in Nat /\ handed \in Seq(Handed)  BY DEF Shape
  <2>2. /\ Len(handed) <= Len(handed') /\ \A i \in 1 .. Len(handed) : handed'[i] = handed[i]
        /\ Meaning(h, b) # {Nothing} => /\ Len(handed') = Len(handed) + 1
                                        /\ handed'[Len(handed) + 1].hdr = h
                                        /\ handed'[Len(handed) + 1].body = b
    <3>1. PICK x : x = [hdr |-> h, body |-> b, own |-> TRUE]  OBVIOUS
    <3>2. x.hdr = h /\ x.body = b  BY <3>1
    <3>3. handed' = handed \/ handed' = Append(handed, x)  BY <1>4, <1>6, <3>1
    <3>4. Meaning(h, b) # {Nothing} => handed' = Append(handed, x)  BY <1>4, <1>6, <3>1
    <3> HIDE DEF Handed
    <3>5. CASE handed' = handed  BY <2>1, <3>2, <3>4, <3>5
    <3>6. CASE handed' = Append(handed, x)  BY <2>1, <3>2, <3>6
    <3> QED  BY <3>3, <3>5, <3>6
  <2>3. /\ Heard(T, f, u, k, m)' /\ Sayings' = Sayings /\ Frames' = Frames
        /\ Len(handed') \in Nat /\ \A i \in 1 .. Len(handed) : Got'[i] = Got[i]
    BY <1>1, <1>2, <2>2, HeardStays
  <2>4. CASE ~(k < u \/ u = Len(sent))
    <3>1. Follows(T, f, u, k, m)'  BY <1>2, <2>4 DEF Follows
    <3> QED  BY <1>1, <1>2, <2>2, <3>1, StreamLost
  <2>5. CASE k < u \/ u = Len(sent)
    <3>1. /\ m = Len(handed) /\ On(wire, T, Place(f, k))
          /\ ~down => Place(f, k) + Len(wire) = Len(T)
          /\ k < u /\ h = HeaderOf(Frames[k + 1])
      BY <1>1, <1>2, <1>3, <2>5 DEF Follows
    <3>2. /\ wire \in Strings /\ T \in Strings /\ u \in Nat /\ k \in 0 .. u
          /\ Laid(T, f, Frames, u) /\ Len(sent) \in Nat /\ u \in 0 .. Len(sent)
          /\ k \in Nat /\ m \in Nat /\ f[k] \in Nat
      <4>1. /\ T \in Strings /\ u \in 0 .. Len(sent) /\ Laid(T, f, Frames, u) /\ k \in 0 .. u
            /\ wire \in Strings /\ Len(sent) \in Nat
        BY <1>1 DEF Shape, Written, Heard, Discipline
      <4>2. u \in Nat /\ k \in Nat  BY <4>1
      <4>3. f[k] \in Nat  BY <4>1 DEF Laid
      <4> QED  BY <2>1, <3>1, <4>1, <4>2, <4>3
    <3>3. k + 1 \in 1 .. Len(sent) /\ k + 1 \in 0 .. u  BY <3>1, <3>2
    <3>4. PICK w \in Writers : w = sent[k + 1] /\ Prepared(w)  BY <3>3, FramesAre
    <3>5. /\ Frames[k + 1] = BytesOf(w) /\ Frames[k + 1] \in Strings
          /\ Sayings[k + 1] = Said(w)
      BY <3>3, <3>4, FramesAre
    <3>6. /\ h.len \in Nat /\ Len(Frames[k + 1]) = HeaderSize + h.len
          /\ Readable(w) => Meaning(h, Rest(Frames[k + 1], HeaderSize)) = Said(w)
          /\ Readable(w) /\ Said(w) # {} /\ Fitting(w) => ~Bad(w)
      BY <3>1, <3>4, <3>5, FrameOf DEF Shape
    <3>7. Readable(w) /\ Fitting(w)
      <4>1. CheckHeader(h, opt.max)  BY <1>2, <1>3 DEF Shape
      <4>2. ~IsDatagram  BY DEF IsStream, IsDatagram, Streams, Datagrams
      <4> QED  BY <3>1, <3>5, <4>1, <4>2 DEF Readable, Fitting
    <3>8. Place(f, k) = f[k] + HeaderSize  BY <1>2 DEF Place
    <3>9. b = Rest(Frames[k + 1], HeaderSize) /\ f[k + 1] = f[k] + HeaderSize + h.len
      <4>1. On(wire, T, f[k] + HeaderSize) /\ Len(wire) >= h.len  BY <1>2, <1>3, <3>1, <3>8
      <4>2. b = SubSeq(wire, 1, h.len)  BY <1>3 DEF body
      <4>3. /\ SubSeq(wire, 1, h.len) = Rest(Frames[k + 1], HeaderSize)
            /\ f[k + 1] = f[k] + HeaderSize + h.len
        BY <3>1, <3>2, <3>5, <3>6, <4>1, ReadsBody
      <4> QED  BY <4>2, <4>3
    <3>10. Meaning(h, b) = Said(w) /\ ~Bad(w)
      BY <1>6, <3>6, <3>7, <3>9
    <3>11. h.len \in 0 .. Len(wire)
      <4>1. Len(wire) \in Nat  BY <3>2, StringLen
      <4> QED  BY <1>2, <1>3, <3>6, <4>1
    <3>12. /\ On(wire', T, f[k + 1])
           /\ ~down => f[k + 1] + Len(wire') = Len(T)
      <4>1. PICK c, l : c = f[k] + HeaderSize /\ l = h.len  OBVIOUS
      <4>2. On(wire, T, c) /\ l \in 0 .. Len(wire) /\ wire' = Rest(wire, l)
        BY <1>2, <1>3, <3>1, <3>8, <3>11, <4>1
      <4>3. On(wire', T, c + l) /\ c + l + Len(wire') = c + Len(wire)
        BY <3>2, <4>2, OnRest
      <4>4. f[k + 1] = c + l  BY <3>9, <4>1
      <4>5. ~down => c + Len(wire) = Len(T)  BY <3>1, <3>8, <4>1
      <4> QED  BY <4>3, <4>4, <4>5
    <3>13. f[k + 1] <= Len(T)
      <4>1. wire' \in Strings  BY <1>2, <1>3, <3>2, <3>11, RestIs
      <4>2. Len(wire') \in Nat /\ Len(T) \in Nat  BY <3>2, <4>1, StringLen
      <4> QED  BY <3>12, <4>2 DEF On
    <3>14. \A i \in 1 .. k + 1 : ~Bad(sent[i])'
      <4>1. \A i \in 1 .. k + 1 : i \in 1 .. k \/ i = k + 1  BY <3>2
      <4>2. \A i \in 1 .. k : ~Bad(sent[i])'  BY <2>3 DEF Heard
      <4>3. ~Bad(sent[k + 1])'
        <5>1. Bad(w)' = Bad(w)  BY Frozen
        <5>2. sent'[k + 1] = w  BY <1>2, <3>4
        <5>3. ~Bad(w)'  BY <3>10, <5>1
        <5> QED  BY <5>2, <5>3 DEF Bad, Said, BytesOf
      <4> QED  BY <4>1, <4>2, <4>3
    <3>15. PICK n : n = Len(handed')  OBVIOUS
    <3>16. Embeds(Got', Sayings', n, k + 1)
      <4>1. Embeds(Got', Sayings', m, k)  BY <2>3 DEF Heard
      <4>2. Sayings'[k + 1] = Meaning(h, b)  BY <2>3, <3>5, <3>10
      <4>3. CASE Meaning(h, b) = {Nothing}
        <5>1. n = m  BY <1>4, <3>1, <3>15, <4>3
        <5> QED  BY <3>2, <4>1, <4>2, <4>3, <5>1, EmbedsSilence
      <4>4. CASE Meaning(h, b) # {Nothing}
        <5>1. n = m + 1  BY <2>2, <3>1, <3>15, <4>4
        <5>2. Got'[m + 1] = Meaning(h, b)
          <6>1. m + 1 \in 1 .. Len(handed')  BY <3>2, <3>15, <5>1
          <6>2. Got'[m + 1] = Meaning(handed'[m + 1].hdr, handed'[m + 1].body)
            BY <6>1, GotNext
          <6> QED  BY <2>2, <3>1, <4>4, <6>2
        <5> QED  BY <3>2, <4>1, <4>2, <4>4, <5>1, <5>2, EmbedsMore
      <4> QED  BY <4>3, <4>4
    <3>17. Heard(T, f, u, k + 1, n)'
      <4>1. n \in 0 .. Len(handed')  BY <2>3, <3>15
      <4> QED  BY <3>3, <3>13, <3>14, <3>16, <4>1 DEF Heard
    <3>18. Follows(T, f, u, k + 1, n)'
      <4>1. reader' = "header" /\ down' = down  BY <1>4, <1>6
      <4>2. Place(f, k + 1)' = f[k + 1]
        <5>1. f[k + 1] \in Nat  BY <3>2, <3>3 DEF Laid
        <5> QED  BY <4>1, <5>1 DEF Place
      <4> QED  BY <3>12, <3>15, <4>1, <4>2 DEF Follows
    <3>19. Written(T, f, u)'
      <4>1. \A i \in 1 .. Len(sent) : HalfWritten(i)' = HalfWritten(i)  BY <1>2 DEF HalfWritten
      <4> QED  BY <1>1, <1>2, <4>1, WrittenSame
    <3> QED  BY <3>17, <3>18, <3>19 DEF StreamInv
  <2> QED  BY <2>4, <2>5
<1> QED  BY <1>5, <1>6

(* Nothing is written, nothing read.                                       *)
LEMMA StreamStart ==
    ASSUME Init
    PROVE  StreamInv
<1> DEFINE z == [i \in 0 .. 0 |-> 0]
<1>1. /\ wire = << >> /\ handed = << >> /\ lock = {} /\ sent = << >> /\ reader = "header"
      /\ hdr = Nothing
  BY DEF Init
<1>2. z[0] = 0  OBVIOUS
<1> HIDE DEF z
<1>3. Laid(<< >>, z, Frames, 0)  BY LaidNone DEF z
<1>4. << >> \in Strings
  <2>1. \A S : << >> \in Seq(S)  OBVIOUS
  <2> QED  BY <2>1, Zenon DEF Strings
<1>5. Written(<< >>, z, 0)  BY <1>1, <1>2, <1>3, <1>4 DEF Written
<1>6. Heard(<< >>, z, 0, 0, 0)
  <2>1. Embeds(Got, Sayings, 0, 0)  BY EmbedsNone
  <2> QED  BY <1>1, <1>2, <2>1 DEF Heard
<1>7. On(wire, << >>, 0)  BY <1>1 DEF On
<1>8. Follows(<< >>, z, 0, 0, 0)  BY <1>1, <1>2, <1>7 DEF Follows, Place
<1> QED  BY <1>5, <1>6, <1>8 DEF StreamInv

(* Every step keeps what is known of a stream.                             *)
LEMMA Untouched ==
    ASSUME Discipline, NEW w \in Writers, writer[w] \notin {"header", "done", "failed"},
           NEW s, writer' = [writer EXCEPT ![w] = s],
           \A i \in 1 .. Len(sent) : sent'[i] = sent[i]
    PROVE  \A i \in 1 .. Len(sent) : HalfWritten(i)' = HalfWritten(i)
<1>1. \A i \in 1 .. Len(sent) : sent[i] \in Writers /\ sent[i] # w  BY DEF Discipline
<1>2. \A x \in Writers : x # w => writer'[x] = writer[x]  BY DEF Discipline
<1> QED  BY <1>1, <1>2 DEF HalfWritten

(* StreamInv is inductive, given Shape and Discipline.                     *)
LEMMA StreamStep ==
    ASSUME Shape, Discipline, StreamInv, [Next]_vars
    PROVE  StreamInv'
<1>1. opt' = opt /\ work' = work /\ Shape'  BY Fixed, ShapeStep
<1>2. CASE ~IsStream
  <2>1. ~IsStream'  BY <1>1, <1>2, Frozen
  <2> QED  BY <2>1 DEF StreamInv
<1>3. CASE IsStream
  <2>1. wire \in Strings /\ \A b : OnWire(b) = wire \o b  BY <1>3 DEF Shape, OnWire
  <2>2. \A w \in lock : lock = {w}
    <3>1. \A w, x \in lock : w = x  BY DEF Discipline
    <3> QED  BY <3>1
  <2>3. \A w \in lock : w \in Writers /\ Prepared(w) /\ writer[w] = "header"
    <3>1. ASSUME NEW w \in lock PROVE w \in Writers /\ Prepared(w) /\ writer[w] = "header"
      <4>1. Len(sent) # 0 /\ sent[Len(sent)] = w /\ sent \in Seq(Writers)  BY DEF Discipline
      <4>2. Len(sent) \in 1 .. Len(sent)  BY <4>1
      <4> QED  BY <4>1, <4>2 DEF Discipline
    <3> QED  BY <3>1
  <2>4. ASSUME NEW w \in Writers, Build(w) PROVE StreamInv'
    <3>1. /\ UNCHANGED readVars /\ down' = down /\ wire' = wire /\ sent' = sent /\ lock' = lock
          /\ writer[w] = "idle"
      BY <2>4 DEF Build, WriterAt
    <3>2. \A i \in 1 .. Len(sent) : HalfWritten(i)' = HalfWritten(i)
      BY <2>4, <3>1, Untouched DEF Build, WriterAt
    <3> QED  BY <1>1, <1>3, <3>1, <3>2, StreamKept
  <2>5. ASSUME NEW w \in Writers, WriteFrame(w) PROVE StreamInv'
    <3>1. /\ UNCHANGED readVars /\ down' = down /\ ~down /\ lock = {} /\ lock' = {}
          /\ sent' = Append(sent, w) /\ writer[w] \in {"idle", "ready"}
          /\ writer' = [writer EXCEPT ![w] = "done"] /\ wire' = wire \o BytesOf(w)
      BY <2>1, <2>5 DEF WriteFrame, WriterAt, MayWrite
    <3>2. Prepared(w)
      <4>1. CASE opt.dir = "up"  BY <2>5, <4>1 DEF WriteFrame, WriterAt, Discipline
      <4>2. CASE opt.dir # "up"  BY <4>2 DEF Prepared
      <4> QED  BY <4>1, <4>2
    <3>3. \A i \in 1 .. Len(sent) : sent'[i] = sent[i]  BY <3>1 DEF Discipline
    <3>4. \A i \in 1 .. Len(sent) : HalfWritten(i)' = HalfWritten(i)  BY <3>1, <3>3, Untouched
    <3>5. writer'[w] # "failed"  BY <3>1 DEF Discipline
    <3>6. PICK x : x = BytesOf(w)  OBVIOUS
    <3>7. x \in Strings /\ Starts(x, BytesOf(w)) /\ Len(x) = Len(BytesOf(w))
      <4>1. x \in Strings  BY <1>3, <3>2, <3>6, PartsAre
      <4>2. Len(x) \in Nat  BY <4>1, StringLen
      <4>3. Len(x) <= Len(x)  BY <4>2
      <4> QED  BY <3>6, <4>1, <4>3 DEF Starts
    <3> QED  BY <1>1, <1>3, <3>1, <3>2, <3>4, <3>5, <3>6, <3>7, StreamSends
  <2>6. ASSUME NEW w \in Writers, WriteHeader(w) PROVE StreamInv'
    <3>1. PICK x : x = SubSeq(BytesOf(w), 1, HeaderSize)  OBVIOUS
    <3>2. /\ UNCHANGED readVars /\ down' = down /\ ~down /\ lock = {} /\ lock' = {w}
          /\ sent' = Append(sent, w) /\ writer[w] = "ready"
          /\ writer' = [writer EXCEPT ![w] = "header"] /\ wire' = wire \o x
      BY <2>1, <2>6, <3>1 DEF WriteHeader, WriterAt, MayWrite
    <3>3. Prepared(w)  BY <3>2 DEF Discipline
    <3>4. \A i \in 1 .. Len(sent) : sent'[i] = sent[i]  BY <3>2 DEF Discipline
    <3>5. \A i \in 1 .. Len(sent) : HalfWritten(i)' = HalfWritten(i)  BY <3>2, <3>4, Untouched
    <3>6. writer'[w] # "failed"  BY <3>2 DEF Discipline
    <3>7. x \in Strings /\ Starts(x, BytesOf(w)) /\ Len(x) = HeaderSize
      <4>1. BytesOf(w) \in Strings /\ Len(BytesOf(w)) >= HeaderSize
        BY <3>3, FrameOf DEF Shape
      <4>2. HeaderSize \in 0 .. Len(BytesOf(w))
        <5>1. Len(BytesOf(w)) \in Nat  BY <4>1, StringLen
        <5> QED  BY <4>1, <5>1 DEF HeaderSize
      <4>3. /\ x \in Strings /\ Len(x) = HeaderSize
            /\ \A p \in 1 .. HeaderSize : x[p] = BytesOf(w)[p]
        BY <3>1, <4>1, <4>2, StartIs
      <4>4. Len(x) <= Len(BytesOf(w))  BY <4>2, <4>3
      <4> QED  BY <4>3, <4>4 DEF Starts
    <3>8. lock' # {}  BY <3>2
    <3> QED  BY <1>1, <1>3, <3>2, <3>3, <3>5, <3>6, <3>7, <3>8, StreamSends
  <2>7. ASSUME NEW w \in Writers, WriteBody(w) PROVE StreamInv'
    <3>1. /\ UNCHANGED readVars /\ down' = down /\ ~down /\ sent' = sent
          /\ writer[w] = "header" /\ writer' = [writer EXCEPT ![w] = "done"]
          /\ wire' = wire \o Rest(BytesOf(w), HeaderSize) /\ lock' = lock \ {w}
      BY <2>1, <2>7 DEF WriteBody, WriterAt
    <3>2. w \in lock  BY <3>1 DEF Discipline
    <3>3. lock = {w} /\ lock' = {} /\ Prepared(w)  BY <2>2, <2>3, <3>1, <3>2
    <3>4. \A i \in 1 .. Len(sent) : HalfWritten(i)' = HalfWritten(i)
      <4>1. \A i \in 1 .. Len(sent) : sent[i] \in Writers  BY DEF Discipline
      <4>2. \A x \in Writers : writer'[x] = IF x = w THEN "done" ELSE writer[x]
        BY <3>1 DEF Discipline
      <4> QED  BY <3>1, <4>1, <4>2 DEF HalfWritten
    <3> QED  BY <1>1, <1>3, <3>1, <3>3, <3>4, StreamEnds
  <2>8. ASSUME NEW w \in Writers, WriteTimeout(w) PROVE StreamInv'
    <3>1. /\ UNCHANGED readVars /\ down' = down /\ sent' = sent /\ wire' = wire
          /\ writer' = [writer EXCEPT ![w] = "failed"] /\ lock' = lock \ {w}
          /\ writer[w] = "header" \/ (writer[w] = "ready" /\ lock = {})
      BY <2>8 DEF WriteTimeout, WriterAt, MayWrite
    <3>2. \A x \in Writers : writer'[x] = IF x = w THEN "failed" ELSE writer[x]
      BY <3>1 DEF Discipline
    <3>3. CASE writer[w] = "header"
      <4>1. w \in lock  BY <3>3 DEF Discipline
      <4>2. lock = {w} /\ lock' = {}  BY <2>2, <3>1, <4>1
      <4>3. \A i \in 1 .. Len(sent) : sent[i] # w => HalfWritten(i)' = HalfWritten(i)
        <5>1. \A i \in 1 .. Len(sent) : sent[i] \in Writers  BY DEF Discipline
        <5> QED  BY <3>1, <3>2, <5>1 DEF HalfWritten
      <4> QED  BY <1>1, <1>3, <3>1, <3>2, <4>2, <4>3, StreamFails
    <3>4. CASE writer[w] = "ready" /\ lock = {}
      <4>1. \A i \in 1 .. Len(sent) : HalfWritten(i)' = HalfWritten(i)
        BY <3>1, <3>4, Untouched
      <4>2. lock' = lock  BY <3>1, <3>4
      <4> QED  BY <1>1, <1>3, <3>1, <4>1, <4>2, StreamKept
    <3> QED  BY <3>1, <3>3, <3>4
  <2>9. CASE WritesFail
    <3>1. /\ UNCHANGED readVars /\ down' = down /\ sent' = sent /\ wire' = wire /\ lock' = {}
          /\ \A x \in Writers : writer'[x] = IF writer[x] \in Over THEN writer[x] ELSE "failed"
      BY <2>9 DEF WritesFail
    <3>2. \A i \in 1 .. Len(sent) : /\ sent[i] \in Writers
                                    /\ writer[sent[i]] \in Over \/ sent[i] \in lock
      BY DEF Discipline, Over
    <3>3. CASE lock = {}
      <4>1. \A i \in 1 .. Len(sent) : HalfWritten(i)' = HalfWritten(i)
        BY <3>1, <3>2, <3>3 DEF HalfWritten
      <4> QED  BY <1>1, <1>3, <3>1, <3>3, <4>1, StreamKept
    <3>4. CASE lock # {}
      <4>1. PICK w : w \in lock  BY <3>4
      <4>2. lock = {w} /\ w \in Writers /\ writer[w] = "header"  BY <2>2, <2>3, <4>1
      <4>3. writer'[w] = "failed"  BY <3>1, <4>2 DEF Over
      <4>4. \A i \in 1 .. Len(sent) : sent[i] # w => HalfWritten(i)' = HalfWritten(i)
        BY <3>1, <3>2, <4>2 DEF HalfWritten
      <4> QED  BY <1>1, <1>3, <3>1, <4>2, <4>3, <4>4, StreamFails
    <3> QED  BY <3>3, <3>4
  <2>10. CASE Cut  BY <1>1, <1>3, <2>10, StreamCut
  <2>11. CASE ReadHeader  BY <1>1, <1>3, <2>11, StreamHeader
  <2>12. CASE ReadBody  BY <1>1, <1>3, <2>12, StreamBody
  <2>13. CASE ReadEOF
    <3>1. ReadOnly /\ handed' = handed /\ reader' \notin {"header", "body"}
      BY <2>13 DEF ReadEOF, End
    <3> QED  BY <1>1, <1>3, <3>1, StreamOver
  <2>14. CASE UNCHANGED vars
    <3>1. /\ UNCHANGED readVars /\ down' = down /\ sent' = sent /\ wire' = wire /\ lock' = lock
          /\ writer' = writer
      BY <2>14 DEF vars, writeVars
    <3>2. \A i \in 1 .. Len(sent) : HalfWritten(i)' = HalfWritten(i)  BY <3>1 DEF HalfWritten
    <3> QED  BY <1>1, <1>3, <3>1, <3>2, StreamKept
  <2>15. ~Mishap /\ ~ReadMessage /\ \A i : ~ReadDatagram(i)
    BY <1>3 DEF Mishap, ReadMessage, ReadDatagram, IsStream, IsDatagram, Streams, Datagrams
  <2> QED
    BY <2>4, <2>5, <2>6, <2>7, <2>8, <2>9, <2>10, <2>11, <2>12, <2>13, <2>14, <2>15
       DEF Next, Done
<1> QED  BY <1>2, <1>3

-----------------------------------------------------------------------------
(* A WebSocket: the messages under way are the frames behind the first k,  *)
(* and what these say is what was handed over.                             *)

HeardUpTo(k) ==
    /\ k \in 0 .. Len(sent)
    /\ \A i \in 1 .. k : ~Bad(sent[i])
    /\ Embeds(Got, Sayings, Len(handed), k)

UnderWay(k) ==
    /\ Len(wire) <= Len(sent) - k
    /\ \A i \in 1 .. Len(wire) : wire[i] = Frames[k + i]
    /\ ~down => Len(wire) = Len(sent) - k

MessageInv ==
    opt.carrier = "ws" => \E k : HeardUpTo(k) /\ (reader = "header" => UnderWay(k))

(* What was handed over says the same after a step.                        *)
LEMMA GotStays ==
    ASSUME Shape, Shape', opt' = opt, work' = work,
           \A i \in 1 .. Len(handed) : handed'[i] = handed[i], Len(handed) <= Len(handed')
    PROVE  \A i \in 1 .. Len(handed) : Got'[i] = Got[i]
<1>1. Len(handed) \in Nat /\ Len(handed') \in Nat  BY DEF Shape
<1>2. \A i \in 1 .. Len(handed) : i \in 1 .. Len(handed')  BY <1>1
<1> QED  BY <1>2, GotIs, GotNext

(* What was heard stays heard.                                             *)
LEMMA HeardKept ==
    ASSUME Shape, Shape', Discipline, opt' = opt, work' = work, handed' = handed,
           Len(sent') \in Nat, Len(sent) <= Len(sent'),
           \A i \in 1 .. Len(sent) : sent'[i] = sent[i], NEW k, HeardUpTo(k)
    PROVE  HeardUpTo(k)'
<1>1. Len(handed) \in Nat /\ Len(sent) \in Nat /\ k \in 0 .. Len(sent)
  BY DEF Shape, Discipline, HeardUpTo
<1>2. k \in Nat /\ k \in 0 .. Len(sent') /\ \A i \in 1 .. k : i \in 1 .. Len(sent)  BY <1>1
<1>3. \A i \in 1 .. Len(sent) : Sayings'[i] = Sayings[i] /\ Bad(sent[i])' = Bad(sent[i])
  BY FramesStay
<1>4. \A i \in 1 .. Len(handed) : Got'[i] = Got[i]
  <2>1. Len(handed) <= Len(handed')  BY <1>1
  <2> QED  BY <2>1, GotStays
<1>5. Embeds(Got', Sayings', Len(handed), k)
  <2>1. \A i \in 1 .. k : Sayings'[i] = Sayings[i]  BY <1>2, <1>3
  <2> QED  BY <1>1, <1>2, <1>4, <2>1, EmbedsStill DEF HeardUpTo
<1>6. \A i \in 1 .. k : ~Bad(sent[i])'  BY <1>2, <1>3 DEF HeardUpTo
<1> QED  BY <1>2, <1>5, <1>6 DEF HeardUpTo

(* Frame k + 1 is accepted.                                                *)
LEMMA HeardNext ==
    ASSUME Shape, Shape', Discipline, opt' = opt, work' = work, sent' = sent,
           NEW k, HeardUpTo(k), k < Len(sent), NEW w, w = sent[k + 1], ~Bad(w),
           NEW h, NEW b, Accept(h, b), Meaning(h, b) = Said(w)
    PROVE  HeardUpTo(k + 1)' /\ reader' = "header" /\ down' = down
<1>1. Len(handed) \in Nat /\ Len(sent) \in Nat /\ k \in 0 .. Len(sent) /\ handed \in Seq(Handed)
  BY DEF Shape, Discipline, HeardUpTo
<1>2. k \in Nat /\ k + 1 \in 1 .. Len(sent) /\ k + 1 \in 0 .. Len(sent)
      /\ \A i \in 1 .. k + 1 : i \in 1 .. k \/ i = k + 1
  BY <1>1
<1>3. \A i \in 1 .. k : i \in 1 .. Len(sent)  BY <1>1
<1>4. Sayings' = Sayings /\ \A x : Bad(x)' = Bad(x)
  <2>1. Len(sent') \in Nat /\ Len(sent) <= Len(sent')  BY <1>1
  <2>2. \A i \in 1 .. Len(sent) : sent'[i] = sent[i]  OBVIOUS
  <2> QED  BY <2>1, <2>2, FramesStay, Frozen
<1>5. Said(w) # {}  BY DEF Bad
<1>6. /\ reader' = "header" /\ down' = down
      /\ Said(w) = {Nothing} => handed' = handed
      /\ Said(w) # {Nothing} => handed' = Append(handed, [hdr |-> h, body |-> b, own |-> TRUE])
  BY <1>5, AcceptIs
<1>7. PICK x : x = [hdr |-> h, body |-> b, own |-> TRUE]  OBVIOUS
<1>8. /\ Len(handed) <= Len(handed') /\ \A i \in 1 .. Len(handed) : handed'[i] = handed[i]
      /\ Said(w) # {Nothing} => /\ Len(handed') = Len(handed) + 1
                                /\ handed'[Len(handed) + 1].hdr = h
                                /\ handed'[Len(handed) + 1].body = b
  <2>1. x.hdr = h /\ x.body = b  BY <1>7
  <2>2. Said(w) # {Nothing} => handed' = Append(handed, x)  BY <1>6, <1>7
  <2> HIDE DEF Handed
  <2>3. CASE Said(w) = {Nothing}  BY <1>1, <1>6, <2>3
  <2>4. CASE Said(w) # {Nothing}  BY <1>1, <2>1, <2>2, <2>4
  <2> QED  BY <2>3, <2>4
<1>9. \A i \in 1 .. Len(handed) : Got'[i] = Got[i]  BY <1>8, GotStays
<1>10. PICK m : m = Len(handed)  OBVIOUS
<1>11. Embeds(Got', Sayings', m, k)
  <2>1. \A i \in 1 .. k : Sayings'[i] = Sayings[i]  BY <1>4
  <2> QED  BY <1>1, <1>2, <1>9, <1>10, <2>1, EmbedsStill DEF HeardUpTo
<1>12. Sayings'[k + 1] = Said(w)  BY <1>2, <1>4 DEF Sayings
<1>13. PICK n : n = Len(handed')  OBVIOUS
<1>14. Embeds(Got', Sayings', n, k + 1)
  <2>1. CASE Said(w) = {Nothing}
    <3>1. n = m  BY <1>6, <1>10, <1>13, <2>1
    <3> QED  BY <1>1, <1>2, <1>10, <1>11, <1>12, <2>1, <3>1, EmbedsSilence
  <2>2. CASE Said(w) # {Nothing}
    <3>1. n = m + 1  BY <1>8, <1>10, <1>13, <2>2
    <3>2. Got'[m + 1] = Said(w)
      <4>1. m + 1 \in 1 .. Len(handed')  BY <1>1, <1>10, <1>13, <3>1
      <4>2. Got'[m + 1] = Meaning(handed'[m + 1].hdr, handed'[m + 1].body)
        BY <4>1, GotNext
      <4> QED  BY <1>8, <1>10, <2>2, <4>2
    <3> QED  BY <1>1, <1>2, <1>10, <1>11, <1>12, <2>2, <3>1, <3>2, EmbedsMore
  <2> QED  BY <2>1, <2>2
<1>15. \A i \in 1 .. k + 1 : ~Bad(sent[i])'
  <2>1. \A i \in 1 .. k : ~Bad(sent[i])'  BY <1>4 DEF HeardUpTo
  <2>2. ~Bad(sent[k + 1])'  BY <1>4
  <2> QED  BY <1>2, <2>1, <2>2
<1> QED  BY <1>2, <1>6, <1>13, <1>14, <1>15 DEF HeardUpTo

(* What becomes of the first message.                                      *)
LEMMA MessageRead ==
    ASSUME Shape, Discipline, ReadMessage, NEW w \in Writers, Prepared(w), wire[1] = BytesOf(w)
    PROVE  \/ Bad(w) /\ End("protocol")
           \/ ~Bad(w) /\ \E h, b : Accept(h, b) /\ Meaning(h, b) = Said(w)
<1> DEFINE b == BytesOf(w)
           h == HeaderOf(b)
           body == Rest(b, HeaderSize)
<1>1. /\ Readable(w) => Meaning(h, body) = Said(w)
      /\ Readable(w) /\ Said(w) # {} => ~Bad(w)
      /\ Said(w) = {} \/ ~Readable(w) => Bad(w)
      /\ Len(b) > HeaderSize + Limit(opt.max) => Bad(w)
  <2>1. Fitting(w)
    <3>1. ~IsDatagram  BY DEF ReadMessage, IsDatagram, Datagrams
    <3> QED  BY <3>1 DEF Fitting
  <2> QED  BY <2>1, FrameOf DEF Shape
<1>2. DecodeMessage(b, opt.max) = IF Readable(w) THEN {[hdr |-> h, body |-> body]} ELSE {}
  BY Decoded DEF Shape
<1> HIDE DEF b, h, body
<1>3. LET ms == IF Len(b) > HeaderSize + Limit(opt.max) THEN {} ELSE DecodeMessage(b, opt.max)
      IN  IF ms = {} THEN End("protocol") ELSE \E m \in ms : Accept(m.hdr, m.body)
  BY DEF ReadMessage, b
<1>4. CASE Len(b) > HeaderSize + Limit(opt.max)  BY <1>1, <1>3, <1>4
<1>5. CASE ~(Len(b) > HeaderSize + Limit(opt.max)) /\ ~Readable(w)  BY <1>1, <1>2, <1>3, <1>5
<1>6. CASE ~(Len(b) > HeaderSize + Limit(opt.max)) /\ Readable(w)
  <2>0. PICK x : x = [hdr |-> h, body |-> body]  OBVIOUS
  <2>1. Accept(h, body) /\ Meaning(h, body) = Said(w)
    <3>1. DecodeMessage(b, opt.max) = {x}  BY <1>2, <1>6, <2>0
    <3>2. \E m \in {x} : Accept(m.hdr, m.body)  BY <1>3, <1>6, <3>1
    <3>3. x.hdr = h /\ x.body = body  BY <2>0
    <3> QED  BY <1>1, <1>6, <3>2, <3>3
  <2>2. Said(w) = {} => End("protocol")  BY <2>1 DEF Accept, Take
  <2> QED  BY <1>1, <1>6, <2>1, <2>2
<1> QED  BY <1>4, <1>5, <1>6

(* A step that touches neither the messages nor the reader.                *)
LEMMA MessageKept ==
    ASSUME Shape, Shape', Discipline, MessageInv, opt' = opt, work' = work, handed' = handed,
           sent' = sent, reader' = reader, wire' = wire, down' = down
    PROVE  MessageInv'
<1> SUFFICES ASSUME opt.carrier = "ws"
             PROVE  \E k : HeardUpTo(k)' /\ (reader' = "header" => UnderWay(k)')
  BY DEF MessageInv
<1>1. PICK k : HeardUpTo(k) /\ (reader = "header" => UnderWay(k))  BY DEF MessageInv
<1>2. Len(sent') \in Nat /\ Len(sent) <= Len(sent') /\ \A i \in 1 .. Len(sent) : sent'[i] = sent[i]
  BY DEF Discipline
<1>3. Frames' = Frames  BY <1>2, FramesStay
<1> QED  BY <1>1, <1>2, <1>3, HeardKept DEF UnderWay

(* A read loop that ends.                                                  *)
LEMMA MessageOver ==
    ASSUME Shape, Shape', Discipline, MessageInv, opt' = opt, work' = work, handed' = handed,
           sent' = sent, reader' # "header"
    PROVE  MessageInv'
<1> SUFFICES ASSUME opt.carrier = "ws" PROVE \E k : HeardUpTo(k)'  BY DEF MessageInv
<1>1. PICK k : HeardUpTo(k)  BY DEF MessageInv
<1>2. Len(sent') \in Nat /\ Len(sent) <= Len(sent') /\ \A i \in 1 .. Len(sent) : sent'[i] = sent[i]
  BY DEF Discipline
<1> QED  BY <1>1, <1>2, HeardKept

(* A message is written behind those under way.                            *)
LEMMA MessageSent ==
    ASSUME Shape, Shape', Discipline, MessageInv, opt' = opt, work' = work,
           NEW w \in Writers, Prepared(w), WriteFrame(w)
    PROVE  MessageInv'
<1> SUFFICES ASSUME opt.carrier = "ws"
             PROVE  \E k : HeardUpTo(k)' /\ (reader' = "header" => UnderWay(k)')
  BY DEF MessageInv
<1>1. PICK k : HeardUpTo(k) /\ (reader = "header" => UnderWay(k))  BY DEF MessageInv
<1>2. PICK b : b = BytesOf(w)  OBVIOUS
<1>3. /\ ~down /\ down' = down /\ reader' = reader /\ handed' = handed
      /\ wire' = Append(wire, b) /\ sent' = Append(sent, w)
  BY <1>2 DEF WriteFrame, OnWire, Wrapped, IsStream, Streams, readVars
<1>4. /\ sent \in Seq(Writers) /\ Len(sent) \in Nat /\ Len(sent') = Len(sent) + 1
      /\ \A i \in 1 .. Len(sent) : sent'[i] = sent[i]
      /\ sent'[Len(sent) + 1] = w
  BY <1>3 DEF Discipline
<1>5. Len(sent') \in Nat /\ Len(sent) <= Len(sent')  BY <1>4
<1>6. HeardUpTo(k)'  BY <1>1, <1>3, <1>4, <1>5, HeardKept
<1>7. /\ \A i \in 1 .. Len(sent) : Frames'[i] = Frames[i]
      /\ Frames' = [i \in 1 .. Len(sent') |-> BytesOf(sent'[i])]
  BY <1>4, <1>5, FramesStay
<1>8. Frames'[Len(sent) + 1] = b
  <2>1. Len(sent) + 1 \in 1 .. Len(sent')  BY <1>4
  <2> QED  BY <1>2, <1>4, <1>7, <2>1
<1>9. wire \in Seq(Strings) /\ Len(wire) \in Nat /\ b \in Strings
  <2>1. wire \in Seq(Strings)  BY DEF Shape, IsStream, Streams
  <2>2. b \in Strings  BY <1>2, PartsAre
  <2> HIDE DEF Strings
  <2> QED  BY <2>1, <2>2
<1>10. /\ Len(wire') = Len(wire) + 1 /\ wire'[Len(wire) + 1] = b
       /\ \A i \in 1 .. Len(wire) : wire'[i] = wire[i]
  <2> HIDE DEF Strings
  <2> QED  BY <1>3, <1>9
<1>11. ASSUME reader' = "header" PROVE UnderWay(k)'
  <2>1. /\ Len(wire) = Len(sent) - k /\ \A i \in 1 .. Len(wire) : wire[i] = Frames[k + i]
        /\ k \in 0 .. Len(sent)
    BY <1>1, <1>3, <1>11 DEF UnderWay, HeardUpTo
  <2>2. Len(wire') = Len(sent') - k  BY <1>4, <1>9, <1>10, <2>1
  <2>3. ASSUME NEW i \in 1 .. Len(wire') PROVE wire'[i] = Frames'[k + i]
    <3>1. CASE i = Len(wire) + 1
      <4>1. k + i = Len(sent) + 1  BY <1>4, <1>9, <2>1, <3>1
      <4> QED  BY <1>8, <1>10, <3>1, <4>1
    <3>2. CASE i # Len(wire) + 1
      <4>1. i \in 1 .. Len(wire)  BY <1>9, <1>10, <3>2
      <4>2. k + i \in 1 .. Len(sent)  BY <1>4, <1>9, <2>1, <4>1
      <4> QED  BY <1>7, <1>10, <2>1, <4>1, <4>2
    <3> QED  BY <3>1, <3>2
  <2>4. Len(wire') <= Len(sent') - k  BY <1>4, <2>1, <2>2
  <2> QED  BY <2>2, <2>3, <2>4 DEF UnderWay
<1> QED  BY <1>6, <1>11

(* The network loses the last of the messages under way.                   *)
LEMMA MessageCut ==
    ASSUME Shape, Shape', Discipline, MessageInv, opt' = opt, work' = work, Cut
    PROVE  MessageInv'
<1> SUFFICES ASSUME opt.carrier = "ws"
             PROVE  \E k : HeardUpTo(k)' /\ (reader' = "header" => UnderWay(k)')
  BY DEF MessageInv
<1>1. PICK k : HeardUpTo(k) /\ (reader = "header" => UnderWay(k))  BY DEF MessageInv
<1>2. PICK p \in 0 .. Len(wire) : wire' = SubSeq(wire, 1, p)  BY DEF Cut
<1>3. down' /\ reader' = reader /\ handed' = handed /\ sent' = sent  BY DEF Cut, readVars
<1>4. Len(sent') \in Nat /\ Len(sent) <= Len(sent') /\ \A i \in 1 .. Len(sent) : sent'[i] = sent[i]
  BY <1>3 DEF Discipline
<1>5. Frames' = Frames /\ HeardUpTo(k)'  BY <1>1, <1>3, <1>4, FramesStay, HeardKept
<1>6. wire \in Seq(Strings)  BY DEF Shape, IsStream, Streams
<1>7. Len(wire') = p /\ Len(wire) \in Nat /\ \A i \in 1 .. p : wire'[i] = wire[i]
  <2> HIDE DEF Strings
  <2> QED  BY <1>2, <1>6
<1>8. ASSUME reader' = "header" PROVE UnderWay(k)'
  <2>1. /\ Len(wire) <= Len(sent) - k /\ \A i \in 1 .. Len(wire) : wire[i] = Frames[k + i]
        /\ k \in 0 .. Len(sent) /\ Len(sent) \in Nat
    BY <1>1, <1>3, <1>4, <1>8 DEF UnderWay, HeardUpTo
  <2>2. \A i \in 1 .. p : i \in 1 .. Len(wire)  BY <1>7
  <2>3. p <= Len(sent) - k  BY <1>7, <2>1
  <2> QED  BY <1>3, <1>5, <1>7, <2>1, <2>2, <2>3 DEF UnderWay
<1> QED  BY <1>5, <1>8

(* The reader takes the first message: it says what its frame says, and if *)
(* the reader ends for it the frame was bad.                               *)
LEMMA MessageTaken ==
    ASSUME Shape, Shape', Discipline, MessageInv, opt' = opt, work' = work, ReadMessage
    PROVE  MessageInv' /\ (reader' = "protocol" => \E i \in 1 .. Len(sent) : Bad(sent[i]))
<1>0. opt.carrier = "ws" /\ reader = "header" /\ wire # << >> /\ wire' = Tail(wire) /\ sent' = sent
  BY DEF ReadMessage, ReadOnly
<1>1. PICK k : HeardUpTo(k) /\ UnderWay(k)  BY <1>0 DEF MessageInv
<1>2. wire \in Seq(Strings)  BY <1>0 DEF Shape, IsStream, Streams
<1>3. /\ Len(wire) \in Nat /\ Len(wire) >= 1 /\ Len(wire') = Len(wire) - 1
      /\ \A i \in 1 .. Len(wire) - 1 : wire'[i] = wire[i + 1]
  <2> HIDE DEF Strings
  <2> QED  BY <1>0, <1>2
<1>4. /\ Len(wire) <= Len(sent) - k /\ \A i \in 1 .. Len(wire) : wire[i] = Frames[k + i]
      /\ ~down => Len(wire) = Len(sent) - k
      /\ k \in 0 .. Len(sent) /\ Len(sent) \in Nat
  BY <1>1 DEF UnderWay, HeardUpTo, Discipline
<1>5. k < Len(sent) /\ k + 1 \in 1 .. Len(sent) /\ 1 \in 1 .. Len(wire)  BY <1>3, <1>4
<1>6. PICK w \in Writers : w = sent[k + 1] /\ Prepared(w)  BY <1>5, FramesAre
<1>7. wire[1] = BytesOf(w)
  <2>1. wire[1] = Frames[k + 1]  BY <1>4, <1>5
  <2> QED  BY <1>5, <1>6, <2>1, FramesAre
<1>8. CASE Bad(w) /\ End("protocol")
  <2>1. handed' = handed /\ reader' # "header"  BY <1>8 DEF End
  <2>2. MessageInv'  BY <1>0, <2>1, MessageOver
  <2> QED  BY <1>5, <1>6, <1>8, <2>2
<1>9. CASE ~Bad(w) /\ \E h, b : Accept(h, b) /\ Meaning(h, b) = Said(w)
  <2>1. PICK h, b : Accept(h, b) /\ Meaning(h, b) = Said(w)  BY <1>9
  <2>2. HeardUpTo(k + 1)' /\ reader' = "header" /\ down' = down
    BY <1>0, <1>1, <1>5, <1>6, <1>9, <2>1, HeardNext
  <2>3. Len(sent') \in Nat /\ Len(sent) <= Len(sent') /\ \A i \in 1 .. Len(sent) : sent'[i] = sent[i]
    BY <1>0, <1>4
  <2>4. Frames' = Frames  BY <1>0, <2>3, FramesStay
  <2>5. PICK n : n = Len(sent)  OBVIOUS
  <2>6. Len(wire') <= n - (k + 1) /\ (~down => Len(wire') = n - (k + 1))
    <3>1. k \in Nat /\ n \in Nat /\ Len(wire) <= n - k /\ (~down => Len(wire) = n - k)
      BY <1>4, <2>5
    <3>2. CASE down  BY <1>3, <3>1, <3>2
    <3>3. CASE ~down  BY <1>3, <3>1, <3>3
    <3> QED  BY <3>2, <3>3
  <2>7. ASSUME NEW i \in 1 .. Len(wire') PROVE wire'[i] = Frames'[k + 1 + i]
    <3>1. i \in 1 .. Len(wire) - 1 /\ i + 1 \in 1 .. Len(wire) /\ k + (i + 1) = k + 1 + i
      BY <1>3, <1>4
    <3> QED  BY <1>3, <1>4, <2>4, <3>1
  <2>8. UnderWay(k + 1)'  BY <1>0, <2>2, <2>5, <2>6, <2>7 DEF UnderWay
  <2> QED  BY <2>2, <2>8 DEF MessageInv
<1>10. (Bad(w) /\ End("protocol")) \/ (~Bad(w) /\ \E h, b : Accept(h, b) /\ Meaning(h, b) = Said(w))
  BY <1>6, <1>7, MessageRead
<1> QED  BY <1>8, <1>9, <1>10

LEMMA MessageStart == ASSUME Init PROVE MessageInv
<1>1. wire = << >> /\ handed = << >> /\ sent = << >>  BY DEF Init
<1>2. HeardUpTo(0)
  <2>1. Embeds(Got, Sayings, 0, 0)  BY EmbedsNone
  <2> QED  BY <1>1, <2>1 DEF HeardUpTo
<1>3. UnderWay(0)  BY <1>1 DEF UnderWay
<1> QED  BY <1>2, <1>3 DEF MessageInv

(* MessageInv is inductive, given Shape and Discipline.                    *)
LEMMA MessageStep ==
    ASSUME Shape, Discipline, MessageInv, [Next]_vars
    PROVE  MessageInv'
<1>1. opt' = opt /\ work' = work /\ Shape'  BY Fixed, ShapeStep
<1>2. CASE opt.carrier # "ws"  BY <1>1, <1>2 DEF MessageInv
<1>3. CASE opt.carrier = "ws"
  <2>1. ~IsStream /\ ~IsDatagram /\ lock = {} /\ reader # "body"
    BY <1>3 DEF IsStream, IsDatagram, Streams, Datagrams, Discipline, Shape
  <2>2. ASSUME NEW w \in Writers, WriteFrame(w) PROVE MessageInv'
    <3>1. Prepared(w)
      <4>1. CASE opt.dir = "up"  BY <2>2, <4>1 DEF WriteFrame, WriterAt, Discipline
      <4>2. CASE opt.dir # "up"  BY <4>2 DEF Prepared
      <4> QED  BY <4>1, <4>2
    <3> QED  BY <1>1, <2>2, <3>1, MessageSent
  <2>3. ASSUME handed' = handed, sent' = sent, reader' = reader, wire' = wire, down' = down
        PROVE MessageInv'
    BY <1>1, <2>3, MessageKept
  <2>4. ASSUME NEW w \in Writers, Build(w) PROVE MessageInv'
    BY <2>3, <2>4 DEF Build, readVars
  <2>5. CASE WritesFail  BY <2>3, <2>5 DEF WritesFail, readVars
  <2>6. CASE UNCHANGED vars  BY <2>3, <2>6 DEF vars, readVars
  <2>7. CASE Cut  BY <1>1, <2>7, MessageCut
  <2>8. CASE ReadMessage  BY <1>1, <2>8, MessageTaken
  <2>9. CASE ReadEOF  BY <1>1, <2>9, MessageOver DEF ReadEOF, End, ReadOnly
  <2>10. /\ \A w \in Writers : ~WriteHeader(w) /\ ~WriteTimeout(w) /\ ~WriteBody(w)
         /\ ~Mishap /\ ~ReadHeader /\ ~ReadBody /\ \A i : ~ReadDatagram(i)
    <3>1. \A w \in Writers : ~WriteBody(w)  BY <2>1 DEF WriteBody, WriterAt, Discipline
    <3> QED  BY <1>3, <2>1, <3>1 DEF WriteHeader, WriteTimeout, Mishap, ReadHeader, ReadBody, ReadDatagram
  <2> QED  BY <2>2, <2>4, <2>5, <2>6, <2>7, <2>8, <2>9, <2>10 DEF Next, Done
<1> QED  BY <1>2, <1>3

-----------------------------------------------------------------------------
(* Datagrams: what is under way was sent, here or over another flow.       *)

Mine(x)    == \E j \in 1 .. Len(sent) : x = Wrapped(BytesOf(sent[j]))
Foreign(x) == /\ opt.carrier = "edge"
              /\ \E w \in Writers : Prepared(w) /\ x = OtherPrefix \o BytesOf(w)

GotFrom(i) == \E j \in 1 .. Len(sent) : ~Bad(sent[j]) /\ Got[i] = Said(sent[j])

Came(j) ==
    \/ \E i \in 1 .. Len(wire) : wire[i] = Wrapped(BytesOf(sent[j]))
    \/ Bad(sent[j]) \/ Said(sent[j]) = {Nothing}
    \/ \E i \in 1 .. Len(handed) : Got[i] = Said(sent[j])

DatagramInv ==
    IsDatagram => /\ \A i \in 1 .. Len(wire) : Mine(wire[i]) \/ Foreign(wire[i])
                  /\ \A i \in 1 .. Len(handed) : GotFrom(i)
                  /\ ~down /\ mishaps = 0 => \A j \in 1 .. Len(sent) : Came(j)

(* The first m bytes of a prefix and a frame.                              *)
LEMMA CutOfJoined ==
    ASSUME NEW P \in Strings, NEW b \in Strings, NEW m \in 0 .. Len(P \o b), m >= Len(P)
    PROVE  /\ SubSeq(SubSeq(P \o b, 1, m), 1, Len(P)) = P
           /\ Rest(SubSeq(P \o b, 1, m), Len(P)) = SubSeq(b, 1, m - Len(P))
           /\ m - Len(P) \in 0 .. Len(b)
           /\ Len(P \o b) = Len(P) + Len(b)
<1> DEFINE z == P \o b
           r == SubSeq(z, 1, m)
           p == Len(P)
           x == SubSeq(r, 1, p)
           y == Rest(r, p)
           c == SubSeq(b, 1, m - p)
<1>1. /\ z \in Strings /\ Len(z) = p + Len(b) /\ p \in Nat /\ Len(b) \in Nat
      /\ \A i \in 1 .. p : z[i] = P[i]
      /\ \A i \in 1 .. Len(b) : z[p + i] = b[i]
  BY CatIs, StringLen
<1> HIDE DEF z, p
<1>2. m \in Nat /\ m <= Len(z) /\ m >= p /\ m \in 0 .. Len(z) /\ m - p \in 0 .. Len(b)
  <2>1. m \in 0 .. Len(z) /\ m >= p  BY DEF z, p
  <2> QED  BY <1>1, <2>1
<1>3. r \in Strings /\ Len(r) = m /\ \A i \in 1 .. m : r[i] = z[i]  BY <1>1, <1>2, StartIs
<1>4. c \in Strings /\ Len(c) = m - p /\ \A i \in 1 .. m - p : c[i] = b[i]  BY <1>2, StartIs
<1> HIDE DEF r, c
<1>5. p \in 0 .. Len(r)  BY <1>1, <1>2, <1>3
<1>6. x \in Strings /\ Len(x) = p /\ \A i \in 1 .. p : x[i] = r[i]  BY <1>3, <1>5, StartIs
<1>7. y \in Strings /\ Len(y) = m - p /\ \A i \in 1 .. m - p : y[i] = r[p + i]
  BY <1>3, <1>5, RestIs
<1> HIDE DEF x, y
<1>8. x = P
  <2>1. \A i \in 1 .. p : i \in 1 .. m  BY <1>1, <1>2
  <2>2. Len(x) = Len(P) /\ \A i \in 1 .. Len(x) : x[i] = P[i]
    BY <1>1, <1>3, <1>6, <2>1 DEF p
  <2> QED  BY <1>6, <2>2, Equal DEF Strings
<1>9. y = c
  <2>1. \A i \in 1 .. m - p : p + i \in 1 .. m /\ i \in 1 .. Len(b)  BY <1>1, <1>2
  <2>2. \A i \in 1 .. Len(y) : y[i] = c[i]  BY <1>1, <1>3, <1>4, <1>7, <2>1
  <2> QED  BY <1>4, <1>7, <2>2, Equal DEF Strings
<1> QED  BY <1>1, <1>2, <1>8, <1>9 DEF x, y, r, z, p, c

(* A datagram of this flow, cut to the size of the buffer.                 *)
LEMMA StrippedOwn ==
    ASSUME Shape, IsDatagram, NEW w \in Writers, Prepared(w)
    PROVE  \E m \in 0 .. Len(BytesOf(w)) :
              LET d == Stripped(Received(Wrapped(BytesOf(w))))
              IN  /\ d = {} \/ d = {SubSeq(BytesOf(w), 1, m)}
                  /\ Fitting(w) => d = {BytesOf(w)}
                  /\ ~Fitting(w) => m # Len(BytesOf(w))
<1> DEFINE b == BytesOf(w)
           z == Wrapped(b)
           n == MinLen(z)
           r == Received(z)
           d == Stripped(r)
<1>0. Len(b) >= HeaderSize  BY FrameOf DEF Shape
<1>1. b \in Strings  BY PartsAre
<1>2. z \in Strings
  <2> HIDE DEF b
  <2> QED  BY <1>1, WireAssumption, Joins DEF Wrapped
<1>3. Fitting(w) <=> Len(z) <= DatagramMax  BY DEF Fitting
<1> HIDE DEF b, z
<1>4. /\ n \in 0 .. Len(z) /\ r = SubSeq(z, 1, n) /\ Len(r) = n
      /\ Len(z) <= DatagramMax => r = z
      /\ ~(Len(z) <= DatagramMax) => n # Len(z)
  BY <1>2, ReceivedIs DEF Received
<1> HIDE DEF n, r
<1>5. CASE opt.carrier = "udp"
  <2>1. z = b /\ d = {r}  BY <1>5 DEF z, Wrapped, Stripped
  <2>2. n \in 0 .. Len(b) /\ d = {SubSeq(b, 1, n)}  BY <1>4, <2>1
  <2>3. Fitting(w) => d = {b}  BY <1>3, <1>4, <2>1
  <2>4. ~Fitting(w) => n # Len(b)  BY <1>3, <1>4, <2>1
  <2> HIDE DEF d
  <2> QED  BY <2>2, <2>3, <2>4 DEF d, r, z, b
<1>6. CASE opt.carrier # "udp"
  <2>1. z = FlowPrefix \o b  BY <1>6 DEF z, Wrapped, IsDatagram, Datagrams
  <2>2. d = {Rest(x, Len(FlowPrefix)) : x \in {y \in {r} : OfFlow(y)}}  BY <1>6 DEF Stripped
  <2>3. FlowPrefix \in Strings /\ Len(FlowPrefix) \in Nat /\ Len(b) \in Nat
        /\ Len(z) = Len(FlowPrefix) + Len(b)
    BY <1>1, <2>1, WireAssumption, CatIs, StringLen
  <2>4. CASE n >= Len(FlowPrefix)
    <3> DEFINE m == n - Len(FlowPrefix)
    <3>1. /\ SubSeq(r, 1, Len(FlowPrefix)) = FlowPrefix
          /\ Rest(r, Len(FlowPrefix)) = SubSeq(b, 1, m) /\ m \in 0 .. Len(b)
      BY <1>1, <1>4, <2>1, <2>3, <2>4, CutOfJoined
    <3>2. OfFlow(r)  BY <1>4, <2>4, <3>1 DEF OfFlow
    <3>3. d = {SubSeq(b, 1, m)}  BY <2>2, <3>1, <3>2
    <3>4. Fitting(w) => d = {b}
      <4>1. Fitting(w) => n = Len(z)  BY <1>3, <1>4
      <4>2. Fitting(w) => m = Len(b)  BY <2>3, <4>1
      <4> QED  BY <1>1, <3>3, <4>2, WholeCut DEF Strings
    <3>5. ~Fitting(w) => m # Len(b)  BY <1>3, <1>4, <2>3
    <3> HIDE DEF d, m
    <3> QED  BY <3>1, <3>3, <3>4, <3>5 DEF d, r, z, b
  <2>5. CASE ~(n >= Len(FlowPrefix))
    <3>1. ~OfFlow(r)  BY <1>4, <2>5 DEF OfFlow
    <3>2. d = {}  BY <2>2, <3>1
    <3>3. ~Fitting(w)
      <4>1. ~(Len(z) <= DatagramMax)
        <5>1. Len(z) <= DatagramMax => n = Len(z)  BY <1>4
        <5> QED  BY <1>4, <2>3, <2>5, <5>1
      <4> QED  BY <1>3, <4>1
    <3>4. \E m \in 0 .. Len(b) : m # Len(b)
      <4>1. Len(b) # 0 /\ 0 \in 0 .. Len(b)  BY <1>0, <2>3 DEF HeaderSize
      <4> QED  BY <4>1
    <3> HIDE DEF d
    <3> QED  BY <3>2, <3>3, <3>4 DEF d, r, z, b
  <2> QED  BY <2>4, <2>5
<1> QED  BY <1>5, <1>6

(* What becomes of a datagram of this flow, and of one of another.         *)
Skipped == UNCHANGED <<down, reader, hdr, handed>>

(* A datagram of this flow, whole or truncated: either the frame that was  *)
(* sent is decoded, or nothing is and the frame was bad.                   *)
LEMMA OwnDatagram ==
    ASSUME Shape, NEW i, ReadDatagram(i), NEW w \in Writers, Prepared(w),
           wire[i] = Wrapped(BytesOf(w))
    PROVE  \/ Bad(w) /\ (Skipped \/ End("protocol"))
           \/ ~Bad(w) /\ \E h, b : Accept(h, b) /\ Meaning(h, b) = Said(w)
<1> DEFINE b == BytesOf(w)
           h == HeaderOf(b)
           body == Rest(b, HeaderSize)
           d == Stripped(Received(wire[i]))
           ms == UNION {DecodeMessage(x, opt.max) : x \in d}
<1>1. IsDatagram  BY DEF ReadDatagram
<1>2. /\ b \in Strings /\ Len(b) = HeaderSize + h.len
      /\ Readable(w) => Meaning(h, body) = Said(w)
      /\ Readable(w) /\ Said(w) # {} /\ Fitting(w) => ~Bad(w)
      /\ Said(w) = {} \/ ~Readable(w) \/ ~Fitting(w) => Bad(w)
  BY FrameOf DEF Shape
<1>3. DecodeMessage(b, opt.max) = IF Readable(w) THEN {[hdr |-> h, body |-> body]} ELSE {}
  BY Decoded DEF Shape
<1>4. PICK m \in 0 .. Len(b) : /\ d = {} \/ d = {SubSeq(b, 1, m)}
                               /\ Fitting(w) => d = {b}
                               /\ ~Fitting(w) => m # Len(b)
  BY <1>1, StrippedOwn
<1>5. IF ms # {} THEN \E x \in ms : Accept(x.hdr, x.body)
      ELSE Skipped \/ End("protocol")
  BY DEF ReadDatagram, Skipped
<1>6. ~Fitting(w) => DecodeMessage(SubSeq(b, 1, m), opt.max) = {}
  <2> HIDE DEF b, d, ms
  <2>1. ASSUME ~Fitting(w) PROVE DecodeMessage(SubSeq(b, 1, m), opt.max) = {}
    BY <1>2, <1>4, <2>1, Truncated
  <2> QED  BY <2>1
<1> HIDE DEF b, h, body, d
<1>7. CASE ~Fitting(w)
  <2>1. ms = {}  BY <1>4, <1>6, <1>7
  <2> HIDE DEF ms
  <2> QED  BY <1>2, <1>5, <1>7, <2>1
<1>8. CASE Fitting(w) /\ ~Readable(w)
  <2>1. ms = {}  BY <1>3, <1>4, <1>8
  <2> HIDE DEF ms
  <2> QED  BY <1>2, <1>5, <1>8, <2>1
<1>9. CASE Fitting(w) /\ Readable(w)
  <2>1. PICK x : x = [hdr |-> h, body |-> body]  OBVIOUS
  <2>2. DecodeMessage(b, opt.max) = {x} /\ d = {b}  BY <1>3, <1>4, <1>9, <2>1
  <2>3. ms = {x}  BY <2>2
  <2> HIDE DEF ms
  <2>4. \E y \in {x} : Accept(y.hdr, y.body)  BY <1>5, <2>3
  <2>5. x.hdr = h /\ x.body = body  BY <2>1
  <2>6. Accept(h, body) /\ Meaning(h, body) = Said(w)  BY <1>2, <1>9, <2>4, <2>5
  <2>7. Said(w) = {} => End("protocol")  BY <2>6 DEF Accept, Take
  <2> QED  BY <1>2, <1>9, <2>6, <2>7
<1> QED  BY <1>7, <1>8, <1>9

(* A datagram of another flow is skipped.                                  *)
LEMMA ForeignDatagram ==
    ASSUME Shape, NEW i, ReadDatagram(i), Foreign(wire[i])
    PROVE  Skipped
<1>1. PICK w \in Writers : Prepared(w) /\ wire[i] = OtherPrefix \o BytesOf(w)  BY DEF Foreign
<1> DEFINE b == BytesOf(w)
           z == OtherPrefix \o b
           n == MinLen(z)
           r == Received(z)
<1>2. b \in Strings  BY <1>1, PartsAre
<1>3. /\ OtherPrefix \in Strings /\ FlowPrefix \in Strings /\ FlowPrefix # OtherPrefix
      /\ Len(FlowPrefix) = Len(OtherPrefix) /\ Len(OtherPrefix) \in Nat
  BY WireAssumption, StringLen
<1>4. z \in Strings
  <2> HIDE DEF b
  <2> QED  BY <1>2, <1>3, Joins
<1>5. n \in 0 .. Len(z) /\ r = SubSeq(z, 1, n) /\ Len(r) = n
  <2> HIDE DEF z
  <2> QED  BY <1>4, ReceivedIs DEF Received
<1>6. ~OfFlow(r)
  <2> SUFFICES ASSUME OfFlow(r) PROVE FALSE  OBVIOUS
  <2>1. Len(r) >= Len(FlowPrefix) /\ SubSeq(r, 1, Len(FlowPrefix)) = FlowPrefix
    BY DEF OfFlow
  <2> HIDE DEF b, n, r
  <2>2. n >= Len(OtherPrefix)  BY <1>3, <1>5, <2>1
  <2>3. SubSeq(r, 1, Len(OtherPrefix)) = OtherPrefix
    <3>1. SubSeq(SubSeq(OtherPrefix \o b, 1, n), 1, Len(OtherPrefix)) = OtherPrefix
      BY <1>2, <1>3, <1>5, <2>2, CutOfJoined
    <3> QED  BY <1>5, <3>1
  <2> QED  BY <1>3, <2>1, <2>3
<1>7. wire[i] = z  BY <1>1
<1> HIDE DEF z, r
<1>8. opt.carrier # "udp"  BY DEF Foreign
<1>9. Stripped(r) = {}
  <2>1. {y \in {r} : OfFlow(y)} = {}  BY <1>6
  <2> QED  BY <1>8, <2>1 DEF Stripped
<1>10. UNION {DecodeMessage(x, opt.max) : x \in Stripped(r)} = {}  BY <1>9
<1>11. Received(wire[i]) = r  BY <1>7 DEF r
<1> QED  BY <1>9, <1>10, <1>11 DEF ReadDatagram, Skipped

(* A frame that is handed over says what it means, and what was handed     *)
(* over before it says what it did.                                        *)
LEMMA AcceptMore ==
    ASSUME Shape, Shape', opt' = opt, work' = work, NEW h, NEW b, Accept(h, b),
           NEW S, Meaning(h, b) = S, S # {}
    PROVE  /\ \A i \in 1 .. Len(handed) : Got'[i] = Got[i] /\ i \in 1 .. Len(handed')
           /\ \A i \in 1 .. Len(handed') : i \in 1 .. Len(handed) \/ Got'[i] = S
           /\ S # {Nothing} => \E i \in 1 .. Len(handed') : Got'[i] = S
<1>1. handed \in Seq(Handed) /\ Len(handed) \in Nat /\ Len(handed') \in Nat  BY DEF Shape
<1>2. PICK x : x = [hdr |-> h, body |-> b, own |-> TRUE]  OBVIOUS
<1>3. x.hdr = h /\ x.body = b  BY <1>2
<1>4. IF S = {Nothing} THEN handed' = handed ELSE handed' = Append(handed, x)
  BY <1>2, AcceptIs
<1>5. CASE S = {Nothing}
  <2>1. handed' = handed  BY <1>4, <1>5
  <2>2. Len(handed) <= Len(handed')  BY <1>1, <2>1
  <2>3. \A i \in 1 .. Len(handed) : handed'[i] = handed[i]  BY <2>1
  <2>4. \A i \in 1 .. Len(handed) : Got'[i] = Got[i]  BY <2>2, <2>3, GotStays
  <2> QED  BY <1>5, <2>1, <2>4
<1>6. CASE S # {Nothing}
  <2>1. /\ Len(handed') = Len(handed) + 1 /\ handed'[Len(handed) + 1] = x
        /\ \A i \in 1 .. Len(handed) : handed'[i] = handed[i]
    <3> HIDE DEF Handed
    <3> QED  BY <1>1, <1>4, <1>6
  <2>2. /\ \A i \in 1 .. Len(handed') : i \in 1 .. Len(handed) \/ i = Len(handed) + 1
        /\ \A i \in 1 .. Len(handed) : i \in 1 .. Len(handed')
        /\ Len(handed) + 1 \in 1 .. Len(handed') /\ Len(handed) <= Len(handed')
    BY <1>1, <2>1
  <2>3. Got'[Len(handed) + 1] = S
    <3>1. PICK n : n = Len(handed) + 1  OBVIOUS
    <3>2. n \in 1 .. Len(handed') /\ handed'[n] = x  BY <2>1, <2>2, <3>1
    <3>3. Got'[n] = Meaning(handed'[n].hdr, handed'[n].body)  BY <3>2, GotNext
    <3> QED  BY <1>3, <3>1, <3>2, <3>3
  <2>4. \A i \in 1 .. Len(handed) : Got'[i] = Got[i]  BY <2>1, <2>2, GotStays
  <2> QED  BY <2>2, <2>3, <2>4
<1> QED  BY <1>5, <1>6

(* What is known of a frame stays so.                                      *)
LEMMA Retold ==
    ASSUME opt' = opt, work' = work
    PROVE  /\ \A x : Foreign(x)' = Foreign(x)
           /\ \A j : sent'[j] = sent[j] =>
                 /\ Wrapped(BytesOf(sent[j]))' = Wrapped(BytesOf(sent[j]))
                 /\ Bad(sent[j])' = Bad(sent[j]) /\ Said(sent[j])' = Said(sent[j])
<1>1. /\ \A w : /\ BytesOf(w)' = BytesOf(w) /\ Said(w)' = Said(w)
                /\ Bad(w)' = Bad(w) /\ Prepared(w)' = Prepared(w)
      /\ \A b : Wrapped(b)' = Wrapped(b)
  BY Frozen
<1>2. \A x : Foreign(x)' = Foreign(x)  BY <1>1 DEF Foreign
<1> QED  BY <1>1, <1>2

(* Nothing is sent or handed over; what is under way may be less, or more  *)
(* of the same.                                                            *)
LEMMA DatagramKept ==
    ASSUME Shape, Shape', DatagramInv, Discipline, opt' = opt, work' = work, IsDatagram,
           sent' = sent, handed' = handed,
           \A i \in 1 .. Len(wire') : \/ \E j \in 1 .. Len(wire) : wire'[i] = wire[j]
                                      \/ Foreign(wire'[i]),
           ~down' /\ mishaps' = 0 => wire' = wire /\ ~down /\ mishaps = 0
    PROVE  DatagramInv'
<1>1. /\ \A x : Foreign(x)' = Foreign(x)
      /\ \A j : /\ Wrapped(BytesOf(sent[j]))' = Wrapped(BytesOf(sent[j]))
                /\ Bad(sent[j])' = Bad(sent[j]) /\ Said(sent[j])' = Said(sent[j])
  BY Retold
<1>2. \A i \in 1 .. Len(handed) : Got'[i] = Got[i]
  <2>1. Len(handed) \in Nat  BY DEF Shape
  <2>2. Len(handed) <= Len(handed')  BY <2>1
  <2>3. \A i \in 1 .. Len(handed) : handed'[i] = handed[i]  OBVIOUS
  <2> QED  BY <2>2, <2>3, GotStays
<1>3. \A x : Mine(x)' = Mine(x)
  <2>1. \A x : Mine(x)' <=> \E j \in 1 .. Len(sent) : x = Wrapped(BytesOf(sent[j]))'
    BY DEF Mine
  <2> QED  BY <1>1, <2>1 DEF Mine
<1>4. \A i \in 1 .. Len(wire') : Mine(wire[i])' \/ Foreign(wire[i])'
  <2> TAKE i \in 1 .. Len(wire')
  <2>1. PICK x : x = wire'[i]  OBVIOUS
  <2>2. Mine(x) \/ Foreign(x)  BY <2>1 DEF DatagramInv
  <2>3. Mine(x)' \/ Foreign(x)'  BY <1>1, <1>3, <2>2
  <2> QED  BY <2>1, <2>3 DEF Mine, Foreign
<1>5. \A i \in 1 .. Len(handed) : GotFrom(i)'
  <2>1. \A i \in 1 .. Len(handed) : GotFrom(i)  BY DEF DatagramInv
  <2> QED  BY <1>1, <1>2, <2>1 DEF GotFrom
<1>6. ~down' /\ mishaps' = 0 => \A j \in 1 .. Len(sent) : Came(j)'
  <2>1. ~down' /\ mishaps' = 0 => (\A j \in 1 .. Len(sent) : Came(j)) /\ wire' = wire
    BY DEF DatagramInv
  <2> QED  BY <1>1, <1>2, <2>1 DEF Came
<1> QED  BY <1>4, <1>5, <1>6 DEF DatagramInv

(* A datagram is written.                                                  *)
LEMMA DatagramSent ==
    ASSUME Shape, Shape', DatagramInv, Discipline, opt' = opt, work' = work, IsDatagram,
           NEW w \in Writers, Prepared(w), WriteFrame(w)
    PROVE  DatagramInv'
<1>1. PICK x : x = Wrapped(BytesOf(w))  OBVIOUS
<1>2. /\ ~down /\ down' = down /\ handed' = handed /\ mishaps' = mishaps
      /\ wire' = Append(wire, x) /\ sent' = Append(sent, w) /\ ~IsStream
  BY <1>1 DEF WriteFrame, OnWire, IsStream, Streams, IsDatagram, Datagrams, readVars
<1>0. PICK n : n = Len(sent)  OBVIOUS
<1>3. /\ sent \in Seq(Writers) /\ n \in Nat /\ Len(sent') = n + 1
      /\ \A j \in 1 .. n : sent'[j] = sent[j]
      /\ sent'[n + 1] = w
  BY <1>0, <1>2 DEF Discipline
<1>4. /\ \A y : Foreign(y)' = Foreign(y)
      /\ \A j \in 1 .. n :
            /\ Wrapped(BytesOf(sent[j]))' = Wrapped(BytesOf(sent[j]))
            /\ Bad(sent[j])' = Bad(sent[j]) /\ Said(sent[j])' = Said(sent[j])
  BY <1>3, Retold
<1>5. Wrapped(BytesOf(sent[n + 1]))' = x
  <2>1. BytesOf(w)' = BytesOf(w) /\ \A c : Wrapped(c)' = Wrapped(c)  BY Frozen
  <2> QED  BY <1>1, <1>3, <2>1
<1>6. \A i \in 1 .. Len(handed) : Got'[i] = Got[i]
  <2>1. Len(handed) \in Nat  BY DEF Shape
  <2>2. Len(handed) <= Len(handed')  BY <1>2, <2>1
  <2>3. \A i \in 1 .. Len(handed) : handed'[i] = handed[i]  BY <1>2
  <2> QED  BY <2>2, <2>3, GotStays
<1>7. wire \in Seq(Strings)  BY <1>2 DEF Shape
<1>8. PICK l : l = Len(wire)  OBVIOUS
<1>9. /\ l \in Nat /\ Len(wire') = l + 1 /\ wire'[l + 1] = x
      /\ \A i \in 1 .. l : wire'[i] = wire[i]
  <2>1. x \in Strings
    <3>1. BytesOf(w) \in Strings  BY PartsAre
    <3> QED  BY <1>1, <3>1, WireAssumption, Joins DEF Wrapped
  <2> HIDE DEF Strings
  <2> QED  BY <1>2, <1>7, <1>8, <2>1
<1>10. /\ \A j \in 1 .. n : j \in 1 .. n + 1
       /\ \A j \in 1 .. n + 1 : j \in 1 .. n \/ j = n + 1
       /\ n + 1 \in 1 .. n + 1
  BY <1>3
<1>11. /\ \A i \in 1 .. l : i \in 1 .. l + 1
       /\ \A i \in 1 .. l + 1 : i \in 1 .. l \/ i = l + 1
       /\ l + 1 \in 1 .. l + 1
  BY <1>9
<1>12. \A i \in 1 .. Len(wire') : Mine(wire[i])' \/ Foreign(wire[i])'
  <2> TAKE i \in 1 .. Len(wire')
  <2>1. PICK y : y = wire'[i]  OBVIOUS
  <2>2. CASE i = l + 1
    <3>1. y = Wrapped(BytesOf(sent[n + 1]))'  BY <1>5, <1>9, <2>1, <2>2
    <3>2. n + 1 \in 1 .. Len(sent')  BY <1>3, <1>10
    <3>3. Mine(y)'  BY <3>1, <3>2 DEF Mine
    <3> QED  BY <2>1, <3>3 DEF Mine
  <2>3. CASE i \in 1 .. l
    <3>1. Mine(y) \/ Foreign(y)  BY <1>8, <1>9, <2>1, <2>3 DEF DatagramInv
    <3>2. Foreign(y) => Foreign(y)'  BY <1>4
    <3>3. Mine(y) => Mine(y)'
      <4> SUFFICES ASSUME Mine(y) PROVE Mine(y)'  OBVIOUS
      <4>1. PICK j \in 1 .. n : y = Wrapped(BytesOf(sent[j]))  BY <1>0 DEF Mine
      <4>2. y = Wrapped(BytesOf(sent[j]))' /\ j \in 1 .. Len(sent')  BY <1>3, <1>4, <1>10, <4>1
      <4> QED  BY <4>2 DEF Mine
    <3>4. Mine(y)' \/ Foreign(y)'  BY <3>1, <3>2, <3>3
    <3> QED  BY <2>1, <3>4 DEF Mine, Foreign
  <2> QED  BY <1>9, <1>11, <2>2, <2>3
<1>13. \A i \in 1 .. Len(handed) : GotFrom(i)'
  <2> TAKE i \in 1 .. Len(handed)
  <2>1. PICK j \in 1 .. n : ~Bad(sent[j]) /\ Got[i] = Said(sent[j])
    BY <1>0 DEF DatagramInv, GotFrom
  <2>2. ~Bad(sent[j])' /\ Got'[i] = Said(sent[j])' /\ j \in 1 .. Len(sent')
    BY <1>3, <1>4, <1>6, <1>10, <2>1
  <2> QED  BY <2>2 DEF GotFrom
<1>14. ASSUME ~down', mishaps' = 0, NEW j \in 1 .. Len(sent') PROVE Came(j)'
  <2>1. CASE j = n + 1
    <3>1. wire'[l + 1] = Wrapped(BytesOf(sent[j]))' /\ l + 1 \in 1 .. Len(wire')
      BY <1>5, <1>9, <1>11, <2>1
    <3> QED  BY <3>1 DEF Came
  <2>2. CASE j \in 1 .. n
    <3>1. Came(j)  BY <1>0, <1>2, <1>14, <2>2 DEF DatagramInv
    <3>2. /\ Wrapped(BytesOf(sent[j]))' = Wrapped(BytesOf(sent[j]))
          /\ Bad(sent[j])' = Bad(sent[j]) /\ Said(sent[j])' = Said(sent[j])
      BY <1>4, <2>2
    <3>3. CASE \E i \in 1 .. l : wire[i] = Wrapped(BytesOf(sent[j]))
      <4>1. PICK i \in 1 .. l : wire[i] = Wrapped(BytesOf(sent[j]))  BY <3>3
      <4>2. wire'[i] = Wrapped(BytesOf(sent[j]))' /\ i \in 1 .. Len(wire')
        BY <1>9, <1>11, <3>2, <4>1
      <4> QED  BY <4>2 DEF Came
    <3>4. CASE Bad(sent[j]) \/ Said(sent[j]) = {Nothing}  BY <3>2, <3>4 DEF Came
    <3>5. CASE \E i \in 1 .. Len(handed) : Got[i] = Said(sent[j])
      <4>1. PICK i \in 1 .. Len(handed) : Got[i] = Said(sent[j])  BY <3>5
      <4>2. Got'[i] = Said(sent[j])' /\ i \in 1 .. Len(handed')  BY <1>2, <1>6, <3>2, <4>1
      <4> QED  BY <4>2 DEF Came
    <3> QED  BY <1>8, <3>1, <3>3, <3>4, <3>5 DEF Came
  <2> QED  BY <1>3, <1>10, <2>1, <2>2
<1> QED  BY <1>2, <1>12, <1>13, <1>14 DEF DatagramInv

(* The reader takes any of the datagrams under way.                        *)
LEMMA DatagramTaken ==
    ASSUME Shape, Shape', DatagramInv, Discipline, opt' = opt, work' = work,
           NEW i \in 1 .. Len(wire), ReadDatagram(i)
    PROVE  DatagramInv' /\ (reader' = "protocol" => \E j \in 1 .. Len(sent) : Bad(sent[j]))
<1>1. /\ IsDatagram /\ reader = "header" /\ wire' = RemoveAt(wire, i) /\ sent' = sent
      /\ mishaps' = mishaps
  BY DEF ReadDatagram, ReadOnly
<1>2. wire \in Seq(Strings) /\ Len(wire) \in Nat
  BY <1>1 DEF Shape, IsStream, Streams, IsDatagram, Datagrams
<1>3. /\ Len(wire') = Len(wire) - 1
      /\ \A p \in 1 .. Len(wire) - 1 : wire'[p] = IF p < i THEN wire[p] ELSE wire[p + 1]
  <2> HIDE DEF Strings
  <2>1. i \in DOMAIN wire  BY <1>2
  <2> QED  BY <1>1, <1>2, <2>1, RemovedIs
<1>4. \A p \in 1 .. Len(wire') : \E q \in 1 .. Len(wire) : wire'[p] = wire[q]
  <2> TAKE p \in 1 .. Len(wire')
  <2>1. p \in 1 .. Len(wire) - 1 /\ p \in 1 .. Len(wire) /\ p + 1 \in 1 .. Len(wire)
    BY <1>2, <1>3
  <2> QED  BY <1>3, <2>1
<1>5. \A q \in 1 .. Len(wire) : q # i => \E p \in 1 .. Len(wire') : wire'[p] = wire[q]
  <2> SUFFICES ASSUME NEW q \in 1 .. Len(wire), q # i
               PROVE  \E p \in 1 .. Len(wire') : wire'[p] = wire[q]
    OBVIOUS
  <2>1. CASE q < i
    <3>1. q \in 1 .. Len(wire) - 1  BY <1>2, <2>1
    <3> QED  BY <1>3, <2>1, <3>1
  <2>2. CASE q > i
    <3>1. q - 1 \in 1 .. Len(wire) - 1 /\ ~(q - 1 < i) /\ (q - 1) + 1 = q  BY <1>2, <2>2
    <3>2. wire'[q - 1] = wire[q]  BY <1>3, <3>1
    <3> QED  BY <1>3, <3>1, <3>2
  <2> QED  BY <2>1, <2>2
<1>6. /\ \A x : Foreign(x)' = Foreign(x)
      /\ \A j : /\ Wrapped(BytesOf(sent[j]))' = Wrapped(BytesOf(sent[j]))
                /\ Bad(sent[j])' = Bad(sent[j]) /\ Said(sent[j])' = Said(sent[j])
  BY <1>1, Retold
<1>7. \A x : Mine(x)' = Mine(x)
  <2>1. \A x : Mine(x)' <=> \E j \in 1 .. Len(sent) : x = Wrapped(BytesOf(sent[j]))'
    BY <1>1 DEF Mine
  <2> QED  BY <1>6, <2>1 DEF Mine
<1>8. \A p \in 1 .. Len(wire') : Mine(wire[p])' \/ Foreign(wire[p])'
  <2> TAKE p \in 1 .. Len(wire')
  <2>1. PICK x : x = wire'[p]  OBVIOUS
  <2>2. Mine(x) \/ Foreign(x)  BY <1>1, <1>4, <2>1 DEF DatagramInv
  <2>3. Mine(x)' \/ Foreign(x)'  BY <1>6, <1>7, <2>2
  <2> QED  BY <2>1, <2>3 DEF Mine, Foreign
<1>9. \A j \in 1 .. Len(sent) : sent[j] \in Writers /\ Prepared(sent[j])  BY DEF Discipline
<1>10. \A j \in 1 .. Len(sent) : wire[i] = Wrapped(BytesOf(sent[j])) =>
          \/ Bad(sent[j]) /\ (Skipped \/ End("protocol"))
          \/ ~Bad(sent[j]) /\ \E h, b : Accept(h, b) /\ Meaning(h, b) = Said(sent[j])
  BY <1>9, OwnDatagram
<1>11. handed' = handed => \A p \in 1 .. Len(handed) : Got'[p] = Got[p] /\ p \in 1 .. Len(handed')
  <2> SUFFICES ASSUME handed' = handed
               PROVE  \A p \in 1 .. Len(handed) : Got'[p] = Got[p]
    OBVIOUS
  <2>1. Len(handed) \in Nat  BY DEF Shape
  <2>2. Len(handed) <= Len(handed')  BY <2>1
  <2>3. \A p \in 1 .. Len(handed) : handed'[p] = handed[p]  OBVIOUS
  <2> QED  BY <2>2, <2>3, GotStays
<1>12. ASSUME NEW j \in 1 .. Len(sent), NEW h, NEW b, Accept(h, b), Meaning(h, b) = Said(sent[j]),
              ~Bad(sent[j])
       PROVE  /\ \A p \in 1 .. Len(handed) : Got'[p] = Got[p] /\ p \in 1 .. Len(handed')
              /\ \A p \in 1 .. Len(handed') : p \in 1 .. Len(handed) \/ Got'[p] = Said(sent[j])
              /\ Said(sent[j]) # {Nothing} =>
                    \E p \in 1 .. Len(handed') : Got'[p] = Said(sent[j])
              /\ reader' = "header"
  <2>1. Said(sent[j]) # {}  BY <1>12 DEF Bad
  <2>2. reader' = "header"  BY <1>12, <2>1, AcceptIs
  <2> QED  BY <1>12, <2>1, <2>2, AcceptMore
<1>13. \/ handed' = handed /\ reader' = "header"
       \/ handed' = handed /\ \E j \in 1 .. Len(sent) : Bad(sent[j])
       \/ \E j \in 1 .. Len(sent) : ~Bad(sent[j])
             /\ \E h, b : Accept(h, b) /\ Meaning(h, b) = Said(sent[j])
  <2>1. Mine(wire[i]) \/ Foreign(wire[i])  BY <1>1 DEF DatagramInv
  <2>2. CASE Foreign(wire[i])
    <3>1. Skipped  BY <2>2, ForeignDatagram
    <3> QED  BY <1>1, <3>1 DEF Skipped
  <2>3. CASE Mine(wire[i])
    <3>1. PICK j \in 1 .. Len(sent) : wire[i] = Wrapped(BytesOf(sent[j]))  BY <2>3 DEF Mine
    <3>2. Skipped \/ End("protocol") => handed' = handed  BY DEF Skipped, End
    <3> QED  BY <1>10, <3>1, <3>2
  <2> QED  BY <2>1, <2>2, <2>3
<1>14. \A p \in 1 .. Len(handed) : Got'[p] = Got[p] /\ p \in 1 .. Len(handed')
  BY <1>11, <1>12, <1>13
<1>15. \A p \in 1 .. Len(handed') :
          \/ p \in 1 .. Len(handed)
          \/ \E j \in 1 .. Len(sent) : ~Bad(sent[j]) /\ Got'[p] = Said(sent[j])
  BY <1>12, <1>13
<1>16. \A p \in 1 .. Len(handed') : GotFrom(p)'
  <2> TAKE p \in 1 .. Len(handed')
  <2>1. \E j \in 1 .. Len(sent) : ~Bad(sent[j]) /\ Got'[p] = Said(sent[j])
    <3>1. CASE p \in 1 .. Len(handed)
      BY <1>1, <1>14, <3>1 DEF DatagramInv, GotFrom
    <3> QED  BY <1>15, <3>1
  <2> QED  BY <1>1, <1>6, <2>1 DEF GotFrom
<1>17. ASSUME ~down', mishaps' = 0, NEW j \in 1 .. Len(sent) PROVE Came(j)'
  <2>1. ~down
    <3>1. down => down'
      <4>1. Skipped => down' = down  BY DEF Skipped
      <4>2. \A h, b : Accept(h, b) => down' \/ down' = down  BY DEF Accept, Take, End
      <4>3. End("protocol") => down'  BY DEF End
      <4>4. Skipped \/ End("protocol") \/ \E h, b : Accept(h, b)
        BY DEF ReadDatagram, Skipped
      <4> QED  BY <4>1, <4>2, <4>3, <4>4
    <3> QED  BY <1>17, <3>1
  <2>2. Came(j)  BY <1>1, <1>17, <2>1 DEF DatagramInv
  <2>3. CASE Bad(sent[j]) \/ Said(sent[j]) = {Nothing}  BY <1>6, <2>3 DEF Came
  <2>4. CASE \E p \in 1 .. Len(handed) : Got[p] = Said(sent[j])
    <3>1. PICK p \in 1 .. Len(handed) : Got[p] = Said(sent[j])  BY <2>4
    <3>2. Got'[p] = Said(sent[j])' /\ p \in 1 .. Len(handed')  BY <1>6, <1>14, <3>1
    <3> QED  BY <3>2 DEF Came
  <2>5. CASE \E q \in 1 .. Len(wire) : q # i /\ wire[q] = Wrapped(BytesOf(sent[j]))
    <3>1. PICK q \in 1 .. Len(wire) : q # i /\ wire[q] = Wrapped(BytesOf(sent[j]))  BY <2>5
    <3>2. PICK p \in 1 .. Len(wire') : wire'[p] = wire[q]  BY <1>5, <3>1
    <3>3. wire'[p] = Wrapped(BytesOf(sent[j]))'  BY <1>6, <3>1, <3>2
    <3> QED  BY <3>3 DEF Came
  <2>6. CASE wire[i] = Wrapped(BytesOf(sent[j])) /\ ~Bad(sent[j]) /\ Said(sent[j]) # {Nothing}
    <3>1. PICK h, b : Accept(h, b) /\ Meaning(h, b) = Said(sent[j])  BY <1>10, <2>6
    <3>2. PICK p \in 1 .. Len(handed') : Got'[p] = Said(sent[j])  BY <1>12, <2>6, <3>1
    <3>3. Got'[p] = Said(sent[j])'  BY <1>6, <3>2
    <3> QED  BY <3>3 DEF Came
  <2> QED  BY <2>2, <2>3, <2>4, <2>5, <2>6 DEF Came
<1>18. DatagramInv'  BY <1>1, <1>8, <1>16, <1>17 DEF DatagramInv
<1>19. reader' = "protocol" => \E j \in 1 .. Len(sent) : Bad(sent[j])  BY <1>12, <1>13
<1> QED  BY <1>18, <1>19

LEMMA DatagramStart == ASSUME Init PROVE DatagramInv
BY DEF Init, DatagramInv

(* DatagramInv is inductive, given Shape and Discipline.                   *)
LEMMA DatagramStep ==
    ASSUME Shape, Discipline, DatagramInv, [Next]_vars
    PROVE  DatagramInv'
<1>1. opt' = opt /\ work' = work /\ Shape'  BY Fixed, ShapeStep
<1>2. CASE ~IsDatagram
  <2>1. ~IsDatagram'  BY <1>1, <1>2, Frozen
  <2> QED  BY <2>1 DEF DatagramInv
<1>3. CASE IsDatagram
  <2>1. /\ ~IsStream /\ opt.carrier # "kcp" /\ opt.carrier # "ws" /\ lock = {} /\ reader # "body"
        /\ wire \in Seq(Strings) /\ Len(wire) \in Nat
    BY <1>3 DEF IsStream, IsDatagram, Streams, Datagrams, Discipline, Shape
  <2>2. ASSUME NEW w \in Writers, WriteFrame(w) PROVE DatagramInv'
    <3>1. Prepared(w)
      <4>1. CASE opt.dir = "up"  BY <2>2, <4>1 DEF WriteFrame, WriterAt, Discipline
      <4>2. CASE opt.dir # "up"  BY <4>2 DEF Prepared
      <4> QED  BY <4>1, <4>2
    <3> QED  BY <1>1, <1>3, <2>2, <3>1, DatagramSent
  <2>3. ASSUME handed' = handed, sent' = sent,
               \/ wire' = wire /\ down' = down /\ mishaps' = mishaps
               \/ wire' = wire /\ down'
        PROVE  DatagramInv'
    <3>1. \A i \in 1 .. Len(wire') : \E j \in 1 .. Len(wire) : wire'[i] = wire[j]  BY <2>3
    <3> QED  BY <1>1, <1>3, <2>3, <3>1, DatagramKept
  <2>4. ASSUME NEW w \in Writers, Build(w) PROVE DatagramInv'
    BY <2>3, <2>4 DEF Build, readVars
  <2>5. CASE WritesFail  BY <2>3, <2>5 DEF WritesFail, readVars
  <2>6. CASE UNCHANGED vars  BY <2>3, <2>6 DEF vars, readVars
  <2>7. CASE ReadEOF  BY <2>3, <2>7 DEF ReadEOF, End, ReadOnly
  <2>8. CASE Cut
    <3>1. PICK k \in 0 .. Len(wire) : wire' = SubSeq(wire, 1, k)  BY <2>8 DEF Cut
    <3>2. down' /\ handed' = handed /\ sent' = sent  BY <2>8 DEF Cut, readVars
    <3>3. Len(wire') = k /\ \A i \in 1 .. k : wire'[i] = wire[i] /\ i \in 1 .. Len(wire)
      <4> HIDE DEF Strings
      <4> QED  BY <2>1, <3>1
    <3> QED  BY <1>1, <1>3, <3>2, <3>3, DatagramKept
  <2>9. CASE Mishap
    <3>1. mishaps' # 0 /\ handed' = handed /\ sent' = sent
      <4>1. mishaps' = mishaps + 1 /\ mishaps \in 0 .. MaxMishaps  BY <2>9 DEF Mishap, Shape
      <4> QED  BY <2>9, <4>1 DEF Mishap, readVars
    <3>2. \A i \in 1 .. Len(wire') : \/ \E j \in 1 .. Len(wire) : wire'[i] = wire[j]
                                     \/ Foreign(wire'[i])
      <4> TAKE i \in 1 .. Len(wire')
      <4>1. CASE \E p \in DOMAIN wire : wire' = RemoveAt(wire, p)
        <5>1. PICK p \in DOMAIN wire : wire' = RemoveAt(wire, p)  BY <4>1
        <5>2. /\ Len(wire') = Len(wire) - 1
              /\ \A q \in 1 .. Len(wire) - 1 : wire'[q] = IF q < p THEN wire[q] ELSE wire[q + 1]
          <6> HIDE DEF Strings
          <6> QED  BY <2>1, <5>1, RemovedIs
        <5>3. i \in 1 .. Len(wire) - 1 /\ i \in 1 .. Len(wire) /\ i + 1 \in 1 .. Len(wire)
          BY <2>1, <5>2
        <5> QED  BY <5>2, <5>3
      <4>2. ASSUME NEW y \in Strings, wire' = Append(wire, y)
            PROVE  wire'[i] = y \/ \E j \in 1 .. Len(wire) : wire'[i] = wire[j]
        <5>1. /\ Len(wire') = Len(wire) + 1 /\ wire'[Len(wire) + 1] = y
              /\ \A q \in 1 .. Len(wire) : wire'[q] = wire[q]
          <6> HIDE DEF Strings
          <6> QED  BY <2>1, <4>2
        <5>2. i \in 1 .. Len(wire) \/ i = Len(wire) + 1  BY <2>1, <5>1
        <5> QED  BY <5>1, <5>2
      <4>3. CASE \E p \in DOMAIN wire : wire' = Append(wire, wire[p])
        <5>1. PICK p \in DOMAIN wire : wire' = Append(wire, wire[p])  BY <4>3
        <5>2. wire[p] \in Strings /\ p \in 1 .. Len(wire)
          <6> HIDE DEF Strings
          <6> QED  BY <2>1
        <5> QED  BY <4>2, <5>1, <5>2
      <4>4. CASE opt.carrier = "edge" /\ \E w \in Writers : opt.dir = "down"
                   /\ wire' = Append(wire, OtherPrefix \o BytesOf(w))
        <5>1. PICK w \in Writers : opt.dir = "down"
                     /\ wire' = Append(wire, OtherPrefix \o BytesOf(w))
          BY <4>4
        <5>2. PICK y : y = OtherPrefix \o BytesOf(w)  OBVIOUS
        <5>3. Prepared(w)  BY <5>1 DEF Prepared
        <5>4. y \in Strings
          <6>1. BytesOf(w) \in Strings  BY <5>3, PartsAre
          <6> QED  BY <5>2, <6>1, WireAssumption, Joins
        <5>5. Foreign(y)  BY <4>4, <5>2, <5>3 DEF Foreign
        <5> QED  BY <4>2, <5>1, <5>2, <5>4, <5>5
      <4> QED  BY <2>9, <4>1, <4>3, <4>4 DEF Mishap
    <3> QED  BY <1>1, <1>3, <3>1, <3>2, DatagramKept
  <2>10. ASSUME NEW i \in 1 .. Len(wire), ReadDatagram(i) PROVE DatagramInv'
    BY <1>1, <2>10, DatagramTaken
  <2>11. /\ \A w \in Writers : ~WriteHeader(w) /\ ~WriteTimeout(w) /\ ~WriteBody(w)
         /\ ~ReadMessage /\ ~ReadHeader /\ ~ReadBody
    <3>1. \A w \in Writers : ~WriteBody(w)  BY <2>1 DEF WriteBody, WriterAt, Discipline
    <3> QED  BY <2>1, <3>1 DEF WriteHeader, WriteTimeout, ReadMessage, ReadHeader, ReadBody
  <2> QED  BY <2>2, <2>4, <2>5, <2>6, <2>7, <2>8, <2>9, <2>10, <2>11 DEF Next, Done
<1> QED  BY <1>2, <1>3

-----------------------------------------------------------------------------
(* Why a read loop ends with a protocol error.                             *)

Reason == torn \/ \E i \in 1 .. Len(sent) : Bad(sent[i])
Cause  == reader = "protocol" => Reason

(* A reason for a protocol error stays one.                                *)
LEMMA ReasonStays ==
    ASSUME Shape, Discipline, Reason, [Next]_vars
    PROVE  Reason'
<1>1. opt' = opt /\ work' = work  BY Fixed
<1>2. torn => torn'
  <2>1. torn' = torn \/ \E x \in BOOLEAN : torn' = (torn \/ x)
    BY DEF Next, vars, Build, WriteFrame, WriteHeader, WriteBody, WriteTimeout, WritesFail, Cut,
           Mishap, ReadHeader, ReadBody, ReadEOF, ReadMessage, ReadDatagram, ReadOnly, Done
  <2> QED  BY <2>1
<1>3. sent' = sent \/ \E w \in Writers : sent' = Append(sent, w)
  BY DEF Next, vars, Build, WriteFrame, WriteHeader, WriteBody, WriteTimeout, WritesFail, Cut,
         Mishap, ReadHeader, ReadBody, ReadEOF, ReadMessage, ReadDatagram, ReadOnly, Done
<1>4. \A i \in 1 .. Len(sent) : sent'[i] = sent[i] /\ i \in 1 .. Len(sent')
  BY <1>3 DEF Discipline
<1>5. \A w : Bad(w)' = Bad(w)  BY <1>1, Frozen
<1>6. CASE torn  BY <1>2, <1>6 DEF Reason
<1>7. CASE \E i \in 1 .. Len(sent) : Bad(sent[i])
  <2>1. PICK i \in 1 .. Len(sent) : Bad(sent[i])  BY <1>7
  <2>2. Bad(sent[i])' /\ i \in 1 .. Len(sent')  BY <1>4, <1>5, <2>1
  <2> QED  BY <2>2 DEF Reason
<1> QED  BY <1>6, <1>7 DEF Reason

(* A reader that is behind a half-written frame has an excuse.             *)
LEMMA Excused ==
    ASSUME Discipline, NEW T, NEW f, NEW u, NEW k, NEW m, Written(T, f, u),
           Heard(T, f, u, k, m), ~(k < u \/ u = Len(sent))
    PROVE  torn
<1>1. u \in 0 .. Len(sent) /\ Len(sent) \in Nat /\ u # Len(sent) /\ HalfWritten(u + 1)
  BY DEF Written, Discipline
<1>2. u + 1 \in 1 .. Len(sent)  BY <1>1
<1> QED  BY <1>1, <1>2 DEF Discipline

(* A header that was read on a stream is the one of a frame that was sent, *)
(* unless a frame was torn.                                                *)
LEMMA HeaderRead ==
    ASSUME Shape, Discipline, StreamInv, ReadHeader
    PROVE  torn \/ \E i \in 1 .. Len(sent) : HeaderOf(wire) = HeaderOf(BytesOf(sent[i]))
<1>1. PICK T, f, u, k, m : Written(T, f, u) /\ Heard(T, f, u, k, m) /\ Follows(T, f, u, k, m)
  BY DEF ReadHeader, StreamInv
<1>2. CASE ~(k < u \/ u = Len(sent))  BY <1>1, <1>2, Excused
<1>3. CASE k < u \/ u = Len(sent)
  <2>1. reader = "header" /\ IsStream /\ Len(wire) >= HeaderSize  BY DEF ReadHeader
  <2>2. On(wire, T, Place(f, k))  BY <1>1, <1>3, <2>1 DEF Follows
  <2>3. /\ T \in Strings /\ u \in 0 .. Len(sent) /\ Laid(T, f, Frames, u) /\ k \in 0 .. u
        /\ wire \in Strings /\ Len(sent) \in Nat
    BY <1>1, <2>1 DEF Shape, Written, Heard, Discipline
  <2>4. Place(f, k) = f[k]
    <3>1. f[k] \in Nat  BY <2>3 DEF Laid
    <3> QED  BY <2>1, <3>1 DEF Place
  <2>5. k < u  BY <1>1, <1>3, <2>1, <2>2, <2>3, <2>4, HeaderThere
  <2>6. u \in Nat /\ k + 1 \in 1 .. Len(sent)  BY <2>3, <2>5
  <2>7. /\ Frames[k + 1] \in Strings /\ Len(Frames[k + 1]) >= HeaderSize
        /\ Frames[k + 1] = BytesOf(sent[k + 1])
    BY <2>6, FramesAre
  <2>8. HeaderOf(wire) = HeaderOf(Frames[k + 1])
    BY <2>1, <2>2, <2>3, <2>4, <2>5, <2>6, <2>7, ReadsHead
  <2> QED  BY <2>6, <2>7, <2>8
<1> QED  BY <1>2, <1>3

(* A body that was read on a stream says what the writer of a frame said,  *)
(* unless a frame was torn.                                                *)
LEMMA BodyRead ==
    ASSUME Shape, Discipline, StreamInv, ReadBody
    PROVE  torn \/ \E i \in 1 .. Len(sent) :
                      Meaning(hdr, SubSeq(wire, 1, hdr.len)) = Said(sent[i])
<1>0. reader = "body" /\ IsStream /\ Len(wire) >= hdr.len /\ CheckHeader(hdr, opt.max)
  BY DEF ReadBody, Shape
<1>1. PICK T, f, u, k, m : Written(T, f, u) /\ Heard(T, f, u, k, m) /\ Follows(T, f, u, k, m)
  BY <1>0 DEF StreamInv
<1>2. CASE ~(k < u \/ u = Len(sent))  BY <1>1, <1>2, Excused
<1>3. CASE k < u \/ u = Len(sent)
  <2>1. On(wire, T, Place(f, k)) /\ k < u /\ hdr = HeaderOf(Frames[k + 1])
    BY <1>0, <1>1, <1>3 DEF Follows
  <2>2. /\ T \in Strings /\ u \in 0 .. Len(sent) /\ Laid(T, f, Frames, u) /\ k \in 0 .. u
        /\ wire \in Strings /\ Len(sent) \in Nat
    BY <1>0, <1>1 DEF Shape, Written, Heard, Discipline
  <2>3. Place(f, k) = f[k] + HeaderSize  BY <1>0 DEF Place
  <2>4. u \in Nat /\ k + 1 \in 1 .. Len(sent)  BY <2>1, <2>2
  <2>5. PICK w \in Writers : w = sent[k + 1] /\ Prepared(w)  BY <2>4, FramesAre
  <2>6. Frames[k + 1] \in Strings /\ Frames[k + 1] = BytesOf(w)  BY <2>4, <2>5, FramesAre
  <2>7. /\ hdr.len \in Nat /\ Len(Frames[k + 1]) = HeaderSize + hdr.len
        /\ Readable(w) => Meaning(hdr, Rest(Frames[k + 1], HeaderSize)) = Said(w)
    BY <2>1, <2>5, <2>6, FrameOf DEF Shape
  <2>8. Readable(w)  BY <1>0, <2>1, <2>6 DEF Readable
  <2>9. PICK n : n = hdr.len  OBVIOUS
  <2>10. SubSeq(wire, 1, n) = Rest(Frames[k + 1], HeaderSize)
    <3>1. On(wire, T, f[k] + HeaderSize) /\ Len(wire) >= n /\ n \in Nat
          /\ Len(Frames[k + 1]) = HeaderSize + n
      BY <1>0, <2>1, <2>3, <2>7, <2>9
    <3> QED  BY <2>1, <2>2, <2>4, <2>6, <3>1, ReadsBody
  <2> QED  BY <2>4, <2>5, <2>7, <2>8, <2>9, <2>10
<1> QED  BY <1>2, <1>3

(* Cause is inductive, given all the other parts.                          *)
LEMMA CauseStep ==
    ASSUME Shape, Discipline, StreamInv, MessageInv, DatagramInv, Cause, [Next]_vars
    PROVE  Cause'
<1>1. opt' = opt /\ work' = work /\ Shape'  BY Fixed, ShapeStep
<1>2. Reason => Reason'  BY ReasonStays
<1>3. CASE reader' = reader  BY <1>2, <1>3 DEF Cause
<1>4. CASE ReadHeader
  <2> SUFFICES ASSUME reader' = "protocol" PROVE Reason  BY <1>2 DEF Cause
  <2>1. ~CheckHeader(HeaderOf(wire), opt.max)  BY <1>4 DEF ReadHeader
  <2>2. CASE torn  BY <2>2 DEF Reason
  <2>3. CASE \E i \in 1 .. Len(sent) : HeaderOf(wire) = HeaderOf(BytesOf(sent[i]))
    <3>1. PICK i \in 1 .. Len(sent) : HeaderOf(wire) = HeaderOf(BytesOf(sent[i]))  BY <2>3
    <3>2. sent[i] \in Writers /\ Prepared(sent[i]) /\ ~Readable(sent[i])
      BY <2>1, <3>1 DEF Discipline, Readable
    <3>3. Bad(sent[i])  BY <3>2, FrameOf DEF Shape
    <3> QED  BY <3>3 DEF Reason
  <2> QED  BY <1>4, <2>2, <2>3, HeaderRead
<1>5. CASE ReadBody
  <2> SUFFICES ASSUME reader' = "protocol" PROVE Reason  BY <1>2 DEF Cause
  <2>1. PICK S : S = Meaning(hdr, SubSeq(wire, 1, hdr.len))  OBVIOUS
  <2>2. S = {}  BY <1>5, <2>1 DEF ReadBody, Accept, Take
  <2>3. CASE torn  BY <2>3 DEF Reason
  <2>4. CASE \E i \in 1 .. Len(sent) : S = Said(sent[i])
    <3>1. PICK i \in 1 .. Len(sent) : Said(sent[i]) = {}  BY <2>2, <2>4
    <3> QED  BY <3>1 DEF Reason, Bad
  <2> QED  BY <1>5, <2>1, <2>3, <2>4, BodyRead
<1>6. CASE ReadEOF  BY <1>6 DEF ReadEOF, End, Cause
<1>7. CASE ReadMessage
  <2>1. reader' = "protocol" => Reason  BY <1>1, <1>7, MessageTaken DEF Reason
  <2> QED  BY <1>2, <2>1 DEF Cause
<1>8. ASSUME NEW i \in 1 .. Len(wire), ReadDatagram(i) PROVE Cause'
  <2>1. reader' = "protocol" => Reason  BY <1>1, <1>8, DatagramTaken DEF Reason
  <2> QED  BY <1>2, <2>1 DEF Cause
<1>9. \/ reader' = reader \/ ReadHeader \/ ReadBody \/ ReadEOF \/ ReadMessage
      \/ \E i \in 1 .. Len(wire) : ReadDatagram(i)
  BY DEF Next, vars, readVars, Build, WriteFrame, WriteHeader, WriteBody, WriteTimeout,
         WritesFail, Cut, Mishap, Done
<1> QED  BY <1>3, <1>4, <1>5, <1>6, <1>7, <1>8, <1>9

-----------------------------------------------------------------------------
(* The theorems.                                                           *)

Inv == Shape /\ Discipline /\ StreamInv /\ MessageInv /\ DatagramInv /\ Cause

(* What is on the wire, what the reader has of it and what was handed over *)
(* fit together in every state, whichever of tcp, kcp, ws, udp and edge    *)
(* carries the frames, for every number of writers and of frames.          *)
THEOREM WireInvariant == Spec => []Inv
<1>1. Init => Inv
  <2> SUFFICES ASSUME Init PROVE Inv  OBVIOUS
  <2>1. Cause  BY DEF Init, Cause
  <2> QED  BY <2>1, StartOK, StreamStart, MessageStart, DatagramStart DEF Inv
<1>2. Inv /\ [Next]_vars => Inv'
  BY ShapeStep, DisciplineStep, StreamStep, MessageStep, DatagramStep, CauseStep DEF Inv
<1> QED  BY <1>1, <1>2, PTL DEF Spec

(* The types follow from Shape and Discipline.                             *)
LEMMA TypesFit == ASSUME Shape, Discipline PROVE TypeOK
<1>1. opt \in Options  BY DEF Shape, Typed
<1>2. lock \subseteq Writers /\ Cardinality(lock) <= 1
  <2>1. CASE lock = {}  BY <2>1, FS_EmptySet
  <2>2. CASE lock # {}
    <3>1. PICK w : w \in lock  BY <2>2
    <3>2. \A x \in lock : x = w  BY <3>1 DEF Discipline
    <3>3. lock = {w}  BY <3>1, <3>2
    <3>4. Cardinality(lock) = 1  BY <3>3, FS_Singleton
    <3> QED  BY <3>4 DEF Discipline
  <2> QED  BY <2>1, <2>2
<1>3. reader = "body" <=> hdr # Nothing
  <2>1. hdr \in Heads => hdr # Nothing
    <3> SUFFICES ASSUME hdr \in Heads PROVE hdr # Nothing  OBVIOUS
    <3>1. PICK b \in Strings : Len(b) >= HeaderSize /\ hdr = HeaderOf(b)  BY DEF Heads
    <3> QED  BY <3>1, HeadIs
  <2> QED  BY <2>1 DEF Shape
<1>4. {down, torn} \subseteq BOOLEAN  BY DEF Shape
<1> QED  BY <1>1, <1>2, <1>3, <1>4 DEF Shape, Discipline, TypeOK

(* Whatever a connection is made with, its state is of the declared types; *)
(* in particular at most one writer is inside the write lock.              *)
THEOREM TypeCorrect == Spec => []TypeOK
<1>1. Inv => TypeOK  BY TypesFit DEF Inv
<1> QED  BY <1>1, WireInvariant, PTL

(* A witness of Embeds is one of SaidBy.                                   *)
LEMMA SaidByIs ==
    ASSUME Discipline, NEW n \in Nat, NEW k \in 0 .. Len(sent), Embeds(Got, Sayings, n, k)
    PROVE  SaidBy(n, k)
<1>1. PICK at : Matches(at, Got, Sayings, n, k)  BY DEF Embeds
<1>2. Len(sent) \in Nat  BY DEF Discipline
<1>3. \A i \in 1 .. k : i \in 1 .. Len(sent)  BY <1>2
<1>4. \A i \in 1 .. k : Sayings[i] = Said(sent[i])  BY <1>3 DEF Sayings
<1>5. /\ at \in [1 .. n -> 1 .. k] /\ \A i \in 1 .. n : at[i] \in 1 .. k
      /\ \A i, j \in 1 .. n : i < j => at[i] < at[j]
      /\ \A i \in 1 .. n : Said(sent[at[i]]) # {Nothing} /\ Got[i] = Said(sent[at[i]])
      /\ \A j \in 1 .. k : Said(sent[j]) # {Nothing} => \E i \in 1 .. n : at[i] = j
  BY <1>1, <1>4 DEF Matches
<1>6. {at[i] : i \in 1 .. n} = {i \in 1 .. k : Said(sent[i]) # {Nothing}}
  <2> DEFINE A == {at[i] : i \in 1 .. n}
             B == {i \in 1 .. k : Said(sent[i]) # {Nothing}}
  <2>0. \A i \in 1 .. n : at[i] \in 1 .. k /\ Said(sent[at[i]]) # {Nothing}  BY <1>5
  <2>1. ASSUME NEW j \in A PROVE j \in B
    <3>1. PICK i \in 1 .. n : j = at[i]  OBVIOUS
    <3>2. j \in 1 .. k /\ Said(sent[j]) # {Nothing}  BY <2>0, <3>1, Zenon
    <3> QED  BY <3>2
  <2>2. \A j \in B : j \in A  BY <1>5
  <2> HIDE DEF A, B
  <2>3. A = B  BY <2>1, <2>2
  <2> QED  BY <2>3 DEF A, B
<1> QED  BY <1>5, <1>6 DEF SaidBy

(* What a stream and a WebSocket have of InOrder.                          *)
LEMMA OrderFits == ASSUME Inv PROVE InOrder
<1> USE DEF Inv
<1>0. Len(handed) \in Nat /\ Len(sent) \in Nat  BY DEF Shape, Discipline
<1> SUFFICES ASSUME ~IsDatagram PROVE InOrder  BY DEF InOrder
<1>1. IsStream \/ opt.carrier = "ws"
  <2>1. opt.carrier \in {"tcp", "kcp", "udp", "edge", "ws"}  BY OptionsAre DEF Shape
  <2> QED  BY <2>1 DEF IsStream, IsDatagram, Streams, Datagrams
<1>2. CASE IsStream
  <2>1. PICK T, f, u, k, m :
          Written(T, f, u) /\ Heard(T, f, u, k, m) /\ Follows(T, f, u, k, m)
    BY <1>2 DEF StreamInv
  <2>2. /\ u \in 0 .. Len(sent) /\ k \in 0 .. u /\ m \in 0 .. Len(handed)
        /\ \A i \in 1 .. u : ~HalfWritten(i)
        /\ u # Len(sent) => HalfWritten(u + 1)
        /\ \A i \in 1 .. k : ~Bad(sent[i])
        /\ Embeds(Got, Sayings, m, k)
    BY <2>1 DEF Written, Heard
  <2>3. k \in 0 .. Len(sent) /\ m \in Nat /\ \A i \in 1 .. k : i \in 1 .. u  BY <1>0, <2>2
  <2>4. SaidBy(m, k)  BY <2>2, <2>3, SaidByIs
  <2>5. m < Len(handed) => k < Len(sent) /\ HalfWritten(k + 1)
    <3> SUFFICES ASSUME m < Len(handed) PROVE k < Len(sent) /\ HalfWritten(k + 1)  OBVIOUS
    <3>1. m # Len(handed)  BY <1>0, <2>3
    <3>2. ~(k < u \/ u = Len(sent))  BY <2>1, <3>1 DEF Follows
    <3>3. k = u /\ k < Len(sent)  BY <1>0, <2>2, <3>2
    <3> QED  BY <2>2, <3>2, <3>3
  <2> QED  BY <2>2, <2>3, <2>4, <2>5 DEF InOrder
<1>3. CASE opt.carrier = "ws"
  <2>1. PICK k : HeardUpTo(k)  BY <1>3 DEF MessageInv
  <2>2. PICK n : n = Len(handed)  OBVIOUS
  <2>3. k \in 0 .. Len(sent) /\ n \in 0 .. Len(handed) /\ n \in Nat /\ ~(n < Len(handed))
    BY <1>0, <2>1, <2>2 DEF HeardUpTo
  <2>4. SaidBy(n, k)  BY <2>1, <2>2, <2>3, SaidByIs DEF HeardUpTo
  <2>5. \A i \in 1 .. k : ~Bad(sent[i]) /\ ~HalfWritten(i)
    <3>1. \A i \in 1 .. k : i \in 1 .. Len(sent)  BY <1>0, <2>3
    <3>2. ~torn  BY <1>3 DEF Discipline
    <3> QED  BY <2>1, <3>1, <3>2 DEF HeardUpTo, Discipline
  <2> QED  BY <2>3, <2>4, <2>5 DEF InOrder
<1> QED  BY <1>1, <1>2, <1>3

(* Frames leave tcp, kcp and ws whole, unchanged and in the order in which *)
(* they were written, up to the first bad one or the first whose header    *)
(* went out without its body (frame.go:98, channel.go:25).                 *)
THEOREM FramesInOrder == Spec => []InOrder
<1>1. Inv => InOrder  BY OrderFits
<1> QED  BY <1>1, WireInvariant, PTL

(* Over udp and edge nobody is handed what was not said, however datagrams *)
(* are lost, repeated, cut or misdirected (transport_udp.go:61,            *)
(* direct/transport.go:246).                                               *)
THEOREM DatagramsSaid == Spec => []NothingMadeUp
<1>1. Inv => NothingMadeUp
  <2> SUFFICES ASSUME Inv, IsDatagram, NEW i \in DOMAIN Got
               PROVE  \E w \in ToSet(sent) : ~Bad(w) /\ Got[i] = Said(w)
    BY DEF NothingMadeUp
  <2>1. i \in 1 .. Len(handed)  BY DEF Got
  <2>2. PICK j \in 1 .. Len(sent) : ~Bad(sent[j]) /\ Got[i] = Said(sent[j])
    BY <2>1 DEF Inv, DatagramInv, GotFrom
  <2>3. sent[j] \in ToSet(sent)  BY <2>2 DEF ToSet, Inv, Discipline
  <2> QED  BY <2>2, <2>3
<1> QED  BY <1>1, WireInvariant, PTL

(* No read loop ends with a protocol error unless some frame was bad or    *)
(* half-written.                                                           *)
THEOREM EndsExplained == Spec => []EndsForAReason
<1>1. Inv => EndsForAReason
  <2> SUFFICES ASSUME Inv, reader = "protocol", ~torn
               PROVE  \E w \in ToSet(sent) : Bad(w)
    BY DEF EndsForAReason
  <2>1. PICK i \in 1 .. Len(sent) : Bad(sent[i])  BY DEF Inv, Cause, Reason
  <2>2. sent[i] \in ToSet(sent)  BY DEF ToSet, Inv, Discipline
  <2> QED  BY <2>1, <2>2
<1> QED  BY <1>1, WireInvariant, PTL

(* A stream that waits for more has read all there is.                     *)
LEMMA StreamRead ==
    ASSUME Inv, IsStream, ~down, lock = {}, Starved, NEW T, NEW f, NEW u, NEW k, NEW m,
           Written(T, f, u), Heard(T, f, u, k, m), Follows(T, f, u, k, m), u = Len(sent)
    PROVE  reader = "header" /\ wire = << >> /\ k = Len(sent)
<1> USE DEF Inv
<1>1. /\ T \in Strings /\ Laid(T, f, Frames, u) /\ f[u] = Len(T) /\ k \in 0 .. u
      /\ wire \in Strings /\ u \in Nat /\ Len(sent) \in Nat
  BY DEF Shape, Written, Heard, Discipline
<1>2. Len(T) \in Nat /\ Len(wire) \in Nat /\ k \in Nat /\ k <= u  BY <1>1, StringLen
<1>3. reader \in {"header", "body"}  BY DEF Shape
<1>4. /\ Place(f, k) + Len(wire) = Len(T)
      /\ reader = "body" => k < u /\ hdr = HeaderOf(Frames[k + 1])
  BY <1>3 DEF Follows
<1>5. Len(wire) < Needed  BY DEF Starved
<1>6. f[k] \in Nat /\ f[u] \in Nat
  <2>1. k \in 0 .. u /\ u \in 0 .. u  BY <1>1
  <2> QED  BY <1>1, <2>1 DEF Laid
<1>7. ASSUME k < u
      PROVE  /\ Len(Frames[k + 1]) \in Nat /\ Len(Frames[k + 1]) >= HeaderSize
             /\ f[k] + Len(Frames[k + 1]) <= Len(T)
             /\ HeaderOf(Frames[k + 1]).len \in Nat
             /\ Len(Frames[k + 1]) = HeaderSize + HeaderOf(Frames[k + 1]).len
  <2>1. k + 1 \in 1 .. u /\ k + 1 \in 0 .. u /\ u \in 0 .. u /\ k + 1 <= u /\ (k + 1) - 1 = k
    BY <1>1, <1>2, <1>7
  <2>2. f[k + 1] <= f[u] /\ f[k + 1] = f[k] + Len(Frames[k + 1])  BY <1>1, <2>1 DEF Laid
  <2>3. PICK w \in Writers : w = sent[k + 1] /\ Prepared(w)  BY <2>1, FramesAre
  <2>4. Frames[k + 1] = BytesOf(w) /\ Len(Frames[k + 1]) \in Nat
        /\ Len(Frames[k + 1]) >= HeaderSize
    BY <2>1, <2>3, FramesAre
  <2>5. /\ HeaderOf(BytesOf(w)).len \in Nat
        /\ Len(BytesOf(w)) = HeaderSize + HeaderOf(BytesOf(w)).len
    BY <2>3, FrameOf DEF Shape
  <2> QED  BY <1>1, <2>2, <2>4, <2>5
<1>8. reader = "header"
  <2> SUFFICES ASSUME reader = "body" PROVE FALSE  BY <1>3
  <2>1. PICK l : l = hdr.len  OBVIOUS
  <2>2. /\ l \in Nat /\ f[k] + (HeaderSize + l) <= Len(T)
        /\ f[k] + HeaderSize + Len(wire) = Len(T) /\ Len(wire) < l
    BY <1>4, <1>5, <1>7, <2>1 DEF Place, Needed
  <2> QED  BY <1>2, <1>6, <2>2 DEF HeaderSize
<1>9. f[k] + Len(wire) = Len(T) /\ Len(wire) < HeaderSize
  BY <1>4, <1>5, <1>6, <1>8 DEF Place, Needed
<1>10. k = u
  <2> SUFFICES ASSUME k < u PROVE FALSE  BY <1>1, <1>2
  <2>1. PICK l : l = Len(Frames[k + 1])  OBVIOUS
  <2>2. l \in Nat /\ l >= HeaderSize /\ f[k] + l <= Len(T)  BY <1>7, <2>1
  <2> QED  BY <1>2, <1>6, <1>9, <2>2 DEF HeaderSize
<1>11. Len(wire) = 0
  <2>1. f[u] = Len(T)  BY <1>1
  <2> QED  BY <1>2, <1>6, <1>9, <1>10, <2>1
<1>12. wire = << >>  BY <1>1, <1>11 DEF Strings
<1> QED  BY <1>8, <1>10, <1>12

(* What AllArrive asks of each of the three kinds of carriers.             *)
LEMMA AllFit == ASSUME Inv PROVE AllArrive
<1> USE DEF Inv
<1> SUFFICES ASSUME Stopped, ~down, ~torn, mishaps = 0, Starved
             PROVE  /\ reader = "header" /\ wire = << >>
                    /\ \A w \in ToSet(sent) : \/ Bad(w) \/ Said(w) = {Nothing}
                                              \/ Said(w) \in ToSet(Got)
  BY DEF AllArrive
<1>1. lock = {}
  <2>1. \A w \in lock : w \in Writers /\ writer[w] = "header"  BY DEF Discipline
  <2> QED  BY <2>1 DEF Stopped, Over
<1>2. /\ Len(sent) \in Nat /\ \A i \in 1 .. Len(sent) : ~HalfWritten(i)
      /\ \A w \in ToSet(sent) : \E j \in 1 .. Len(sent) : w = sent[j]
  BY DEF Discipline, ToSet
<1>3. \A i \in 1 .. Len(handed) : Got[i] \in ToSet(Got)
  <2>1. DOMAIN Got = 1 .. Len(handed)  BY DEF Got
  <2> QED  BY <2>1 DEF ToSet
<1>4. ASSUME NEW n \in Nat, NEW k, k = Len(sent), n = Len(handed), Embeds(Got, Sayings, n, k)
      PROVE  \A w \in ToSet(sent) : Bad(w) \/ Said(w) = {Nothing} \/ Said(w) \in ToSet(Got)
  <2> SUFFICES ASSUME NEW w \in ToSet(sent), Said(w) # {Nothing}
               PROVE  Said(w) \in ToSet(Got)
    OBVIOUS
  <2>1. PICK j \in 1 .. Len(sent) : w = sent[j]  BY <1>2
  <2>2. Sayings[j] = Said(w)  BY <2>1 DEF Sayings
  <2>3. k \in Nat /\ j \in 1 .. k  BY <1>2, <1>4, <2>1
  <2>4. PICK i \in 1 .. n : Got[i] = Sayings[j]  BY <1>4, <2>2, <2>3, EmbedsAll
  <2> QED  BY <1>3, <1>4, <2>2, <2>4
<1>5. CASE IsStream
  <2>1. PICK T, f, u, k, m :
          Written(T, f, u) /\ Heard(T, f, u, k, m) /\ Follows(T, f, u, k, m)
    BY <1>5 DEF StreamInv
  <2>2. u = Len(sent)
    <3> SUFFICES ASSUME u # Len(sent) PROVE FALSE  OBVIOUS
    <3>1. u \in 0 .. Len(sent) /\ HalfWritten(u + 1)  BY <2>1 DEF Written
    <3>2. u + 1 \in 1 .. Len(sent)  BY <1>2, <3>1
    <3> QED  BY <1>2, <3>1, <3>2
  <2>3. reader = "header" /\ wire = << >> /\ k = Len(sent)
    BY <1>1, <1>5, <2>1, <2>2, StreamRead
  <2>4. m = Len(handed) /\ Embeds(Got, Sayings, m, k) /\ Len(handed) \in Nat
    BY <2>1, <2>2 DEF Follows, Heard, Shape
  <2> QED  BY <1>4, <2>3, <2>4
<1>6. CASE opt.carrier = "ws"
  <2>1. reader = "header" /\ wire = << >>
    BY <1>6 DEF Starved, IsStream, Streams, Shape
  <2>2. PICK k : HeardUpTo(k) /\ UnderWay(k)  BY <1>6, <2>1 DEF MessageInv
  <2>3. k = Len(sent)
    <3>1. Len(wire) = 0 /\ Len(wire) = Len(sent) - k /\ k \in 0 .. Len(sent)
      BY <2>1, <2>2 DEF UnderWay, HeardUpTo
    <3> QED  BY <1>2, <3>1
  <2>4. PICK n : n = Len(handed)  OBVIOUS
  <2>5. n \in Nat /\ Embeds(Got, Sayings, n, k)  BY <2>2, <2>4 DEF HeardUpTo, Shape
  <2> QED  BY <1>4, <2>1, <2>3, <2>4, <2>5
<1>7. CASE IsDatagram
  <2>1. reader = "header" /\ wire = << >>
    BY <1>7 DEF Starved, IsStream, IsDatagram, Datagrams, Streams, Shape
  <2>2. \A j \in 1 .. Len(sent) : Came(j)  BY <1>7 DEF DatagramInv
  <2>3. ASSUME NEW w \in ToSet(sent) PROVE Bad(w) \/ Said(w) = {Nothing} \/ Said(w) \in ToSet(Got)
    <3>1. PICK j \in 1 .. Len(sent) : w = sent[j]  BY <1>2
    <3>2. ~ \E i \in 1 .. Len(wire) : wire[i] = Wrapped(BytesOf(sent[j]))  BY <2>1
    <3>3. Bad(w) \/ Said(w) = {Nothing} \/ \E i \in 1 .. Len(handed) : Got[i] = Said(w)
      BY <2>2, <3>1, <3>2 DEF Came
    <3> QED  BY <1>3, <3>3
  <2> QED  BY <2>1, <2>3
<1>8. opt.carrier \in {"tcp", "kcp", "udp", "edge", "ws"}  BY OptionsAre DEF Shape
<1> QED  BY <1>5, <1>6, <1>7, <1>8 DEF IsStream, IsDatagram, Streams, Datagrams

(* When the writers have ended and the connection stands, with nothing     *)
(* torn, lost or repeated, a reader that waits for more has read every     *)
(* byte, and every good frame that says something was handed over.         *)
THEOREM EverythingArrives == Spec => []AllArrive
<1>1. Inv => AllArrive  BY AllFit
<1> QED  BY <1>1, WireInvariant, PTL
=============================================================================
