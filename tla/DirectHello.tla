---------------------------- MODULE DirectHello ----------------------------
(***************************************************************************)
(* The hello that opens a flow with the edge, and the edge's answer.       *)
(* Source: direct/gen/edge/hello.go, direct/transport.go.                  *)
(*                                                                         *)
(* A byte is a number below Byte, 256 in the code; the length field of a   *)
(* hello is two bytes.  A decoder returns the set of what it finds.        *)
(***************************************************************************)
EXTENDS Integers, Sequences

CONSTANTS
    Byte,
    MaxTicketLen,   \* 256 in the code
    FlowIDLen       \* 8 in the code

ASSUME HelloAssumption ==
    /\ Byte \in Nat /\ Byte > 4
    /\ {MaxTicketLen, FlowIDLen} \subseteq Nat \ {0}

HelloMagic   == <<1, 2, 3, 4>>
HelloVersion == 1
HelloHeaderLen == Len(HelloMagic) + 1 + 2

Drop(b, n) == SubSeq(b, n + 1, Len(b))

(* EncodeHello: uint16 keeps what fits in two bytes of the length.         *)
EncodeHello(ticket) ==
    LET n == Len(ticket) % (Byte * Byte)
    IN  HelloMagic \o <<HelloVersion, n \div Byte, n % Byte>> \o ticket

(* IsHello: enough bytes, the magic and the version.                       *)
IsHello(b) ==
    /\ Len(b) >= HelloHeaderLen
    /\ SubSeq(b, 1, Len(HelloMagic)) = HelloMagic
    /\ b[Len(HelloMagic) + 1] = HelloVersion

\* Fault: the high byte of the length is not read.
TicketLen_low(b) == b[Len(HelloMagic) + 3]

TicketLen(b) == Byte * b[Len(HelloMagic) + 2] + b[Len(HelloMagic) + 3]

(* DecodeHello; ReadHello reads the same from a stream.                    *)
DecodeHello(b) ==
    IF IsHello(b) /\ TicketLen(b) <= MaxTicketLen /\ Len(b) >= HelloHeaderLen + TicketLen(b)
    THEN {[ticket |-> SubSeq(b, HelloHeaderLen + 1, HelloHeaderLen + TicketLen(b)),
           rest   |-> Drop(b, HelloHeaderLen + TicketLen(b))]}
    ELSE {}

(* What the edge's answer of n bytes is taken for, read into a buffer of   *)
(* FlowIDLen bytes: the flow-id, the byte of IsHelloRejectUnavailable, or  *)
(* neither.                                                                *)
Answer(n) ==
    CASE n >= FlowIDLen -> "flow-id"
      [] n = 1          -> "unavailable"
      [] OTHER          -> "malformed"
=============================================================================
