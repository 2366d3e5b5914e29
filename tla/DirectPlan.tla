----------------------------- MODULE DirectPlan -----------------------------
(***************************************************************************)
(* What Open makes of a push and of its options: the plan (addresses,      *)
(* ticket, the gap the server grants), the options, the transport.         *)
(* Source: direct/notify.go, plan.go, options.go and version.go.           *)
(*                                                                         *)
(* A field of a JSON object is the set of its value: empty where it is     *)
(* missing or of another kind, which the code treats alike.  A ticket is a *)
(* sequence of bytes and travels as a base64 text.  Durations are numbers  *)
(* of a signed width, as time.Duration is.                                 *)
(***************************************************************************)
EXTENDS Integers, Sequences, FiniteSetsExt, SequencesExt

CONSTANTS
    Top,        \* a duration is in -Top .. Top - 1; the code's 2^63
    Milli,      \* time.Millisecond
    Second      \* time.Second

ASSUME PlanAssumption ==
    /\ {Top, Milli, Second} \subseteq Nat \ {0}
    /\ Milli % 2 = 0

NoBytes   == << >>
NoAddress == "no address"
NoFaces   == << >>          \* the empty table of faces

(* What a push is made of.                                                 *)
Texts     == [form : {"std", "raw", "url"}, of : Seq(Nat)]
ItemLists == Seq([transport : STRING, address : STRING])
Entries   == Seq([ticket : SUBSET Texts, endpoints : SUBSET ItemLists])
Notifies  == [ticket : SUBSET Texts, tickets : SUBSET Entries, battleTickets : SUBSET Entries,
              endpoints : SUBSET ItemLists, gap : SUBSET Int]
AnyPush   == [op : STRING, object : BOOLEAN, typed : BOOLEAN, inner : SUBSET Notifies,
              fields : Notifies]

The(field, default) == IF field = {} THEN default ELSE CHOOSE v \in field : TRUE

-----------------------------------------------------------------------------
(* A text of base64: with padding, without, in another alphabet.           *)

NoText == [form |-> "std", of |-> NoBytes]

(* decodeTicketBase64: the two forms it accepts.                           *)
Decoded(text) == IF text.form \in {"std", "raw"} THEN {text.of} ELSE {}

(* notifyTicket: a text that stands for something.                         *)
NotifyTicket(f) == UNION {Decoded(text) : text \in f.ticket} \ {NoBytes}

(* ParseTransport: the name of the enumeration or the short one, whatever  *)
(* the case.                                                               *)
ParseTransport(name) ==
    CASE name \in {"EDGE_TRANSPORT_WS", "WS", "ws"}    -> {"ws"}
      [] name \in {"EDGE_TRANSPORT_KCP", "KCP", "kcp"} -> {"kcp"}
      [] name \in {"EDGE_TRANSPORT_UDP", "UDP", "udp"} -> {"udp"}
      [] OTHER                                         -> {}

(* endpointItem: a known face with an address.                             *)
Usable(item) == ParseTransport(item.transport) # {} /\ item.address # NoAddress

(* endpointList: the last usable item of a face stands.                    *)
EndpointList(items) ==
    LET ofFace(t) == {i \in DOMAIN items :
                        Usable(items[i]) /\ ParseTransport(items[i].transport) = {t}}
    IN  [t \in {t \in {"ws", "kcp", "udp"} : ofFace(t) # {}} |->
            items[Max(ofFace(t))].address]

(* endpointItems and notifyEndpoints.                                      *)
EndpointItems(field) == EndpointList(The(field, << >>))

\* Fault: the entry is taken whoever its ticket belongs to.
TicketEntryOf_any(entry, ticket) == EndpointItems(entry.endpoints)

(* ticketEntryOf: the faces of an entry that holds this very ticket.       *)
TicketEntryOf(entry, ticket) ==
    IF Decoded(The(entry.ticket, NoText)) = {ticket}
    THEN EndpointItems(entry.endpoints) ELSE NoFaces

(* ticketEntriesOf: the first entry that gives any.                        *)
TicketEntriesOf(field, ticket) ==
    LET list == The(field, << >>)
        hits == {i \in DOMAIN list : TicketEntryOf(list[i], ticket) # NoFaces}
    IN  IF hits = {} THEN NoFaces ELSE TicketEntryOf(list[Min(hits)], ticket)

(* ticketEntryEndpoints: in the reply's list, then in the event's.         *)
TicketEntryEndpoints(f, ticket) ==
    IF TicketEntriesOf(f.tickets, ticket) # NoFaces
    THEN TicketEntriesOf(f.tickets, ticket)
    ELSE TicketEntriesOf(f.battleTickets, ticket)

(* resolveEndpoints: the player's own instance, else the event's.          *)
ResolveEndpoints(f, ticket) ==
    IF TicketEntryEndpoints(f, ticket) # NoFaces
    THEN TicketEntryEndpoints(f, ticket) ELSE EndpointItems(f.endpoints)

(* rawInt64: no number and a negative one are 0.                           *)
RawInt64(field) == Max({The(field, 0), 0})

(* Arithmetic of time.Duration.                                            *)
Wrap(n) == ((n + Top) % (2 * Top)) - Top

\* time.Duration(n) * time.Millisecond
GapOf(f) == Wrap(RawInt64(f.gap) * Milli)

(* notifyObject: an envelope with a type is opened, if it holds an object. *)
NotifyObject(push) ==
    IF push.typed THEN The(push.inner, push.fields) ELSE push.fields

(* PlanFromPush and PlanFromNotify: the plan, or nothing.                  *)
PlanFromPush(push) ==
    LET f == NotifyObject(push) IN
    {[ticket |-> t, endpoints |-> ResolveEndpoints(f, t), gap |-> GapOf(f)] :
        t \in {t \in NotifyTicket(f) :
                  /\ push.op = "MatchStartedNotify" /\ push.object
                  /\ ResolveEndpoints(f, t) # NoFaces}}

(* pickEndpoint: the transport asked for, else the first of ws, kcp, udp.  *)
Pick(plan, want) ==
    LET order   == <<"ws", "kcp", "udp">>
        offered == {i \in DOMAIN order : order[i] \in DOMAIN plan.endpoints}
    IN  IF want = "any" THEN {order[i] : i \in {i \in offered : \A j \in offered : i <= j}}
        ELSE {want} \intersect DOMAIN plan.endpoints

-----------------------------------------------------------------------------
(* The options.                                                            *)

AnyOptions ==
    [transport : STRING, hello : BOOLEAN, auto : BOOLEAN, probe : BOOLEAN, heartbeat : Int,
     linger : Int, ver : Int, invoke : Int, handshake : Int, base : Int, max : Int,
     window : Int, idleSwitch : Int, idleDead : Int, explicit : BOOLEAN, swallow : Int,
     helloTimeout : Int]

DefaultIdleSwitch == 3 * Second
DefaultIdleDead   == 15 * Second

DefaultOptions ==
    [transport |-> "any", hello |-> TRUE, auto |-> TRUE, probe |-> FALSE,
     heartbeat |-> 2 * Second, linger |-> 2 * Second, ver |-> 1,
     invoke |-> 10 * Second, handshake |-> 3 * Second,
     base |-> 1, max |-> 10 * Second,
     window |-> 1, idleSwitch |-> DefaultIdleSwitch, idleDead |-> DefaultIdleDead,
     explicit |-> FALSE, swallow |-> 256, helloTimeout |-> Second]

(* WithReconnectBackoff: each bound on its own terms.                      *)
WithReconnectBackoff(o, base, max) ==
    LET b == IF base > 0 THEN base ELSE o.base
    IN  [o EXCEPT !.base = b, !.max = IF max >= b THEN max ELSE @]

(* WithIdleDeadline.                                                       *)
WithIdleDeadline(o, d) == [o EXCEPT !.idleDead = d, !.explicit = TRUE]

(* The other With functions: a time-out is positive or as it was, a linger *)
(* window is not negative, the rest is set as told.                        *)
With(o, field, value) ==
    [o EXCEPT ![field] =
        IF field \in {"invoke", "handshake"} /\ value <= 0 THEN @
        ELSE IF field = "linger" THEN Max({value, 0}) ELSE value]

(* Open runs the options in the order given.                               *)
Apply(o, option) ==
    CASE option.set = "backoff"  -> WithReconnectBackoff(o, option.base, option.max)
      [] option.set = "idleDead" -> WithIdleDeadline(o, option.to)
      [] OTHER                   -> With(o, option.set, option.to)

\* Fault: a short gap is not lifted above T1.
ClientIdleDeadline_flat(gap, idleSwitch) == Wrap(gap * 3) \div 2

(* clientIdleDeadline: T2 is half as long again as the gap, and above T1.  *)
ClientIdleDeadline(gap, idleSwitch) ==
    LET d == Wrap(gap * 3) \div 2
    IN  IF d <= idleSwitch THEN Wrap(idleSwitch + Second) ELSE d

(* applyPlanDefaults: unless WithIdleDeadline was given.                   *)
ApplyPlanDefaults(plan, o) ==
    IF plan.gap > 0 /\ ~o.explicit
    THEN [o EXCEPT !.idleDead = ClientIdleDeadline(plan.gap, o.idleSwitch)]
    ELSE o

(* validateSwitchOptions.                                                  *)
ValidSwitchOptions(o) ==
    /\ o.window > 0
    /\ o.idleSwitch > 0 /\ o.idleDead > o.idleSwitch
    /\ o.swallow # 0
    /\ o.helloTimeout > 0

(* payloadVersion: the white list of frame versions.                       *)
SupportedVersion(ver) == ver \in {1, 2}

(* The options before the plan has its say.                                *)
Told(given) == FoldLeft(Apply, DefaultOptions, given)

OptionsOf(plan, given) == ApplyPlanDefaults(plan, Told(given))

(* Open and newSession up to the dial: the session's parameters, or none.  *)
Opening(push, given) ==
    UNION {LET o == OptionsOf(plan, given)
           IN  {[kind |-> k, addr |-> plan.endpoints[k], ticket |-> plan.ticket, opt |-> o] :
                   k \in {k \in Pick(plan, o.transport) :
                             ValidSwitchOptions(o) /\ SupportedVersion(o.ver)}}
           : plan \in PlanFromPush(push)}
=============================================================================
