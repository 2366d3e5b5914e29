---------------------------- MODULE MCDirectOpen ----------------------------
(* Small instances of DirectOpen.                                          *)
EXTENDS DirectOpen
CONSTANTS c1
C1 == {c1}
None == {}

Std(t) == {[form |-> "std", of |-> t]}
Raw(t) == {[form |-> "raw", of |-> t]}
Mine   == <<1, 2>>
Theirs == <<2, 1>>
Long(n) == [i \in 1 .. n |-> 3]
Item(t, a) == [transport |-> t, address |-> a]
Entry(text, items) == [ticket |-> text, endpoints |-> items]

Event == {<<Item("EDGE_TRANSPORT_WS", "event"), Item("kcp", "event"), Item("UDP", "event")>>}
Own   == {<<Item("KCP", "mine"), Item("udp", "mine2"), Item("ftp", "mine3")>>}
Other == {<<Item("WS", "theirs"), Item("kcp", "theirs")>>}
Blank == {<<Item("WS", NoAddress)>>}
Lists == {{}, {<<Entry(Std(Theirs), Other), Entry(Raw(Mine), Own)>>},
          {<<Entry(Std(Mine), Blank), Entry(Std(Theirs), Other)>>},
          {<<Entry({}, Other)>>}}
Gaps  == {{}, {-3}, {1}, {6}, {24}, {70}}
Tickets == {Std(Mine), Raw(Mine), {[form |-> "url", of |-> Mine]}, Std(NoBytes), {}} \union
           {Std(Long(n)) : n \in {4, 6, 7, 27}}

Fields == [ticket : Tickets, tickets : Lists, battleTickets : Lists,
           endpoints : {Event, Blank, {}}, gap : Gaps]
Plain == [ticket |-> Std(Mine), tickets |-> {}, battleTickets |-> {},
          endpoints |-> Event, gap |-> {}]
Bare(f) == [op |-> "MatchStartedNotify", object |-> TRUE, typed |-> FALSE, inner |-> {},
            fields |-> f]
Pushes ==
    {Bare(f) : f \in {f \in Fields : \/ f.gap = {} /\ f.ticket = Std(Mine)
                                     \/ f.tickets = {} /\ f.battleTickets = {}
                                        /\ f.endpoints = Event}}
    \union {[Bare(Plain) EXCEPT !.op = "RosterChanged"], [Bare(Plain) EXCEPT !.object = FALSE],
            [Bare([Plain EXCEPT !.ticket = {}]) EXCEPT !.typed = TRUE, !.inner = {Plain}],
            [Bare(Plain) EXCEPT !.typed = TRUE]}

Set(field, value) == [set |-> field, to |-> value]
Probe == Set("probe", TRUE)
Givens == {<<Probe>>, <<>>, <<Probe, Set("transport", "kcp")>>,
           <<Set("heartbeat", 0), Probe, Set("transport", "udp")>>,
           <<Set("hello", FALSE), Set("transport", "kcp")>>,
           <<Set("hello", FALSE), Set("transport", "udp")>>,
           <<Set("auto", FALSE), Set("linger", -1), Probe>>,
           <<[set |-> "idleDead", to |-> 5], Probe>>, <<[set |-> "idleDead", to |-> 40]>>,
           <<Set("idleSwitch", 40)>>, <<Set("ver", 3)>>, <<Set("swallow", 0)>>,
           <<Set("helloTimeout", 0)>>, <<Set("window", 0)>>, <<Set("handshake", 0)>>,
           <<[set |-> "backoff", base |-> 4, max |-> 2]>>, <<Set("heartbeat", 20), Probe>>}
AllAsks == [push : Pushes, given : Givens]
Options2 == [auto : BOOLEAN, linger : BOOLEAN, blocks : BOOLEAN]
=============================================================================
