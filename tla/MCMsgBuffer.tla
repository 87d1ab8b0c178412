----------------------------- MODULE MCMsgBuffer -----------------------------
(* Receives of one rank from two others. *)
EXTENDS MsgBuffer

const_Source == {1, 2}

Irecv(call, source, tag) == [op |-> "irecv", call |-> call, source |-> source, tag |-> tag, size |-> 4]
Call(op, call, requests) == [op |-> op, call |-> call, requests |-> requests]

(* The messages of a source carry these tags. *)
Sends(s, tags) == [i \in DOMAIN tags |-> [source |-> s, tag |-> tags[i], clock |-> 9 + i, size |-> 4]]
Program(ops, one, two) == [ops |-> ops, sends |-> <<Sends(1, one), Sends(2, two)>>]

(* Two receives with wildcards, completed one by one. *)
Wildcards == Program(
    <<Irecv("a", ANY_SOURCE, 1), Irecv("a", ANY_SOURCE, 1),
      Call("waitany", "b", <<1, 2>>), Call("waitany", "b", <<1, 2>>)>>, <<1>>, <<1>>)

(* A receive posted anew at each turn of a loop, polled, then waited for. *)
Loop == Program(
    <<Irecv("a", ANY_SOURCE, 1), Call("testany", "b", <<1>>), Call("waitall", "c", <<1>>),
      Irecv("a", ANY_SOURCE, 1), Call("testany", "b", <<4>>), Call("waitall", "c", <<4>>)>>,
    <<1>>, <<1>>)

(* Two matching sets; a message of the second is sent first, its receive    *)
(* may be posted after the message was probed.                              *)
TwoSets == Program(
    <<Irecv("a", ANY_SOURCE, 1), Call("waitall", "b", <<1>>),
      Irecv("c", 1, 2), Call("testany", "d", <<3>>), Call("waitall", "e", <<3>>)>>,
    <<2, 1>>, << >>)

(* Both posted at once, the messages in the order against that of posting. *)
Crossed == Program(
    <<Irecv("a", 1, 1), Irecv("c", 1, 2), Call("testany", "b", <<1>>), Call("waitall", "d", <<2>>),
      Call("waitall", "b", <<1>>)>>,
    <<2, 1>>, << >>)

(* Two call sites in one set by their common matching call, then reused. *)
OneSet == Program(
    <<Irecv("a", ANY_SOURCE, 1), Irecv("c", ANY_SOURCE, 2), Call("waitall", "b", <<1, 2>>),
      Irecv("c", ANY_SOURCE, 2), Call("waitany", "d", <<4, 1>>)>>,
    <<2, 1, 2>>, << >>)

(* A receive for any tag. *)
AnyTag == Program(
    <<Irecv("a", 1, ANY_TAG), Call("testany", "b", <<1>>), Call("waitany", "b", <<1>>),
      Irecv("a", 1, ANY_TAG), Call("waitall", "b", <<4>>)>>,
    <<1, 2>>, << >>)

(* A receive is cancelled before the next one is posted. *)
CancelOne == Program(
    <<Irecv("a", 1, 1), Irecv("a", 2, 1), Call("waitall", "b", <<1>>),
      [op |-> "cancel", requests |-> <<2>>],
      Irecv("a", 1, 1), Call("waitall", "b", <<5>>)>>, <<1, 1>>, << >>)

(* Three receives, the i-th of tag f[i], its message sent by g[i]; the       *)
(* sources send in any order p.  They are posted together or one by one and *)
(* waited for in turn, or completed in any order by one call.               *)
Three == 1..3
Site(tag) == IF tag = 1 THEN "a" ELSE "c"
WaitSite(tag) == IF tag = 1 THEN "b" ELSE "d"
Posts(f, i) == Irecv(Site(f[i]), ANY_SOURCE, f[i])
Waits(f, i, request) == Call("waitall", WaitSite(f[i]), <<request>>)
AnyOf == Call("waitany", "b", <<1, 2, 3>>)

Together(f) == [i \in Three |-> Posts(f, i)] \o [i \in Three |-> Waits(f, i, i)]
Separately(f) == [k \in 1..6 |-> IF k % 2 = 1 THEN Posts(f, (k + 1) \div 2)
                                 ELSE Waits(f, k \div 2, k - 1)]
InOneSet(f) == [i \in Three |-> Posts(f, i)] \o <<AnyOf, AnyOf, AnyOf>>

Orders == {p \in [Three -> Three] : \A i, j \in Three : i # j => p[i] # p[j]}

SentBy(s, f, g, p) ==
    LET mine == SelectSeq(p, LAMBDA i : g[i] = s) IN [k \in DOMAIN mine |-> f[mine[k]]]

Sent(ops, f, g, p) == Program(ops, SentBy(1, f, g, p), SentBy(2, f, g, p))

Tags == [Three -> {1, 2}]
Senders == [Three -> {1, 2}]
Alike(f, g) == \E i, j \in Three : i < j /\ f[i] = f[j] /\ g[i] = g[j]

Mixes == Tags \X Senders \X Orders

(* Two receives posted at once for messages of one tag and one source are   *)
(* left to Overtaken below.                                                 *)
Apart == {x \in Mixes : ~Alike(x[1], x[2])}

Threes ==
    {Sent(Together(x[1]), x[1], x[2], x[3]) : x \in Apart}
        \union {Sent(Separately(x[1]), x[1], x[2], x[3]) : x \in Mixes}
        \union {Sent(InOneSet(x[1]), x[1], x[2], x[3]) : x \in Apart}

const_Programs == {Wildcards, Loop, TwoSets, Crossed, OneSet, AnyTag, CancelOne} \union Threes

-----------------------------------------------------------------------------
(* Programs whose replay differs or fails.                                  *)

(* Two receives posted at once for messages of one source and one tag. *)
Overtaken == Program(
    <<Irecv("a", ANY_SOURCE, 1), Irecv("a", ANY_SOURCE, 1),
      Call("waitall", "b", <<1, 2>>)>>, <<1, 1>>, << >>)
const_Overtaken == {Overtaken}

(* A receive of one set waited for by the call of another. *)
Borrowed == Program(
    <<Irecv("a", ANY_SOURCE, 1), Irecv("c", ANY_SOURCE, 2),
      Call("waitall", "b", <<1>>), Call("waitall", "d", <<2>>),
      Irecv("a", ANY_SOURCE, 1), Call("waitall", "d", <<5>>)>>,
    <<1, 2, 1>>, << >>)
const_Borrowed == {Borrowed}

(* A receive that is cancelled and whose tag nothing else has. *)
Cancelled == Program(
    <<Irecv("a", ANY_SOURCE, 1), Irecv("c", ANY_SOURCE, 2), Call("waitall", "b", <<1>>),
      [op |-> "cancel", requests |-> <<2>>]>>, <<1>>, << >>)
const_Cancelled == {Cancelled}

(* Two receives of one source, the second waited for first. *)
Backwards == Program(
    <<Irecv("a", 1, 1), Irecv("a", 1, 1),
      Call("waitall", "b", <<2>>), Call("waitall", "b", <<1>>)>>, <<1, 1>>, << >>)
const_Backwards == {Backwards}

(* A wildcard receive is posted again for a message already probed, and     *)
(* takes the message of another set.                                        *)
Stolen == Program(
    <<Irecv("a", 1, 1), Call("waitall", "b", <<1>>),
      Irecv("c", 1, ANY_TAG), Call("waitall", "d", <<3>>),
      Irecv("a", 1, 1), Call("waitall", "b", <<5>>)>>, <<1, 2, 1>>, << >>)
const_Stolen == {Stolen}

(* The same with a receive too small for the message it takes. *)
Small == [Program(
    <<Irecv("a", ANY_SOURCE, 1), Call("waitall", "b", <<1>>),
      Irecv("c", ANY_SOURCE, 2), Call("waitall", "d", <<3>>),
      [Irecv("c", ANY_SOURCE, 2) EXCEPT !.size = 8], Call("waitall", "d", <<5>>)>>,
    <<2, 1, 2>>, << >>) EXCEPT !.sends[1][3].size = 8]
const_Small == {Small}
=============================================================================
