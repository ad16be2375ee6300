-------------------------- MODULE HttpServerProofs --------------------------
(***************************************************************************)
(* Proofs about TcpServer and HttpServer, for any addresses, accept loops, *)
(* clients, requests and buffer size: the three invariants that the run of *)
(* the module checks.                                                      *)
(***************************************************************************)
EXTENDS HttpServer, WellFoundedInduction, TLAPS

-----------------------------------------------------------------------------
(* The inductive invariant: the server object and its accept loops *)

(* A stop() leaves its mark in `life`, and only the task of a stop() closes  *)
(* a socket that an accept loop still holds.                                 *)
LoopsInv ==
  /\ TcpTypeOK
  /\ stopTasks <= calls
  /\ life = "new" => stopTasks = 0
  /\ life = "stopped" => m_is_stop
  /\ open \subseteq Held(m_sockets, loop)
  /\ \A i \in Loops : Walking(i) /\ loop[i].sock \notin open => life # "new"
  /\ \A i \in Loops : ~Walking(i) => loop[i].sock = None

ClientStates == {"away", "pending", "refused", "handshake", "scheduled",
                 "serving", "closed"}

InHandshake(i) == loop[i].at = "handshake"

(* The client of a TLS handshake belongs to one accept loop. *)
ClientsInv ==
  /\ client \in [Clients -> ClientStates]
  /\ \A i \in Loops : InHandshake(i) =>
       loop[i].peer \in Clients /\ client[loop[i].peer] = "handshake"
  /\ \A i, j \in Loops :
       InHandshake(i) /\ InHandshake(j) /\ loop[i].peer = loop[j].peer => i = j

-----------------------------------------------------------------------------
(* The inductive invariant: a session and its peer *)

Byte == Nat \X Nat

PeerType ==
  [wire : Seq(Byte), eof : BOOLEAN, sent : Seq(Kinds), answers : Nat,
   handled : Seq([of : Nat, body : Seq(Byte)]), pieces : BOOLEAN,
   pipelined : BOOLEAN]

Places == {"none", "recv", "spin", "body", "dispatch", "stuck", "respond"}

ParserType == [cs : 0..HeadLen, of : Nat, nread : Nat, error : BOOLEAN]

SessionType == [at : Places, body : Seq(Byte), parser : ParserType]

(* The bytes on the wire are in the order in which they were sent: a later   *)
(* one is of the same message or a later one, and the first byte of a        *)
(* message is behind all bytes of the messages before it.                    *)
Ordered(wire, last) ==
  \A j \in DOMAIN wire :
    /\ wire[j][1] \in 1..last
    /\ \A i \in DOMAIN wire : i < j =>
         /\ wire[i][1] <= wire[j][1]
         /\ wire[j][2] = 1 => wire[i][1] < wire[j][1]

(* The messages that begin on the wire come after message n. *)
Later(wire, n) == \A j \in DOMAIN wire : wire[j][2] = 1 => wire[j][1] > n

(* A request of which recv_request has seen part, or all. *)
Parsing(s) ==
  s.at \in {"body", "dispatch"} \/ (s.at = "recv" /\ s.parser.cs > 0)

AtStart(s) == s.at = "recv" /\ s.parser.cs = 0

(* Every request given to a servlet is a request of the client that was not  *)
(* given to one before, however garbled the bytes behind it.                 *)
OrderInv(q, s) ==
  /\ Ordered(q.wire, Len(q.sent))
  /\ q.answers <= Len(q.handled) /\ Len(q.handled) <= Len(q.sent)
  /\ s.parser.nread = s.parser.cs
  /\ s.at = "none" => q = Fresh
  /\ AtStart(s) => Later(q.wire, Len(q.handled))
  /\ Parsing(s) => /\ s.parser.of \in (Len(q.handled) + 1)..Len(q.sent)
                   /\ Later(q.wire, s.parser.of)
  /\ s.at = "body" => Len(s.body) <= q.sent[s.parser.of].body
  /\ s.at = "respond" => /\ q.answers < Len(q.handled)
                         /\ Later(q.wire, Len(q.handled))

(* Bytes from + 1 .. from + size of message n. *)
Part(n, from, size) == [k \in 1..size |-> <<n, from + k>>]

(* What is known of a session whose client waits for its answers and whose   *)
(* heads each came in one read: where recv_request is in the last request    *)
(* that was sent, and that the wire holds what follows of that request only. *)
ExactInv(q, s) ==
  LET last == Len(q.sent)
  IN  /\ \A j \in DOMAIN q.handled :
           q.handled[j] = [of |-> j, body |-> Part(j, HeadLen, q.sent[j].body)]
      /\ AtStart(s) =>
           /\ q.answers = Len(q.handled)
           /\ \/ last = q.answers /\ q.wire = <<>>
              \/ /\ last = q.answers + 1
                 /\ q.wire = Part(last, 0, Len(q.wire))
                 /\ Len(q.wire) <= HeadLen + q.sent[last].body
      /\ s.at = "body" =>
           /\ q.answers = Len(q.handled) /\ last = q.answers + 1
           /\ s.parser.of = last
           /\ s.body = Part(last, HeadLen, Len(s.body))
           /\ q.wire = Part(last, HeadLen + Len(s.body), Len(q.wire))
           /\ Len(s.body) + Len(q.wire) <= q.sent[last].body
      /\ s.at = "dispatch" =>
           /\ q.answers = Len(q.handled) /\ last = q.answers + 1
           /\ s.parser.of = last
           /\ s.body = Part(last, HeadLen, q.sent[last].body)
           /\ q.wire = <<>>
      /\ s.at = "respond" =>
           last = q.answers + 1 /\ q.wire = <<>> /\ Len(q.handled) = last

SessionInv(q, s) ==
  /\ q \in PeerType /\ s \in SessionType
  /\ OrderInv(q, s)
  /\ ~q.pieces /\ ~q.pipelined => ExactInv(q, s)

TableInv == Len(m_globs) <= 1 /\ spinner \in {None, "reader", "writer"}

IInv ==
  /\ LoopsInv /\ ClientsInv
  /\ DOMAIN peer = Clients /\ DOMAIN session = Clients
  /\ \A c \in Clients :
       /\ SessionInv(peer[c], session[c])
       /\ client[c] = "serving" <=> session[c].at # "none"
  /\ TableInv
  /\ aborted \in BOOLEAN /\ (aborted => \E c \in Clients : peer[c].pieces)

-----------------------------------------------------------------------------
(* Positions, and cuts of byte sequences *)

LEMMA NoGap ==
    ASSUME NEW b \in Nat, NEW m \in Nat, NEW w \in Nat, m <= w, b + w <= b + m
    PROVE  m = w
  OBVIOUS

LEMMA CutType ==
    ASSUME NEW w \in Seq(Byte), NEW b \in Seq(Byte), NEW k \in Nat, k <= Len(w)
    PROVE  SubSeq(w, k + 1, Len(w)) \in Seq(Byte) /\ b \o SubSeq(w, 1, k) \in Seq(Byte)
  OBVIOUS

LEMMA CutAll ==
    ASSUME NEW w \in Seq(Byte)
    PROVE  /\ SubSeq(w, Len(w) + 1, Len(w)) = <<>> /\ SubSeq(w, 1, Len(w)) = w
           /\ Len(w) <= Len(w)
  OBVIOUS

LEMMA PositionBehind ==
    ASSUME NEW h \in Nat, NEW l \in Nat, NEW x \in (h + 1)..l
    PROVE  x \in 1..l /\ x \in Nat
  OBVIOUS

LEMMA Remainder ==
    ASSUME NEW b \in Nat, NEW c \in Nat, b <= c, NEW m, m = c - b
    PROVE  m \in Nat /\ c = b + m
  OBVIOUS

LEMMA Successor ==
    ASSUME NEW k \in Nat
    PROVE  k + 1 \in Nat \ {0}
  OBVIOUS

-----------------------------------------------------------------------------
(* Largest members *)

(* A set of natural numbers that is not empty has a least member. *)
LEMMA LeastNat ==
    ASSUME NEW T, T \subseteq Nat, T # {}
    PROVE  \E x \in T : \A y \in T : x <= y
<1> DEFINE R == OpToRel(<, Nat)
<1>1. PICK x \in T : \A y \in T : ~ (<<y, x>> \in R)
  <2> HIDE DEF R
  <2>1. IsWellFoundedOn(R, Nat)
    BY Zenon, NatLessThanWellFounded DEF R
  <2> QED
    BY Zenon, <2>1, WFMin
<1>2. \A y \in T : ~(y < x)
  BY Zenon, <1>1 DEF OpToRel
<1> QED
  BY <1>2

(* Max is what it says on a bounded set of natural numbers. *)
LEMMA MaxBelow ==
    ASSUME NEW n \in Nat, NEW S, S \subseteq 0..n, S # {}
    PROVE  Max(S) \in S /\ \A y \in S : Max(S) >= y
<1> DEFINE T == {k \in Nat : n - k \in S}
<1>1. PICK x \in T : \A y \in T : x <= y
  <2>1. T \subseteq Nat /\ T # {}
    <3>1. PICK s \in S : TRUE
      OBVIOUS
    <3>2. n - s \in Nat /\ n - (n - s) = s
      OBVIOUS
    <3> QED
      BY Zenon, <3>2
  <2> HIDE DEF T
  <2> QED
    BY Zenon, <2>1, LeastNat
<1>2. n - x \in S /\ \A y \in S : n - x >= y
  <2>1. SUFFICES ASSUME NEW y \in S PROVE n - x >= y
    OBVIOUS
  <2>2. n - y \in Nat /\ n - (n - y) = y
    OBVIOUS
  <2> QED
    BY <2>2, <1>1
<1> QED
  BY Zenon, <1>2 DEF Max

-----------------------------------------------------------------------------
(* The parser *)

(* The machine accepts at most what is left of the head; the first byte it   *)
(* accepts is the next one of the message it is in.                          *)
LEMMA AcceptedFacts ==
    ASSUME NEW p \in ParserType, NEW data \in Seq(Byte), data # <<>>
    PROVE  /\ Accepted(p, data) \in 0..Len(data)
           /\ p.cs + Accepted(p, data) <= HeadLen
           /\ Accepted(p, data) > 0 /\ p.cs = 0 => data[1][2] = 1
<1> DEFINE of == IF p.cs = 0 /\ data # <<>> THEN data[1][1] ELSE p.of
           S == {n \in 0..Len(data) :
                   \A i \in 1..n : p.cs + i <= HeadLen /\ data[i] = <<of, p.cs + i>>}
<1>1. Len(data) \in Nat /\ S \subseteq 0..Len(data) /\ 0 \in S
  OBVIOUS
<1>2. Max(S) \in S
  <2> HIDE DEF S
  <2> QED
    BY Zenon, <1>1, MaxBelow
<1>3. p.cs \in 0..HeadLen /\ HeadLen \in Nat
  BY Zenon, HeadLenAssumption DEF ParserType
<1>4. \A n \in S : n \in 0..Len(data) /\ p.cs + n <= HeadLen
  BY <1>3
<1>5. \A n \in S : n > 0 /\ p.cs = 0 => data[1][2] = 1
  <2>1. SUFFICES ASSUME NEW n \in S, n > 0, p.cs = 0 PROVE data[1][2] = 1
    OBVIOUS
  <2>2. data[1] = <<of, p.cs + 1>>
    BY <2>1
  <2> QED
    BY <2>1, <2>2
<1>6. Accepted(p, data) = Max(S)
  BY Zenon DEF Accepted
<1> HIDE DEF S, of
<1> QED
  BY Zenon, <1>2, <1>4, <1>5, <1>6

(* execute() counts on; it stops without an error only behind a first byte,  *)
(* and what it has counted exceeds the read only if it began earlier.        *)
LEMMA ExecuteFacts ==
    ASSUME NEW p \in ParserType, NEW data \in Seq(Byte), data # <<>>, p.nread = p.cs,
           NEW e, e = Execute(p, data)
    PROVE  /\ e.parser \in ParserType /\ e.parser.nread = e.parser.cs
           /\ e.abort \in BOOLEAN /\ (p.cs = 0 => ~e.abort)
           /\ e.rest = SubSeq(data, e.parser.cs + 1, Len(data))
           /\ p.cs <= e.parser.cs /\ (p.cs = 0 => e.parser.cs <= Len(data))
           /\ ~e.parser.error => e.parser.cs > 0
           /\ ~e.parser.error /\ p.cs = 0 => e.parser.of = data[1][1] /\ data[1][2] = 1
           /\ p.cs > 0 => e.parser.of = p.of
<1> DEFINE n == Accepted(p, data)
<1>1. n \in 0..Len(data) /\ p.cs + n <= HeadLen /\ (n > 0 /\ p.cs = 0 => data[1][2] = 1)
  BY Zenon, AcceptedFacts
<1>2. p.cs \in 0..HeadLen /\ HeadLen \in Nat \ {0} /\ p.of \in Nat /\ Len(data) \in Nat \ {0}
      /\ data[1][1] \in Nat
  BY HeadLenAssumption DEF ParserType, Byte
<1>3. /\ e.parser = [cs |-> p.cs + n, nread |-> p.nread + n,
                     of |-> IF p.cs = 0 /\ n > 0 THEN data[1][1] ELSE p.of,
                     error |-> n < Len(data) /\ p.cs + n < HeadLen]
      /\ e.abort = (p.nread + n > Len(data))
      /\ e.rest = SubSeq(data, p.nread + n + 1, Len(data))
  BY Zenon DEF Execute
<1> HIDE DEF n
<1>a. e.parser.error = (n < Len(data) /\ p.cs + n < HeadLen)
  BY SMT, <1>3
<1>b. e.abort = (p.nread + n > Len(data))
  BY Zenon, SMT, <1>3
<1>4. e.parser.error \in BOOLEAN /\ e.abort \in BOOLEAN
  <2>1. \A A, B : (A /\ B) \in BOOLEAN
    OBVIOUS
  <2>2. \A a, b \in Nat : (a > b) \in BOOLEAN
    OBVIOUS
  <2>3. p.nread + n \in Nat /\ Len(data) \in Nat
    BY <1>1, <1>2
  <2> QED
    BY Zenon, <2>1, <2>2, <2>3, <1>a, <1>b
<1>5. e.parser.cs = p.cs + n /\ e.parser.nread = p.cs + n
  BY <1>3
<1>6. e.parser.of = IF p.cs = 0 /\ n > 0 THEN data[1][1] ELSE p.of
  BY SMT, <1>3
<1>7. e.parser.error <=> (n < Len(data) /\ p.cs + n < HeadLen)
  BY Zenon, <1>a
<1>8. e.parser \in ParserType
  <2>1. p.cs + n \in 0..HeadLen /\ p.nread + n \in Nat
    BY <1>1, <1>2
  <2>2. (IF p.cs = 0 /\ n > 0 THEN data[1][1] ELSE p.of) \in Nat
    BY Zenon, <1>2
  <2> QED
    BY <2>1, <2>2, <1>3 DEF ParserType
<1>9. p.cs = 0 => ~e.abort
  <2>1. p.cs = 0 => ~(p.nread + n > Len(data))
    BY <1>1, <1>2
  <2> QED
    BY Zenon, <2>1, <1>b
<1>10. e.rest = SubSeq(data, e.parser.cs + 1, Len(data))
  BY Zenon, <1>3, <1>5
<1>11. ~e.parser.error => e.parser.cs > 0
  BY <1>1, <1>2, <1>5, <1>7
<1>12. ~e.parser.error /\ p.cs = 0 => n > 0
  BY <1>1, <1>2, <1>7
<1>13. p.cs > 0 => e.parser.of = p.of
  BY <1>2, <1>6
<1>14. p.cs <= e.parser.cs /\ (p.cs = 0 => e.parser.cs <= Len(data))
  BY <1>1, <1>2, <1>5
<1> QED
  BY Zenon, <1>1, <1>4, <1>5, <1>6, <1>8, <1>9, <1>10, <1>11, <1>12, <1>13, <1>14

-----------------------------------------------------------------------------
(* The bytes on the wire *)

LEMMA PartFacts ==
    ASSUME NEW n \in Nat, NEW from \in Nat, NEW size \in Nat
    PROVE  /\ Part(n, from, size) \in Seq(Byte) /\ Len(Part(n, from, size)) = size
           /\ \A k \in 1..size : Part(n, from, size)[k] = <<n, from + k>>
  BY DEF Part, Byte

(* A cut of consecutive bytes of a message is such a part too. *)
LEMMA PartCut ==
    ASSUME NEW n \in Nat, NEW from \in Nat, NEW size \in Nat,
           NEW a \in 1..(size + 1), NEW b \in (a - 1)..size
    PROVE  SubSeq(Part(n, from, size), a, b) = Part(n, from + (a - 1), b + 1 - a)
<1>1. SubSeq(Part(n, from, size), a, b) = [k \in 1..(b + 1 - a) |-> Part(n, from, size)[k + a - 1]]
  <2>1. PICK t \in Seq(Byte) : t = Part(n, from, size) /\ Len(t) = size
    BY Zenon, PartFacts
  <2>2. SubSeq(t, a, b) = [k \in 1..(b + 1 - a) |-> t[k + a - 1]]
    BY <2>1
  <2> QED
    BY Zenon, <2>1, <2>2
<1>2. \A k \in 1..(b + 1 - a) :
        k + a - 1 \in 1..size /\ from + (k + a - 1) = from + (a - 1) + k
  OBVIOUS
<1>3. \A k \in 1..(b + 1 - a) : Part(n, from, size)[k + a - 1] = <<n, from + (a - 1) + k>>
  <2>1. \A k \in 1..size : Part(n, from, size)[k] = <<n, from + k>>
    BY Zenon, PartFacts
  <2> QED
    BY Zenon, <2>1, <1>2
<1> QED
  BY Zenon, <1>1, <1>3 DEF Part

LEMMA PartPrefix ==
    ASSUME NEW n \in Nat, NEW from \in Nat, NEW size \in Nat, NEW k \in 0..size
    PROVE  SubSeq(Part(n, from, size), 1, k) = Part(n, from, k)
<1>1. 1 \in 1..(size + 1) /\ k \in (1 - 1)..size /\ from + (1 - 1) = from /\ k + 1 - 1 = k
  OBVIOUS
<1>2. SubSeq(Part(n, from, size), 1, k) = Part(n, from + (1 - 1), k + 1 - 1)
  BY Zenon, <1>1, PartCut
<1> QED
  BY Zenon, <1>1, <1>2

LEMMA PartTail ==
    ASSUME NEW n \in Nat, NEW from \in Nat, NEW size \in Nat, NEW a \in 1..(size + 1)
    PROVE  SubSeq(Part(n, from, size), a, size) = Part(n, from + (a - 1), size + 1 - a)
<1>1. size \in (a - 1)..size
  OBVIOUS
<1> QED
  BY Zenon, <1>1, PartCut

LEMMA PartTailZero ==
    ASSUME NEW n \in Nat, NEW size \in Nat, NEW a \in 1..(size + 1)
    PROVE  SubSeq(Part(n, 0, size), a, size) = Part(n, a - 1, size + 1 - a)
<1>1. PICK z \in Nat : z = 0
  OBVIOUS
<1>2. z \in Nat
  BY Zenon, <1>1
<1>3. SubSeq(Part(n, z, size), a, size) = Part(n, z + (a - 1), size + 1 - a)
  BY Zenon, <1>2, PartTail
<1>4. z + (a - 1) = a - 1
  BY <1>1
<1> QED
  BY Zenon, <1>1, <1>3, <1>4

LEMMA PartJoin ==
    ASSUME NEW n \in Nat, NEW from \in Nat, NEW a \in Nat, NEW b \in Nat
    PROVE  Part(n, from, a) \o Part(n, from + a, b) = Part(n, from, a + b)
<1> DEFINE s == Part(n, from, a)
           t == Part(n, from + a, b)
<1>1. s \in Seq(Byte) /\ Len(s) = a /\ \A k \in 1..a : s[k] = <<n, from + k>>
  BY Zenon, PartFacts
<1>a. t \in Seq(Byte) /\ Len(t) = b /\ \A k \in 1..b : t[k] = <<n, from + a + k>>
  BY PartFacts, from + a \in Nat
<1> HIDE DEF s, t
<1> DEFINE w == s \o t
<1>2. /\ w \in Seq(Byte) /\ Len(w) = Len(s) + Len(t)
      /\ \A k \in DOMAIN w : w[k] = IF k <= Len(s) THEN s[k] ELSE t[k - Len(s)]
  <2>1. s \in Seq(Byte) /\ t \in Seq(Byte)
    BY Zenon, <1>1, <1>a
  <2> QED
    BY <2>1
<1> HIDE DEF w
<1>3. Len(w) = a + b /\ DOMAIN w = 1..(a + b)
  BY <1>1, <1>a, <1>2
<1>4. \A k \in 1..(a + b) : w[k] = <<n, from + k>>
  <2>1. SUFFICES ASSUME NEW k \in 1..(a + b) PROVE w[k] = <<n, from + k>>
    OBVIOUS
  <2>2. CASE k <= a
    <3>1. k \in 1..a
      BY <2>2
    <3>2. w[k] = s[k]
      BY Zenon, <2>2, <1>1, <1>2, <1>3
    <3> QED
      BY Zenon, <3>1, <3>2, <1>1
  <2>3. CASE ~(k <= a)
    <3>1. k - a \in 1..b /\ from + a + (k - a) = from + k
      BY <2>3
    <3>2. w[k] = t[k - a]
      BY Zenon, <2>3, <1>1, <1>2, <1>3
    <3> QED
      BY Zenon, <3>1, <3>2, <1>a
  <2> QED
    BY Zenon, <2>2, <2>3
<1>5. w = [k \in 1..(a + b) |-> w[k]]
  BY <1>2, <1>3
<1>6. w = Part(n, from, a + b)
  BY Zenon, <1>4, <1>5 DEF Part
<1> QED
  BY Zenon, <1>6 DEF w, s, t

LEMMA OrderedCut ==
    ASSUME NEW wire \in Seq(Byte), NEW last \in Nat, Ordered(wire, last),
           NEW a \in Nat \ {0}, NEW b \in Nat, b <= Len(wire)
    PROVE  Ordered(SubSeq(wire, a, b), last)
<1> DEFINE w == SubSeq(wire, a, b)
<1>1. /\ \A j \in DOMAIN w : j \in Nat /\ j + a - 1 \in DOMAIN wire /\ w[j] = wire[j + a - 1]
  OBVIOUS
<1> HIDE DEF w
<1>2. SUFFICES ASSUME NEW j \in DOMAIN w
               PROVE  /\ w[j][1] \in 1..last
                      /\ \A i \in DOMAIN w : i < j => w[i][1] <= w[j][1] /\ (w[j][2] = 1 => w[i][1] < w[j][1])
  BY Zenon DEF Ordered, w
<1>3. w[j][1] \in 1..last
  BY Zenon, <1>1 DEF Ordered
<1>4. ASSUME NEW i \in DOMAIN w, i < j
      PROVE  w[i][1] <= w[j][1] /\ (w[j][2] = 1 => w[i][1] < w[j][1])
  <2>1. i + a - 1 < j + a - 1
    BY <1>1, <1>4
  <2> QED
    BY Zenon, <2>1, <1>1 DEF Ordered
<1> QED
  BY Zenon, <1>3, <1>4

LEMMA LaterCut ==
    ASSUME NEW wire \in Seq(Byte), NEW n \in Nat, Later(wire, n),
           NEW a \in Nat \ {0}, NEW b \in Nat, b <= Len(wire)
    PROVE  Later(SubSeq(wire, a, b), n)
<1>1. \A j \in DOMAIN SubSeq(wire, a, b) : j + a - 1 \in DOMAIN wire /\ SubSeq(wire, a, b)[j] = wire[j + a - 1]
  OBVIOUS
<1> QED
  BY Zenon, <1>1 DEF Later

(* Behind a byte of message n the messages that begin come after n. *)
LEMMA LaterBehind ==
    ASSUME NEW wire \in Seq(Byte), NEW last \in Nat, Ordered(wire, last), wire # <<>>,
           NEW a \in Nat, a > 1
    PROVE  Later(SubSeq(wire, a, Len(wire)), wire[1][1])
<1>1. \A j \in DOMAIN SubSeq(wire, a, Len(wire)) :
        /\ j + a - 1 \in DOMAIN wire /\ 1 < j + a - 1 /\ 1 \in DOMAIN wire
        /\ SubSeq(wire, a, Len(wire))[j] = wire[j + a - 1]
  OBVIOUS
<1>2. \A j \in DOMAIN wire : wire[j][1] \in Nat
  BY DEF Byte
<1> QED
  BY Zenon, <1>1, <1>2 DEF Later, Ordered

(* The next message goes behind the others. *)
LEMMA OrderedSend ==
    ASSUME NEW wire \in Seq(Byte), NEW last \in Nat, Ordered(wire, last),
           NEW size \in Nat
    PROVE  /\ wire \o Part(last + 1, 0, size) \in Seq(Byte)
           /\ Ordered(wire \o Part(last + 1, 0, size), last + 1)
           /\ \A n \in 0..last : Later(wire, n) => Later(wire \o Part(last + 1, 0, size), n)
<1> DEFINE t == Part(last + 1, 0, size)
           w == wire \o t
<1>1. t \in Seq(Byte) /\ Len(t) = size /\ \A k \in 1..size : t[k] = <<last + 1, k>>
  <2>1. t \in Seq(Byte) /\ Len(t) = size /\ \A k \in 1..size : t[k] = <<last + 1, 0 + k>>
    BY PartFacts, last + 1 \in Nat, 0 \in Nat
  <2> HIDE DEF t
  <2>2. \A k \in 1..size : 0 + k = k
    OBVIOUS
  <2> QED
    BY Zenon, <2>1, <2>2
<1> HIDE DEF t
<1>2. /\ w \in Seq(Byte) /\ DOMAIN w = 1..(Len(wire) + size) /\ DOMAIN wire = 1..Len(wire)
      /\ \A j \in DOMAIN w : w[j] = IF j <= Len(wire) THEN wire[j] ELSE t[j - Len(wire)]
  BY <1>1
<1> HIDE DEF w
<1>3. \A j \in DOMAIN w : j > Len(wire) => w[j] = <<last + 1, j - Len(wire)>>
  <2>1. SUFFICES ASSUME NEW j \in DOMAIN w, j > Len(wire) PROVE w[j] = <<last + 1, j - Len(wire)>>
    OBVIOUS
  <2>2. j - Len(wire) \in 1..size /\ w[j] = t[j - Len(wire)]
    BY <2>1, <1>2
  <2> QED
    BY Zenon, <2>2, <1>1
<1>4. \A j \in DOMAIN w : j <= Len(wire) => j \in DOMAIN wire /\ w[j] = wire[j]
  BY <1>2
<1>5. \A j \in DOMAIN w : w[j][1] \in 1..(last + 1) /\ (j > Len(wire) => w[j][1] = last + 1)
                          /\ (j <= Len(wire) => w[j][1] \in 1..last)
  BY <1>2, <1>3, <1>4 DEF Ordered
<1>6. Ordered(w, last + 1)
  <2>1. SUFFICES ASSUME NEW j \in DOMAIN w, NEW i \in DOMAIN w, i < j
                 PROVE  w[i][1] <= w[j][1] /\ (w[j][2] = 1 => w[i][1] < w[j][1])
    BY Zenon, <1>5 DEF Ordered
  <2>2. CASE j <= Len(wire)
    BY <2>1, <2>2, <1>2, <1>4 DEF Ordered
  <2>3. CASE j > Len(wire) /\ i <= Len(wire)
    BY <2>1, <2>3, <1>5
  <2>4. CASE j > Len(wire) /\ i > Len(wire)
    <3>1. j - Len(wire) # 1 /\ w[j][2] = j - Len(wire)
      BY <2>1, <2>4, <1>2, <1>3
    <3> QED
      BY <3>1, <2>4, <1>5
  <2> QED
    BY <2>2, <2>3, <2>4, <1>2
<1>7. ASSUME NEW n \in 0..last, Later(wire, n)
      PROVE  Later(w, n)
  BY <1>7, <1>2, <1>4, <1>5 DEF Later
<1> QED
  BY Zenon, <1>2, <1>6, <1>7 DEF w, t

LEMMA BytesPart ==
    ASSUME NEW n \in Nat, NEW size \in Nat
    PROVE  Bytes(n, size) = Part(n, 0, size)
<1>1. \A k \in 1..size : 0 + k = k
  OBVIOUS
<1> QED
  BY Zenon, <1>1 DEF Bytes, Part

-----------------------------------------------------------------------------
(* The steps of a session and of its peer *)

(* The types of the fields of a peer and a session. *)
LEMMA Fields ==
    ASSUME NEW q \in PeerType, NEW s \in SessionType
    PROVE  /\ q.wire \in Seq(Byte) /\ q.sent \in Seq(Kinds) /\ q.answers \in Nat
           /\ q.handled \in Seq([of : Nat, body : Seq(Byte)])
           /\ q.eof \in BOOLEAN /\ q.pieces \in BOOLEAN /\ q.pipelined \in BOOLEAN
           /\ s.at \in Places /\ s.body \in Seq(Byte) /\ s.parser \in ParserType
           /\ Len(q.wire) \in Nat /\ Len(q.sent) \in Nat /\ Len(q.handled) \in Nat
           /\ Len(s.body) \in Nat
           /\ s.parser.cs \in 0..HeadLen /\ s.parser.of \in Nat /\ HeadLen \in Nat \ {0}
           /\ \A n \in 1..Len(q.sent) : q.sent[n].body \in Nat
  BY HeadLenAssumption, HttpAssumption DEF PeerType, SessionType, ParserType

LEMMA LastBody ==
    ASSUME NEW q \in PeerType, NEW m \in Nat, Len(q.sent) = m + 1
    PROVE  q.sent[Len(q.sent)].body \in Nat
<1>1. Len(q.sent) \in 1..Len(q.sent)
  OBVIOUS
<1>2. \A n \in 1..Len(q.sent) : q.sent[n].body \in Nat
  BY HttpAssumption DEF PeerType
<1> QED
  BY Zenon, <1>1, <1>2

LEMMA FreshInv == SessionInv(Fresh, NoSession) /\ SessionInv(Fresh, NewRequest)
<1>1. Fresh \in PeerType
  BY DEF Fresh, PeerType
<1>2. ParserInit \in ParserType
  BY HeadLenAssumption DEF ParserInit, ParserType
<1>3. NoSession \in SessionType /\ NewRequest \in SessionType
  <2>1. "none" \in Places /\ "recv" \in Places /\ <<>> \in Seq(Byte)
    BY DEF Places
  <2>2. NoSession \in SessionType
    BY Zenon, <2>1, <1>2 DEF NoSession, SessionType
  <2> QED
    BY Zenon, <2>1, <2>2 DEF NewRequest, SessionType
<1>4. /\ Fresh.wire = <<>> /\ Fresh.sent = <<>> /\ Fresh.handled = <<>> /\ Fresh.answers = 0
      /\ NoSession.at = "none" /\ NewRequest.at = "recv"
      /\ NoSession.parser = ParserInit /\ NewRequest.parser = ParserInit
      /\ ParserInit.cs = 0 /\ ParserInit.nread = 0
  BY Zenon DEF Fresh, NoSession, NewRequest, ParserInit
<1>5. Ordered(<<>>, 0) /\ Later(<<>>, 0) /\ Len(<<>>) = 0
  BY DEF Ordered, Later
<1>6. OrderInv(Fresh, NoSession) /\ OrderInv(Fresh, NewRequest)
  BY <1>4, <1>5 DEF OrderInv, AtStart, Parsing
<1>7. ExactInv(Fresh, NoSession) /\ ExactInv(Fresh, NewRequest)
  BY <1>4, <1>5 DEF ExactInv, AtStart
<1> QED
  BY Zenon, <1>1, <1>3, <1>6, <1>7 DEF SessionInv

(* A request is sent. *)
LEMMA SendStep ==
    ASSUME NEW q, NEW s, SessionInv(q, s), s.at # "none", NEW kind \in Kinds, NEW q2,
           q2 = [q EXCEPT !.sent = Append(q.sent, kind),
                          !.wire = q.wire \o Bytes(Len(q.sent) + 1, HeadLen + kind.body),
                          !.pipelined = q.pipelined \/ q.answers < Len(q.sent)]
    PROVE  SessionInv(q2, s)
<1> DEFINE last == Len(q.sent)
           size == HeadLen + kind.body
           more == Part(last + 1, 0, size)
<1>1. q \in PeerType /\ s \in SessionType /\ OrderInv(q, s) /\ (~q.pieces /\ ~q.pipelined => ExactInv(q, s))
  BY Zenon DEF SessionInv
<1>2. last \in Nat /\ size \in Nat /\ kind.body \in Nat
  BY <1>1, Fields, HttpAssumption
<1>3. Bytes(last + 1, size) = more
  BY <1>2, BytesPart, last + 1 \in Nat
<1>4. /\ q.wire \o more \in Seq(Byte) /\ Ordered(q.wire \o more, last + 1)
      /\ \A n \in 0..last : Later(q.wire, n) => Later(q.wire \o more, n)
  BY Zenon, <1>1, <1>2, Fields, OrderedSend DEF OrderInv
<1>5. more \in Seq(Byte) /\ Len(more) = size
  BY <1>2, PartFacts, last + 1 \in Nat, 0 \in Nat
<1>6. /\ q2.sent = Append(q.sent, kind) /\ q2.wire = q.wire \o more
      /\ q2.handled = q.handled /\ q2.answers = q.answers /\ q2.pieces = q.pieces
      /\ q2.pipelined = (q.pipelined \/ q.answers < last)
  BY Zenon, <1>1, <1>3 DEF PeerType
<1> HIDE DEF more, size
<1>a. q2 \in PeerType
  <2>1. (q.pipelined \/ q.answers < last) \in BOOLEAN
    BY Zenon
  <2>2. Append(q.sent, kind) \in Seq(Kinds)
    BY <1>1, Fields
  <2> QED
    BY Zenon, <2>1, <2>2, <1>1, <1>3, <1>4 DEF PeerType, size
<1>7. /\ Len(q2.sent) = last + 1 /\ q2.sent[last + 1] = kind
      /\ \A j \in 1..last : q2.sent[j] = q.sent[j]
  BY <1>1, <1>6, Fields
<1>8. OrderInv(q2, s)
  <2>1. s.parser.of \in Nat /\ Len(q.handled) \in Nat /\ Len(q.handled) <= last
    BY Zenon, <1>1, Fields DEF OrderInv
  <2>2. Len(q.handled) \in 0..last /\ Len(q.handled) <= last + 1
        /\ \A n \in (Len(q.handled) + 1)..last : n \in 0..last /\ n \in (Len(q.handled) + 1)..(last + 1)
    BY <2>1, <1>2
  <2>3. s.at = "body" => s.parser.of \in 1..last
    BY <2>1, <1>1, <1>2 DEF OrderInv, Parsing
  <2> QED
    BY Zenon, <2>2, <2>3, <1>1, <1>4, <1>6, <1>7 DEF OrderInv
<1>9. ASSUME ~q2.pieces, ~q2.pipelined
      PROVE  ExactInv(q2, s)
  <2>1. /\ ~q.pieces /\ ~q.pipelined /\ ~(q.answers < last)
    BY Zenon, <1>6, <1>9
  <2>2. ExactInv(q, s)
    BY Zenon, <1>1, <2>1
  <2>3. q.answers = last /\ Len(q.handled) = last
    BY <1>1, <2>1, Fields DEF OrderInv
  <2>4. \A j \in DOMAIN q2.handled :
          q2.handled[j] = [of |-> j, body |-> Part(j, HeadLen, q2.sent[j].body)]
    <3>1. DOMAIN q.handled = 1..last
      BY <1>1, <2>3, Fields
    <3> QED
      BY Zenon, <3>1, <2>2, <1>6, <1>7 DEF ExactInv
  <2>5. AtStart(s) => /\ q2.answers = Len(q2.handled) /\ last + 1 = q2.answers + 1
                      /\ q2.wire = Part(last + 1, 0, Len(q2.wire))
                      /\ Len(q2.wire) <= HeadLen + q2.sent[last + 1].body
    <3>1. SUFFICES ASSUME AtStart(s) 
                   PROVE  /\ q2.answers = Len(q2.handled) /\ last + 1 = q2.answers + 1
                          /\ q2.wire = Part(last + 1, 0, Len(q2.wire))
                          /\ Len(q2.wire) <= HeadLen + q2.sent[last + 1].body
      OBVIOUS
    <3>2. last # q.answers + 1
      BY <1>2, <2>3
    <3>3. q.wire = <<>>
      BY Zenon, <3>1, <3>2, <2>2 DEF ExactInv
    <3>4. q2.wire = more
      BY <3>3, <1>5, <1>6
    <3>5. size <= HeadLen + kind.body
      BY <1>2 DEF size
    <3> QED
      BY Zenon, <3>4, <3>5, <1>5, <1>6, <1>7, <2>3 DEF more
  <2>6. s.at \notin {"body", "dispatch", "respond"}
    <3>1. last # q.answers + 1
      BY <1>2, <2>3
    <3> QED
      BY Zenon, <3>1, <2>2 DEF ExactInv
  <2> QED
    BY Zenon, <2>4, <2>5, <2>6, <1>7 DEF ExactInv
<1> QED
  BY Zenon, <1>1, <1>8, <1>9, <1>a DEF SessionInv

LEMMA PartEmpty == ASSUME NEW n, NEW from PROVE Part(n, from, 0) = <<>>
  BY DEF Part

LEMMA LaterWeaken ==
    ASSUME NEW wire \in Seq(Byte), NEW n \in Nat, NEW m \in Nat, m <= n, Later(wire, n)
    PROVE  Later(wire, m)
<1>1. \A j \in DOMAIN wire : wire[j][1] \in Nat
  BY DEF Byte
<1> QED
  BY <1>1 DEF Later

(* The peer closes: part of what is under way is lost. *)
LEMMA PeerCloseStep ==
    ASSUME NEW q, NEW s, SessionInv(q, s), s.at # "none", NEW k \in 0..Len(q.wire), NEW q2,
           q2 = [q EXCEPT !.eof = TRUE, !.wire = SubSeq(q.wire, 1, k)]
    PROVE  SessionInv(q2, s)
<1> DEFINE last == Len(q.sent)
<1>1. q \in PeerType /\ s \in SessionType /\ OrderInv(q, s) /\ (~q.pieces /\ ~q.pipelined => ExactInv(q, s))
  BY Zenon DEF SessionInv
<1>2. /\ q.wire \in Seq(Byte) /\ last \in Nat /\ Len(q.wire) \in Nat /\ k \in Nat /\ k <= Len(q.wire)
      /\ Len(s.body) \in Nat /\ HeadLen \in Nat /\ s.parser.of \in Nat /\ Len(q.handled) \in Nat
      /\ q.answers \in Nat
  BY <1>1, Fields
<1>3. SubSeq(q.wire, 1, k) \in Seq(Byte) /\ Len(SubSeq(q.wire, 1, k)) = k
  BY <1>2
<1>4. /\ q2.wire = SubSeq(q.wire, 1, k) /\ q2.sent = q.sent /\ q2.answers = q.answers
      /\ q2.handled = q.handled /\ q2.pieces = q.pieces /\ q2.pipelined = q.pipelined
      /\ q2 \in PeerType
  BY Zenon, <1>1, <1>3 DEF PeerType
<1>5. Ordered(q2.wire, last) /\ \A n \in Nat : Later(q.wire, n) => Later(q2.wire, n)
  <2>1. Ordered(q.wire, last) /\ 1 \in Nat \ {0}
    BY <1>1 DEF OrderInv
  <2> QED
    BY ZenonT(30), <2>1, <1>2, <1>4, OrderedCut, LaterCut
<1>6. OrderInv(q2, s)
  BY Zenon, <1>1, <1>2, <1>4, <1>5 DEF OrderInv
<1>7. ASSUME NEW from \in Nat, q.wire = Part(last, from, Len(q.wire))
      PROVE  q2.wire = Part(last, from, Len(q2.wire)) /\ Len(q2.wire) <= Len(q.wire)
  <2>1. SubSeq(Part(last, from, Len(q.wire)), 1, k) = Part(last, from, k)
    <3>1. last \in Nat /\ from \in Nat /\ Len(q.wire) \in Nat /\ k \in 0..Len(q.wire)
      BY Zenon, <1>2, <1>7
    <3> HIDE DEF last
    <3> QED
      BY Zenon, <3>1, PartPrefix
  <2> QED
    BY Zenon, <2>1, <1>2, <1>3, <1>4, <1>7
<1>8. q.wire = <<>> => q2.wire = <<>>
  BY <1>2, <1>3, <1>4
<1>9. ASSUME ~q2.pieces, ~q2.pipelined
      PROVE  ExactInv(q2, s)
  <2>1. ExactInv(q, s)
    BY Zenon, <1>1, <1>4, <1>9
  <2>3. AtStart(s) =>
           \/ last = q.answers /\ q2.wire = <<>>
           \/ /\ last = q.answers + 1
              /\ q2.wire = Part(last, 0, Len(q2.wire))
              /\ Len(q2.wire) <= HeadLen + q.sent[last].body
    <3>1. CASE AtStart(s) /\ last = q.answers /\ q.wire = <<>>
      BY Zenon, <3>1, <1>8
    <3>2. CASE /\ AtStart(s) /\ last = q.answers + 1 /\ q.wire = Part(last, 0, Len(q.wire))
               /\ Len(q.wire) <= HeadLen + q.sent[last].body
      <4>1. q2.wire = Part(last, 0, Len(q2.wire)) /\ Len(q2.wire) <= Len(q.wire)
        BY Zenon, <3>2, <1>7, 0 \in Nat
      <4>2. q.sent[last].body \in Nat
        BY Zenon, <3>2, <1>1, <1>2, LastBody
      <4>3. Len(q2.wire) <= HeadLen + q.sent[last].body
        <5>1. \A x, y, z \in Nat : x <= y /\ y <= HeadLen + z => x <= HeadLen + z
          BY HeadLenAssumption
        <5>2. Len(q2.wire) \in Nat
          BY <1>3, <1>4
        <5>3. /\ Len(q.wire) \in Nat /\ Len(q2.wire) <= Len(q.wire)
              /\ Len(q.wire) <= HeadLen + q.sent[last].body
          BY Zenon, <4>1, <3>2, <1>2
        <5> QED
          BY Zenon, <5>1, <5>2, <5>3, <4>2
      <4> QED
        BY Zenon, <4>1, <4>3, <3>2
    <3> QED
      BY Zenon, <3>1, <3>2, <2>1 DEF ExactInv
  <2>4. s.at = "body" => /\ q2.wire = Part(last, HeadLen + Len(s.body), Len(q2.wire))
                         /\ Len(s.body) + Len(q2.wire) <= q.sent[last].body
    <3>1. SUFFICES ASSUME s.at = "body"
                   PROVE  /\ q2.wire = Part(last, HeadLen + Len(s.body), Len(q2.wire))
                          /\ Len(s.body) + Len(q2.wire) <= q.sent[last].body
      OBVIOUS
    <3>2. /\ q.wire = Part(last, HeadLen + Len(s.body), Len(q.wire)) /\ last = q.answers + 1
          /\ Len(s.body) + Len(q.wire) <= q.sent[last].body
      BY Zenon, <3>1, <2>1 DEF ExactInv
    <3>3. q.sent[last].body \in Nat
      BY Zenon, <3>2, <1>1, <1>2, LastBody
    <3>4. q2.wire = Part(last, HeadLen + Len(s.body), Len(q2.wire)) /\ Len(q2.wire) <= Len(q.wire)
      BY <3>2, <1>7, <1>2, HeadLen + Len(s.body) \in Nat
    <3>5. Len(q2.wire) = k
      BY Zenon, <1>3, <1>4
    <3>6. \A x, y, z \in Nat : x + y <= z /\ k <= y => x + k <= z
      OBVIOUS
    <3>7. Len(s.body) + k <= q.sent[last].body
      BY Zenon, <3>2, <3>3, <3>6, <1>2
    <3> QED
      BY Zenon, <3>4, <3>5, <3>7
  <2> QED
    BY Zenon, <2>1, <2>3, <2>4, <1>4, <1>8 DEF ExactInv
<1> QED
  BY Zenon, <1>1, <1>4, <1>6, <1>9 DEF SessionInv

(* recv_request begins to spin at the end of the stream. *)
LEMMA EofStep ==
    ASSUME NEW q, NEW s, SessionInv(q, s), s.at # "none", NEW s2, s2 = [s EXCEPT !.at = "spin"]
    PROVE  SessionInv(q, s2) /\ s2.at = "spin"
<1>1. /\ s2.at = "spin" /\ s2.parser = s.parser /\ s2 \in SessionType
  BY Zenon DEF SessionInv, SessionType, Places
<1> QED
  BY Zenon, <1>1 DEF SessionInv, OrderInv, ExactInv, AtStart, Parsing

(* One read of n bytes, the result e of the execute() behind it, and the     *)
(* peer afterwards, unless recv_request gives up.                            *)
Read(q, s, n, e, q2) ==
  /\ SessionInv(q, s) /\ s.at = "recv" /\ n \in 1..Len(q.wire)
  /\ e = Execute(s.parser, SubSeq(q.wire, 1, n)) /\ (e.abort \/ ~e.parser.error)
  /\ q2 = [q EXCEPT !.wire = SubSeq(q.wire, n + 1, Len(q.wire)),
                    !.pieces = q.pieces \/ s.parser.cs > 0]

(* The request that the parser is in is one that no servlet has got. *)
LEMMA RecvFacts ==
    ASSUME NEW q, NEW s, NEW n, NEW e, NEW q2, Read(q, s, n, e, q2)
    PROVE  /\ q2 \in PeerType /\ e.parser \in ParserType /\ e.parser.nread = e.parser.cs
           /\ e.parser.cs > 0
           /\ e.parser.of \in (Len(q2.handled) + 1)..Len(q2.sent)
           /\ Later(q2.wire, e.parser.of) /\ Ordered(q2.wire, Len(q2.sent))
           /\ q2.sent = q.sent /\ q2.handled = q.handled /\ q2.answers = q.answers
           /\ q2.wire = SubSeq(q.wire, n + 1, Len(q.wire))
           /\ q2.pieces = (q.pieces \/ s.parser.cs > 0) /\ q2.pipelined = q.pipelined
           /\ e.abort \in BOOLEAN /\ (e.abort => s.parser.cs > 0)
<1> DEFINE data == SubSeq(q.wire, 1, n)
           p == s.parser
<1>0. /\ SessionInv(q, s) /\ s.at = "recv" /\ n \in 1..Len(q.wire)
      /\ e = Execute(p, data) /\ (e.abort \/ ~e.parser.error)
      /\ q2 = [q EXCEPT !.wire = SubSeq(q.wire, n + 1, Len(q.wire)),
                        !.pieces = q.pieces \/ s.parser.cs > 0]
  BY Zenon DEF Read
<1>1. q \in PeerType /\ s \in SessionType /\ OrderInv(q, s)
  BY Zenon, <1>0 DEF SessionInv
<1>2. /\ q.wire \in Seq(Byte) /\ Len(q.wire) \in Nat /\ n \in Nat \ {0} /\ n <= Len(q.wire)
      /\ p \in ParserType /\ p.cs \in Nat /\ p.of \in Nat /\ Len(q.handled) \in Nat /\ Len(q.sent) \in Nat
  BY <1>0, <1>1, Fields
<1>3. /\ data \in Seq(Byte) /\ data # <<>> /\ Len(data) = n /\ data[1] = q.wire[1]
      /\ q.wire # <<>> /\ q.wire[1][1] \in Nat
  <2>1. data \in Seq(Byte) /\ Len(data) = n /\ data[1] = q.wire[1]
    BY <1>2
  <2>2. data # <<>> /\ q.wire # <<>>
    BY <2>1, <1>2
  <2>3. q.wire[1][1] \in Nat
    BY <1>2 DEF Byte
  <2> QED
    BY Zenon, <2>1, <2>2, <2>3
<1>4. p.nread = p.cs
  BY Zenon, <1>1 DEF OrderInv
<1>5. /\ e.parser \in ParserType /\ e.parser.nread = e.parser.cs
      /\ e.abort \in BOOLEAN /\ (p.cs = 0 => ~e.abort)
      /\ p.cs <= e.parser.cs
      /\ ~e.parser.error => e.parser.cs > 0
      /\ ~e.parser.error /\ p.cs = 0 => e.parser.of = q.wire[1][1] /\ q.wire[1][2] = 1
      /\ p.cs > 0 => e.parser.of = p.of
  <2> HIDE DEF data, p
  <2>1. /\ e.parser \in ParserType /\ e.parser.nread = e.parser.cs
        /\ e.abort \in BOOLEAN /\ (p.cs = 0 => ~e.abort)
        /\ p.cs <= e.parser.cs
        /\ ~e.parser.error => e.parser.cs > 0
        /\ ~e.parser.error /\ p.cs = 0 => e.parser.of = data[1][1] /\ data[1][2] = 1
        /\ p.cs > 0 => e.parser.of = p.of
    BY <1>0, <1>2, <1>3, <1>4, ExecuteFacts
  <2> QED
    BY Zenon, <2>1, <1>3
<1>6. SubSeq(q.wire, n + 1, Len(q.wire)) \in Seq(Byte)
  BY <1>2
<1>7. /\ q2.sent = q.sent /\ q2.handled = q.handled /\ q2.answers = q.answers
      /\ q2.wire = SubSeq(q.wire, n + 1, Len(q.wire))
      /\ q2.pieces = (q.pieces \/ s.parser.cs > 0) /\ q2.pipelined = q.pipelined
  BY Zenon, <1>0, <1>1 DEF PeerType
<1>8. q2 \in PeerType
  <2>1. (q.pieces \/ s.parser.cs > 0) \in BOOLEAN
    BY Zenon
  <2> QED
    BY Zenon, <2>1, <1>0, <1>1, <1>6 DEF PeerType
<1>9. PICK a \in Nat \ {0} : a = n + 1 /\ a > 1
  BY <1>2
<1>10. Ordered(q.wire, Len(q.sent)) /\ Ordered(q2.wire, Len(q.sent))
  <2>1. Ordered(q.wire, Len(q.sent)) /\ Len(q.wire) <= Len(q.wire)
    BY <1>1, <1>2 DEF OrderInv
  <2> QED
    BY Zenon, <2>1, <1>2, <1>7, <1>9, OrderedCut
<1>11. CASE p.cs = 0
  <2>1. e.parser.of = q.wire[1][1] /\ q.wire[1][2] = 1 /\ e.parser.cs > 0
    BY Zenon, <1>0, <1>11, <1>5
  <2>2. q.wire[1][1] \in 1..Len(q.sent) /\ q.wire[1][1] > Len(q.handled)
    <3>1. 1 \in DOMAIN q.wire /\ Later(q.wire, Len(q.handled))
      BY <1>0, <1>1, <1>2, <1>11 DEF OrderInv, AtStart
    <3> QED
      BY Zenon, <3>1, <2>1, <1>10 DEF Ordered, Later
  <2>3. Later(q2.wire, q.wire[1][1])
    <3>1. a \in Nat /\ a > 1 /\ a <= Len(q.wire) + 1
      BY <1>2, <1>9
    <3> QED
      BY Zenon, <3>1, <1>2, <1>3, <1>7, <1>9, <1>10, LaterBehind
  <2>4. e.parser.of \in (Len(q.handled) + 1)..Len(q.sent)
    <3>1. \A x \in Nat : x \in 1..Len(q.sent) /\ x > Len(q.handled) => x \in (Len(q.handled) + 1)..Len(q.sent)
      BY <1>2
    <3> QED
      BY Zenon, <3>1, <2>1, <2>2, <1>3
  <2> QED
    BY Zenon, <2>1, <2>3, <2>4, <1>5, <1>7, <1>8, <1>10, <1>11
<1>12. CASE p.cs > 0
  <2>1. p.of \in (Len(q.handled) + 1)..Len(q.sent) /\ Later(q.wire, p.of)
    BY Zenon, <1>0, <1>1, <1>12 DEF OrderInv, Parsing
  <2>2. Later(q2.wire, p.of)
    <3>1. Len(q.wire) <= Len(q.wire)
      BY <1>2
    <3> QED
      BY Zenon, <3>1, <2>1, <1>2, <1>7, <1>9, LaterCut
  <2>3. e.parser.cs > 0
    BY <1>12, <1>5, <1>2 DEF ParserType
  <2> QED
    BY Zenon, <2>1, <2>2, <2>3, <1>5, <1>7, <1>8, <1>10, <1>12
<1> QED
  BY <1>2, <1>11, <1>12

(* A read that leaves the head unfinished, or aborts. *)
LEMMA RecvMoreStep ==
    ASSUME NEW q, NEW s, NEW n, NEW e, NEW q2, Read(q, s, n, e, q2),
           NEW s2, s2 = [s EXCEPT !.parser = e.parser]
    PROVE  SessionInv(q2, s2) /\ s2.at = "recv"
<1>1. /\ q \in PeerType /\ s \in SessionType /\ OrderInv(q, s)
      /\ ~q.pieces /\ ~q.pipelined => ExactInv(q, s)
  BY Zenon DEF Read, SessionInv
<1>2. /\ q2 \in PeerType /\ e.parser \in ParserType /\ e.parser.nread = e.parser.cs
      /\ e.parser.cs > 0
      /\ e.parser.of \in (Len(q2.handled) + 1)..Len(q2.sent)
      /\ Later(q2.wire, e.parser.of) /\ Ordered(q2.wire, Len(q2.sent))
      /\ q2.sent = q.sent /\ q2.handled = q.handled /\ q2.answers = q.answers
      /\ q2.pieces = (q.pieces \/ s.parser.cs > 0) /\ q2.pipelined = q.pipelined
  BY RecvFacts
<1>3. s2.at = "recv" /\ s2.parser = e.parser /\ s2 \in SessionType
  <2>1. s.at = "recv"
    BY Zenon DEF Read
  <2> QED
    BY Zenon, <2>1, <1>1, <1>2 DEF SessionType
<1>4. ~AtStart(s2) /\ e.parser.cs # 0
  BY <1>2, <1>3 DEF AtStart, ParserType
<1>5. OrderInv(q2, s2)
  BY Zenon, <1>1, <1>2, <1>3, <1>4 DEF OrderInv
<1>6. ~q2.pieces /\ ~q2.pipelined => ExactInv(q2, s2)
  BY Zenon, <1>1, <1>2, <1>3, <1>4 DEF ExactInv
<1> QED
  BY Zenon, <1>2, <1>3, <1>5, <1>6 DEF SessionInv

LEMMA MinTwo ==
    ASSUME NEW a \in Nat, NEW b \in Nat
    PROVE  Min({a, b}) = IF a <= b THEN a ELSE b
  BY DEF Min

LEMMA PartFirst ==
    ASSUME NEW last \in Nat, NEW size \in Nat, size > 0
    PROVE  Part(last, 0, size)[1] = <<last, 1>>
  BY DEF Part

(* A first read of n bytes that reaches behind the head. *)
LEMMA HeadSplit ==
    ASSUME NEW last \in Nat, NEW size \in Nat, NEW n \in 1..size, HeadLen <= n
    PROVE  /\ SubSeq(SubSeq(Part(last, 0, size), 1, n), HeadLen + 1, n) = Part(last, HeadLen, n - HeadLen)
           /\ SubSeq(Part(last, 0, size), n + 1, size) = Part(last, n, size - n)
           /\ Len(Part(last, HeadLen, n - HeadLen)) = n - HeadLen /\ n - HeadLen \in Nat
           /\ Len(Part(last, n, size - n)) = size - n /\ size - n \in Nat
<1>1. /\ HeadLen \in Nat /\ 0 \in Nat /\ n \in Nat /\ n \in 0..size /\ HeadLen \in 0..n
      /\ n - HeadLen \in Nat /\ size - n \in Nat /\ 0 + HeadLen = HeadLen /\ 0 + n = n
  BY HeadLenAssumption
<1>2. SubSeq(Part(last, 0, size), 1, n) = Part(last, 0, n)
  BY <1>1, PartPrefix
<1>3. PICK h \in 1..(n + 1), k \in Nat : h = HeadLen + 1 /\ HeadLen = h - 1 /\ k = n - HeadLen /\ k = n + 1 - h
  BY <1>1
<1>4. PICK a \in 1..(size + 1), l \in Nat : a = n + 1 /\ n = a - 1 /\ l = size - n /\ l = size + 1 - a
  BY <1>1
<1>a. h \in 1..(n + 1) /\ a \in 1..(size + 1) /\ k \in Nat /\ l \in Nat /\ HeadLen \in Nat /\ n \in Nat
  BY Zenon, <1>1, <1>3, <1>4
<1>5. SubSeq(Part(last, 0, n), h, n) = Part(last, h - 1, n + 1 - h)
  BY Zenon, <1>a, PartTailZero
<1>6. SubSeq(Part(last, 0, size), a, size) = Part(last, a - 1, size + 1 - a)
  BY Zenon, <1>a, PartTailZero
<1>7. Len(Part(last, HeadLen, k)) = k /\ Len(Part(last, n, l)) = l
  BY Zenon, <1>a, PartFacts
<1> QED
  BY Zenon, <1>1, <1>2, <1>3, <1>4, <1>5, <1>6, <1>7

(* The head is complete: AfterHead(). *)
LEMMA RecvHeadStep ==
    ASSUME NEW q, NEW s, NEW n, NEW e, NEW q2, Read(q, s, n, e, q2), ~e.abort, Finished(e.parser),
           NEW length, length = q.sent[e.parser.of].body,
           NEW s2, s2 = [at |-> IF length > Len(e.rest) THEN "body" ELSE "dispatch",
                         parser |-> e.parser,
                         body |-> SubSeq(e.rest, 1, Min({length, Len(e.rest)}))]
    PROVE  SessionInv(q2, s2) /\ s2.at # "none"
<1> DEFINE last == Len(q.sent)
           p == s.parser
           data == SubSeq(q.wire, 1, n)
<1>0. /\ SessionInv(q, s) /\ s.at = "recv" /\ n \in 1..Len(q.wire) /\ e = Execute(p, data)
  BY Zenon DEF Read
<1>1. /\ q \in PeerType /\ s \in SessionType /\ OrderInv(q, s)
      /\ ~q.pieces /\ ~q.pipelined => ExactInv(q, s)
  BY Zenon, <1>0 DEF SessionInv
<1>2. /\ q2 \in PeerType /\ e.parser \in ParserType /\ e.parser.nread = e.parser.cs
      /\ e.parser.cs > 0
      /\ e.parser.of \in (Len(q2.handled) + 1)..Len(q2.sent)
      /\ Later(q2.wire, e.parser.of) /\ Ordered(q2.wire, Len(q2.sent))
      /\ q2.sent = q.sent /\ q2.handled = q.handled /\ q2.answers = q.answers
      /\ q2.wire = SubSeq(q.wire, n + 1, Len(q.wire))
      /\ q2.pieces = (q.pieces \/ s.parser.cs > 0) /\ q2.pipelined = q.pipelined
  BY SMTT(30), RecvFacts
<1>3. /\ q.wire \in Seq(Byte) /\ Len(q.wire) \in Nat /\ n \in Nat \ {0} /\ n <= Len(q.wire)
      /\ p \in ParserType /\ p.cs \in Nat /\ HeadLen \in Nat \ {0} /\ Len(q.handled) \in Nat
      /\ last \in Nat /\ \A i \in 1..last : q.sent[i].body \in Nat
  <2>a. Len(q.wire) \in Nat
    BY Zenon, <1>1, Fields
  <2>b. n \in 1..Len(q.wire)
    BY Zenon, <1>0
  <2>1. n \in Nat \ {0} /\ n <= Len(q.wire)
    BY <2>a, <2>b
  <2>2. p.cs \in Nat
    BY <1>1, Fields
  <2> QED
    BY Zenon, <2>1, <2>2, <1>1, Fields
<1>4. data \in Seq(Byte) /\ data # <<>> /\ Len(data) = n /\ data[1] = q.wire[1]
  <2>1. data \in Seq(Byte) /\ Len(data) = n /\ data[1] = q.wire[1]
    BY <1>3
  <2> QED
    BY Zenon, <2>1, <1>3
<1> HIDE DEF data
<1>5. /\ e.parser.cs = HeadLen /\ e.rest = SubSeq(data, HeadLen + 1, n) /\ ~e.parser.error
      /\ p.cs = 0 => HeadLen <= n /\ e.parser.of = q.wire[1][1]
  <2>1. e.parser.cs = HeadLen /\ ~e.parser.error
    BY Zenon DEF Finished
  <2>2. p.nread = p.cs
    BY Zenon, <1>1 DEF OrderInv
  <2>3. /\ e.rest = SubSeq(data, e.parser.cs + 1, Len(data))
        /\ p.cs = 0 => e.parser.cs <= Len(data)
        /\ ~e.parser.error /\ p.cs = 0 => e.parser.of = data[1][1]
    <3>1. /\ p \in ParserType /\ data \in Seq(Byte) /\ data # <<>> /\ p.nread = p.cs
          /\ e = Execute(p, data)
      BY Zenon, <2>2, <1>0, <1>3, <1>4
    <3> HIDE DEF p
    <3> QED
      BY Zenon, <3>1, ExecuteFacts
  <2> QED
    BY Zenon, <2>1, <2>3, <1>4
<1> DEFINE rest == e.rest
<1>6. rest \in Seq(Byte) /\ Len(rest) \in Nat
  BY <1>3, <1>4, <1>5
<1>7. e.parser.of \in 1..last /\ length \in Nat
  <2>a. Len(q.handled) \in Nat /\ last \in Nat /\ e.parser.of \in (Len(q.handled) + 1)..last
    BY Zenon, <1>2, <1>3
  <2>1. e.parser.of \in 1..last
    BY Zenon, <2>a, PositionBehind
  <2> QED
    BY Zenon, <2>1, <1>3
<1> DEFINE m == Min({length, Len(rest)})
<1>8. m = (IF length <= Len(rest) THEN length ELSE Len(rest))
  BY Zenon, <1>6, <1>7, MinTwo
<1>9. SubSeq(rest, 1, m) \in Seq(Byte) /\ Len(SubSeq(rest, 1, m)) = m /\ m \in Nat /\ m <= length
  <2> HIDE DEF rest, m
  <2>1. m \in Nat /\ m <= length /\ m <= Len(rest)
    BY SMTT(30), <1>6, <1>7, <1>8
  <2>2. \A t \in Seq(Byte), k \in Nat : k <= Len(t) =>
          SubSeq(t, 1, k) \in Seq(Byte) /\ Len(SubSeq(t, 1, k)) = k
    OBVIOUS
  <2> QED
    BY Zenon, <2>1, <2>2, <1>6
<1> HIDE DEF rest, m
<1>10. /\ s2.parser = e.parser /\ s2.body = SubSeq(rest, 1, m) /\ s2 \in SessionType
       /\ s2.at = (IF length > Len(rest) THEN "body" ELSE "dispatch")
  BY Zenon, <1>2, <1>9 DEF SessionType, Places, rest, m
<1>11. s2.at \in {"body", "dispatch"} /\ ~AtStart(s2) /\ s2.at # "respond" /\ s2.at # "none"
  BY Zenon, <1>10 DEF AtStart
<1>12. OrderInv(q2, s2)
  <2>1. Len(s2.body) <= q2.sent[s2.parser.of].body
    BY Zenon, <1>2, <1>9, <1>10
  <2>2. q2.answers <= Len(q2.handled) /\ Len(q2.handled) <= Len(q2.sent)
    BY Zenon, <1>1, <1>2 DEF OrderInv
  <2> QED
    BY Zenon, <2>1, <2>2, <1>2, <1>10, <1>11 DEF OrderInv
<1>13. ASSUME ~q2.pieces, ~q2.pipelined
       PROVE  ExactInv(q2, s2)
  <2>1. ~q.pieces /\ ~q.pipelined /\ ~(p.cs > 0)
    BY Zenon, <1>13, <1>2
  <2>2. p.cs = 0
    BY <2>1, <1>3
  <2>3. AtStart(s) /\ ExactInv(q, s) /\ q.wire # <<>>
    <3>1. q.wire # <<>>
      BY <1>3
    <3> QED
      BY Zenon, <3>1, <2>1, <2>2, <1>0, <1>1 DEF AtStart
  <2>4. /\ q.answers = Len(q.handled) /\ last = q.answers + 1
        /\ q.wire = Part(last, 0, Len(q.wire))
        /\ Len(q.wire) <= HeadLen + q.sent[last].body
        /\ \A j \in DOMAIN q.handled :
             q.handled[j] = [of |-> j, body |-> Part(j, HeadLen, q.sent[j].body)]
    BY Zenon, <2>3 DEF ExactInv
  <2>5. e.parser.of = last
    <3>1. Part(last, 0, Len(q.wire))[1] = <<last, 1>>
      BY <1>3, PartFirst
    <3> QED
      BY SMTT(30), <3>1, <2>2, <2>4, <1>5
  <2>6. /\ SubSeq(SubSeq(Part(last, 0, Len(q.wire)), 1, n), HeadLen + 1, n) = Part(last, HeadLen, n - HeadLen)
        /\ SubSeq(Part(last, 0, Len(q.wire)), n + 1, Len(q.wire)) = Part(last, n, Len(q.wire) - n)
        /\ Len(Part(last, HeadLen, n - HeadLen)) = n - HeadLen /\ n - HeadLen \in Nat
        /\ Len(Part(last, n, Len(q.wire) - n)) = Len(q.wire) - n /\ Len(q.wire) - n \in Nat
    <3>1. n \in 1..Len(q.wire) /\ HeadLen <= n /\ last \in Nat /\ Len(q.wire) \in Nat
      BY Zenon, <1>0, <1>3, <1>5, <2>2
    <3> HIDE DEF last
    <3> QED
      BY Zenon, <3>1, HeadSplit
  <2>7. rest = Part(last, HeadLen, n - HeadLen) /\ n - HeadLen \in Nat
    BY Zenon, <2>4, <2>6, <1>5 DEF rest, data
  <2>8. q2.wire = Part(last, n, Len(q.wire) - n) /\ Len(q.wire) - n \in Nat
    BY Zenon, <2>4, <2>6, <1>2
  <2>9. Len(rest) = n - HeadLen /\ Len(q2.wire) = Len(q.wire) - n
    BY Zenon, <2>6, <2>7, <2>8
  <2>10. length = q.sent[last].body /\ Len(rest) <= length /\ Len(rest) + Len(q2.wire) <= length
    <3>1. length = q.sent[last].body
      BY Zenon, <2>5
    <3>2. Len(q.wire) <= HeadLen + length
      BY Zenon, <3>1, <2>4
    <3>3. \A x, y, z \in Nat : /\ n <= x /\ x <= y + z
                               => n - y <= z /\ (n - y) + (x - n) <= z
      BY <1>3
    <3>4. n - HeadLen <= length /\ (n - HeadLen) + (Len(q.wire) - n) <= length
      BY Zenon, <3>2, <3>3, <1>3, <1>7
    <3> QED
      BY Zenon, <3>1, <3>4, <2>9
  <2>11. s2.body = rest
    <3>1. m = Len(rest)
      BY <2>10, <1>6, <1>7, <1>8
    <3>2. SubSeq(rest, 1, Len(rest)) = rest
      BY <1>6
    <3> QED
      BY Zenon, <3>1, <3>2, <1>10
  <2>12. s2.body = Part(last, HeadLen, Len(s2.body))
    BY Zenon, <2>7, <2>9, <2>11
  <2>13. q2.wire = Part(last, HeadLen + Len(s2.body), Len(q2.wire))
    <3>1. HeadLen + (n - HeadLen) = n
      BY <1>3
    <3> QED
      BY Zenon, <3>1, <2>8, <2>9, <2>11
  <2>14. CASE s2.at = "body"
    BY Zenon, <2>4, <2>5, <2>10, <2>11, <2>12, <2>13, <2>14, <1>2, <1>10, <1>11 DEF ExactInv
  <2>15. CASE s2.at = "dispatch"
    <3>1. ~(length > Len(rest))
      BY Zenon, <2>15, <1>10
    <3>2. Len(rest) = length /\ Len(q2.wire) = 0
      BY <3>1, <2>8, <2>9, <2>10, <1>6, <1>7
    <3>3. q2.wire = <<>>
      BY Zenon, <3>2, <2>13, PartEmpty
    <3> QED
      BY Zenon, <3>2, <3>3, <2>4, <2>5, <2>10, <2>11, <2>12, <2>15, <1>2, <1>10, <1>11 DEF ExactInv
  <2> QED
    BY Zenon, <2>14, <2>15, <1>11
<1> QED
  BY Zenon, <1>2, <1>10, <1>11, <1>12, <1>13 DEF SessionInv

(* read_fixed_size() brings the rest of the body. *)
LEMMA RecvBodyStep ==
    ASSUME NEW q, NEW s, SessionInv(q, s), s.at = "body",
           NEW m, m = q.sent[s.parser.of].body - Len(s.body), m <= Len(q.wire),
           NEW s2, s2 = [s EXCEPT !.at = "dispatch", !.body = s.body \o SubSeq(q.wire, 1, m)],
           NEW q2, q2 = [q EXCEPT !.wire = SubSeq(q.wire, m + 1, Len(q.wire))]
    PROVE  SessionInv(q2, s2) /\ s2.at = "dispatch"
<1> DEFINE last == Len(q.sent)
<1>1. /\ q \in PeerType /\ s \in SessionType /\ OrderInv(q, s)
      /\ ~q.pieces /\ ~q.pipelined => ExactInv(q, s)
  BY Zenon DEF SessionInv
<1>2. /\ q.wire \in Seq(Byte) /\ Len(q.wire) \in Nat /\ s.body \in Seq(Byte) /\ Len(s.body) \in Nat
      /\ HeadLen \in Nat /\ Len(q.handled) \in Nat /\ last \in Nat
      /\ \A i \in 1..last : q.sent[i].body \in Nat
  BY Zenon, <1>1, Fields
<1>3. s.parser.of \in (Len(q.handled) + 1)..last /\ Later(q.wire, s.parser.of) /\ Parsing(s)
  BY Zenon, <1>1 DEF OrderInv, Parsing
<1>4. s.parser.of \in 1..last /\ q.sent[s.parser.of].body \in Nat /\ s.parser.of \in Nat
  <2>a. Len(q.handled) \in Nat /\ last \in Nat /\ s.parser.of \in (Len(q.handled) + 1)..last
    BY Zenon, <1>2, <1>3
  <2>1. s.parser.of \in 1..last /\ s.parser.of \in Nat
    BY Zenon, <2>a, PositionBehind
  <2> QED
    BY Zenon, <2>1, <1>2
<1>5. m \in Nat /\ q.sent[s.parser.of].body = Len(s.body) + m
  <2>1. Len(s.body) <= q.sent[s.parser.of].body
    BY Zenon, <1>1 DEF OrderInv
  <2>2. q.sent[s.parser.of].body \in Nat /\ Len(s.body) \in Nat
    BY Zenon, <1>2, <1>4
  <2> QED
    BY Zenon, <2>1, <2>2, Remainder
<1>6. /\ SubSeq(q.wire, m + 1, Len(q.wire)) \in Seq(Byte)
      /\ s.body \o SubSeq(q.wire, 1, m) \in Seq(Byte)
  BY Zenon, <1>2, <1>5, CutType
<1>7. /\ q2.sent = q.sent /\ q2.handled = q.handled /\ q2.answers = q.answers
      /\ q2.wire = SubSeq(q.wire, m + 1, Len(q.wire))
      /\ q2.pieces = q.pieces /\ q2.pipelined = q.pipelined /\ q2 \in PeerType
  BY Zenon, <1>1, <1>6 DEF PeerType
<1>8. /\ s2.at = "dispatch" /\ s2.parser = s.parser /\ s2.body = s.body \o SubSeq(q.wire, 1, m)
      /\ s2 \in SessionType
  BY Zenon, <1>1, <1>6 DEF SessionType, Places
<1>9. Ordered(q2.wire, last) /\ Later(q2.wire, s.parser.of)
  <2>1. PICK a \in Nat \ {0} : a = m + 1
    BY Zenon, <1>5, Successor
  <2>2. Len(q.wire) <= Len(q.wire)
    BY Zenon, <1>2, CutAll
  <2>3. Ordered(q.wire, last) /\ a \in Nat \ {0} /\ q2.wire = SubSeq(q.wire, a, Len(q.wire))
    BY Zenon, <2>1, <1>1, <1>7 DEF OrderInv
  <2> QED
    BY Zenon, <2>2, <2>3, <1>2, <1>3, <1>4, OrderedCut, LaterCut
<1>10. ~AtStart(s2) /\ Parsing(s2)
  BY Zenon, <1>8 DEF AtStart, Parsing
<1>11. OrderInv(q2, s2)
  BY Zenon, <1>1, <1>3, <1>7, <1>8, <1>9, <1>10 DEF OrderInv
<1>12. ASSUME ~q2.pieces, ~q2.pipelined
       PROVE  ExactInv(q2, s2)
  <2>1. ExactInv(q, s)
    BY Zenon, <1>1, <1>7, <1>12
  <2>2. /\ q.answers = Len(q.handled) /\ last = q.answers + 1 /\ s.parser.of = last
        /\ s.body = Part(last, HeadLen, Len(s.body))
        /\ q.wire = Part(last, HeadLen + Len(s.body), Len(q.wire))
        /\ Len(s.body) + Len(q.wire) <= q.sent[last].body
    BY Zenon, <2>1 DEF ExactInv
  <2>3. m = Len(q.wire)
    <3>1. Len(s.body) + Len(q.wire) <= Len(s.body) + m
      BY Zenon, <2>2, <1>5
    <3> QED
      BY Zenon, <3>1, <1>2, <1>5, NoGap
  <2>4. q2.wire = <<>> /\ SubSeq(q.wire, 1, m) = q.wire
    <3>1. q2.wire = SubSeq(q.wire, Len(q.wire) + 1, Len(q.wire))
      BY Zenon, <2>3, <1>7
    <3>2. SubSeq(q.wire, Len(q.wire) + 1, Len(q.wire)) = <<>> /\ SubSeq(q.wire, 1, Len(q.wire)) = q.wire
      BY Zenon, <1>2, CutAll
    <3> QED
      BY Zenon, <3>1, <3>2, <2>3
  <2>5. s2.body = Part(last, HeadLen, Len(s.body) + Len(q.wire))
    <3>1. Part(last, HeadLen, Len(s.body)) \o Part(last, HeadLen + Len(s.body), Len(q.wire))
            = Part(last, HeadLen, Len(s.body) + Len(q.wire))
      <4>1. \A b, w \in Nat : Part(last, HeadLen, b) \o Part(last, HeadLen + b, w) = Part(last, HeadLen, b + w)
        <5>1. last \in Nat /\ HeadLen \in Nat
          BY Zenon, <1>2
        <5> HIDE DEF last
        <5> QED
          BY Zenon, <5>1, PartJoin
      <4> QED
        BY Zenon, <4>1, <1>2
    <3> QED
      BY Zenon, <3>1, <2>2, <2>4, <1>8
  <2>6. s2.body = Part(last, HeadLen, q.sent[last].body)
    BY Zenon, <2>2, <2>3, <2>5, <1>5
  <2>7. \A j \in DOMAIN q.handled :
          q.handled[j] = [of |-> j, body |-> Part(j, HeadLen, q.sent[j].body)]
    BY Zenon, <2>1 DEF ExactInv
  <2>8. s2.at # "body" /\ s2.at # "respond"
    BY Zenon, <1>8
  <2>9. /\ Len(q2.sent) = last /\ q2.answers = Len(q2.handled) /\ last = q2.answers + 1
        /\ s2.parser.of = last /\ s2.body = Part(last, HeadLen, q2.sent[last].body)
    BY Zenon, <2>2, <2>6, <1>7, <1>8
  <2>10. \A j \in DOMAIN q2.handled :
          q2.handled[j] = [of |-> j, body |-> Part(j, HeadLen, q2.sent[j].body)]
    BY Zenon, <2>7, <1>7
  <2> HIDE DEF last
  <2> QED
    BY Zenon, <2>4, <2>8, <2>9, <2>10, <1>10 DEF ExactInv
<1> QED
  BY Zenon, <1>7, <1>8, <1>11, <1>12 DEF SessionInv

(* The request is given to a servlet. *)
LEMMA DispatchStep ==
    ASSUME NEW q, NEW s, SessionInv(q, s), s.at = "dispatch", NEW pc \in {"respond", "stuck"},
           NEW q2, q2 = [q EXCEPT !.handled = Append(q.handled, [of |-> s.parser.of, body |-> s.body])],
           NEW s2, s2 = [s EXCEPT !.at = pc]
    PROVE  SessionInv(q2, s2) /\ s2.at = pc
<1> DEFINE last == Len(q.sent)
           req == [of |-> s.parser.of, body |-> s.body]
<1>1. /\ q \in PeerType /\ s \in SessionType /\ OrderInv(q, s)
      /\ ~q.pieces /\ ~q.pipelined => ExactInv(q, s)
  BY Zenon DEF SessionInv
<1>2. /\ q.wire \in Seq(Byte) /\ Len(q.handled) \in Nat /\ last \in Nat /\ s.parser.of \in Nat
      /\ q.handled \in Seq([of : Nat, body : Seq(Byte)]) /\ s.body \in Seq(Byte) /\ q.answers \in Nat
  BY Zenon, <1>1, Fields
<1>3. s.parser.of \in (Len(q.handled) + 1)..last /\ Later(q.wire, s.parser.of)
  BY Zenon, <1>1 DEF OrderInv, Parsing
<1>4. /\ Append(q.handled, req) \in Seq([of : Nat, body : Seq(Byte)])
      /\ Len(Append(q.handled, req)) = Len(q.handled) + 1
      /\ \A j \in 1..Len(q.handled) : Append(q.handled, req)[j] = q.handled[j]
      /\ Append(q.handled, req)[Len(q.handled) + 1] = req
      /\ DOMAIN Append(q.handled, req) = 1..(Len(q.handled) + 1) /\ DOMAIN q.handled = 1..Len(q.handled)
  <2>1. req \in [of : Nat, body : Seq(Byte)]
    BY Zenon, <1>2
  <2>2. PICK R, t, x : R = [of : Nat, body : Seq(Byte)] /\ t = q.handled /\ x = req
    BY Zenon
  <2>3. t \in Seq(R) /\ x \in R
    BY Zenon, <2>1, <2>2, <1>2
  <2>4. /\ Append(t, x) \in Seq(R) /\ Len(Append(t, x)) = Len(t) + 1
        /\ \A j \in 1..Len(t) : Append(t, x)[j] = t[j]
        /\ Append(t, x)[Len(t) + 1] = x
        /\ DOMAIN Append(t, x) = 1..(Len(t) + 1) /\ DOMAIN t = 1..Len(t)
    BY <2>3
  <2> HIDE DEF req
  <2> QED
    BY Zenon, <2>2, <2>4
<1>5. /\ q2.sent = q.sent /\ q2.handled = Append(q.handled, req) /\ q2.answers = q.answers
      /\ q2.wire = q.wire /\ q2.pieces = q.pieces /\ q2.pipelined = q.pipelined /\ q2 \in PeerType
  BY Zenon, <1>1, <1>4 DEF PeerType
<1>6. s2.at = pc /\ s2.parser = s.parser /\ s2 \in SessionType
  BY Zenon, <1>1 DEF SessionType, Places
<1> HIDE DEF req
<1>7. ~AtStart(s2) /\ ~Parsing(s2) /\ s2.at # "body" /\ s2.at # "none" /\ s2.at # "dispatch"
  BY Zenon, <1>6 DEF AtStart, Parsing
<1>8. Len(q2.handled) = Len(q.handled) + 1 /\ q2.answers < Len(q2.handled) /\ q2.answers <= Len(q2.handled)
      /\ Len(q2.handled) <= last /\ Len(q2.handled) <= s.parser.of /\ Len(q2.handled) \in Nat
  <2>1. \A a, h, n, l \in Nat : a <= h /\ n \in (h + 1)..l
           => a < h + 1 /\ a <= h + 1 /\ h + 1 <= l /\ h + 1 <= n /\ h + 1 \in Nat
    OBVIOUS
  <2>2. q.answers <= Len(q.handled)
    BY Zenon, <1>1 DEF OrderInv
  <2>3. /\ q.answers < Len(q.handled) + 1 /\ q.answers <= Len(q.handled) + 1
        /\ Len(q.handled) + 1 <= last /\ Len(q.handled) + 1 <= s.parser.of
        /\ Len(q.handled) + 1 \in Nat
    <3>1. /\ q.answers \in Nat /\ Len(q.handled) \in Nat /\ s.parser.of \in Nat /\ last \in Nat
          /\ s.parser.of \in (Len(q.handled) + 1)..last
      BY Zenon, <1>2, <1>3
    <3> HIDE DEF last
    <3> QED
      BY Zenon, <3>1, <2>1, <2>2
  <2> QED
    BY Zenon, <2>3, <1>4, <1>5
<1>9. Later(q2.wire, Len(q2.handled))
  BY Zenon, <1>2, <1>3, <1>5, <1>8, LaterWeaken
<1>10. OrderInv(q2, s2)
  BY Zenon, <1>1, <1>5, <1>6, <1>7, <1>8, <1>9 DEF OrderInv
<1>11. ASSUME ~q2.pieces, ~q2.pipelined
       PROVE  ExactInv(q2, s2)
  <2>1. ExactInv(q, s)
    BY Zenon, <1>1, <1>5, <1>11
  <2>2. /\ q.answers = Len(q.handled) /\ last = q.answers + 1 /\ s.parser.of = last
        /\ s.body = Part(last, HeadLen, q.sent[last].body) /\ q.wire = <<>>
    BY Zenon, <2>1 DEF ExactInv
  <2>3. \A j \in DOMAIN q2.handled :
          q2.handled[j] = [of |-> j, body |-> Part(j, HeadLen, q2.sent[j].body)]
    <3>1. SUFFICES ASSUME NEW j \in 1..(Len(q.handled) + 1)
                   PROVE  q2.handled[j] = [of |-> j, body |-> Part(j, HeadLen, q.sent[j].body)]
      BY Zenon, <1>4, <1>5
    <3>2. CASE j \in 1..Len(q.handled)
      BY Zenon, <3>2, <2>1, <1>4, <1>5 DEF ExactInv
    <3>3. CASE j = Len(q.handled) + 1
      <4>1. j = last
        BY Zenon, <3>3, <2>2
      <4> QED
        BY Zenon, <4>1, <3>3, <2>2, <1>4, <1>5 DEF req
    <3>4. j \in 1..Len(q.handled) \/ j = Len(q.handled) + 1
      BY <1>2
    <3> QED
      BY Zenon, <3>2, <3>3, <3>4
  <2>4. Len(q2.handled) = last
    BY Zenon, <2>2, <1>8
  <2> QED
    BY Zenon, <2>2, <2>3, <2>4, <1>5, <1>6, <1>7 DEF ExactInv
<1> QED
  BY Zenon, <1>5, <1>6, <1>10, <1>11 DEF SessionInv

(* The response is sent, and the connection is kept. *)
LEMMA RespondStep ==
    ASSUME NEW q, NEW s, SessionInv(q, s), s.at = "respond",
           NEW q2, q2 = [q EXCEPT !.answers = q.answers + 1]
    PROVE  SessionInv(q2, NewRequest) /\ NewRequest.at = "recv"
<1>1. /\ q \in PeerType /\ s \in SessionType /\ OrderInv(q, s)
      /\ ~q.pieces /\ ~q.pipelined => ExactInv(q, s)
  BY Zenon DEF SessionInv
<1>2. Len(q.handled) \in Nat /\ q.answers \in Nat /\ Len(q.sent) \in Nat
  BY Zenon, <1>1, Fields
<1>3. /\ q2.sent = q.sent /\ q2.handled = q.handled /\ q2.answers = q.answers + 1
      /\ q2.wire = q.wire /\ q2.pieces = q.pieces /\ q2.pipelined = q.pipelined /\ q2 \in PeerType
  <2>1. PICK n \in Nat : n = q.answers + 1
    BY <1>2
  <2>2. q2 = [q EXCEPT !.answers = n]
    BY Zenon, <2>1
  <2>3. /\ q2.sent = q.sent /\ q2.handled = q.handled /\ q2.answers = n
        /\ q2.wire = q.wire /\ q2.pieces = q.pieces /\ q2.pipelined = q.pipelined /\ q2 \in PeerType
    BY Zenon, <2>2, <1>1 DEF PeerType
  <2> QED
    BY Zenon, <2>1, <2>3
<1>4. /\ NewRequest.at = "recv" /\ NewRequest.parser = ParserInit
      /\ ParserInit.cs = 0 /\ ParserInit.nread = 0 /\ NewRequest \in SessionType
  BY Zenon, FreshInv DEF NewRequest, NoSession, ParserInit, SessionInv
<1>5. ~Parsing(NewRequest)
  BY <1>4 DEF Parsing
<1>6. q.answers < Len(q.handled) /\ q.answers + 1 <= Len(q.handled) /\ Later(q.wire, Len(q.handled))
  BY <1>1, <1>2 DEF OrderInv
<1>7. OrderInv(q2, NewRequest)
  BY Zenon, <1>1, <1>3, <1>4, <1>5, <1>6 DEF OrderInv
<1>8. ~q2.pieces /\ ~q2.pipelined => ExactInv(q2, NewRequest)
  BY Zenon, <1>1, <1>3, <1>4 DEF ExactInv
<1> QED
  BY Zenon, <1>3, <1>4, <1>7, <1>8 DEF SessionInv

-----------------------------------------------------------------------------
(* Steps of the server: LoopsInv *)

LoopType ==
  [at : {"free", "begin", "test", "accept", "handshake"},
   sock : Addrs \cup {None}, peer : Clients \cup {None}]

(* bind(), start() and stop() leave the accept loops alone. *)
LEMMA CallLoops ==
    ASSUME LoopsInv,
           \/ \E a \in Addrs : BindOk(a) \/ BindFail(a)
           \/ Start \/ Stop
    PROVE  LoopsInv' /\ loop' = loop
<1>0. /\ TcpTypeOK /\ stopTasks <= calls /\ MaxCalls \in Nat
      /\ calls \in 0..MaxCalls /\ stopTasks \in 0..MaxCalls
      /\ open \subseteq Held(m_sockets, loop)
      /\ \A i \in Loops : Walking(i) /\ loop[i].sock \notin open => life # "new"
      /\ \A i \in Loops : ~Walking(i) => loop[i].sock = None
  BY Zenon, TcpAssumption DEF LoopsInv, TcpTypeOK
<1>1. ASSUME NEW a \in Addrs, BindOk(a)
      PROVE  LoopsInv' /\ loop' = loop
  <2>1. TcpTypeOK' /\ (stopTasks <= calls)'
    BY <1>0, <1>1 DEF TcpTypeOK, BindOk, Call, Listen
  <2>2. (open \subseteq Held(m_sockets, loop))'
    BY Zenon, <1>0, <1>1 DEF Held, BindOk, Listen
  <2>3. (\A i \in Loops : Walking(i) /\ loop[i].sock \notin open => life # "new")'
    BY Zenon, <1>0, <1>1 DEF Walking, BindOk, Listen
  <2>4. /\ (life = "new" => stopTasks = 0)' /\ (life = "stopped" => m_is_stop)'
        /\ loop' = loop
    BY Zenon, <1>1 DEF LoopsInv, BindOk
  <2>5. (\A i \in Loops : ~Walking(i) => loop[i].sock = None)'
    BY Zenon, <1>0, <1>1 DEF Walking, BindOk
  <2> QED
    BY Zenon, <2>1, <2>2, <2>3, <2>4, <2>5 DEF LoopsInv
<1>2. ASSUME NEW a \in Addrs, BindFail(a)
      PROVE  LoopsInv' /\ loop' = loop
  <2>1. TcpTypeOK' /\ (stopTasks <= calls)'
    BY <1>0, <1>2 DEF TcpTypeOK, BindFail, Call, Destroy
  <2>2. (open \subseteq Held(m_sockets, loop))'
    BY Zenon, <1>0, <1>2 DEF Held, BindFail, Destroy
  <2>3. (\A i \in Loops : Walking(i) /\ loop[i].sock \notin open => life # "new")'
    BY Zenon, <1>0, <1>2 DEF Walking, BindFail, Destroy, Held
  <2>4. /\ (life = "new" => stopTasks = 0)' /\ (life = "stopped" => m_is_stop)'
        /\ loop' = loop
    BY Zenon, <1>2 DEF LoopsInv, BindFail
  <2>5. (\A i \in Loops : ~Walking(i) => loop[i].sock = None)'
    BY Zenon, <1>0, <1>2 DEF Walking, BindFail
  <2> QED
    BY Zenon, <2>1, <2>2, <2>3, <2>4, <2>5 DEF LoopsInv
<1>3. ASSUME Start
      PROVE  LoopsInv' /\ loop' = loop
  <2>1. TcpTypeOK' /\ (stopTasks <= calls)'
    <3>1. calls' \in 0..MaxCalls /\ stopTasks' <= calls' /\ stopTasks' = stopTasks
      BY <1>0, <1>3 DEF Start, Call
    <3>2. m_is_stop' \in BOOLEAN
      BY Zenon, <1>0, <1>3 DEF TcpTypeOK, Start
    <3>3. starting' \subseteq m_sockets' /\ life' \in {"new", "stopped", "restarted"}
      BY Zenon, <1>0, <1>3 DEF TcpTypeOK, Start
    <3> QED
      BY Zenon, <3>1, <3>2, <3>3, <1>0, <1>3 DEF TcpTypeOK, Start
  <2>2. (open \subseteq Held(m_sockets, loop))'
    BY Zenon, <1>0, <1>3 DEF Held, Start
  <2>3. (\A i \in Loops : Walking(i) /\ loop[i].sock \notin open => life # "new")'
    BY Zenon, <1>0, <1>3 DEF Walking, Start
  <2>4. /\ (life = "new" => stopTasks = 0)' /\ (life = "stopped" => m_is_stop)'
        /\ loop' = loop
    BY Zenon, <1>3 DEF LoopsInv, Start
  <2>5. (\A i \in Loops : ~Walking(i) => loop[i].sock = None)'
    BY Zenon, <1>0, <1>3 DEF Walking, Start
  <2> QED
    BY Zenon, <2>1, <2>2, <2>3, <2>4, <2>5 DEF LoopsInv
<1>4. ASSUME Stop
      PROVE  LoopsInv' /\ loop' = loop
  <2>1. TcpTypeOK' /\ (stopTasks <= calls)'
    BY <1>0, <1>4 DEF TcpTypeOK, Stop, Call
  <2>2. (open \subseteq Held(m_sockets, loop))'
    BY Zenon, <1>0, <1>4 DEF Held, Stop
  <2>3. (\A i \in Loops : Walking(i) /\ loop[i].sock \notin open => life # "new")'
    BY Zenon, <1>0, <1>4 DEF Walking, Stop
  <2>4. /\ (life = "new" => stopTasks = 0)' /\ (life = "stopped" => m_is_stop)'
        /\ loop' = loop
    BY Zenon, <1>4 DEF LoopsInv, Stop
  <2>5. (\A i \in Loops : ~Walking(i) => loop[i].sock = None)'
    BY Zenon, <1>0, <1>4 DEF Walking, Stop
  <2> QED
    BY Zenon, <2>1, <2>2, <2>3, <2>4, <2>5 DEF LoopsInv
<1> QED
  BY Zenon, <1>1, <1>2, <1>3, <1>4

(* The task of a stop() closes what the loops hold: by then life says so. *)
LEMMA StopTaskLoops ==
    ASSUME LoopsInv, StopTask
    PROVE  LoopsInv' /\ loop' = loop
<1>0. /\ TcpTypeOK /\ stopTasks <= calls /\ MaxCalls \in Nat
      /\ calls \in 0..MaxCalls /\ stopTasks \in 0..MaxCalls /\ life # "new"
  BY TcpAssumption DEF LoopsInv, TcpTypeOK, StopTask
<1>1. TcpTypeOK' /\ (stopTasks <= calls)'
  BY <1>0 DEF TcpTypeOK, StopTask, CloseAll, Destroy
<1>2. (open \subseteq Held(m_sockets, loop))'
  BY Zenon DEF Held, StopTask, CloseAll, Destroy
<1>3. life' # "new" /\ (life = "stopped" => m_is_stop)' /\ loop' = loop
  BY Zenon, <1>0 DEF StopTask, LoopsInv
<1>4. (\A i \in Loops : ~Walking(i) => loop[i].sock = None)'
  BY Zenon, <1>3 DEF Walking, LoopsInv
<1> QED
  BY Zenon, <1>1, <1>2, <1>3, <1>4 DEF LoopsInv

(* An accept loop begins. *)
LEMMA StartNextLoops ==
    ASSUME LoopsInv, NEW a \in Addrs, NEW i \in Loops, StartNext(a, i)
    PROVE  LoopsInv' /\ loop' = [loop EXCEPT ![i] = [at |-> "begin", sock |-> a, peer |-> None]]
                     /\ client' = client
<1>0. /\ TcpTypeOK /\ loop \in [Loops -> LoopType] /\ None \notin Addrs
      /\ open \subseteq Held(m_sockets, loop) /\ open \subseteq Addrs /\ a \in open
  BY Zenon, TcpAssumption DEF LoopsInv, TcpTypeOK, LoopType, StartNext
<1>1. /\ loop' = [loop EXCEPT ![i] = [at |-> "begin", sock |-> a, peer |-> None]]
      /\ loop' \in [Loops -> LoopType]
      /\ \A j \in Loops : loop'[j] = IF j = i THEN [at |-> "begin", sock |-> a, peer |-> None] ELSE loop[j]
  BY Zenon, <1>0 DEF StartNext, LoopType
<1>2. TcpTypeOK'
  BY Zenon, <1>0, <1>1 DEF TcpTypeOK, StartNext, LoopType
<1>3. (open \subseteq Held(m_sockets, loop))'
  <2>1. loop[i].sock = None
    BY Zenon DEF LoopsInv, StartNext, Walking
  <2> QED
    BY <2>1, <1>0, <1>1 DEF Held, StartNext
<1>4. (\A j \in Loops : Walking(j) /\ loop[j].sock \notin open => life # "new")'
  BY <1>0, <1>1 DEF Walking, StartNext, LoopsInv
<1>5. (\A j \in Loops : ~Walking(j) => loop[j].sock = None)'
  BY Zenon, <1>0, <1>1 DEF Walking, LoopsInv
<1>6. /\ (life = "new" => stopTasks = 0)' /\ (life = "stopped" => m_is_stop)'
      /\ (stopTasks <= calls)' /\ client' = client
  BY Zenon DEF LoopsInv, StartNext
<1> QED
  BY Zenon, <1>1, <1>2, <1>3, <1>4, <1>5, <1>6 DEF LoopsInv

(* A turn of an accept loop keeps its socket. *)
LEMMA TurnLoops ==
    ASSUME LoopsInv, NEW i \in Loops, Walking(i),
           NEW at \in {"test", "accept", "handshake"}, NEW c \in Clients \cup {None},
           loop' = [loop EXCEPT ![i].at = at, ![i].peer = c],
           UNCHANGED <<m_is_stop, m_sockets, open, starting, stopTasks, where,
                       calls, life, bound, torn>>
    PROVE  LoopsInv'
<1>0. TcpTypeOK /\ loop \in [Loops -> LoopType]
  BY Zenon DEF LoopsInv, TcpTypeOK, LoopType
<1>1. /\ loop' \in [Loops -> LoopType]
      /\ \A j \in Loops : loop'[j].sock = loop[j].sock /\ (Walking(j)' <=> Walking(j))
  BY Zenon, <1>0 DEF LoopType, Walking
<1>2. TcpTypeOK'
  BY Zenon, <1>0, <1>1 DEF TcpTypeOK, LoopType
<1>3. Held(m_sockets', loop') = Held(m_sockets, loop)
  BY <1>1 DEF Held
<1>4. (open \subseteq Held(m_sockets, loop))'
  BY Zenon, <1>3 DEF LoopsInv
<1>5. /\ (\A j \in Loops : Walking(j) /\ loop[j].sock \notin open => life # "new")'
      /\ (\A j \in Loops : ~Walking(j) => loop[j].sock = None)'
  <2>1. /\ \A j \in Loops : Walking(j) /\ loop[j].sock \notin open => life # "new"
        /\ \A j \in Loops : ~Walking(j) => loop[j].sock = None
        /\ life' = life /\ open' = open
    BY Zenon DEF LoopsInv
  <2> QED
    BY Zenon, <2>1, <1>1
<1> QED
  BY Zenon, <1>2, <1>4, <1>5 DEF LoopsInv

(* An accept loop ends, and with it the socket that only it still held. *)
LEMMA EndLoops ==
    ASSUME LoopsInv, NEW i \in Loops, loop' = [loop EXCEPT ![i] = Idle],
           open' = Destroy(m_sockets, loop'),
           UNCHANGED <<m_is_stop, m_sockets, starting, stopTasks, where,
                       calls, life, bound, torn>>
    PROVE  LoopsInv'
<1>0. /\ TcpTypeOK /\ loop \in [Loops -> LoopType] /\ m_sockets \subseteq open
      /\ Idle \in LoopType /\ Idle.at = "free" /\ Idle.sock = None
  BY Zenon DEF LoopsInv, TcpTypeOK, LoopType, Idle
<1>1. /\ loop' \in [Loops -> LoopType]
      /\ \A j \in Loops : loop'[j] = IF j = i THEN Idle ELSE loop[j]
  BY Zenon, <1>0
<1>2. /\ open' \subseteq Held(m_sockets, loop') /\ open' \subseteq open /\ m_sockets \subseteq open'
      /\ \A j \in Loops : loop'[j].sock \in open => loop'[j].sock \in open'
  BY Zenon, <1>0 DEF Destroy, Held
<1>3. TcpTypeOK'
  BY Zenon, <1>0, <1>1, <1>2 DEF TcpTypeOK, LoopType
<1>4. /\ (\A j \in Loops : Walking(j) /\ loop[j].sock \notin open => life # "new")'
      /\ (\A j \in Loops : ~Walking(j) => loop[j].sock = None)'
  BY Zenon, <1>0, <1>1, <1>2 DEF LoopsInv, Walking
<1>5. (open \subseteq Held(m_sockets, loop))'
  BY Zenon, <1>2
<1> QED
  BY Zenon, <1>3, <1>4, <1>5 DEF LoopsInv

-----------------------------------------------------------------------------
(* Steps of the server: the clients *)

SameServing == \A c \in Clients : client'[c] = "serving" <=> client[c] = "serving"

(* A step that starts and ends no handshake. *)
LEMMA ClientsKeep ==
    ASSUME ClientsInv, client' \in [Clients -> ClientStates],
           \A c \in Clients : client[c] = "handshake" => client'[c] = "handshake",
           \A i \in Loops : InHandshake(i)' => loop'[i] = loop[i]
    PROVE  ClientsInv'
<1>1. \A i \in Loops : InHandshake(i)' => InHandshake(i) /\ loop'[i].peer = loop[i].peer
  BY Zenon DEF InHandshake
<1>2. (\A i \in Loops : InHandshake(i) => loop[i].peer \in Clients /\ client[loop[i].peer] = "handshake")'
  BY Zenon, <1>1 DEF ClientsInv
<1>3. (\A i, j \in Loops : InHandshake(i) /\ InHandshake(j) /\ loop[i].peer = loop[j].peer => i = j)'
  BY Zenon, <1>1 DEF ClientsInv
<1> QED
  BY Zenon, <1>2, <1>3 DEF ClientsInv

(* A client that waits is reset, or not. *)
LEMMA ResetFacts ==
    ASSUME ClientsInv, NEW left, client' = Reset(left)
    PROVE  /\ client' \in [Clients -> ClientStates] /\ SameServing
           /\ \A c \in Clients : client[c] = "handshake" => client'[c] = "handshake"
<1>1. client \in [Clients -> ClientStates]
  BY Zenon DEF ClientsInv
<1>2. /\ client' \in [Clients -> ClientStates]
      /\ \A c \in Clients : client'[c] = client[c] \/ (client[c] = "pending" /\ client'[c] = "refused")
  BY Zenon, <1>1 DEF Reset, ClientStates
<1>3. SameServing
  BY Zenon, <1>2 DEF SameServing
<1>4. \A c \in Clients : client[c] = "handshake" => client'[c] = "handshake"
  BY Zenon, <1>2
<1> QED
  BY Zenon, <1>2, <1>3, <1>4

LEMMA CallStep ==
    ASSUME LoopsInv, ClientsInv,
           \/ \E a \in Addrs : BindOk(a) \/ BindFail(a)
           \/ Start \/ Stop \/ StopTask
    PROVE  LoopsInv' /\ ClientsInv' /\ SameServing
<1>1. LoopsInv' /\ loop' = loop
  BY Zenon, CallLoops, StopTaskLoops
<1>2. client' = client \/ client' = Reset(open')
  BY Zenon DEF BindOk, BindFail, Start, Stop, StopTask
<1>3. CASE client' = client
  <2>1. /\ client' \in [Clients -> ClientStates] /\ SameServing
        /\ \A c \in Clients : client[c] = "handshake" => client'[c] = "handshake"
    BY Zenon, <1>3 DEF ClientsInv, SameServing
  <2> QED
    BY Zenon, <2>1, <1>1, ClientsKeep
<1>4. CASE client' = Reset(open')
  <2>1. /\ client' \in [Clients -> ClientStates] /\ SameServing
        /\ \A c \in Clients : client[c] = "handshake" => client'[c] = "handshake"
    BY Zenon, <1>4, ResetFacts
  <2> QED
    BY Zenon, <2>1, <1>1, ClientsKeep
<1> QED
  BY Zenon, <1>2, <1>3, <1>4

LEMMA StartNextStep ==
    ASSUME LoopsInv, ClientsInv, NEW a \in Addrs, NEW i \in Loops, StartNext(a, i)
    PROVE  LoopsInv' /\ ClientsInv' /\ SameServing
<1>1. /\ LoopsInv' /\ client' = client
      /\ loop' = [loop EXCEPT ![i] = [at |-> "begin", sock |-> a, peer |-> None]]
  BY Zenon, StartNextLoops
<1>2. loop \in [Loops -> LoopType]
  BY Zenon DEF LoopsInv, TcpTypeOK, LoopType
<1>3. \A j \in Loops : InHandshake(j)' => loop'[j] = loop[j]
  BY Zenon, <1>1, <1>2 DEF InHandshake
<1>4. /\ client' \in [Clients -> ClientStates] /\ SameServing
      /\ \A c \in Clients : client[c] = "handshake" => client'[c] = "handshake"
  BY Zenon, <1>1 DEF ClientsInv, SameServing
<1> QED
  BY Zenon, <1>1, <1>3, <1>4, ClientsKeep

LEMMA LoopTestStep ==
    ASSUME LoopsInv, ClientsInv, NEW i \in Loops, LoopTest(i)
    PROVE  LoopsInv' /\ ClientsInv' /\ SameServing
<1>0. loop \in [Loops -> LoopType] /\ loop[i].peer \in Clients \cup {None} /\ Walking(i)
  BY Zenon DEF LoopsInv, TcpTypeOK, LoopType, LoopTest, Walking
<1>1. CASE m_is_stop
  <2>1. /\ loop' = [loop EXCEPT ![i] = Idle] /\ open' = Destroy(m_sockets, loop')
        /\ client' = Reset(open')
        /\ UNCHANGED <<m_is_stop, m_sockets, starting, stopTasks, where,
                       calls, life, bound, torn>>
    BY Zenon, <1>1 DEF LoopTest
  <2>2. LoopsInv'
    BY Zenon, <2>1, EndLoops
  <2>3. \A j \in Loops : InHandshake(j)' => loop'[j] = loop[j]
    BY Zenon, <2>1, <1>0 DEF InHandshake, Idle
  <2>4. /\ client' \in [Clients -> ClientStates] /\ SameServing
        /\ \A c \in Clients : client[c] = "handshake" => client'[c] = "handshake"
    BY Zenon, <2>1, ResetFacts
  <2> QED
    BY Zenon, <2>2, <2>3, <2>4, ClientsKeep
<1>2. CASE ~m_is_stop
  <2>1. /\ loop' = [loop EXCEPT ![i].at = "accept"] /\ client' = client
        /\ UNCHANGED <<m_is_stop, m_sockets, open, starting, stopTasks, where,
                       calls, life, bound, torn>>
    BY Zenon, <1>2 DEF LoopTest
  <2>2. /\ loop' = [loop EXCEPT ![i].at = "accept", ![i].peer = loop[i].peer]
        /\ \A j \in Loops : InHandshake(j)' => loop'[j] = loop[j]
    BY Zenon, <2>1, <1>0 DEF InHandshake, LoopType
  <2>3. LoopsInv'
    BY Zenon, <2>1, <2>2, <1>0, TurnLoops
  <2>4. /\ client' \in [Clients -> ClientStates] /\ SameServing
        /\ \A c \in Clients : client[c] = "handshake" => client'[c] = "handshake"
    BY Zenon, <2>1 DEF ClientsInv, SameServing
  <2> QED
    BY Zenon, <2>2, <2>3, <2>4, ClientsKeep
<1> QED
  BY Zenon, <1>1, <1>2

LEMMA AcceptNothingStep ==
    ASSUME LoopsInv, ClientsInv, NEW i \in Loops, AcceptNothing(i)
    PROVE  LoopsInv' /\ ClientsInv' /\ SameServing
<1>0. loop \in [Loops -> LoopType] /\ loop[i].peer \in Clients \cup {None} /\ Walking(i)
  BY Zenon DEF LoopsInv, TcpTypeOK, LoopType, AcceptNothing, Walking
<1>1. /\ loop' = [loop EXCEPT ![i].at = "test"] /\ client' = client
      /\ UNCHANGED <<m_is_stop, m_sockets, open, starting, stopTasks, where,
                     calls, life, bound, torn>>
  BY Zenon DEF AcceptNothing
<1>2. /\ loop' = [loop EXCEPT ![i].at = "test", ![i].peer = loop[i].peer]
      /\ \A j \in Loops : InHandshake(j)' => loop'[j] = loop[j]
  BY Zenon, <1>1, <1>0 DEF InHandshake, LoopType
<1>3. LoopsInv'
  BY Zenon, <1>0, <1>1, <1>2, TurnLoops
<1>4. /\ client' \in [Clients -> ClientStates] /\ SameServing
      /\ \A c \in Clients : client[c] = "handshake" => client'[c] = "handshake"
  BY Zenon, <1>1 DEF ClientsInv, SameServing
<1> QED
  BY Zenon, <1>2, <1>3, <1>4, ClientsKeep

LEMMA AcceptClientStep ==
    ASSUME LoopsInv, ClientsInv, NEW i \in Loops, NEW c \in Clients, AcceptClient(i, c)
    PROVE  LoopsInv' /\ ClientsInv' /\ SameServing
<1>0. /\ loop \in [Loops -> LoopType] /\ loop[i].peer \in Clients \cup {None} /\ Walking(i)
      /\ client \in [Clients -> ClientStates] /\ client[c] = "pending"
      /\ c \in Clients \cup {None}
      /\ UNCHANGED <<m_is_stop, m_sockets, open, starting, stopTasks, where,
                     calls, life, bound, torn>>
  BY Zenon DEF LoopsInv, ClientsInv, TcpTypeOK, LoopType, AcceptClient, CanAccept, Walking
<1>1. CASE loop[i].sock \in TlsAddrs
  <2>1. /\ loop' = [loop EXCEPT ![i].at = "handshake", ![i].peer = c]
        /\ client' = [client EXCEPT ![c] = "handshake"]
    BY Zenon, <1>1 DEF AcceptClient, AcceptTls
  <2>2. LoopsInv'
    BY Zenon, <2>1, <1>0, TurnLoops
  <2>3. /\ client' \in [Clients -> ClientStates]
        /\ \A d \in Clients : client'[d] = IF d = c THEN "handshake" ELSE client[d]
    BY Zenon, <2>1, <1>0 DEF ClientStates
  <2>4. SameServing
    BY Zenon, <2>3, <1>0 DEF SameServing
  <2>5. /\ loop'[i].at = "handshake" /\ loop'[i].peer = c
        /\ \A j \in Loops \ {i} : loop'[j] = loop[j]
    BY Zenon, <2>1, <1>0 DEF LoopType
  <2>6. \A j \in Loops : InHandshake(j) => loop[j].peer \in Clients /\ loop[j].peer # c
    BY Zenon, <1>0 DEF ClientsInv
  <2>7. (\A j \in Loops : InHandshake(j) => loop[j].peer \in Clients /\ client[loop[j].peer] = "handshake")'
    BY <2>3, <2>5, <2>6 DEF ClientsInv, InHandshake
  <2>8. (\A j, k \in Loops : InHandshake(j) /\ InHandshake(k) /\ loop[j].peer = loop[k].peer => j = k)'
    BY Zenon, <2>5, <2>6 DEF ClientsInv, InHandshake
  <2> QED
    BY Zenon, <2>2, <2>3, <2>4, <2>7, <2>8 DEF ClientsInv
<1>2. CASE loop[i].sock \notin TlsAddrs
  <2>1. /\ loop' = [loop EXCEPT ![i].at = "test"]
        /\ client' = [client EXCEPT ![c] = "scheduled"]
    BY Zenon, <1>2 DEF AcceptClient
  <2>2. /\ loop' = [loop EXCEPT ![i].at = "test", ![i].peer = loop[i].peer]
        /\ \A j \in Loops : InHandshake(j)' => loop'[j] = loop[j]
    BY Zenon, <2>1, <1>0 DEF InHandshake, LoopType
  <2>3. LoopsInv'
    BY Zenon, <2>2, <1>0, TurnLoops
  <2>4. /\ client' \in [Clients -> ClientStates]
        /\ \A d \in Clients : client'[d] = IF d = c THEN "scheduled" ELSE client[d]
    BY Zenon, <2>1, <1>0 DEF ClientStates
  <2>5. SameServing /\ \A d \in Clients : client[d] = "handshake" => client'[d] = "handshake"
    BY Zenon, <2>4, <1>0 DEF SameServing
  <2> QED
    BY Zenon, <2>2, <2>3, <2>4, <2>5, ClientsKeep
<1> QED
  BY Zenon, <1>1, <1>2

LEMMA HandshakeStep ==
    ASSUME LoopsInv, ClientsInv, NEW i \in Loops, NEW ok \in BOOLEAN, Handshake(i, ok)
    PROVE  LoopsInv' /\ ClientsInv' /\ SameServing
<1>0. /\ loop \in [Loops -> LoopType] /\ Walking(i) /\ InHandshake(i)
      /\ client \in [Clients -> ClientStates] /\ None \in Clients \cup {None}
      /\ UNCHANGED <<m_is_stop, m_sockets, open, starting, stopTasks, where,
                     calls, life, bound, torn>>
  BY Zenon DEF LoopsInv, ClientsInv, TcpTypeOK, LoopType, Handshake, Walking, InHandshake
<1>1. PICK c \in Clients : c = loop[i].peer /\ client[c] = "handshake"
  BY Zenon, <1>0 DEF ClientsInv
<1>2. PICK st \in {"scheduled", "closed"} : client' = [client EXCEPT ![c] = st]
  BY Zenon, <1>1 DEF Handshake
<1>3. loop' = [loop EXCEPT ![i].at = "test", ![i].peer = None]
  BY Zenon DEF Handshake
<1>4. LoopsInv'
  BY Zenon, <1>0, <1>3, TurnLoops
<1>5. /\ client' \in [Clients -> ClientStates]
      /\ \A d \in Clients : client'[d] = IF d = c THEN st ELSE client[d]
  BY Zenon, <1>0, <1>1, <1>2 DEF ClientStates
<1>6. SameServing
  BY Zenon, <1>1, <1>2, <1>5 DEF SameServing
<1>7. loop'[i].at = "test" /\ \A j \in Loops \ {i} : loop'[j] = loop[j]
  BY Zenon, <1>0, <1>3 DEF LoopType
<1>8. \A j \in Loops : InHandshake(j)' => InHandshake(j) /\ j # i /\ loop'[j] = loop[j]
  BY Zenon, <1>7 DEF InHandshake
<1>9. \A j \in Loops \ {i} : InHandshake(j) => loop[j].peer # c
  BY Zenon, <1>0, <1>1 DEF ClientsInv
<1>10. (\A j \in Loops : InHandshake(j) => loop[j].peer \in Clients /\ client[loop[j].peer] = "handshake")'
  BY <1>5, <1>8, <1>9 DEF ClientsInv
<1>11. (\A j, k \in Loops : InHandshake(j) /\ InHandshake(k) /\ loop[j].peer = loop[k].peer => j = k)'
  BY ZenonT(30), <1>8 DEF ClientsInv
<1> QED
  BY Zenon, <1>4, <1>5, <1>6, <1>10, <1>11 DEF ClientsInv

LEMMA ConnectStep ==
    ASSUME LoopsInv, ClientsInv, NEW c \in Clients, NEW a \in Addrs, Connect(c, a)
    PROVE  LoopsInv' /\ ClientsInv' /\ SameServing
<1>0. /\ TcpTypeOK /\ client \in [Clients -> ClientStates] /\ client[c] = "away"
      /\ client' = [client EXCEPT ![c] = "pending"] /\ loop' = loop
  BY Zenon DEF LoopsInv, ClientsInv, Connect
<1>1. TcpTypeOK'
  BY Zenon, <1>0 DEF TcpTypeOK, Connect
<1>2. LoopsInv'
  <2>1. /\ (open \subseteq Held(m_sockets, loop))' /\ (stopTasks <= calls)'
        /\ (life = "new" => stopTasks = 0)' /\ (life = "stopped" => m_is_stop)'
    BY Zenon DEF LoopsInv, Connect, Held
  <2>2. /\ (\A j \in Loops : Walking(j) /\ loop[j].sock \notin open => life # "new")'
        /\ (\A j \in Loops : ~Walking(j) => loop[j].sock = None)'
    BY Zenon DEF LoopsInv, Connect, Walking
  <2> QED
    BY Zenon, <2>1, <2>2, <1>1 DEF LoopsInv
<1>3. /\ client' \in [Clients -> ClientStates]
      /\ \A d \in Clients : client'[d] = IF d = c THEN "pending" ELSE client[d]
  BY Zenon, <1>0 DEF ClientStates
<1>4. SameServing /\ \A d \in Clients : client[d] = "handshake" => client'[d] = "handshake"
  BY Zenon, <1>0, <1>3 DEF SameServing
<1> QED
  BY Zenon, <1>0, <1>2, <1>3, <1>4, ClientsKeep

LEMMA TcpStep ==
    ASSUME LoopsInv, ClientsInv, TcpNext
    PROVE  LoopsInv' /\ ClientsInv' /\ SameServing
<1>1. CASE TcpApplication
  BY Zenon, <1>1, CallStep, StartNextStep DEF TcpApplication
<1>2. CASE StopTask
  BY Zenon, <1>2, CallStep
<1>3. CASE \E i \in Loops : AcceptLoop(i)
  BY Zenon, <1>3, LoopTestStep, AcceptClientStep, HandshakeStep, AcceptNothingStep DEF AcceptLoop
<1>4. CASE \E c \in Clients, a \in Addrs : Connect(c, a)
  BY Zenon, <1>4, ConnectStep
<1> QED
  BY Zenon, <1>1, <1>2, <1>3, <1>4 DEF TcpNext

-----------------------------------------------------------------------------
(* Steps of one client *)

(* What a step of a client's peer or handler does, but for the sessions: it  *)
(* moves that client only, and no client into or out of a handshake.         *)
Moved(c, q, s, st) ==
  /\ DOMAIN peer' = Clients /\ DOMAIN session' = Clients
  /\ peer'[c] = q /\ session'[c] = s
  /\ \A d \in Clients \ {c} : peer'[d] = peer[d] /\ session'[d] = session[d]
  /\ client' = [client EXCEPT ![c] = st]
  /\ client[c] \in {"scheduled", "serving"} /\ st \in {"serving", "closed"}
  /\ UNCHANGED <<serverVars, m_datas, m_globs>>

LEMMA SameLoops ==
    ASSUME LoopsInv, UNCHANGED serverVars
    PROVE  LoopsInv'
<1>1. TcpTypeOK'
  BY Zenon DEF serverVars, LoopsInv, TcpTypeOK
<1>2. /\ (open \subseteq Held(m_sockets, loop))' /\ (stopTasks <= calls)'
      /\ (life = "new" => stopTasks = 0)' /\ (life = "stopped" => m_is_stop)'
  BY Zenon DEF serverVars, LoopsInv, Held
<1>3. /\ (\A i \in Loops : Walking(i) /\ loop[i].sock \notin open => life # "new")'
      /\ (\A i \in Loops : ~Walking(i) => loop[i].sock = None)'
  BY Zenon DEF serverVars, LoopsInv, Walking
<1> QED
  BY Zenon, <1>1, <1>2, <1>3 DEF LoopsInv

LEMMA OneClient ==
    ASSUME IInv, NEW c \in Clients, NEW q, NEW s, NEW st, Moved(c, q, s, st),
           SessionInv(q, s), st = "serving" <=> s.at # "none",
           spinner' \in {None, "reader", "writer"},
           aborted' \in BOOLEAN, aborted' => q.pieces
    PROVE  IInv'
<1>0. /\ LoopsInv /\ ClientsInv /\ TableInv
      /\ DOMAIN peer = Clients /\ DOMAIN session = Clients
      /\ \A d \in Clients :
           /\ SessionInv(peer[d], session[d])
           /\ client[d] = "serving" <=> session[d].at # "none"
  BY Zenon DEF IInv
<1>1. LoopsInv'
  <2>1. UNCHANGED serverVars
    BY Zenon DEF Moved
  <2> QED
    BY Zenon, <2>1, <1>0, SameLoops
<1>2. client \in [Clients -> ClientStates] /\ client[c] \in {"scheduled", "serving"}
      /\ client' = [client EXCEPT ![c] = st] /\ st \in {"serving", "closed"}
  BY Zenon, <1>0 DEF ClientsInv, Moved
<1>3. /\ client' \in [Clients -> ClientStates] /\ client'[c] = st
      /\ \A d \in Clients \ {c} : client'[d] = client[d]
      /\ \A d \in Clients : client[d] = "handshake" => client'[d] = "handshake"
  BY Zenon, <1>2 DEF ClientStates
<1>4. loop' = loop /\ m_globs' = m_globs
  BY Zenon DEF Moved, serverVars
<1>5. ClientsInv'
  BY Zenon, <1>0, <1>3, <1>4, ClientsKeep
<1>6. /\ DOMAIN peer' = Clients /\ DOMAIN session' = Clients
      /\ peer'[c] = q /\ session'[c] = s
      /\ \A d \in Clients \ {c} : peer'[d] = peer[d] /\ session'[d] = session[d]
  BY Zenon DEF Moved
<1>7. ASSUME NEW d \in Clients
      PROVE  /\ SessionInv(peer'[d], session'[d])
             /\ client'[d] = "serving" <=> session'[d].at # "none"
  <2>1. CASE d = c
    BY Zenon, <2>1, <1>3, <1>6
  <2>2. CASE d # c
    <3>1. d \in Clients \ {c}
      BY Zenon, <2>2
    <3> QED
      BY ZenonT(30), <3>1, <1>0, <1>3, <1>6
  <2> QED
    BY Zenon, <2>1, <2>2
<1>8. TableInv'
  BY Zenon, <1>0, <1>4 DEF TableInv
<1>9. aborted' => \E d \in Clients : peer'[d].pieces
  BY Zenon, <1>6
<1> QED
  BY Zenon, <1>1, <1>5, <1>6, <1>7, <1>8, <1>9 DEF IInv

(* What IInv says of one client. *)
LEMMA ClientFacts ==
    ASSUME IInv, NEW c \in Clients
    PROVE  /\ SessionInv(peer[c], session[c]) /\ peer[c] \in PeerType /\ session[c] \in SessionType
           /\ client[c] = "serving" <=> session[c].at # "none"
           /\ c \in DOMAIN peer /\ c \in DOMAIN session
           /\ DOMAIN peer = Clients /\ DOMAIN session = Clients
           /\ client = [client EXCEPT ![c] = client[c]]
           /\ spinner \in {None, "reader", "writer"}
<1>1. client \in [Clients -> ClientStates]
  BY Zenon DEF IInv, ClientsInv
<1>2. client = [client EXCEPT ![c] = client[c]]
  BY Zenon, <1>1
<1> QED
  BY Zenon, <1>2 DEF IInv, SessionInv, TableInv

LEMMA ClientSendStep ==
    ASSUME IInv, ~aborted, NEW c \in Clients, NEW kind \in Kinds, ClientSend(c, kind)
    PROVE  IInv'
<1> DEFINE q == peer[c]
           q2 == [q EXCEPT !.sent = Append(q.sent, kind),
                           !.wire = q.wire \o Bytes(Len(q.sent) + 1, HeadLen + kind.body),
                           !.pipelined = q.pipelined \/ q.answers < Len(q.sent)]
<1>1. /\ SessionInv(q, session[c]) /\ q \in PeerType /\ client[c] = "serving"
      /\ session[c].at # "none" /\ DOMAIN peer = Clients /\ DOMAIN session = Clients
      /\ client = [client EXCEPT ![c] = "serving"] /\ spinner \in {None, "reader", "writer"}
  BY Zenon, ClientFacts DEF ClientSend, Connected
<1>2. /\ DOMAIN peer' = Clients /\ peer'[c] = q2 /\ \A d \in Clients \ {c} : peer'[d] = peer[d]
  BY Zenon, <1>1 DEF ClientSend, PeerType
<1>3. SessionInv(q2, session[c])
  BY Zenon, <1>1, SendStep
<1> HIDE DEF q, q2
<1>4. Moved(c, q2, session[c], "serving") /\ spinner' = spinner /\ aborted' = FALSE
  <2>1. /\ UNCHANGED <<tcpVars, session, tableVars>> /\ aborted' = FALSE
    BY Zenon DEF ClientSend, IInv
  <2> QED
    BY Zenon, <2>1, <1>1, <1>2 DEF Moved, tcpVars, tableVars, serverVars
<1> QED
  BY Zenon, <1>1, <1>3, <1>4, OneClient

LEMMA ClientCloseStep ==
    ASSUME IInv, ~aborted, NEW c \in Clients, NEW k \in 0..Len(peer[c].wire), ClientClose(c, k)
    PROVE  IInv'
<1> DEFINE q == peer[c]
           q2 == [q EXCEPT !.eof = TRUE, !.wire = SubSeq(q.wire, 1, k)]
<1>1. /\ SessionInv(q, session[c]) /\ q \in PeerType /\ client[c] = "serving"
      /\ session[c].at # "none" /\ DOMAIN peer = Clients /\ DOMAIN session = Clients
      /\ client = [client EXCEPT ![c] = "serving"] /\ spinner \in {None, "reader", "writer"}
  BY Zenon, ClientFacts DEF ClientClose, Connected
<1>2. /\ DOMAIN peer' = Clients /\ peer'[c] = q2 /\ \A d \in Clients \ {c} : peer'[d] = peer[d]
  BY Zenon, <1>1 DEF ClientClose, PeerType
<1>3. SessionInv(q2, session[c])
  BY Zenon, <1>1, PeerCloseStep
<1> HIDE DEF q, q2
<1>4. Moved(c, q2, session[c], "serving") /\ spinner' = spinner /\ aborted' = FALSE
  <2>1. /\ UNCHANGED <<tcpVars, session, tableVars>> /\ aborted' = FALSE
    BY Zenon DEF ClientClose, IInv
  <2> QED
    BY Zenon, <2>1, <1>1, <1>2 DEF Moved, tcpVars, tableVars, serverVars
<1> QED
  BY Zenon, <1>1, <1>3, <1>4, OneClient

LEMMA HandleClientStep ==
    ASSUME IInv, ~aborted, NEW c \in Clients, HandleClient(c)
    PROVE  IInv'
<1>1. /\ SessionInv(peer[c], session[c]) /\ client[c] = "scheduled"
      /\ session[c].at = "none" /\ DOMAIN peer = Clients /\ DOMAIN session = Clients
      /\ spinner \in {None, "reader", "writer"}
  <2>1. client[c] # "serving"
    BY Zenon DEF HandleClient
  <2> QED
    BY Zenon, <2>1, ClientFacts DEF HandleClient
<1>2. peer[c] = Fresh
  BY Zenon, <1>1 DEF SessionInv, OrderInv
<1>3. SessionInv(Fresh, NewRequest) /\ NewRequest.at # "none"
  BY Zenon, FreshInv DEF NewRequest, NoSession
<1>4. Moved(c, Fresh, NewRequest, "serving") /\ spinner' = spinner /\ aborted' = FALSE
  <2>1. /\ UNCHANGED <<serverVars, peer, tableVars>> /\ aborted' = FALSE
        /\ client' = [client EXCEPT ![c] = "serving"]
        /\ session' = [session EXCEPT ![c] = NewRequest]
    BY Zenon DEF HandleClient, IInv
  <2> QED
    BY Zenon, <2>1, <1>1, <1>2 DEF Moved, tableVars
<1> QED
  BY Zenon, <1>1, <1>3, <1>4, OneClient

(* SocketStream::close leaves nothing of the session. *)
LEMMA CloseStep ==
    ASSUME IInv, NEW c \in Clients, client[c] = "serving", Close(c),
           UNCHANGED <<serverVars, tableVars>>, aborted' = FALSE
    PROVE  IInv'
<1>1. DOMAIN peer = Clients /\ DOMAIN session = Clients /\ spinner \in {None, "reader", "writer"}
  BY Zenon, ClientFacts
<1>2. SessionInv(Fresh, NoSession) /\ NoSession.at = "none"
  BY Zenon, FreshInv DEF NoSession
<1>3. Moved(c, Fresh, NoSession, "closed") /\ spinner' = spinner
  BY Zenon, <1>1 DEF Moved, tableVars, Close
<1>4. ("closed" = "serving") <=> (NoSession.at # "none")
  BY Zenon, <1>2
<1> QED
  BY Zenon, <1>1, <1>2, <1>3, <1>4, OneClient

LEMMA RecvStep ==
    ASSUME IInv, ~aborted, NEW c \in Clients, NEW n \in 1..Len(peer[c].wire), Recv(c, n)
    PROVE  IInv'
<1> DEFINE q == peer[c]
           s == session[c]
           e == Execute(s.parser, SubSeq(q.wire, 1, n))
           q2 == [q EXCEPT !.wire = SubSeq(q.wire, n + 1, Len(q.wire)),
                           !.pieces = q.pieces \/ s.parser.cs > 0]
<1>1. /\ SessionInv(q, s) /\ q \in PeerType /\ s \in SessionType
      /\ client[c] = "serving" /\ s.at = "recv"
      /\ DOMAIN peer = Clients /\ DOMAIN session = Clients
      /\ client = [client EXCEPT ![c] = "serving"] /\ spinner \in {None, "reader", "writer"}
  BY Zenon, ClientFacts DEF Recv, At
<1>2. /\ aborted' = e.abort /\ UNCHANGED <<serverVars, tableVars>>
      /\ \/ ~e.abort /\ Close(c)
         \/ /\ e.abort \/ ~HasError(c, e.parser)
            /\ peer' = [peer EXCEPT ![c].wire = SubSeq(@, n + 1, Len(@)),
                                    ![c].pieces = @ \/ s.parser.cs > 0]
            /\ IF ~e.abort /\ Finished(e.parser)
               THEN AfterHead(c, e.parser, e.rest)
               ELSE session' = [session EXCEPT ![c].parser = e.parser]
            /\ client' = client
  BY Zenon DEF Recv
<1>3. CASE ~e.abort /\ Close(c)
  <2>1. aborted' = FALSE
    <3>1. e.abort \in BOOLEAN
      BY DEF Execute
    <3> HIDE DEF e
    <3> QED
      BY Zenon, <3>1, <1>2, <1>3
  <2> HIDE DEF e
  <2> QED
    BY Zenon, <2>1, <1>1, <1>2, <1>3, CloseStep
<1>4. CASE /\ e.abort \/ ~HasError(c, e.parser)
           /\ peer' = [peer EXCEPT ![c].wire = SubSeq(@, n + 1, Len(@)),
                                   ![c].pieces = @ \/ s.parser.cs > 0]
           /\ IF ~e.abort /\ Finished(e.parser)
              THEN AfterHead(c, e.parser, e.rest)
              ELSE session' = [session EXCEPT ![c].parser = e.parser]
           /\ client' = client
  <2>1. /\ DOMAIN peer' = Clients /\ peer'[c] = q2 /\ \A d \in Clients \ {c} : peer'[d] = peer[d]
    <3> HIDE DEF e
    <3> QED
      BY Zenon, <1>1, <1>4 DEF PeerType
  <2>2. Read(q, s, n, e, q2)
    <3>1. e.abort \/ ~e.parser.error
      BY Zenon, <1>4 DEF HasError
    <3> QED
      BY Zenon, <3>1, <1>1 DEF Read
  <2>3. PICK ex, qx, px, sx : ex = e /\ qx = q /\ px = q2 /\ sx = s
    OBVIOUS
  <2>4. /\ Read(qx, sx, n, ex, px) /\ client' = client /\ aborted' = ex.abort
        /\ peer'[c] = px /\ qx = peer[c] /\ sx = session[c]
        /\ IF ~ex.abort /\ Finished(ex.parser)
           THEN AfterHead(c, ex.parser, ex.rest)
           ELSE session' = [session EXCEPT ![c].parser = ex.parser]
    BY Zenon, <2>1, <2>2, <2>3, <1>2, <1>4
  <2> HIDE DEF e, q2, q, s
  <2>a. Read(qx, sx, n, ex, px)
    BY Zenon, <2>4
  <2>5. aborted' \in BOOLEAN /\ (aborted' => px.pieces)
    <3>1. /\ px.pieces = (qx.pieces \/ sx.parser.cs > 0) /\ ex.abort \in BOOLEAN
          /\ ex.abort => sx.parser.cs > 0
      BY Zenon, <2>a, RecvFacts
    <3> QED
      BY Zenon, <3>1, <2>4
  <2>6. \E s2 : /\ SessionInv(px, s2) /\ s2.at # "none" /\ DOMAIN session' = Clients
                /\ session'[c] = s2 /\ \A d \in Clients \ {c} : session'[d] = session[d]
    <3>1. CASE ~ex.abort /\ Finished(ex.parser)
      <4> DEFINE length == qx.sent[ex.parser.of].body
                 s2 == [at |-> IF length > Len(ex.rest) THEN "body" ELSE "dispatch",
                        parser |-> ex.parser,
                        body |-> SubSeq(ex.rest, 1, Min({length, Len(ex.rest)}))]
      <4>1. SessionInv(px, s2) /\ s2.at # "none"
        BY Zenon, <3>1, <2>a, RecvHeadStep
      <4>2. session' = [session EXCEPT ![c] = s2]
        BY Zenon, <3>1, <2>4 DEF AfterHead, ContentLength, Kind
      <4> HIDE DEF s2
      <4>3. /\ DOMAIN session' = Clients /\ session'[c] = s2
            /\ \A d \in Clients \ {c} : session'[d] = session[d]
        BY Zenon, <4>2, <1>1
      <4> QED
        BY Zenon, <4>1, <4>3
    <3>2. CASE ~(~ex.abort /\ Finished(ex.parser))
      <4> DEFINE s2 == [sx EXCEPT !.parser = ex.parser]
      <4>1. SessionInv(px, s2) /\ s2.at = "recv"
        BY Zenon, <2>a, RecvMoreStep
      <4>2. session' = [session EXCEPT ![c].parser = ex.parser]
        BY Zenon, <3>2, <2>4
      <4>3. /\ DOMAIN session' = Clients /\ session'[c] = s2
            /\ \A d \in Clients \ {c} : session'[d] = session[d]
        BY Zenon, <4>2, <2>4, <1>1
      <4> HIDE DEF s2
      <4>4. s2.at # "none"
        BY Zenon, <4>1
      <4> QED
        BY Zenon, <4>1, <4>3, <4>4
    <3> QED
      BY Zenon, <3>1, <3>2
  <2>7. PICK s2 : /\ SessionInv(px, s2) /\ s2.at # "none" /\ DOMAIN session' = Clients
                  /\ session'[c] = s2 /\ \A d \in Clients \ {c} : session'[d] = session[d]
    BY Zenon, <2>6
  <2>8. Moved(c, px, s2, "serving") /\ spinner' = spinner
    <3>1. client' = [client EXCEPT ![c] = "serving"] /\ client[c] \in {"scheduled", "serving"}
      BY Zenon, <2>4, <1>1
    <3>2. UNCHANGED <<serverVars, m_datas, m_globs>> /\ spinner' = spinner
      BY Zenon, <1>2 DEF tableVars
    <3> QED
      BY Zenon, <3>1, <3>2, <2>1, <2>3, <2>7 DEF Moved
  <2>9. spinner' \in {None, "reader", "writer"}
    BY Zenon, <2>8, <1>1
  <2> QED
    BY Zenon, <2>5, <2>7, <2>8, <2>9, OneClient
<1> HIDE DEF e, q, s
<1> QED
  BY Zenon, <1>2, <1>3, <1>4

LEMMA RecvEofStep ==
    ASSUME IInv, ~aborted, NEW c \in Clients, RecvEof(c)
    PROVE  IInv'
<1> DEFINE s == session[c]
           s2 == [s EXCEPT !.at = "spin"]
<1>1. /\ SessionInv(peer[c], s) /\ s \in SessionType /\ client[c] = "serving"
      /\ s.at = "recv" /\ DOMAIN peer = Clients /\ DOMAIN session = Clients
      /\ client = [client EXCEPT ![c] = "serving"] /\ spinner \in {None, "reader", "writer"}
  BY Zenon, ClientFacts DEF RecvEof, At
<1>2. /\ DOMAIN session' = Clients /\ session'[c] = s2
      /\ \A d \in Clients \ {c} : session'[d] = session[d]
  BY Zenon, <1>1 DEF RecvEof, SessionType
<1>3. SessionInv(peer[c], s2) /\ s2.at = "spin"
  <2>1. s.at # "none"
    BY Zenon, <1>1
  <2> QED
    BY Zenon, <2>1, <1>1, EofStep
<1> HIDE DEF s, s2
<1>4. Moved(c, peer[c], s2, "serving") /\ spinner' = spinner /\ aborted' = FALSE
  <2>1. /\ UNCHANGED <<tcpVars, peer, tableVars>> /\ aborted' = FALSE
    BY Zenon DEF RecvEof, IInv
  <2> QED
    BY Zenon, <2>1, <1>1, <1>2 DEF Moved, tcpVars, tableVars, serverVars
<1>5. s2.at # "none"
  BY Zenon, <1>3
<1> QED
  BY Zenon, <1>1, <1>3, <1>4, <1>5, OneClient

LEMMA RecvFailStep ==
    ASSUME IInv, ~aborted, NEW c \in Clients, RecvFail(c)
    PROVE  IInv'
<1>1. client[c] = "serving" /\ Close(c) /\ UNCHANGED <<serverVars, tableVars>> /\ aborted' = FALSE
  BY Zenon DEF RecvFail, At, IInv
<1> QED
  BY Zenon, <1>1, CloseStep

LEMMA RecvBodyNext ==
    ASSUME IInv, ~aborted, NEW c \in Clients, RecvBody(c)
    PROVE  IInv'
<1> DEFINE q == peer[c]
           s == session[c]
           m == q.sent[s.parser.of].body - Len(s.body)
           s2 == [s EXCEPT !.at = "dispatch", !.body = s.body \o SubSeq(q.wire, 1, m)]
           q2 == [q EXCEPT !.wire = SubSeq(q.wire, m + 1, Len(q.wire))]
<1>1. /\ SessionInv(q, s) /\ q \in PeerType /\ s \in SessionType
      /\ client[c] = "serving" /\ s.at = "body"
      /\ DOMAIN peer = Clients /\ DOMAIN session = Clients
      /\ client = [client EXCEPT ![c] = "serving"] /\ spinner \in {None, "reader", "writer"}
  BY Zenon, ClientFacts DEF RecvBody, At
<1>2. Missing(c) = m
  BY Zenon DEF Missing, ContentLength, Kind
<1>3. m <= Len(q.wire)
  BY Zenon, <1>2 DEF RecvBody
<1>4. PICK k : k = Missing(c)
  OBVIOUS
<1>5. /\ session' = [session EXCEPT ![c].at = "dispatch", ![c].body = @ \o SubSeq(peer[c].wire, 1, k)]
      /\ peer' = [peer EXCEPT ![c].wire = SubSeq(@, k + 1, Len(@))]
  BY Zenon, <1>4 DEF RecvBody
<1>6. /\ DOMAIN session' = Clients
      /\ session'[c] = [s EXCEPT !.at = "dispatch", !.body = s.body \o SubSeq(q.wire, 1, k)]
      /\ \A d \in Clients \ {c} : session'[d] = session[d]
  BY Zenon, <1>1, <1>5 DEF SessionType
<1>7. /\ DOMAIN peer' = Clients
      /\ peer'[c] = [q EXCEPT !.wire = SubSeq(q.wire, k + 1, Len(q.wire))]
      /\ \A d \in Clients \ {c} : peer'[d] = peer[d]
  BY Zenon, <1>1, <1>5 DEF PeerType
<1>8. session'[c] = s2 /\ peer'[c] = q2
  BY Zenon, <1>2, <1>4, <1>6, <1>7
<1>9. SessionInv(q2, s2) /\ s2.at = "dispatch"
  <2>1. SessionInv(q, s) /\ s.at = "body" /\ m <= Len(q.wire)
    BY Zenon, <1>1, <1>3
  <2> HIDE DEF q, s
  <2> QED
    BY Zenon, <2>1, RecvBodyStep
<1> HIDE DEF q, s, m, s2, q2
<1>10. Moved(c, q2, s2, "serving") /\ spinner' = spinner /\ aborted' = FALSE
  <2>1. /\ UNCHANGED <<tcpVars, tableVars>> /\ aborted' = FALSE
    BY Zenon DEF RecvBody, IInv
  <2>2. /\ client' = client /\ UNCHANGED <<serverVars, m_datas, m_globs>> /\ spinner' = spinner
    BY Zenon, <2>1 DEF tcpVars, tableVars, serverVars
  <2> QED
    BY Zenon, <2>1, <2>2, <1>1, <1>6, <1>7, <1>8 DEF Moved
<1>11. s2.at # "none"
  BY Zenon, <1>9
<1> QED
  BY Zenon, <1>1, <1>9, <1>10, <1>11, OneClient

LEMMA DispatchNext ==
    ASSUME IInv, ~aborted, NEW c \in Clients, Dispatch(c)
    PROVE  IInv'
<1> DEFINE q == peer[c]
           s == session[c]
           q2 == [q EXCEPT !.handled = Append(q.handled, [of |-> s.parser.of, body |-> s.body])]
<1>1. /\ SessionInv(q, s) /\ q \in PeerType /\ s \in SessionType
      /\ client[c] = "serving" /\ s.at = "dispatch"
      /\ DOMAIN peer = Clients /\ DOMAIN session = Clients
      /\ client = [client EXCEPT ![c] = "serving"] /\ spinner \in {None, "reader", "writer"}
  BY Zenon, ClientFacts DEF Dispatch, At
<1>2. PICK pc \in {"respond", "stuck"} :
         /\ session' = [session EXCEPT ![c].at = pc]
         /\ spinner' = spinner \/ spinner' = "reader"
  BY Zenon DEF Dispatch
<1> DEFINE s2 == [s EXCEPT !.at = pc]
<1>3. /\ DOMAIN session' = Clients /\ session'[c] = s2
      /\ \A d \in Clients \ {c} : session'[d] = session[d]
  BY Zenon, <1>1, <1>2 DEF SessionType
<1>4. /\ DOMAIN peer' = Clients /\ peer'[c] = q2 /\ \A d \in Clients \ {c} : peer'[d] = peer[d]
  BY Zenon, <1>1 DEF Dispatch, PeerType
<1>5. SessionInv(q2, s2) /\ s2.at = pc
  <2>1. SessionInv(q, s) /\ s.at = "dispatch" /\ pc \in {"respond", "stuck"}
    BY Zenon, <1>1, <1>2
  <2> HIDE DEF q, s
  <2> QED
    BY Zenon, <2>1, DispatchStep
<1>6. pc # "none"
  BY Zenon, <1>2
<1>7. spinner' \in {None, "reader", "writer"}
  BY Zenon, <1>1, <1>2
<1> HIDE DEF q, s, s2, q2
<1>8. Moved(c, q2, s2, "serving") /\ aborted' = FALSE
  <2>1. UNCHANGED <<tcpVars, m_datas, m_globs>> /\ aborted' = FALSE
    BY Zenon DEF Dispatch, IInv
  <2>2. client' = client /\ UNCHANGED <<serverVars, m_datas, m_globs>>
    BY Zenon, <2>1 DEF tcpVars, serverVars
  <2> QED
    BY Zenon, <2>1, <2>2, <1>1, <1>3, <1>4 DEF Moved
<1> QED
  BY Zenon, <1>5, <1>6, <1>7, <1>8, OneClient

LEMMA RespondNext ==
    ASSUME IInv, ~aborted, NEW c \in Clients, Respond(c)
    PROVE  IInv'
<1> DEFINE q == peer[c]
           s == session[c]
           q2 == [q EXCEPT !.answers = q.answers + 1]
<1>1. /\ SessionInv(q, s) /\ q \in PeerType /\ s \in SessionType
      /\ client[c] = "serving" /\ s.at = "respond"
      /\ DOMAIN peer = Clients /\ DOMAIN session = Clients
      /\ client = [client EXCEPT ![c] = "serving"] /\ spinner \in {None, "reader", "writer"}
  BY Zenon, ClientFacts DEF Respond, At
<1>2. UNCHANGED <<serverVars, tableVars>> /\ aborted' = FALSE
  BY Zenon DEF Respond, IInv
<1>3. CASE Close(c)
  BY Zenon, <1>1, <1>2, <1>3, CloseStep
<1>4. CASE /\ session' = [session EXCEPT ![c] = NewRequest]
           /\ peer' = [peer EXCEPT ![c].answers = @ + 1]
           /\ client' = client
  <2>1. /\ DOMAIN session' = Clients /\ session'[c] = NewRequest
        /\ \A d \in Clients \ {c} : session'[d] = session[d]
    BY Zenon, <1>1, <1>4
  <2>2. /\ DOMAIN peer' = Clients /\ peer'[c] = q2 /\ \A d \in Clients \ {c} : peer'[d] = peer[d]
    BY Zenon, <1>1, <1>4 DEF PeerType
  <2>3. SessionInv(q2, NewRequest) /\ NewRequest.at = "recv"
    BY Zenon, <1>1, RespondStep
  <2> HIDE DEF q, s, q2
  <2>4. Moved(c, q2, NewRequest, "serving") /\ spinner' = spinner
    <3>1. UNCHANGED <<serverVars, m_datas, m_globs>> /\ spinner' = spinner
      BY Zenon, <1>2 DEF tableVars
    <3> QED
      BY Zenon, <3>1, <2>1, <2>2, <1>1, <1>4 DEF Moved
  <2>5. NewRequest.at # "none"
    BY Zenon, <2>3
  <2> QED
    BY Zenon, <2>3, <2>4, <2>5, <1>1, <1>2, OneClient
<1> QED
  BY Zenon, <1>3, <1>4 DEF Respond

-----------------------------------------------------------------------------
(* The rest of the next-state relation, and the theorems *)

(* The accept loops, the clients' connections and the table do not touch the *)
(* sessions.                                                                 *)
LEMMA SameSessions ==
    ASSUME IInv, LoopsInv', ClientsInv', SameServing, TableInv',
           peer' = peer, session' = session, aborted' = aborted
    PROVE  IInv'
<1>1. \A c \in Clients : /\ SessionInv(peer'[c], session'[c])
                         /\ client'[c] = "serving" <=> session'[c].at # "none"
  BY Zenon DEF IInv, SameServing
<1>2. /\ DOMAIN peer' = Clients /\ DOMAIN session' = Clients
      /\ aborted' \in BOOLEAN /\ (aborted' => \E c \in Clients : peer'[c].pieces)
  BY Zenon DEF IInv
<1> QED
  BY Zenon, <1>1, <1>2 DEF IInv

LEMMA TablesStep ==
    ASSUME IInv, Tables
    PROVE  IInv'
<1>1. /\ Admin
      /\ spinner' \in {spinner, "writer"}
      /\ m_globs' = m_globs \/ m_globs' = <<>> \/ \E glob \in Globs : m_globs' = <<glob>>
  <2>1. CASE \E path \in Paths : AddServlet(path) \/ DelServlet(path)
    BY Zenon, <2>1 DEF AddServlet, DelServlet
  <2>2. CASE \E glob \in Globs : AddGlob(glob) \/ DelGlob(glob)
    <3>1. PICK glob \in Globs : AddGlob(glob) \/ DelGlob(glob)
      BY Zenon, <2>2
    <3>2. CASE AddGlob(glob)
      BY Zenon, <3>2 DEF AddGlob
    <3>3. CASE DelGlob(glob)
      BY Zenon, <3>3 DEF DelGlob
    <3> QED
      BY Zenon, <3>1, <3>2, <3>3
  <2> QED
    BY Zenon, <2>1, <2>2 DEF Tables
<1>2. TableInv'
  <2>1. Len(m_globs) <= 1 /\ spinner \in {None, "reader", "writer"}
    BY Zenon DEF IInv, TableInv
  <2>2. spinner' \in {None, "reader", "writer"}
    BY Zenon, <2>1, <1>1
  <2>3. Len(<<>>) <= 1 /\ \A glob : Len(<<glob>>) <= 1
    OBVIOUS
  <2>4. Len(m_globs') <= 1
    BY Zenon, <2>1, <2>3, <1>1
  <2> QED
    BY Zenon, <2>2, <2>4 DEF TableInv
<1>3. /\ UNCHANGED <<m_is_stop, m_sockets, open, starting, stopTasks, loop, client, where,
                     life, bound, torn, peer, session, aborted>>
      /\ calls < MaxCalls /\ calls' = calls + 1
  BY Zenon, <1>1 DEF Admin, Call
<1>4. LoopsInv'
  <2>1. LoopsInv /\ calls \in 0..MaxCalls /\ stopTasks \in 0..MaxCalls /\ stopTasks <= calls /\ MaxCalls \in Nat
    BY Zenon, TcpAssumption DEF IInv, LoopsInv, TcpTypeOK
  <2>2. calls' \in 0..MaxCalls /\ stopTasks <= calls'
    BY <2>1, <1>3
  <2>3. TcpTypeOK'
    BY Zenon, <2>1, <2>2, <1>3 DEF LoopsInv, TcpTypeOK
  <2> QED
    BY Zenon, <2>1, <2>2, <2>3, <1>3 DEF LoopsInv, Held, Walking
<1>5. ClientsInv' /\ SameServing
  BY Zenon, <1>3 DEF IInv, ClientsInv, InHandshake, SameServing
<1> QED
  BY Zenon, <1>2, <1>3, <1>4, <1>5, SameSessions

LEMMA NextStep ==
    ASSUME IInv, Next
    PROVE  IInv'
<1>0. ~aborted
  BY Zenon DEF Next
<1>1. CASE TcpNext /\ UNCHANGED httpVars
  <2>1. LoopsInv' /\ ClientsInv' /\ SameServing
    BY Zenon, <1>1, TcpStep DEF IInv
  <2>2. TableInv' /\ peer' = peer /\ session' = session /\ aborted' = aborted
    BY Zenon, <1>1 DEF IInv, httpVars, tableVars, TableInv
  <2> QED
    BY Zenon, <2>1, <2>2, SameSessions
<1>2. ASSUME NEW c \in Clients, Peer(c)
      PROVE  IInv'
  BY Zenon, <1>0, <1>2, ClientSendStep, ClientCloseStep DEF Peer
<1>3. ASSUME NEW c \in Clients, Handler(c)
      PROVE  IInv'
  BY Zenon, <1>0, <1>3, HandleClientStep, RecvStep, RecvEofStep, RecvFailStep,
     RecvBodyNext, DispatchNext, RespondNext DEF Handler
<1>4. CASE Tables
  BY Zenon, <1>4, TablesStep
<1> QED
  BY Zenon, <1>1, <1>2, <1>3, <1>4 DEF Next

LEMMA InitInv == ASSUME Init PROVE IInv
<1>1. TcpInit /\ peer = [c \in Clients |-> Fresh] /\ session = [c \in Clients |-> NoSession]
      /\ m_globs = <<>> /\ spinner = None /\ aborted = FALSE
  BY Zenon DEF Init
<1>2. LoopsInv
  <2>1. /\ loop = [i \in Loops |-> Idle] /\ Idle \in LoopType /\ Idle.at = "free" /\ Idle.sock = None
        /\ where \in [Clients -> Addrs \cup {None}]
    BY Zenon, <1>1 DEF TcpInit, Idle, LoopType
  <2>2. loop \in [Loops -> LoopType] /\ \A i \in Loops : ~Walking(i) /\ loop[i].sock = None
    BY Zenon, <2>1 DEF Walking
  <2>3. stopTasks \in 0..MaxCalls /\ calls \in 0..MaxCalls /\ stopTasks <= calls
    BY <1>1, TcpAssumption DEF TcpInit
  <2>4. TcpTypeOK
    BY Zenon, <2>1, <2>2, <2>3, <1>1 DEF TcpInit, TcpTypeOK, LoopType
  <2>5. open \subseteq Held(m_sockets, loop) /\ life = "new" /\ stopTasks = 0 /\ m_is_stop
    BY Zenon, <1>1 DEF TcpInit
  <2> QED
    BY Zenon, <2>2, <2>3, <2>4, <2>5 DEF LoopsInv
<1>3. client = [c \in Clients |-> "away"] /\ loop = [i \in Loops |-> Idle]
  BY Zenon, <1>1 DEF TcpInit
<1>4. ClientsInv
  BY Zenon, <1>3 DEF ClientsInv, ClientStates, InHandshake, Idle
<1>5. \A c \in Clients : /\ SessionInv(peer[c], session[c])
                         /\ client[c] = "serving" <=> session[c].at # "none"
  <2>1. SessionInv(Fresh, NoSession)
    BY Zenon, FreshInv
  <2>2. NoSession.at = "none" /\ "away" # "serving"
    BY Zenon DEF NoSession
  <2> QED
    BY Zenon, <2>1, <2>2, <1>1, <1>3
<1>6. TableInv
  BY <1>1 DEF TableInv
<1>7. DOMAIN peer = Clients /\ DOMAIN session = Clients
  BY Zenon, <1>1
<1> QED
  BY Zenon, <1>1, <1>2, <1>4, <1>5, <1>6, <1>7 DEF IInv

(* Every reachable state of the HTTP server satisfies the inductive          *)
(* invariant.                                                                *)
THEOREM Invariance == Spec => []IInv
<1>1. IInv /\ [Next]_vars => IInv'
  <2>1. CASE Next
    BY Zenon, <2>1, NextStep
  <2>2. CASE UNCHANGED vars
    <3>1. SUFFICES ASSUME IInv PROVE IInv'
      OBVIOUS
    <3>2. /\ UNCHANGED serverVars /\ loop' = loop /\ client' = client /\ peer' = peer
          /\ session' = session /\ m_globs' = m_globs /\ spinner' = spinner /\ aborted' = aborted
      BY Zenon, <2>2 DEF vars, tcpVars, httpVars, tableVars, serverVars
    <3>3. LoopsInv'
      BY Zenon, <3>1, <3>2, SameLoops DEF IInv
    <3>4. ClientsInv' /\ SameServing
      BY Zenon, <3>1, <3>2 DEF IInv, ClientsInv, InHandshake, SameServing
    <3>5. TableInv'
      BY Zenon, <3>1, <3>2 DEF IInv, TableInv
    <3> QED
      BY Zenon, <3>1, <3>2, <3>3, <3>4, <3>5, SameSessions
  <2> QED
    BY Zenon, <2>1, <2>2
<1> QED
  BY <1>1, InitInv, PTL DEF Spec

(* The type invariant of server, accept loops and sessions: a session exists *)
(* exactly while its client is served, and no more requests are answered     *)
(* than given to servlets, nor given to servlets than were sent.             *)
THEOREM TypeCorrect == Spec => []TypeOK
<1>1. ASSUME IInv PROVE TypeOK
  <2>1. \A c \in Clients :
          /\ session[c].at \in Places
          /\ (client[c] = "serving") = (session[c].at # "none")
          /\ peer[c].answers <= Len(peer[c].handled)
          /\ Len(peer[c].handled) <= Len(peer[c].sent)
    <3>1. SUFFICES ASSUME NEW c \in Clients
                   PROVE  /\ session[c].at \in Places
                          /\ (client[c] = "serving") <=> (session[c].at # "none")
                          /\ peer[c].answers <= Len(peer[c].handled)
                          /\ Len(peer[c].handled) <= Len(peer[c].sent)
      BY Zenon
    <3>2. /\ SessionInv(peer[c], session[c])
          /\ (client[c] = "serving") <=> (session[c].at # "none")
      BY Zenon, <1>1 DEF IInv
    <3>3. session[c] \in SessionType /\ OrderInv(peer[c], session[c])
      BY Zenon, <3>2 DEF SessionInv
    <3>4. session[c].at \in Places
      BY Zenon, <3>3 DEF SessionType
    <3> QED
      BY Zenon, <3>2, <3>3, <3>4 DEF OrderInv
  <2> QED
    BY Zenon, <2>1, <1>1 DEF IInv, LoopsInv, ClientsInv, ClientStates, TableInv, TypeOK, Places
<1> QED
  BY <1>1, Invariance, PTL

(* Listening sockets are neither leaked nor lost, for any number of          *)
(* addresses, accept loops and calls of bind(), start() and stop().          *)
THEOREM Listeners == Spec => []ListenersHeld
<1>1. ASSUME IInv PROVE ListenersHeld
  <2>1. LoopsInv /\ life \in {"new", "stopped", "restarted"}
    BY Zenon, <1>1 DEF IInv, LoopsInv, TcpTypeOK
  <2> QED
    BY Zenon, <2>1 DEF LoopsInv, ListenersHeld
<1> QED
  BY <1>1, Invariance, PTL

(* recv_request hands over exactly the requests of a client that waits for   *)
(* its answers and whose heads each arrive in one read, for every length of  *)
(* heads, bodies and buffer and however the bodies are cut; the parser's     *)
(* assertion fails only for a head that took several reads.                  *)
THEOREM Requests == Spec => []RequestsExact
<1>1. ASSUME IInv PROVE RequestsExact
  <2>1. SUFFICES ASSUME NEW c \in Clients, ~peer[c].pieces, ~peer[c].pipelined,
                        NEW j \in DOMAIN peer[c].handled
                 PROVE  peer[c].handled[j] = [of |-> j, body |-> BodyOf(c, j)]
    BY Zenon, <1>1 DEF RequestsExact, IInv
  <2>2. ExactInv(peer[c], session[c])
    BY Zenon, <2>1, <1>1 DEF IInv, SessionInv
  <2>3. BodyOf(c, j) = Part(j, HeadLen, peer[c].sent[j].body)
    BY Zenon DEF BodyOf, Kind, Part
  <2> QED
    BY Zenon, <2>2, <2>3 DEF ExactInv
<1> QED
  BY <1>1, Invariance, PTL
====
