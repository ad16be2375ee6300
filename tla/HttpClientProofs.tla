-------------------------- MODULE HttpClientProofs --------------------------
(***************************************************************************)
(* Proofs about HttpClient, for any coroutines, connection objects,        *)
(* responses and buffer size: the connection pool keeps its books.         *)
(***************************************************************************)
EXTENDS HttpClient, FiniteSetTheorems, WellFoundedInduction, TLAPS

-----------------------------------------------------------------------------
(* The inductive invariant *)

Receiving == {"send", "head", "body", "chunk", "left", "spin", "ok", "failed"}

(* A coroutine holds a connection from where it has one to the end of the    *)
(* request; it holds invalid ones until they are deleted, and owes m_total   *)
(* for them or for the one it has released.                                  *)
UserInv(r) ==
  /\ DOMAIN r = DOMAIN Idle
  /\ r.at \in {"idle", "connect", "poolconnect", "released", "delete", "total"} \cup Receiving
  /\ r.conn \in Conns \cup {None}
  /\ r.at \in Receiving => r.conn # None
  /\ r.at \in {"idle", "connect", "poolconnect", "released"} => r.conn = None
  /\ r.invalid \in SUBSET Conns /\ (r.invalid # {} => r.at = "delete")
  /\ r.conn \notin r.invalid
  /\ r.owed \in Nat /\ (r.owed # 0 => r.at \in {"total", "released"})

ConnInv(q) ==
  /\ DOMAIN q = DOMAIN NoConn
  /\ q.alive \in BOOLEAN /\ q.pooled \in BOOLEAN /\ q.uses \in Nat

(* What waits in m_conns, or was taken out of it to be deleted, is the       *)
(* pool's.                                                                   *)
OwnInv ==
  /\ \A k \in ToSet(m_conns) : conn[k].pooled
  /\ \A u \in Users : \A k \in user[u].invalid : conn[k].pooled

IInv ==
  /\ DOMAIN user = Users /\ \A u \in Users : UserInv(user[u])
  /\ DOMAIN conn = Conns /\ \A k \in Conns : ConnInv(conn[k])
  /\ m_conns \in Seq(Conns)
  /\ OwnInv
  /\ PoolExact

-----------------------------------------------------------------------------
(* Steps that leave the pool alone: the exchange, the server, time *)

Outside == {"idle", "connect", "poolconnect", "released"}

(* The request goes on: the coroutine keeps what it holds and what it owes. *)
GoesOn(r, s) ==
  /\ s.conn = r.conn /\ s.invalid = r.invalid /\ s.owed = r.owed
  /\ s.at \in Outside <=> r.at \in Outside

(* The object stays what it is. *)
Stays(p, q) == q.alive = p.alive /\ q.pooled = p.pooled /\ q.uses = p.uses

LEMMA Quiet ==
    ASSUME IInv, UNCHANGED <<m_conns, m_total>>,
           DOMAIN user' = Users, \A u \in Users : UserInv(user'[u]) /\ GoesOn(user[u], user'[u]),
           DOMAIN conn' = Conns, \A k \in Conns : ConnInv(conn'[k]) /\ Stays(conn[k], conn'[k])
    PROVE  IInv'
  <1>1. \A u \in Users : Holds(u)' = Holds(u)
    BY Zenon DEF Holds, Busy, K, GoesOn, Outside
  <1>2. Owed' = Owed
    BY ZenonT(30) DEF Owed, GoesOn
  <1>3. Alive' = Alive /\ {k \in Alive : conn[k].pooled}' = {k \in Alive : conn[k].pooled}
    BY Zenon DEF Alive, Stays
  <1>4. ToSet(m_conns) \subseteq Conns
    BY Zenon DEF IInv, PoolExact, Alive
  <1>5. OwnInv'
    BY Zenon, <1>4 DEF IInv, OwnInv, Stays, GoesOn, UserInv
  <1>6. UNION {Holds(u)' : u \in Users} = UNION {Holds(u) : u \in Users}
    BY Zenon, <1>1
  <1>7. \A k \in ToSet(m_conns)' : conn'[k].uses < m_max_request
    BY Zenon, <1>4 DEF IInv, PoolExact, Stays
  <1>8. PoolExact'
    BY Zenon, <1>1, <1>2, <1>3, <1>6, <1>7 DEF IInv, PoolExact
  <1> QED
    BY Zenon, <1>5, <1>8 DEF IInv

(* The user record *)
LEMMA UserGo ==
    ASSUME NEW r, UserInv(r), r.at \in Receiving, NEW s, DOMAIN s = DOMAIN r,
           s.conn = r.conn, s.invalid = r.invalid, s.owed = r.owed, s.at \in Receiving
    PROVE  UserInv(s) /\ GoesOn(r, s)
  <1>1. \A x \in Receiving : x \notin Outside /\ x \notin {"delete", "total"}
    BY DEF Receiving, Outside
  <1> QED
    BY Zenon, <1>1 DEF UserInv, GoesOn, Outside

LEMMA UserFields ==
    /\ DOMAIN Idle = {"at", "conn", "req", "invalid", "owed", "parser", "data", "body", "left",
                      "size", "begin", "pieces"}
    /\ DOMAIN NoConn = {"alive", "pooled", "connected", "old", "uses", "dirty", "asked", "wire", "eof"}
  BY DEF Idle, NoConn

(* u goes on with its exchange, whatever it has read. *)
Receives(u) ==
  /\ DOMAIN user' = Users /\ \A v \in Users : v # u => user'[v] = user[v]
  /\ DOMAIN user'[u] = DOMAIN user[u]
  /\ user'[u].conn = user[u].conn /\ user'[u].invalid = user[u].invalid
  /\ user'[u].owed = user[u].owed
  /\ user'[u].at \in Receiving

(* Bytes are sent and received, connections close and age. *)
Traffic ==
  /\ DOMAIN conn' = Conns
  /\ \A k \in Conns : DOMAIN conn'[k] = DOMAIN conn[k] /\ Stays(conn[k], conn'[k])

LEMMA ExchangeStep ==
    ASSUME IInv, NEW u \in Users, user[u].at \in Receiving, Receives(u), Traffic,
           UNCHANGED <<m_conns, m_total>>
    PROVE  IInv'
  <1>1. \A v \in Users : UserInv(user'[v]) /\ GoesOn(user[v], user'[v])
    BY Zenon, UserGo DEF IInv, Receives, GoesOn
  <1>2. \A k \in Conns : ConnInv(conn'[k]) /\ Stays(conn[k], conn'[k])
    BY Zenon DEF IInv, Traffic, ConnInv, Stays
  <1> QED
    BY Zenon, Quiet, <1>1, <1>2 DEF Receives, Traffic

LEMMA TrafficStep ==
    ASSUME IInv, Traffic, UNCHANGED <<user, m_conns, m_total>>
    PROVE  IInv'
  <1>1. \A v \in Users : UserInv(user'[v]) /\ GoesOn(user[v], user'[v])
    BY Zenon DEF IInv, GoesOn
  <1>2. \A k \in Conns : ConnInv(conn'[k]) /\ Stays(conn[k], conn'[k])
    BY Zenon DEF IInv, Traffic, ConnInv, Stays
  <1> QED
    BY Zenon, Quiet, <1>1, <1>2 DEF Traffic, IInv

LEMMA NoTraffic == ASSUME IInv, UNCHANGED conn PROVE Traffic
  BY Zenon DEF IInv, Traffic, Stays

(* Whoever is in an exchange has a connection, and it is alive. *)
LEMMA HasConn ==
    ASSUME IInv, NEW u \in Users, user[u].at \in Receiving
    PROVE  K(u) \in Conns /\ conn[K(u)].alive = TRUE
  <1>1. K(u) \in Conns
    BY Zenon DEF IInv, UserInv, K
  <1>2. user[u].at \notin Outside
    BY DEF Receiving, Outside
  <1>3. K(u) \in Holds(u)
    BY Zenon, <1>1, <1>2, ClientAssumption DEF Holds, Busy, Outside
  <1>4. K(u) \in Alive
    BY Zenon, <1>3 DEF IInv, PoolExact
  <1> QED
    BY Zenon, <1>1, <1>4 DEF Alive, IInv, ConnInv

LEMMA GoReceives ==
    ASSUME IInv, NEW u \in Users, NEW x \in Receiving, Go(u, x)
    PROVE  Receives(u)
  BY UserFields DEF Go, Receives, IInv, UserInv

LEMMA TakeTraffic ==
    ASSUME IInv, NEW k \in Conns, NEW w, conn' = [conn EXCEPT ![k].wire = w]
    PROVE  Traffic
  BY UserFields DEF Traffic, IInv, ConnInv, Stays

LEMMA FailStep ==
    ASSUME IInv, NEW u \in Users, user[u].at \in Receiving, Fail(u)
    PROVE  Receives(u) /\ Traffic
  <1>1. Receives(u)
    BY Zenon, GoReceives DEF Fail, Receiving
  <1>2. K(u) \in Conns /\ conn[K(u)].alive = TRUE
    BY Zenon, HasConn
  <1>3. Traffic
    BY <1>2, UserFields DEF Fail, Shut, NoConn, Traffic, IInv, ConnInv, Stays
  <1> QED
    BY Zenon, <1>1, <1>3

LEMMA SendStep ==
    ASSUME IInv, NEW u \in Users, Send(u) \/ \E part \in BOOLEAN : SendFail(u, part)
    PROVE  IInv'
  <1>1. user[u].at \in Receiving /\ UNCHANGED <<m_conns, m_total>>
    BY Zenon DEF Send, SendFail, Receiving
  <1>2. K(u) \in Conns
    BY Zenon, <1>1, HasConn
  <1>3. Receives(u)
    BY Zenon, GoReceives DEF Send, SendFail, Receiving
  <1>4. CASE conn' = conn
    BY Zenon, <1>1, <1>3, <1>4, NoTraffic, ExchangeStep
  <1>5. CASE \E x : conn' = [conn EXCEPT ![K(u)].asked = x]
    <2>1. Traffic
      BY <1>2, <1>5, UserFields DEF Traffic, IInv, ConnInv, Stays
    <2> QED
      BY Zenon, <2>1, <1>1, <1>3, ExchangeStep
  <1>6. CASE \E x : conn' = [conn EXCEPT ![K(u)].dirty = x]
    <2>1. Traffic
      BY <1>2, <1>6, UserFields DEF Traffic, IInv, ConnInv, Stays
    <2> QED
      BY Zenon, <2>1, <1>1, <1>3, ExchangeStep
  <1> QED
    BY Zenon, <1>4, <1>5, <1>6 DEF Send, SendFail

LEMMA RecvStep ==
    ASSUME IInv, NEW u \in Users, user[u].at \in Receiving, UNCHANGED <<m_conns, m_total>>,
           Fail(u) \/ (Receives(u) /\ \E n : Take(u, n))
    PROVE  IInv'
  <1>1. K(u) \in Conns
    BY Zenon, HasConn
  <1>2. CASE Fail(u)
    BY Zenon, <1>2, FailStep, ExchangeStep
  <1>3. CASE Receives(u) /\ \E n : Take(u, n)
    <2>1. Traffic
      BY Zenon, <1>1, <1>3, TakeTraffic DEF Take
    <2> QED
      BY Zenon, <2>1, <1>3, ExchangeStep
  <1> QED
    BY Zenon, <1>2, <1>3

(* A read of a head, of a body or of a chunk. *)
LEMMA RecvHeadStep ==
    ASSUME IInv, NEW u \in Users, NEW n, RecvHead(u, n)
    PROVE  IInv'
  <1> DEFINE e == ResponseExecute(user[u].parser, SubSeq(Wire(u), 1, n))
             kind == kindOf[e.parser.of]
             next == CASE ~Finished(e.parser) -> "head"
                       [] kind.chunked -> "chunk"
                       [] OTHER -> "body"
             data == IF next = "chunk" THEN e.rest ELSE <<>>
             body == IF next = "body"
                     THEN SubSeq(e.rest, 1, Min({Len(e.rest), ContentLength(kind)}))
                     ELSE <<>>
             cs == user[u].parser.cs
  <1>1. user[u].at \in Receiving /\ UNCHANGED <<m_conns, m_total>>
    BY Zenon DEF RecvHead, Receiving
  <1>2. next \in Receiving
    BY Zenon DEF Receiving
  <1>3. \/ Fail(u)
        \/ /\ Take(u, n)
           /\ user' = [user EXCEPT ![u].at = next, ![u].parser = e.parser, ![u].data = data,
                                   ![u].body = body, ![u].pieces = @ \/ cs > 0]
    BY Zenon DEF RecvHead
  <1> HIDE DEF next, e, data, body, cs
  <1>4. ASSUME user' = [user EXCEPT ![u].at = next, ![u].parser = e.parser, ![u].data = data,
                                    ![u].body = body, ![u].pieces = @ \/ cs > 0]
        PROVE  Receives(u)
    BY <1>2, <1>4, UserFields DEF Receives, IInv, UserInv
  <1>5. Fail(u) \/ (Receives(u) /\ Take(u, n))
    BY Zenon, <1>3, <1>4
  <1> QED
    BY Zenon, <1>1, <1>5, RecvStep

LEMMA RecvBodyStep ==
    ASSUME IInv, NEW u \in Users, RecvBody(u)
    PROVE  IInv'
  <1>1. user[u].at \in Receiving /\ UNCHANGED <<m_conns, m_total>>
    BY Zenon DEF RecvBody, Receiving
  <1>2. Take(u, Missing(u)) /\ \E x : user' = [user EXCEPT ![u].at = "ok", ![u].body = x]
    BY Zenon DEF RecvBody
  <1>3. Receives(u)
    BY <1>2, UserFields DEF Receives, IInv, UserInv, Receiving
  <1> QED
    BY Zenon, <1>1, <1>2, <1>3, RecvStep

LEMMA RecvSizeStep ==
    ASSUME IInv, NEW u \in Users, NEW n, RecvSize(u, n)
    PROVE  IInv'
  <1> DEFINE data == user[u].data \o SubSeq(Wire(u), 1, n)
             line == SizeLine(data)
             rest == SubSeq(data, 3, Len(data))
             small == line.size + 2 <= Len(rest)
             at == IF line.size = 0 THEN "ok" ELSE "chunk"
  <1>1. user[u].at \in Receiving /\ UNCHANGED <<m_conns, m_total>>
    BY Zenon DEF RecvSize, Receiving
  <1>2. line.end \in {"error", "more", "finished"}
    BY DEF SizeLine
  <1>3. CASE line.end = "error"
    <2>1. Fail(u)
      BY <1>3 DEF RecvSize
    <2> QED
      BY Zenon, <1>1, <2>1, RecvStep
  <1>4. CASE line.end = "more"
    <2>1. Take(u, n) /\ user' = [user EXCEPT ![u].data = <<>>, ![u].begin = FALSE, ![u].pieces = TRUE]
      BY <1>4 DEF RecvSize
    <2>2. Receives(u)
      BY <1>1, <2>1, UserFields DEF Receives, IInv, UserInv
    <2> QED
      BY Zenon, <1>1, <2>1, <2>2, RecvStep
  <1>5. CASE line.end = "finished" /\ small
    <2>1. Take(u, n) /\ \E x, y : user' = [user EXCEPT ![u] =
            [@ EXCEPT !.at = at, !.begin = TRUE, !.body = x, !.data = y]]
      BY <1>5 DEF RecvSize
    <2>2. at \in Receiving
      BY Zenon DEF Receiving
    <2> HIDE DEF at
    <2>3. Receives(u)
      BY <2>1, <2>2, UserFields DEF Receives, IInv, UserInv
    <2> QED
      BY Zenon, <1>1, <2>1, <2>3, RecvStep
  <1>6. CASE line.end = "finished" /\ ~small
    <2>1. Take(u, n)
      BY <1>6 DEF RecvSize
    <2>2. user' = [user EXCEPT ![u] =
            [@ EXCEPT !.at = "left", !.body = user[u].body \o rest, !.size = line.size,
                      !.left = line.size - Len(rest) + 2]]
      BY <1>6 DEF RecvSize
    <2> HIDE DEF line, rest
    <2>3. Receives(u)
      BY <2>2, UserFields DEF Receives, IInv, UserInv, Receiving
    <2> QED
      BY Zenon, <1>1, <2>1, <2>3, RecvStep
  <1> QED
    BY Zenon, <1>2, <1>3, <1>4, <1>5, <1>6

LEMMA RecvLeftStep ==
    ASSUME IInv, NEW u \in Users, NEW n, RecvLeft(u, n)
    PROVE  IInv'
  <1> DEFINE at == IF user[u].size = 0 THEN "ok" ELSE "chunk"
  <1>1. user[u].at \in Receiving /\ UNCHANGED <<m_conns, m_total>> /\ Take(u, n)
    BY Zenon DEF RecvLeft, Receiving
  <1>2. at \in Receiving
    BY Zenon DEF Receiving
  <1>3. \/ \E x, y : user' = [user EXCEPT ![u] = [@ EXCEPT !.body = x, !.left = y]]
        \/ \E x : user' = [user EXCEPT ![u] = [@ EXCEPT !.body = x, !.data = <<>>, !.left = 0,
                                                        !.begin = TRUE, !.at = at]]
    BY Zenon DEF RecvLeft
  <1> HIDE DEF at
  <1>4. Receives(u)
    <2>1. CASE \E x, y : user' = [user EXCEPT ![u] = [@ EXCEPT !.body = x, !.left = y]]
      BY <1>1, <2>1, UserFields DEF Receives, IInv, UserInv
    <2>2. CASE \E x : user' = [user EXCEPT ![u] = [@ EXCEPT !.body = x, !.data = <<>>, !.left = 0,
                                                            !.begin = TRUE, !.at = at]]
      BY <1>2, <2>2, UserFields DEF Receives, IInv, UserInv
    <2> QED
      BY Zenon, <1>3, <2>1, <2>2
  <1> QED
    BY Zenon, <1>1, <1>4, RecvStep

(* The end of the stream, and failures. *)
LEMMA RecvFailStep ==
    ASSUME IInv, NEW u \in Users, LeftEof(u) \/ RecvFail(u)
    PROVE  IInv'
  <1>1. user[u].at \in Receiving /\ UNCHANGED <<m_conns, m_total>>
    BY Zenon DEF LeftEof, RecvFail, Receiving
  <1>2. CASE LeftEof(u)
    BY Zenon, <1>1, <1>2, GoReceives, NoTraffic, ExchangeStep DEF LeftEof, Receiving
  <1>3. CASE RecvFail(u)
    BY Zenon, <1>1, <1>3, RecvStep DEF RecvFail
  <1> QED
    BY Zenon, <1>2, <1>3

LEMMA ServerStep ==
    ASSUME IInv, NEW k \in Conns, Server(k) \/ Age(k)
    PROVE  IInv'
  <1>1. UNCHANGED <<user, m_conns, m_total>>
    BY Zenon DEF Server, Answer, Garbage, ServerClose, Age
  <1>2. ASSUME \E x, y : conn' = [conn EXCEPT ![k].asked = x, ![k].wire = y] PROVE Traffic
    BY <1>2, UserFields DEF Traffic, IInv, ConnInv, Stays
  <1>3. ASSUME \E x : conn' = [conn EXCEPT ![k].eof = TRUE, ![k].asked = <<>>, ![k].wire = x]
        PROVE  Traffic
    BY <1>3, UserFields DEF Traffic, IInv, ConnInv, Stays
  <1>4. ASSUME conn' = [conn EXCEPT ![k].old = TRUE] PROVE Traffic
    BY <1>4, UserFields DEF Traffic, IInv, ConnInv, Stays
  <1>5. Traffic
    BY Zenon, <1>2, <1>3, <1>4 DEF Server, Answer, Garbage, ServerClose, Age
  <1> QED
    BY Zenon, <1>1, <1>5, TrafficStep

-----------------------------------------------------------------------------
(* Steps that change the books *)

Pooled == {k \in Alive : conn[k].pooled}

OneUser(u) == DOMAIN user' = Users /\ \A v \in Users : v # u => user'[v] = user[v]

(* What the coroutines owe, but for u. *)
OwedBut(u) == UNION {{v} \X (1..user[v].owed) : v \in Users \ {u}}

LEMMA UpTo ==
    ASSUME NEW n \in Nat
    PROVE  IsFiniteSet(1..n) /\ Cardinality(1..n) = n
  <1>1. 1 \in Int /\ n \in Int
    OBVIOUS
  <1>2. IsFiniteSet(1..n) /\ Cardinality(1..n) = IF 1 > n THEN 0 ELSE n - 1 + 1
    BY Zenon, <1>1, FS_Interval
  <1>3. (IF 1 > n THEN 0 ELSE n - 1 + 1) = n
    OBVIOUS
  <1> QED
    BY <1>2, <1>3

LEMMA OwedFinite ==
    ASSUME NEW w, NEW S \in SUBSET Users, \A v \in S : w[v].owed \in Nat
    PROVE  IsFiniteSet(UNION {{v} \X (1..w[v].owed) : v \in S})
  <1>1. IsFiniteSet(S)
    BY Zenon, FS_Subset, ClientAssumption
  <1>2. IsFiniteSet({{v} \X (1..w[v].owed) : v \in S})
    <2> DEFINE f == [v \in S |-> {v} \X (1..w[v].owed)]
               T == {{v} \X (1..w[v].owed) : v \in S}
    <2>1. f \in Surjection(S, T)
      BY Zenon DEF Surjection
    <2> HIDE DEF f, T
    <2>2. IsFiniteSet(T)
      BY Zenon, <1>1, <2>1, FS_Surjection
    <2> QED
      BY Zenon, <2>2 DEF T
  <1>3. \A v \in S : IsFiniteSet({v} \X (1..w[v].owed))
    BY Zenon, FS_Product, FS_Singleton, UpTo
  <1>4. \A T \in {{v} \X (1..w[v].owed) : v \in S} : IsFiniteSet(T)
    BY Zenon, <1>3
  <1> QED
    BY Zenon, <1>2, <1>4, FS_UNION

LEMMA OwedCard ==
    ASSUME NEW w, NEW u \in Users, \A v \in Users : w[v].owed \in Nat
    PROVE  LET but == UNION {{v} \X (1..w[v].owed) : v \in Users \ {u}}
           IN  /\ Cardinality(but) \in Nat
               /\ Cardinality(UNION {{v} \X (1..w[v].owed) : v \in Users}) = Cardinality(but) + w[u].owed
  <1> DEFINE but == UNION {{v} \X (1..w[v].owed) : v \in Users \ {u}}
             all == UNION {{v} \X (1..w[v].owed) : v \in Users}
             own == {u} \X (1..w[u].owed)
  <1>1. IsFiniteSet(but)
    <2>1. Users \ {u} \in SUBSET Users
      BY Zenon
    <2> QED
      BY Zenon, <2>1, OwedFinite
  <1>2. IsFiniteSet(own) /\ Cardinality(own) = w[u].owed
    <2>1. IsFiniteSet({u}) /\ Cardinality({u}) = 1
      BY Zenon, FS_Singleton
    <2>2. IsFiniteSet(1..w[u].owed) /\ Cardinality(1..w[u].owed) = w[u].owed
      BY Zenon, UpTo
    <2>3. IsFiniteSet(own) /\ Cardinality(own) = Cardinality({u}) * Cardinality(1..w[u].owed)
      BY Zenon, <2>1, <2>2, FS_Product
    <2> QED
      BY <2>1, <2>2, <2>3
  <1>3. all = but \cup own /\ but \cap own = {}
    <2>1. all = but \cup own
      BY Zenon
    <2>2. \A x \in but : x \notin own
      OBVIOUS
    <2> QED
      BY Zenon, <2>1, <2>2
  <1> HIDE DEF all, but, own
  <1>4. Cardinality(all) = Cardinality(but) + Cardinality(own) - Cardinality({})
    <2>1. Cardinality(but \cup own) = Cardinality(but) + Cardinality(own) - Cardinality(but \cap own)
      BY Zenon, <1>1, <1>2, FS_Union
    <2> QED
      BY Zenon, <1>3, <2>1
  <1>5. Cardinality({}) = 0 /\ Cardinality(but) \in Nat
    BY Zenon, <1>1, FS_EmptySet, FS_CardinalityType
  <1>6. Cardinality(all) = Cardinality(but) + w[u].owed
    BY <1>2, <1>4, <1>5
  <1> QED
    BY Zenon, <1>5, <1>6 DEF all, but

LEMMA OwedStep ==
    ASSUME IInv, NEW u \in Users, OneUser(u), user'[u].owed \in Nat
    PROVE  /\ Cardinality(Owed) \in Nat /\ user[u].owed \in Nat
           /\ Cardinality(Owed)' = Cardinality(Owed) - user[u].owed + user'[u].owed
  <1>1. \A v \in Users : user[v].owed \in Nat
    BY Zenon DEF IInv, UserInv
  <1>2. \A v \in Users : user'[v].owed \in Nat
    BY Zenon, <1>1 DEF OneUser
  <1>3. OwedBut(u)' = OwedBut(u)
    BY Zenon DEF OwedBut, OneUser
  <1>4. Cardinality(OwedBut(u)) \in Nat /\ Cardinality(Owed) = Cardinality(OwedBut(u)) + user[u].owed
    BY Zenon, <1>1, OwedCard DEF Owed, OwedBut
  <1>5. Cardinality(Owed)' = Cardinality(OwedBut(u)') + user'[u].owed
    BY Zenon, <1>2, OwedCard DEF Owed, OwedBut
  <1> HIDE DEF OwedBut, Owed
  <1> QED
    BY <1>1, <1>3, <1>4, <1>5

LEMMA PooledFinite == IsFiniteSet(Pooled) /\ Cardinality(Pooled) \in Nat
  <1>1. Pooled \subseteq Conns
    BY Zenon DEF Pooled, Alive
  <1> QED
    BY Zenon, <1>1, FS_Subset, FS_CardinalityType, ClientAssumption

LEMMA AliveHeld ==
    ASSUME IInv, NEW k \in Alive, k \notin ToSet(m_conns)
    PROVE  \E v \in Users : k \in Holds(v)
  BY Zenon DEF IInv, PoolExact

(* u trades connections with the pool, or makes or deletes some; the others  *)
(* keep theirs.                                                              *)
LEMMA Trade ==
    ASSUME IInv, NEW u \in Users, OneUser(u), UserInv(user'[u]),
           DOMAIN conn' = Conns, \A k \in Conns : ConnInv(conn'[k]),
           m_conns' \in Seq(Conns), IsInjective(m_conns'), OwnInv',
           Holds(u)' \cap ToSet(m_conns') = {},
           Holds(u)' \cup ToSet(m_conns') \subseteq
             Holds(u) \cup ToSet(m_conns) \cup (Conns \ Alive),
           Alive' = (Alive \ (Holds(u) \cup ToSet(m_conns))) \cup Holds(u)' \cup ToSet(m_conns'),
           m_total' = Cardinality(Pooled)' + Cardinality(Owed)',
           \A k \in ToSet(m_conns') : conn'[k].uses < m_max_request
    PROVE  IInv'
  <1>1. \A v \in Users : v # u => Holds(v)' = Holds(v)
    BY Zenon DEF OneUser, Holds, Busy, K
  <1>2. /\ \A v \in Users : Holds(v) \cap ToSet(m_conns) = {}
        /\ \A v, w \in Users : v # w => Holds(v) \cap Holds(w) = {}
        /\ Alive = ToSet(m_conns) \cup UNION {Holds(v) : v \in Users}
    BY Zenon DEF IInv, PoolExact
  <1>3. \A v \in Users : v # u => /\ Holds(v)' \cap ToSet(m_conns') = {}
                                  /\ Holds(v)' \cap Holds(u)' = {}
    <2> SUFFICES ASSUME NEW v \in Users, v # u, NEW k, k \in Holds(v)'
                 PROVE  k \notin ToSet(m_conns') /\ k \notin Holds(u)'
      BY Zenon
    <2>1. k \in Holds(v)
      BY Zenon, <1>1
    <2>2. k \in Alive /\ k \notin Holds(u) /\ k \notin ToSet(m_conns)
      BY Zenon, <2>1, <1>2
    <2> QED
      BY Zenon, <2>2
  <1>4. \A v \in Users : Holds(v)' \cap ToSet(m_conns') = {}
    BY Zenon, <1>3
  <1>5. \A v, w \in Users : v # w => Holds(v)' \cap Holds(w)' = {}
    BY Zenon, <1>1, <1>2, <1>3
  <1>6. Alive' = ToSet(m_conns') \cup UNION {Holds(v)' : v \in Users}
    <2>1. ASSUME NEW k \in Alive' PROVE k \in ToSet(m_conns') \cup UNION {Holds(v)' : v \in Users}
      <3>1. CASE k \in Holds(u)' \cup ToSet(m_conns')
        BY Zenon, <3>1
      <3>2. CASE k \in Alive \ (Holds(u) \cup ToSet(m_conns))
        <4>0. k \in Alive /\ k \notin ToSet(m_conns) /\ k \notin Holds(u)
          BY Zenon, <3>2
        <4>1. PICK v \in Users : k \in Holds(v)
          BY Zenon, <4>0, AliveHeld
        <4>2. k \in Holds(v)'
          BY Zenon, <4>0, <4>1, <1>1
        <4> QED
          BY Zenon, <4>1, <4>2
      <3> QED
        BY Zenon, <2>1, <3>1, <3>2
    <2>2. ASSUME NEW v \in Users, NEW k \in Holds(v)' PROVE k \in Alive'
      <3>1. CASE v = u
        BY Zenon, <2>2, <3>1
      <3>2. CASE v # u
        <4>1. k \in Holds(v)
          BY Zenon, <2>2, <3>2, <1>1
        <4>2. k \in Alive /\ k \notin Holds(u) /\ k \notin ToSet(m_conns)
          BY Zenon, <3>2, <4>1, <1>2
        <4> QED
          BY Zenon, <4>2
      <3> QED
        BY Zenon, <3>1, <3>2
    <2> QED
      BY ZenonT(30), <2>1, <2>2
  <1>7. PoolExact'
    BY Zenon, <1>4, <1>5, <1>6 DEF PoolExact, Pooled
  <1>8. \A v \in Users : UserInv(user'[v])
    BY Zenon DEF IInv, OneUser
  <1> QED
    BY Zenon, <1>7, <1>8 DEF IInv, OneUser

(* Objects and list are as before, and u holds what it held. *)
LEMMA SameHoldings ==
    ASSUME IInv, NEW u \in Users, OneUser(u), UserInv(user'[u]), UNCHANGED <<conn, m_conns>>,
           Holds(u)' = Holds(u), user'[u].invalid \subseteq user[u].invalid,
           m_total' = m_total - user[u].owed + user'[u].owed
    PROVE  IInv'
  <1>1. Alive' = Alive /\ Pooled' = Pooled /\ ToSet(m_conns') = ToSet(m_conns)
    BY Zenon DEF Alive, Pooled
  <1>2. Holds(u) \cup ToSet(m_conns) \subseteq Alive
    BY Zenon DEF IInv, PoolExact
  <1>3. OwnInv'
    BY Zenon DEF IInv, OwnInv, OneUser
  <1>4. m_total' = Cardinality(Pooled)' + Cardinality(Owed)'
    <2>1. m_total = Cardinality(Pooled) + Cardinality(Owed)
      BY Zenon DEF IInv, PoolExact, Pooled
    <2>2. user'[u].owed \in Nat
      BY Zenon DEF UserInv
    <2>3. /\ Cardinality(Owed) \in Nat /\ user[u].owed \in Nat
          /\ Cardinality(Owed)' = Cardinality(Owed) - user[u].owed + user'[u].owed
      BY Zenon, <2>2, OwedStep
    <2>4. Cardinality(Pooled) \in Nat
      BY Zenon, PooledFinite
    <2> QED
      BY <1>1, <2>1, <2>2, <2>3, <2>4
  <1>5. Alive' = (Alive \ (Holds(u) \cup ToSet(m_conns))) \cup Holds(u)' \cup ToSet(m_conns')
    BY Zenon, <1>1, <1>2
  <1>6. Holds(u)' \cap ToSet(m_conns') = {} /\ IsInjective(m_conns')
    BY Zenon DEF IInv, PoolExact
  <1>7. DOMAIN conn' = Conns /\ (\A k \in Conns : ConnInv(conn'[k])) /\ m_conns' \in Seq(Conns)
    BY Zenon DEF IInv
  <1>8. \A k \in ToSet(m_conns') : conn'[k].uses < m_max_request
    BY Zenon DEF IInv, PoolExact
  <1>9. Holds(u)' \cup ToSet(m_conns') \subseteq Holds(u) \cup ToSet(m_conns) \cup (Conns \ Alive)
    BY Zenon, <1>1
  <1> HIDE DEF IInv
  <1> QED
    BY Zenon, <1>3, <1>4, <1>5, <1>6, <1>7, <1>8, <1>9, Trade

LEMMA RequestStep ==
    ASSUME IInv, NEW u \in Users, Request(u) \/ ConnectFail(u)
    PROVE  IInv'
  <1> DEFINE s == user'[u]
  <1>1. /\ UNCHANGED <<conn, m_conns, m_total>>
        /\ user[u].at \in {"idle", "connect", "poolconnect"}
        /\ \/ user' = [user EXCEPT ![u] = [Idle EXCEPT !.at = "connect", !.req = reqs + 1]]
           \/ user' = [user EXCEPT ![u] = Idle]
    BY Zenon DEF Request, ConnectFail
  <1>2. OneUser(u)
    BY Zenon, <1>1 DEF OneUser, IInv
  <1>3. /\ DOMAIN s = DOMAIN Idle /\ s.at \in {"idle", "connect"}
        /\ s.conn = None /\ s.invalid = {} /\ s.owed = 0
    <2>1. s = [Idle EXCEPT !.at = "connect", !.req = reqs + 1] \/ s = Idle
      BY Zenon, <1>1 DEF IInv
    <2> HIDE DEF s
    <2>2. CASE s = Idle
      BY <2>2 DEF Idle
    <2>3. CASE s = [Idle EXCEPT !.at = "connect", !.req = reqs + 1]
      BY <2>3 DEF Idle
    <2> QED
      BY Zenon, <2>1, <2>2, <2>3
  <1>4. user[u].conn = None /\ user[u].invalid = {} /\ user[u].owed = 0
    BY <1>1 DEF IInv, UserInv
  <1>5. UserInv(s)
    BY <1>3, ClientAssumption DEF UserInv, Receiving
  <1>6. Holds(u)' = Holds(u)
    BY Zenon, <1>3, <1>4 DEF Holds, K
  <1>7. m_total' = m_total - user[u].owed + s.owed
    <2>1. m_total \in Nat
      BY OwedStep, PooledFinite, <1>2, <1>3 DEF IInv, PoolExact, Pooled
    <2> QED
      BY <2>1, <1>1, <1>3, <1>4
  <1> QED
    BY Zenon, <1>1, <1>2, <1>3, <1>4, <1>5, <1>6, <1>7, SameHoldings

LEMMA TotalStep ==
    ASSUME IInv, NEW u \in Users, Total(u) \/ Released(u)
    PROVE  IInv'
  <1> DEFINE s == user'[u]
  <1>1. /\ UNCHANGED <<conn, m_conns>> /\ m_total' = m_total - user[u].owed
    BY Zenon DEF Total, Released
  <1>2. OneUser(u)
    BY Zenon DEF OneUser, IInv, Total, Released
  <1>3. UserInv(user[u])
    BY Zenon DEF IInv
  <1>4. UserInv(s) /\ Holds(u)' = Holds(u) /\ s.invalid = {} /\ s.owed = 0
    <2>1. CASE Released(u)
      <3>1. user[u].at = "released" /\ s = Idle
        BY Zenon, <2>1 DEF Released, IInv
      <3>2. DOMAIN s = DOMAIN Idle /\ s.at = "idle" /\ s.conn = None /\ s.invalid = {} /\ s.owed = 0
        BY <3>1 DEF Idle
      <3>3. user[u].conn = None /\ user[u].invalid = {}
        BY <1>3, <3>1 DEF UserInv
      <3> HIDE DEF s
      <3>4. UserInv(s)
        BY <3>2, ClientAssumption DEF UserInv, Receiving
      <3>5. Holds(u)' = Holds(u)
        BY Zenon, <3>2, <3>3 DEF Holds, K, s
      <3> QED
        BY Zenon, <3>2, <3>4, <3>5
    <2>2. CASE Total(u)
      <3>1. /\ user[u].at = "total" /\ DOMAIN s = DOMAIN Idle /\ s.conn = user[u].conn
            /\ s.invalid = user[u].invalid /\ s.owed = 0
            /\ s.at = IF user[u].conn = None THEN "poolconnect" ELSE "send"
        BY <2>2, <1>3, UserFields DEF Total, IInv, UserInv, K
      <3>2. user[u].invalid = {} /\ user[u].conn \in Conns \cup {None}
        BY Zenon, <1>3, <3>1 DEF UserInv
      <3> HIDE DEF s
      <3>3. UserInv(s)
        BY <3>1, <3>2, ClientAssumption DEF UserInv, Receiving
      <3>4. Holds(u)' = Holds(u)
        <4>1. CASE user[u].conn = None
          BY Zenon, <3>1, <4>1 DEF Holds, K, s
        <4>2. CASE user[u].conn # None
          BY Zenon, <3>1, <4>2 DEF Holds, K, s, Busy
        <4> QED
          BY Zenon, <4>1, <4>2
      <3> QED
        BY Zenon, <3>1, <3>2, <3>3, <3>4
    <2> QED
      BY Zenon, <2>1, <2>2
  <1>5. m_total' = m_total - user[u].owed + s.owed
    <2>1. m_total \in Nat /\ user[u].owed \in Nat
      BY OwedStep, PooledFinite, <1>2, <1>4 DEF IInv, PoolExact, Pooled
    <2> QED
      BY <2>1, <1>1, <1>4
  <1> QED
    BY Zenon, <1>1, <1>2, <1>4, <1>5, SameHoldings

(* Min is what it says on a set of natural numbers. *)
LEMMA LeastNat ==
    ASSUME NEW T, T \subseteq Nat, T # {}
    PROVE  \E x \in T : \A y \in T : x <= y
<1> DEFINE R == OpToRel(<, Nat)
<1>1. PICK x \in T : \A y \in T : ~ (<<y, x>> \in R)
  <2> HIDE DEF R
  <2>1. IsWellFoundedOn(R, Nat)
    BY Zenon, NatLessThanWellFounded DEF R
  <2> QED
    BY Zenon, <2>1, WFMin
<1>2. \A y \in T : ~(y < x)
  BY Zenon, <1>1 DEF OpToRel
<1> QED
  BY <1>2

LEMMA MinFacts ==
    ASSUME NEW T, T \subseteq Nat, T # {}
    PROVE  Min(T) \in T /\ \A y \in T : Min(T) <= y
  BY Zenon, LeastNat DEF Min

(* The front of the list goes to be deleted, the next connection is used,    *)
(* and the rest stays.                                                       *)
LEMMA CutList ==
    ASSUME NEW q \in Seq(Conns), IsInjective(q), NEW i \in 1..Len(q) + 1
    PROVE  LET front == SubSeq(q, 1, i - 1)
               rest == SubSeq(q, i + 1, Len(q))
           IN  /\ rest \in Seq(Conns) /\ IsInjective(rest)
               /\ ToSet(front) \subseteq ToSet(q) /\ ToSet(rest) \subseteq ToSet(q)
               /\ ToSet(front) \cap ToSet(rest) = {}
               /\ i = Len(q) + 1 => ToSet(front) = ToSet(q) /\ ToSet(rest) = {}
               /\ i <= Len(q) => /\ q[i] \in ToSet(q) /\ q[i] \notin ToSet(front)
                                 /\ q[i] \notin ToSet(rest)
                                 /\ ToSet(q) = ToSet(front) \cup {q[i]} \cup ToSet(rest)
  <1> DEFINE front == SubSeq(q, 1, i - 1)
             rest == SubSeq(q, i + 1, Len(q))
  <1>1. /\ Len(front) = i - 1 /\ DOMAIN front = 1..i - 1
        /\ \A j \in 1..i - 1 : front[j] = q[j]
    OBVIOUS
  <1>2. /\ rest \in Seq(Conns) /\ DOMAIN rest = 1..Len(rest)
        /\ Len(rest) = (IF i <= Len(q) THEN Len(q) - i ELSE 0)
        /\ \A j \in 1..Len(rest) : rest[j] = q[i + j]
    OBVIOUS
  <1> HIDE DEF front, rest
  <1>3. IsInjective(rest)
    <2>1. \A j \in 1..Len(rest) : i + j \in 1..Len(q)
      BY <1>2
    <2>2. \A j, k \in 1..Len(rest) : i + j = i + k => j = k
      OBVIOUS
    <2>3. \A j, k \in 1..Len(q) : q[j] = q[k] => j = k
      BY DEF IsInjective
    <2> SUFFICES ASSUME NEW j \in 1..Len(rest), NEW k \in 1..Len(rest), rest[j] = rest[k]
                 PROVE  j = k
      BY Zenon, <1>2 DEF IsInjective
    <2>4. q[i + j] = q[i + k]
      BY Zenon, <1>2
    <2>5. i + j = i + k
      BY Zenon, <2>1, <2>3, <2>4
    <2> QED
      BY Zenon, <2>2, <2>5
  <1>4. ToSet(front) = {q[j] : j \in 1..i - 1}
    BY <1>1 DEF ToSet
  <1>5. ToSet(rest) = {q[j] : j \in i + 1..Len(q)}
    <2>1. \A j \in i + 1..Len(q) : j - i \in 1..Len(rest) /\ rest[j - i] = q[j]
      BY <1>2
    <2>2. \A j \in 1..Len(rest) : i + j \in i + 1..Len(q)
      BY <1>2
    <2>3. ToSet(rest) \subseteq {q[j] : j \in i + 1..Len(q)}
      BY Zenon, <1>2, <2>2 DEF ToSet
    <2>4. \A j \in i + 1..Len(q) : q[j] \in ToSet(rest)
      BY Zenon, <1>2, <2>1 DEF ToSet
    <2> QED
      BY Zenon, <2>3, <2>4
  <1>6. ToSet(q) = {q[j] : j \in 1..Len(q)}
    BY DEF ToSet
  <1>7. \A j, k \in 1..Len(q) : q[j] = q[k] => j = k
    BY DEF IsInjective
  <1>8. /\ ToSet(front) \subseteq ToSet(q) /\ ToSet(rest) \subseteq ToSet(q)
        /\ ToSet(front) \cap ToSet(rest) = {}
    BY <1>4, <1>5, <1>6, <1>7
  <1>9. i = Len(q) + 1 => ToSet(front) = ToSet(q) /\ ToSet(rest) = {}
    BY <1>4, <1>5, <1>6
  <1>10. i <= Len(q) => /\ q[i] \in ToSet(q) /\ q[i] \notin ToSet(front)
                        /\ q[i] \notin ToSet(rest)
                        /\ ToSet(q) = ToSet(front) \cup {q[i]} \cup ToSet(rest)
    BY <1>4, <1>5, <1>6, <1>7
  <1> QED
    BY Zenon, <1>2, <1>3, <1>8, <1>9, <1>10 DEF front, rest

LEMMA PoolRequestStep ==
    ASSUME IInv, NEW u \in Users, PoolRequest(u)
    PROVE  IInv'
  <1> DEFINE good == {i \in DOMAIN m_conns : Valid(m_conns[i])}
             at == IF good = {} THEN Len(m_conns) + 1 ELSE Min(good)
             one == IF good = {} THEN None ELSE m_conns[at]
             front == SubSeq(m_conns, 1, at - 1)
             rest == SubSeq(m_conns, at + 1, Len(m_conns))
             s == user'[u]
  <1>1. /\ user[u].at = "idle" /\ UNCHANGED <<conn, m_total>> /\ m_conns' = rest
        /\ user' = [user EXCEPT ![u] = [Idle EXCEPT !.at = "delete", !.req = reqs + 1,
                                          !.conn = one, !.invalid = ToSet(front)]]
    BY Zenon DEF PoolRequest, GetConnection
  <1>2. m_conns \in Seq(Conns) /\ IsInjective(m_conns)
    BY Zenon DEF IInv, PoolExact
  <1>3. at \in 1..Len(m_conns) + 1 /\ (good # {} => at <= Len(m_conns)) /\ (good = {} => at = Len(m_conns) + 1)
    <2>1. good \subseteq 1..Len(m_conns)
      BY <1>2
    <2>2. CASE good = {}
      BY <1>2, <2>2
    <2>3. CASE good # {}
      <3>1. good \subseteq Nat
        BY <2>1
      <3> HIDE DEF good
      <3>2. at \in good
        BY Zenon, <2>3, <3>1, MinFacts
      <3>3. at \in 1..Len(m_conns)
        BY Zenon, <2>1, <3>2
      <3> HIDE DEF at
      <3> QED
        BY <1>2, <2>3, <3>3
    <2> QED
      BY Zenon, <2>2, <2>3
  <1> HIDE DEF good, at
  <1>4. /\ rest \in Seq(Conns) /\ IsInjective(rest)
        /\ ToSet(front) \subseteq ToSet(m_conns) /\ ToSet(rest) \subseteq ToSet(m_conns)
        /\ ToSet(front) \cap ToSet(rest) = {}
        /\ at = Len(m_conns) + 1 => ToSet(front) = ToSet(m_conns) /\ ToSet(rest) = {}
        /\ at <= Len(m_conns) => /\ m_conns[at] \in ToSet(m_conns) /\ m_conns[at] \notin ToSet(front)
                                 /\ m_conns[at] \notin ToSet(rest)
                                 /\ ToSet(m_conns) = ToSet(front) \cup {m_conns[at]} \cup ToSet(rest)
    BY Zenon, <1>2, <1>3, CutList
  <1>5. /\ DOMAIN s = DOMAIN Idle /\ s.at = "delete" /\ s.conn = one
        /\ s.invalid = ToSet(front) /\ s.owed = 0
    <2>1. s = [Idle EXCEPT !.at = "delete", !.req = reqs + 1, !.conn = one, !.invalid = ToSet(front)]
      BY Zenon, <1>1 DEF IInv
    <2> HIDE DEF s, one, front
    <2> QED
      BY <2>1 DEF Idle
  <1>6. OneUser(u)
    BY Zenon, <1>1 DEF OneUser, IInv
  <1>7. user[u].conn = None /\ user[u].invalid = {} /\ user[u].owed = 0
    BY <1>1 DEF IInv, UserInv
  <1>8. Holds(u) = {}
    BY Zenon, <1>7 DEF Holds, K
  <1>9. /\ Holds(u)' \cup ToSet(rest) = ToSet(m_conns) /\ Holds(u)' \cap ToSet(rest) = {}
        /\ one \in Conns \cup {None} /\ one \notin ToSet(front)
    <2>0. /\ ToSet(m_conns) \subseteq Conns /\ None \notin Conns
      BY Zenon, ClientAssumption DEF IInv, PoolExact, Alive
    <2>1. CASE good = {}
      <3>1. Holds(u)' = ToSet(front) /\ one = None
        BY Zenon, <1>5, <2>1 DEF Holds, K, one
      <3>2. ToSet(front) = ToSet(m_conns) /\ ToSet(rest) = {}
        BY Zenon, <1>3, <1>4, <2>1
      <3> HIDE DEF one, front, rest
      <3> QED
        BY Zenon, <2>0, <3>1, <3>2
    <2>2. CASE good # {}
      <3>1. /\ m_conns[at] \in ToSet(m_conns) /\ m_conns[at] \notin ToSet(front)
            /\ m_conns[at] \notin ToSet(rest)
            /\ ToSet(m_conns) = ToSet(front) \cup {m_conns[at]} \cup ToSet(rest)
        BY Zenon, <1>3, <1>4, <2>2
      <3>2. one = m_conns[at] /\ one # None
        BY Zenon, <2>0, <2>2, <3>1 DEF one
      <3>3. Holds(u)' = ToSet(front) \cup {one}
        BY Zenon, <1>5, <3>2 DEF Holds, K, Busy
      <3>4. ToSet(front) \cap ToSet(rest) = {}
        BY Zenon, <1>4
      <3> HIDE DEF one, front, rest
      <3> QED
        BY Zenon, <2>0, <3>1, <3>2, <3>3, <3>4
    <2> QED
      BY Zenon, <2>1, <2>2
  <1>10. UserInv(s)
    <2>1. ToSet(front) \in SUBSET Conns
      BY Zenon, <1>4 DEF IInv, PoolExact, Alive
    <2> HIDE DEF s, one, front, rest
    <2> QED
      BY <1>5, <1>9, <2>1 DEF UserInv, Receiving
  <1>11. Alive' = Alive /\ Pooled' = Pooled /\ ToSet(m_conns) \subseteq Alive
    BY Zenon, <1>1 DEF Alive, Pooled, IInv, PoolExact
  <1>12. OwnInv'
    <2>1. \A k \in ToSet(m_conns) : conn'[k].pooled
      BY Zenon, <1>1 DEF IInv, OwnInv
    <2>2. \A k \in ToSet(m_conns') : conn'[k].pooled
      BY Zenon, <1>1, <1>4, <2>1
    <2>3. \A v \in Users : \A k \in user'[v].invalid : conn'[k].pooled
      BY ZenonT(30), <1>1, <1>4, <1>5, <1>6, <2>1 DEF IInv, OwnInv, OneUser
    <2> QED
      BY Zenon, <2>2, <2>3 DEF OwnInv
  <1>13. m_total' = Cardinality(Pooled)' + Cardinality(Owed)'
    <2>1. m_total = Cardinality(Pooled) + Cardinality(Owed)
      BY Zenon DEF IInv, PoolExact, Pooled
    <2>2. s.owed \in Nat
      BY Zenon, <1>10 DEF UserInv
    <2>3. /\ Cardinality(Owed) \in Nat
          /\ Cardinality(Owed)' = Cardinality(Owed) - user[u].owed + s.owed
      BY Zenon, <1>6, <2>2, OwedStep
    <2>4. Cardinality(Owed)' = Cardinality(Owed)
      BY <2>3, <1>5, <1>7
    <2> QED
      BY Zenon, <1>1, <1>11, <2>1, <2>4
  <1>14. \A k \in ToSet(m_conns') : conn'[k].uses < m_max_request
    BY Zenon, <1>1, <1>4 DEF IInv, PoolExact
  <1>15. DOMAIN conn' = Conns /\ (\A k \in Conns : ConnInv(conn'[k]))
    BY Zenon, <1>1 DEF IInv
  <1> HIDE DEF s, one, front, rest
  <1>16. /\ Holds(u)' \cup ToSet(m_conns') \subseteq Holds(u) \cup ToSet(m_conns) \cup (Conns \ Alive)
         /\ Alive' = (Alive \ (Holds(u) \cup ToSet(m_conns))) \cup Holds(u)' \cup ToSet(m_conns')
    <2>1. m_conns' = rest
      BY Zenon, <1>1
    <2> QED
      BY Zenon, <2>1, <1>8, <1>9, <1>11
  <1>17. /\ m_conns' \in Seq(Conns) /\ IsInjective(m_conns') /\ Holds(u)' \cap ToSet(m_conns') = {}
    BY Zenon, <1>1, <1>4, <1>9
  <1>18. UserInv(user'[u])
    BY Zenon, <1>10 DEF s
  <1> QED
    BY Zenon, <1>6, <1>12, <1>13, <1>14, <1>15, <1>16, <1>17, <1>18, Trade

(* A set of the pool's objects is deleted, or an object joins them. *)
LEMMA PooledLess ==
    ASSUME NEW S \in SUBSET Pooled, Pooled' = Pooled \ S
    PROVE  Cardinality(S) \in Nat /\ Cardinality(Pooled)' = Cardinality(Pooled) - Cardinality(S)
  <1>1. IsFiniteSet(Pooled) /\ Cardinality(Pooled) \in Nat
    BY Zenon, PooledFinite
  <1>2. Cardinality(Pooled \ S) = Cardinality(Pooled) - Cardinality(Pooled \cap S)
    BY Zenon, <1>1, FS_Difference
  <1>3. Pooled \cap S = S
    BY Zenon
  <1>4. Cardinality(S) \in Nat
    BY Zenon, <1>1, FS_Subset, FS_CardinalityType
  <1> QED
    BY Zenon, <1>2, <1>3, <1>4

LEMMA DeleteStep ==
    ASSUME IInv, NEW u \in Users, Delete(u)
    PROVE  IInv'
  <1> DEFINE s == user'[u]
             gone == user[u].invalid
  <1>1. /\ user[u].at = "delete" /\ UNCHANGED <<m_conns, m_total>>
        /\ conn' = [k \in Conns |-> IF k \in gone THEN NoConn ELSE conn[k]]
    BY Zenon DEF Delete
  <1>2. UserInv(user[u])
    BY Zenon DEF IInv
  <1>3. /\ DOMAIN s = DOMAIN Idle /\ s.at = "total" /\ s.conn = user[u].conn
        /\ s.invalid = {} /\ s.owed = Cardinality(gone)
    BY <1>2, UserFields DEF Delete, IInv, UserInv
  <1>4. OneUser(u)
    BY Zenon DEF OneUser, IInv, Delete
  <1>5. user[u].owed = 0 /\ gone \in SUBSET Conns /\ user[u].conn \notin gone
    BY Zenon, <1>1, <1>2 DEF UserInv
  <1>6. Holds(u)' = Holds(u) \ gone /\ gone \subseteq Holds(u)
    <2>1. CASE user[u].conn = None
      BY Zenon, <2>1, <1>3 DEF Holds, K
    <2>2. CASE user[u].conn # None
      BY Zenon, <2>2, <1>1, <1>3, <1>5 DEF Holds, K, Busy
    <2> QED
      BY Zenon, <2>1, <2>2
  <1>7. /\ Holds(u) \cup ToSet(m_conns) \subseteq Alive /\ Holds(u) \cap ToSet(m_conns) = {}
        /\ IsInjective(m_conns) /\ m_conns \in Seq(Conns)
    BY Zenon DEF IInv, PoolExact
  <1>8. NoConn.alive = FALSE /\ ConnInv(NoConn)
    BY DEF NoConn, ConnInv
  <1>9. Alive' = Alive \ gone
    BY Zenon, <1>1, <1>5, <1>8 DEF Alive
  <1>10. Pooled' = Pooled \ gone /\ gone \subseteq Pooled
    <2>1. gone \subseteq Pooled
      BY Zenon, <1>6, <1>7 DEF Pooled, IInv, OwnInv
    <2>2. \A k \in Alive \ gone : conn'[k] = conn[k]
      BY Zenon, <1>1 DEF Alive
    <2> QED
      BY Zenon, <1>9, <2>1, <2>2 DEF Pooled
  <1>11. Cardinality(gone) \in Nat /\ Cardinality(Pooled)' = Cardinality(Pooled) - Cardinality(gone)
    BY Zenon, <1>10, PooledLess
  <1>12. UserInv(s)
    <2> HIDE DEF s, gone
    <2> QED
      BY <1>2, <1>3, <1>11 DEF UserInv, Receiving
  <1>13. DOMAIN conn' = Conns /\ \A k \in Conns : ConnInv(conn'[k])
    BY Zenon, <1>1, <1>8 DEF IInv
  <1>14. OwnInv' /\ \A k \in ToSet(m_conns') : conn'[k].uses < m_max_request
    <2>1. \A k \in ToSet(m_conns) : k \in Conns /\ k \notin gone
      BY Zenon, <1>6, <1>7 DEF Alive
    <2>2. \A k \in ToSet(m_conns) : conn'[k] = conn[k]
      BY Zenon, <1>1, <2>1
    <2>3. ASSUME NEW v \in Users, NEW k \in user'[v].invalid PROVE conn'[k].pooled
      <3>1. v # u /\ user'[v] = user[v]
        BY Zenon, <1>3, <1>4, <2>3 DEF OneUser
      <3>2. k \in Holds(v) /\ k \in Conns
        BY Zenon, <2>3, <3>1 DEF Holds, IInv, UserInv
      <3>3. k \notin gone
        BY Zenon, <1>6, <3>1, <3>2 DEF IInv, PoolExact
      <3> QED
        BY Zenon, <1>1, <2>3, <3>1, <3>2, <3>3 DEF IInv, OwnInv
    <2> QED
      BY Zenon, <1>1, <2>2, <2>3 DEF OwnInv, IInv, PoolExact
  <1>15. m_total' = Cardinality(Pooled)' + Cardinality(Owed)'
    <2>1. m_total = Cardinality(Pooled) + Cardinality(Owed) /\ Cardinality(Pooled) \in Nat
      BY Zenon, PooledFinite DEF IInv, PoolExact, Pooled
    <2>2. /\ Cardinality(Owed) \in Nat
          /\ Cardinality(Owed)' = Cardinality(Owed) - user[u].owed + s.owed
      BY Zenon, <1>3, <1>4, <1>11, OwedStep
    <2>3. m_total' = m_total /\ user[u].owed = 0 /\ s.owed = Cardinality(gone)
      BY Zenon, <1>1, <1>3, <1>5
    <2> HIDE DEF s, gone
    <2> QED
      BY <2>1, <2>2, <2>3, <1>11
  <1> HIDE DEF gone, s
  <1>16. /\ Holds(u)' \cup ToSet(m_conns') \subseteq Holds(u) \cup ToSet(m_conns) \cup (Conns \ Alive)
         /\ Alive' = (Alive \ (Holds(u) \cup ToSet(m_conns))) \cup Holds(u)' \cup ToSet(m_conns')
         /\ Holds(u)' \cap ToSet(m_conns') = {}
    <2>1. ToSet(m_conns') = ToSet(m_conns)
      BY Zenon, <1>1
    <2> HIDE DEF Holds, Alive, ToSet
    <2> QED
      BY Zenon, <2>1, <1>6, <1>7, <1>9
  <1>17. /\ m_conns' \in Seq(Conns) /\ IsInjective(m_conns')
    BY Zenon, <1>1, <1>7
  <1>18. UserInv(user'[u])
    BY Zenon, <1>12 DEF s
  <1> QED
    BY Zenon, <1>4, <1>13, <1>14, <1>15, <1>16, <1>17, <1>18, Trade

LEMMA ConnectStep ==
    ASSUME IInv, NEW u \in Users, NEW k \in Conns, Connect(u, k)
    PROVE  IInv'
  <1> DEFINE s == user'[u]
             pool == user[u].at = "poolconnect"
  <1>1. /\ user[u].at \in {"connect", "poolconnect"} /\ ~conn[k].alive /\ m_conns' = m_conns
        /\ conn' = [conn EXCEPT ![k] = Connected(pool)]
        /\ m_total' = IF pool THEN m_total + 1 ELSE m_total
    BY Zenon DEF Connect
  <1>2. UserInv(user[u])
    BY Zenon DEF IInv
  <1>3. /\ DOMAIN s = DOMAIN Idle /\ s.at = "send" /\ s.conn = k
        /\ s.invalid = user[u].invalid /\ s.owed = user[u].owed
    BY <1>2, UserFields DEF Connect, IInv, UserInv
  <1>4. OneUser(u)
    BY Zenon DEF OneUser, IInv, Connect
  <1>5. user[u].owed = 0 /\ user[u].invalid = {} /\ user[u].conn = None
    BY <1>1, <1>2 DEF UserInv
  <1>6. Holds(u) = {} /\ Holds(u)' = {k}
    BY Zenon, <1>3, <1>5, ClientAssumption DEF Holds, K, Busy
  <1>7. /\ Connected(pool).alive = TRUE /\ Connected(pool).pooled = pool /\ Connected(pool).uses = 0
        /\ DOMAIN Connected(pool) = DOMAIN NoConn
    BY DEF Connected, NoConn
  <1>8. ConnInv(Connected(pool))
    <2>1. 0 \in Nat
      OBVIOUS
    <2>2. pool \in BOOLEAN
      BY Zenon
    <2> QED
      BY Zenon, <1>7, <2>1, <2>2 DEF ConnInv
  <1>9. /\ conn'[k] = Connected(pool) /\ \A j \in Conns : j # k => conn'[j] = conn[j]
        /\ DOMAIN conn' = Conns /\ \A j \in Conns : ConnInv(conn'[j])
    BY Zenon, <1>1, <1>8 DEF IInv
  <1>10. k \notin Alive /\ Alive' = Alive \cup {k} /\ Alive \subseteq Conns
    BY Zenon, <1>1, <1>7, <1>9 DEF Alive
  <1>11. Pooled' = (IF pool THEN Pooled \cup {k} ELSE Pooled) /\ k \notin Pooled
    <2>1. conn'[k].pooled = pool /\ \A j \in Alive : conn'[j] = conn[j]
      BY Zenon, <1>7, <1>9, <1>10
    <2> HIDE DEF pool
    <2>2. CASE pool
      BY Zenon, <1>10, <2>1, <2>2 DEF Pooled
    <2>3. CASE ~pool
      BY Zenon, <1>10, <2>1, <2>3 DEF Pooled
    <2> QED
      BY Zenon, <2>2, <2>3
  <1>12. /\ ToSet(m_conns) \subseteq Alive /\ Holds(u) \cap ToSet(m_conns) = {}
         /\ IsInjective(m_conns) /\ m_conns \in Seq(Conns)
    BY Zenon DEF IInv, PoolExact
  <1>13. UserInv(s)
    <2> HIDE DEF s
    <2> QED
      BY <1>3, <1>5, ClientAssumption DEF UserInv, Receiving
  <1>14. OwnInv' /\ \A j \in ToSet(m_conns') : conn'[j].uses < m_max_request
    <2>1. \A j \in ToSet(m_conns) : conn'[j] = conn[j]
      BY Zenon, <1>9, <1>10, <1>12
    <2>2. \A v \in Users : user'[v].invalid = user[v].invalid
      BY Zenon, <1>3, <1>4 DEF OneUser
    <2>3. \A v \in Users : \A j \in user[v].invalid : j \in Alive
      <3>1. \A v \in Users : Holds(v) \subseteq Alive
        BY Zenon DEF IInv, PoolExact
      <3>2. \A v \in Users : user[v].invalid \subseteq Holds(v)
        BY Zenon DEF Holds
      <3> QED
        BY Zenon, <3>1, <3>2
    <2>4. \A v \in Users : \A j \in user[v].invalid : conn'[j] = conn[j]
      BY Zenon, <1>9, <1>10, <2>3
    <2> QED
      BY ZenonT(30), <1>1, <2>1, <2>2, <2>4 DEF OwnInv, IInv, PoolExact
  <1>15. m_total' = Cardinality(Pooled)' + Cardinality(Owed)'
    <2>1. m_total = Cardinality(Pooled) + Cardinality(Owed) /\ Cardinality(Pooled) \in Nat
      BY Zenon, PooledFinite DEF IInv, PoolExact, Pooled
    <2>2. s.owed \in Nat
      BY Zenon, <1>13 DEF UserInv
    <2>3. /\ Cardinality(Owed) \in Nat
          /\ Cardinality(Owed)' = Cardinality(Owed) - user[u].owed + s.owed
      BY Zenon, <1>4, <2>2, OwedStep
    <2>4. Cardinality(Owed)' = Cardinality(Owed)
      BY <1>3, <1>5, <2>3
    <2>5. CASE pool
      <3>1. Cardinality(Pooled \cup {k}) = Cardinality(Pooled) + 1
        BY Zenon, <1>11, PooledFinite, FS_AddElement
      <3>2. Cardinality(Pooled)' = Cardinality(Pooled) + 1 /\ m_total' = m_total + 1
        BY Zenon, <1>1, <1>11, <2>5, <3>1
      <3> QED
        BY <2>1, <2>3, <2>4, <3>2
    <2>6. CASE ~pool
      BY Zenon, <1>1, <1>11, <2>1, <2>4, <2>6
    <2> QED
      BY Zenon, <2>5, <2>6
  <1> HIDE DEF s, pool
  <1>16. /\ Holds(u)' \cup ToSet(m_conns') \subseteq Holds(u) \cup ToSet(m_conns) \cup (Conns \ Alive)
         /\ Alive' = (Alive \ (Holds(u) \cup ToSet(m_conns))) \cup Holds(u)' \cup ToSet(m_conns')
         /\ Holds(u)' \cap ToSet(m_conns') = {}
    <2>1. ToSet(m_conns') = ToSet(m_conns)
      BY Zenon, <1>1
    <2> QED
      BY Zenon, <2>1, <1>6, <1>10, <1>12
  <1>17. /\ m_conns' \in Seq(Conns) /\ IsInjective(m_conns')
    BY Zenon, <1>1, <1>12
  <1>18. UserInv(user'[u])
    BY Zenon, <1>13 DEF s
  <1> QED
    BY Zenon, <1>4, <1>9, <1>14, <1>15, <1>16, <1>17, <1>18, Trade

(* A connection that was used up, was closed or is too old is deleted, *)
LEMMA ReleaseDelete ==
    ASSUME IInv, NEW u \in Users, user[u].at \in Receiving, UNCHANGED <<m_conns, m_total>>,
           conn' = [conn EXCEPT ![K(u)] = NoConn],
           user' = [user EXCEPT ![u] = IF conn[K(u)].pooled
                                       THEN [Idle EXCEPT !.at = "released", !.owed = 1]
                                       ELSE Idle]
    PROVE  IInv'
  <1> DEFINE s == user'[u]
             k == K(u)
  <1>1. k \in Conns /\ conn[k].alive = TRUE /\ k # None
    BY Zenon, HasConn, ClientAssumption
  <1>2. user[u].invalid = {} /\ user[u].owed = 0
    BY DEF IInv, UserInv, Receiving
  <1>3. /\ DOMAIN s = DOMAIN Idle /\ s.conn = None /\ s.invalid = {}
        /\ s.at \in {"idle", "released"} /\ s.owed = (IF conn[k].pooled THEN 1 ELSE 0)
        /\ s.owed # 0 => s.at = "released"
    <2>1. s = IF conn[k].pooled THEN [Idle EXCEPT !.at = "released", !.owed = 1] ELSE Idle
      BY Zenon DEF IInv
    <2> HIDE DEF s, k
    <2>2. CASE conn[k].pooled
      BY <2>1, <2>2 DEF Idle
    <2>3. CASE ~conn[k].pooled
      BY <2>1, <2>3 DEF Idle
    <2> QED
      BY Zenon, <2>2, <2>3
  <1>4. OneUser(u)
    BY Zenon DEF OneUser, IInv
  <1>5. Holds(u) = {k} /\ Holds(u)' = {}
    <2>1. user[u].at \notin {"idle", "connect", "poolconnect", "released"}
      BY DEF Receiving
    <2> QED
      BY Zenon, <1>1, <1>2, <1>3, <2>1 DEF Holds, Busy, K
  <1>6. NoConn.alive = FALSE /\ ConnInv(NoConn)
    BY DEF NoConn, ConnInv
  <1>7. /\ conn'[k] = NoConn /\ \A j \in Conns : j # k => conn'[j] = conn[j]
        /\ DOMAIN conn' = Conns /\ \A j \in Conns : ConnInv(conn'[j])
    BY Zenon, <1>1, <1>6 DEF IInv
  <1>8. Alive' = Alive \ {k} /\ k \in Alive
    BY Zenon, <1>1, <1>6, <1>7 DEF Alive
  <1>9. /\ Holds(u) \cap ToSet(m_conns) = {} /\ ToSet(m_conns) \subseteq Alive
        /\ IsInjective(m_conns) /\ m_conns \in Seq(Conns)
    BY Zenon DEF IInv, PoolExact
  <1>10. OwnInv' /\ \A j \in ToSet(m_conns') : conn'[j].uses < m_max_request
    <2>1. \A j \in ToSet(m_conns) : j \in Conns /\ j # k
      BY Zenon, <1>5, <1>9 DEF Alive
    <2>2. \A j \in ToSet(m_conns) : conn'[j] = conn[j]
      BY Zenon, <1>7, <2>1
    <2>3. ASSUME NEW v \in Users, NEW j \in user'[v].invalid PROVE conn'[j].pooled
      <3>1. v # u /\ user'[v] = user[v]
        BY Zenon, <1>3, <1>4, <2>3 DEF OneUser
      <3>2. j \in Holds(v) /\ j \in Conns
        BY Zenon, <2>3, <3>1 DEF Holds, IInv, UserInv
      <3>3. j # k
        BY Zenon, <1>5, <3>1, <3>2 DEF IInv, PoolExact
      <3> QED
        BY Zenon, <1>7, <2>3, <3>1, <3>2, <3>3 DEF IInv, OwnInv
    <2> QED
      BY Zenon, <2>2, <2>3 DEF OwnInv, IInv, PoolExact
  <1>11. UserInv(s)
    <2> HIDE DEF s, k
    <2> QED
      BY <1>3, ClientAssumption DEF UserInv, Receiving
  <1>12. m_total' = Cardinality(Pooled)' + Cardinality(Owed)'
    <2>1. m_total = Cardinality(Pooled) + Cardinality(Owed) /\ Cardinality(Pooled) \in Nat
      BY Zenon, PooledFinite DEF IInv, PoolExact, Pooled
    <2>2. s.owed \in Nat
      BY Zenon, <1>11 DEF UserInv
    <2>3. /\ Cardinality(Owed) \in Nat
          /\ Cardinality(Owed)' = Cardinality(Owed) - user[u].owed + s.owed
      BY Zenon, <1>4, <2>2, OwedStep
    <2>4. CASE conn[k].pooled
      <3>1. Pooled' = Pooled \ {k} /\ {k} \in SUBSET Pooled
        BY Zenon, <2>4, <1>7, <1>8 DEF Pooled, Alive
      <3>2. Cardinality({k}) = 1 /\ Cardinality(Pooled)' = Cardinality(Pooled) - Cardinality({k})
        BY Zenon, <3>1, PooledLess, FS_Singleton
      <3>3. s.owed = 1
        BY Zenon, <2>4, <1>3
      <3> HIDE DEF s, k
      <3> QED
        BY <1>2, <2>1, <2>3, <3>2, <3>3
    <2>5. CASE ~conn[k].pooled
      <3>1. Pooled' = Pooled
        BY Zenon, <2>5, <1>7, <1>8 DEF Pooled, Alive
      <3>2. s.owed = 0
        BY Zenon, <2>5, <1>3
      <3> HIDE DEF s, k
      <3> QED
        BY <1>2, <2>1, <2>3, <3>1, <3>2
    <2> QED
      BY Zenon, <2>4, <2>5
  <1> HIDE DEF s, k
  <1>13. /\ Holds(u)' \cup ToSet(m_conns') \subseteq Holds(u) \cup ToSet(m_conns) \cup (Conns \ Alive)
         /\ Alive' = (Alive \ (Holds(u) \cup ToSet(m_conns))) \cup Holds(u)' \cup ToSet(m_conns')
         /\ Holds(u)' \cap ToSet(m_conns') = {}
    <2>1. ToSet(m_conns') = ToSet(m_conns)
      BY Zenon
    <2> QED
      BY Zenon, <2>1, <1>5, <1>8, <1>9
  <1>14. /\ m_conns' \in Seq(Conns) /\ IsInjective(m_conns')
    BY Zenon, <1>9
  <1>15. UserInv(user'[u])
    BY Zenon, <1>11 DEF s
  <1> QED
    BY Zenon, <1>4, <1>7, <1>10, <1>12, <1>13, <1>14, <1>15, Trade

(* and any other of the pool's waits in the list. *)
LEMMA AppendNew ==
    ASSUME NEW q \in Seq(Conns), IsInjective(q), NEW k \in Conns, k \notin ToSet(q)
    PROVE  /\ Append(q, k) \in Seq(Conns) /\ IsInjective(Append(q, k))
           /\ ToSet(Append(q, k)) = ToSet(q) \cup {k}
  <1> DEFINE a == Append(q, k)
             n == Len(q)
  <1>1. /\ a \in Seq(Conns) /\ DOMAIN a = 1..n + 1 /\ DOMAIN q = 1..n /\ n \in Nat
        /\ a[n + 1] = k /\ \A i \in 1..n : a[i] = q[i]
    OBVIOUS
  <1>2. 1..n + 1 = 1..n \cup {n + 1}
    BY <1>1
  <1> HIDE DEF a, n
  <1>3. \A i \in 1..n : q[i] # k
    BY Zenon, <1>1 DEF ToSet
  <1>4. IsInjective(a)
    <2> SUFFICES ASSUME NEW i \in 1..n + 1, NEW j \in 1..n + 1, a[i] = a[j] PROVE i = j
      BY Zenon, <1>1 DEF IsInjective
    <2>1. \A x, y \in 1..n : q[x] = q[y] => x = y
      BY Zenon, <1>1 DEF IsInjective
    <2>2. i \in 1..n \/ i = n + 1
      BY Zenon, <1>2
    <2>3. j \in 1..n \/ j = n + 1
      BY Zenon, <1>2
    <2> QED
      BY Zenon, <1>1, <1>3, <2>1, <2>2, <2>3
  <1>5. ToSet(a) = ToSet(q) \cup {k}
    <2>1. ToSet(a) \subseteq ToSet(q) \cup {k}
      BY Zenon, <1>1, <1>2 DEF ToSet
    <2>2. n + 1 \in 1..n + 1 /\ \A i \in 1..n : i \in 1..n + 1
      BY Zenon, <1>2
    <2>3. k \in ToSet(a) /\ \A i \in 1..n : q[i] \in ToSet(a)
      BY Zenon, <1>1, <2>2 DEF ToSet
    <2>4. ToSet(q) \subseteq ToSet(a)
      BY Zenon, <1>1, <2>3 DEF ToSet
    <2> QED
      BY Zenon, <2>1, <2>3, <2>4
  <1> QED
    BY Zenon, <1>1, <1>4, <1>5 DEF a

LEMMA ReleaseKeep ==
    ASSUME IInv, NEW u \in Users, user[u].at \in Receiving, m_total' = m_total,
           conn[K(u)].pooled, conn[K(u)].uses + 1 < m_max_request,
           conn' = [conn EXCEPT ![K(u)].uses = conn[K(u)].uses + 1],
           m_conns' = Append(m_conns, K(u)),
           user' = [user EXCEPT ![u] = Idle]
    PROVE  IInv'
  <1> DEFINE k == K(u)
  <1>1. k \in Conns /\ conn[k].alive = TRUE /\ k # None
    BY Zenon, HasConn, ClientAssumption
  <1>2. user[u].invalid = {} /\ user[u].owed = 0
    BY DEF IInv, UserInv, Receiving
  <1>3. user'[u] = Idle /\ OneUser(u)
    BY Zenon DEF OneUser, IInv
  <1>4. Idle.at = "idle" /\ Idle.conn = None /\ Idle.invalid = {} /\ Idle.owed = 0
    BY DEF Idle
  <1>5. UserInv(Idle)
    BY <1>4, ClientAssumption DEF UserInv, Receiving
  <1>6. Holds(u) = {k} /\ Holds(u)' = {}
    <2>1. user[u].at \notin {"idle", "connect", "poolconnect", "released"}
      BY DEF Receiving
    <2> QED
      BY Zenon, <1>1, <1>2, <1>3, <1>4, <2>1 DEF Holds, Busy, K
  <1>7. /\ DOMAIN conn' = Conns /\ \A j \in Conns : j # k => conn'[j] = conn[j]
        /\ DOMAIN conn'[k] = DOMAIN conn[k] /\ conn'[k].uses = conn[k].uses + 1
        /\ conn'[k].alive = conn[k].alive /\ conn'[k].pooled = conn[k].pooled
    BY <1>1, UserFields DEF IInv, ConnInv
  <1>8. conn[k].uses + 1 \in Nat
    BY <1>1 DEF IInv, ConnInv
  <1>9. \A j \in Conns : ConnInv(conn'[j])
    BY Zenon, <1>7, <1>8 DEF IInv, ConnInv
  <1>10. Alive' = Alive /\ Pooled' = Pooled
    BY Zenon, <1>7 DEF Alive, Pooled
  <1>11. /\ Holds(u) \cap ToSet(m_conns) = {} /\ ToSet(m_conns) \cup Holds(u) \subseteq Alive
         /\ IsInjective(m_conns) /\ m_conns \in Seq(Conns)
    BY Zenon DEF IInv, PoolExact
  <1>12. /\ m_conns' \in Seq(Conns) /\ IsInjective(m_conns')
         /\ ToSet(m_conns') = ToSet(m_conns) \cup {k}
    <2>1. k \notin ToSet(m_conns)
      BY Zenon, <1>6, <1>11
    <2> QED
      BY Zenon, <1>1, <1>11, <2>1, AppendNew
  <1>13. OwnInv' /\ \A j \in ToSet(m_conns') : conn'[j].uses < m_max_request
    <2>1. \A j \in ToSet(m_conns) : j \in Conns /\ j # k
      BY Zenon, <1>6, <1>11 DEF Alive
    <2>2. \A j \in ToSet(m_conns) : conn'[j] = conn[j]
      BY Zenon, <1>7, <2>1
    <2>3. \A j \in ToSet(m_conns') : conn'[j].pooled /\ conn'[j].uses < m_max_request
      BY Zenon, <1>7, <1>12, <2>2 DEF IInv, OwnInv, PoolExact
    <2>4. ASSUME NEW v \in Users, NEW j \in user'[v].invalid PROVE conn'[j].pooled
      <3>1. v # u /\ user'[v] = user[v]
        BY Zenon, <1>3, <1>4, <2>4 DEF OneUser
      <3>2. j \in Conns /\ conn[j].pooled
        BY Zenon, <2>4, <3>1 DEF IInv, UserInv, OwnInv
      <3> QED
        BY Zenon, <1>7, <3>2
    <2> QED
      BY Zenon, <2>3, <2>4 DEF OwnInv
  <1>14. m_total' = Cardinality(Pooled)' + Cardinality(Owed)'
    <2>1. m_total = Cardinality(Pooled) + Cardinality(Owed)
      BY Zenon DEF IInv, PoolExact, Pooled
    <2>2. user'[u].owed = 0 /\ user'[u].owed \in Nat
      BY <1>3, <1>4
    <2>3. /\ Cardinality(Owed) \in Nat
          /\ Cardinality(Owed)' = Cardinality(Owed) - user[u].owed + user'[u].owed
      BY Zenon, <1>3, <2>2, OwedStep
    <2>4. Cardinality(Owed)' = Cardinality(Owed)
      BY <1>2, <2>2, <2>3
    <2> QED
      BY Zenon, <1>10, <2>1, <2>4
  <1> HIDE DEF k
  <1>15. /\ Holds(u)' \cup ToSet(m_conns') \subseteq Holds(u) \cup ToSet(m_conns) \cup (Conns \ Alive)
         /\ Alive' = (Alive \ (Holds(u) \cup ToSet(m_conns))) \cup Holds(u)' \cup ToSet(m_conns')
         /\ Holds(u)' \cap ToSet(m_conns') = {}
    BY Zenon, <1>6, <1>10, <1>11, <1>12
  <1> QED
    BY ZenonT(30), <1>3, <1>5, <1>7, <1>9, <1>12, <1>13, <1>14, <1>15, Trade

LEMMA ReleaseStep ==
    ASSUME IInv, NEW u \in Users, Release(u)
    PROVE  IInv'
  <1> DEFINE k == K(u)
             uses == conn[k].uses + 1
             drop == \/ ~conn[k].pooled
                     \/ ~conn[k].connected \/ conn[k].old \/ uses >= m_max_request
  <1>1. user[u].at \in Receiving /\ m_total' = m_total
    BY Zenon DEF Release, Receiving
  <1>2. CASE drop
    BY Zenon, <1>1, <1>2, ReleaseDelete DEF Release
  <1>3. CASE ~drop
    <2>1. uses < m_max_request
      <3>1. k \in Conns
        BY Zenon, <1>1, HasConn
      <3>2. conn[k].uses \in Nat
        BY Zenon, <3>1 DEF IInv, ConnInv
      <3> QED
        BY <1>3, <3>2, ClientAssumption
    <2> QED
      BY Zenon, <1>1, <1>3, <2>1, ReleaseKeep DEF Release
  <1> QED
    BY Zenon, <1>2, <1>3

-----------------------------------------------------------------------------
(* Conclusion *)

LEMMA Initially == Init => IInv
  <1> SUFFICES ASSUME Init PROVE IInv
    BY Zenon
  <1>1. /\ DOMAIN user = Users /\ \A u \in Users : user[u] = Idle
        /\ DOMAIN conn = Conns /\ \A k \in Conns : conn[k] = NoConn
        /\ m_conns = <<>> /\ m_total = 0
    BY Zenon DEF Init
  <1>2. Idle.at = "idle" /\ Idle.conn = None /\ Idle.invalid = {} /\ Idle.owed = 0
    BY DEF Idle
  <1>3. UserInv(Idle)
    BY <1>2, ClientAssumption DEF UserInv, Receiving
  <1>4. NoConn.alive = FALSE /\ ConnInv(NoConn)
    BY DEF NoConn, ConnInv
  <1>5. ToSet(m_conns) = {} /\ IsInjective(m_conns) /\ m_conns \in Seq(Conns)
    BY <1>1 DEF ToSet, IsInjective
  <1>6. \A u \in Users : Holds(u) = {}
    BY Zenon, <1>1, <1>2 DEF Holds, K
  <1>7. Alive = {} /\ {k \in Alive : conn[k].pooled} = {}
    BY Zenon, <1>1, <1>4 DEF Alive
  <1>8. Owed = {}
    <2>1. 1..0 = {}
      OBVIOUS
    <2> QED
      BY ZenonT(30), <1>1, <1>2, <2>1 DEF Owed
  <1>9. m_total = Cardinality({k \in Alive : conn[k].pooled}) + Cardinality(Owed)
    <2>1. Cardinality({}) = 0
      BY Zenon, FS_EmptySet
    <2> QED
      BY <1>1, <1>7, <1>8, <2>1
  <1>10. PoolExact
    BY Zenon, <1>5, <1>6, <1>7, <1>9 DEF PoolExact
  <1>11. OwnInv
    BY Zenon, <1>1, <1>2, <1>5 DEF OwnInv
  <1> QED
    BY Zenon, <1>1, <1>3, <1>4, <1>5, <1>10, <1>11 DEF IInv

LEMMA NextStep == IInv /\ [Next]_vars => IInv'
  <1> SUFFICES ASSUME IInv, [Next]_vars PROVE IInv'
    BY Zenon
  <1>1. ASSUME NEW u \in Users, Step(u) PROVE IInv'
    <2>1. CASE Exchange(u)
      BY Zenon, <2>1, SendStep, RecvHeadStep, RecvSizeStep, RecvLeftStep, RecvBodyStep, RecvFailStep
         DEF Exchange
    <2> QED
      BY Zenon, <1>1, <2>1, RequestStep, PoolRequestStep, DeleteStep, TotalStep, ConnectStep,
         ReleaseStep DEF Step
  <1>2. CASE UNCHANGED vars
    BY Zenon, <1>2, TrafficStep, NoTraffic DEF vars
  <1> QED
    BY Zenon, <1>1, <1>2, ServerStep DEF Next

(* The pool's books are exact in every reachable state: see UserInv, ConnInv *)
(* and OwnInv for what get_connection(), ReleasePtr and the requests rely on *)
(* in each other.                                                            *)
THEOREM Invariance == Spec => []IInv
  BY Initially, NextStep, PTL DEF Spec

(* However requests, deaths and deletions interleave, no connection of       *)
(* HTTPConnectionPool is idle twice, shared or lost, and m_total is exact up *)
(* to the subtractions under way.                                            *)
THEOREM PoolHolds == Spec => []PoolExact
  <1>1. IInv => PoolExact
    BY Zenon DEF IInv
  <1> QED
    BY <1>1, Invariance, PTL
=============================================================================
