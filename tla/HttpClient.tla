----------------------------- MODULE HttpClient -----------------------------
(***************************************************************************)
(* HTTPConnectionPool and HTTPConnection (src/src/servers/http/            *)
(* http_connection.cc): coroutines share a pool of keep-alive connections  *)
(* to one server, or make a request on a connection of their own with      *)
(* HTTPConnection::Request.                                                *)
(*                                                                         *)
(* The server is any HTTP server: it answers with a body of known length   *)
(* or in chunks, late or never, and may close at any point; TCP delivers   *)
(* its bytes in pieces of any size.  Every blocking call may time out.     *)
(***************************************************************************)
EXTENDS HttpParser, SequencesExt

CONSTANTS Users,          \* coroutines that make requests
          Conns,          \* connection objects
          Kinds,          \* responses: [chunked, sizes (of its body parts)]
          BufferSize,     \* GetHTTPResponseBufferSize()
          m_max_request,  \* HTTPConnectionPool::m_max_request
          MaxReqs         \* bound: requests made

None == "none"

ASSUME ClientAssumption == /\ BufferSize \in Nat \ {0} /\ MaxReqs \in Nat
                           /\ \A kind \in Kinds : kind.chunked \in BOOLEAN
                           /\ IsFiniteSet(Users) /\ IsFiniteSet(Conns)
                           /\ None \notin Conns /\ m_max_request \in Nat

VARIABLES
  user,     \* the request each coroutine is making, see Idle
  conn,     \* connection objects and the server's end of them, see NoConn
  m_conns,  \* HTTPConnectionPool::m_conns
  m_total,  \* HTTPConnectionPool::m_total
  reqs,     \* requests made so far
  kindOf,   \* the response the server gave to each request; 0: a garbled one
  aborted   \* an assertion of the parser ended the process

vars == <<user, conn, m_conns, m_total, reqs, kindOf, aborted>>

\* at: where the coroutine is; conn: the connection it holds; req: its request;
\* invalid: connections it has to delete; owed: what it has to take off
\* m_total.  Receiving: the parser, the buffer, the body so far, the bytes of
\* the chunk still to read, whether the inner loop of a chunk has just begun;
\* history: a head or a chunk's size line took several reads.
Idle == [at |-> "idle", conn |-> None, req |-> 0, invalid |-> {}, owed |-> 0,
         parser |-> ParserInit, data |-> <<>>, body |-> <<>>, left |-> 0,
         size |-> 0, begin |-> TRUE, pieces |-> FALSE]

\* The object: made by the pool or by Request, is_connected(), older than
\* m_max_alive_time, m_request; dirty: part of a request was written and the
\* rest was not.  The server's end: requests to answer, bytes under way, and
\* whether it has closed.
NoConn == [alive |-> FALSE, pooled |-> FALSE, connected |-> FALSE,
           old |-> FALSE, uses |-> 0, dirty |-> FALSE,
           asked |-> <<>>, wire |-> <<>>, eof |-> FALSE]

Init ==
  /\ user = [u \in Users |-> Idle] /\ conn = [k \in Conns |-> NoConn]
  /\ m_conns = <<>> /\ m_total = 0
  /\ reqs = 0
  /\ kindOf = [n \in 0..MaxReqs |-> [chunked |-> FALSE, sizes |-> <<>>]]
  /\ aborted = FALSE

-----------------------------------------------------------------------------
(* The bytes of a response.  Behind the head: the body, or its chunks, each  *)
(* a size line of two bytes, the data and CRLF; the last chunk is empty.     *)

Data(n, j, size) == [i \in 1..size |-> <<n, j, 0, i>>]
Chunk(n, j, size) ==
  <<<<n, j, 1>>, <<n, j, 2>>>> \o Data(n, j, size)
    \o <<<<n, j, 3>>, <<n, j, 4>>>>

BodyOf(n, kind) ==
  FlattenSeq([j \in DOMAIN kind.sizes |-> Data(n, j, kind.sizes[j])])

Response(n, kind) ==
  LET sizes == Append(kind.sizes, 0)
  IN  Bytes(n, HeadLen) \o
      IF kind.chunked
      THEN FlattenSeq([j \in DOMAIN sizes |-> Chunk(n, j, sizes[j])])
      ELSE BodyOf(n, kind)

\* execute(data, len, true): the parser starts afresh on every call.
SizeLine(data) ==
  LET k == kindOf[data[1][1]]
      InLine(i) == Len(data[i]) = 3 /\ data[i][3] = i
  IN  CASE Len(data) = 1 /\ InLine(1) -> [end |-> "more", size |-> 0]
        [] Len(data) > 1 /\ InLine(1) /\ InLine(2) ->
             [end |-> "finished", size |-> Append(k.sizes, 0)[data[1][2]]]
        [] OTHER -> [end |-> "error", size |-> 0]

-----------------------------------------------------------------------------
(* get_connection, ReleasePtr                                                *)

K(u) == user[u].conn
Wire(u) == conn[K(u)].wire
Go(u, at) == user' = [user EXCEPT ![u].at = at]

\* HTTPConnection::Request takes a connection of its own.
Request(u) ==
  /\ user[u].at = "idle" /\ reqs < MaxReqs
  /\ reqs' = reqs + 1
  /\ user' = [user EXCEPT ![u] =
                [Idle EXCEPT !.at = "connect", !.req = reqs + 1]]
  /\ UNCHANGED <<conn, m_conns, m_total, kindOf, aborted>>

\* get_connection(): under m_mutex, the connections at the front
\* that are closed or too old are taken out, and the first usable one.
Valid(k) == conn[k].connected /\ ~conn[k].old

GetConnection(u) ==
  /\ LET good == {i \in DOMAIN m_conns : Valid(m_conns[i])}
         i == IF good = {} THEN Len(m_conns) + 1 ELSE Min(good)
     IN  /\ user' = [user EXCEPT ![u] = [Idle EXCEPT
              !.at = "delete", !.req = reqs + 1,
              !.conn = IF good = {} THEN None ELSE m_conns[i],
              !.invalid = ToSet(SubSeq(m_conns, 1, i - 1))]]
         /\ m_conns' = SubSeq(m_conns, i + 1, Len(m_conns))

\* get(), post() and request() of the pool make a request and ask for a
\* connection.
PoolRequest(u) ==
  /\ user[u].at = "idle" /\ reqs < MaxReqs
  /\ reqs' = reqs + 1
  /\ GetConnection(u)
  /\ UNCHANGED <<conn, m_total, kindOf, aborted>>

\* The invalid connections are deleted without the lock,
Delete(u) ==
  /\ user[u].at = "delete"
  /\ conn' = [k \in Conns |-> IF k \in user[u].invalid THEN NoConn ELSE conn[k]]
  /\ user' = [user EXCEPT ![u].at = "total", ![u].invalid = {},
                          ![u].owed = Cardinality(user[u].invalid)]
  /\ UNCHANGED <<m_conns, m_total, reqs, kindOf, aborted>>

\* and then m_total, an atomic, is corrected.
Total(u) ==
  /\ user[u].at = "total"
  /\ m_total' = m_total - user[u].owed
  /\ user' = [user EXCEPT
       ![u].owed = 0,
       ![u].at = IF K(u) = None THEN "poolconnect" ELSE "send"]
  /\ UNCHANGED <<conn, m_conns, reqs, kindOf, aborted>>

\* Socket::connect() succeeds.
Connected(pooled) ==
  [NoConn EXCEPT !.alive = TRUE, !.connected = TRUE, !.pooled = pooled]

\* A new socket, connect() and a new HTTPConnection.  m_max_size is not read.
Connect(u, k) ==
  /\ user[u].at \in {"connect", "poolconnect"}
  /\ ~conn[k].alive
  /\ LET pooled == user[u].at = "poolconnect"
     IN  /\ conn' = [conn EXCEPT ![k] = Connected(pooled)]
         /\ m_total' = IF pooled THEN m_total + 1 ELSE m_total
  /\ user' = [user EXCEPT ![u].at = "send", ![u].conn = k]
  /\ UNCHANGED <<m_conns, reqs, kindOf, aborted>>

\* Name resolution, socket() or connect() (with TLS: the handshake) fails.
ConnectFail(u) ==
  /\ user[u].at \in {"connect", "poolconnect"}
  /\ user' = [user EXCEPT ![u] = Idle]
  /\ UNCHANGED <<conn, m_conns, m_total, reqs, kindOf, aborted>>

(* Mutant of Release: a connection goes back to the pool in any state. *)
ReleaseAny(u) ==
  /\ user[u].at \in {"ok", "failed"}
  /\ IF conn[K(u)].pooled
     THEN /\ conn' = [conn EXCEPT ![K(u)].uses = @ + 1]
          /\ m_conns' = Append(m_conns, K(u))
     ELSE /\ conn' = [conn EXCEPT ![K(u)] = NoConn]
          /\ UNCHANGED m_conns
  /\ user' = [user EXCEPT ![u] = Idle]
  /\ UNCHANGED <<m_total, reqs, kindOf, aborted>>

\* The connection's shared_ptr is destroyed: ReleasePtr for one of the pool.
Release(u) ==
  /\ user[u].at \in {"ok", "failed"}
  /\ LET k == K(u)
         uses == conn[k].uses + 1
     IN  IF \/ ~conn[k].pooled
            \/ ~conn[k].connected \/ conn[k].old \/ uses >= m_max_request
         THEN /\ conn' = [conn EXCEPT ![k] = NoConn]
              /\ user' = [user EXCEPT ![u] = IF conn[k].pooled
                            THEN [Idle EXCEPT !.at = "released", !.owed = 1]
                            ELSE Idle]
              /\ UNCHANGED m_conns
         ELSE /\ conn' = [conn EXCEPT ![k].uses = uses]
              /\ m_conns' = Append(m_conns, k)
              /\ user' = [user EXCEPT ![u] = Idle]
  /\ UNCHANGED <<m_total, reqs, kindOf, aborted>>

\* --m_total, behind the delete.
Released(u) ==
  /\ user[u].at = "released"
  /\ m_total' = m_total - user[u].owed
  /\ user' = [user EXCEPT ![u] = Idle]
  /\ UNCHANGED <<conn, m_conns, reqs, kindOf, aborted>>

-----------------------------------------------------------------------------
(* send_request, recv_response                                               *)

\* The whole request is written.  A server that has closed never sees it; one
\* that got part of an earlier request before it sees a garbled one.
Send(u) ==
  /\ user[u].at = "send"
  /\ LET seen == IF conn[K(u)].dirty THEN 0 ELSE user[u].req
     IN  conn' = IF conn[K(u)].eof THEN conn
                 ELSE [conn EXCEPT ![K(u)].asked = Append(@, seen)]
  /\ Go(u, "head")
  /\ UNCHANGED <<m_conns, m_total, reqs, kindOf, aborted>>

\* write_fixed_size fails, with part of the request written or none of it.
\* The connection is left connected.
SendFail(u, part) ==
  /\ user[u].at = "send"
  /\ conn' = [conn EXCEPT ![K(u)].dirty = @ \/ part]
  /\ Go(u, "failed")
  /\ UNCHANGED <<m_conns, m_total, reqs, kindOf, aborted>>

Shut == [NoConn EXCEPT !.alive = TRUE, !.eof = TRUE]

(* Mutant of Fail: the connection is not closed. *)
FailOpen(u) == UNCHANGED conn /\ Go(u, "failed")

\* close() and return nullptr.
Fail(u) ==
  /\ conn' = [conn EXCEPT ![K(u)] = [Shut EXCEPT
                !.pooled = conn[K(u)].pooled, !.uses = conn[K(u)].uses]]
  /\ Go(u, "failed")

Take(u, n) == conn' = [conn EXCEPT ![K(u)].wire = SubSeq(@, n + 1, Len(@))]

\* HTTPResponseParser::execute(data, len, false) and get_content_length()
ResponseExecute(p, data) == Execute(p, data)
ContentLength(kind) == Len(BodyOf(0, kind))

\* The head loop: a read of n bytes, then execute().
RecvHead(u, n) ==
  /\ user[u].at = "head"
  /\ n <= Len(Wire(u)) /\ n <= BufferSize
  /\ LET p == user[u].parser
         e == ResponseExecute(p, SubSeq(Wire(u), 1, n))
         kind == kindOf[e.parser.of]
         next == CASE ~Finished(e.parser) -> "head"
                   [] kind.chunked -> "chunk"
                   [] OTHER -> "body"
     IN  /\ aborted' = e.abort
         /\ IF ~e.abort /\ (e.parser.error \/ Len(e.rest) = BufferSize)
            THEN Fail(u)
            ELSE /\ Take(u, n)
                 /\ user' = [user EXCEPT
                      ![u].at = next, ![u].parser = e.parser,
                      ![u].data = IF next = "chunk" THEN e.rest ELSE <<>>,
                      ![u].body = IF next = "body"
                        THEN SubSeq(e.rest, 1,
                               Min({Len(e.rest), ContentLength(kind)}))
                        ELSE <<>>,
                      ![u].pieces = @ \/ p.cs > 0]
  /\ UNCHANGED <<m_conns, m_total, reqs, kindOf>>

\* read_fixed_size() of what a body of known length still misses.
Missing(u) ==
  ContentLength(kindOf[user[u].parser.of]) - Len(user[u].body)

RecvBody(u) ==
  /\ user[u].at = "body" /\ Missing(u) <= Len(Wire(u))
  /\ user' = [user EXCEPT ![u].at = "ok",
                          ![u].body = @ \o SubSeq(Wire(u), 1, Missing(u))]
  /\ Take(u, Missing(u))
  /\ UNCHANGED <<m_conns, m_total, reqs, kindOf, aborted>>

\* A turn of the loop that looks for a chunk's size line: it reads unless the
\* chunk has just begun and the buffer still holds bytes.
MustRead(u) == ~user[u].begin \/ user[u].data = <<>>

RecvSize(u, n) ==
  /\ user[u].at = "chunk"
  /\ n \in IF MustRead(u)
           THEN 1..Min({Len(Wire(u)), BufferSize - Len(user[u].data)})
           ELSE {0}
  /\ LET data == user[u].data \o SubSeq(Wire(u), 1, n)
         line == SizeLine(data)
         rest == SubSeq(data, 3, Len(data))
         size == line.size
     IN  CASE line.end = "error" -> Fail(u)
           [] line.end = "more" ->
                /\ user' = [user EXCEPT ![u].data = <<>>, ![u].begin = FALSE,
                                        ![u].pieces = TRUE]
                /\ Take(u, n)
           [] line.end = "finished" ->
                /\ Take(u, n)
                /\ user' = [user EXCEPT ![u] =
                     IF size + 2 <= Len(rest)
                     THEN [@ EXCEPT
                       !.at = IF size = 0 THEN "ok" ELSE "chunk",
                       !.begin = TRUE,
                       !.body = user[u].body \o SubSeq(rest, 1, size),
                       !.data = SubSeq(rest, size + 3, Len(rest))]
                     ELSE [@ EXCEPT
                       !.at = "left", !.body = user[u].body \o rest, !.size = size,
                       !.left = size - Len(rest) + 2]]
  /\ UNCHANGED <<m_conns, m_total, reqs, kindOf, aborted>>

\* The rest of a chunk and its CRLF, which is cut off again at the end.
RecvLeft(u, n) ==
  /\ user[u].at = "left"
  /\ n <= Min({Len(Wire(u)), user[u].left, BufferSize})
  /\ LET body == user[u].body \o SubSeq(Wire(u), 1, n)
     IN  user' = [user EXCEPT ![u] =
           IF user[u].left > n
           THEN [@ EXCEPT !.body = body, !.left = user[u].left - n]
           ELSE [@ EXCEPT !.body = SubSeq(body, 1, Len(body) - 2),
                          !.data = <<>>, !.left = 0, !.begin = TRUE,
                          !.at = IF user[u].size = 0 THEN "ok" ELSE "chunk"]]
  /\ Take(u, n)
  /\ UNCHANGED <<m_conns, m_total, reqs, kindOf, aborted>>

\* There read() == 0 is not an error: at the end of the stream the loop spins.
LeftEof(u) ==
  /\ user[u].at = "left" /\ Wire(u) = <<>> /\ conn[K(u)].eof
  /\ Go(u, "spin")
  /\ UNCHANGED <<conn, m_conns, m_total, reqs, kindOf, aborted>>

\* A read fails: the time-out, a reset, or elsewhere the end of the stream.
RecvFail(u) ==
  /\ \/ user[u].at = "head" /\ Wire(u) = <<>>
     \/ user[u].at = "body" /\ Len(Wire(u)) < Missing(u)
     \/ user[u].at = "chunk" /\ MustRead(u) /\ Wire(u) = <<>>
     \/ user[u].at = "left" /\ Wire(u) = <<>> /\ ~conn[K(u)].eof
  /\ Fail(u)
  /\ UNCHANGED <<m_conns, m_total, reqs, kindOf, aborted>>

-----------------------------------------------------------------------------
(* The server (not part of the library), and time.                           *)

Answer(k, kind) ==
  /\ conn[k].asked # <<>> /\ ~conn[k].eof
  /\ LET n == Head(conn[k].asked)
     IN  /\ kindOf' = IF n = 0 THEN kindOf ELSE [kindOf EXCEPT ![n] = kind]
         /\ conn' = [conn EXCEPT ![k].asked = Tail(@),
                       ![k].wire = @ \o Response(n, kindOf'[n])]
  /\ UNCHANGED <<user, m_conns, m_total, reqs, aborted>>

\* It answers with bytes that are no response.
Garbage(k) ==
  /\ conn[k].asked # <<>> /\ ~conn[k].eof
  /\ conn' = [conn EXCEPT ![k].asked = Tail(@),
                          ![k].wire = Append(@, <<0, HeadLen + 1>>)]
  /\ UNCHANGED <<user, m_conns, m_total, reqs, kindOf, aborted>>

\* It closes; of the bytes under way only the first m arrive.
ServerClose(k, m) ==
  /\ conn[k].alive /\ ~conn[k].eof
  /\ conn' = [conn EXCEPT ![k].eof = TRUE, ![k].asked = <<>>,
                          ![k].wire = SubSeq(@, 1, m)]
  /\ UNCHANGED <<user, m_conns, m_total, reqs, kindOf, aborted>>

\* m_max_alive_time passes since m_create_time.
Age(k) ==
  /\ conn[k].alive /\ conn[k].pooled /\ ~conn[k].old
  /\ conn' = [conn EXCEPT ![k].old = TRUE]
  /\ UNCHANGED <<user, m_conns, m_total, reqs, kindOf, aborted>>

\* What request() of the pool and HTTPConnection::Request do with their
\* connection.
Exchange(u) ==
  \/ Send(u) \/ \E part \in BOOLEAN : SendFail(u, part)
  \/ user[u].at = "head" /\ \E n \in 1..Len(Wire(u)) : RecvHead(u, n)
  \/ user[u].at = "chunk" /\ \E n \in 0..Len(Wire(u)) : RecvSize(u, n)
  \/ user[u].at = "left" /\ \E n \in 1..Len(Wire(u)) : RecvLeft(u, n)
  \/ RecvBody(u) \/ LeftEof(u) \/ RecvFail(u)

Step(u) ==
  \/ Request(u) \/ PoolRequest(u) \/ Delete(u) \/ Total(u)
  \/ \E k \in Conns : Connect(u, k)
  \/ ConnectFail(u) \/ Release(u) \/ Released(u)
  \/ Exchange(u)

Server(k) ==
  \/ \E kind \in Kinds : Answer(k, kind)
  \/ Garbage(k)
  \/ \E m \in 0..Len(conn[k].wire) : ServerClose(k, m)

Next == /\ ~aborted
        /\ \/ \E u \in Users : Step(u)
           \/ \E k \in Conns : Server(k) \/ Age(k)

Spec == Init /\ [][Next]_vars

-----------------------------------------------------------------------------
Busy(u) == user[u].at \notin {"idle", "connect", "poolconnect", "released"}

\* The connection objects that a coroutine of the pool is responsible for.
Holds(u) == user[u].invalid \cup (IF Busy(u) /\ K(u) # None THEN {K(u)} ELSE {})

\* One for each that a coroutine has still to take off m_total.
Owed == UNION {{u} \X (1..user[u].owed) : u \in Users}

Alive == {k \in Conns : conn[k].alive}

(* The pool keeps its books however requests, deaths and deletions           *)
(* interleave: no connection object is in m_conns twice, held by two         *)
(* requests or held by one and idle in m_conns, none is lost, none is used   *)
(* after it is deleted; m_total counts the pool's objects up to the          *)
(* subtractions under way; one that waits has been used less than            *)
(* m_max_request times.                                                      *)
PoolExact ==
  /\ IsInjective(m_conns)
  /\ \A u \in Users : Holds(u) \cap ToSet(m_conns) = {}
  /\ \A u, v \in Users : u # v => Holds(u) \cap Holds(v) = {}
  /\ Alive = ToSet(m_conns) \cup UNION {Holds(u) : u \in Users}
  /\ m_total = Cardinality({k \in Alive : conn[k].pooled}) + Cardinality(Owed)
  /\ \A k \in ToSet(m_conns) : conn[k].uses < m_max_request

(* A response that recv_response returns is the answer to the very request   *)
(* of the caller, with exactly the body the server sent, also on a           *)
(* connection that was used before, and after requests that failed on it;    *)
(* except behind a request that was only written in part, or when a head or  *)
(* a size line took several reads, the only case where the parser aborts.    *)
ResponsesExact ==
  /\ aborted => \E u \in Users : user[u].pieces
  /\ \A u \in Users :
       user[u].at = "ok" /\ ~user[u].pieces /\ ~conn[K(u)].dirty =>
         /\ user[u].parser.of = user[u].req
         /\ user[u].body = BodyOf(user[u].req, kindOf[user[u].req])
=============================================================================
