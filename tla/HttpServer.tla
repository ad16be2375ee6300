----------------------------- MODULE HttpServer -----------------------------
(***************************************************************************)
(* HTTPServer::handle_client with HTTPSession::recv_request, send_response *)
(* and ServletDispatch (src/src/servers/http/), run for every client that  *)
(* the accept loops of TcpServer hand over.                                *)
(*                                                                         *)
(* The peers are arbitrary HTTP clients: they send whole requests, one at  *)
(* a time or several at once, TCP delivers them in pieces of any size, and *)
(* a peer may close at any point.  Every read may also time out.           *)
(***************************************************************************)
EXTENDS TcpServer, HttpParser

CONSTANTS m_keepalive,  \* HTTPServer::m_keepalive
          BuffSize,     \* HTTPRequestParser::GetHTTPRequestBufferSize()
          Kinds,        \* requests: [method, version, path, body (its length),
                        \* close]; a method or version may be INVALID
          Paths,        \* request paths
          Globs,        \* glob patterns, each the set of paths it matches
          MaxReqs       \* bound: requests per client

ASSUME HttpAssumption ==
  /\ \A kind \in Kinds : kind.body \in Nat
  /\ BuffSize \in Nat \ {0} /\ MaxReqs \in Nat

VARIABLES
  peer,     \* each client's end of its connection, see Fresh
  session,  \* the handler of each client: [at, parser, body]
  m_datas,  \* ServletDispatch::m_datas: the paths with a servlet
  m_globs,  \* ServletDispatch::m_globs: a sequence of patterns
  spinner,  \* who loops for ever with ServletDispatch::m_lock held
  aborted   \* an assertion of the parser ended the process

tableVars == <<m_datas, m_globs, spinner>>
httpVars == <<peer, session, tableVars, aborted>>
vars == <<tcpVars, httpVars>>

\* The part of TcpServer a handler leaves alone: all but `client`.
serverVars == <<m_is_stop, m_sockets, open, starting, stopTasks, loop,
                where, calls, life, bound, torn>>

NoSession == [at |-> "none", parser |-> ParserInit, body |-> <<>>]
NewRequest == [NoSession EXCEPT !.at = "recv"]

\* wire: bytes sent and not read; eof: the client closed; sent: its requests;
\* answers: responses sent to it.  History: the requests handled, [of, body];
\* a head took several reads; a request was sent before the last's answer.
Fresh == [wire |-> <<>>, eof |-> FALSE, sent |-> <<>>, answers |-> 0,
          handled |-> <<>>, pieces |-> FALSE, pipelined |-> FALSE]

Init ==
  /\ TcpInit
  /\ peer = [c \in Clients |-> Fresh]
  /\ session = [c \in Clients |-> NoSession]
  /\ m_datas = {} /\ m_globs = <<>> /\ spinner = None
  /\ aborted = FALSE

\* The request the parser's callbacks have put together: its path and, from
\* its headers, get_content_length() and m_close (HTTPRequest::init).
Kind(c, n) == peer[c].sent[n]
ContentLength(c, n) == Kind(c, n).body
IsClose(c, n) == Kind(c, n).close

\* The callbacks for the method and the version set m_error when they know
\* neither; the first byte of a head stands for its start line.
InvalidMethod(kind) == kind.method = "INVALID"
InvalidVersion(kind) == kind.version = "INVALID"
HasError(c, p) ==
  \/ p.error
  \/ p.cs > 0 /\ (InvalidMethod(Kind(c, p.of)) \/ InvalidVersion(Kind(c, p.of)))

BodyOf(c, n) == [k \in 1..Kind(c, n).body |-> <<n, HeadLen + k>>]

-----------------------------------------------------------------------------
(* The peers (not part of the library).  What one sends before its handler   *)
(* runs waits in the kernel, so the model lets it send from then on.         *)

Connected(c) == client[c] = "serving"

ClientSend(c, kind) ==
  /\ Connected(c) /\ ~peer[c].eof /\ Len(peer[c].sent) < MaxReqs
  /\ LET n == Len(peer[c].sent)
     IN  peer' = [peer EXCEPT
           ![c].sent = Append(@, kind),
           ![c].wire = @ \o Bytes(n + 1, HeadLen + kind.body),
           ![c].pipelined = @ \/ peer[c].answers < n]
  /\ UNCHANGED <<tcpVars, session, tableVars, aborted>>

\* The peer closes; of what is under way only the first k bytes arrive.
ClientClose(c, k) ==
  /\ Connected(c) /\ ~peer[c].eof
  /\ peer' = [peer EXCEPT ![c].eof = TRUE, ![c].wire = SubSeq(@, 1, k)]
  /\ UNCHANGED <<tcpVars, session, tableVars, aborted>>

-----------------------------------------------------------------------------
(* HTTPSession::recv_request                                                 *)

At(c, pc) == client[c] = "serving" /\ session[c].at = pc

\* handle_client starts on the worker's pool.
HandleClient(c) ==
  /\ client[c] = "scheduled"
  /\ client' = [client EXCEPT ![c] = "serving"]
  /\ session' = [session EXCEPT ![c] = NewRequest]
  /\ UNCHANGED <<serverVars, peer, tableVars, aborted>>

\* SocketStream::close, by recv_request or at the end of handle_client.
Close(c) ==
  /\ client' = [client EXCEPT ![c] = "closed"]
  /\ session' = [session EXCEPT ![c] = NoSession]
  /\ peer' = [peer EXCEPT ![c] = Fresh]

(* Mutant of AfterHead: what the first read did not bring is not waited for. *)
AfterHeadShort(c, p, rest) ==
  session' = [session EXCEPT ![c] =
    [at |-> "dispatch", parser |-> p,
     body |-> SubSeq(rest, 1, Min({Kind(c, p.of).body, Len(rest)}))]]

\* The head is complete: what the buffer holds behind it is the start of the
\* body, and what it holds behind the body is dropped with the buffer.
AfterHead(c, p, rest) ==
  LET length == ContentLength(c, p.of)
      body   == SubSeq(rest, 1, Min({length, Len(rest)}))
  IN  session' = [session EXCEPT ![c] =
                    [at |-> IF length > Len(rest) THEN "body" ELSE "dispatch",
                     parser |-> p, body |-> body]]

\* One turn of the loop: a read of n bytes, then execute().  The buffer is
\* empty before the read: an unfinished execute() has consumed it.
Recv(c, n) ==
  /\ At(c, "recv")
  /\ n <= Len(peer[c].wire) /\ n <= BuffSize
  /\ LET p == session[c].parser
         e == Execute(p, SubSeq(peer[c].wire, 1, n))
     IN  /\ aborted' = e.abort
         /\ \/ /\ ~e.abort /\ (HasError(c, e.parser) \/ Len(e.rest) = BuffSize)
               /\ Close(c)
            \/ /\ e.abort \/ (~HasError(c, e.parser) /\ Len(e.rest) # BuffSize)
               /\ peer' = [peer EXCEPT
                    ![c].wire = SubSeq(@, n + 1, Len(@)),
                    ![c].pieces = @ \/ p.cs > 0]
               /\ IF ~e.abort /\ Finished(e.parser)
                  THEN AfterHead(c, e.parser, e.rest)
                  ELSE session' = [session EXCEPT ![c].parser = e.parser]
               /\ UNCHANGED client
  /\ UNCHANGED <<serverVars, tableVars>>

\* read() returns 0 at the end of the stream: only len < 0 is an error, so the
\* loop reads again, for ever and without giving the thread back.
RecvEof(c) ==
  /\ At(c, "recv") /\ peer[c].eof /\ peer[c].wire = <<>>
  /\ session' = [session EXCEPT ![c].at = "spin"]
  /\ UNCHANGED <<tcpVars, peer, tableVars, aborted>>

Missing(c) == ContentLength(c, session[c].parser.of) - Len(session[c].body)

\* read() or read_fixed_size() fails: time-out or reset, or, for the body,
\* the end of the stream.
RecvFail(c) ==
  /\ \/ At(c, "recv") /\ peer[c].wire = <<>> /\ ~peer[c].eof
     \/ At(c, "body") /\ Len(peer[c].wire) < Missing(c)
  /\ Close(c)
  /\ UNCHANGED <<serverVars, tableVars, aborted>>

\* read_fixed_size() of the rest of the body.
RecvBody(c) ==
  /\ At(c, "body") /\ Missing(c) <= Len(peer[c].wire)
  /\ session' = [session EXCEPT
       ![c].at = "dispatch",
       ![c].body = @ \o SubSeq(peer[c].wire, 1, Missing(c))]
  /\ peer' = [peer EXCEPT ![c].wire = SubSeq(@, Missing(c) + 1, Len(@))]
  /\ UNCHANGED <<tcpVars, tableVars, aborted>>

-----------------------------------------------------------------------------
(* ServletDispatch                                                           *)

\* get_matched_servlet: the servlet of the path, else that of the first glob.
\* The loop over m_globs never advances, so a first glob that does not match
\* is compared for ever, under the read lock.
Matched(path) ==
  \/ path \in m_datas
  \/ m_globs = <<>>
  \/ path \in m_globs[1]

Dispatch(c) ==
  /\ At(c, "dispatch") /\ spinner # "writer"
  /\ LET n == session[c].parser.of
     IN  /\ peer' = [peer EXCEPT ![c].handled =
                       Append(@, [of |-> n, body |-> session[c].body])]
         /\ IF Matched(Kind(c, n).path)
            THEN /\ session' = [session EXCEPT ![c].at = "respond"]
                 /\ UNCHANGED spinner
            ELSE /\ session' = [session EXCEPT ![c].at = "stuck"]
                 /\ spinner' = "reader"
  /\ UNCHANGED <<tcpVars, m_datas, m_globs, aborted>>

\* send_response, whose result is ignored; then the next request, or close.
Respond(c) ==
  /\ At(c, "respond")
  /\ IF ~m_keepalive \/ IsClose(c, session[c].parser.of)
     THEN Close(c)
     ELSE /\ session' = [session EXCEPT ![c] = NewRequest]
          /\ peer' = [peer EXCEPT ![c].answers = @ + 1]
          /\ UNCHANGED client
  /\ UNCHANGED <<serverVars, tableVars, aborted>>

\* Changes of the table, by the application, under the write lock.
Admin == /\ Call
         /\ spinner = None
         /\ UNCHANGED <<m_is_stop, m_sockets, open, starting, stopTasks,
                        loop, client, where, life, bound, torn, peer, session,
                        aborted>>

AddServlet(path) ==
  Admin /\ m_datas' = m_datas \cup {path} /\ UNCHANGED <<m_globs, spinner>>

DelServlet(path) ==
  Admin /\ m_datas' = m_datas \ {path} /\ UNCHANGED <<m_globs, spinner>>

\* add_glob_servlet: an equal pattern is erased, any other one is compared for
\* ever under the write lock.
AddGlob(glob) ==
  /\ Admin
  /\ IF m_globs \in {<<>>, <<glob>>}
     THEN m_globs' = <<glob>> /\ UNCHANGED spinner
     ELSE spinner' = "writer" /\ UNCHANGED m_globs
  /\ UNCHANGED m_datas

DelGlob(glob) ==
  /\ Admin
  /\ IF m_globs \in {<<>>, <<glob>>}
     THEN m_globs' = <<>> /\ UNCHANGED spinner
     ELSE spinner' = "writer" /\ UNCHANGED m_globs
  /\ UNCHANGED m_datas

-----------------------------------------------------------------------------
Peer(c) ==
  \/ \E kind \in Kinds : ClientSend(c, kind)
  \/ \E k \in 0..Len(peer[c].wire) : ClientClose(c, k)

Handler(c) ==
  \/ HandleClient(c)
  \/ \E n \in 1..Len(peer[c].wire) : Recv(c, n)
  \/ RecvEof(c) \/ RecvFail(c) \/ RecvBody(c)
  \/ Dispatch(c) \/ Respond(c)

Tables ==
  \/ \E path \in Paths : AddServlet(path) \/ DelServlet(path)
  \/ \E glob \in Globs : AddGlob(glob) \/ DelGlob(glob)

Next ==
  /\ ~aborted
  /\ \/ TcpNext /\ UNCHANGED httpVars
     \/ \E c \in Clients : Peer(c) \/ Handler(c)
     \/ Tables

\* An accept loop that can run does run: accept() returns at the latest with
\* the receive time-out start_accept() sets.
Spec ==
  /\ Init /\ [][Next]_vars
  /\ \A i \in Loops : WF_vars(~aborted /\ AcceptLoop(i) /\ UNCHANGED httpVars)

-----------------------------------------------------------------------------
(* Type invariant of the server and its sessions. *)
TypeOK ==
  /\ TcpTypeOK
  /\ client \in [Clients -> {"away", "pending", "refused", "handshake",
                             "scheduled", "serving", "closed"}]
  /\ \A c \in Clients :
       /\ session[c].at \in {"none", "recv", "spin", "body", "dispatch",
                             "stuck", "respond"}
       /\ (client[c] = "serving") = (session[c].at # "none")
       /\ peer[c].answers <= Len(peer[c].handled)
       /\ Len(peer[c].handled) <= Len(peer[c].sent)
  /\ Len(m_globs) <= 1 /\ spinner \in {None, "reader", "writer"}

(* recv_request delivers what the client sent: as long as no head of a       *)
(* client took several reads and the client waits for its answers, the       *)
(* requests given to the servlets are its requests, in order, each with      *)
(* exactly its body, however body and head were cut; and the process aborts  *)
(* in the parser only if a head took several reads.                          *)
RequestsExact ==
  /\ aborted => \E c \in Clients : peer[c].pieces
  /\ \A c \in Clients :
       ~peer[c].pieces /\ ~peer[c].pipelined =>
         \A j \in DOMAIN peer[c].handled :
            peer[c].handled[j] = [of |-> j, body |-> BodyOf(c, j)]

(* Once the server is stopped for good every accept loop ends, whatever it   *)
(* was doing: waiting in accept(), in a TLS handshake or about to start.     *)
StopEndsAccepting ==
  <>[]m_is_stop => <>[](aborted \/ \A i \in Loops : loop[i].at = "free")
=============================================================================
