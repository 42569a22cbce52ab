-------------------------------- MODULE Rpc --------------------------------
(***************************************************************************)
(* rpc::Server and rpc::Client of src/so/rpc.cc over the server of         *)
(* TcpServer.  A message is a header, of which the magic number comes      *)
(* first and the length then, and a body; the header of a request may come *)
(* in two pieces.  A read that times out loses what it has read.  The      *)
(* server keeps a connection for any number of calls, and the client too,  *)
(* until something fails.                                                  *)
(*                                                                         *)
(* Left out: requests over HTTP, messages that are too long or not JSON.   *)
(***************************************************************************)
EXTENDS TcpServer

CONSTANTS MaxIdle,  \* FLG_rpc_max_idle_conn
          MaxCalls  \* bound: calls the client makes

(* A flag of the program, and how often the client calls.                  *)
ASSUME RpcAssumption == MaxIdle \in Nat /\ MaxCalls \in Nat

VARIABLES stopped,   \* _stopped of rpc::ServerImpl
          at,        \* where on_connection is for each connection
          kind,      \* its variable: 0 until the first header, then 1
          got,       \* what the recvn() it is in has read
          up, down,  \* what is on its way to the server, and back
          hungUp,    \* the client has closed the connection
          cli,       \* where the client is in call()
          sock,      \* its connection
          sent,      \* pieces of the request it has sent
          nth,       \* the call it is in, or the last one it was in
          answer     \* history: whose answer each call returned, 0: none

serveVars == <<at, kind, got>>
streams == <<up, down, hungUp>>
clientVars == <<cli, sock, sent, nth, answer>>
rpcVars == <<serverVars, stopped, serveVars, streams, clientVars>>

Piece == {"magic", "length", "body"} \X (1..MaxCalls)

RpcTypeOK ==
    /\ ServerTypeOK
    /\ stopped \in BOOLEAN
    /\ at \in [Conn -> {"none", "header", "body", "reply", "end"}]
    /\ kind \in [Conn -> 0..1]
    /\ got \in [Conn -> Seq(Piece)]
    /\ up \in [Conn -> Seq(Piece)] /\ down \in [Conn -> Seq(Piece)]
    /\ hungUp \in [Conn -> BOOLEAN]
    /\ cli \in {"idle", "connect", "send", "recv"}
    /\ sock \in Conn \cup {NoConn}
    /\ sent \in 0..2
    /\ nth \in 0..MaxCalls
    /\ answer \in [1..MaxCalls -> 0..MaxCalls]

RpcInit ==
    /\ ServerInit
    /\ stopped = FALSE
    /\ at = [c \in Conn |-> "none"] /\ kind = [c \in Conn |-> 0]
    /\ got = [c \in Conn |-> <<>>] /\ up = got /\ down = got
    /\ hungUp = [c \in Conn |-> FALSE]
    /\ cli = "idle" /\ sock = NoConn /\ sent = 0 /\ nth = 0
    /\ answer = [k \in 1..MaxCalls |-> 0]

-----------------------------------------------------------------------------
(* ServerImpl::on_connection; a connection it leaves is closed or reset,   *)
(* and what the client still sends goes nowhere.                           *)

Goto(c, where) == at' = [at EXCEPT ![c] = where]

OnConnection(c) ==
    /\ BeginConn(c)
    /\ Goto(c, "header")
    /\ UNCHANGED <<stopped, kind, got, streams, clientVars>>

(* recvn() of the 8 bytes of the header.                                   *)
RecvHeader(c) ==
    /\ at[c] = "header" /\ up[c] # <<>>
    /\ LET read == Append(got[c], Head(up[c]))
       IN  IF Len(read) < 2
           THEN got' = [got EXCEPT ![c] = read] /\ UNCHANGED <<at, kind>>
           ELSE /\ got' = [got EXCEPT ![c] = <<>>]
                /\ kind' = [kind EXCEPT ![c] = 1]
                /\ Goto(c, IF read[1][1] = "magic" THEN "body" ELSE "end")
    /\ up' = [up EXCEPT ![c] = Tail(@)]
    /\ UNCHANGED <<serverVars, stopped, down, hungUp, clientVars>>

(* The header does not come in time: an idle connection is kept, unless    *)
(* the server has been stopped or has too many.                            *)
HeaderTimeout(c) ==
    /\ at[c] = "header" /\ up[c] = <<>>
    /\ got' = [got EXCEPT ![c] = <<>>]
    /\ Goto(c, IF kind[c] = 0 \/ stopped \/ count - 1 > MaxIdle THEN "end" ELSE "header")
    /\ UNCHANGED <<serverVars, stopped, kind, streams, clientVars>>

RecvBody(c) ==
    /\ at[c] = "body" /\ up[c] # <<>>
    /\ got' = [got EXCEPT ![c] = <<Head(up[c])>>]
    /\ up' = [up EXCEPT ![c] = Tail(@)]
    /\ Goto(c, IF Head(up[c])[1] = "body" THEN "reply" ELSE "end")
    /\ UNCHANGED <<serverVars, stopped, kind, down, hungUp, clientVars>>

(* The body does not come in time, or the client is gone.                  *)
RecvFails(c) ==
    /\ up[c] = <<>>
    /\ at[c] = "body" \/ (at[c] = "header" /\ hungUp[c])
    /\ Goto(c, "end")
    /\ UNCHANGED <<serverVars, stopped, kind, got, streams, clientVars>>

(* process() and send(), of which n pieces get through.                    *)
Reply(c, n) ==
    /\ at[c] = "reply"
    /\ LET k == got[c][1][2]
       IN  down' = IF hungUp[c] THEN down ELSE [down EXCEPT ![c] = @ \o SubSeq(<< <<"magic", k>>, <<"body", k>> >>, 1, n)]
    /\ got' = [got EXCEPT ![c] = <<>>]
    /\ Goto(c, IF n < 2 \/ stopped THEN "end" ELSE "header")
    /\ UNCHANGED <<serverVars, stopped, kind, up, hungUp, clientVars>>

OnConnectionEnds(c) ==
    /\ at[c] = "end"
    /\ CallbackReturns(c)
    /\ Goto(c, "none")
    /\ kind' = [kind EXCEPT ![c] = 0]
    /\ got' = [got EXCEPT ![c] = <<>>]
    /\ up' = [up EXCEPT ![c] = <<>>]
    /\ hungUp' = [hungUp EXCEPT ![c] = FALSE]
    /\ UNCHANGED <<stopped, down, clientVars>>

Serve(c) ==
    \/ OnConnection(c) \/ RecvHeader(c) \/ HeaderTimeout(c) \/ RecvBody(c) \/ RecvFails(c)
    \/ (\E n \in 0..2 : Reply(c, n)) \/ OnConnectionEnds(c)

(* rpc::ServerImpl::exit() sets _stopped and calls that of tcp::Server.    *)
SetStopped ==
    /\ ~ stopped /\ ~ deleted
    /\ stopped' = TRUE
    /\ UNCHANGED <<serverVars, serveVars, streams, clientVars>>

-----------------------------------------------------------------------------
(* ClientImpl::call, with connect and disconnect of tcp::Client            *)

CallBegins ==
    /\ cli = "idle" /\ nth < MaxCalls
    /\ nth' = nth + 1
    /\ cli' = IF sock = NoConn THEN "connect" ELSE "send"
    /\ UNCHANGED <<serverVars, stopped, serveVars, streams, sock, sent, answer>>

Connected(c) ==
    /\ cli = "connect"
    /\ Connect(c)
    /\ sock' = c
    /\ cli' = "send"
    /\ UNCHANGED <<stopped, serveVars, streams, sent, nth, answer>>

ConnectFails ==
    /\ cli = "connect"
    /\ cli' = "idle"
    /\ UNCHANGED <<serverVars, stopped, serveVars, streams, sock, sent, nth, answer>>

Request == << <<"magic", nth>>, <<"length", nth>>, <<"body", nth>> >>

(* The server has closed its side.                                         *)
Gone(c) == conn[c] \in {"ended", "over"}

Send ==
    /\ cli = "send"
    /\ up' = IF Gone(sock) THEN up
             ELSE [up EXCEPT ![sock] = Append(@, Request[sent + 1])]
    /\ sent' = (sent + 1) % 3
    /\ cli' = IF sent = 2 THEN "recv" ELSE "send"
    /\ UNCHANGED <<serverVars, stopped, serveVars, down, hungUp, sock, nth, answer>>

(* tcp::Client::disconnect(): what comes back is not read any more.        *)
HangUpOn(c) ==
    /\ hungUp' = [hungUp EXCEPT ![c] = ~ Gone(c)]
    /\ down' = [down EXCEPT ![c] = <<>>]
    /\ sock' = NoConn

(* Slip: a call that times out leaves the connection to the next one.      *)
ErrEndKeepsConnection ==
    /\ cli \in {"send", "recv"}
    /\ sent' = 0 /\ cli' = "idle"
    /\ UNCHANGED <<serverVars, stopped, serveVars, streams, sock, nth, answer>>

(* A timeout, an error or the end of the connection, while the client      *)
(* sends or waits: it disconnects.                                         *)
ErrEnd ==
    /\ cli \in {"send", "recv"}
    /\ HangUpOn(sock)
    /\ sent' = 0 /\ cli' = "idle"
    /\ UNCHANGED <<serverVars, stopped, serveVars, up, nth, answer>>

(* The header and the body of a response have been read.                   *)
Response ==
    /\ cli = "recv" /\ Len(down[sock]) >= 2
    /\ down[sock][1][1] = "magic"
    /\ answer' = [answer EXCEPT ![nth] = down[sock][2][2]]
    /\ down' = [down EXCEPT ![sock] = SubSeq(@, 3, Len(@))]
    /\ cli' = "idle"
    /\ UNCHANGED <<serverVars, stopped, serveVars, up, hungUp, sock, sent, nth>>

(* rpc::Client::close(), between two calls.                                *)
ClientClose ==
    /\ cli = "idle" /\ sock # NoConn
    /\ HangUpOn(sock)
    /\ UNCHANGED <<serverVars, stopped, serveVars, up, cli, sent, nth, answer>>

-----------------------------------------------------------------------------
Client ==
    \/ CallBegins \/ (\E c \in Conn : Connected(c)) \/ ConnectFails
    \/ Send \/ ErrEnd \/ Response \/ ClientClose

Acceptor ==
    /\ \/ Start \/ LoopGoesOn \/ AcceptFails \/ Stop
       \/ \E c \in Conn : HandshakeFails(c) \/ End(c)
       \/ \E e \in Exiter : (stopped /\ Exit(e)) \/ StartStop(e) \/ PollStatus(e)
    /\ UNCHANGED <<stopped, serveVars, streams, clientVars>>

RpcNext == Acceptor \/ SetStopped \/ (\E c \in Conn : Serve(c)) \/ Client

(* Timeouts expire: a coroutine that serves a connection goes on.          *)
RpcFairness == ServerFairness /\ \A c \in Conn : WF_rpcVars(Serve(c))

RpcSpec == RpcInit /\ [][RpcNext]_rpcVars /\ RpcFairness

-----------------------------------------------------------------------------
(* A call returns nothing or the answer to its own request, although reads *)
(* time out in the middle of a message, on both sides, and connections     *)
(* are used again.                                                         *)
AnswersOwnCall == \A k \in 1..MaxCalls : answer[k] \in {0, k}

(* An RPC server that is told to exit accepts nobody and goes away: its    *)
(* connections do not outlive the call they are in, or their idle time, by *)
(* much.                                                                   *)
ExitEnds == NoneAccepted /\ (Closing ~> deleted)
=============================================================================
