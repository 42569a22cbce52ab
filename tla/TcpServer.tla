----------------------------- MODULE TcpServer -----------------------------
(***************************************************************************)
(* tcp::Server of src/so/tcp.cc: a coroutine accepts connections and       *)
(* starts a coroutine for each, which runs the user's callback; exit(),    *)
(* called by any thread or coroutine, makes it stop by a connection to the *)
(* server's own port.  The server counts its references and deletes itself *)
(* when the last one is gone.  exit() holds none: what it reads after that *)
(* is whatever the freed memory holds.                                     *)
(***************************************************************************)
EXTENDS Naturals, Sequences, FiniteSets

CONSTANTS Conn,     \* connections to the server
          Exiter,   \* threads and coroutines that call exit()
          Own,      \* the connection stop() makes
          NoConn

(* Own and NoConn are no connection of a client.                           *)
ASSUME ServerAssumption == IsFiniteSet(Conn) /\ Own # NoConn /\ {Own, NoConn} \cap Conn = {}

VARIABLES status,   \* _status: 0 running, 1 to stop, 2 stopped
          count,    \* _count
          fd,       \* _fd: "none" is -1
          connfd,   \* _connfd
          server,   \* where loop() is
          backlog,  \* connections the kernel has and accept() has not given
          conn,     \* what has become of each connection
          exiter,   \* where each caller of exit() is
          deleted   \* the ServerImpl has deleted itself

serverVars == <<status, count, fd, connfd, server, backlog, conn, exiter, deleted>>

Connection == Conn \cup {Own}

(* go: its coroutine has been added to a scheduler; ended: the callback    *)
(* has returned, or the SSL handshake has failed.                          *)
Served == {"go", "callback", "ended"}

ServerTypeOK ==
    /\ status \in 0..2
    /\ count \in 0..Cardinality(Conn) + 1
    /\ fd \in {"none", "listening"}
    /\ connfd \in Connection \cup {NoConn}
    /\ server \in {"out", "start", "accept", "accepted", "handle", "close", "stopped", "unref", "end"}
    /\ backlog \in Seq(Connection)
    /\ conn \in [Connection -> Served \cup {"out", "task", "queued", "over"}]
    /\ exiter \in [Exiter -> {"out", "slept", "poll", "back"}]
    /\ deleted \in BOOLEAN

ServerInit ==
    /\ status = 0 /\ count = 0 /\ fd = "none" /\ connfd = NoConn
    /\ server = "out" /\ backlog = <<>>
    /\ conn = [c \in Connection |-> "out"]
    /\ exiter = [e \in Exiter |-> "out"]
    /\ deleted = FALSE

-----------------------------------------------------------------------------
(* The references                                                          *)

(* The exit callback is called and the object deleted in one go.           *)
Unref ==
    /\ count' = count - 1
    /\ deleted' = (count = 1)

(* Slip: the coroutine of a connection takes its reference by itself.      *)
HandleUnreferenced ==
    /\ server = "handle"
    /\ conn' = [conn EXCEPT ![connfd] = "go"]
    /\ server' = "accept"
    /\ UNCHANGED <<status, count, fd, connfd, backlog, exiter, deleted>>

(* ref(), then go(): the connection's coroutine unrefs when it ends.       *)
Handle ==
    /\ server = "handle"
    /\ count' = count + 1
    /\ conn' = [conn EXCEPT ![connfd] = "go"]
    /\ server' = "accept"
    /\ UNCHANGED <<status, fd, connfd, backlog, exiter, deleted>>

BeginConn(c) ==
    /\ conn[c] = "go"
    /\ conn' = [conn EXCEPT ![c] = "callback"]
    /\ UNCHANGED <<status, count, fd, connfd, server, backlog, exiter, deleted>>

HandshakeFails(c) ==
    /\ conn[c] = "go"
    /\ conn' = [conn EXCEPT ![c] = "ended"]
    /\ UNCHANGED <<status, count, fd, connfd, server, backlog, exiter, deleted>>

CallbackReturns(c) ==
    /\ conn[c] = "callback"
    /\ conn' = [conn EXCEPT ![c] = "ended"]
    /\ UNCHANGED <<status, count, fd, connfd, server, backlog, exiter, deleted>>

End(c) ==
    /\ conn[c] = "ended"
    /\ conn' = [conn EXCEPT ![c] = "over"]
    /\ Unref
    /\ UNCHANGED <<status, fd, connfd, server, backlog, exiter>>

-----------------------------------------------------------------------------
(* start() and ServerImpl::loop                                            *)

(* The loop's reference is taken before its coroutine is started.          *)
Start ==
    /\ server = "out"
    /\ count' = count + 1
    /\ server' = "start"
    /\ UNCHANGED <<status, fd, connfd, backlog, conn, exiter, deleted>>

Listen ==
    /\ server = "start"
    /\ fd' = "listening"
    /\ server' = "accept"
    /\ UNCHANGED <<status, count, connfd, backlog, conn, exiter, deleted>>

Accept ==
    /\ server = "accept" /\ backlog # <<>>
    /\ connfd' = Head(backlog) /\ backlog' = Tail(backlog)
    /\ server' = "accepted"
    /\ UNCHANGED <<status, count, fd, conn, exiter, deleted>>

AcceptFails ==
    /\ server = "accept"
    /\ connfd' = NoConn
    /\ server' = "accepted"
    /\ UNCHANGED <<status, count, fd, backlog, conn, exiter, deleted>>

(* Whoever connected after exit() has been called is reset.                *)
CheckStatus ==
    /\ server = "accepted"
    /\ server' = IF status = 1 THEN "close" ELSE IF connfd = NoConn THEN "accept" ELSE "handle"
    /\ conn' = IF status = 1 /\ connfd # NoConn THEN [conn EXCEPT ![connfd] = "over"] ELSE conn
    /\ UNCHANGED <<status, count, fd, connfd, backlog, exiter, deleted>>

(* The kernel resets those that wait to be accepted.                       *)
CloseSocket ==
    /\ server = "close"
    /\ fd' = "none"
    /\ backlog' = <<>>
    /\ conn' = [c \in Connection |-> IF conn[c] = "queued" THEN "over" ELSE conn[c]]
    /\ server' = "stopped"
    /\ UNCHANGED <<status, count, connfd, exiter, deleted>>

Stopped ==
    /\ server = "stopped"
    /\ status' = 2
    /\ server' = "unref"
    /\ UNCHANGED <<count, fd, connfd, backlog, conn, exiter, deleted>>

LoopEnds ==
    /\ server = "unref"
    /\ server' = "end"
    /\ Unref
    /\ UNCHANGED <<status, fd, connfd, backlog, conn, exiter>>

LoopGoesOn ==
    Listen \/ Accept \/ CheckStatus \/ Handle \/ CloseSocket \/ Stopped \/ LoopEnds

-----------------------------------------------------------------------------
(* exit() and stop(), and those that connect                               *)

Connect(c) ==
    /\ conn[c] = "out"
    /\ fd = "listening"
    /\ conn' = [conn EXCEPT ![c] = "queued"]
    /\ backlog' = Append(backlog, c)
    /\ UNCHANGED <<status, count, fd, connfd, server, exiter, deleted>>

ReadStatus == IF deleted THEN 0..2 ELSE {status}

(* Slip: the status is set after the connection has been made.             *)
ExitConnectsFirst(e) ==
    /\ exiter[e] = "out" /\ server # "out"
    /\ \E s \in ReadStatus :
          /\ exiter' = [exiter EXCEPT ![e] = <<"slept", "poll", "back">>[s + 1]]
          /\ conn' = IF s = 0 /\ conn[Own] = "out" THEN [conn EXCEPT ![Own] = "task"] ELSE conn
    /\ UNCHANGED <<status, count, fd, connfd, server, backlog, deleted>>

(* The compare-and-swap; the first to call sleeps for a millisecond.       *)
Exit(e) ==
    /\ exiter[e] = "out" /\ server # "out"
    /\ \E s \in ReadStatus :
          /\ exiter' = [exiter EXCEPT ![e] = <<"slept", "poll", "back">>[s + 1]]
          /\ status' = IF s = 0 /\ ~ deleted THEN 1 ELSE status
    /\ UNCHANGED <<count, fd, connfd, server, backlog, conn, deleted>>

(* It then starts the coroutine of stop(), whether the loop has ended in   *)
(* the meantime or not.                                                    *)
StartStop(e) ==
    /\ exiter[e] = "slept"
    /\ exiter' = [exiter EXCEPT ![e] = "poll"]
    /\ conn' = [conn EXCEPT ![Own] = IF @ = "out" THEN "task" ELSE @]
    /\ UNCHANGED <<status, count, fd, connfd, server, backlog, deleted>>

(* stop() connects to _ip: refused if nobody listens, or if _ip is read    *)
(* from a deleted server.                                                  *)
Stop ==
    /\ conn[Own] = "task"
    /\ IF fd = "listening"
       THEN /\ conn' = [conn EXCEPT ![Own] = "queued"]
            /\ backlog' = Append(backlog, Own)
       ELSE conn' = [conn EXCEPT ![Own] = "over"] /\ UNCHANGED backlog
    /\ UNCHANGED <<status, count, fd, connfd, server, exiter, deleted>>

PollStatus(e) ==
    /\ exiter[e] = "poll"
    /\ 2 \in ReadStatus
    /\ exiter' = [exiter EXCEPT ![e] = "back"]
    /\ UNCHANGED <<status, count, fd, connfd, server, backlog, conn, deleted>>

-----------------------------------------------------------------------------
ServerStep ==
    \/ Start \/ LoopGoesOn \/ AcceptFails \/ Stop
    \/ \E c \in Conn : BeginConn(c) \/ HandshakeFails(c) \/ End(c)
    \/ \E e \in Exiter : Exit(e) \/ StartStop(e) \/ PollStatus(e)

ServerNext == ServerStep \/ \E c \in Conn : Connect(c) \/ CallbackReturns(c)

ServerSpec == ServerInit /\ [][ServerNext]_serverVars

(* The schedulers run the coroutines they are given and the threads run;   *)
(* accept() does not fail for ever.  Nobody has to connect or to call      *)
(* exit(), and no callback has to return.                                  *)
ServerFairness ==
    /\ WF_serverVars(LoopGoesOn) /\ SF_serverVars(Accept) /\ WF_serverVars(Stop)
    /\ \A c \in Conn : WF_serverVars(BeginConn(c) \/ HandshakeFails(c)) /\ WF_serverVars(End(c))
    /\ \A e \in Exiter : WF_serverVars(StartStop(e))

-----------------------------------------------------------------------------
(* The server is deleted when its loop has closed the socket and the       *)
(* coroutines of all connections have ended, not before, and not after.    *)
ServerOutlives ==
    deleted <=> server = "end" /\ fd = "none" /\ \A c \in Conn : conn[c] \notin Served

(* "Once `exit()` was called, the listening socket will be closed, and new *)
(* connections will not be accepted": the latter once exit() has returned, *)
(* and the former unless stop() has tried to connect before anybody        *)
(* listened.                                                               *)
NoneAccepted ==
    [][(\E e \in Exiter : exiter[e] = "back") =>
          \A c \in Conn : conn'[c] = "go" => conn[c] = "go"]_serverVars

Closing ==
    /\ \E e \in Exiter : exiter[e] \in {"slept", "poll"}
    /\ fd = "listening" /\ conn[Own] # "over"

=============================================================================
