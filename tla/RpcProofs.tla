----------------------------- MODULE RpcProofs -----------------------------
(***************************************************************************)
(* Proofs about TcpServer and Rpc, for any finite set of connections, any  *)
(* callers of exit() and any number of calls, and about Http, for any      *)
(* requests and however their bytes are cut.                               *)
(***************************************************************************)
EXTENDS Rpc, Http, FiniteSetTheorems, SequenceTheorems, WellFoundedInduction, TLAPS

(* The references: the loop's, and one for each connection served.         *)
Refs == {c \in Conn : conn[c] \in Served}
LoopRef == IF server \in {"out", "end"} THEN 0 ELSE 1

Counted == count = LoopRef + Cardinality(Refs)
DeletedByLast == deleted <=> server = "end" /\ Refs = {}
ListensInLoop ==
    /\ server \in {"out", "start", "stopped", "unref", "end"} => fd = "none"
    /\ server = "out" => Refs = {}

(* stop() connects when the status has been set, or when the server is     *)
(* gone: the loop that accepts this connection finds the status set.       *)
(* exit() returns when the loop has closed the socket.                     *)
Closed == server \in {"unref", "end"}
StopIsOrdered ==
    /\ status = 2 => Closed
    /\ \A e \in Exiter : exiter[e] = "back" => Closed
    /\ conn[Own] # "out" => status # 0 \/ server = "end"
    /\ \A e \in Exiter : exiter[e] = "slept" => status # 0 \/ server = "end"
    /\ server = "handle" => connfd # Own

(* The kernel holds a connection once.                                     *)
HeldOnce ==
    /\ \A i \in 1..Len(backlog) : conn[backlog[i]] = "queued"
    /\ \A i, j \in 1..Len(backlog) : backlog[i] = backlog[j] => i = j
Accepted ==
    /\ server \in {"accepted", "handle"} /\ connfd # NoConn =>
         /\ conn[connfd] = "queued"
         /\ \A i \in 1..Len(backlog) : backlog[i] # connfd
    /\ server = "handle" => connfd # NoConn

ServerInv ==
    /\ ServerTypeOK
    /\ Counted /\ DeletedByLast /\ ListensInLoop
    /\ StopIsOrdered /\ HeldOnce /\ Accepted

-----------------------------------------------------------------------------
LEMMA Finite ==
    ASSUME NEW S \in SUBSET Conn
    PROVE  /\ IsFiniteSet(S)
           /\ Cardinality(S) \in 0..Cardinality(Conn)
  <1>1. IsFiniteSet(S) /\ Cardinality(S) <= Cardinality(Conn)
    BY ServerAssumption, FS_Subset
  <1>2. Cardinality(S) \in Nat /\ Cardinality(Conn) \in Nat
    BY <1>1, ServerAssumption, FS_CardinalityType
  <1>. QED  BY <1>1, <1>2

(* The count follows the references.                                       *)
LEMMA CountedStep ==
    ASSUME Counted,
           \/ UNCHANGED <<count, Refs, LoopRef>>
           \/ \E c \in Conn : /\ c \notin Refs /\ Refs' = Refs \cup {c}
                              /\ count' = count + 1 /\ UNCHANGED LoopRef
           \/ \E c \in Refs : /\ Refs' = Refs \ {c}
                              /\ count' = count - 1 /\ UNCHANGED LoopRef
           \/ /\ UNCHANGED Refs
              /\ \/ LoopRef = 0 /\ LoopRef' = 1 /\ count' = count + 1
                 \/ LoopRef = 1 /\ LoopRef' = 0 /\ count' = count - 1
    PROVE  Counted' /\ count' \in 0..(Cardinality(Conn) + 1)
  <1>1. Refs \in SUBSET Conn /\ LoopRef \in 0..1 /\ Refs' \in SUBSET Conn /\ LoopRef' \in 0..1
    BY DEF Refs, LoopRef
  <1>2. IsFiniteSet(Refs) /\ Cardinality(Refs) \in Nat
    BY <1>1, Finite
  <1>3. Cardinality(Refs') \in 0..Cardinality(Conn) /\ Cardinality(Conn) \in Nat
    BY <1>1, Finite, ServerAssumption, FS_CardinalityType
  <1>4. Counted'
    <2>1. CASE UNCHANGED <<count, Refs, LoopRef>>
      BY <2>1 DEF Counted
    <2>2. ASSUME NEW c \in Conn, c \notin Refs, Refs' = Refs \cup {c},
                 count' = count + 1, UNCHANGED LoopRef
          PROVE  Counted'
      <3>1. Cardinality(Refs') = Cardinality(Refs) + 1
        BY <2>2, <1>2, FS_AddElement
      <3>. QED  BY <2>2, <3>1, <1>1, <1>2 DEF Counted
    <2>3. ASSUME NEW c \in Refs, Refs' = Refs \ {c},
                 count' = count - 1, UNCHANGED LoopRef
          PROVE  Counted'
      <3>1. Cardinality(Refs') = Cardinality(Refs) - 1
        BY <2>3, <1>2, FS_RemoveElement
      <3>. QED  BY <2>3, <3>1, <1>1, <1>2 DEF Counted
    <2>4. CASE UNCHANGED Refs /\ LoopRef = 0 /\ LoopRef' = 1 /\ count' = count + 1
      BY <2>4, <1>2 DEF Counted
    <2>5. CASE UNCHANGED Refs /\ LoopRef = 1 /\ LoopRef' = 0 /\ count' = count - 1
      BY <2>5, <1>2 DEF Counted
    <2>. QED  BY <2>1, <2>2, <2>3, <2>4, <2>5
  <1>. QED  BY <1>1, <1>3, <1>4 DEF Counted

LEMMA ServerInitInv == ServerInit => ServerInv
  <1> SUFFICES ASSUME ServerInit PROVE ServerInv
    OBVIOUS
  <1> USE DEF ServerInit
  <1>1. Refs = {} /\ LoopRef = 0
    BY DEF Refs, LoopRef, Served, Connection
  <1>2. Cardinality(Conn) \in Nat
    BY ServerAssumption, FS_CardinalityType
  <1>3. ServerTypeOK
    <2>1. backlog \in Seq(Connection)
      BY EmptySeq
    <2>2. count \in 0..(Cardinality(Conn) + 1)
      BY <1>2
    <2>3. conn \in [Connection -> Served \cup {"out", "task", "queued", "over"}]
      OBVIOUS
    <2>4. exiter \in [Exiter -> {"out", "slept", "poll", "back"}]
      OBVIOUS
    <2>5. deleted \in BOOLEAN /\ connfd \in Connection \cup {NoConn}
      OBVIOUS
    <2>6. status \in 0..2
      OBVIOUS
    <2>. QED  BY <2>1, <2>2, <2>3, <2>4, <2>5, <2>6 DEF ServerTypeOK
  <1>4. Counted /\ DeletedByLast /\ ListensInLoop
    BY <1>1, FS_EmptySet DEF Counted, DeletedByLast, ListensInLoop
  <1>5. StopIsOrdered /\ HeldOnce /\ Accepted
    BY DEF StopIsOrdered, Closed, HeldOnce, Accepted, Connection
  <1>. QED  BY <1>3, <1>4, <1>5 DEF ServerInv

-----------------------------------------------------------------------------
LEMMA NoRefs ==
    ASSUME Counted PROVE count = LoopRef <=> Refs = {}
  <1>1. IsFiniteSet(Refs) /\ Cardinality(Refs) \in Nat
    BY Finite DEF Refs
  <1>2. Cardinality(Refs) = 0 <=> Refs = {}
    BY <1>1, FS_EmptySet
  <1>. QED  BY <1>1, <1>2 DEF Counted, LoopRef

LEMMA OneRef ==
    ASSUME Counted, NEW c \in Refs PROVE count = 1 <=> LoopRef = 0 /\ Refs \ {c} = {}
  <1>1. IsFiniteSet(Refs) /\ Cardinality(Refs) \in Nat
    BY Finite DEF Refs
  <1>2. /\ IsFiniteSet(Refs \ {c}) /\ Cardinality(Refs \ {c}) \in Nat
        /\ Cardinality(Refs \ {c}) = Cardinality(Refs) - 1
    BY <1>1, FS_RemoveElement, FS_CardinalityType
  <1>3. Cardinality(Refs \ {c}) = 0 <=> Refs \ {c} = {}
    BY <1>2, FS_EmptySet
  <1>. QED  BY <1>1, <1>2, <1>3 DEF Counted, LoopRef

(* A connection that is not with the kernel yet is not in the backlog.     *)
LEMMA Waits ==
    ASSUME ServerInv, NEW c \in Connection, conn[c] # "queued",
           conn' = [conn EXCEPT ![c] = "queued"], backlog' = Append(backlog, c)
    PROVE  HeldOnce'
  <1>1. /\ Len(backlog') = Len(backlog) + 1 /\ backlog'[Len(backlog) + 1] = c
        /\ \A i \in 1..Len(backlog) : backlog'[i] = backlog[i] /\ backlog[i] \in Connection
        /\ Len(backlog) \in Nat
    BY AppendProperties DEF ServerInv, ServerTypeOK
  <1>2. \A i \in 1..Len(backlog) : backlog[i] # c
    BY DEF ServerInv, HeldOnce
  <1>3. conn'[c] = "queued" /\ \A d \in Connection : d # c => conn'[d] = conn[d]
    BY DEF ServerInv, ServerTypeOK
  <1>4. \A i \in 1..Len(backlog') : i = Len(backlog) + 1 \/ i \in 1..Len(backlog)
    BY <1>1
  <1>5. \A i \in 1..Len(backlog') : conn'[backlog'[i]] = "queued"
    BY <1>1, <1>2, <1>3, <1>4 DEF ServerInv, HeldOnce
  <1>6. \A i, j \in 1..Len(backlog') : backlog'[i] = backlog'[j] => i = j
    BY <1>1, <1>2, <1>4 DEF ServerInv, HeldOnce
  <1>. QED  BY <1>5, <1>6 DEF HeldOnce

LEMMA ServerStepInv == ServerInv /\ [ServerNext]_serverVars => ServerInv'
  <1> SUFFICES ASSUME ServerInv, [ServerNext]_serverVars PROVE ServerInv'
    OBVIOUS
  <1>0. /\ conn \in [Connection -> Served \cup {"out", "task", "queued", "over"}]
        /\ Own \in Connection /\ Conn \subseteq Connection
    BY DEF ServerInv, ServerTypeOK, Connection
  <1>1. CASE Start
    <2> USE <1>0, <1>1, ServerAssumption DEF Start, ServerInv
    <2>1. Counted' /\ count' \in 0..(Cardinality(Conn) + 1)
      <3>1. UNCHANGED Refs /\ LoopRef = 0 /\ LoopRef' = 1
        BY DEF Refs, LoopRef
      <3>. QED  BY <3>1, CountedStep
    <2>2. ServerTypeOK'
      BY <2>1 DEF ServerTypeOK
    <2>3. DeletedByLast' /\ ListensInLoop'
      BY DEF DeletedByLast, ListensInLoop, Refs, Served
    <2>4. StopIsOrdered'
      BY DEF StopIsOrdered, Closed, Served, ServerTypeOK
    <2>5. HeldOnce' /\ Accepted'
      BY DEF HeldOnce, Accepted, Served, ServerTypeOK
    <2>. QED  BY <2>1, <2>2, <2>3, <2>4, <2>5
  <1>2. CASE Listen
    <2> USE <1>0, <1>2, ServerAssumption DEF Listen, ServerInv
    <2>1. Counted' /\ count' \in 0..(Cardinality(Conn) + 1)
      <3>1. UNCHANGED <<count, Refs, LoopRef>>
        BY DEF Refs, LoopRef, Served
      <3>. QED  BY <3>1, CountedStep
    <2>2. ServerTypeOK'
      BY <2>1 DEF ServerTypeOK
    <2>3. DeletedByLast' /\ ListensInLoop'
      BY DEF DeletedByLast, ListensInLoop, Refs, Served
    <2>4. StopIsOrdered'
      BY DEF StopIsOrdered, Closed, Served, ServerTypeOK
    <2>5. HeldOnce' /\ Accepted'
      BY DEF HeldOnce, Accepted, Served, ServerTypeOK
    <2>. QED  BY <2>1, <2>2, <2>3, <2>4, <2>5
  <1>3. CASE Accept
    <2> USE <1>0, <1>3, ServerAssumption DEF Accept, ServerInv
    <2>1. Counted' /\ count' \in 0..(Cardinality(Conn) + 1)
      <3>1. UNCHANGED <<count, Refs, LoopRef>>
        BY DEF Refs, LoopRef, Served
      <3>. QED  BY <3>1, CountedStep
    <2>2. ServerTypeOK'
      BY <2>1 DEF ServerTypeOK
    <2>3. DeletedByLast' /\ ListensInLoop'
      BY DEF DeletedByLast, ListensInLoop, Refs, Served
    <2>4. StopIsOrdered'
      BY DEF StopIsOrdered, Closed, Served, ServerTypeOK
    <2>5. HeldOnce' /\ Accepted'
      BY DEF HeldOnce, Accepted, Served, ServerTypeOK
    <2>. QED  BY <2>1, <2>2, <2>3, <2>4, <2>5
  <1>4. CASE AcceptFails
    <2> USE <1>0, <1>4, ServerAssumption DEF AcceptFails, ServerInv
    <2>1. Counted' /\ count' \in 0..(Cardinality(Conn) + 1)
      <3>1. UNCHANGED <<count, Refs, LoopRef>>
        BY DEF Refs, LoopRef, Served
      <3>. QED  BY <3>1, CountedStep
    <2>2. ServerTypeOK'
      BY <2>1 DEF ServerTypeOK
    <2>3. DeletedByLast' /\ ListensInLoop'
      BY DEF DeletedByLast, ListensInLoop, Refs, Served
    <2>4. StopIsOrdered'
      BY DEF StopIsOrdered, Closed, Served, ServerTypeOK
    <2>5. HeldOnce' /\ Accepted'
      BY DEF HeldOnce, Accepted, Served, ServerTypeOK
    <2>. QED  BY <2>1, <2>2, <2>3, <2>4, <2>5
  <1>5. CASE CheckStatus
    <2> USE <1>0, <1>5, ServerAssumption DEF CheckStatus, ServerInv
    <2>1. Counted' /\ count' \in 0..(Cardinality(Conn) + 1)
      <3>1. UNCHANGED <<count, Refs, LoopRef>>
        BY DEF Refs, LoopRef, Served, Accepted
      <3>. QED  BY <3>1, CountedStep
    <2>2. ServerTypeOK'
      BY <2>1 DEF ServerTypeOK
    <2>3. DeletedByLast' /\ ListensInLoop'
      BY DEF DeletedByLast, ListensInLoop, Refs, Served
    <2>4. StopIsOrdered'
      BY DEF StopIsOrdered, Closed, Accepted, ServerTypeOK
    <2>5. HeldOnce' /\ Accepted'
      BY DEF HeldOnce, Accepted, Served, ServerTypeOK
    <2>. QED  BY <2>1, <2>2, <2>3, <2>4, <2>5
  <1>6. CASE Handle
    <2> USE <1>0, <1>6, ServerAssumption DEF Handle, ServerInv
    <2>1. Counted' /\ count' \in 0..(Cardinality(Conn) + 1)
      <3>1. connfd \in Conn \ Refs
        BY DEF Accepted, StopIsOrdered, ServerTypeOK, Connection, Refs, Served
      <3>2. Refs' = Refs \cup {connfd} /\ UNCHANGED LoopRef
        BY <3>1 DEF Refs, LoopRef, Served
      <3>. QED  BY <3>1, <3>2, CountedStep
    <2>2. ServerTypeOK'
      <3>1. conn' \in [Connection -> Served \cup {"out", "task", "queued", "over"}]
        BY DEF Served
      <3>. QED  BY <2>1, <3>1 DEF ServerTypeOK
    <2>3. DeletedByLast' /\ ListensInLoop'
      BY DEF DeletedByLast, ListensInLoop, Refs, Served
    <2>4. StopIsOrdered'
      BY DEF StopIsOrdered, Closed, Served, ServerTypeOK
    <2>5. HeldOnce' /\ Accepted'
      BY DEF HeldOnce, Accepted, Served, ServerTypeOK
    <2>. QED  BY <2>1, <2>2, <2>3, <2>4, <2>5
  <1>7. CASE CloseSocket
    <2> USE <1>0, <1>7, ServerAssumption DEF CloseSocket, ServerInv
    <2>1. Counted' /\ count' \in 0..(Cardinality(Conn) + 1)
      <3>1. UNCHANGED <<count, Refs, LoopRef>>
        BY DEF Refs, LoopRef, Served
      <3>. QED  BY <3>1, CountedStep
    <2>2. ServerTypeOK'
      BY <2>1 DEF ServerTypeOK
    <2>3. DeletedByLast' /\ ListensInLoop'
      BY DEF DeletedByLast, ListensInLoop, Refs, Served
    <2>4. StopIsOrdered'
      BY DEF StopIsOrdered, Closed, Served, ServerTypeOK
    <2>5. HeldOnce' /\ Accepted'
      BY DEF HeldOnce, Accepted, Served, ServerTypeOK
    <2>. QED  BY <2>1, <2>2, <2>3, <2>4, <2>5
  <1>8. CASE Stopped
    <2> USE <1>0, <1>8, ServerAssumption DEF Stopped, ServerInv
    <2>1. Counted' /\ count' \in 0..(Cardinality(Conn) + 1)
      <3>1. UNCHANGED <<count, Refs, LoopRef>>
        BY DEF Refs, LoopRef, Served
      <3>. QED  BY <3>1, CountedStep
    <2>2. ServerTypeOK'
      BY <2>1 DEF ServerTypeOK
    <2>3. DeletedByLast' /\ ListensInLoop'
      BY DEF DeletedByLast, ListensInLoop, Refs, Served
    <2>4. StopIsOrdered'
      BY DEF StopIsOrdered, Closed, Served, ServerTypeOK
    <2>5. HeldOnce' /\ Accepted'
      BY DEF HeldOnce, Accepted, Served, ServerTypeOK
    <2>. QED  BY <2>1, <2>2, <2>3, <2>4, <2>5
  <1>9. CASE LoopEnds
    <2> USE <1>0, <1>9, ServerAssumption DEF LoopEnds, Unref, ServerInv
    <2>1. Counted' /\ count' \in 0..(Cardinality(Conn) + 1)
      <3>1. UNCHANGED Refs /\ LoopRef = 1 /\ LoopRef' = 0
        BY DEF Refs, LoopRef
      <3>. QED  BY <3>1, CountedStep
    <2>2. ServerTypeOK'
      BY <2>1 DEF ServerTypeOK
    <2>3. DeletedByLast' /\ ListensInLoop'
      <3>1. count = 1 <=> Refs = {}
        BY NoRefs DEF LoopRef
      <3>. QED  BY <3>1 DEF DeletedByLast, ListensInLoop, Refs
    <2>4. StopIsOrdered'
      BY DEF StopIsOrdered, Closed, Served, ServerTypeOK
    <2>5. HeldOnce' /\ Accepted'
      BY DEF HeldOnce, Accepted, Served, ServerTypeOK
    <2>. QED  BY <2>1, <2>2, <2>3, <2>4, <2>5
  <1>10. CASE Stop
    <2> USE <1>0, <1>10, ServerAssumption DEF Stop, ServerInv
    <2>1. Counted' /\ count' \in 0..(Cardinality(Conn) + 1)
      <3>1. UNCHANGED <<count, Refs, LoopRef>>
        BY DEF Refs, LoopRef, Served
      <3>. QED  BY <3>1, CountedStep
    <2>2. ServerTypeOK'
      BY <2>1 DEF ServerTypeOK
    <2>3. DeletedByLast' /\ ListensInLoop'
      BY DEF DeletedByLast, ListensInLoop, Refs, Served
    <2>4. StopIsOrdered'
      BY DEF StopIsOrdered, Closed, Served, ServerTypeOK
    <2>5. HeldOnce' /\ Accepted'
      <3>1. CASE fd = "listening"
        <4>1. /\ conn' = [conn EXCEPT ![Own] = "queued"] /\ backlog' = Append(backlog, Own)
              /\ conn[Own] = "task" /\ Own \in Connection
              /\ UNCHANGED <<server, connfd>>
          BY <3>1
        <4>2. HeldOnce'
          BY <4>1, Waits
        <4>3. Accepted'
          <5>1. /\ Len(backlog') = Len(backlog) + 1 /\ backlog'[Len(backlog) + 1] = Own
                /\ \A i \in 1..Len(backlog) : backlog'[i] = backlog[i]
                /\ Len(backlog) \in Nat
            BY <4>1, AppendProperties DEF ServerTypeOK
          <5>2. \A i \in 1..Len(backlog') :
                   i \in 1..Len(backlog) \/ backlog'[i] = Own
            BY <5>1
          <5>3. \A d : d # Own => conn'[d] = conn[d]
            BY <4>1 DEF ServerTypeOK
          <5>4. conn[connfd] = "queued" => connfd # Own
            BY <4>1
          <5>. QED  BY <4>1, <5>1, <5>2, <5>3, <5>4 DEF Accepted
        <4>. QED  BY <4>2, <4>3
      <3>2. CASE fd # "listening"
        BY <3>2 DEF HeldOnce, Accepted, ServerTypeOK
      <3>. QED  BY <3>1, <3>2
    <2>. QED  BY <2>1, <2>2, <2>3, <2>4, <2>5
  <1>11. ASSUME NEW c \in Conn, BeginConn(c) PROVE ServerInv'
    <2> USE <1>0, <1>11, ServerAssumption DEF BeginConn, ServerInv
    <2>1. Counted' /\ count' \in 0..(Cardinality(Conn) + 1)
      <3>1. UNCHANGED <<count, Refs, LoopRef>>
        BY DEF Refs, LoopRef, Served
      <3>. QED  BY <3>1, CountedStep
    <2>2. ServerTypeOK'
      <3>1. conn' \in [Connection -> Served \cup {"out", "task", "queued", "over"}]
        BY DEF Served
      <3>. QED  BY <2>1, <3>1 DEF ServerTypeOK
    <2>3. DeletedByLast' /\ ListensInLoop'
      BY DEF DeletedByLast, ListensInLoop, Refs, Served
    <2>4. StopIsOrdered'
      BY DEF StopIsOrdered, Closed, Served, ServerTypeOK
    <2>5. HeldOnce' /\ Accepted'
      BY DEF HeldOnce, Accepted, Served, ServerTypeOK
    <2>. QED  BY <2>1, <2>2, <2>3, <2>4, <2>5
  <1>12. ASSUME NEW c \in Conn, HandshakeFails(c) PROVE ServerInv'
    <2> USE <1>0, <1>12, ServerAssumption DEF HandshakeFails, ServerInv
    <2>1. Counted' /\ count' \in 0..(Cardinality(Conn) + 1)
      <3>1. UNCHANGED <<count, Refs, LoopRef>>
        BY DEF Refs, LoopRef, Served
      <3>. QED  BY <3>1, CountedStep
    <2>2. ServerTypeOK'
      <3>1. conn' \in [Connection -> Served \cup {"out", "task", "queued", "over"}]
        BY DEF Served
      <3>. QED  BY <2>1, <3>1 DEF ServerTypeOK
    <2>3. DeletedByLast' /\ ListensInLoop'
      BY DEF DeletedByLast, ListensInLoop, Refs, Served
    <2>4. StopIsOrdered'
      BY DEF StopIsOrdered, Closed, Served, ServerTypeOK
    <2>5. HeldOnce' /\ Accepted'
      BY DEF HeldOnce, Accepted, Served, ServerTypeOK
    <2>. QED  BY <2>1, <2>2, <2>3, <2>4, <2>5
  <1>13. ASSUME NEW c \in Conn, CallbackReturns(c) PROVE ServerInv'
    <2> USE <1>0, <1>13, ServerAssumption DEF CallbackReturns, ServerInv
    <2>1. Counted' /\ count' \in 0..(Cardinality(Conn) + 1)
      <3>1. UNCHANGED <<count, Refs, LoopRef>>
        BY DEF Refs, LoopRef, Served
      <3>. QED  BY <3>1, CountedStep
    <2>2. ServerTypeOK'
      <3>1. conn' \in [Connection -> Served \cup {"out", "task", "queued", "over"}]
        BY DEF Served
      <3>. QED  BY <2>1, <3>1 DEF ServerTypeOK
    <2>3. DeletedByLast' /\ ListensInLoop'
      BY DEF DeletedByLast, ListensInLoop, Refs, Served
    <2>4. StopIsOrdered'
      BY DEF StopIsOrdered, Closed, Served, ServerTypeOK
    <2>5. HeldOnce' /\ Accepted'
      BY DEF HeldOnce, Accepted, Served, ServerTypeOK
    <2>. QED  BY <2>1, <2>2, <2>3, <2>4, <2>5
  <1>14. ASSUME NEW c \in Conn, End(c) PROVE ServerInv'
    <2> USE <1>0, <1>14, ServerAssumption DEF End, Unref, ServerInv
    <2>1. Counted' /\ count' \in 0..(Cardinality(Conn) + 1)
      <3>1. c \in Refs /\ Refs' = Refs \ {c} /\ UNCHANGED LoopRef
        BY DEF Refs, LoopRef, Served
      <3>. QED  BY <3>1, CountedStep
    <2>2. ServerTypeOK'
      BY <2>1 DEF ServerTypeOK
    <2>3. DeletedByLast' /\ ListensInLoop'
      <3>1. Refs' = Refs \ {c} /\ c \in Refs
        BY DEF Refs, Served
      <3>2. count = 1 <=> LoopRef = 0 /\ Refs' = {}
        BY <3>1, OneRef
      <3>3. server # "out"
        BY <3>1 DEF ListensInLoop
      <3>4. LoopRef = 0 <=> server = "end"
        BY <3>3 DEF LoopRef
      <3>5. deleted' <=> server = "end" /\ Refs' = {}
        BY <3>1, <3>2, <3>4, Zenon
      <3>6. ListensInLoop'
        BY <3>3 DEF ListensInLoop
      <3>. QED  BY <3>5, <3>6 DEF DeletedByLast
    <2>4. StopIsOrdered'
      BY DEF StopIsOrdered, Closed, Served, ServerTypeOK
    <2>5. HeldOnce' /\ Accepted'
      BY DEF HeldOnce, Accepted, Served, ServerTypeOK
    <2>. QED  BY <2>1, <2>2, <2>3, <2>4, <2>5
  <1>15. ASSUME NEW c \in Conn, Connect(c) PROVE ServerInv'
    <2> USE <1>0, <1>15, ServerAssumption DEF Connect, ServerInv
    <2>1. Counted' /\ count' \in 0..(Cardinality(Conn) + 1)
      <3>1. UNCHANGED <<count, Refs, LoopRef>>
        BY DEF Refs, LoopRef, Served
      <3>. QED  BY <3>1, CountedStep
    <2>2. ServerTypeOK'
      BY <2>1 DEF ServerTypeOK
    <2>3. DeletedByLast' /\ ListensInLoop'
      BY DEF DeletedByLast, ListensInLoop, Refs, Served
    <2>4. StopIsOrdered'
      BY DEF StopIsOrdered, Closed, Served, ServerTypeOK
    <2>5. HeldOnce' /\ Accepted'
      BY DEF HeldOnce, Accepted, Served, ServerTypeOK
    <2>. QED  BY <2>1, <2>2, <2>3, <2>4, <2>5
  <1>16. ASSUME NEW e \in Exiter, Exit(e) PROVE ServerInv'
    <2> USE <1>0, <1>16, ServerAssumption DEF Exit, ReadStatus, ServerInv
    <2>1. Counted' /\ count' \in 0..(Cardinality(Conn) + 1)
      <3>1. UNCHANGED <<count, Refs, LoopRef>>
        BY DEF Refs, LoopRef, Served
      <3>. QED  BY <3>1, CountedStep
    <2>2. ServerTypeOK'
      BY <2>1 DEF ServerTypeOK
    <2>3. DeletedByLast' /\ ListensInLoop'
      BY DEF DeletedByLast, ListensInLoop, Refs, Served
    <2>4. StopIsOrdered'
      <3>1. PICK s \in 0..2 :
               /\ s = status \/ server = "end"
               /\ exiter' = [exiter EXCEPT ![e] = <<"slept", "poll", "back">>[s + 1]]
               /\ status' = IF s = 0 /\ ~ deleted THEN 1 ELSE status
        BY DEF DeletedByLast, ServerTypeOK
      <3>2. status = 2 => status' = 2 \/ server = "end"
        BY <3>1
      <3>3. status # 0 \/ (s = 0 /\ ~ deleted) => status' # 0
        BY <3>1
      <3>4. status' = 2 => status = 2
        BY <3>1
      <3>5. \A x \in Exiter : exiter'[x] = "slept" => exiter[x] = "slept" \/ s = 0
        BY <3>1 DEF ServerTypeOK
      <3>7. \A x \in Exiter : exiter'[x] = "back" => exiter[x] = "back" \/ s = 2
        BY <3>1 DEF ServerTypeOK
      <3>8. s = 2 => Closed
        BY <3>1 DEF StopIsOrdered, Closed
      <3>9. Closed' <=> Closed
        BY DEF Closed
      <3>6. deleted => server = "end"
        BY DEF DeletedByLast
      <3>. QED  BY <3>2, <3>3, <3>4, <3>5, <3>6, <3>7, <3>8, <3>9 DEF StopIsOrdered
    <2>5. HeldOnce' /\ Accepted'
      BY DEF HeldOnce, Accepted, Served, ServerTypeOK
    <2>. QED  BY <2>1, <2>2, <2>3, <2>4, <2>5
  <1>17. ASSUME NEW e \in Exiter, StartStop(e) PROVE ServerInv'
    <2> USE <1>0, <1>17, ServerAssumption DEF StartStop, ServerInv
    <2>1. Counted' /\ count' \in 0..(Cardinality(Conn) + 1)
      <3>1. UNCHANGED <<count, Refs, LoopRef>>
        BY DEF Refs, LoopRef, Served
      <3>. QED  BY <3>1, CountedStep
    <2>2. ServerTypeOK'
      BY <2>1 DEF ServerTypeOK
    <2>3. DeletedByLast' /\ ListensInLoop'
      BY DEF DeletedByLast, ListensInLoop, Refs, Served
    <2>4. StopIsOrdered'
      <3>1. status # 0 \/ server = "end"
        BY DEF StopIsOrdered
      <3>. QED  BY <3>1 DEF StopIsOrdered, Closed
    <2>5. HeldOnce' /\ Accepted'
      BY DEF HeldOnce, Accepted, Served, ServerTypeOK
    <2>. QED  BY <2>1, <2>2, <2>3, <2>4, <2>5
  <1>18. ASSUME NEW e \in Exiter, PollStatus(e) PROVE ServerInv'
    <2> USE <1>0, <1>18, ServerAssumption DEF PollStatus, ReadStatus, ServerInv
    <2>1. Counted' /\ count' \in 0..(Cardinality(Conn) + 1)
      <3>1. UNCHANGED <<count, Refs, LoopRef>>
        BY DEF Refs, LoopRef, Served
      <3>. QED  BY <3>1, CountedStep
    <2>2. ServerTypeOK'
      BY <2>1 DEF ServerTypeOK
    <2>3. DeletedByLast' /\ ListensInLoop'
      BY DEF DeletedByLast, ListensInLoop, Refs, Served
    <2>4. StopIsOrdered'
      <3>1. Closed
        BY DEF ReadStatus, StopIsOrdered, DeletedByLast, Closed
      <3>. QED  BY <3>1 DEF StopIsOrdered, Closed, ServerTypeOK
    <2>5. HeldOnce' /\ Accepted'
      BY DEF HeldOnce, Accepted, Served, ServerTypeOK
    <2>. QED  BY <2>1, <2>2, <2>3, <2>4, <2>5
  <1>19. CASE UNCHANGED serverVars
    BY <1>19 DEF serverVars, ServerInv, ServerTypeOK, Counted, DeletedByLast, ListensInLoop,
       StopIsOrdered, Closed, HeldOnce, Accepted, Refs, LoopRef
  <1>. QED  BY <1>1, <1>2, <1>3, <1>4, <1>5, <1>6, <1>7, <1>8, <1>9, <1>10, <1>11, <1>12,
               <1>13, <1>14, <1>15, <1>16, <1>17, <1>18, <1>19 DEF ServerNext, ServerStep,
               LoopGoesOn

-----------------------------------------------------------------------------
LEMMA OutlivesByInv == ServerInv => ServerOutlives
  BY DEF ServerInv, DeletedByLast, ListensInLoop, ServerOutlives, Refs

LEMMA ServerAlways == ServerSpec => []ServerInv
  BY ServerInitInv, ServerStepInv, PTL DEF ServerSpec

(* The server deletes itself when its loop has closed the socket and the   *)
(* last coroutine of a connection has dropped its reference: not before,   *)
(* and not after, however many connections and callers of exit() there are.*)
THEOREM Outlives == ServerSpec => []ServerOutlives
  BY ServerAlways, OutlivesByInv, PTL

(* A server of RPC is a server: what on_connection() does is a callback.   *)
THEOREM ServesRpc == RpcSpec => ServerSpec
  <1>1. RpcInit => ServerInit
    BY DEF RpcInit
  <1>2. [RpcNext]_rpcVars => [ServerNext]_serverVars
    <2> SUFFICES ASSUME [RpcNext]_rpcVars PROVE [ServerNext]_serverVars
      OBVIOUS
    <2>1. CASE Acceptor
      BY <2>1 DEF Acceptor, ServerNext, ServerStep
    <2>2. CASE SetStopped
      BY <2>2 DEF SetStopped
    <2>3. ASSUME NEW c \in Conn, Serve(c) PROVE [ServerNext]_serverVars
      <3>1. BeginConn(c) \/ CallbackReturns(c) => ServerNext
        BY DEF ServerNext, ServerStep
      <3>. QED  BY <2>3, <3>1 DEF Serve, OnConnection, RecvHeader, HeaderTimeout, RecvBody,
                   RecvFails, Reply, OnConnectionEnds
    <2>4. CASE Client
      <3>1. \A c \in Conn : Connect(c) => ServerNext
        BY DEF ServerNext
      <3>. QED  BY <2>4, <3>1 DEF Client, CallBegins, Connected, ConnectFails, Send, ErrEnd,
                   Response, ClientClose
    <2>5. CASE UNCHANGED rpcVars
      BY <2>5 DEF rpcVars
    <2>. QED  BY <2>1, <2>2, <2>3, <2>4, <2>5 DEF RpcNext
  <1>. QED  BY <1>1, <1>2, PTL DEF RpcSpec, ServerSpec

(* So the server of an RPC server is deleted once and in time, too.        *)
THEOREM RpcOutlives == RpcSpec => []ServerOutlives
  BY ServesRpc, Outlives, PTL

(* Once exit() has returned to one of its callers, no connection is given  *)
(* a coroutine any more.                                                   *)
THEOREM NoneAfterExit == RpcSpec => NoneAccepted
  <1>1. ServerInv /\ [ServerNext]_serverVars
          => [(\E e \in Exiter : exiter[e] = "back") =>
                 \A c \in Conn : conn'[c] = "go" => conn[c] = "go"]_serverVars
    <2> SUFFICES ASSUME ServerInv, ServerNext, NEW e \in Exiter, exiter[e] = "back",
                        NEW c \in Conn, conn'[c] = "go"
                 PROVE  conn[c] = "go"
      OBVIOUS
    <2>1. ~ Handle
      BY DEF ServerInv, StopIsOrdered, Closed, Handle
    <2>. QED  BY <2>1 DEF ServerNext, ServerStep, LoopGoesOn, ServerInv, ServerTypeOK,
                 Connection,
                 Start, Listen, Accept, AcceptFails, CheckStatus, CloseSocket, Stopped,
                    LoopEnds,
                 Stop, BeginConn, HandshakeFails, CallbackReturns, End, Connect, Exit,
                    StartStop, PollStatus
  <1>. QED  BY <1>1, ServerAlways, ServesRpc, PTL DEF ServerSpec, NoneAccepted

-----------------------------------------------------------------------------
(* The calls of the client.                                                *)

ClientInv ==
    /\ cli = "connect" => sock = NoConn
    /\ cli \in {"send", "recv"} => sock \in Conn
    /\ cli # "idle" => nth \in 1..MaxCalls
    /\ cli # "send" => sent = 0

Unused ==
    \A c \in Conn : conn[c] = "out" =>
       at[c] = "none" /\ up[c] = <<>> /\ got[c] = <<>> /\ down[c] = <<>> /\ c # sock

Reading ==
    \A c \in Conn :
       /\ at[c] # "none" => conn[c] = "callback"
       /\ at[c] \in {"none", "body"} => got[c] = <<>>
       /\ at[c] = "header" => Len(got[c]) <= 1
       /\ at[c] = "reply" => Len(got[c]) = 1

(* What is under way on the client's connection is of the call it is in:   *)
(* a body ends the request, and when the answer is on its way, nothing is  *)
(* left of the request.                                                    *)
OfThisCall(s) == \A i \in 1..Len(s) : s[i][2] = nth
BodyIsLast ==
    \A i \in 1..Len(up[sock]) : up[sock][i][1] = "body" => i = Len(up[sock]) /\ cli = "recv"
NothingBetween ==
    cli = "idle" \/ (cli = "send" /\ sent = 0) =>
       up[sock] = <<>> /\ got[sock] = <<>> /\ down[sock] = <<>>
Replying ==
    at[sock] = "reply" => up[sock] = <<>> /\ down[sock] = <<>> /\ cli = "recv"
Answered ==
    down[sock] # <<>> =>
       /\ at[sock] \in {"header", "end", "none"}
       /\ up[sock] = <<>> /\ got[sock] = <<>>
       /\ cli = "recv" /\ Len(down[sock]) <= 2

OneCallAtATime ==
    sock \in Conn =>
      /\ OfThisCall(up[sock]) /\ OfThisCall(got[sock]) /\ OfThisCall(down[sock])
      /\ BodyIsLast /\ NothingBetween /\ Replying /\ Answered

RpcInv ==
    RpcTypeOK /\ ClientInv /\ Unused /\ Reading /\ OneCallAtATime /\ AnswersOwnCall

LEMMA HeadTail ==
    ASSUME NEW S, NEW s \in Seq(S), s # <<>>
    PROVE  /\ Len(s) \in Nat \ {0} /\ Head(s) = s[1] /\ Head(s) \in S
           /\ Tail(s) \in Seq(S) /\ Len(Tail(s)) = Len(s) - 1
           /\ \A i \in 1..Len(Tail(s)) : Tail(s)[i] = s[i + 1]
  BY HeadTailProperties, ElementOfSeq, EmptySeq

LEMMA Appended ==
    ASSUME NEW S, NEW s \in Seq(S), NEW x \in S
    PROVE  /\ Append(s, x) \in Seq(S) /\ Len(Append(s, x)) = Len(s) + 1 /\ Len(s) \in Nat
           /\ Append(s, x)[Len(s) + 1] = x
           /\ \A i \in 1..Len(s) : Append(s, x)[i] = s[i]
  BY AppendProperties

LEMMA RpcInitInv == RpcInit => RpcInv
  <1> SUFFICES ASSUME RpcInit PROVE RpcInv
    OBVIOUS
  <1> USE RpcAssumption DEF RpcInit
  <1>1. RpcTypeOK
    <2>1. ServerTypeOK
      BY ServerInitInv DEF ServerInv
    <2>2. got \in [Conn -> Seq(Piece)] /\ up \in [Conn -> Seq(Piece)] /\ down \in [Conn -> Seq(Piece)]
      BY EmptySeq
    <2>3. /\ stopped \in BOOLEAN /\ hungUp \in [Conn -> BOOLEAN]
          /\ at \in [Conn -> {"none", "header", "body", "reply", "end"}]
      OBVIOUS
    <2>4. kind \in [Conn -> 0..1] /\ answer \in [1..MaxCalls -> 0..MaxCalls]
      OBVIOUS
    <2>5. cli \in {"idle", "connect", "send", "recv"} /\ sock \in Conn \cup {NoConn}
      OBVIOUS
    <2>6. sent \in 0..2 /\ nth \in 0..MaxCalls
      OBVIOUS
    <2>. QED  BY <2>1, <2>2, <2>3, <2>4, <2>5, <2>6 DEF RpcTypeOK
  <1>2. sock \notin Conn
    BY ServerAssumption
  <1>3. ClientInv /\ Unused /\ Reading /\ OneCallAtATime
    BY <1>2 DEF ClientInv, Unused, Reading, OneCallAtATime
  <1>4. AnswersOwnCall
    BY DEF AnswersOwnCall
  <1>. QED  BY <1>1, <1>3, <1>4 DEF RpcInv

LEMMA RpcStepInv ==
    ASSUME ServerInv, ServerInv', RpcInv, RpcNext
    PROVE  RpcInv'
  <1> USE ServerAssumption, RpcAssumption
  <1>0. ServerTypeOK /\ ServerTypeOK' /\ Conn \subseteq Connection
    BY DEF ServerInv, Connection
  <1>a. /\ at \in [Conn -> {"none", "header", "body", "reply", "end"}]
        /\ got \in [Conn -> Seq(Piece)] /\ up \in [Conn -> Seq(Piece)]
        /\ down \in [Conn -> Seq(Piece)]
    BY DEF RpcInv, RpcTypeOK
  <1>b. <<>> \in Seq(Piece) /\ \A s \in Seq(Piece) : Len(s) \in Nat /\ (s = <<>> <=> Len(s) = 0)
    BY EmptySeq, LenProperties
  <1>1. CASE Acceptor
    <2> USE <1>0, <1>1 DEF Acceptor, Start, LoopGoesOn, Listen, Accept, AcceptFails,
       CheckStatus, Handle, CloseSocket, Stopped, LoopEnds, Stop, HandshakeFails, End, Exit,
       StartStop, PollStatus, serverVars, serveVars, streams, clientVars, RpcInv
    <2>0. \A c \in Conn : /\ conn'[c] = "out" => conn[c] = "out"
                          /\ conn[c] = "callback" => conn'[c] = "callback"
      BY DEF ServerTypeOK, ServerInv, Accepted, Served
    <2>1. RpcTypeOK'
      BY <2>0 DEF RpcTypeOK
    <2>2. ClientInv'
      BY <2>0 DEF ClientInv, RpcTypeOK
    <2>3. Unused'
      BY <2>0 DEF Unused, RpcTypeOK
    <2>4. Reading'
      BY <2>0 DEF Reading, RpcTypeOK
    <2>5. OneCallAtATime'
      <3> SUFFICES ASSUME sock' \in Conn PROVE OneCallAtATime'
        BY DEF OneCallAtATime
      <3>1. (OfThisCall(up[sock]) /\ OfThisCall(got[sock]) /\ OfThisCall(down[sock]))'
        BY <2>0 DEF OneCallAtATime, OfThisCall, RpcTypeOK
      <3>2. BodyIsLast'
        BY <2>0 DEF OneCallAtATime, BodyIsLast, RpcTypeOK
      <3>3. NothingBetween'
        BY <2>0 DEF OneCallAtATime, NothingBetween, RpcTypeOK
      <3>4. Replying'
        BY <2>0 DEF OneCallAtATime, Replying, RpcTypeOK
      <3>5. Answered'
        BY <2>0 DEF OneCallAtATime, Answered, RpcTypeOK
      <3>. QED  BY <3>1, <3>2, <3>3, <3>4, <3>5 DEF OneCallAtATime
    <2>6. AnswersOwnCall'
      BY <2>0 DEF AnswersOwnCall, RpcTypeOK
    <2>. QED  BY <2>1, <2>2, <2>3, <2>4, <2>5, <2>6
  <1>2. CASE SetStopped
    <2> USE <1>0, <1>2 DEF SetStopped, serverVars, serveVars, streams, clientVars, RpcInv
    <2>1. RpcTypeOK'
      BY DEF RpcTypeOK
    <2>2. ClientInv'
      BY DEF ClientInv, RpcTypeOK
    <2>3. Unused'
      BY DEF Unused, RpcTypeOK
    <2>4. Reading'
      BY DEF Reading, RpcTypeOK
    <2>5. OneCallAtATime'
      BY DEF OneCallAtATime, OfThisCall, BodyIsLast, NothingBetween, Replying, Answered,
         RpcTypeOK
    <2>6. AnswersOwnCall'
      BY DEF AnswersOwnCall, RpcTypeOK
    <2>. QED  BY <2>1, <2>2, <2>3, <2>4, <2>5, <2>6
  <1>3. ASSUME NEW c \in Conn, OnConnection(c) PROVE RpcInv'
    <2> USE <1>0, <1>3 DEF OnConnection, BeginConn, Goto, serverVars, serveVars, streams,
       clientVars, RpcInv
    <2>1. RpcTypeOK'
      BY DEF RpcTypeOK
    <2>2. ClientInv'
      BY DEF ClientInv, RpcTypeOK
    <2>3. Unused'
      BY DEF Unused, RpcTypeOK
    <2>4. Reading'
      BY DEF Reading, RpcTypeOK, ServerTypeOK
    <2>5. OneCallAtATime'
      BY DEF OneCallAtATime, OfThisCall, BodyIsLast, NothingBetween, Replying, Answered,
         RpcTypeOK
    <2>6. AnswersOwnCall'
      BY DEF AnswersOwnCall, RpcTypeOK
    <2>. QED  BY <2>1, <2>2, <2>3, <2>4, <2>5, <2>6
  <1>4. ASSUME NEW c \in Conn, RecvHeader(c) PROVE RpcInv'
    <2> USE <1>0, <1>4 DEF RecvHeader, Goto, serverVars, serveVars, streams, clientVars, RpcInv
    <2> DEFINE read == Append(got[c], Head(up[c]))
    <2>0. /\ read \in Seq(Piece) /\ Len(read) = Len(got[c]) + 1 /\ Len(got[c]) \in Nat
          /\ read[Len(got[c]) + 1] = up[c][1]
          /\ \A i \in 1..Len(got[c]) : read[i] = got[c][i]
          /\ Tail(up[c]) \in Seq(Piece) /\ Len(up[c]) \in Nat \ {0}
          /\ Len(Tail(up[c])) = Len(up[c]) - 1
          /\ \A i \in 1..Len(Tail(up[c])) : Tail(up[c])[i] = up[c][i + 1]
      BY <1>a, HeadTail, Appended
    <2>z. /\ up' = [up EXCEPT ![c] = Tail(up[c])]
          /\ \/ Len(read) < 2 /\ got' = [got EXCEPT ![c] = read] /\ UNCHANGED <<at, kind>>
             \/ /\ got' = [got EXCEPT ![c] = <<>>] /\ kind' = [kind EXCEPT ![c] = 1]
                /\ at' = [at EXCEPT ![c] = "body"] \/ at' = [at EXCEPT ![c] = "end"]
          /\ UNCHANGED <<serverVars, stopped, down, hungUp, clientVars>>
          /\ at[c] = "header" /\ up[c] # <<>>
      OBVIOUS
    <2> HIDE DEF read, RecvHeader
    <2>1. RpcTypeOK'
      <3>1. up' \in [Conn -> Seq(Piece)]
        BY <2>0, <2>z, <1>a
      <3>2. /\ got' \in [Conn -> Seq(Piece)]
            /\ at' \in [Conn -> {"none", "header", "body", "reply", "end"}]
        BY <2>0, <2>z, <1>a, <1>b
      <3>3. kind' \in [Conn -> 0..1]
        <4>1. kind' = kind \/ kind' = [kind EXCEPT ![c] = 1]
          BY <2>z
        <4>2. kind \in [Conn -> 0..1]
          BY DEF RpcTypeOK
        <4>. QED  BY <4>1, <4>2
      <3>. QED  BY <3>1, <3>2, <3>3, <2>z DEF RpcTypeOK
    <2>2. ClientInv'
      BY <2>0, <2>z DEF ClientInv, RpcTypeOK
    <2>3. Unused'
      BY <2>0, <2>z DEF Unused, RpcTypeOK
    <2>4. Reading'
      <3>1. CASE Len(read) < 2 /\ got' = [got EXCEPT ![c] = read] /\ UNCHANGED <<at, kind>>
        BY <3>1, <2>0, <2>z, <1>a DEF Reading
      <3>2. CASE /\ got' = [got EXCEPT ![c] = <<>>]
                 /\ at' = [at EXCEPT ![c] = "body"] \/ at' = [at EXCEPT ![c] = "end"]
        BY <3>2, <2>z, <1>a DEF Reading
      <3>. QED  BY <3>1, <3>2, <2>z
    <2>5. OneCallAtATime'
      <3> SUFFICES ASSUME sock' \in Conn PROVE OneCallAtATime'
        BY DEF OneCallAtATime
      <3>1. (OfThisCall(up[sock]) /\ OfThisCall(got[sock]) /\ OfThisCall(down[sock]))'
        <4>1. OfThisCall(up[sock]) /\ OfThisCall(got[sock]) /\ OfThisCall(down[sock])
          BY <2>z DEF OneCallAtATime
        <4>2. CASE c = sock
          <5>1. \A i \in 1..Len(Tail(up[c])) : Tail(up[c])[i][2] = nth
            BY <4>1, <4>2, <2>0 DEF OfThisCall
          <5>2. \A i \in 1..Len(read) : read[i][2] = nth
            <6>1. \A i \in 1..Len(read) : i \in 1..Len(got[c]) \/ i = Len(got[c]) + 1
              BY <2>0
            <6>2. up[c][1][2] = nth
              BY <4>1, <4>2, <2>0 DEF OfThisCall
            <6>. QED  BY <6>1, <6>2, <4>1, <4>2, <2>0 DEF OfThisCall
          <5>3. up'[sock'] = Tail(up[c]) /\ (got'[sock'] = read \/ got'[sock'] = <<>>)
            BY <4>2, <2>z, <1>a
          <5>. QED  BY <5>1, <5>2, <5>3, <4>1, <2>z DEF OfThisCall
        <4>3. CASE c # sock
          BY <4>1, <4>3, <2>z, <1>a DEF OfThisCall
        <4>. QED  BY <4>2, <4>3
      <3>2. BodyIsLast'
        <4>1. CASE c = sock
          <5>1. up'[sock'] = Tail(up[c]) /\ cli' = cli
            BY <4>1, <2>z, <1>a
          <5>. QED  BY <5>1, <4>1, <2>0, <2>z DEF OneCallAtATime, BodyIsLast
        <4>2. CASE c # sock
          BY <4>2, <2>z, <1>a DEF OneCallAtATime, BodyIsLast
        <4>. QED  BY <4>1, <4>2
      <3>3. NothingBetween'
        BY <2>0, <2>z DEF OneCallAtATime, NothingBetween, RpcTypeOK
      <3>4. Replying'
        BY <2>0, <2>z DEF OneCallAtATime, Replying, RpcTypeOK
      <3>5. Answered'
        BY <2>0, <2>z DEF OneCallAtATime, Answered, RpcTypeOK
      <3>. QED  BY <3>1, <3>2, <3>3, <3>4, <3>5 DEF OneCallAtATime
    <2>6. AnswersOwnCall'
      BY <2>0, <2>z DEF AnswersOwnCall, RpcTypeOK
    <2>. QED  BY <2>1, <2>2, <2>3, <2>4, <2>5, <2>6
  <1>5. ASSUME NEW c \in Conn, HeaderTimeout(c) PROVE RpcInv'
    <2> USE <1>0, <1>5 DEF HeaderTimeout, Goto, serverVars, serveVars, streams, clientVars,
       RpcInv
    <2>1. RpcTypeOK'
      BY DEF RpcTypeOK
    <2>2. ClientInv'
      BY DEF ClientInv, RpcTypeOK
    <2>3. Unused'
      BY DEF Unused, RpcTypeOK
    <2>4. Reading'
      BY DEF Reading, RpcTypeOK
    <2>5. OneCallAtATime'
      BY DEF OneCallAtATime, OfThisCall, BodyIsLast, NothingBetween, Replying, Answered,
         RpcTypeOK
    <2>6. AnswersOwnCall'
      BY DEF AnswersOwnCall, RpcTypeOK
    <2>. QED  BY <2>1, <2>2, <2>3, <2>4, <2>5, <2>6
  <1>6. ASSUME NEW c \in Conn, RecvBody(c) PROVE RpcInv'
    <2> USE <1>0, <1>6 DEF RecvBody, Goto, serverVars, serveVars, streams, clientVars, RpcInv
    <2>0. /\ Len(up[c]) \in Nat \ {0} /\ Head(up[c]) = up[c][1] /\ Head(up[c]) \in Piece
          /\ Tail(up[c]) \in Seq(Piece) /\ Len(Tail(up[c])) = Len(up[c]) - 1
          /\ \A i \in 1..Len(Tail(up[c])) : Tail(up[c])[i] = up[c][i + 1]
      BY <1>a, HeadTail
    <2>1. RpcTypeOK'
      BY <2>0 DEF RpcTypeOK
    <2>2. ClientInv'
      BY <2>0 DEF ClientInv, RpcTypeOK
    <2>3. Unused'
      BY <2>0 DEF Unused, RpcTypeOK
    <2>4. Reading'
      BY <2>0 DEF Reading, RpcTypeOK
    <2>5. OneCallAtATime'
      <3> SUFFICES ASSUME sock' \in Conn PROVE OneCallAtATime'
        BY DEF OneCallAtATime
      <3>1. (OfThisCall(up[sock]) /\ OfThisCall(got[sock]) /\ OfThisCall(down[sock]))'
        BY <2>0 DEF OneCallAtATime, OfThisCall, RpcTypeOK
      <3>2. BodyIsLast'
        <4>1. CASE c = sock
          <5>1. up'[sock'] = Tail(up[c]) /\ cli' = cli
            BY <4>1, <1>a
          <5>. QED  BY <5>1, <4>1, <2>0 DEF OneCallAtATime, BodyIsLast
        <4>2. CASE c # sock
          BY <4>2, <1>a DEF OneCallAtATime, BodyIsLast
        <4>. QED  BY <4>1, <4>2
      <3>3. NothingBetween'
        BY <2>0 DEF OneCallAtATime, NothingBetween, RpcTypeOK
      <3>4. Replying'
        <4>1. CASE c = sock /\ up[c][1][1] = "body"
          <5>1. BodyIsLast /\ Answered
            BY <4>1 DEF OneCallAtATime
          <5>2. Len(up[c]) = 1 /\ cli = "recv"
            <6>1. 1 \in 1..Len(up[sock])
              BY <2>0, <4>1
            <6>. QED  BY <6>1, <5>1, <4>1 DEF BodyIsLast
          <5>3. down[sock] = <<>>
            BY <5>1, <4>1 DEF Answered
          <5>4. up'[sock'] = <<>>
            <6>1. Len(Tail(up[c])) = 0 /\ Tail(up[c]) \in Seq(Piece)
              BY <5>2, <2>0
            <6>2. Tail(up[c]) = <<>>
              BY <6>1, <1>b
            <6>. QED  BY <6>2, <4>1, <1>a
          <5>. QED  BY <5>2, <5>3, <5>4 DEF Replying
        <4>2. CASE c = sock /\ up[c][1][1] # "body"
          BY <4>2, <2>0, <1>a DEF Replying
        <4>3. CASE c # sock
          BY <4>3, <1>a DEF Replying, OneCallAtATime
        <4>. QED  BY <4>1, <4>2, <4>3
      <3>5. Answered'
        BY <2>0 DEF OneCallAtATime, Answered, RpcTypeOK
      <3>. QED  BY <3>1, <3>2, <3>3, <3>4, <3>5 DEF OneCallAtATime
    <2>6. AnswersOwnCall'
      BY <2>0 DEF AnswersOwnCall, RpcTypeOK
    <2>. QED  BY <2>1, <2>2, <2>3, <2>4, <2>5, <2>6
  <1>7. ASSUME NEW c \in Conn, RecvFails(c) PROVE RpcInv'
    <2> USE <1>0, <1>7 DEF RecvFails, Goto, serverVars, serveVars, streams, clientVars, RpcInv
    <2>1. RpcTypeOK'
      BY DEF RpcTypeOK
    <2>2. ClientInv'
      BY DEF ClientInv, RpcTypeOK
    <2>3. Unused'
      BY DEF Unused, RpcTypeOK
    <2>4. Reading'
      BY DEF Reading, RpcTypeOK
    <2>5. OneCallAtATime'
      BY DEF OneCallAtATime, OfThisCall, BodyIsLast, NothingBetween, Replying, Answered,
         RpcTypeOK
    <2>6. AnswersOwnCall'
      BY DEF AnswersOwnCall, RpcTypeOK
    <2>. QED  BY <2>1, <2>2, <2>3, <2>4, <2>5, <2>6
  <1>8. ASSUME NEW c \in Conn, NEW n \in 0..2, Reply(c, n) PROVE RpcInv'
    <2> USE <1>0, <1>8 DEF Reply, Goto, serverVars, serveVars, streams, clientVars, RpcInv
    <2> DEFINE k == got[c][1][2]
               sends == SubSeq(<< <<"magic", k>>, <<"body", k>> >>, 1, n)
    <2>0. k \in 1..MaxCalls
      <3>1. Len(got[c]) = 1 /\ got[c] \in Seq(Piece)
        BY <1>a DEF Reading
      <3>2. got[c][1] \in Piece
        BY <3>1, ElementOfSeq
      <3>. QED  BY <3>2 DEF Piece
    <2>b. sends \in Seq(Piece)
      BY <2>0 DEF Piece
    <2>c. Len(sends) \in 0..2 /\ \A i \in 1..Len(sends) : sends[i][2] = k
      BY <2>0
    <2>d. /\ at[c] = "reply" /\ got' = [got EXCEPT ![c] = <<>>]
          /\ at' = [at EXCEPT ![c] = "end"] \/ at' = [at EXCEPT ![c] = "header"]
          /\ down' = down \/ down' = [down EXCEPT ![c] = @ \o sends]
      BY Zenon
    <2>e. UNCHANGED <<serverVars, stopped, kind, up, hungUp, clientVars>>
      OBVIOUS
    <2>f. Len(got[c]) = 1
      BY <2>d DEF Reading
    <2> HIDE DEF k, sends, Reply
    <2>1. RpcTypeOK'
      <3>1. down' \in [Conn -> Seq(Piece)]
        <4>1. down[c] \o sends \in Seq(Piece)
          BY <2>b, <1>a, ConcatProperties
        <4>. QED  BY <4>1, <2>d, <1>a
      <3>2. got' \in [Conn -> Seq(Piece)]
        BY <2>d, <1>a, <1>b
      <3>3. at' \in [Conn -> {"none", "header", "body", "reply", "end"}]
        BY <2>d, <1>a
      <3>. QED  BY <3>1, <3>2, <3>3, <2>e DEF RpcTypeOK
    <2>2. ClientInv'
      BY <1>a, <2>d, <2>e, <2>f DEF ClientInv, RpcTypeOK
    <2>3. Unused'
      BY <1>a, <2>d, <2>e, <2>f DEF Unused, RpcTypeOK
    <2>4. Reading'
      BY <1>a, <2>d, <2>e, <2>f DEF Reading, RpcTypeOK
    <2>5. OneCallAtATime'
      <3> SUFFICES ASSUME sock' \in Conn PROVE OneCallAtATime'
        BY DEF OneCallAtATime
      <3>1. (OfThisCall(up[sock]) /\ OfThisCall(got[sock]) /\ OfThisCall(down[sock]))'
        <4>1. CASE c = sock
          <5>1. k = nth /\ down[sock] = <<>>
            BY <4>1, <2>f, <2>d DEF OneCallAtATime, OfThisCall, Replying, k
          <5>2. down'[sock'] = <<>> \/ down'[sock'] = sends
            <6>1. down[c] \o sends = sends
              BY <5>1, <4>1, <2>b, ConcatEmptySeq
            <6>. QED  BY <5>1, <6>1, <4>1, <2>d, <2>e, <1>a
          <5>3. got'[sock'] = <<>>
            BY <4>1, <2>d, <2>e, <1>a
          <5>. QED  BY <5>1, <5>2, <5>3, <2>c, <2>e, <1>b DEF OneCallAtATime, OfThisCall
        <4>2. CASE c # sock
          BY <4>2, <2>d, <2>e, <1>a DEF OneCallAtATime, OfThisCall
        <4>. QED  BY <4>1, <4>2
      <3>2. BodyIsLast'
        BY <1>a, <2>d, <2>e, <2>f DEF OneCallAtATime, BodyIsLast, RpcTypeOK
      <3>3. NothingBetween'
        BY <2>d, <2>e, <1>a DEF OneCallAtATime, NothingBetween, Replying
      <3>4. Replying'
        BY <1>a, <2>d, <2>e, <2>f DEF OneCallAtATime, Replying, RpcTypeOK
      <3>5. Answered'
        <4>1. CASE c = sock
          <5>1. up[sock] = <<>> /\ down[sock] = <<>> /\ cli = "recv"
            BY <4>1, <2>d DEF OneCallAtATime, Replying
          <5>2. down'[sock'] = <<>> \/ down'[sock'] = sends
            <6>1. down[c] \o sends = sends
              BY <5>1, <4>1, <2>b, ConcatEmptySeq
            <6>. QED  BY <5>1, <6>1, <4>1, <2>d, <2>e, <1>a
          <5>3. got'[sock'] = <<>> /\ at'[sock'] \in {"end", "header"}
            BY <4>1, <2>d, <2>e, <1>a
          <5>4. Len(down'[sock']) <= 2
            <6>1. Len(sends) <= 2 /\ Len(<<>>) = 0
              BY <2>c
            <6>. QED  BY <5>2, <6>1
          <5>5. up'[sock'] = <<>> /\ cli' = "recv"
            BY <5>1, <2>e
          <5>. QED  BY <5>3, <5>4, <5>5 DEF Answered
        <4>2. CASE c # sock
          BY <4>2, <2>d, <2>e, <1>a DEF OneCallAtATime, Answered
        <4>. QED  BY <4>1, <4>2
      <3>. QED  BY <3>1, <3>2, <3>3, <3>4, <3>5 DEF OneCallAtATime
    <2>6. AnswersOwnCall'
      BY <1>a, <2>d, <2>e, <2>f DEF AnswersOwnCall, RpcTypeOK
    <2>. QED  BY <2>1, <2>2, <2>3, <2>4, <2>5, <2>6
  <1>9. ASSUME NEW c \in Conn, OnConnectionEnds(c) PROVE RpcInv'
    <2> USE <1>0, <1>9 DEF OnConnectionEnds, CallbackReturns, Goto, serverVars, serveVars,
       streams, clientVars, RpcInv
    <2>1. RpcTypeOK'
      BY DEF RpcTypeOK
    <2>2. ClientInv'
      BY DEF ClientInv, RpcTypeOK
    <2>3. Unused'
      BY DEF Unused, RpcTypeOK
    <2>4. Reading'
      BY DEF Reading, RpcTypeOK
    <2>5. OneCallAtATime'
      BY DEF OneCallAtATime, OfThisCall, BodyIsLast, NothingBetween, Replying, Answered,
         RpcTypeOK
    <2>6. AnswersOwnCall'
      BY DEF AnswersOwnCall, RpcTypeOK
    <2>. QED  BY <2>1, <2>2, <2>3, <2>4, <2>5, <2>6
  <1>10. CASE CallBegins
    <2> USE <1>0, <1>10 DEF CallBegins, serverVars, serveVars, streams, clientVars, RpcInv
    <2>1. RpcTypeOK'
      BY DEF RpcTypeOK
    <2>2. ClientInv'
      BY DEF ClientInv, RpcTypeOK
    <2>3. Unused'
      BY DEF Unused, RpcTypeOK
    <2>4. Reading'
      BY DEF Reading, RpcTypeOK
    <2>5. OneCallAtATime'
      <3> SUFFICES ASSUME sock' \in Conn PROVE OneCallAtATime'
        BY DEF OneCallAtATime
      <3>1. (OfThisCall(up[sock]) /\ OfThisCall(got[sock]) /\ OfThisCall(down[sock]))'
        <4>1. up[sock] = <<>> /\ got[sock] = <<>> /\ down[sock] = <<>>
          BY DEF OneCallAtATime, NothingBetween
        <4>. QED  BY <4>1 DEF OfThisCall
      <3>2. BodyIsLast'
        BY DEF OneCallAtATime, BodyIsLast, RpcTypeOK
      <3>3. NothingBetween'
        BY DEF OneCallAtATime, NothingBetween, RpcTypeOK
      <3>4. Replying'
        BY DEF OneCallAtATime, Replying, RpcTypeOK
      <3>5. Answered'
        BY DEF OneCallAtATime, Answered, RpcTypeOK
      <3>. QED  BY <3>1, <3>2, <3>3, <3>4, <3>5 DEF OneCallAtATime
    <2>6. AnswersOwnCall'
      BY DEF AnswersOwnCall, RpcTypeOK
    <2>. QED  BY <2>1, <2>2, <2>3, <2>4, <2>5, <2>6
  <1>11. ASSUME NEW c \in Conn, Connected(c) PROVE RpcInv'
    <2> USE <1>0, <1>11 DEF Connected, Connect, serverVars, serveVars, streams, clientVars,
       RpcInv
    <2>0. sock' = c /\ at'[c] = "none" /\ up'[c] = <<>> /\ got'[c] = <<>> /\ down'[c] = <<>>
      BY DEF Unused
    <2>1. RpcTypeOK'
      BY <2>0 DEF RpcTypeOK
    <2>2. ClientInv'
      BY <2>0 DEF ClientInv, RpcTypeOK
    <2>3. Unused'
      <3>1. \A d \in Conn : conn'[d] = "out" => conn[d] = "out" /\ d # c
        BY DEF ServerTypeOK
      <3>. QED  BY <3>1 DEF Unused
    <2>4. Reading'
      BY <2>0 DEF Reading, RpcTypeOK
    <2>5. OneCallAtATime'
      <3> SUFFICES ASSUME sock' \in Conn PROVE OneCallAtATime'
        BY DEF OneCallAtATime
      <3>1. (OfThisCall(up[sock]) /\ OfThisCall(got[sock]) /\ OfThisCall(down[sock]))'
        BY <2>0 DEF OneCallAtATime, OfThisCall, RpcTypeOK
      <3>2. BodyIsLast'
        BY <2>0 DEF OneCallAtATime, BodyIsLast, RpcTypeOK
      <3>3. NothingBetween'
        BY <2>0 DEF OneCallAtATime, NothingBetween, RpcTypeOK
      <3>4. Replying'
        BY <2>0 DEF OneCallAtATime, Replying, RpcTypeOK
      <3>5. Answered'
        BY <2>0 DEF OneCallAtATime, Answered, RpcTypeOK
      <3>. QED  BY <3>1, <3>2, <3>3, <3>4, <3>5 DEF OneCallAtATime
    <2>6. AnswersOwnCall'
      BY <2>0 DEF AnswersOwnCall, RpcTypeOK
    <2>. QED  BY <2>1, <2>2, <2>3, <2>4, <2>5, <2>6
  <1>12. CASE ConnectFails
    <2> USE <1>0, <1>12 DEF ConnectFails, serverVars, serveVars, streams, clientVars, RpcInv
    <2>1. RpcTypeOK'
      BY DEF RpcTypeOK
    <2>2. ClientInv'
      BY DEF ClientInv, RpcTypeOK
    <2>3. Unused'
      BY DEF Unused, RpcTypeOK
    <2>4. Reading'
      BY DEF Reading, RpcTypeOK
    <2>5. OneCallAtATime'
      BY DEF OneCallAtATime, ClientInv
    <2>6. AnswersOwnCall'
      BY DEF AnswersOwnCall, RpcTypeOK
    <2>. QED  BY <2>1, <2>2, <2>3, <2>4, <2>5, <2>6
  <1>13. CASE Send
    <2> USE <1>0, <1>13 DEF Send, Request, Gone, serverVars, serveVars, streams, clientVars,
       RpcInv
    <2>0. sock \in Conn /\ nth \in 1..MaxCalls /\ sent \in 0..2
      BY DEF ClientInv, RpcTypeOK
    <2>x. Request \in Seq(Piece) /\ Len(Request) = 3
      BY <2>0 DEF Piece
    <2>y. Request[sent + 1] \in Piece
      BY <2>0, <2>x
    <2>1. RpcTypeOK'
      <3>1. up' \in [Conn -> Seq(Piece)]
        <4>1. Append(up[sock], Request[sent + 1]) \in Seq(Piece)
          BY <2>0, <2>y, <1>a, Appended
        <4>. QED  BY <4>1, <2>0, <1>a
      <3>2. sent' \in 0..2
        BY <2>0
      <3>. QED  BY <3>1, <3>2 DEF RpcTypeOK
    <2>2. ClientInv'
      BY <2>0 DEF ClientInv, RpcTypeOK
    <2>3. Unused'
      BY <2>0 DEF Unused, RpcTypeOK
    <2>4. Reading'
      BY <2>0 DEF Reading, RpcTypeOK
    <2>5. OneCallAtATime'
      <3> SUFFICES ASSUME sock' \in Conn PROVE OneCallAtATime'
        BY DEF OneCallAtATime
      <3>1. (OfThisCall(up[sock]) /\ OfThisCall(got[sock]) /\ OfThisCall(down[sock]))'
        BY <2>0 DEF OneCallAtATime, OfThisCall, RpcTypeOK
      <3>2. BodyIsLast'
        BY <2>0 DEF OneCallAtATime, BodyIsLast, RpcTypeOK
      <3>3. NothingBetween'
        <4>1. sent' # 0 \/ cli' = "recv"
          BY <2>0
        <4>2. cli' \in {"send", "recv"}
          OBVIOUS
        <4>. QED  BY <4>1, <4>2 DEF NothingBetween
      <3>4. Replying'
        BY <2>0 DEF OneCallAtATime, Replying, RpcTypeOK
      <3>5. Answered'
        BY <2>0 DEF OneCallAtATime, Answered, RpcTypeOK
      <3>. QED  BY <3>1, <3>2, <3>3, <3>4, <3>5 DEF OneCallAtATime
    <2>6. AnswersOwnCall'
      BY <2>0 DEF AnswersOwnCall, RpcTypeOK
    <2>. QED  BY <2>1, <2>2, <2>3, <2>4, <2>5, <2>6
  <1>14. CASE ErrEnd
    <2> USE <1>0, <1>14 DEF ErrEnd, HangUpOn, serverVars, serveVars, streams, clientVars, RpcInv
    <2>0. sock \in Conn
      BY DEF ClientInv
    <2>1. RpcTypeOK'
      BY <2>0 DEF RpcTypeOK
    <2>2. ClientInv'
      BY <2>0 DEF ClientInv, RpcTypeOK
    <2>3. Unused'
      BY <2>0 DEF Unused, RpcTypeOK
    <2>4. Reading'
      BY <2>0 DEF Reading, RpcTypeOK
    <2>5. OneCallAtATime'
      <3> SUFFICES ASSUME sock' \in Conn PROVE OneCallAtATime'
        BY DEF OneCallAtATime
      <3>1. (OfThisCall(up[sock]) /\ OfThisCall(got[sock]) /\ OfThisCall(down[sock]))'
        BY <2>0 DEF OneCallAtATime, OfThisCall, RpcTypeOK
      <3>2. BodyIsLast'
        BY <2>0 DEF OneCallAtATime, BodyIsLast, RpcTypeOK
      <3>3. NothingBetween'
        BY <2>0 DEF OneCallAtATime, NothingBetween, RpcTypeOK
      <3>4. Replying'
        BY <2>0 DEF OneCallAtATime, Replying, RpcTypeOK
      <3>5. Answered'
        BY <2>0 DEF OneCallAtATime, Answered, RpcTypeOK
      <3>. QED  BY <3>1, <3>2, <3>3, <3>4, <3>5 DEF OneCallAtATime
    <2>6. AnswersOwnCall'
      BY <2>0 DEF AnswersOwnCall, RpcTypeOK
    <2>. QED  BY <2>1, <2>2, <2>3, <2>4, <2>5, <2>6
  <1>15. CASE Response
    <2> USE <1>0, <1>15 DEF Response, serverVars, serveVars, streams, clientVars, RpcInv
    <2>0. sock \in Conn /\ nth \in 1..MaxCalls /\ down[sock] \in Seq(Piece)
      BY <1>a DEF ClientInv
    <2>x. Len(down[sock]) = 2 /\ up[sock] = <<>> /\ got[sock] = <<>>
      <3>1. Len(down[sock]) \in Nat /\ down[sock] # <<>>
        BY <2>0, <1>b
      <3>2. Answered
        BY <2>0 DEF OneCallAtATime
      <3>3. up[sock] = <<>> /\ got[sock] = <<>> /\ Len(down[sock]) <= 2
        BY <3>1, <3>2 DEF Answered
      <3>4. Len(down[sock]) >= 2
        BY Zenon
      <3>5. \A m \in Nat : m >= 2 /\ m <= 2 => m = 2
        OBVIOUS
      <3>. QED  BY <3>1, <3>3, <3>4, <3>5, Zenon
    <2>y. down' = [down EXCEPT ![sock] = <<>>]
      <3>1. SubSeq(down[sock], 3, 2) = <<>>
        BY <2>0, SubSeqProperties, <1>b
      <3>. QED  BY <2>x, <3>1
    <2>w. answer' = [answer EXCEPT ![nth] = nth]
      <3>1. down[sock][2][2] = nth
        BY <2>x, <2>0 DEF OneCallAtATime, OfThisCall
      <3>. QED  BY <3>1
    <2>1. RpcTypeOK'
      <3>1. down' \in [Conn -> Seq(Piece)]
        BY <2>y, <1>a, <1>b
      <3>2. answer' \in [1..MaxCalls -> 0..MaxCalls]
        BY <2>0, <2>w DEF RpcTypeOK
      <3>. QED  BY <3>1, <3>2 DEF RpcTypeOK
    <2>2. ClientInv'
      BY <2>0 DEF ClientInv, RpcTypeOK
    <2>3. Unused'
      BY <2>0 DEF Unused, RpcTypeOK
    <2>4. Reading'
      BY <2>0 DEF Reading, RpcTypeOK
    <2>5. OneCallAtATime'
      <3> SUFFICES ASSUME sock' \in Conn PROVE OneCallAtATime'
        BY DEF OneCallAtATime
      <3>1. (OfThisCall(up[sock]) /\ OfThisCall(got[sock]) /\ OfThisCall(down[sock]))'
        BY <2>0 DEF OneCallAtATime, OfThisCall, RpcTypeOK
      <3>2. BodyIsLast'
        BY <2>0, <2>x DEF BodyIsLast
      <3>3. NothingBetween'
        BY <2>0, <2>x, <2>y, <1>a DEF NothingBetween
      <3>4. Replying'
        BY <2>0 DEF OneCallAtATime, Replying, RpcTypeOK
      <3>5. Answered'
        BY <2>0 DEF OneCallAtATime, Answered, RpcTypeOK
      <3>. QED  BY <3>1, <3>2, <3>3, <3>4, <3>5 DEF OneCallAtATime
    <2>6. AnswersOwnCall'
      BY <2>0, <2>w DEF AnswersOwnCall, RpcTypeOK
    <2>. QED  BY <2>1, <2>2, <2>3, <2>4, <2>5, <2>6
  <1>16. CASE ClientClose
    <2> USE <1>0, <1>16 DEF ClientClose, HangUpOn, serverVars, serveVars, streams, clientVars,
       RpcInv
    <2>1. RpcTypeOK'
      BY DEF RpcTypeOK
    <2>2. ClientInv'
      BY DEF ClientInv, RpcTypeOK
    <2>3. Unused'
      BY DEF Unused, RpcTypeOK
    <2>4. Reading'
      BY DEF Reading, RpcTypeOK
    <2>5. OneCallAtATime'
      BY DEF OneCallAtATime, OfThisCall, BodyIsLast, NothingBetween, Replying, Answered,
         RpcTypeOK
    <2>6. AnswersOwnCall'
      BY DEF AnswersOwnCall, RpcTypeOK
    <2>. QED  BY <2>1, <2>2, <2>3, <2>4, <2>5, <2>6
  <1>. QED  BY <1>1, <1>2, <1>3, <1>4, <1>5, <1>6, <1>7, <1>8, <1>9, <1>10, <1>11, <1>12,
               <1>13, <1>14, <1>15, <1>16 DEF RpcNext, Serve, Client

LEMMA RpcStutterInv == RpcInv /\ UNCHANGED rpcVars => RpcInv'
  BY DEF rpcVars, serverVars, serveVars, streams, clientVars, RpcInv, RpcTypeOK, ServerTypeOK,
     ClientInv, Unused, Reading, OneCallAtATime, OfThisCall, BodyIsLast, NothingBetween,
        Replying,
     Answered, AnswersOwnCall

(* A call of the client returns nothing or the answer to its own request,  *)
(* wherever reads time out, for any number of calls and connections.       *)
THEOREM AnswersOwn == RpcSpec => []AnswersOwnCall
  <1>1. RpcSpec => []ServerInv
    BY ServesRpc, ServerAlways, PTL
  <1>2. ServerInv /\ ServerInv' /\ RpcInv /\ [RpcNext]_rpcVars => RpcInv'
    BY RpcStepInv, RpcStutterInv
  <1>3. RpcInv => AnswersOwnCall
    BY DEF RpcInv
  <1>. QED  BY <1>1, <1>2, <1>3, RpcInitInv, PTL DEF RpcSpec

-----------------------------------------------------------------------------
(* HTTP: what is on its way from the request on that is being read.        *)

Bytes == Seq(Byte)

(* What the sequences from each of ss on come to, of which Joined is the   *)
(* first.                                                                  *)
Tailing(ss, f) ==
    f = [i \in 1..(Len(ss) + 1) |-> IF i > Len(ss) THEN <<>> ELSE ss[i] \o f[i + 1]]
Tails(ss) == CHOOSE f : Tailing(ss, f)

Wires == [k \in DOMAIN plan |-> Wire(k, plan[k])]
Stream(k) == Tails(Wires)[k]

(* The requests before this one have been handled.                         *)
This == Len(handled) + 1
Pieces == plan[This].pieces
Lines(ss) == [i \in DOMAIN ss |-> ChunkBytes(ss[i])]
FromChunk(j) == Tails(Lines(Pieces))[j] \o (LastBytes(plan[This]) \o Stream(This + 1))
FromPiece(j) == Tails(Pieces)[j]

Trailer1 == << <<"trailer", 0>> >>
TrailerOf(r) == IF r.trailer THEN Trailer1 \o CRLF ELSE <<>>

(* The bytes read and those to come make up what the client sent, wherever *)
(* on_connection is: between two requests or in a head, in a body, at the  *)
(* line of a chunk or the end of the line before, in a chunk, or in the    *)
(* trailing headers; what has been read of a body is its beginning.        *)
HttpTyped ==
    /\ plan \in Plans
    /\ net \in Bytes /\ buf \in Bytes /\ rest \in Bytes
    /\ need \in Nat /\ size \in Nat /\ total \in Nat
    /\ handled \in Seq([req : Nat, body : Bytes])
    /\ Len(handled) <= Len(plan)
HandledAsSent == \A i \in DOMAIN handled : handled[i] = [req |-> i, body |-> Body(plan[i])]
InRequest == spot \notin {"first", "head", "end"} => This <= Len(plan)
InChunks == spot \in {"chunk", "data", "trailer"} => plan[This].framing = "chunks"
AtHead ==
    /\ spot \in {"first", "head"} => buf \o net = Stream(This)
    /\ spot = "first" => buf = <<>>
AtBody ==
    spot = "body" =>
       /\ plan[This].framing # "chunks"
       /\ buf \o net = Stream(This)
       /\ size = Len(Body(plan[This])) /\ total = 5 + size /\ total = Len(buf) + need
AtChunk ==
    spot = "chunk" =>
       \E j \in 1..(Len(Pieces) + 1), b \in Bytes :
          /\ buf = HeadBytes(This) \o b /\ b \o FromPiece(j) = Body(plan[This])
          /\ rest \o net \in {FromChunk(j), CRLF \o FromChunk(j)}
AtData ==
    spot = "data" =>
       \E j \in 1..Len(Pieces), b, y \in Bytes :
          /\ buf = HeadBytes(This) \o b /\ b \o (y \o FromPiece(j + 1)) = Body(plan[This])
          /\ net = y \o (CRLF \o FromChunk(j + 1))
          /\ need = Len(y) + 2
AtTrailer ==
    spot = "trailer" =>
       /\ buf = HeadBytes(This) \o Body(plan[This])
       /\ size = Len(Body(plan[This]))
       /\ rest \o net = CRLF \o (TrailerOf(plan[This]) \o (CRLF \o Stream(This + 1)))
AtHandle ==
    spot = "handle" =>
       /\ buf # <<>> /\ buf[1] = <<"head", This>>
       /\ SubSeq(buf, 6, 5 + size) = Body(plan[This])
       /\ total <= Len(buf)
       /\ From(buf, total + 1) \o net = Stream(This + 1)
AtRefused == spot = "refused" => TooLong(plan[This])

HttpInv ==
    /\ HttpTyped /\ HandledAsSent /\ InRequest /\ InChunks
    /\ AtHead /\ AtBody /\ AtChunk /\ AtData /\ AtTrailer /\ AtHandle /\ AtRefused
-----------------------------------------------------------------------------
(* Numbers: a set of numbers has a least one, for the finite sets 0..n     *)
(* are well-founded under inclusion.                                       *)

LEMMA LeastNumber ==
    ASSUME NEW T, T \subseteq Nat, T # {}
    PROVE  \E x \in T : \A y \in T : x <= y
  <1> DEFINE U == {0..n : n \in T}
  <1>1. U \subseteq FiniteSubsetsOf(Nat) /\ U # {}
    <2>1. \A n \in T : IsFiniteSet(0..n) /\ 0..n \subseteq Nat
      BY FS_Interval
    <2>. QED  BY <2>1 DEF FiniteSubsetsOf
  <1>2. IsWellFoundedOn(StrictSubsetOrdering(Nat), FiniteSubsetsOf(Nat))
    BY FS_StrictSubsetOrderingWellFounded
  <1>3. PICK x \in U : \A y \in U : ~ (<<y, x>> \in StrictSubsetOrdering(Nat))
    <2> HIDE DEF U
    <2>. QED  BY <1>1, <1>2, WFMin
  <1>4. PICK n \in T : x = 0..n
    OBVIOUS
  <1>5. ASSUME NEW k \in T PROVE n <= k
    <2>1. ~ (<<0..k, 0..n>> \in StrictSubsetOrdering(Nat))
      BY <1>3, <1>4
    <2>2. k < n => 0..k \subseteq 0..n /\ n \notin 0..k /\ n \in 0..n
      OBVIOUS
    <2>3. 0..k \in SUBSET Nat /\ 0..n \in SUBSET Nat
      OBVIOUS
    <2>4. k < n => 0..k # 0..n
      BY <2>2
    <2>. QED  BY <2>1, <2>2, <2>3, <2>4 DEF StrictSubsetOrdering
  <1>. QED  BY <1>5

(* What holds of 0 and of a number with its predecessor holds of all.      *)
LEMMA Induction ==
    ASSUME NEW T, 0 \in T, \A n \in Nat \ {0} : n - 1 \in T => n \in T
    PROVE  Nat \subseteq T
  <1>1. SUFFICES ASSUME Nat \ T # {} PROVE FALSE
    OBVIOUS
  <1>2. PICK n \in Nat \ T : \A k \in Nat \ T : n <= k
    BY <1>1, LeastNumber
  <1>3. n # 0
    BY <1>2
  <1>4. n - 1 \in Nat /\ ~ (n <= n - 1)
    BY <1>2, <1>3
  <1>5. n - 1 \in T
    BY <1>2, <1>4
  <1>. QED  BY <1>2, <1>3, <1>5

LEMMA TailsExist ==
    ASSUME NEW ss \in Seq(Bytes)
    PROVE  \E f : Tailing(ss, f)
  <1> DEFINE n == Len(ss)
             Upto(k, f) == \A i \in (n + 1 - k)..(n + 1) :
                              f[i] = IF i > n THEN <<>> ELSE ss[i] \o f[i + 1]
             T == {k \in Nat : k <= n => \E f : Upto(k, f)}
  <1>1. n \in Nat
    BY LenProperties
  <1>2. 0 \in T
    <2> DEFINE f == [i \in {n + 1} |-> <<>>]
    <2>1. f[n + 1] = <<>> /\ n + 1 > n /\ \A i \in (n + 1 - 0)..(n + 1) : i = n + 1
      BY <1>1
    <2> HIDE DEF f, n
    <2>2. Upto(0, f)
      BY <2>1
    <2>. QED  BY <2>2
  <1>3. ASSUME NEW k \in Nat \ {0}, k - 1 \in T PROVE k \in T
    <2> SUFFICES ASSUME k <= n PROVE \E f : Upto(k, f)
      OBVIOUS
    <2>1. PICK f : Upto(k - 1, f)
      BY <1>1, <1>3
    <2> DEFINE a == n + 1 - k
               g == [i \in a..(n + 1) |-> IF i = a THEN ss[a] \o f[a + 1] ELSE f[i]]
    <2>2. a \in Nat /\ a <= n
      BY <1>1
    <2>3. ASSUME NEW i \in a..(n + 1) PROVE g[i] = IF i > n THEN <<>> ELSE ss[i] \o g[i + 1]
      <3>1. CASE i = a
        <4>1. a + 1 \in a..(n + 1) /\ a + 1 # a /\ a \in a..(n + 1) /\ ~ (a > n)
          BY <1>1, <2>2
        <4>2. g[a] = ss[a] \o f[a + 1]
          BY <4>1
        <4>3. g[a + 1] = f[a + 1]
          BY <4>1
        <4> HIDE DEF g, a
        <4>. QED  BY <3>1, <4>1, <4>2, <4>3
      <3>2. CASE i # a
        <4>1. g[i] = f[i] /\ (i <= n => g[i + 1] = f[i + 1])
          BY <1>1, <2>2, <3>2
        <4>2. i \in (n + 1 - (k - 1))..(n + 1)
          BY <1>1, <2>2, <3>2
        <4>3. f[i] = IF i > n THEN <<>> ELSE ss[i] \o f[i + 1]
          BY <2>1, <4>2
        <4> HIDE DEF g, a, n, Upto
        <4>. QED  BY <1>1, <4>1, <4>2, <4>3
      <3>. QED  BY <3>1, <3>2
    <2>. QED  BY <2>3
  <1> HIDE DEF T
  <1>4. n \in T
    BY <1>1, <1>2, <1>3, Induction
  <1>5. PICK f : Upto(n, f)
    BY <1>4 DEF T
  <1> DEFINE g == [i \in 1..(n + 1) |-> f[i]]
  <1>6. \A i \in 1..(n + 1) : g[i] = IF i > n THEN <<>> ELSE ss[i] \o g[i + 1]
    <2> SUFFICES ASSUME NEW i \in 1..(n + 1) PROVE g[i] = IF i > n THEN <<>> ELSE ss[i] \o g[i + 1]
      OBVIOUS
    <2>1. i \in (n + 1 - n)..(n + 1)
      BY <1>1
    <2>2. f[i] = IF i > n THEN <<>> ELSE ss[i] \o f[i + 1]
      BY <1>5, <2>1
    <2>3. g[i] = f[i] /\ (i <= n => g[i + 1] = f[i + 1])
      BY <1>1
    <2> HIDE DEF g, n, Upto
    <2>. QED  BY <1>1, <2>2, <2>3
  <1>7. g = [i \in 1..(n + 1) |-> g[i]]
    OBVIOUS
  <1> HIDE DEF g
  <1>8. g = [i \in 1..(n + 1) |-> IF i > n THEN <<>> ELSE ss[i] \o g[i + 1]]
    BY <1>6, <1>7
  <1>. QED  BY <1>8 DEF Tailing

LEMMA TailsAre ==
    ASSUME NEW ss \in Seq(Bytes)
    PROVE  /\ Len(ss) \in Nat
           /\ Joined(ss) = Tails(ss)[1]
           /\ Tails(ss)[Len(ss) + 1] = <<>>
           /\ \A i \in 1..Len(ss) : Tails(ss)[i] = ss[i] \o Tails(ss)[i + 1]
           /\ \A i \in 1..(Len(ss) + 1) : Tails(ss)[i] \in Bytes
  <1> DEFINE n == Len(ss)
             f == Tails(ss)
  <1>1. n \in Nat
    BY LenProperties
  <1>2. Tailing(ss, f)
    BY TailsExist DEF Tails
  <1>3. f = CHOOSE g : g = [i \in 1..(Len(ss) + 1) |-> IF i > Len(ss) THEN <<>> ELSE ss[i] \o g[i + 1]]
    BY DEF Tails, Tailing
  <1>4. Joined(ss) = f[1]
    BY <1>3 DEF Joined
  <1>5. f = [i \in 1..(n + 1) |-> IF i > n THEN <<>> ELSE ss[i] \o f[i + 1]]
    BY <1>2 DEF Tailing
  <1> HIDE DEF f
  <1>6. \A i \in 1..(n + 1) : f[i] = IF i > n THEN <<>> ELSE ss[i] \o f[i + 1]
    BY <1>5
  <1> DEFINE T == {k \in Nat : k <= n => f[n + 1 - k] \in Bytes}
  <1>7. 0 \in T
    <2>1. f[n + 1] = <<>> /\ n + 1 - 0 = n + 1
      BY <1>1, <1>6
    <2>2. <<>> \in Bytes
      BY EmptySeq DEF Bytes
    <2> HIDE DEF n
    <2>. QED  BY <2>1, <2>2
  <1>8. ASSUME NEW k \in Nat \ {0}, k - 1 \in T PROVE k \in T
    <2> SUFFICES ASSUME k <= n PROVE f[n + 1 - k] \in Bytes
      OBVIOUS
    <2> DEFINE i == n + 1 - k
    <2>1. i \in 1..n /\ i + 1 = n + 1 - (k - 1) /\ k - 1 <= n /\ i \in 1..(n + 1) /\ ~ (i > n)
      BY <1>1
    <2>2. f[i + 1] \in Bytes
      BY <1>8, <2>1
    <2>3. ss[i] \in Bytes
      BY <2>1, ElementOfSeq
    <2>4. f[i] = ss[i] \o f[i + 1]
      BY <1>6, <2>1
    <2> HIDE DEF i
    <2>5. ss[i] \o f[i + 1] \in Bytes
      BY <2>2, <2>3, ConcatProperties DEF Bytes
    <2>. QED  BY <2>4, <2>5 DEF i
  <1> HIDE DEF T
  <1>9. \A i \in 1..(n + 1) : f[i] \in Bytes
    <2> SUFFICES ASSUME NEW i \in 1..(n + 1) PROVE f[i] \in Bytes
      OBVIOUS
    <2>1. n + 1 - i \in Nat /\ n + 1 - i <= n /\ n + 1 - (n + 1 - i) = i
      BY <1>1
    <2>2. n + 1 - i \in T
      BY <2>1, <1>7, <1>8, Induction
    <2>. QED  BY <2>1, <2>2 DEF T
  <1>10. f[n + 1] = <<>>
    <2>1. n + 1 \in 1..(n + 1) /\ n + 1 > n
      BY <1>1
    <2>. QED  BY <1>6, <2>1
  <1>11. \A i \in 1..n : f[i] = ss[i] \o f[i + 1]
    <2>1. \A i \in 1..n : i \in 1..(n + 1) /\ ~ (i > n)
      BY <1>1
    <2>. QED  BY <1>6, <2>1
  <1>. QED  BY <1>1, <1>4, <1>9, <1>10, <1>11 DEF f

-----------------------------------------------------------------------------
(* Bytes put together and cut.                                             *)

LEMMA Cat ==
    ASSUME NEW u \in Bytes, NEW v \in Bytes
    PROVE  /\ u \o v \in Bytes /\ Len(u \o v) = Len(u) + Len(v)
           /\ Len(u) \in Nat /\ Len(v) \in Nat
           /\ \A i \in 1..Len(u) : (u \o v)[i] = u[i]
           /\ \A i \in 1..Len(v) : (u \o v)[Len(u) + i] = v[i]
  <1>1. Len(u) \in Nat /\ Len(v) \in Nat
    BY LenProperties DEF Bytes
  <1>2. /\ u \o v \in Bytes /\ Len(u \o v) = Len(u) + Len(v)
        /\ \A i \in 1..(Len(u) + Len(v)) : (u \o v)[i] = IF i <= Len(u) THEN u[i] ELSE v[i - Len(u)]
    BY ConcatProperties DEF Bytes
  <1>3. ASSUME NEW i \in 1..Len(u) PROVE (u \o v)[i] = u[i]
    <2>1. i \in 1..(Len(u) + Len(v)) /\ i <= Len(u)
      BY <1>1
    <2>. QED  BY <1>2, <2>1
  <1>4. ASSUME NEW i \in 1..Len(v) PROVE (u \o v)[Len(u) + i] = v[i]
    <2>1. Len(u) + i \in 1..(Len(u) + Len(v)) /\ ~ (Len(u) + i <= Len(u)) /\ Len(u) + i - Len(u) = i
      BY <1>1
    <2>. QED  BY <1>2, <2>1
  <1>. QED  BY <1>1, <1>2, <1>3, <1>4

LEMMA CatNone ==
    ASSUME NEW u \in Bytes
    PROVE  u \o <<>> = u /\ <<>> \o u = u /\ <<>> \in Bytes /\ Len(<<>>) = 0 /\ (u # <<>> => Len(u) > 0)
  <1>1. u \o <<>> = u /\ <<>> \o u = u
    BY ConcatEmptySeq DEF Bytes
  <1>. QED  BY <1>1, EmptySeq DEF Bytes

Assoc(u, v, w) == (u \o v) \o w = u \o (v \o w)

LEMMA CatThree ==
    ASSUME NEW u \in Bytes, NEW v \in Bytes, NEW w \in Bytes
    PROVE  Assoc(u, v, w)
  BY ConcatAssociative DEF Bytes, Assoc

Assoc4(u, v, w, x) == ((u \o v) \o w) \o x = u \o (v \o (w \o x))

LEMMA CatFour ==
    ASSUME NEW u \in Bytes, NEW v \in Bytes, NEW w \in Bytes, NEW x \in Bytes
    PROVE  Assoc4(u, v, w, x)
  <1>1. PICK y \in Bytes : y = u \o v
    BY Cat
  <1>2. PICK z \in Bytes : z = w \o x
    BY Cat
  <1>3. Assoc(y, w, x) /\ Assoc(u, v, z)
    BY CatThree
  <1>4. (y \o w) \o x = y \o z /\ y \o z = u \o (v \o z)
    BY <1>1, <1>2, <1>3 DEF Assoc
  <1>. QED  BY <1>1, <1>2, <1>4 DEF Assoc4

LEMMA CatCancel ==
    ASSUME NEW u \in Bytes, NEW v \in Bytes, NEW w \in Bytes, u \o v = u \o w
    PROVE  v = w
  <1>1. \A s, t, x \in Seq(Byte) : s \o t = s \o x => t = x
    BY ConcatSimplifications
  <1>. QED  BY <1>1 DEF Bytes

LEMMA Split ==
    ASSUME NEW s \in Bytes, NEW n \in 0..Len(s)
    PROVE  /\ SubSeq(s, 1, n) \in Bytes /\ Len(SubSeq(s, 1, n)) = n
           /\ \A i \in 1..n : SubSeq(s, 1, n)[i] = s[i]
           /\ From(s, n + 1) \in Bytes /\ Len(From(s, n + 1)) = Len(s) - n
           /\ SubSeq(s, 1, n) \o From(s, n + 1) = s
  <1>1. Len(s) \in Nat /\ n \in Nat /\ s \in Seq(Byte)
    BY LenProperties DEF Bytes
  <1>2. \A i \in 1..Len(s) : s[i] \in Byte
    BY <1>1, ElementOfSeq
  <1>3. /\ SubSeq(s, 1, n) \in Seq(Byte) /\ Len(SubSeq(s, 1, n)) = n
        /\ \A i \in 1..n : SubSeq(s, 1, n)[i] = s[i]
    <2>1. \A i \in 1..n : s[i] \in Byte /\ 1 + i - 1 = i
      BY <1>1, <1>2
    <2>2. /\ SubSeq(s, 1, n) \in Seq(Byte)
          /\ Len(SubSeq(s, 1, n)) = (IF 1 <= n THEN n - 1 + 1 ELSE 0)
          /\ \A i \in 1..(n - 1 + 1) : SubSeq(s, 1, n)[i] = s[1 + i - 1]
      BY <1>1, <2>1, SubSeqProperties
    <2>3. n - 1 + 1 = n /\ (~ (1 <= n) => n = 0)
      BY <1>1
    <2>. QED  BY <2>1, <2>2, <2>3
  <1>4. From(s, n + 1) \in Seq(Byte) /\ Len(From(s, n + 1)) = Len(s) - n
    <2>1. \A i \in (n + 1)..Len(s) : s[i] \in Byte
      BY <1>1, <1>2
    <2>2. /\ From(s, n + 1) \in Seq(Byte)
          /\ Len(From(s, n + 1)) = IF n + 1 <= Len(s) THEN Len(s) - (n + 1) + 1 ELSE 0
      BY <1>1, <2>1, SubSeqProperties DEF From
    <2>. QED  BY <1>1, <2>2
  <1>5. SubSeq(s, 1, n) \o From(s, n + 1) = s
    <2>1. SubSeq(s, 1, n) \o SubSeq(s, n + 1, Len(s)) = SubSeq(s, 1, Len(s))
      <3>1. /\ 1 \in 1..(Len(s) + 1) /\ n \in (1 - 1)..Len(s) /\ Len(s) \in n..Len(s)
        BY <1>1
      <3>. QED  BY <1>1, <3>1, ConcatAdjacentSubSeq
    <2>. QED  BY <1>1, <2>1, SubSeqFull DEF From
  <1>. QED  BY <1>3, <1>4, <1>5 DEF Bytes

Same(s, t, u, v) == s \o t = u \o v
Joins(s, t, u) == u = s \o t

LEMMA Longer ==
    ASSUME NEW s \in Bytes, NEW t \in Bytes, NEW u \in Bytes, NEW v \in Bytes,
           Same(s, t, u, v), Len(u) <= Len(s)
    PROVE  /\ From(s, Len(u) + 1) \in Bytes /\ Len(From(s, Len(u) + 1)) = Len(s) - Len(u)
           /\ Joins(u, From(s, Len(u) + 1), s)
           /\ Joins(From(s, Len(u) + 1), t, v)
  <1> DEFINE w == From(s, Len(u) + 1)
             x == SubSeq(s, 1, Len(u))
  <1>1. Len(s) \in Nat /\ Len(u) \in Nat /\ Len(u) \in 0..Len(s)
    BY LenProperties DEF Bytes
  <1>2. /\ x \in Bytes /\ w \in Bytes /\ Len(x) = Len(u) /\ Len(w) = Len(s) - Len(u) /\ x \o w = s
        /\ \A i \in 1..Len(u) : x[i] = s[i]
    BY <1>1, Split
  <1> HIDE DEF w, x
  <1>3. \A i \in 1..Len(u) : s[i] = u[i]
    <2> SUFFICES ASSUME NEW i \in 1..Len(u) PROVE s[i] = u[i]
      OBVIOUS
    <2>1. i \in 1..Len(s)
      BY <1>1
    <2>2. (s \o t)[i] = s[i] /\ (u \o v)[i] = u[i]
      BY <2>1, Cat
    <2>. QED  BY <2>2 DEF Same
  <1>4. x = u
    <2>1. x \in Seq(Byte) /\ u \in Seq(Byte) /\ \A i \in 1..Len(x) : x[i] = u[i]
      BY <1>2, <1>3 DEF Bytes
    <2>. QED  BY <1>2, <2>1, SeqEqual
  <1>5. s = u \o w
    BY <1>2, <1>4
  <1>6. u \o (w \o t) = u \o v
    <2>1. Assoc(u, w, t)
      BY <1>2, CatThree
    <2>2. (u \o w) \o t = u \o v
      BY <1>5 DEF Same
    <2>. QED  BY <2>1, <2>2 DEF Assoc
  <1>7. w \o t \in Bytes
    BY <1>2, Cat
  <1>8. w \o t = v
    BY <1>6, <1>7, CatCancel
  <1>. QED  BY <1>2, <1>5, <1>8 DEF w, Joins

LEMMA Cut ==
    ASSUME NEW u \in Bytes, NEW v \in Bytes
    PROVE  SubSeq(u \o v, 1, Len(u)) = u /\ From(u \o v, Len(u) + 1) = v
  <1> DEFINE s == u \o v
             x == SubSeq(s, 1, Len(u))
             y == From(s, Len(u) + 1)
  <1>1. s \in Bytes /\ Len(s) = Len(u) + Len(v) /\ Len(u) \in Nat /\ Len(v) \in Nat
        /\ \A i \in 1..Len(u) : s[i] = u[i]
    BY Cat
  <1>2. s = u \o v
    OBVIOUS
  <1> HIDE DEF s
  <1>3. /\ x \in Bytes /\ y \in Bytes /\ Len(x) = Len(u) /\ x \o y = s
        /\ \A i \in 1..Len(u) : x[i] = s[i]
    <2>1. Len(u) \in 0..Len(s)
      BY <1>1
    <2>. QED  BY <1>1, <2>1, Split
  <1> HIDE DEF x, y
  <1>4. x = u
    <2>1. x \in Seq(Byte) /\ u \in Seq(Byte) /\ \A i \in 1..Len(x) : x[i] = u[i]
      BY <1>1, <1>3 DEF Bytes
    <2>. QED  BY <1>3, <2>1, SeqEqual
  <1>5. y = v
    BY <1>2, <1>3, <1>4, CatCancel
  <1>. QED  BY <1>4, <1>5 DEF x, y, s

LEMMA Middle ==
    ASSUME NEW u \in Bytes, NEW v \in Bytes, NEW w \in Bytes, NEW x, NEW s, Joins(v, w, x), Joins(u, x, s)
    PROVE  SubSeq(s, Len(u) + 1, Len(u) + Len(v)) = v
  <1> DEFINE m == Len(u)
             n == Len(v)
             y == SubSeq(s, m + 1, m + n)
  <1>1. /\ x \in Bytes /\ Len(x) = n + Len(w) /\ m \in Nat /\ n \in Nat /\ Len(w) \in Nat
        /\ \A i \in 1..n : x[i] = v[i]
    BY Cat DEF Joins
  <1>2. s \in Bytes /\ Len(s) = m + Len(x) /\ \A i \in 1..Len(x) : s[m + i] = x[i]
    <2>1. s = u \o x /\ x \in Bytes
      BY <1>1 DEF Joins
    <2>2. /\ u \o x \in Bytes /\ Len(u \o x) = Len(u) + Len(x)
          /\ \A i \in 1..Len(x) : (u \o x)[Len(u) + i] = x[i]
      BY ONLY u \in Bytes, <2>1, Cat
    <2>. QED  BY <2>1, <2>2
  <1> HIDE DEF m, n
  <1>3. ASSUME NEW i \in 1..n PROVE s[m + 1 + i - 1] = v[i]
    <2>1. i \in 1..Len(x) /\ m + 1 + i - 1 = m + i
      BY <1>1
    <2>. QED  BY <1>1, <1>2, <2>1
  <1>4. \A i \in (m + 1)..(m + n) : s[i] \in Byte
    <2>1. s \in Seq(Byte) /\ \A i \in (m + 1)..(m + n) : i \in 1..Len(s)
      BY <1>1, <1>2 DEF Bytes
    <2>. QED  BY <2>1, ElementOfSeq
  <1>5. y \in Seq(Byte) /\ Len(y) = n /\ \A i \in 1..n : y[i] = v[i]
    <2>1. m + 1 \in Int /\ m + n \in Int /\ (m + n) - (m + 1) + 1 = n /\ (~ (m + 1 <= m + n) => n = 0)
      BY <1>1
    <2>2. PICK a \in Int : a = m + 1
      BY <2>1
    <2>3. PICK b \in Int : b = m + n
      BY <2>1
    <2>4. /\ SubSeq(s, a, b) \in Seq(Byte)
          /\ Len(SubSeq(s, a, b)) = (IF a <= b THEN b - a + 1 ELSE 0)
          /\ \A i \in 1..(b - a + 1) : SubSeq(s, a, b)[i] = s[a + i - 1]
      <3>1. \A i \in a..b : s[i] \in Byte
        BY <1>4, <2>2, <2>3
      <3>. QED  BY ONLY <3>1, a \in Int, b \in Int, SubSeqProperties
    <2>5. y = SubSeq(s, a, b)
      BY <2>2, <2>3
    <2> HIDE DEF y
    <2>. QED  BY <1>3, <2>1, <2>2, <2>3, <2>4, <2>5
  <1> HIDE DEF y
  <1>6. y = v
    BY <1>5, SeqEqual DEF Bytes, n
  <1>. QED  BY <1>6 DEF y, m, n

(* The bytes n on are read: what was read and is to come stays the same.   *)
LEMMA Read ==
    ASSUME NEW s \in Bytes, NEW t \in Bytes, NEW n \in 0..Len(t)
    PROVE  /\ SubSeq(t, 1, n) \in Bytes /\ From(t, n + 1) \in Bytes
           /\ s \o SubSeq(t, 1, n) \in Bytes /\ Len(s \o SubSeq(t, 1, n)) = Len(s) + n
           /\ (s \o SubSeq(t, 1, n)) \o From(t, n + 1) = s \o t
  <1>1. /\ SubSeq(t, 1, n) \in Bytes /\ From(t, n + 1) \in Bytes /\ Len(SubSeq(t, 1, n)) = n
        /\ SubSeq(t, 1, n) \o From(t, n + 1) = t
    BY Split
  <1>2. s \o SubSeq(t, 1, n) \in Bytes /\ Len(s \o SubSeq(t, 1, n)) = Len(s) + n
    BY <1>1, Cat
  <1>3. Assoc(s, SubSeq(t, 1, n), From(t, n + 1))
    BY <1>1, CatThree
  <1>. QED  BY <1>1, <1>2, <1>3 DEF Assoc

-----------------------------------------------------------------------------
(* The ends of lines and of heads, which the server looks for.             *)

Number1(n) == << <<"number", n>> >>

LEMMA OneByte ==
    ASSUME NEW c \in Byte
    PROVE  <<c>> \in Bytes /\ Len(<<c>>) = 1 /\ <<c>>[1] = c
  BY DEF Bytes

LEMMA LineBytes ==
    /\ CR \in Byte /\ LF \in Byte /\ CR # LF
    /\ CRLF \in Bytes /\ Len(CRLF) = 2 /\ CRLF[1] = CR /\ CRLF[2] = LF
    /\ EmptyLine \in Bytes /\ Len(EmptyLine) = 4
    /\ EmptyLine[1] = CR /\ EmptyLine[2] = LF /\ EmptyLine[3] = CR /\ EmptyLine[4] = LF
  <1>1. CR \in Byte /\ LF \in Byte /\ CR # LF
    BY DEF CR, LF, Byte
  <1>2. CRLF \in Bytes /\ Len(CRLF) = 2 /\ CRLF[1] = CR /\ CRLF[2] = LF
    BY <1>1 DEF CRLF, Bytes
  <1>3. /\ CRLF \o CRLF \in Bytes /\ Len(CRLF \o CRLF) = Len(CRLF) + Len(CRLF)
        /\ \A i \in 1..Len(CRLF) : (CRLF \o CRLF)[i] = CRLF[i]
        /\ \A i \in 1..Len(CRLF) : (CRLF \o CRLF)[Len(CRLF) + i] = CRLF[i]
    BY ONLY <1>2, Cat
  <1>4. EmptyLine = CRLF \o CRLF
    BY DEF EmptyLine
  <1>5. /\ EmptyLine[1] = CRLF[1] /\ EmptyLine[2] = CRLF[2]
        /\ EmptyLine[2 + 1] = CRLF[1] /\ EmptyLine[2 + 2] = CRLF[2]
    BY <1>2, <1>3, <1>4
  <1>. QED  BY <1>1, <1>2, <1>3, <1>4, <1>5

LEMMA HeadIs ==
    ASSUME NEW k \in Nat
    PROVE  /\ HeadBytes(k) \in Bytes /\ Len(HeadBytes(k)) = 5
           /\ HeadBytes(k)[1] = <<"head", k>> /\ HeadBytes(k)[1] # CR
           /\ \A i \in 1..4 : HeadBytes(k)[i + 1] = EmptyLine[i]
  <1> DEFINE c == <<"head", k>>
  <1>1. c \in Byte /\ c # CR
    BY DEF Byte, CR
  <1> HIDE DEF c
  <1>2. <<c>> \in Bytes /\ Len(<<c>>) = 1 /\ <<c>>[1] = c
    BY <1>1, OneByte
  <1> DEFINE one == <<c>>
  <1>2a. one \in Bytes /\ Len(one) = 1 /\ one[1] = c /\ EmptyLine \in Bytes /\ Len(EmptyLine) = 4
    BY <1>2, LineBytes
  <1> HIDE DEF one
  <1>3. /\ one \o EmptyLine \in Bytes /\ Len(one \o EmptyLine) = Len(one) + Len(EmptyLine)
        /\ \A i \in 1..Len(one) : (one \o EmptyLine)[i] = one[i]
        /\ \A i \in 1..Len(EmptyLine) : (one \o EmptyLine)[Len(one) + i] = EmptyLine[i]
    BY ONLY <1>2a, Cat
  <1>4. HeadBytes(k) = one \o EmptyLine
    BY DEF HeadBytes, c, one
  <1>5. /\ HeadBytes(k) \in Bytes /\ Len(HeadBytes(k)) = 5 /\ HeadBytes(k)[1] = c
        /\ \A i \in 1..4 : HeadBytes(k)[i + 1] = EmptyLine[i]
    BY <1>2a, <1>3, <1>4
  <1>. QED  BY <1>1, <1>5 DEF c

(* A line with one byte before its end: the number on it, or a trailer.    *)
LEMMA LineIs ==
    ASSUME NEW c \in Byte
    PROVE  /\ <<c>> \o CRLF \in Bytes /\ Len(<<c>> \o CRLF) = 3
           /\ (<<c>> \o CRLF)[1] = c /\ (<<c>> \o CRLF)[2] = CR /\ (<<c>> \o CRLF)[3] = LF
  <1> DEFINE one == <<c>>
  <1>1. one \in Bytes /\ Len(one) = 1 /\ one[1] = c /\ CRLF \in Bytes /\ Len(CRLF) = 2
    BY OneByte, LineBytes
  <1> HIDE DEF one
  <1>2. /\ one \o CRLF \in Bytes /\ Len(one \o CRLF) = Len(one) + Len(CRLF)
        /\ \A i \in 1..Len(one) : (one \o CRLF)[i] = one[i]
        /\ \A i \in 1..Len(CRLF) : (one \o CRLF)[Len(one) + i] = CRLF[i]
    BY ONLY <1>1, Cat
  <1>3. /\ (one \o CRLF)[1] = one[1]
        /\ (one \o CRLF)[1 + 1] = CRLF[1] /\ (one \o CRLF)[1 + 2] = CRLF[2]
    BY <1>1, <1>2
  <1>. QED  BY <1>1, <1>2, <1>3, LineBytes DEF one

LEMMA SameFirst ==
    ASSUME NEW s \in Bytes, NEW t \in Bytes, NEW u \in Bytes, NEW v \in Bytes, Same(s, t, u, v)
    PROVE  \A i \in 1..Len(s) : i <= Len(u) => s[i] = u[i]
  <1> SUFFICES ASSUME NEW i \in 1..Len(s), i <= Len(u) PROVE s[i] = u[i]
    OBVIOUS
  <1>1. Len(s) \in Nat /\ Len(u) \in Nat /\ (s \o t)[i] = s[i]
    BY Cat
  <1>2. i \in 1..Len(u)
    BY <1>1
  <1>3. (u \o v)[i] = u[i]
    BY <1>2, Cat
  <1>. QED  BY <1>1, <1>3 DEF Same

Occurs(p, s, i) == \A m \in 1..Len(p) : s[i + m - 1] = p[m]
Absent(p, s) == \A j \in 1..(Len(s) + 1 - Len(p)) : ~ Occurs(p, s, j)

LEMMA OccursIs ==
    ASSUME NEW s \in Bytes, NEW p \in Bytes, Len(p) > 0,
           NEW i \in 1..(Len(s) + 1 - Len(p))
    PROVE  SubSeq(s, i, i + Len(p) - 1) = p <=> Occurs(p, s, i)
  <1> DEFINE n == Len(p)
             x == SubSeq(s, i, i + n - 1)
  <1>1. Len(s) \in Nat /\ n \in Nat /\ i \in Nat /\ s \in Seq(Byte) /\ p \in Seq(Byte)
    BY LenProperties DEF Bytes
  <1>2. \A j \in i..(i + n - 1) : s[j] \in Byte
    <2>1. \A j \in i..(i + n - 1) : j \in 1..Len(s)
      BY <1>1
    <2>. QED  BY <1>1, <2>1, ElementOfSeq
  <1>3. /\ x \in Seq(Byte) /\ Len(x) = n
        /\ \A m \in 1..n : x[m] = s[i + m - 1]
    <2>1. i \in Int /\ i + n - 1 \in Int /\ i <= i + n - 1 /\ (i + n - 1) - i + 1 = n
      BY <1>1
    <2> HIDE DEF n
    <2>2. /\ x \in Seq(Byte)
          /\ Len(x) = (IF i <= i + n - 1 THEN (i + n - 1) - i + 1 ELSE 0)
          /\ \A m \in 1..((i + n - 1) - i + 1) : x[m] = s[i + m - 1]
      BY <1>2, <2>1, SubSeqProperties
    <2> HIDE DEF x
    <2>. QED  BY <2>1, <2>2
  <1> HIDE DEF x
  <1>4. x = p => Occurs(p, s, i)
    BY <1>3 DEF Occurs
  <1>5. Occurs(p, s, i) => x = p
    <2> SUFFICES ASSUME Occurs(p, s, i) PROVE x = p
      OBVIOUS
    <2>1. \A m \in 1..Len(x) : x[m] = p[m]
      BY <1>3 DEF Occurs
    <2>. QED  BY <1>1, <1>3, <2>1, SeqEqual
  <1>. QED  BY <1>4, <1>5 DEF x

LEMMA FindIs ==
    ASSUME NEW s \in Bytes, NEW p \in Bytes, Len(p) > 0,
           NEW i \in 1..(Len(s) + 1 - Len(p)), Occurs(p, s, i),
           \A j \in 1..(i - 1) : ~ Occurs(p, s, j)
    PROVE  Find(s, p) = i
  <1> DEFINE found == {j \in 1..(Len(s) + 1 - Len(p)) : SubSeq(s, j, j + Len(p) - 1) = p}
  <1>1. Len(s) \in Nat /\ Len(p) \in Nat
    BY LenProperties DEF Bytes
  <1>2. \A j : j \in found <=> j \in 1..(Len(s) + 1 - Len(p)) /\ Occurs(p, s, j)
    BY OccursIs
  <1>3. found \subseteq 1..(Len(s) + 1 - Len(p))
    OBVIOUS
  <1>4. Find(s, p) = IF found = {} THEN 0 ELSE CHOOSE j \in found : \A m \in found : j <= m
    BY DEF Find
  <1> HIDE DEF found
  <1>5. i \in found
    BY <1>2
  <1>6. \A m \in found : i <= m
    <2> SUFFICES ASSUME NEW m \in found PROVE i <= m
      OBVIOUS
    <2>1. m \in 1..(Len(s) + 1 - Len(p)) /\ Occurs(p, s, m)
      BY <1>2
    <2>2. m \notin 1..(i - 1)
      BY <2>1
    <2>. QED  BY <1>1, <2>1, <2>2
  <1>7. \A j \in found : (\A m \in found : j <= m) => j = i
    BY <1>1, <1>3, <1>5, <1>6
  <1>8. (CHOOSE j \in found : \A m \in found : j <= m) = i
    BY <1>5, <1>6, <1>7
  <1>. QED  BY <1>4, <1>5, <1>8

LEMMA FindNone ==
    ASSUME NEW s \in Bytes, NEW p \in Bytes, Len(p) > 0, Absent(p, s)
    PROVE  Find(s, p) = 0
  <1>1. {j \in 1..(Len(s) + 1 - Len(p)) : SubSeq(s, j, j + Len(p) - 1) = p} = {}
    BY OccursIs DEF Absent
  <1>. QED  BY <1>1 DEF Find

(* Where they are found, in the bytes s read so far of what was sent.      *)

LEMMA FindInHead ==
    ASSUME NEW s \in Bytes, NEW t \in Bytes, NEW v \in Bytes, NEW k \in Nat,
           s \o t = HeadBytes(k) \o v
    PROVE  Find(s, EmptyLine) = IF Len(s) >= 5 THEN 2 ELSE 0
  <1> DEFINE h == HeadBytes(k)
  <1>1. h \in Bytes /\ Len(h) = 5 /\ h[1] # CR /\ \A i \in 1..4 : h[i + 1] = EmptyLine[i]
    BY HeadIs
  <1> HIDE DEF h
  <1>2. Same(s, t, h, v)
    BY DEF h, Same
  <1>3. \A i \in 1..Len(s) : i <= 5 => s[i] = h[i]
    <2>1. \A i \in 1..Len(s) : i <= Len(h) => s[i] = h[i]
      BY ONLY s \in Bytes, t \in Bytes, v \in Bytes, <1>1, <1>2, SameFirst
    <2>. QED  BY <1>1, <2>1
  <1>4. Len(s) \in Nat
    BY Cat
  <1>5. Len(s) >= 1 => ~ Occurs(EmptyLine, s, 1)
    <2>1. Len(s) >= 1 => s[1] = h[1]
      BY <1>3, <1>4
    <2>2. Occurs(EmptyLine, s, 1) => s[1 + 1 - 1] = EmptyLine[1]
      BY LineBytes DEF Occurs
    <2>. QED  BY <1>1, <2>1, <2>2, LineBytes
  <1>6. CASE Len(s) >= 5
    <2>1. Occurs(EmptyLine, s, 2)
      <3> SUFFICES ASSUME NEW m \in 1..4 PROVE s[2 + m - 1] = EmptyLine[m]
        BY LineBytes DEF Occurs
      <3>1. m + 1 \in 1..Len(s) /\ m + 1 <= 5 /\ 2 + m - 1 = m + 1
        BY <1>4, <1>6
      <3>2. s[m + 1] = h[m + 1] /\ h[m + 1] = EmptyLine[m]
        BY <1>1, <1>3, <3>1
      <3>. QED  BY <3>1, <3>2
    <2>2. \A j \in 1..(2 - 1) : ~ Occurs(EmptyLine, s, j)
      BY <1>5, <1>6
    <2>3. 2 \in 1..(Len(s) + 1 - Len(EmptyLine)) /\ Len(EmptyLine) > 0
      BY <1>4, <1>6, LineBytes
    <2>4. Find(s, EmptyLine) = 2
      BY <2>1, <2>2, <2>3, FindIs, LineBytes
    <2>. QED  BY <1>6, <2>4
  <1>7. CASE ~ (Len(s) >= 5)
    <2>1. \A j \in 1..(Len(s) + 1 - Len(EmptyLine)) : j = 1 /\ Len(s) >= 1
      BY <1>4, <1>7, LineBytes
    <2>2. Absent(EmptyLine, s) /\ Len(EmptyLine) > 0 /\ EmptyLine \in Bytes
      BY <1>5, <2>1, LineBytes DEF Absent
    <2>3. Find(s, EmptyLine) = 0
      BY <2>2, FindNone
    <2>. QED  BY <1>7, <2>3
  <1>. QED  BY <1>6, <1>7

LEMMA FindInLine ==
    ASSUME NEW s \in Bytes, NEW t \in Bytes, NEW v \in Bytes, NEW c \in Byte, c # CR,
           s \o t = (<<c>> \o CRLF) \o v
    PROVE  /\ Find(s, CRLF) = IF Len(s) >= 3 THEN 2 ELSE 0
           /\ Len(s) >= 1 => s[1] = c
  <1> DEFINE h == <<c>> \o CRLF
  <1>1. h \in Bytes /\ Len(h) = 3 /\ h[1] = c /\ h[2] = CR /\ h[3] = LF
    BY LineIs
  <1> HIDE DEF h
  <1>2. Same(s, t, h, v)
    BY DEF h, Same
  <1>3. \A i \in 1..Len(s) : i <= 3 => s[i] = h[i]
    <2>1. \A i \in 1..Len(s) : i <= Len(h) => s[i] = h[i]
      BY ONLY s \in Bytes, t \in Bytes, v \in Bytes, <1>1, <1>2, SameFirst
    <2>. QED  BY <1>1, <2>1
  <1>4. Len(s) \in Nat
    BY Cat
  <1>5. Len(s) >= 1 => s[1] = c /\ ~ Occurs(CRLF, s, 1)
    <2>1. Len(s) >= 1 => s[1] = h[1]
      BY <1>3, <1>4
    <2>2. Occurs(CRLF, s, 1) => s[1 + 1 - 1] = CRLF[1]
      BY LineBytes DEF Occurs
    <2>. QED  BY <1>1, <2>1, <2>2, LineBytes
  <1>6. CASE Len(s) >= 3
    <2>1. Occurs(CRLF, s, 2)
      <3>1. s[2] = CR /\ s[3] = LF
        BY <1>1, <1>3, <1>4, <1>6
      <3>2. s[2 + 1 - 1] = CRLF[1] /\ s[2 + 2 - 1] = CRLF[2]
        BY <3>1, LineBytes
      <3>. QED  BY <3>2, LineBytes DEF Occurs
    <2>2. \A j \in 1..(2 - 1) : ~ Occurs(CRLF, s, j)
      BY <1>5, <1>6
    <2>3. 2 \in 1..(Len(s) + 1 - Len(CRLF)) /\ Len(CRLF) > 0
      BY <1>4, <1>6, LineBytes
    <2>4. Find(s, CRLF) = 2
      BY <2>1, <2>2, <2>3, FindIs, LineBytes
    <2>. QED  BY <1>5, <1>6, <2>4
  <1>7. CASE ~ (Len(s) >= 3)
    <2>1. \A j \in 1..(Len(s) + 1 - Len(CRLF)) : j = 1 /\ Len(s) >= 1
      BY <1>4, <1>7, LineBytes
    <2>2. Absent(CRLF, s) /\ Len(CRLF) > 0 /\ CRLF \in Bytes
      BY <1>5, <2>1, LineBytes DEF Absent
    <2>3. Find(s, CRLF) = 0
      BY <2>2, FindNone
    <2>. QED  BY <1>5, <1>7, <2>3
  <1>. QED  BY <1>6, <1>7

LEMMA FindAtEnd ==
    ASSUME NEW s \in Bytes, NEW t \in Bytes, NEW v \in Bytes, s \o t = CRLF \o v
    PROVE  Find(s, CRLF) = IF Len(s) >= 2 THEN 1 ELSE 0
  <1>1. \A i \in 1..Len(s) : i <= 2 => s[i] = CRLF[i]
    <2>1. Same(s, t, CRLF, v) /\ CRLF \in Bytes
      BY LineBytes DEF Same
    <2>2. \A i \in 1..Len(s) : i <= Len(CRLF) => s[i] = CRLF[i]
      BY ONLY s \in Bytes, t \in Bytes, v \in Bytes, <2>1, SameFirst
    <2>. QED  BY <2>2, LineBytes
  <1>2. Len(s) \in Nat
    BY Cat
  <1>3. CASE Len(s) >= 2
    <2>1. Occurs(CRLF, s, 1)
      <3>1. s[1] = CRLF[1] /\ s[2] = CRLF[2]
        BY <1>1, <1>2, <1>3
      <3>2. s[1 + 1 - 1] = CRLF[1] /\ s[1 + 2 - 1] = CRLF[2]
        BY <3>1
      <3>. QED  BY <3>2, LineBytes DEF Occurs
    <2>2. 1 \in 1..(Len(s) + 1 - Len(CRLF)) /\ Len(CRLF) > 0 /\ 1..(1 - 1) = {}
      BY <1>2, <1>3, LineBytes
    <2>3. Find(s, CRLF) = 1
      BY <2>1, <2>2, FindIs, LineBytes
    <2>. QED  BY <1>3, <2>3
  <1>4. CASE ~ (Len(s) >= 2)
    <2>1. Absent(CRLF, s) /\ Len(CRLF) > 0
      BY <1>2, <1>4, LineBytes DEF Absent
    <2>2. Find(s, CRLF) = 0
      BY <2>1, FindNone, LineBytes
    <2>. QED  BY <1>4, <2>2
  <1>. QED  BY <1>3, <1>4

LEMMA FindNoTrailer ==
    ASSUME NEW s \in Bytes, NEW t \in Bytes, NEW v \in Bytes, s \o t = EmptyLine \o v
    PROVE  Find(s, EmptyLine) = IF Len(s) >= 4 THEN 1 ELSE 0
  <1>1. \A i \in 1..Len(s) : i <= 4 => s[i] = EmptyLine[i]
    <2>1. Same(s, t, EmptyLine, v) /\ EmptyLine \in Bytes
      BY LineBytes DEF Same
    <2>2. \A i \in 1..Len(s) : i <= Len(EmptyLine) => s[i] = EmptyLine[i]
      BY ONLY s \in Bytes, t \in Bytes, v \in Bytes, <2>1, SameFirst
    <2>. QED  BY <2>2, LineBytes
  <1>2. Len(s) \in Nat
    BY Cat
  <1>3. CASE Len(s) >= 4
    <2>1. Occurs(EmptyLine, s, 1)
      <3> SUFFICES ASSUME NEW m \in 1..4 PROVE s[1 + m - 1] = EmptyLine[m]
        BY LineBytes DEF Occurs
      <3>1. m \in 1..Len(s) /\ m <= 4 /\ 1 + m - 1 = m
        BY <1>2, <1>3
      <3>. QED  BY <1>1, <3>1
    <2>2. 1 \in 1..(Len(s) + 1 - Len(EmptyLine)) /\ Len(EmptyLine) > 0 /\ 1..(1 - 1) = {}
      BY <1>2, <1>3, LineBytes
    <2>3. Find(s, EmptyLine) = 1
      BY <2>1, <2>2, FindIs, LineBytes
    <2>. QED  BY <1>3, <2>3
  <1>4. CASE ~ (Len(s) >= 4)
    <2>1. Absent(EmptyLine, s) /\ Len(EmptyLine) > 0
      BY <1>2, <1>4, LineBytes DEF Absent
    <2>2. Find(s, EmptyLine) = 0
      BY <2>1, FindNone, LineBytes
    <2>. QED  BY <1>4, <2>2
  <1>. QED  BY <1>3, <1>4

(* The end of the last chunk's line, a trailer, and an empty line.         *)
TrailerEnd == CRLF \o (Trailer1 \o EmptyLine)

LEMMA TrailerIs ==
    /\ TrailerEnd \in Bytes /\ Len(TrailerEnd) = 7
    /\ TrailerEnd[1] = CR /\ TrailerEnd[2] = LF /\ TrailerEnd[3] = Trailer1[1]
    /\ \A i \in 1..4 : TrailerEnd[i + 3] = EmptyLine[i]
    /\ Trailer1[1] # CR /\ Trailer1[1][1] = "trailer"
    /\ Trailer1 \in Bytes
  <1>1. <<"trailer", 0>> \in Byte
    BY DEF Byte
  <1>2. Trailer1 \in Bytes /\ Len(Trailer1) = 1 /\ Trailer1[1] = <<"trailer", 0>>
    BY <1>1, OneByte DEF Trailer1
  <1>3. Trailer1[1] # CR /\ Trailer1[1][1] = "trailer"
    BY <1>2 DEF CR
  <1> DEFINE x == Trailer1 \o EmptyLine
             y == CRLF \o x
  <1>4. /\ CRLF \in Bytes /\ Len(CRLF) = 2 /\ CRLF[1] = CR /\ CRLF[2] = LF
        /\ EmptyLine \in Bytes /\ Len(EmptyLine) = 4
    BY LineBytes
  <1>5. /\ x \in Bytes /\ Len(x) = Len(Trailer1) + Len(EmptyLine)
        /\ \A i \in 1..Len(Trailer1) : x[i] = Trailer1[i]
        /\ \A i \in 1..Len(EmptyLine) : x[Len(Trailer1) + i] = EmptyLine[i]
    BY ONLY <1>2, <1>4, Cat
  <1>6. /\ Len(x) = 5 /\ x[1] = Trailer1[1]
        /\ \A i \in 1..4 : x[1 + i] = EmptyLine[i]
    BY <1>2, <1>4, <1>5
  <1> HIDE DEF x
  <1>7. /\ y \in Bytes /\ Len(y) = Len(CRLF) + Len(x)
        /\ \A i \in 1..Len(CRLF) : y[i] = CRLF[i]
        /\ \A i \in 1..Len(x) : y[Len(CRLF) + i] = x[i]
    BY ONLY <1>4, <1>5, Cat
  <1> HIDE DEF y
  <1>8. Len(y) = 7 /\ y[1] = CR /\ y[2] = LF /\ \A i \in 1..5 : y[2 + i] = x[i]
    BY <1>4, <1>6, <1>7
  <1>9. y[3] = x[1]
    BY <1>8
  <1>10. ASSUME NEW i \in 1..4 PROVE y[i + 3] = EmptyLine[i]
    <2>1. 1 + i \in 1..5 /\ 2 + (1 + i) = i + 3
      OBVIOUS
    <2>2. y[2 + (1 + i)] = x[1 + i]
      BY <1>8, <2>1
    <2>. QED  BY <1>6, <2>1, <2>2
  <1>. QED  BY <1>2, <1>3, <1>6, <1>7, <1>8, <1>9, <1>10 DEF TrailerEnd, x, y

LEMMA FindTrailer ==
    ASSUME NEW s \in Bytes, NEW t \in Bytes, NEW v \in Bytes, s \o t = TrailerEnd \o v
    PROVE  /\ Find(s, EmptyLine) = IF Len(s) >= 7 THEN 4 ELSE 0
           /\ Len(s) >= 3 => s[3][1] = "trailer"
  <1>1. \A i \in 1..Len(s) : i <= 7 => s[i] = TrailerEnd[i]
    <2>1. Same(s, t, TrailerEnd, v) /\ TrailerEnd \in Bytes
      BY TrailerIs DEF Same
    <2>2. \A i \in 1..Len(s) : i <= Len(TrailerEnd) => s[i] = TrailerEnd[i]
      BY ONLY s \in Bytes, t \in Bytes, v \in Bytes, <2>1, SameFirst
    <2>. QED  BY <2>2, TrailerIs
  <1>2. Len(s) \in Nat
    BY Cat
  <1>3. Len(s) >= 3 => s[1] = CR /\ s[2] = LF /\ s[3] # CR /\ s[3][1] = "trailer"
    BY <1>1, <1>2, TrailerIs
  <1>4. ASSUME NEW j \in 1..3, Len(s) >= 3 PROVE ~ Occurs(EmptyLine, s, j)
    <2>1. CASE j = 1
      <3>1. Occurs(EmptyLine, s, j) => s[1 + 3 - 1] = EmptyLine[3]
        BY <2>1, LineBytes DEF Occurs
      <3>. QED  BY <1>3, <1>4, <3>1, LineBytes
    <2>2. CASE j = 2
      <3>1. Occurs(EmptyLine, s, j) => s[2 + 1 - 1] = EmptyLine[1]
        BY <2>2, LineBytes DEF Occurs
      <3>. QED  BY <1>3, <1>4, <3>1, LineBytes
    <2>3. CASE j = 3
      <3>1. Occurs(EmptyLine, s, j) => s[3 + 1 - 1] = EmptyLine[1]
        BY <2>3, LineBytes DEF Occurs
      <3>. QED  BY <1>3, <1>4, <3>1, LineBytes
    <2>. QED  BY <2>1, <2>2, <2>3
  <1>5. CASE Len(s) >= 7
    <2>1. Occurs(EmptyLine, s, 4)
      <3> SUFFICES ASSUME NEW m \in 1..4 PROVE s[4 + m - 1] = EmptyLine[m]
        BY LineBytes DEF Occurs
      <3>1. m + 3 \in 1..Len(s) /\ m + 3 <= 7 /\ 4 + m - 1 = m + 3
        BY <1>2, <1>5
      <3>2. s[m + 3] = TrailerEnd[m + 3] /\ TrailerEnd[m + 3] = EmptyLine[m]
        BY <1>1, <3>1, TrailerIs
      <3>. QED  BY <3>1, <3>2
    <2>2. \A j \in 1..(4 - 1) : ~ Occurs(EmptyLine, s, j)
      <3>1. Len(s) >= 3 /\ \A j \in 1..(4 - 1) : j \in 1..3
        BY <1>2, <1>5
      <3>. QED  BY <1>4, <3>1
    <2>3. 4 \in 1..(Len(s) + 1 - Len(EmptyLine)) /\ Len(EmptyLine) > 0
      BY <1>2, <1>5, LineBytes
    <2>4. Find(s, EmptyLine) = 4
      BY <2>1, <2>2, <2>3, FindIs, LineBytes
    <2>. QED  BY <1>3, <1>5, <2>4
  <1>6. CASE ~ (Len(s) >= 7)
    <2>1. \A j \in 1..(Len(s) + 1 - Len(EmptyLine)) : j \in 1..3 /\ Len(s) >= 3
      BY <1>2, <1>6, LineBytes
    <2>2. Absent(EmptyLine, s) /\ Len(EmptyLine) > 0 /\ EmptyLine \in Bytes
      BY <1>4, <2>1, LineBytes DEF Absent
    <2>3. Find(s, EmptyLine) = 0
      BY <2>2, FindNone
    <2>. QED  BY <1>3, <1>6, <2>3
  <1>. QED  BY <1>5, <1>6

-----------------------------------------------------------------------------
(* What a client sends, request by request and chunk by chunk.             *)

LEMMA PlanIs ==
    ASSUME plan \in Plans
    PROVE  /\ Len(plan) \in Nat /\ DOMAIN plan = 1..Len(plan)
           /\ \A k \in 1..Len(plan) :
                 /\ plan[k] \in HttpRequest /\ plan[k].pieces \in Seq(Bytes)
                 /\ plan[k].framing = "none" => plan[k].pieces = <<>>
                 /\ plan[k].framing = "chunks" =>
                       \A i \in 1..Len(plan[k].pieces) : plan[k].pieces[i] # <<>>
  <1>1. plan \in Seq(HttpRequest)
    BY HttpAssumption
  <1>2. Len(plan) \in Nat /\ DOMAIN plan = 1..Len(plan)
    BY <1>1, LenProperties
  <1> SUFFICES ASSUME NEW k \in 1..Len(plan)
               PROVE  /\ plan[k] \in HttpRequest /\ plan[k].pieces \in Seq(Bytes)
                      /\ plan[k].framing = "none" => plan[k].pieces = <<>>
                      /\ plan[k].framing = "chunks" =>
                            \A i \in 1..Len(plan[k].pieces) : plan[k].pieces[i] # <<>>
    BY <1>2
  <1>3. plan[k] \in HttpRequest
    BY <1>1, ElementOfSeq
  <1>4. plan[k].pieces \in Seq(Bytes)
    BY <1>3 DEF HttpRequest, Bytes
  <1>5. DOMAIN plan[k].pieces = 1..Len(plan[k].pieces)
    BY <1>4, LenProperties
  <1>6. /\ plan[k].framing = "none" => plan[k].pieces = <<>>
        /\ plan[k].framing = "chunks" => \A i \in DOMAIN plan[k].pieces : plan[k].pieces[i] # <<>>
    BY <1>2, HttpAssumption
  <1>. QED  BY <1>3, <1>4, <1>5, <1>6

LEMMA NumberIs ==
    ASSUME NEW n \in Nat
    PROVE  /\ <<"number", n>> \in Byte /\ <<"number", n>> # CR
           /\ Number1(n) \o CRLF \in Bytes /\ Len(Number1(n) \o CRLF) = 3
  <1> DEFINE c == <<"number", n>>
  <1>1. c \in Byte /\ c # CR
    BY DEF Byte, CR
  <1>2. Number1(n) = <<c>>
    BY DEF Number1
  <1> HIDE DEF c
  <1>3. <<c>> \o CRLF \in Bytes /\ Len(<<c>> \o CRLF) = 3
    BY <1>1, LineIs
  <1>. QED  BY <1>1, <1>2, <1>3 DEF c

LEMMA ChunkIs ==
    ASSUME NEW p \in Bytes
    PROVE  /\ ChunkBytes(p) \in Bytes
           /\ \A v \in Bytes : ChunkBytes(p) \o v = (Number1(Len(p)) \o CRLF) \o (p \o (CRLF \o v))
  <1> DEFINE h == Number1(Len(p)) \o CRLF
  <1>1. h \in Bytes /\ CRLF \in Bytes
    <2>1. Len(p) \in Nat
      BY LenProperties DEF Bytes
    <2>. QED  BY <2>1, NumberIs, LineBytes
  <1>2. ChunkBytes(p) = (h \o p) \o CRLF
    BY DEF ChunkBytes, Number1
  <1> HIDE DEF h
  <1>3. h \o p \in Bytes /\ (h \o p) \o CRLF \in Bytes
    <2>1. h \o p \in Bytes
      BY <1>1, Cat
    <2>. QED  BY <1>1, <2>1, Cat
  <1>4. ASSUME NEW v \in Bytes PROVE ((h \o p) \o CRLF) \o v = h \o (p \o (CRLF \o v))
    <2>1. Assoc4(h, p, CRLF, v)
      BY <1>1, CatFour
    <2>. QED  BY <2>1 DEF Assoc4
  <1>. QED  BY <1>2, <1>3, <1>4 DEF h

LEMMA TrailerTyped ==
    ASSUME NEW r
    PROVE  TrailerOf(r) \in Bytes
  <1>1. Trailer1 \o CRLF \in Bytes
    BY TrailerIs, LineBytes, Cat
  <1>. QED  BY <1>1, CatNone, EmptySeq DEF TrailerOf, Bytes

LEMMA LastIs ==
    ASSUME NEW r
    PROVE  /\ LastBytes(r) \in Bytes
           /\ \A v \in Bytes : LastBytes(r) \o v = (Number1(0) \o CRLF) \o (TrailerOf(r) \o (CRLF \o v))
  <1> DEFINE h == Number1(0) \o CRLF
             x == TrailerOf(r)
  <1>1. h \in Bytes /\ CRLF \in Bytes /\ x \in Bytes
    BY NumberIs, LineBytes, TrailerTyped
  <1>2. LastBytes(r) = (h \o x) \o CRLF
    BY DEF LastBytes, Number1, TrailerOf, Trailer1
  <1> HIDE DEF h, x
  <1>3. h \o x \in Bytes /\ (h \o x) \o CRLF \in Bytes
    <2>1. h \o x \in Bytes
      BY <1>1, Cat
    <2>. QED  BY <1>1, <2>1, Cat
  <1>4. ASSUME NEW v \in Bytes PROVE ((h \o x) \o CRLF) \o v = h \o (x \o (CRLF \o v))
    <2>1. Assoc4(h, x, CRLF, v)
      BY <1>1, CatFour
    <2>. QED  BY <2>1 DEF Assoc4
  <1>. QED  BY <1>2, <1>3, <1>4 DEF h, x

(* Behind the last chunk there is an empty line, perhaps after a trailer.  *)
LEMMA AfterLast ==
    ASSUME NEW r, r.trailer \in BOOLEAN, NEW v \in Bytes
    PROVE  CRLF \o (TrailerOf(r) \o (CRLF \o v)) = (IF r.trailer THEN TrailerEnd ELSE EmptyLine) \o v
  <1>1. CRLF \in Bytes /\ Trailer1 \in Bytes /\ EmptyLine \in Bytes /\ EmptyLine = CRLF \o CRLF
    BY LineBytes, TrailerIs DEF EmptyLine
  <1>2. PICK w \in Bytes : w = CRLF \o v
    BY <1>1, Cat
  <1>3. PICK e \in Bytes : e = EmptyLine \o v
    BY <1>1, Cat
  <1>4. e = CRLF \o w
    <2>1. Assoc(CRLF, CRLF, v)
      BY <1>1, CatThree
    <2>. QED  BY <1>1, <1>2, <1>3, <2>1 DEF Assoc
  <1>5. CASE r.trailer
    <2>1. Assoc(Trailer1, CRLF, w)
      BY <1>1, CatThree
    <2>2. PICK x \in Bytes : x = Trailer1 \o EmptyLine
      BY <1>1, Cat
    <2>3. Assoc(Trailer1, EmptyLine, v)
      BY <1>1, CatThree
    <2>4. Assoc(CRLF, x, v)
      BY <1>1, CatThree
    <2>5. TrailerOf(r) \o w = x \o v
      <3>1. TrailerOf(r) \o w = Trailer1 \o (CRLF \o w)
        BY <1>5, <2>1 DEF TrailerOf, Assoc
      <3>2. x \o v = Trailer1 \o e
        BY <1>3, <2>2, <2>3 DEF Assoc
      <3>. QED  BY <1>4, <3>1, <3>2
    <2>6. TrailerEnd = CRLF \o x
      BY <2>2 DEF TrailerEnd
    <2>. QED  BY <1>2, <1>5, <2>4, <2>5, <2>6 DEF Assoc
  <1>6. CASE ~ r.trailer
    <2>1. <<>> \o w = w
      BY CatNone
    <2>. QED  BY <1>2, <1>3, <1>4, <1>6, <2>1 DEF TrailerOf
  <1>. QED  BY <1>5, <1>6

LEMMA LinesAre ==
    ASSUME NEW ss \in Seq(Bytes)
    PROVE  /\ Lines(ss) \in Seq(Bytes) /\ Len(Lines(ss)) = Len(ss)
           /\ \A i \in 1..Len(ss) : Lines(ss)[i] = ChunkBytes(ss[i])
  <1>1. Len(ss) \in Nat /\ DOMAIN ss = 1..Len(ss)
    BY LenProperties
  <1>2. \A i \in 1..Len(ss) : ChunkBytes(ss[i]) \in Bytes
    BY ElementOfSeq, ChunkIs
  <1>3. Lines(ss) = [i \in 1..Len(ss) |-> ChunkBytes(ss[i])]
    BY <1>1 DEF Lines
  <1>4. Lines(ss) \in [1..Len(ss) -> Bytes]
    BY <1>2, <1>3
  <1>5. Lines(ss) \in Seq(Bytes) /\ Len(Lines(ss)) = Len(ss)
    BY <1>1, <1>4
  <1>. QED  BY <1>3, <1>5

LEMMA BodyIs ==
    ASSUME plan \in Plans, NEW k \in 1..Len(plan)
    PROVE  /\ Body(plan[k]) \in Bytes /\ Len(Body(plan[k])) \in Nat
           /\ Body(plan[k]) = Tails(plan[k].pieces)[1]
           /\ plan[k].framing = "none" => Body(plan[k]) = <<>>
  <1>1. plan[k].pieces \in Seq(Bytes) /\ (plan[k].framing = "none" => plan[k].pieces = <<>>)
    BY PlanIs
  <1> DEFINE ss == plan[k].pieces
             b == Joined(ss)
  <1>2. /\ Len(ss) \in Nat /\ b = Tails(ss)[1] /\ Tails(ss)[Len(ss) + 1] = <<>>
        /\ \A i \in 1..(Len(ss) + 1) : Tails(ss)[i] \in Bytes
    BY <1>1, TailsAre
  <1>3. b \in Bytes
    BY <1>2
  <1>4. Len(b) \in Nat
    BY <1>3, LenProperties DEF Bytes
  <1>5. ss = <<>> => b = <<>>
    <2>1. ss = <<>> => Len(ss) + 1 = 1
      OBVIOUS
    <2>. QED  BY <1>2, <2>1
  <1>. QED  BY <1>1, <1>2, <1>3, <1>4, <1>5 DEF Body

(* The head of a request, and what comes behind it.                        *)
Behind(k) ==
    IF plan[k].framing = "chunks" THEN Tails(Lines(plan[k].pieces))[1] \o LastBytes(plan[k])
                                  ELSE Body(plan[k])

LEMMA WiresAre ==
    ASSUME plan \in Plans
    PROVE  /\ Wires \in Seq(Bytes) /\ Len(Wires) = Len(plan)
           /\ \A k \in 1..Len(plan) :
                 Behind(k) \in Bytes /\ Wires[k] = HeadBytes(k) \o Behind(k)
  <1>1. Len(plan) \in Nat /\ DOMAIN plan = 1..Len(plan)
    BY PlanIs
  <1>2. ASSUME NEW k \in 1..Len(plan)
        PROVE  /\ Behind(k) \in Bytes /\ Wire(k, plan[k]) = HeadBytes(k) \o Behind(k)
               /\ Wire(k, plan[k]) \in Bytes
    <2>1. plan[k].pieces \in Seq(Bytes) /\ plan[k].framing \in Framing
      BY PlanIs DEF HttpRequest
    <2>2. Body(plan[k]) \in Bytes /\ (plan[k].framing = "none" => Body(plan[k]) = <<>>)
      BY BodyIs
    <2>3. /\ Joined(Lines(plan[k].pieces)) = Tails(Lines(plan[k].pieces))[1]
          /\ Tails(Lines(plan[k].pieces))[1] \in Bytes
      <3> DEFINE ss == Lines(plan[k].pieces)
      <3>1. ss \in Seq(Bytes)
        BY <2>1, LinesAre
      <3> HIDE DEF ss
      <3>2. Len(ss) \in Nat /\ Joined(ss) = Tails(ss)[1] /\ \A i \in 1..(Len(ss) + 1) : Tails(ss)[i] \in Bytes
        BY <3>1, TailsAre
      <3>. QED  BY <3>2 DEF ss
    <2>4. LastBytes(plan[k]) \in Bytes
      BY LastIs
    <2>5. Tails(Lines(plan[k].pieces))[1] \o LastBytes(plan[k]) \in Bytes
      BY <2>3, <2>4, Cat
    <2>6. Behind(k) \in Bytes
      BY <2>2, <2>5 DEF Behind
    <2>7. Wire(k, plan[k]) = HeadBytes(k) \o Behind(k)
      <3>1. [i \in DOMAIN plan[k].pieces |-> ChunkBytes(plan[k].pieces[i])] = Lines(plan[k].pieces)
        BY DEF Lines
      <3>2. CASE plan[k].framing = "chunks"
        BY <2>3, <3>1, <3>2 DEF Wire, Behind
      <3>3. CASE plan[k].framing = "length"
        BY <3>3 DEF Wire, Behind
      <3>4. CASE plan[k].framing = "none"
        BY <2>2, <3>4 DEF Wire, Behind
      <3>. QED  BY <2>1, <3>2, <3>3, <3>4 DEF Framing
    <2>8. HeadBytes(k) \in Bytes
      BY HeadIs
    <2>9. HeadBytes(k) \o Behind(k) \in Bytes
      BY <2>6, <2>8, Cat
    <2>. QED  BY <2>6, <2>7, <2>9
  <1>3. Wires = [k \in 1..Len(plan) |-> Wire(k, plan[k])]
    BY <1>1 DEF Wires
  <1>4. Wires \in [1..Len(plan) -> Bytes]
    BY <1>2, <1>3
  <1>5. Wires \in Seq(Bytes) /\ Len(Wires) = Len(plan)
    BY <1>1, <1>4
  <1>. QED  BY <1>2, <1>3, <1>5

LEMMA StreamIs ==
    ASSUME plan \in Plans
    PROVE  /\ \A k \in 1..(Len(plan) + 1) : Stream(k) \in Bytes
           /\ Stream(Len(plan) + 1) = <<>>
           /\ Stream(1) = Joined(Wires)
           /\ \A k \in 1..Len(plan) : Stream(k) = HeadBytes(k) \o (Behind(k) \o Stream(k + 1))
  <1>1. /\ Wires \in Seq(Bytes) /\ Len(Wires) = Len(plan)
        /\ \A k \in 1..Len(plan) : Behind(k) \in Bytes /\ Wires[k] = HeadBytes(k) \o Behind(k)
    BY WiresAre
  <1> DEFINE ss == Wires
  <1> HIDE DEF ss
  <1>2. /\ Joined(ss) = Tails(ss)[1]
        /\ Tails(ss)[Len(ss) + 1] = <<>>
        /\ \A i \in 1..Len(ss) : Tails(ss)[i] = ss[i] \o Tails(ss)[i + 1]
        /\ \A i \in 1..(Len(ss) + 1) : Tails(ss)[i] \in Bytes
    BY <1>1, TailsAre DEF ss
  <1>3. /\ \A k \in 1..(Len(plan) + 1) : Stream(k) \in Bytes
        /\ Stream(Len(plan) + 1) = <<>>
        /\ Stream(1) = Joined(Wires)
        /\ \A k \in 1..Len(plan) : Stream(k) = Wires[k] \o Stream(k + 1)
    BY <1>1, <1>2 DEF ss, Stream
  <1>4. ASSUME NEW k \in 1..Len(plan) PROVE Stream(k) = HeadBytes(k) \o (Behind(k) \o Stream(k + 1))
    <2>1. Len(plan) \in Nat
      BY PlanIs
    <2>2. HeadBytes(k) \in Bytes /\ k + 1 \in 1..(Len(plan) + 1)
      BY <2>1, HeadIs
    <2>3. Stream(k + 1) \in Bytes
      BY <1>3, <2>2
    <2>4. Assoc(HeadBytes(k), Behind(k), Stream(k + 1))
      BY <1>1, <2>2, <2>3, CatThree
    <2>. QED  BY <1>1, <1>3, <2>4 DEF Assoc
  <1>. QED  BY <1>3, <1>4

LEMMA PiecesAre ==
    ASSUME plan \in Plans, This \in 1..Len(plan)
    PROVE  /\ Pieces \in Seq(Bytes) /\ Len(Pieces) \in Nat
           /\ \A j \in 1..Len(Pieces) : Pieces[j] \in Bytes
           /\ FromPiece(1) = Body(plan[This])
           /\ FromPiece(Len(Pieces) + 1) = <<>>
           /\ \A j \in 1..Len(Pieces) : FromPiece(j) = Pieces[j] \o FromPiece(j + 1)
           /\ \A j \in 1..(Len(Pieces) + 1) : FromPiece(j) \in Bytes
  <1>1. Pieces \in Seq(Bytes)
    BY PlanIs DEF Pieces
  <1>2. Body(plan[This]) = Tails(Pieces)[1]
    BY BodyIs DEF Pieces
  <1> DEFINE ss == Pieces
  <1> HIDE DEF ss
  <1>3. /\ Len(ss) \in Nat
        /\ Tails(ss)[Len(ss) + 1] = <<>>
        /\ \A i \in 1..Len(ss) : Tails(ss)[i] = ss[i] \o Tails(ss)[i + 1]
        /\ \A i \in 1..(Len(ss) + 1) : Tails(ss)[i] \in Bytes
    BY <1>1, TailsAre DEF ss
  <1>4. \A j \in 1..Len(ss) : ss[j] \in Bytes
    BY <1>1, ElementOfSeq DEF ss
  <1>. QED  BY <1>1, <1>2, <1>3, <1>4 DEF ss, FromPiece

LEMMA ChunksAre ==
    ASSUME plan \in Plans, This \in 1..Len(plan)
    PROVE  /\ \A j \in 1..(Len(Pieces) + 1) : FromChunk(j) \in Bytes
           /\ \A j \in 1..Len(Pieces) :
                 FromChunk(j) = (Number1(Len(Pieces[j])) \o CRLF) \o (Pieces[j] \o (CRLF \o FromChunk(j + 1)))
           /\ FromChunk(Len(Pieces) + 1) =
                 (Number1(0) \o CRLF) \o (TrailerOf(plan[This]) \o (CRLF \o Stream(This + 1)))
           /\ plan[This].framing = "chunks" => Stream(This) = HeadBytes(This) \o FromChunk(1)
  <1> DEFINE ss == Lines(Pieces)
             f == Tails(ss)
  <1>1. /\ Pieces \in Seq(Bytes) /\ Len(Pieces) \in Nat
        /\ \A j \in 1..Len(Pieces) : Pieces[j] \in Bytes
    BY PiecesAre
  <1>2. /\ ss \in Seq(Bytes) /\ Len(ss) = Len(Pieces)
        /\ \A j \in 1..Len(Pieces) : ss[j] = ChunkBytes(Pieces[j])
    BY <1>1, LinesAre
  <1> HIDE DEF ss
  <1>3. /\ f[Len(Pieces) + 1] = <<>>
        /\ \A j \in 1..Len(Pieces) : f[j] = ss[j] \o f[j + 1]
        /\ \A j \in 1..(Len(Pieces) + 1) : f[j] \in Bytes
    BY <1>2, TailsAre
  <1> HIDE DEF f
  <1>4. Stream(This + 1) \in Bytes
    <2>1. Len(plan) \in Nat
      BY PlanIs
    <2>2. This + 1 \in 1..(Len(plan) + 1)
      BY <2>1
    <2>. QED  BY <2>2, StreamIs
  <1>5. LastBytes(plan[This]) \in Bytes
    BY LastIs
  <1>6. PICK w \in Bytes : w = LastBytes(plan[This]) \o Stream(This + 1)
    BY <1>4, <1>5, Cat
  <1>7. \A j \in 1..(Len(Pieces) + 1) : FromChunk(j) = f[j] \o w
    BY <1>6 DEF FromChunk, f, ss
  <1>8. \A j \in 1..(Len(Pieces) + 1) : FromChunk(j) \in Bytes
    <2> TAKE j \in 1..(Len(Pieces) + 1)
    <2>1. f[j] \in Bytes
      BY <1>3
    <2>2. f[j] \o w \in Bytes
      BY <2>1, Cat
    <2>. QED  BY <1>7, <2>2
  <1>9. ASSUME NEW j \in 1..Len(Pieces)
        PROVE  FromChunk(j) = (Number1(Len(Pieces[j])) \o CRLF) \o (Pieces[j] \o (CRLF \o FromChunk(j + 1)))
    <2>1. j \in 1..(Len(Pieces) + 1) /\ j + 1 \in 1..(Len(Pieces) + 1)
      BY <1>1
    <2>2. Pieces[j] \in Bytes /\ ChunkBytes(Pieces[j]) \in Bytes /\ f[j + 1] \in Bytes /\ FromChunk(j + 1) \in Bytes
      BY <1>1, <1>3, <1>8, <2>1, ChunkIs
    <2>3. Assoc(ChunkBytes(Pieces[j]), f[j + 1], w)
      BY <2>2, CatThree
    <2>4. f[j] = ChunkBytes(Pieces[j]) \o f[j + 1]
      BY <1>2, <1>3
    <2>5. FromChunk(j) = ChunkBytes(Pieces[j]) \o FromChunk(j + 1)
      BY <1>7, <2>1, <2>3, <2>4 DEF Assoc
    <2>. QED  BY <2>2, <2>5, ChunkIs
  <1>10. FromChunk(Len(Pieces) + 1) =
            (Number1(0) \o CRLF) \o (TrailerOf(plan[This]) \o (CRLF \o Stream(This + 1)))
    <2>1. Len(Pieces) + 1 \in 1..(Len(Pieces) + 1)
      BY <1>1
    <2>2. FromChunk(Len(Pieces) + 1) = <<>> \o w
      BY <1>3, <1>7, <2>1
    <2>3. <<>> \o w = w
      BY CatNone
    <2>4. LastBytes(plan[This]) \o Stream(This + 1) =
             (Number1(0) \o CRLF) \o (TrailerOf(plan[This]) \o (CRLF \o Stream(This + 1)))
      BY <1>4, LastIs
    <2>. QED  BY <1>6, <2>2, <2>3, <2>4
  <1>11. plan[This].framing = "chunks" => Stream(This) = HeadBytes(This) \o FromChunk(1)
    <2> SUFFICES ASSUME plan[This].framing = "chunks" PROVE Stream(This) = HeadBytes(This) \o FromChunk(1)
      OBVIOUS
    <2>1. Stream(This) = HeadBytes(This) \o (Behind(This) \o Stream(This + 1))
      BY StreamIs
    <2>2. 1 \in 1..(Len(Pieces) + 1)
      BY <1>1
    <2>3. Behind(This) = f[1] \o LastBytes(plan[This])
      BY DEF Behind, Pieces, f, ss
    <2>4. Assoc(f[1], LastBytes(plan[This]), Stream(This + 1))
      BY <1>3, <1>4, <1>5, <2>2, CatThree
    <2>5. FromChunk(1) = f[1] \o w
      BY <1>7, <2>2
    <2>. QED  BY <1>6, <2>1, <2>3, <2>4, <2>5 DEF Assoc
  <1>. QED  BY <1>8, <1>9, <1>10, <1>11

-----------------------------------------------------------------------------
(* Each step of on_connection keeps HttpInv.                               *)

LEMMA Here ==
    ASSUME HttpTyped
    PROVE  /\ Len(plan) \in Nat /\ Len(handled) \in Nat /\ This \in Nat /\ This = Len(handled) + 1
           /\ This \in 1..(Len(plan) + 1) /\ (This <= Len(plan) => This \in 1..Len(plan))
           /\ Stream(This) \in Bytes
           /\ This \in 1..Len(plan) => Stream(This + 1) \in Bytes
  <1>1. plan \in Plans /\ Len(handled) <= Len(plan) /\ handled \in Seq([req : Nat, body : Bytes])
    BY DEF HttpTyped
  <1>2. Len(plan) \in Nat /\ Len(handled) \in Nat
    BY <1>1, PlanIs, LenProperties
  <1>3. This = Len(handled) + 1
    BY DEF This
  <1>4. /\ This \in Nat /\ This \in 1..(Len(plan) + 1) /\ (This <= Len(plan) => This \in 1..Len(plan))
        /\ This \in 1..Len(plan) => This + 1 \in 1..(Len(plan) + 1)
    BY <1>1, <1>2, <1>3
  <1>5. Stream(This) \in Bytes /\ (This \in 1..Len(plan) => Stream(This + 1) \in Bytes)
    BY <1>1, <1>4, StreamIs
  <1>. QED  BY <1>2, <1>3, <1>4, <1>5

LEMMA SameRequest ==
    ASSUME plan' = plan, handled' = handled
    PROVE  /\ This' = This /\ Pieces' = Pieces
           /\ \A k : Stream(k)' = Stream(k)
           /\ \A j : FromChunk(j)' = FromChunk(j)
           /\ \A j : FromPiece(j)' = FromPiece(j)
           /\ HandledAsSent => HandledAsSent'
  <1>1. This' = This /\ Wires' = Wires
    BY DEF This, Wires
  <1>2. Pieces' = Pieces
    BY <1>1 DEF Pieces
  <1>3. \A k : Stream(k)' = Stream(k)
    BY <1>1 DEF Stream
  <1>4. \A j : FromChunk(j)' = FromChunk(j)
    BY <1>1, <1>2, <1>3 DEF FromChunk
  <1>5. \A j : FromPiece(j)' = FromPiece(j)
    BY <1>2 DEF FromPiece
  <1>6. HandledAsSent => HandledAsSent'
    BY DEF HandledAsSent
  <1>. QED  BY <1>1, <1>2, <1>3, <1>4, <1>5, <1>6

(* What has to be shown of a step depends on where it leads to.            *)
LEMMA Settled ==
    ASSUME HttpTyped', HandledAsSent', NEW p, spot' = p,
           p \notin {"first", "head", "end"} => (This <= Len(plan))',
           p \in {"chunk", "data", "trailer"} => (plan[This].framing = "chunks")',
           p \in {"first", "head"} => AtHead',
           p = "body" => AtBody',
           p = "chunk" => AtChunk',
           p = "data" => AtData',
           p = "trailer" => AtTrailer',
           p = "handle" => AtHandle',
           p = "refused" => AtRefused'
    PROVE  HttpInv'
  <1>1. InRequest' /\ InChunks'
    BY DEF InRequest, InChunks
  <1>2. AtHead' /\ AtBody' /\ AtChunk'
    BY DEF AtHead, AtBody, AtChunk
  <1>3. AtData' /\ AtTrailer' /\ AtHandle' /\ AtRefused'
    BY DEF AtData, AtTrailer, AtHandle, AtRefused
  <1>. QED  BY <1>1, <1>2, <1>3 DEF HttpInv

LEMMA HttpInitInv == HttpInit => HttpInv
  <1> SUFFICES ASSUME HttpInit PROVE HttpInv
    OBVIOUS
  <1>1. /\ plan \in Plans /\ spot = "first" /\ buf = <<>> /\ rest = <<>>
        /\ need = 0 /\ size = 0 /\ total = 0 /\ handled = <<>>
        /\ net = Joined(Wires)
    BY DEF HttpInit, Wires
  <1>2. Len(handled) = 0 /\ handled \in Seq([req : Nat, body : Bytes]) /\ This = 1 /\ DOMAIN handled = {}
    BY <1>1 DEF This
  <1>3. Len(plan) \in Nat /\ 1 \in 1..(Len(plan) + 1)
    BY <1>1, PlanIs
  <1>4. net = Stream(1) /\ Stream(1) \in Bytes
    BY <1>1, <1>3, StreamIs
  <1>5. buf \in Bytes /\ buf \o net = net
    BY <1>1, <1>4, CatNone
  <1>6. HttpTyped
    BY <1>1, <1>2, <1>3, <1>4, <1>5 DEF HttpTyped
  <1>7. HandledAsSent /\ AtHead
    BY <1>1, <1>2, <1>4, <1>5 DEF HandledAsSent, AtHead
  <1>. QED
    BY <1>1, <1>6, <1>7 DEF HttpInv, InRequest, InChunks, AtBody, AtChunk, AtData, AtTrailer, AtHandle, AtRefused

LEMMA HeadFound ==
    ASSUME HttpTyped, AtHead, spot = "head"
    PROVE  /\ HeadEnd # 0 => /\ This \in 1..Len(plan) /\ Len(buf) >= 5
                             /\ WellFormed /\ Parsed = plan[This] /\ buf[1] = <<"head", This>>
           /\ This \in 1..Len(plan) /\ Len(buf) >= 5 => HeadEnd # 0
  <1>1. plan \in Plans /\ buf \in Bytes /\ net \in Bytes /\ buf \o net = Stream(This)
    BY DEF HttpTyped, AtHead
  <1>2. Len(buf) \in Nat
    BY <1>1, Cat
  <1>3. CASE This \in 1..Len(plan)
    <2>1. PICK v \in Bytes : v = Behind(This) \o Stream(This + 1)
      <3>1. Behind(This) \in Bytes /\ Stream(This + 1) \in Bytes
        BY <1>1, <1>3, WiresAre, Here
      <3>. QED  BY <3>1, Cat
    <2>2. buf \o net = HeadBytes(This) \o v
      BY <1>1, <1>3, <2>1, StreamIs
    <2>3. HeadEnd = IF Len(buf) >= 5 THEN 2 ELSE 0
      BY <1>1, <2>2, FindInHead, Here DEF HeadEnd
    <2>4. Len(buf) >= 5 => buf[1] = <<"head", This>>
      <3>1. HeadBytes(This) \in Bytes /\ Len(HeadBytes(This)) = 5 /\ HeadBytes(This)[1] = <<"head", This>>
        BY Here, HeadIs
      <3>2. Same(buf, net, HeadBytes(This), v)
        BY <2>2 DEF Same
      <3>3. \A i \in 1..Len(buf) : i <= Len(HeadBytes(This)) => buf[i] = HeadBytes(This)[i]
        BY <1>1, <3>1, <3>2, SameFirst
      <3>. QED  BY <1>2, <3>1, <3>3
    <2>. QED  BY <1>3, <2>3, <2>4 DEF WellFormed, Parsed
  <1>4. CASE This \notin 1..Len(plan)
    <2>1. This = Len(plan) + 1
      BY <1>4, Here
    <2>2. buf \o net = <<>>
      BY <1>1, <2>1, StreamIs
    <2>3. Len(buf) = 0
      <3>1. Len(buf \o net) = Len(buf) + Len(net) /\ Len(net) \in Nat
        BY <1>1, Cat
      <3>2. Len(<<>>) = 0
        BY CatNone
      <3>. QED  BY <1>2, <2>2, <3>1, <3>2
    <2>4. HeadEnd = 0
      <3>1. Absent(EmptyLine, buf) /\ Len(EmptyLine) > 0 /\ EmptyLine \in Bytes
        BY <2>3, LineBytes DEF Absent
      <3>. QED  BY <1>1, <3>1, FindNone DEF HeadEnd
    <2>. QED  BY <1>4, <2>4
  <1>. QED  BY <1>3, <1>4

LEMMA StepRecvFirst == HttpInv /\ RecvFirst => HttpInv'
  <1> SUFFICES ASSUME HttpInv, RecvFirst PROVE HttpInv'
    OBVIOUS
  <1>1. HttpTyped /\ AtHead /\ HandledAsSent
    BY DEF HttpInv
  <1>2. /\ spot = "first" /\ 1 <= Len(net) /\ net' = From(net, 1 + 1)
        /\ buf' = <<Head(net)>> /\ spot' = "head"
        /\ plan' = plan /\ rest' = rest /\ need' = need /\ size' = size /\ total' = total
        /\ handled' = handled
    BY DEF RecvFirst, Receive, Move
  <1>3. net \in Bytes /\ buf = <<>> /\ buf \o net = Stream(This)
    BY <1>1, <1>2 DEF HttpTyped, AtHead
  <1>4. net = Stream(This)
    BY <1>3, CatNone
  <1>5. Len(net) \in Nat /\ 1 \in 0..Len(net)
    BY <1>2, <1>3, LenProperties DEF Bytes
  <1>6. /\ SubSeq(net, 1, 1) \in Bytes /\ Len(SubSeq(net, 1, 1)) = 1 /\ SubSeq(net, 1, 1)[1] = net[1]
        /\ From(net, 1 + 1) \in Bytes /\ SubSeq(net, 1, 1) \o From(net, 1 + 1) = net
    BY <1>3, <1>5, Split
  <1>7. SubSeq(net, 1, 1) = <<Head(net)>>
    <2>1. net # <<>> /\ Head(net) = net[1]
      BY <1>2, <1>3, CatNone
    <2>2. net[1] \in Byte
      BY <1>2, <1>3, <1>5, ElementOfSeq DEF Bytes
    <2>3. <<net[1]>> \in Bytes /\ Len(<<net[1]>>) = 1 /\ <<net[1]>>[1] = net[1]
      BY <2>2, OneByte
    <2> DEFINE x == SubSeq(net, 1, 1)
               y == <<net[1]>>
    <2>4. x \in Seq(Byte) /\ y \in Seq(Byte) /\ Len(x) = 1 /\ Len(y) = 1 /\ x[1] = y[1]
      BY <1>6, <2>3 DEF Bytes
    <2> HIDE DEF x, y
    <2>5. x = y
      BY <2>4, SeqEqual
    <2>. QED  BY <2>1, <2>5 DEF x, y
  <1>8. HttpTyped'
    BY <1>1, <1>2, <1>6, <1>7 DEF HttpTyped
  <1>9. AtHead'
    BY <1>2, <1>4, <1>6, <1>7, SameRequest DEF AtHead
  <1>. QED  BY <1>1, <1>2, <1>8, <1>9, SameRequest, Settled

(* The connection ends, or is refused.                                     *)
LEMMA Ends ==
    ASSUME HttpInv, UNCHANGED <<plan, net, bytesVars, handled>>, spot' = "end"
    PROVE  HttpInv'
  <1>1. HttpTyped /\ HandledAsSent
    BY DEF HttpInv
  <1>2. HttpTyped'
    BY <1>1 DEF HttpTyped, bytesVars
  <1>3. HandledAsSent'
    BY <1>1, SameRequest
  <1>. QED  BY <1>2, <1>3, Settled

LEMMA Refused ==
    ASSUME HttpInv, UNCHANGED <<plan, net, bytesVars, handled>>, spot' = "refused",
           This \in 1..Len(plan), TooLong(plan[This])
    PROVE  HttpInv'
  <1>1. HttpTyped /\ HandledAsSent
    BY DEF HttpInv
  <1>2. HttpTyped'
    BY <1>1 DEF HttpTyped, bytesVars
  <1>3. HandledAsSent' /\ This' = This /\ plan' = plan
    BY <1>1, SameRequest
  <1>4. This <= Len(plan)
    BY <1>1, Here
  <1>5. AtRefused'
    BY <1>3 DEF AtRefused, TooLong
  <1>. QED  BY <1>2, <1>3, <1>4, <1>5, Settled

LEMMA StepEnds ==
    HttpInv /\ ((\E crowded \in BOOLEAN : FirstTimeout(crowded)) \/ RecvEnds) => HttpInv'
  <1> SUFFICES ASSUME HttpInv, (\E crowded \in BOOLEAN : FirstTimeout(crowded)) \/ RecvEnds PROVE HttpInv'
    OBVIOUS
  <1>1. UNCHANGED <<plan, net, bytesVars, handled>> /\ spot' = "end"
    BY DEF FirstTimeout, RecvEnds, Move
  <1>. QED  BY <1>1, Ends

LEMMA StepRecvHead ==
    ASSUME HttpInv, NEW n \in 1..Len(net), RecvHead(n)
    PROVE  HttpInv'
  <1>1. HttpTyped /\ AtHead /\ HandledAsSent
    BY DEF HttpInv
  <1>2. /\ spot = "head" /\ net' = From(net, n + 1) /\ buf' = buf \o SubSeq(net, 1, n)
        /\ plan' = plan /\ spot' = spot /\ rest' = rest /\ need' = need /\ size' = size /\ total' = total
        /\ handled' = handled
    BY DEF RecvHead, Receive
  <1>3. buf \in Bytes /\ net \in Bytes /\ buf \o net = Stream(This)
    BY <1>1, <1>2 DEF HttpTyped, AtHead
  <1>4. Len(net) \in Nat /\ n \in 0..Len(net)
    BY <1>3, LenProperties DEF Bytes
  <1>5. net' \in Bytes /\ buf' \in Bytes /\ buf' \o net' = buf \o net
    BY <1>2, <1>3, <1>4, Read
  <1>6. HttpTyped'
    BY <1>1, <1>2, <1>5 DEF HttpTyped
  <1>7. AtHead'
    BY <1>2, <1>3, <1>5, SameRequest DEF AtHead
  <1>. QED  BY <1>1, <1>2, <1>6, <1>7, SameRequest, Settled

LEMMA StepHeadTimeout == HttpInv /\ HeadTimeout => HttpInv'
  <1> SUFFICES ASSUME HttpInv, HeadTimeout PROVE HttpInv'
    OBVIOUS
  <1>1. HttpTyped /\ AtHead /\ HandledAsSent
    BY DEF HttpInv
  <1>2. /\ spot = "head" /\ buf = <<>> /\ spot' = "first" /\ net' = net /\ buf' = buf
        /\ plan' = plan /\ rest' = rest /\ need' = need /\ size' = size /\ total' = total
        /\ handled' = handled
    BY DEF HeadTimeout, Move
  <1>3. HttpTyped'
    BY <1>1, <1>2 DEF HttpTyped
  <1>4. AtHead'
    BY <1>1, <1>2, SameRequest DEF AtHead
  <1>. QED  BY <1>1, <1>2, <1>3, <1>4, SameRequest, Settled

LEMMA StepParseError == HttpInv /\ ParseError => HttpInv'
  <1> SUFFICES ASSUME HttpInv, ParseError PROVE HttpInv'
    OBVIOUS
  <1>1. HttpTyped /\ AtHead
    BY DEF HttpInv
  <1>2. /\ spot = "head" /\ HeadEnd # 0
        /\ ~ WellFormed \/ (Parsed.framing = "length" /\ Len(Body(Parsed)) > MaxBody)
        /\ spot' = "refused" /\ UNCHANGED <<plan, net, bytesVars, handled>>
    BY DEF ParseError, Move
  <1>3. This \in 1..Len(plan) /\ WellFormed /\ Parsed = plan[This]
    BY <1>1, <1>2, HeadFound
  <1>4. TooLong(plan[This])
    BY <1>2, <1>3 DEF TooLong
  <1>. QED  BY <1>2, <1>3, <1>4, Refused

(* All of a request without chunks has been read.                          *)
LEMMA AllRead ==
    ASSUME HttpTyped, This \in 1..Len(plan), plan[This].framing # "chunks",
           NEW s \in Bytes, NEW t \in Bytes, s \o t = Stream(This),
           Len(s) >= 5 + Len(Body(plan[This]))
    PROVE  /\ s # <<>> /\ s[1] = <<"head", This>>
           /\ SubSeq(s, 6, 5 + Len(Body(plan[This]))) = Body(plan[This])
           /\ From(s, 5 + Len(Body(plan[This])) + 1) \o t = Stream(This + 1)
  <1> DEFINE h == HeadBytes(This)
             r == Body(plan[This])
             n == Len(r)
             u == h \o r
             v == Stream(This + 1)
  <1>1. plan \in Plans
    BY DEF HttpTyped
  <1>2. h \in Bytes /\ Len(h) = 5 /\ h[1] = <<"head", This>> /\ v \in Bytes
    BY HeadIs, Here
  <1>3. r \in Bytes /\ n \in Nat
    BY <1>1, BodyIs
  <1>4. Stream(This) = h \o (r \o v)
    BY <1>1, StreamIs DEF Behind
  <1> HIDE DEF h, r, v
  <1>5. u \in Bytes /\ Len(u) = 5 + n /\ u[1] = h[1]
    <2>1. u \in Bytes /\ Len(u) = Len(h) + Len(r) /\ \A i \in 1..Len(h) : u[i] = h[i]
      BY <1>2, <1>3, Cat
    <2>. QED  BY <1>2, <1>3, <2>1
  <1>6. s \o t = u \o v
    <2>1. Assoc(h, r, v)
      BY <1>2, <1>3, CatThree
    <2>. QED  BY <1>4, <2>1 DEF Assoc
  <1>7. u = h \o r
    OBVIOUS
  <1> HIDE DEF u
  <1>8. Len(s) \in Nat /\ Len(u) <= Len(s)
    <2>1. Len(s) \in Nat
      BY Cat
    <2>. QED  BY <1>5, <2>1 DEF r
  <1>9. PICK w \in Bytes : w = From(s, Len(u) + 1) /\ s = u \o w /\ v = w \o t
    <2>1. Same(s, t, u, v)
      BY <1>6 DEF Same
    <2>2. /\ From(s, Len(u) + 1) \in Bytes /\ Joins(u, From(s, Len(u) + 1), s)
          /\ Joins(From(s, Len(u) + 1), t, v)
      BY <1>2, <1>5, <1>8, <2>1, Longer
    <2>. QED  BY <2>2 DEF Joins
  <1>10. From(s, 5 + n + 1) \o t = v
    BY <1>5, <1>9
  <1>11. s # <<>> /\ s[1] = h[1]
    <2>1. (u \o w)[1] = u[1]
      <3>1. 1 \in 1..Len(u)
        BY <1>3, <1>5
      <3>. QED  BY <1>5, <3>1, Cat
    <2>2. Len(s) > 0
      BY <1>3, <1>5, <1>8
    <2>3. Len(<<>>) = 0
      BY CatNone
    <2>. QED  BY <1>5, <1>9, <2>1, <2>2, <2>3
  <1>12. SubSeq(s, 6, 5 + n) = r
    <2>1. PICK x \in Bytes : x = r \o w
      BY <1>3, Cat
    <2>2. s = h \o x
      <3>1. Assoc(h, r, w)
        BY <1>2, <1>3, CatThree
      <3>. QED  BY <1>7, <1>9, <2>1, <3>1 DEF Assoc
    <2>3. SubSeq(s, Len(h) + 1, Len(h) + Len(r)) = r
      <3>1. Joins(r, w, x) /\ Joins(h, x, s)
        BY <2>1, <2>2 DEF Joins
      <3>. QED  BY <1>2, <1>3, <3>1, Middle
    <2>. QED  BY <1>2, <2>3
  <1>. QED  BY <1>2, <1>10, <1>11, <1>12 DEF h, r, v

LEMMA StepHeadWithLength == HttpInv /\ HeadWithLength => HttpInv'
  <1> SUFFICES ASSUME HttpInv, HeadWithLength PROVE HttpInv'
    OBVIOUS
  <1> DEFINE n == Len(Body(plan[This]))
  <1>1. HttpTyped /\ AtHead /\ HandledAsSent
    BY DEF HttpInv
  <1>2. /\ spot = "head" /\ WellFormed /\ Parsed.framing # "chunks"
        /\ size' = Len(Body(Parsed)) /\ total' = 5 + Len(Body(Parsed))
        /\ IF Len(buf) < 5 + Len(Body(Parsed))
           THEN need' = 5 + Len(Body(Parsed)) - Len(buf) /\ spot' = "body"
           ELSE need' = need /\ spot' = "handle"
        /\ UNCHANGED <<plan, net, buf, rest, handled>>
    BY DEF HeadWithLength, Move
  <1>3. This \in 1..Len(plan) /\ Parsed = plan[This] /\ Len(buf) >= 5 /\ buf[1] = <<"head", This>>
    BY <1>1, <1>2, HeadFound DEF WellFormed
  <1>4. n \in Nat /\ buf \in Bytes /\ net \in Bytes /\ buf \o net = Stream(This) /\ Len(buf) \in Nat
    <2>1. plan \in Plans /\ buf \in Bytes /\ net \in Bytes /\ buf \o net = Stream(This)
      BY <1>1, <1>2 DEF HttpTyped, AtHead
    <2>. QED  BY <1>3, <2>1, BodyIs, LenProperties DEF Bytes
  <1>5. size' = n /\ total' = 5 + n
    BY <1>2, <1>3
  <1>6. plan' = plan /\ net' = net /\ buf' = buf /\ handled' = handled /\ This' = This
        /\ HandledAsSent' /\ This <= Len(plan)
    BY <1>1, <1>2, <1>3, SameRequest, Here
  <1>7. CASE Len(buf) < 5 + n
    <2>1. need' = 5 + n - Len(buf) /\ spot' = "body"
      BY <1>2, <1>3, <1>7
    <2> HIDE DEF n
    <2>2. need' \in Nat /\ size' \in Nat /\ total' \in Nat /\ total' = Len(buf') + need'
      BY <1>4, <1>5, <1>6, <1>7, <2>1
    <2>3. HttpTyped'
      BY <1>1, <1>2, <2>2 DEF HttpTyped
    <2>4. AtBody'
      BY <1>2, <1>3, <1>4, <1>5, <1>6, <2>2, SameRequest DEF AtBody, n
    <2>. QED  BY <1>6, <2>1, <2>3, <2>4, Settled
  <1>8. CASE ~ (Len(buf) < 5 + n)
    <2>1. need' = need /\ spot' = "handle"
      BY <1>2, <1>3, <1>8
    <2>2. /\ buf # <<>> /\ SubSeq(buf, 6, 5 + n) = Body(plan[This])
          /\ From(buf, 5 + n + 1) \o net = Stream(This + 1)
      <3>1. Len(buf) >= 5 + n /\ plan[This].framing # "chunks"
        BY <1>2, <1>3, <1>4, <1>8
      <3>. QED  BY <1>1, <1>3, <1>4, <3>1, AllRead
    <2> HIDE DEF n
    <2>3. size' \in Nat /\ total' \in Nat /\ total' <= Len(buf')
      BY <1>4, <1>5, <1>6, <1>8
    <2>4. HttpTyped'
      BY <1>1, <1>2, <2>1, <2>3 DEF HttpTyped
    <2>5. AtHandle'
      BY <1>3, <1>5, <1>6, <2>2, <2>3, SameRequest DEF AtHandle
    <2>. QED  BY <1>6, <2>1, <2>4, <2>5, Settled
  <1>. QED  BY <1>7, <1>8

LEMMA StepRecvRestOfBody == HttpInv /\ RecvRestOfBody => HttpInv'
  <1> SUFFICES ASSUME HttpInv, RecvRestOfBody PROVE HttpInv'
    OBVIOUS
  <1> DEFINE n == Len(Body(plan[This]))
  <1>1. HttpTyped /\ AtBody /\ HandledAsSent /\ InRequest
    BY DEF HttpInv
  <1>2. /\ spot = "body" /\ need <= Len(net) /\ net' = From(net, need + 1)
        /\ buf' = buf \o SubSeq(net, 1, need) /\ spot' = "handle"
        /\ UNCHANGED <<plan, rest, need, size, total, handled>>
    BY DEF RecvRestOfBody, Receive, Move
  <1>3. /\ plan \in Plans /\ buf \in Bytes /\ net \in Bytes /\ need \in Nat
        /\ plan[This].framing # "chunks" /\ buf \o net = Stream(This)
        /\ size = n /\ total = 5 + size /\ total = Len(buf) + need
    BY <1>1, <1>2 DEF HttpTyped, AtBody
  <1>4. This \in 1..Len(plan)
    <2>1. This <= Len(plan)
      BY <1>1, <1>2 DEF InRequest
    <2>. QED  BY <1>1, <2>1, Here
  <1>5. n \in Nat /\ need \in 0..Len(net)
    <2>1. Len(net) \in Nat
      BY <1>3, LenProperties DEF Bytes
    <2>. QED  BY <1>2, <1>3, <1>4, <2>1, BodyIs
  <1>6. /\ buf' \in Bytes /\ net' \in Bytes /\ Len(buf') = Len(buf) + need
        /\ buf' \o net' = Stream(This)
    BY <1>2, <1>3, <1>5, Read
  <1>7. Len(buf') = 5 + n
    BY <1>3, <1>6
  <1>8. /\ buf' # <<>> /\ buf'[1] = <<"head", This>>
        /\ SubSeq(buf', 6, 5 + n) = Body(plan[This])
        /\ From(buf', 5 + n + 1) \o net' = Stream(This + 1)
    <2>1. PICK s \in Bytes : s = buf'
      BY <1>6
    <2>2. PICK t \in Bytes : t = net'
      BY <1>6
    <2>3. s \o t = Stream(This) /\ Len(s) >= 5 + n
      BY <1>5, <1>6, <1>7, <2>1, <2>2
    <2>4. /\ s # <<>> /\ s[1] = <<"head", This>>
          /\ SubSeq(s, 6, 5 + n) = Body(plan[This])
          /\ From(s, 5 + n + 1) \o t = Stream(This + 1)
      BY <1>1, <1>3, <1>4, <2>3, AllRead
    <2>. QED  BY <2>1, <2>2, <2>4
  <1>9. /\ plan' = plan /\ handled' = handled /\ size' = n /\ total' = 5 + n /\ This' = This
        /\ HandledAsSent' /\ This <= Len(plan)
    BY <1>1, <1>2, <1>3, <1>4, SameRequest, Here
  <1> HIDE DEF n
  <1>10. HttpTyped'
    BY <1>1, <1>2, <1>6 DEF HttpTyped
  <1>11. AtHandle'
    <2>1. total' <= Len(buf')
      BY <1>5, <1>7, <1>9
    <2>. QED  BY <1>8, <1>9, <2>1, SameRequest DEF AtHandle
  <1>. QED  BY <1>2, <1>9, <1>10, <1>11, Settled

LEMMA StepHandleReq ==
    ASSUME HttpInv, NEW fails \in BOOLEAN, HandleReq(fails)
    PROVE  HttpInv'
  <1> DEFINE e == [req |-> buf[1][2], body |-> SubSeq(buf, 6, 5 + size)]
  <1>1. HttpTyped /\ AtHandle /\ HandledAsSent /\ InRequest
    BY DEF HttpInv
  <1>2. /\ spot = "handle" /\ handled' = Append(handled, e)
        /\ buf' = From(buf, total + 1) /\ rest' = <<>> /\ need' = 0 /\ size' = 0 /\ total' = 0
        /\ spot' \in {"end", "head"} /\ plan' = plan /\ net' = net
    BY DEF HandleReq, Move
  <1>3. /\ plan \in Plans /\ buf \in Bytes /\ net \in Bytes /\ total \in Nat
        /\ handled \in Seq([req : Nat, body : Bytes])
        /\ buf[1] = <<"head", This>> /\ SubSeq(buf, 6, 5 + size) = Body(plan[This])
        /\ total <= Len(buf) /\ From(buf, total + 1) \o net = Stream(This + 1)
    BY <1>1, <1>2 DEF HttpTyped, AtHandle
  <1>4. /\ This \in 1..Len(plan) /\ Len(plan) \in Nat /\ Len(handled) \in Nat
        /\ This = Len(handled) + 1 /\ This \in Nat
    <2>1. This <= Len(plan)
      BY <1>1, <1>2 DEF InRequest
    <2>. QED  BY <1>1, <2>1, Here
  <1>5. e = [req |-> This, body |-> Body(plan[This])] /\ e \in [req : Nat, body : Bytes]
    <2>1. e = [req |-> This, body |-> Body(plan[This])]
      <3>1. buf[1] = <<"head", This>>
        BY <1>3
      <3>2. buf[1][2] = This
        BY ONLY <3>1
      <3>3. SubSeq(buf, 6, 5 + size) = Body(plan[This])
        BY <1>3
      <3>. QED  BY ONLY <3>2, <3>3, Zenon
    <2>2. Body(plan[This]) \in Bytes
      BY <1>3, <1>4, BodyIs
    <2> HIDE DEF e
    <2>. QED  BY <1>4, <2>1, <2>2
  <1> HIDE DEF e
  <1>6. /\ handled' \in Seq([req : Nat, body : Bytes]) /\ Len(handled') = This
        /\ handled'[This] = e /\ \A i \in 1..Len(handled) : handled'[i] = handled[i]
    BY <1>2, <1>3, <1>4, <1>5, AppendProperties
  <1>7. This' = This + 1
    BY <1>6 DEF This
  <1>8. buf' \in Bytes /\ rest' \in Bytes
    <2>1. Len(buf) \in Nat
      BY <1>3, LenProperties DEF Bytes
    <2>2. total \in 0..Len(buf)
      BY <1>3, <2>1
    <2>3. From(buf, total + 1) \in Bytes
      BY <1>3, <2>2, Split
    <2>. QED  BY <1>2, <2>3, CatNone, EmptySeq DEF Bytes
  <1>9. HttpTyped'
    BY <1>2, <1>3, <1>4, <1>6, <1>8 DEF HttpTyped
  <1>10. HandledAsSent'
    <2>1. DOMAIN handled' = 1..This /\ DOMAIN handled = 1..Len(handled)
      BY <1>3, <1>6, LenProperties
    <2>2. ASSUME NEW i \in 1..This PROVE handled'[i] = [req |-> i, body |-> Body(plan[i])]
      <3>1. CASE i = This
        BY <1>5, <1>6, <3>1
      <3>2. CASE i # This
        <4>1. i \in 1..Len(handled)
          BY <1>4, <3>2
        <4>. QED  BY <1>1, <1>6, <2>1, <4>1 DEF HandledAsSent
      <3>. QED  BY <3>1, <3>2
    <2>. QED  BY <1>2, <2>1, <2>2 DEF HandledAsSent
  <1>11. spot' = "head" => AtHead'
    <2>1. Wires' = Wires
      BY <1>2 DEF Wires
    <2>2. Stream(This)' = Stream(This + 1)
      BY <1>7, <2>1 DEF Stream
    <2>. QED  BY <1>2, <1>3, <2>2 DEF AtHead
  <1>12. CASE spot' = "head"
    BY <1>9, <1>10, <1>11, <1>12, Settled
  <1>13. CASE spot' = "end"
    BY <1>9, <1>10, <1>13, Settled
  <1>. QED  BY <1>2, <1>12, <1>13

LEMMA StepSetTold == HttpInv /\ (SetTold \/ UNCHANGED httpVars) => HttpInv'
  <1> SUFFICES ASSUME HttpInv, SetTold \/ UNCHANGED httpVars PROVE HttpInv'
    OBVIOUS
  <1>1. UNCHANGED <<plan, net, spot, bytesVars, handled>>
    BY DEF SetTold, httpVars
  <1>2. UNCHANGED <<plan, net, spot, buf, rest, need, size, total, handled>>
    BY <1>1 DEF bytesVars
  <1>3. HttpTyped' /\ HandledAsSent' /\ This' = This /\ Pieces' = Pieces
    BY <1>2, SameRequest DEF HttpInv, HttpTyped
  <1>4. InRequest' /\ InChunks' /\ AtHead' /\ AtBody' /\ AtRefused'
    BY <1>2, <1>3, SameRequest DEF HttpInv, InRequest, InChunks, AtHead, AtBody, AtRefused, TooLong
  <1>5. AtChunk'
    BY <1>2, <1>3, SameRequest DEF HttpInv, AtChunk
  <1>6. AtData'
    BY <1>2, <1>3, SameRequest DEF HttpInv, AtData
  <1>7. AtTrailer' /\ AtHandle'
    BY <1>2, <1>3, SameRequest DEF HttpInv, AtTrailer, AtHandle
  <1>. QED  BY <1>3, <1>4, <1>5, <1>6, <1>7 DEF HttpInv

-----------------------------------------------------------------------------
(* The steps that read chunks.                                             *)

(* b is what has been read of the body, up to piece j.                     *)
BodySoFar(b, j) == buf = HeadBytes(This) \o b /\ b \o FromPiece(j) = Body(plan[This])

SizeOf(j) == IF j <= Len(Pieces) THEN Len(Pieces[j]) ELSE 0
AfterLine(j) ==
    IF j <= Len(Pieces) THEN Pieces[j] \o (CRLF \o FromChunk(j + 1))
                        ELSE TrailerOf(plan[This]) \o (CRLF \o Stream(This + 1))

LEMMA LinesBegin ==
    ASSUME HttpTyped, This \in 1..Len(plan), NEW j \in 1..(Len(Pieces) + 1)
    PROVE  /\ SizeOf(j) \in Nat /\ AfterLine(j) \in Bytes /\ FromChunk(j) \in Bytes
           /\ FromChunk(j) = (Number1(SizeOf(j)) \o CRLF) \o AfterLine(j)
  <1>1. /\ plan \in Plans /\ Len(Pieces) \in Nat /\ CRLF \in Bytes /\ Stream(This + 1) \in Bytes
        /\ TrailerOf(plan[This]) \in Bytes
    BY PiecesAre, LineBytes, Here, TrailerTyped DEF HttpTyped
  <1>2. FromChunk(j) \in Bytes
    BY <1>1, ChunksAre
  <1>3. CASE j <= Len(Pieces)
    <2>1. j \in 1..Len(Pieces) /\ j + 1 \in 1..(Len(Pieces) + 1)
      BY <1>1, <1>3
    <2>2. Pieces[j] \in Bytes /\ FromChunk(j + 1) \in Bytes
      BY <1>1, <2>1, PiecesAre, ChunksAre
    <2>3. Len(Pieces[j]) \in Nat
      BY <2>2, LenProperties DEF Bytes
    <2>4. PICK w \in Bytes : w = CRLF \o FromChunk(j + 1)
      BY <1>1, <2>2, Cat
    <2>5. Pieces[j] \o w \in Bytes
      BY <2>2, Cat
    <2>6. FromChunk(j) = (Number1(Len(Pieces[j])) \o CRLF) \o (Pieces[j] \o (CRLF \o FromChunk(j + 1)))
      BY <1>1, <2>1, ChunksAre
    <2>. QED  BY <1>2, <1>3, <2>3, <2>4, <2>5, <2>6 DEF SizeOf, AfterLine
  <1>4. CASE ~ (j <= Len(Pieces))
    <2>1. j = Len(Pieces) + 1
      BY <1>1, <1>4
    <2>2. PICK w \in Bytes : w = CRLF \o Stream(This + 1)
      BY <1>1, Cat
    <2>3. TrailerOf(plan[This]) \o w \in Bytes
      BY <1>1, Cat
    <2>4. FromChunk(j) = (Number1(0) \o CRLF) \o (TrailerOf(plan[This]) \o (CRLF \o Stream(This + 1)))
      BY <1>1, <2>1, ChunksAre
    <2>. QED  BY <1>2, <1>4, <2>2, <2>3, <2>4 DEF SizeOf, AfterLine
  <1>. QED  BY <1>3, <1>4

InThis == HttpTyped /\ HandledAsSent /\ This \in 1..Len(plan) /\ plan[This].framing = "chunks"

LEMMA InThisChunk ==
    ASSUME HttpInv, spot \in {"chunk", "data", "trailer"}
    PROVE  InThis /\ plan \in Plans /\ buf \in Bytes /\ net \in Bytes /\ rest \in Bytes
           /\ Len(buf) \in Nat /\ Len(rest) \in Nat /\ Len(net) \in Nat
  <1>1. HttpTyped /\ HandledAsSent /\ This <= Len(plan) /\ plan[This].framing = "chunks"
    BY DEF HttpInv, InRequest, InChunks
  <1>2. plan \in Plans /\ buf \in Bytes /\ net \in Bytes /\ rest \in Bytes
    BY <1>1 DEF HttpTyped
  <1>3. Len(buf) \in Nat /\ Len(rest) \in Nat /\ Len(net) \in Nat
    BY <1>2, Cat
  <1>. QED  BY <1>1, <1>2, <1>3, Here DEF InThis

(* Where the end of the line is, tells at what line rest begins.           *)
LEMMA ChunkLine ==
    ASSUME HttpInv, spot = "chunk"
    PROVE  \E j \in 1..(Len(Pieces) + 1), b \in Bytes :
              /\ BodySoFar(b, j)
              /\ \/ rest \o net = CRLF \o FromChunk(j) /\ LineEnd = IF Len(rest) >= 2 THEN 1 ELSE 0
                 \/ /\ rest \o net = FromChunk(j) /\ LineEnd = IF Len(rest) >= 3 THEN 2 ELSE 0
                    /\ Len(rest) >= 1 => rest[1] = <<"number", SizeOf(j)>>
  <1>1. InThis /\ rest \in Bytes /\ net \in Bytes
    BY InThisChunk
  <1>2. PICK j \in 1..(Len(Pieces) + 1), b \in Bytes :
           BodySoFar(b, j) /\ rest \o net \in {FromChunk(j), CRLF \o FromChunk(j)}
    BY DEF HttpInv, AtChunk, BodySoFar
  <1>3. /\ SizeOf(j) \in Nat /\ AfterLine(j) \in Bytes /\ FromChunk(j) \in Bytes
        /\ FromChunk(j) = (Number1(SizeOf(j)) \o CRLF) \o AfterLine(j)
    BY <1>1, LinesBegin DEF InThis
  <1>4. CASE rest \o net = CRLF \o FromChunk(j)
    <2>1. LineEnd = IF Len(rest) >= 2 THEN 1 ELSE 0
      BY <1>1, <1>3, <1>4, FindAtEnd DEF LineEnd
    <2>. QED  BY <1>2, <1>4, <2>1
  <1>5. CASE rest \o net = FromChunk(j)
    <2> DEFINE c == <<"number", SizeOf(j)>>
    <2>1. c \in Byte /\ c # CR
      BY <1>3, NumberIs
    <2>2. rest \o net = (<<c>> \o CRLF) \o AfterLine(j)
      BY <1>3, <1>5 DEF Number1
    <2> HIDE DEF c
    <2>3. /\ LineEnd = IF Len(rest) >= 3 THEN 2 ELSE 0
          /\ Len(rest) >= 1 => rest[1] = c
      BY <1>1, <1>3, <2>1, <2>2, FindInLine DEF LineEnd
    <2>. QED  BY <1>2, <1>5, <2>3 DEF c
  <1>. QED  BY <1>2, <1>4, <1>5

LEMMA NumberRead ==
    ASSUME HttpInv, spot = "chunk", LineEnd > 1
    PROVE  \E j \in 1..(Len(Pieces) + 1), b \in Bytes :
              /\ BodySoFar(b, j) /\ rest \o net = FromChunk(j)
              /\ LineEnd = 2 /\ Len(rest) >= 3 /\ Number = SizeOf(j)
  <1>1. PICK j \in 1..(Len(Pieces) + 1), b \in Bytes :
              /\ BodySoFar(b, j)
              /\ \/ rest \o net = CRLF \o FromChunk(j) /\ LineEnd = IF Len(rest) >= 2 THEN 1 ELSE 0
                 \/ /\ rest \o net = FromChunk(j) /\ LineEnd = IF Len(rest) >= 3 THEN 2 ELSE 0
                    /\ Len(rest) >= 1 => rest[1] = <<"number", SizeOf(j)>>
    BY ChunkLine
  <1>2. Len(rest) \in Nat
    BY InThisChunk
  <1>3. rest \o net = FromChunk(j) /\ LineEnd = 2 /\ Len(rest) >= 3 /\ rest[1] = <<"number", SizeOf(j)>>
    BY <1>1, <1>2
  <1>4. rest[1][1] = "number" /\ rest[1][2] = SizeOf(j)
    BY ONLY <1>3
  <1>5. Number = SizeOf(j)
    BY <1>3, <1>4 DEF Number
  <1>. QED  BY <1>1, <1>3, <1>5

(* What is added to the buffer is added to the body.                       *)
LEMMA BodyGrows ==
    ASSUME NEW h \in Bytes, NEW b \in Bytes, NEW x \in Bytes, NEW y \in Bytes,
           NEW s, NEW body, Joins(h, b, s), NEW w, Joins(x, y, w), Joins(b, w, body)
    PROVE  /\ b \o x \in Bytes /\ Joins(h, b \o x, s \o x) /\ Joins(b \o x, y, body)
  <1>1. b \o x \in Bytes
    BY Cat
  <1>2. Assoc(h, b, x) /\ Assoc(b, x, y)
    BY CatThree
  <1>. QED  BY <1>1, <1>2 DEF Joins, Assoc

LEMMA NextChunkInv ==
    ASSUME InThis, HttpTyped', UNCHANGED <<plan, handled>>, NextChunk,
           NEW j \in 1..(Len(Pieces) + 1), NEW b \in Bytes,
           Joins(HeadBytes(This), b, buf'), Joins(b, FromPiece(j), Body(plan[This])),
           (rest \o net)' = FromChunk(j) \/ (rest \o net)' = CRLF \o FromChunk(j)
    PROVE  HttpInv'
  <1>1. /\ plan \in Plans /\ This \in 1..Len(plan) /\ plan[This].framing = "chunks" /\ HandledAsSent
        /\ This \in Nat /\ HttpTyped /\ This <= Len(plan)
    BY Here DEF InThis, HttpTyped
  <1>2. /\ plan' = plan /\ HandledAsSent' /\ This' = This /\ Pieces' = Pieces
        /\ FromChunk(j)' = FromChunk(j) /\ FromPiece(j)' = FromPiece(j)
    BY <1>1, SameRequest
  <1>3. Len(buf') = 5 + Len(b) /\ Len(b) \in Nat
    <2>1. HeadBytes(This) \in Bytes /\ Len(HeadBytes(This)) = 5
      BY <1>1, HeadIs
    <2>2. Len(HeadBytes(This) \o b) = Len(HeadBytes(This)) + Len(b) /\ Len(b) \in Nat
      BY <2>1, Cat
    <2>. QED  BY <2>1, <2>2 DEF Joins
  <1>4. CASE Len(buf') - 5 > MaxBody
    <2>1. spot' = "refused"
      BY <1>4 DEF NextChunk, Move
    <2>2. FromPiece(j) \in Bytes
      BY <1>1, PiecesAre
    <2>3. Len(b \o FromPiece(j)) = Len(b) + Len(FromPiece(j)) /\ Len(FromPiece(j)) \in Nat
      BY <2>2, Cat
    <2>4. Len(Body(plan[This])) = Len(b) + Len(FromPiece(j))
      BY <2>3 DEF Joins
    <2>5. Len(Body(plan[This])) > MaxBody
      BY <1>3, <1>4, <2>3, <2>4, HttpAssumption
    <2>6. AtRefused'
      BY <1>2, <2>5 DEF AtRefused, TooLong
    <2>. QED  BY <1>1, <1>2, <2>1, <2>6, Settled
  <1>5. CASE ~ (Len(buf') - 5 > MaxBody)
    <2>1. spot' = "chunk"
      BY <1>5 DEF NextChunk, Move
    <2>2. AtChunk'
      BY <1>2 DEF AtChunk, Joins
    <2>. QED  BY <1>1, <1>2, <2>1, <2>2, Settled
  <1>. QED  BY <1>4, <1>5

LEMMA StepHeadWithChunks == HttpInv /\ HeadWithChunks => HttpInv'
  <1> SUFFICES ASSUME HttpInv, HeadWithChunks PROVE HttpInv'
    OBVIOUS
  <1> DEFINE h == HeadBytes(This)
  <1>1. HttpTyped /\ AtHead /\ HandledAsSent
    BY DEF HttpInv
  <1>2. /\ spot = "head" /\ WellFormed /\ Parsed.framing = "chunks"
        /\ buf' = SubSeq(buf, 1, 5) /\ rest' = From(buf, 6) /\ spot' = "chunk"
        /\ UNCHANGED <<plan, net, need, size, total, handled>>
    BY DEF HeadWithChunks, Move
  <1>3. This \in 1..Len(plan) /\ plan[This].framing = "chunks" /\ Len(buf) >= 5 /\ This \in Nat
        /\ This <= Len(plan)
    BY <1>1, <1>2, HeadFound, Here DEF WellFormed
  <1>4. plan \in Plans /\ buf \in Bytes /\ net \in Bytes /\ buf \o net = Stream(This)
    BY <1>1, <1>2 DEF HttpTyped, AtHead
  <1>5. h \in Bytes /\ Len(h) = 5
    BY <1>3, HeadIs
  <1>6. /\ FromChunk(1) \in Bytes /\ FromPiece(1) = Body(plan[This]) /\ FromPiece(1) \in Bytes
        /\ 1 \in 1..(Len(Pieces) + 1) /\ Stream(This) = h \o FromChunk(1)
    <2>1. Len(Pieces) \in Nat
      BY <1>3, <1>4, PiecesAre
    <2>2. 1 \in 1..(Len(Pieces) + 1)
      BY <2>1
    <2>. QED  BY <1>3, <1>4, <2>2, PiecesAre, ChunksAre
  <1> HIDE DEF h
  <1>7. Same(buf, net, h, FromChunk(1))
    BY <1>4, <1>6 DEF Same
  <1>8. From(buf, 6) \in Bytes /\ Joins(h, From(buf, 6), buf) /\ Joins(From(buf, 6), net, FromChunk(1))
    <2>1. Len(h) + 1 = 6
      BY <1>5
    <2>2. /\ From(buf, Len(h) + 1) \in Bytes /\ Joins(h, From(buf, Len(h) + 1), buf)
          /\ Joins(From(buf, Len(h) + 1), net, FromChunk(1))
      BY <1>3, <1>4, <1>5, <1>6, <1>7, Longer
    <2>. QED  BY <2>1, <2>2
  <1>9. SubSeq(buf, 1, 5) = h
    <2>1. PICK x \in Bytes : x = From(buf, 6)
      BY <1>8
    <2>2. SubSeq(h \o x, 1, Len(h)) = h
      BY <1>5, Cut
    <2>3. buf = h \o x
      BY <1>8, <2>1 DEF Joins
    <2>. QED  BY <1>5, <2>2, <2>3
  <1>10. HttpTyped'
    BY <1>1, <1>2, <1>5, <1>8, <1>9 DEF HttpTyped
  <1>11. /\ HandledAsSent' /\ This' = This /\ Pieces' = Pieces /\ plan' = plan
         /\ FromChunk(1)' = FromChunk(1) /\ FromPiece(1)' = FromPiece(1)
    BY <1>1, <1>2, SameRequest
  <1>12. h \o <<>> = h /\ <<>> \o FromPiece(1) = FromPiece(1) /\ <<>> \in Bytes
    BY <1>5, <1>6, CatNone
  <1>13. AtChunk'
    <2>1. buf' = HeadBytes(This') \o <<>>
      BY <1>2, <1>9, <1>11, <1>12 DEF h
    <2>2. <<>> \o FromPiece(1)' = Body(plan'[This'])
      BY <1>6, <1>11, <1>12
    <2>3. rest' \o net' = FromChunk(1)'
      BY <1>2, <1>8, <1>11 DEF Joins
    <2>. QED  BY <1>6, <1>11, <1>12, <2>1, <2>2, <2>3 DEF AtChunk
  <1>. QED  BY <1>2, <1>3, <1>10, <1>11, <1>13, Settled

LEMMA StepRecvRest ==
    ASSUME HttpInv, NEW n \in 1..Len(net), RecvRest(n)
    PROVE  HttpInv'
  <1>1. /\ spot \in {"chunk", "trailer"} /\ net' = From(net, n + 1) /\ rest' = rest \o SubSeq(net, 1, n)
        /\ spot' = spot /\ UNCHANGED <<plan, buf, need, size, total, handled>>
    BY DEF RecvRest, Receive
  <1>2. /\ InThis /\ plan \in Plans /\ net \in Bytes /\ rest \in Bytes
        /\ HttpTyped /\ HandledAsSent /\ This <= Len(plan) /\ plan[This].framing = "chunks"
    BY <1>1, InThisChunk, Here DEF InThis
  <1>3. n \in 0..Len(net)
    BY <1>2, LenProperties DEF Bytes
  <1>4. net' \in Bytes /\ rest' \in Bytes /\ rest' \o net' = rest \o net
    BY <1>1, <1>2, <1>3, Read
  <1>5. HttpTyped'
    BY <1>1, <1>2, <1>4 DEF HttpTyped
  <1>6. HandledAsSent' /\ This' = This /\ Pieces' = Pieces
    BY <1>1, <1>2, SameRequest
  <1>7. CASE spot = "chunk"
    <2>1. AtChunk'
      BY <1>1, <1>4, <1>6, <1>7, SameRequest DEF HttpInv, AtChunk
    <2>. QED  BY <1>1, <1>2, <1>5, <1>6, <1>7, <2>1, Settled
  <1>8. CASE spot = "trailer"
    <2>1. AtTrailer'
      BY <1>1, <1>4, <1>6, <1>8, SameRequest DEF HttpInv, AtTrailer
    <2>. QED  BY <1>1, <1>2, <1>5, <1>6, <1>8, <2>1, Settled
  <1>. QED  BY <1>1, <1>7, <1>8

LEMMA StepSkipLineEnd == HttpInv /\ SkipLineEnd => HttpInv'
  <1> SUFFICES ASSUME HttpInv, SkipLineEnd PROVE HttpInv'
    OBVIOUS
  <1>1. /\ spot = "chunk" /\ LineEnd = 1 /\ rest' = From(rest, 3) /\ spot' = spot
        /\ UNCHANGED <<plan, net, buf, need, size, total, handled>>
    BY DEF SkipLineEnd
  <1>2. /\ InThis /\ plan \in Plans /\ net \in Bytes /\ rest \in Bytes /\ Len(rest) \in Nat
        /\ HttpTyped /\ HandledAsSent /\ This \in 1..Len(plan) /\ This <= Len(plan)
        /\ plan[This].framing = "chunks"
    BY <1>1, InThisChunk, Here DEF InThis
  <1>3. PICK j \in 1..(Len(Pieces) + 1), b \in Bytes :
              /\ BodySoFar(b, j)
              /\ \/ rest \o net = CRLF \o FromChunk(j) /\ LineEnd = IF Len(rest) >= 2 THEN 1 ELSE 0
                 \/ /\ rest \o net = FromChunk(j) /\ LineEnd = IF Len(rest) >= 3 THEN 2 ELSE 0
                    /\ Len(rest) >= 1 => rest[1] = <<"number", SizeOf(j)>>
    BY <1>1, ChunkLine
  <1>4. rest \o net = CRLF \o FromChunk(j) /\ Len(rest) >= 2
    <2>1. LineEnd # IF Len(rest) >= 3 THEN 2 ELSE 0
      BY <1>1, <1>2
    <2>2. rest \o net = CRLF \o FromChunk(j) /\ LineEnd = IF Len(rest) >= 2 THEN 1 ELSE 0
      BY <1>3, <2>1, Zenon
    <2>3. Len(rest) >= 2
      BY <1>1, <1>2, <2>2
    <2>. QED  BY <2>2, <2>3
  <1>5. FromChunk(j) \in Bytes /\ CRLF \in Bytes /\ Len(CRLF) = 2
    BY <1>2, ChunksAre, LineBytes
  <1>6. From(rest, 3) \in Bytes /\ Joins(From(rest, 3), net, FromChunk(j))
    <2>1. Same(rest, net, CRLF, FromChunk(j))
      BY <1>4 DEF Same
    <2>2. Len(CRLF) <= Len(rest) /\ Len(CRLF) + 1 = 3
      BY <1>2, <1>4, <1>5
    <2>3. From(rest, Len(CRLF) + 1) \in Bytes /\ Joins(From(rest, Len(CRLF) + 1), net, FromChunk(j))
      BY <1>2, <1>5, <2>1, <2>2, Longer
    <2>. QED  BY <2>2, <2>3
  <1>7. HttpTyped'
    BY <1>1, <1>2, <1>6 DEF HttpTyped
  <1>8. HandledAsSent' /\ This' = This /\ Pieces' = Pieces
    BY <1>1, <1>2, SameRequest
  <1>9. AtChunk'
    BY <1>1, <1>3, <1>6, <1>8, SameRequest DEF AtChunk, Joins, BodySoFar
  <1>. QED  BY <1>1, <1>2, <1>7, <1>8, <1>9, Settled

LEMMA StepChunkError == HttpInv /\ ChunkError => HttpInv'
  <1> SUFFICES ASSUME HttpInv, ChunkError PROVE HttpInv'
    OBVIOUS
  <1>1. /\ spot = "chunk" /\ LineEnd > 1 /\ Number > MaxBody /\ spot' = "refused"
        /\ UNCHANGED <<plan, net, bytesVars, handled>>
    BY DEF ChunkError, Move
  <1>2. InThis /\ plan \in Plans /\ This \in 1..Len(plan)
    BY <1>1, InThisChunk DEF InThis
  <1>3. PICK j \in 1..(Len(Pieces) + 1), b \in Bytes : BodySoFar(b, j) /\ Number = SizeOf(j)
    BY <1>1, NumberRead
  <1>4. j \in 1..Len(Pieces) /\ Len(Pieces[j]) > MaxBody
    <2>1. MaxBody \in Nat /\ Len(Pieces) \in Nat
      BY <1>2, HttpAssumption, PiecesAre
    <2>2. SizeOf(j) > MaxBody
      BY <1>1, <1>3
    <2>3. j <= Len(Pieces)
      BY <2>1, <2>2 DEF SizeOf
    <2>. QED  BY <2>1, <2>2, <2>3 DEF SizeOf
  <1>5. Pieces[j] \in Bytes /\ FromPiece(j + 1) \in Bytes /\ FromPiece(j) = Pieces[j] \o FromPiece(j + 1)
    <2>1. Len(Pieces) \in Nat
      BY <1>2, PiecesAre
    <2>2. j + 1 \in 1..(Len(Pieces) + 1)
      BY <1>4, <2>1
    <2>. QED  BY <1>2, <1>4, <2>2, PiecesAre
  <1>6. PICK w \in Bytes : w = Pieces[j] \o FromPiece(j + 1) /\ Len(w) = Len(Pieces[j]) + Len(FromPiece(j + 1))
    BY <1>5, Cat
  <1>7. Len(b \o w) = Len(b) + Len(w) /\ Len(b) \in Nat
    BY Cat
  <1>8. Len(Pieces[j]) \in Nat /\ Len(FromPiece(j + 1)) \in Nat
    BY <1>5, Cat
  <1>9. Len(Body(plan[This])) = Len(b) + Len(w)
    BY <1>3, <1>5, <1>6, <1>7 DEF BodySoFar
  <1>10. TooLong(plan[This])
    <2> DEFINE total1 == Len(Body(plan[This]))
               part == Len(Pieces[j])
               more == Len(FromPiece(j + 1))
    <2>1. total1 = Len(b) + (part + more) /\ part > MaxBody
      BY <1>4, <1>6, <1>7, <1>9
    <2>2. Len(b) \in Nat /\ part \in Nat /\ more \in Nat /\ MaxBody \in Nat
      BY <1>7, <1>8, HttpAssumption
    <2> HIDE DEF total1, part, more
    <2>3. total1 > MaxBody
      BY <2>1, <2>2
    <2>. QED  BY <2>3 DEF TooLong, total1
  <1>. QED  BY <1>1, <1>2, <1>10, Refused

(* The same of buf and the body of the request that is read.               *)
LEMMA BufGrows ==
    ASSUME NEW b \in Bytes, NEW p \in Bytes, NEW e \in Bytes, NEW j,
           buf \in Bytes, HeadBytes(This) \in Bytes,
           Joins(HeadBytes(This), b, buf), Joins(b, FromPiece(j), Body(plan[This])),
           Joins(p, e, FromPiece(j))
    PROVE  /\ b \o p \in Bytes /\ Joins(HeadBytes(This), b \o p, buf \o p)
           /\ Joins(b \o p, e, Body(plan[This]))
  <1>1. PICK h \in Bytes : h = HeadBytes(This)
    OBVIOUS
  <1>2. PICK w : w = FromPiece(j)
    OBVIOUS
  <1>3. PICK g : g = Body(plan[This])
    OBVIOUS
  <1>4. PICK s \in Bytes : s = buf
    OBVIOUS
  <1>5. Joins(h, b, s) /\ Joins(p, e, w) /\ Joins(b, w, g)
    BY <1>1, <1>2, <1>3, <1>4
  <1>6. b \o p \in Bytes /\ Joins(h, b \o p, s \o p) /\ Joins(b \o p, e, g)
    BY ONLY <1>5, BodyGrows, h \in Bytes, b \in Bytes, p \in Bytes, e \in Bytes
  <1>. QED  BY <1>1, <1>3, <1>4, <1>6

(* A chunk with bytes is one of those sent.                                *)
LEMMA ChunkRead ==
    ASSUME HttpInv, spot = "chunk", LineEnd > 1, Number \in 1..MaxBody
    PROVE  \E j \in 1..Len(Pieces), b \in Bytes, l \in Bytes :
              /\ Joins(HeadBytes(This), b, buf) /\ Joins(b, FromPiece(j), Body(plan[This]))
              /\ Joins(Pieces[j], FromPiece(j + 1), FromPiece(j))
              /\ LineEnd = 2 /\ Len(rest) >= 3 /\ Number = Len(Pieces[j]) /\ Len(l) = 3
              /\ Same(rest, net, l, Pieces[j] \o (CRLF \o FromChunk(j + 1)))
              /\ Pieces[j] \in Bytes /\ FromPiece(j + 1) \in Bytes /\ FromChunk(j + 1) \in Bytes
              /\ j + 1 \in 1..(Len(Pieces) + 1)
  <1>1. InThis /\ plan \in Plans /\ This \in 1..Len(plan) /\ HttpTyped
    BY InThisChunk DEF InThis
  <1>2. PICK j \in 1..(Len(Pieces) + 1), b \in Bytes :
              /\ BodySoFar(b, j) /\ rest \o net = FromChunk(j)
              /\ LineEnd = 2 /\ Len(rest) >= 3 /\ Number = SizeOf(j)
    BY NumberRead
  <1>3. Len(Pieces) \in Nat
    BY <1>1, PiecesAre
  <1>4. j \in 1..Len(Pieces) /\ j + 1 \in 1..(Len(Pieces) + 1) /\ j <= Len(Pieces)
    <2>1. SizeOf(j) # 0
      BY <1>2
    <2>2. j <= Len(Pieces)
      BY <2>1 DEF SizeOf
    <2>. QED  BY <1>3, <2>2
  <1>5. /\ Pieces[j] \in Bytes /\ FromPiece(j + 1) \in Bytes /\ FromChunk(j + 1) \in Bytes
        /\ FromPiece(j) = Pieces[j] \o FromPiece(j + 1)
    BY <1>1, <1>4, PiecesAre, ChunksAre
  <1>6. PICK l \in Bytes : l = Number1(SizeOf(j)) \o CRLF /\ Len(l) = 3
    <2>1. SizeOf(j) \in Nat
      BY <1>1, LinesBegin
    <2>. QED  BY <2>1, NumberIs
  <1>7. FromChunk(j) = l \o (Pieces[j] \o (CRLF \o FromChunk(j + 1)))
    <2>1. FromChunk(j) = (Number1(SizeOf(j)) \o CRLF) \o AfterLine(j)
      BY <1>1, LinesBegin
    <2>2. AfterLine(j) = Pieces[j] \o (CRLF \o FromChunk(j + 1))
      BY <1>4 DEF AfterLine
    <2>. QED  BY <1>6, <2>1, <2>2
  <1>8. Number = Len(Pieces[j])
    BY <1>2, <1>4 DEF SizeOf
  <1>9. Same(rest, net, l, Pieces[j] \o (CRLF \o FromChunk(j + 1)))
    BY <1>2, <1>7 DEF Same
  <1>10. /\ Joins(HeadBytes(This), b, buf) /\ Joins(b, FromPiece(j), Body(plan[This]))
         /\ Joins(Pieces[j], FromPiece(j + 1), FromPiece(j))
    BY <1>2, <1>5 DEF BodySoFar, Joins
  <1>. QED  BY <1>2, <1>4, <1>5, <1>6, <1>8, <1>9, <1>10

LEMMA StepWholeChunk == HttpInv /\ WholeChunk => HttpInv'
  <1> SUFFICES ASSUME HttpInv, WholeChunk PROVE HttpInv'
    OBVIOUS
  <1>1. /\ spot = "chunk" /\ LineEnd > 1 /\ Number \in 1..MaxBody
        /\ Len(rest) >= LineEnd + 1 + Number
        /\ buf' = buf \o SubSeq(rest, LineEnd + 2, LineEnd + 1 + Number)
        /\ rest' = From(rest, IF Len(rest) >= LineEnd + 3 + Number THEN LineEnd + 4 + Number
                                                                   ELSE LineEnd + 2 + Number)
        /\ NextChunk
        /\ UNCHANGED <<plan, net, need, size, total, handled>>
    BY DEF WholeChunk
  <1>2. PICK j \in 1..Len(Pieces), b \in Bytes, l \in Bytes :
              /\ Joins(HeadBytes(This), b, buf) /\ Joins(b, FromPiece(j), Body(plan[This]))
              /\ Joins(Pieces[j], FromPiece(j + 1), FromPiece(j))
              /\ LineEnd = 2 /\ Len(rest) >= 3 /\ Number = Len(Pieces[j]) /\ Len(l) = 3
              /\ Same(rest, net, l, Pieces[j] \o (CRLF \o FromChunk(j + 1)))
              /\ Pieces[j] \in Bytes /\ FromPiece(j + 1) \in Bytes /\ FromChunk(j + 1) \in Bytes
              /\ j + 1 \in 1..(Len(Pieces) + 1)
    BY <1>1, ChunkRead
  <1>3. /\ InThis /\ net \in Bytes /\ rest \in Bytes /\ Len(rest) \in Nat /\ buf \in Bytes /\ HttpTyped
        /\ HeadBytes(This) \in Bytes
    BY <1>1, InThisChunk, HeadIs, Here DEF InThis
  <1>4. PICK p \in Bytes : p = Pieces[j]
    BY <1>2
  <1>5. PICK F \in Bytes : F = FromChunk(j + 1)
    BY <1>2
  <1>6. PICK c \in Nat : c = Len(p)
    BY <1>4, LenProperties DEF Bytes
  <1>7. CRLF \in Bytes /\ Len(CRLF) = 2
    BY LineBytes
  <1>8. PICK v \in Bytes : v = CRLF \o F
    BY <1>5, <1>7, Cat
  <1>9. PICK u \in Bytes : u = l \o p /\ Len(u) = 3 + c
    <2>1. l \o p \in Bytes /\ Len(l \o p) = Len(l) + Len(p)
      BY Cat
    <2>. QED  BY <1>2, <1>6, <2>1
  <1>10. /\ Len(rest) >= 3 + c /\ buf' = buf \o SubSeq(rest, 4, 3 + c)
         /\ rest' = From(rest, IF Len(rest) >= 5 + c THEN 6 + c ELSE 4 + c)
    <2>1. LineEnd = 2 /\ Number = c
      BY <1>2, <1>4, <1>6
    <2>2. 2 + 1 + c = 3 + c /\ 2 + 2 = 4 /\ 2 + 3 + c = 5 + c /\ 2 + 4 + c = 6 + c /\ 2 + 2 + c = 4 + c
      OBVIOUS
    <2>. QED  BY <1>1, <2>1, <2>2
  <1>11. Same(rest, net, u, v)
    <2>1. Assoc(l, p, v)
      BY CatThree
    <2>. QED  BY <1>2, <1>4, <1>5, <1>8, <1>9, <2>1 DEF Same, Assoc
  <1>12. PICK x \in Bytes : x = From(rest, 4 + c) /\ Joins(u, x, rest) /\ Joins(x, net, v)
    <2>1. Len(u) <= Len(rest) /\ Len(u) + 1 = 4 + c
      BY <1>3, <1>9, <1>10
    <2>2. /\ From(rest, Len(u) + 1) \in Bytes
          /\ Joins(u, From(rest, Len(u) + 1), rest) /\ Joins(From(rest, Len(u) + 1), net, v)
      BY <1>3, <1>11, <2>1, Longer
    <2>. QED  BY <2>1, <2>2
  <1>13. SubSeq(rest, 4, 3 + c) = p
    <2>1. PICK y \in Bytes : Joins(p, x, y)
      <3>1. p \o x \in Bytes
        BY Cat
      <3>. QED  BY <3>1 DEF Joins
    <2>2. Joins(l, y, rest)
      <3>1. Assoc(l, p, x)
        BY CatThree
      <3>. QED  BY <1>9, <1>12, <2>1, <3>1 DEF Joins, Assoc
    <2>3. SubSeq(rest, Len(l) + 1, Len(l) + Len(p)) = p
      BY <2>1, <2>2, Middle
    <2>. QED  BY <1>2, <1>6, <2>3
  <1>14. PICK d \in Bytes : Joins(HeadBytes(This), d, buf') /\ Joins(d, FromPiece(j + 1), Body(plan[This]))
                            /\ buf' \in Bytes
    <2>1. PICK e \in Bytes : e = FromPiece(j + 1)
      BY <1>2
    <2>2. Joins(p, e, FromPiece(j))
      BY <1>2, <1>4, <2>1
    <2>3. b \o p \in Bytes /\ Joins(HeadBytes(This), b \o p, buf \o p) /\ Joins(b \o p, e, Body(plan[This]))
      BY <1>2, <1>3, <2>2, BufGrows
    <2>4. buf' = buf \o p /\ buf \o p \in Bytes
      BY <1>3, <1>10, <1>13, Cat
    <2>. QED  BY <2>1, <2>3, <2>4
  <1>15. rest' \in Bytes /\ (rest' \o net = F \/ rest' \o net = CRLF \o F)
    <2>1. CASE Len(rest) >= 5 + c
      <3>1. PICK z \in Bytes : z = u \o CRLF /\ Len(z) = 5 + c
        <4>1. u \o CRLF \in Bytes /\ Len(u \o CRLF) = Len(u) + Len(CRLF)
          BY <1>7, Cat
        <4>2. Len(u) + Len(CRLF) = 5 + c
          BY <1>7, <1>9
        <4>. QED  BY <4>1, <4>2
      <3>2. Same(rest, net, z, F)
        <4>1. Assoc(u, CRLF, F)
          BY <1>7, CatThree
        <4>. QED  BY <1>8, <1>11, <3>1, <4>1 DEF Same, Assoc
      <3>3. Len(z) <= Len(rest) /\ Len(z) + 1 = 6 + c
        BY <1>3, <2>1, <3>1
      <3>4. From(rest, Len(z) + 1) \in Bytes /\ Joins(From(rest, Len(z) + 1), net, F)
        BY <1>3, <3>2, <3>3, Longer
      <3>. QED  BY <1>10, <2>1, <3>3, <3>4 DEF Joins
    <2>2. CASE ~ (Len(rest) >= 5 + c)
      BY <1>8, <1>10, <1>12, <2>2 DEF Joins
    <2>. QED  BY <2>1, <2>2
  <1>16. HttpTyped'
    BY <1>1, <1>3, <1>14, <1>15 DEF HttpTyped
  <1>17. (rest \o net)' = FromChunk(j + 1) \/ (rest \o net)' = CRLF \o FromChunk(j + 1)
    BY <1>1, <1>5, <1>15
  <1>. QED  BY <1>1, <1>2, <1>3, <1>14, <1>16, <1>17, NextChunkInv

LEMMA StepPartOfChunk == HttpInv /\ PartOfChunk => HttpInv'
  <1> SUFFICES ASSUME HttpInv, PartOfChunk PROVE HttpInv'
    OBVIOUS
  <1>1. /\ spot = "chunk" /\ LineEnd > 1 /\ Number \in 1..MaxBody
        /\ Len(rest) < LineEnd + 1 + Number
        /\ buf' = buf \o From(rest, LineEnd + 2)
        /\ need' = LineEnd + 1 + Number - Len(rest) + 2 /\ spot' = "data"
        /\ UNCHANGED <<plan, net, rest, size, total, handled>>
    BY DEF PartOfChunk, Move
  <1>2. PICK j \in 1..Len(Pieces), b \in Bytes, l \in Bytes :
              /\ Joins(HeadBytes(This), b, buf) /\ Joins(b, FromPiece(j), Body(plan[This]))
              /\ Joins(Pieces[j], FromPiece(j + 1), FromPiece(j))
              /\ LineEnd = 2 /\ Len(rest) >= 3 /\ Number = Len(Pieces[j]) /\ Len(l) = 3
              /\ Same(rest, net, l, Pieces[j] \o (CRLF \o FromChunk(j + 1)))
              /\ Pieces[j] \in Bytes /\ FromPiece(j + 1) \in Bytes /\ FromChunk(j + 1) \in Bytes
              /\ j + 1 \in 1..(Len(Pieces) + 1)
    BY <1>1, ChunkRead
  <1>3. /\ InThis /\ net \in Bytes /\ rest \in Bytes /\ Len(rest) \in Nat /\ buf \in Bytes /\ HttpTyped
        /\ HeadBytes(This) \in Bytes /\ HandledAsSent /\ This <= Len(plan)
        /\ plan[This].framing = "chunks"
    BY <1>1, InThisChunk, HeadIs, Here DEF InThis
  <1>4. PICK p \in Bytes : p = Pieces[j]
    BY <1>2
  <1>5. PICK F \in Bytes : F = FromChunk(j + 1)
    BY <1>2
  <1>6. PICK c \in Nat : c = Len(p)
    BY <1>4, LenProperties DEF Bytes
  <1>7. PICK v \in Bytes : v = CRLF \o F
    BY <1>5, LineBytes, Cat
  <1>8. PICK w \in Bytes : w = p \o v
    BY Cat
  <1>9. /\ Len(rest) < 3 + c /\ buf' = buf \o From(rest, 4) /\ need' = 3 + c - Len(rest) + 2
    <2>1. LineEnd = 2 /\ Number = c
      BY <1>2, <1>4, <1>6
    <2>2. 2 + 1 + c = 3 + c /\ 2 + 2 = 4
      OBVIOUS
    <2>. QED  BY <1>1, <2>1, <2>2
  <1>10. Same(rest, net, l, w)
    BY <1>2, <1>4, <1>5, <1>7, <1>8
  <1>11. PICK x \in Bytes : x = From(rest, 4) /\ Len(x) = Len(rest) - 3 /\ Joins(x, net, w)
    <2>1. Len(l) <= Len(rest) /\ Len(l) + 1 = 4
      BY <1>2
    <2>2. /\ From(rest, Len(l) + 1) \in Bytes /\ Len(From(rest, Len(l) + 1)) = Len(rest) - Len(l)
          /\ Joins(From(rest, Len(l) + 1), net, w)
      BY <1>3, <1>10, <2>1, Longer
    <2>. QED  BY <1>2, <2>1, <2>2
  <1>12. PICK y \in Bytes : Joins(x, y, p) /\ Joins(y, v, net) /\ Len(y) = c - Len(x)
    <2>1. Same(p, v, x, net)
      BY <1>8, <1>11 DEF Same, Joins
    <2>2. Len(x) <= Len(p)
      BY <1>2, <1>3, <1>6, <1>9, <1>11
    <2>3. /\ From(p, Len(x) + 1) \in Bytes /\ Len(From(p, Len(x) + 1)) = Len(p) - Len(x)
          /\ Joins(x, From(p, Len(x) + 1), p) /\ Joins(From(p, Len(x) + 1), v, net)
      BY <1>3, <2>1, <2>2, Longer
    <2>. QED  BY <1>6, <2>3
  <1>13. need' = Len(y) + 2 /\ need' \in Nat
    <2>1. Len(y) = c - (Len(rest) - 3) /\ Len(y) \in Nat
      BY <1>11, <1>12, Cat
    <2>. QED  BY <1>3, <1>9, <2>1
  <1>14. PICK d \in Bytes : Joins(HeadBytes(This), d, buf')
                            /\ Joins(d, y \o FromPiece(j + 1), Body(plan[This])) /\ buf' \in Bytes
    <2>1. PICK e \in Bytes : e = FromPiece(j + 1)
      BY <1>2
    <2>2. PICK z \in Bytes : z = y \o e
      BY Cat
    <2>3. Joins(x, z, FromPiece(j))
      <3>1. Assoc(x, y, e)
        BY CatThree
      <3>2. FromPiece(j) = p \o e /\ p = x \o y
        BY <1>2, <1>4, <1>12, <2>1 DEF Joins
      <3>. QED  BY <2>2, <3>1, <3>2 DEF Joins, Assoc
    <2>4. b \o x \in Bytes /\ Joins(HeadBytes(This), b \o x, buf \o x) /\ Joins(b \o x, z, Body(plan[This]))
      BY <1>2, <1>3, <2>3, BufGrows
    <2>5. buf' = buf \o x /\ buf \o x \in Bytes
      BY <1>3, <1>9, <1>11, Cat
    <2>. QED  BY <2>1, <2>2, <2>4, <2>5
  <1>15. HttpTyped'
    BY <1>1, <1>3, <1>13, <1>14 DEF HttpTyped
  <1>16. /\ HandledAsSent' /\ This' = This /\ Pieces' = Pieces /\ plan' = plan
         /\ FromChunk(j + 1)' = FromChunk(j + 1) /\ FromPiece(j + 1)' = FromPiece(j + 1)
    BY <1>1, <1>3, SameRequest
  <1>17. AtData'
    <2>1. buf' = HeadBytes(This') \o d /\ d \o (y \o FromPiece(j + 1)') = Body(plan'[This'])
      BY <1>14, <1>16 DEF Joins
    <2>2. net' = y \o (CRLF \o FromChunk(j + 1)')
      BY <1>1, <1>5, <1>7, <1>12, <1>16 DEF Joins
    <2>. QED  BY <1>13, <1>16, <2>1, <2>2 DEF AtData
  <1>. QED  BY <1>1, <1>3, <1>15, <1>16, <1>17, Settled

LEMMA StepRecvChunk == HttpInv /\ RecvChunk => HttpInv'
  <1> SUFFICES ASSUME HttpInv, RecvChunk PROVE HttpInv'
    OBVIOUS
  <1>1. /\ spot = "data" /\ need <= Len(net) /\ net' = From(net, need + 1)
        /\ buf' = buf \o SubSeq(net, 1, need - 2) /\ rest' = <<>>
        /\ NextChunk
        /\ UNCHANGED <<plan, need, size, total, handled>>
    BY DEF RecvChunk, Receive
  <1>2. /\ InThis /\ plan \in Plans /\ net \in Bytes /\ buf \in Bytes /\ HttpTyped
        /\ HeadBytes(This) \in Bytes /\ This \in 1..Len(plan)
    BY <1>1, InThisChunk, HeadIs, Here DEF InThis
  <1>3. PICK j \in 1..Len(Pieces), b \in Bytes, y \in Bytes :
          /\ buf = HeadBytes(This) \o b /\ b \o (y \o FromPiece(j + 1)) = Body(plan[This])
          /\ net = y \o (CRLF \o FromChunk(j + 1))
          /\ need = Len(y) + 2
    BY <1>1 DEF HttpInv, AtData
  <1>4. j + 1 \in 1..(Len(Pieces) + 1) /\ FromPiece(j + 1) \in Bytes /\ FromChunk(j + 1) \in Bytes
    <2>1. Len(Pieces) \in Nat
      BY <1>2, PiecesAre
    <2>2. j + 1 \in 1..(Len(Pieces) + 1)
      BY <2>1
    <2>. QED  BY <1>2, <2>2, PiecesAre, ChunksAre
  <1>5. PICK F \in Bytes : F = FromChunk(j + 1)
    BY <1>4
  <1>6. PICK e \in Bytes : e = FromPiece(j + 1)
    BY <1>4
  <1>7. CRLF \in Bytes /\ Len(CRLF) = 2 /\ Len(y) \in Nat
    BY LineBytes, LenProperties DEF Bytes
  <1>8. PICK v \in Bytes : v = CRLF \o F
    BY <1>7, Cat
  <1>9. PICK z \in Bytes : z = y \o CRLF /\ Len(z) = need
    <2>1. y \o CRLF \in Bytes /\ Len(y \o CRLF) = Len(y) + Len(CRLF)
      BY <1>7, Cat
    <2>. QED  BY <1>3, <1>7, <2>1
  <1>10. net = y \o v /\ net = z \o F
    <2>1. Assoc(y, CRLF, F)
      BY <1>7, CatThree
    <2>. QED  BY <1>3, <1>5, <1>8, <1>9, <2>1 DEF Assoc
  <1>11. SubSeq(net, 1, need - 2) = y
    <2>1. SubSeq(y \o v, 1, Len(y)) = y
      BY Cut
    <2>2. need - 2 = Len(y)
      BY <1>3, <1>7
    <2>. QED  BY <1>10, <2>1, <2>2
  <1>12. net' = F
    <2>1. From(z \o F, Len(z) + 1) = F
      BY Cut
    <2>. QED  BY <1>1, <1>9, <1>10, <2>1
  <1>13. PICK d \in Bytes : Joins(HeadBytes(This), d, buf') /\ Joins(d, FromPiece(j + 1), Body(plan[This]))
                            /\ buf' \in Bytes
    <2>1. PICK g \in Bytes : g = y \o e
      BY Cat
    <2>2. PICK h \in Bytes : h = HeadBytes(This)
      BY <1>2
    <2>3. PICK s \in Bytes : s = buf
      BY <1>2
    <2>4. PICK r : r = Body(plan[This])
      OBVIOUS
    <2>5. Joins(h, b, s) /\ Joins(y, e, g) /\ Joins(b, g, r)
      BY <1>3, <1>6, <2>1, <2>2, <2>3, <2>4 DEF Joins
    <2>6. b \o y \in Bytes /\ Joins(h, b \o y, s \o y) /\ Joins(b \o y, e, r)
      BY ONLY <2>5, BodyGrows, h \in Bytes, b \in Bytes, y \in Bytes, e \in Bytes
    <2>7. buf' = s \o y /\ s \o y \in Bytes
      BY <1>1, <1>11, <2>3, Cat
    <2>. QED  BY <1>6, <2>2, <2>4, <2>6, <2>7
  <1>14. rest' \in Bytes /\ rest' \o net' = F
    BY <1>1, <1>12, CatNone
  <1>15. HttpTyped'
    BY <1>1, <1>2, <1>12, <1>13, <1>14 DEF HttpTyped
  <1>16. (rest \o net)' = FromChunk(j + 1)
    BY <1>5, <1>14
  <1>. QED  BY <1>1, <1>2, <1>4, <1>13, <1>15, <1>16, NextChunkInv

LEMMA StepLastChunk == HttpInv /\ LastChunk => HttpInv'
  <1> SUFFICES ASSUME HttpInv, LastChunk PROVE HttpInv'
    OBVIOUS
  <1>1. /\ spot = "chunk" /\ LineEnd > 1 /\ Number = 0
        /\ size' = Len(buf) - 5 /\ rest' = From(rest, LineEnd) /\ spot' = "trailer"
        /\ UNCHANGED <<plan, net, buf, need, total, handled>>
    BY DEF LastChunk, Move
  <1>2. /\ InThis /\ plan \in Plans /\ net \in Bytes /\ rest \in Bytes /\ Len(rest) \in Nat /\ buf \in Bytes
        /\ HttpTyped /\ HandledAsSent /\ This \in 1..Len(plan) /\ This <= Len(plan) /\ This \in Nat
        /\ plan[This].framing = "chunks" /\ Stream(This + 1) \in Bytes
    BY <1>1, InThisChunk, Here DEF InThis
  <1>3. PICK j \in 1..(Len(Pieces) + 1), b \in Bytes :
              /\ BodySoFar(b, j) /\ rest \o net = FromChunk(j)
              /\ LineEnd = 2 /\ Len(rest) >= 3 /\ Number = SizeOf(j)
    BY <1>1, NumberRead
  <1>4. j = Len(Pieces) + 1
    <2>1. Len(Pieces) \in Nat /\ \A i \in 1..Len(Pieces) : Pieces[i] \in Bytes
      BY <1>2, PiecesAre
    <2>2. \A i \in 1..Len(Pieces) : Pieces[i] # <<>>
      BY <1>2, PlanIs DEF Pieces
    <2>3. ASSUME j <= Len(Pieces) PROVE FALSE
      <3>1. j \in 1..Len(Pieces) /\ Len(Pieces[j]) = 0
        BY <1>1, <1>3, <2>1, <2>3 DEF SizeOf
      <3>2. Pieces[j] \in Bytes /\ Pieces[j] # <<>>
        BY <2>1, <2>2, <3>1
      <3>3. Len(Pieces[j]) > 0
        BY <3>2, CatNone
      <3>. QED  BY <3>1, <3>3
    <2>. QED  BY <2>1, <2>3
  <1>5. b = Body(plan[This])
    <2>1. FromPiece(j) = <<>>
      BY <1>2, <1>4, PiecesAre
    <2>2. b \o <<>> = b
      BY CatNone
    <2>. QED  BY <1>3, <2>1, <2>2 DEF BodySoFar
  <1>6. buf = HeadBytes(This) \o b /\ size' = Len(b) /\ size' \in Nat
    <2>1. buf = HeadBytes(This) \o b
      BY <1>3 DEF BodySoFar
    <2>2. HeadBytes(This) \in Bytes /\ Len(HeadBytes(This)) = 5
      BY <1>2, HeadIs
    <2>3. Len(HeadBytes(This) \o b) = Len(HeadBytes(This)) + Len(b) /\ Len(b) \in Nat
      BY <2>2, Cat
    <2>. QED  BY <1>1, <2>1, <2>2, <2>3
  <1>7. PICK x \in Bytes : x = TrailerOf(plan[This]) \o (CRLF \o Stream(This + 1))
    <2>1. PICK w \in Bytes : w = CRLF \o Stream(This + 1)
      BY <1>2, LineBytes, Cat
    <2>2. PICK t \in Bytes : t = TrailerOf(plan[This])
      BY TrailerTyped
    <2>3. t \o w \in Bytes
      BY Cat
    <2>. QED  BY <2>1, <2>2, <2>3
  <1>8. PICK c \in Bytes : c = Number1(0) /\ Len(c) = 1
    <2>1. <<"number", 0>> \in Byte
      BY NumberIs
    <2>. QED  BY <2>1, OneByte DEF Number1
  <1>9. PICK v \in Bytes : v = CRLF \o x
    BY LineBytes, Cat
  <1>10. Same(rest, net, c, v)
    <2>1. FromChunk(j) = (c \o CRLF) \o x
      BY <1>2, <1>4, <1>7, <1>8, ChunksAre
    <2>2. Assoc(c, CRLF, x)
      BY LineBytes, CatThree
    <2>. QED  BY <1>3, <1>9, <2>1, <2>2 DEF Same, Assoc
  <1>11. rest' \in Bytes /\ rest' \o net = v
    <2>1. Len(c) <= Len(rest) /\ Len(c) + 1 = LineEnd
      <3>1. 1 <= Len(rest)
        BY <1>2, <1>3
      <3>2. Len(c) = 1 /\ LineEnd = 2
        BY <1>3, <1>8
      <3>. QED  BY ONLY <3>1, <3>2
    <2>2. From(rest, Len(c) + 1) \in Bytes /\ Joins(From(rest, Len(c) + 1), net, v)
      BY <1>2, <1>10, <2>1, Longer
    <2>. QED  BY <1>1, <2>1, <2>2 DEF Joins
  <1>12. HttpTyped'
    BY <1>1, <1>2, <1>6, <1>11 DEF HttpTyped
  <1>13. /\ HandledAsSent' /\ This' = This /\ plan' = plan
         /\ Stream(This + 1)' = Stream(This + 1)
    <2>1. This' = This /\ Wires' = Wires
      BY <1>1 DEF This, Wires
    <2>2. Stream(This + 1)' = Stream(This + 1)
      BY <2>1 DEF Stream
    <2>. QED  BY <1>1, <1>2, <2>1, <2>2, SameRequest
  <1>14. AtTrailer'
    BY <1>1, <1>5, <1>6, <1>7, <1>9, <1>11, <1>13 DEF AtTrailer
  <1>. QED  BY <1>1, <1>2, <1>12, <1>13, <1>14, Settled

(* Where the trailing headers end, and that there is nothing wrong with    *)
(* them.                                                                   *)
LEMMA TrailerRead ==
    ASSUME HttpInv, spot = "trailer"
    PROVE  \E e \in Bytes :
              /\ rest \o net = e \o Stream(This + 1)
              /\ Len(rest) >= Len(e) <=> Find(rest, EmptyLine) # 0
              /\ Len(rest) >= Len(e) =>
                    /\ Len(e) = Find(rest, EmptyLine) + 3 /\ Len(e) >= 4
                    /\ \/ Find(rest, EmptyLine) = 1
                       \/ Find(rest, EmptyLine) = 4 /\ rest[3][1] = "trailer"
  <1>1. /\ InThis /\ plan \in Plans /\ net \in Bytes /\ rest \in Bytes /\ Len(rest) \in Nat
        /\ This \in 1..Len(plan) /\ Stream(This + 1) \in Bytes
    BY InThisChunk, Here DEF InThis
  <1>2. rest \o net = CRLF \o (TrailerOf(plan[This]) \o (CRLF \o Stream(This + 1)))
    BY DEF HttpInv, AtTrailer
  <1>3. plan[This].trailer \in BOOLEAN
    BY <1>1, PlanIs DEF HttpRequest
  <1>4. rest \o net = (IF plan[This].trailer THEN TrailerEnd ELSE EmptyLine) \o Stream(This + 1)
    <2>1. PICK r : r = plan[This]
      OBVIOUS
    <2>2. PICK v \in Bytes : v = Stream(This + 1)
      BY <1>1
    <2>3. r.trailer \in BOOLEAN
      BY <1>3, <2>1
    <2>4. CRLF \o (TrailerOf(r) \o (CRLF \o v)) = (IF r.trailer THEN TrailerEnd ELSE EmptyLine) \o v
      BY ONLY <2>3, AfterLast, v \in Bytes
    <2>. QED  BY <1>2, <2>1, <2>2, <2>4
  <1>5. CASE plan[This].trailer
    <2>1. rest \o net = TrailerEnd \o Stream(This + 1)
      BY <1>4, <1>5
    <2>2. /\ Find(rest, EmptyLine) = IF Len(rest) >= 7 THEN 4 ELSE 0
          /\ Len(rest) >= 3 => rest[3][1] = "trailer"
      BY <1>1, <2>1, FindTrailer
    <2>3. TrailerEnd \in Bytes /\ Len(TrailerEnd) = 7
      BY TrailerIs
    <2> DEFINE e == TrailerEnd
               k == Find(rest, EmptyLine)
    <2>4. /\ Len(e) = 7 /\ k = (IF Len(rest) >= 7 THEN 4 ELSE 0)
          /\ Len(rest) >= 3 => rest[3][1] = "trailer"
      BY <2>2, <2>3
    <2> HIDE DEF e, k
    <2>5. /\ Len(rest) >= Len(e) <=> k # 0
          /\ Len(rest) >= Len(e) => Len(e) = k + 3 /\ Len(e) >= 4 /\ k = 4 /\ rest[3][1] = "trailer"
      BY <1>1, <2>4
    <2>. QED  BY <2>1, <2>3, <2>5 DEF e, k
  <1>6. CASE ~ plan[This].trailer
    <2>1. rest \o net = EmptyLine \o Stream(This + 1)
      BY <1>4, <1>6
    <2>2. Find(rest, EmptyLine) = IF Len(rest) >= 4 THEN 1 ELSE 0
      BY <1>1, <2>1, FindNoTrailer
    <2>3. EmptyLine \in Bytes /\ Len(EmptyLine) = 4
      BY LineBytes
    <2> DEFINE e == EmptyLine
               k == Find(rest, EmptyLine)
    <2>4. Len(e) = 4 /\ k = (IF Len(rest) >= 4 THEN 1 ELSE 0)
      BY <2>2, <2>3
    <2> HIDE DEF e, k
    <2>5. /\ Len(rest) >= Len(e) <=> k # 0
          /\ Len(rest) >= Len(e) => Len(e) = k + 3 /\ Len(e) >= 4 /\ k = 1
      BY <1>1, <2>4
    <2>. QED  BY <2>1, <2>3, <2>5 DEF e, k
  <1>. QED  BY <1>3, <1>5, <1>6

LEMMA StepTrailer == HttpInv /\ Trailer => HttpInv'
  <1> SUFFICES ASSUME HttpInv, Trailer PROVE HttpInv'
    OBVIOUS
  <1> DEFINE k == Find(rest, EmptyLine)
  <1>1. /\ spot = "trailer" /\ k # 0
        /\ IF Len(rest) = 4 THEN total' = Len(buf) /\ buf' = buf
                            ELSE total' = Len(buf) + k + 3 /\ buf' = buf \o rest
        /\ spot' = (IF k = 1 \/ (k = 4 /\ rest[3][1] = "trailer") THEN "handle" ELSE "refused")
        /\ UNCHANGED <<plan, net, rest, need, size, handled>>
    BY DEF Trailer, Move
  <1>2. /\ InThis /\ plan \in Plans /\ net \in Bytes /\ rest \in Bytes /\ Len(rest) \in Nat /\ buf \in Bytes
        /\ HttpTyped /\ HandledAsSent /\ This \in 1..Len(plan) /\ This <= Len(plan) /\ This \in Nat
        /\ Stream(This + 1) \in Bytes /\ Len(buf) \in Nat
    BY <1>1, InThisChunk, Here DEF InThis
  <1>3. PICK e \in Bytes :
              /\ rest \o net = e \o Stream(This + 1)
              /\ Len(rest) >= Len(e) <=> k # 0
              /\ Len(rest) >= Len(e) =>
                    /\ Len(e) = k + 3 /\ Len(e) >= 4
                    /\ \/ k = 1
                       \/ k = 4 /\ rest[3][1] = "trailer"
    BY <1>1, TrailerRead
  <1> HIDE DEF k
  <1>4. /\ spot' = "handle" /\ Len(rest) >= Len(e) /\ Len(e) = k + 3 /\ Len(e) >= 4
        /\ k \in Nat
    BY <1>1, <1>3
  <1>5. PICK v \in Bytes : v = Stream(This + 1)
    BY <1>2
  <1>6. PICK q \in Bytes : Joins(e, q, rest) /\ Joins(q, net, v) /\ Len(q) = Len(rest) - Len(e)
    <2>1. Same(rest, net, e, v)
      BY <1>3, <1>5 DEF Same
    <2>. QED  BY <1>2, <1>4, <2>1, Longer
  <1>7. PICK h \in Bytes : h = HeadBytes(This) /\ Len(h) = 5 /\ h[1] = <<"head", This>>
    BY <1>2, HeadIs
  <1>8. PICK g \in Bytes : g = Body(plan[This]) /\ Len(g) \in Nat
    BY <1>2, BodyIs
  <1>9. Joins(h, g, buf) /\ size = Len(g)
    BY <1>1, <1>7, <1>8 DEF HttpInv, AtTrailer, Joins
  <1>10. PICK t \in Bytes : buf' = buf \o t /\ total' \in Nat /\ total' <= Len(buf')
                            /\ From(buf', total' + 1) \o net = v
    <2>1. CASE Len(rest) = 4
      <3>1. total' = Len(buf) /\ buf' = buf
        BY <1>1, <2>1
      <3>2. buf \o <<>> = buf /\ <<>> \in Bytes
        BY <1>2, CatNone
      <3>3. From(buf \o <<>>, Len(buf) + 1) = <<>>
        BY <1>2, <3>2, Cut
      <3>4. q = <<>>
        <4>1. Len(e) \in Nat /\ Len(q) = 0
          BY <1>4, <1>6, <2>1
        <4>. QED  BY <4>1, CatNone
      <3>5. <<>> \o net = v
        BY <1>6, <3>4 DEF Joins
      <3>6. From(buf', total' + 1) = <<>>
        BY <3>1, <3>2, <3>3
      <3>7. total' \in Nat /\ total' <= Len(buf') /\ buf' = buf \o <<>>
        BY <1>2, <3>1, <3>2
      <3>. QED  BY <3>2, <3>5, <3>6, <3>7
    <2>2. CASE Len(rest) # 4
      <3>1. total' = Len(buf) + k + 3 /\ buf' = buf \o rest
        BY <1>1, <2>2
      <3>2. PICK z \in Bytes : z = buf \o e /\ Len(z) = Len(buf) + Len(e)
        BY <1>2, Cat
      <3>3. buf' = z \o q
        <4>1. Assoc(buf, e, q)
          BY <1>2, CatThree
        <4>. QED  BY <1>6, <3>1, <3>2, <4>1 DEF Joins, Assoc
      <3>4. total' = Len(z)
        BY <1>2, <1>4, <3>1, <3>2
      <3>5. From(z \o q, Len(z) + 1) = q
        BY Cut
      <3>6. Len(z \o q) = Len(z) + Len(q) /\ Len(z) \in Nat /\ Len(q) \in Nat
        BY Cat
      <3>7. total' \in Nat /\ total' <= Len(buf')
        BY <3>3, <3>4, <3>6
      <3>8. From(buf', total' + 1) \o net = v
        BY <1>6, <3>3, <3>4, <3>5 DEF Joins
      <3>. QED  BY <1>2, <3>1, <3>7, <3>8
    <2>. QED  BY <2>1, <2>2
  <1>11. PICK y \in Bytes : Joins(g, t, y) /\ Joins(h, y, buf')
    <2>1. g \o t \in Bytes
      BY Cat
    <2>2. Assoc(h, g, t)
      BY CatThree
    <2>. QED  BY <1>9, <1>10, <2>1, <2>2 DEF Joins, Assoc
  <1>12. buf' \in Bytes /\ buf'[1] = h[1] /\ buf' # <<>>
    <2>1. /\ h \o y \in Bytes /\ Len(h \o y) = Len(h) + Len(y) /\ Len(y) \in Nat
          /\ \A i \in 1..Len(h) : (h \o y)[i] = h[i]
      BY Cat
    <2>2. 1 \in 1..Len(h)
      BY <1>7
    <2>3. (h \o y)[1] = h[1]
      BY <2>1, <2>2
    <2>4. Len(h \o y) # 0
      BY <1>7, <2>1
    <2>5. h \o y # <<>>
      BY <2>4, CatNone
    <2>. QED  BY <1>11, <2>1, <2>3, <2>5 DEF Joins
  <1>13. SubSeq(buf', 6, 5 + size) = g
    <2>1. SubSeq(buf', Len(h) + 1, Len(h) + Len(g)) = g
      BY <1>11, Middle
    <2>2. Len(h) + 1 = 6 /\ Len(h) + Len(g) = 5 + size
      BY <1>7, <1>8, <1>9
    <2>. QED  BY <2>1, <2>2
  <1>14. HttpTyped'
    BY <1>1, <1>2, <1>10, <1>12 DEF HttpTyped
  <1>15. HandledAsSent' /\ This' = This /\ plan' = plan /\ Stream(This + 1)' = Stream(This + 1)
    <2>1. This' = This /\ Wires' = Wires
      BY <1>1 DEF This, Wires
    <2>2. Stream(This + 1)' = Stream(This + 1)
      BY <2>1 DEF Stream
    <2>. QED  BY <1>1, <1>2, <2>1, <2>2, SameRequest
  <1>16. AtHandle'
    <2>1. buf'[1] = <<"head", This'>>
      BY <1>7, <1>12, <1>15
    <2>2. SubSeq(buf', 6, 5 + size') = Body(plan'[This'])
      BY <1>1, <1>8, <1>13, <1>15
    <2>3. From(buf', total' + 1) \o net' = Stream(This + 1)'
      BY <1>1, <1>5, <1>10, <1>15
    <2>. QED  BY <1>10, <1>12, <2>1, <2>2, <2>3 DEF AtHandle
  <1>. QED  BY <1>2, <1>4, <1>14, <1>15, <1>16, Settled

LEMMA HttpInvNext == HttpInv /\ [HttpNext]_httpVars => HttpInv'
  <1> SUFFICES ASSUME HttpInv, [HttpNext]_httpVars PROVE HttpInv'
    OBVIOUS
  <1>1. CASE RecvFirst
    BY <1>1, StepRecvFirst
  <1>2. CASE (\E crowded \in BOOLEAN : FirstTimeout(crowded)) \/ RecvEnds
    BY <1>2, StepEnds
  <1>3. CASE HeadTimeout
    BY <1>3, StepHeadTimeout
  <1>4. CASE \E n \in 1..Len(net) : RecvHead(n) \/ RecvRest(n)
    BY <1>4, StepRecvHead, StepRecvRest
  <1>5. CASE ParseError
    BY <1>5, StepParseError
  <1>6. CASE HeadWithLength
    BY <1>6, StepHeadWithLength
  <1>7. CASE RecvRestOfBody
    BY <1>7, StepRecvRestOfBody
  <1>8. CASE HeadWithChunks
    BY <1>8, StepHeadWithChunks
  <1>9. CASE SkipLineEnd
    BY <1>9, StepSkipLineEnd
  <1>10. CASE ChunkError
    BY <1>10, StepChunkError
  <1>11. CASE WholeChunk
    BY <1>11, StepWholeChunk
  <1>12. CASE PartOfChunk
    BY <1>12, StepPartOfChunk
  <1>13. CASE RecvChunk
    BY <1>13, StepRecvChunk
  <1>14. CASE LastChunk
    BY <1>14, StepLastChunk
  <1>15. CASE Trailer
    BY <1>15, StepTrailer
  <1>16. CASE \E fails \in BOOLEAN : HandleReq(fails)
    BY <1>16, StepHandleReq
  <1>17. CASE SetTold \/ UNCHANGED httpVars
    BY <1>17, StepSetTold
  <1>. QED
    BY <1>1, <1>2, <1>3, <1>4, <1>5, <1>6, <1>7, <1>8, <1>9, <1>10, <1>11, <1>12, <1>13, <1>14,
       <1>15, <1>16, <1>17 DEF HttpNext

(* What is left of a request that has not been handled: its head at least, *)
(* and its body when the head says how long it is.                         *)
LEMMA StreamIsLong ==
    ASSUME HttpTyped, This \in 1..Len(plan)
    PROVE  /\ Len(Stream(This)) \in Nat /\ Len(Stream(This)) >= 5
           /\ plan[This].framing # "chunks" => Len(Stream(This)) >= 5 + Len(Body(plan[This]))
  <1>1. plan \in Plans
    BY DEF HttpTyped
  <1>2. PICK h \in Bytes : h = HeadBytes(This) /\ Len(h) = 5
    BY Here, HeadIs
  <1>3. PICK b \in Bytes : b = Behind(This)
    BY <1>1, WiresAre
  <1>4. PICK v \in Bytes : v = Stream(This + 1)
    BY Here
  <1>5. PICK w \in Bytes : w = b \o v /\ Len(w) = Len(b) + Len(v) /\ Len(b) \in Nat /\ Len(v) \in Nat
    BY Cat
  <1>6. Len(h \o w) = Len(h) + Len(w)
    BY Cat
  <1>7. Stream(This) = h \o w
    BY <1>1, <1>2, <1>3, <1>4, <1>5, StreamIs
  <1>8. Len(Stream(This)) = 5 + (Len(b) + Len(v))
    BY <1>2, <1>5, <1>6, <1>7
  <1>9. plan[This].framing # "chunks" => Len(Body(plan[This])) = Len(b)
    BY <1>3 DEF Behind
  <1>. QED  BY <1>5, <1>8, <1>9

(* What comes first when nothing is on its way any more, is all there is.  *)
LEMMA AllHere ==
    ASSUME NEW s \in Bytes, NEW t \in Bytes, ~ (1 <= Len(t)), NEW w, s \o t = w
    PROVE  s = w
  <1>1. Len(t) \in Nat
    BY Cat
  <1>2. t = <<>>
    BY <1>1, CatNone
  <1>. QED  BY <1>2, CatNone

(* on_connection never waits for bytes of a request that are there.        *)
LEMMA NoIdleWait ==
    ASSUME HttpInv, Receiving, Len(net) < (IF spot \in {"body", "data"} THEN need ELSE 1)
    PROVE  Len(handled) = Len(plan)
  <1>1. /\ HttpTyped /\ plan \in Plans /\ net \in Bytes /\ buf \in Bytes /\ rest \in Bytes
        /\ need \in Nat /\ Len(net) \in Nat /\ Len(buf) \in Nat /\ Len(rest) \in Nat
    <2>1. /\ HttpTyped /\ plan \in Plans /\ net \in Bytes /\ buf \in Bytes /\ rest \in Bytes
          /\ need \in Nat
      BY DEF HttpInv, HttpTyped
    <2>. QED  BY <2>1, Cat
  <1>2. This \notin 1..Len(plan) => Len(handled) = Len(plan)
    BY <1>1, Here
  <1>3. CASE spot = "first" \/ (spot = "head" /\ HeadEnd = 0)
    <2>1. ~ (1 <= Len(net))
      BY <1>1, <1>3
    <2>2. buf \o net = Stream(This)
      BY <1>3 DEF HttpInv, AtHead
    <2>3. buf = Stream(This)
      BY <1>1, <2>1, <2>2, AllHere
    <2>4. SUFFICES ASSUME This \in 1..Len(plan) PROVE FALSE
      BY <1>2
    <2>5. Len(buf) >= 5
      BY <1>1, <2>3, <2>4, StreamIsLong
    <2>6. spot # "first"
      <3>1. spot = "first" => Len(buf) = 0
        BY CatNone DEF HttpInv, AtHead
      <3>. QED  BY <2>5, <3>1
    <2>. QED  BY <1>1, <1>3, <2>4, <2>5, <2>6, HeadFound DEF HttpInv
  <1>4. CASE spot = "body"
    <2>1. /\ plan[This].framing # "chunks" /\ buf \o net = Stream(This)
          /\ 5 + Len(Body(plan[This])) = Len(buf) + need /\ This <= Len(plan)
      BY <1>4 DEF HttpInv, AtBody, InRequest
    <2>2. Len(Stream(This)) = Len(buf) + Len(net)
      BY <1>1, <2>1, Cat
    <2>3. Len(Stream(This)) >= 5 + Len(Body(plan[This]))
      BY <1>1, <2>1, StreamIsLong, Here
    <2>. QED  BY <1>1, <1>4, <2>1, <2>2, <2>3
  <1>5. CASE spot = "data"
    <2>1. InThis /\ This \in 1..Len(plan)
      BY <1>5, InThisChunk DEF InThis
    <2>2. PICK j \in 1..Len(Pieces), y \in Bytes :
             net = y \o (CRLF \o FromChunk(j + 1)) /\ need = Len(y) + 2
      BY <1>5 DEF HttpInv, AtData
    <2>3. PICK F \in Bytes : F = FromChunk(j + 1)
      <3>1. Len(Pieces) \in Nat
        BY <1>1, <2>1, PiecesAre
      <3>2. j + 1 \in 1..(Len(Pieces) + 1)
        BY <3>1
      <3>. QED  BY <1>1, <2>1, <3>2, ChunksAre
    <2>4. PICK v \in Bytes : v = CRLF \o F /\ Len(v) = 2 + Len(F) /\ Len(F) \in Nat
      <3>1. PICK z \in Bytes : z = CRLF /\ Len(z) = 2
        BY LineBytes
      <3>2. z \o F \in Bytes /\ Len(z \o F) = Len(z) + Len(F) /\ Len(F) \in Nat
        BY Cat
      <3>. QED  BY <3>1, <3>2
    <2>5. Len(y \o v) = Len(y) + Len(v) /\ Len(y) \in Nat
      BY Cat
    <2>6. Len(net) = Len(y) + (2 + Len(F))
      BY <2>2, <2>3, <2>4, <2>5
    <2>. QED  BY <1>1, <1>5, <2>2, <2>4, <2>5, <2>6
  <1>6. CASE spot = "chunk" /\ LineEnd = 0
    <2>1. ~ (1 <= Len(net))
      BY <1>1, <1>6
    <2>2. PICK j \in 1..(Len(Pieces) + 1) :
              \/ rest \o net = CRLF \o FromChunk(j) /\ LineEnd = IF Len(rest) >= 2 THEN 1 ELSE 0
              \/ rest \o net = FromChunk(j) /\ LineEnd = IF Len(rest) >= 3 THEN 2 ELSE 0
      BY <1>6, ChunkLine
    <2>3. InThis /\ This \in 1..Len(plan)
      BY <1>6, InThisChunk DEF InThis
    <2>4. PICK F \in Bytes : F = FromChunk(j) /\ Len(F) >= 3 /\ Len(F) \in Nat
      <3>1. /\ SizeOf(j) \in Nat /\ AfterLine(j) \in Bytes
            /\ FromChunk(j) = (Number1(SizeOf(j)) \o CRLF) \o AfterLine(j)
        BY <1>1, <2>3, LinesBegin
      <3>2. PICK l \in Bytes : l = Number1(SizeOf(j)) \o CRLF /\ Len(l) = 3
        BY <3>1, NumberIs
      <3>3. PICK w \in Bytes : w = AfterLine(j)
        BY <3>1
      <3>4. l \o w \in Bytes /\ Len(l \o w) = Len(l) + Len(w) /\ Len(w) \in Nat
        BY Cat
      <3>5. FromChunk(j) = l \o w
        BY <3>1, <3>2, <3>3
      <3>6. Len(l \o w) >= 3
        BY <3>2, <3>4
      <3>7. Len(l \o w) \in Nat
        BY <3>2, <3>4
      <3>. QED  BY <3>4, <3>5, <3>6, <3>7
    <2>5. CASE rest \o net = CRLF \o F /\ LineEnd = IF Len(rest) >= 2 THEN 1 ELSE 0
      <3>1. Len(CRLF \o F) = 2 + Len(F)
        <4>1. PICK z \in Bytes : z = CRLF /\ Len(z) = 2
          BY LineBytes
        <4>2. Len(z \o F) = Len(z) + Len(F)
          BY Cat
        <4>. QED  BY <4>1, <4>2
      <3>2. rest = CRLF \o F
        BY <1>1, <2>1, <2>5, AllHere
      <3>3. Len(rest) >= 2
        BY <2>4, <3>1, <3>2
      <3>. QED  BY <1>6, <2>5, <3>3
    <2>6. CASE rest \o net = F /\ LineEnd = IF Len(rest) >= 3 THEN 2 ELSE 0
      <3>1. rest = F
        BY <1>1, <2>1, <2>6, AllHere
      <3>. QED  BY <1>6, <2>4, <2>6, <3>1
    <2>. QED  BY <2>2, <2>4, <2>5, <2>6
  <1>7. CASE spot = "trailer" /\ Find(rest, EmptyLine) = 0
    <2>1. ~ (1 <= Len(net))
      BY <1>1, <1>7
    <2>2. PICK e \in Bytes :
              /\ rest \o net = e \o Stream(This + 1)
              /\ Len(rest) >= Len(e) <=> Find(rest, EmptyLine) # 0
      BY <1>7, TrailerRead
    <2>3. InThis /\ This \in 1..Len(plan)
      BY <1>7, InThisChunk DEF InThis
    <2>4. PICK v \in Bytes : v = Stream(This + 1)
      BY <1>1, <2>3, Here
    <2>5. Len(e \o v) = Len(e) + Len(v) /\ Len(e) \in Nat /\ Len(v) \in Nat
      BY Cat
    <2>6. rest = e \o v
      BY <1>1, <2>1, <2>2, <2>4, AllHere
    <2>7. Len(rest) >= Len(e)
      BY <2>5, <2>6
    <2>. QED  BY <1>7, <2>2, <2>7
  <1>. QED  BY <1>3, <1>4, <1>5, <1>6, <1>7 DEF Receiving

LEMMA AsSentByInv == HttpInv => RequestsAsSent
  <1> SUFFICES ASSUME HttpInv PROVE RequestsAsSent
    OBVIOUS
  <1>1. \A i \in DOMAIN handled : handled[i] = [req |-> i, body |-> Body(plan[i])]
    BY DEF HttpInv, HandledAsSent
  <1>2. spot = "refused" => TooLong(plan[Len(handled) + 1])
    BY DEF HttpInv, AtRefused, This
  <1>. QED  BY <1>1, <1>2, NoIdleWait DEF RequestsAsSent

(* For any requests, however long and in any number of chunks, and however *)
(* recv() cuts their bytes: the callback of http::Server gets them as they *)
(* were sent, and on_connection neither refuses one whose body is short    *)
(* enough nor waits for bytes it already has.                              *)
THEOREM RequestsStayAsSent == HttpSpec => []RequestsAsSent
  BY HttpInitInv, HttpInvNext, AsSentByInv, PTL DEF HttpSpec
=============================================================================
