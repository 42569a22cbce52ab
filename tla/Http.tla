-------------------------------- MODULE Http --------------------------------
(***************************************************************************)
(* How http::Server of src/so/http.cc cuts the bytes of a connection into  *)
(* requests: ServerImpl::on_connection and the parts of the parser that    *)
(* decide where a request ends.  Each recv() returns some of the bytes     *)
(* that are on their way, a head ends with the first empty line, a body    *)
(* has the length its head says or comes in chunks, which trailing headers *)
(* may follow, and the bytes of later requests may come with those of an   *)
(* earlier one.                                                            *)
(*                                                                         *)
(* A byte is a pair; a start line with its headers, the number on a line   *)
(* of a chunk and a trailing header count as one byte each.  Left out:     *)
(* heads that are too long or wrong, 100 Continue, what a response says.   *)
(***************************************************************************)
EXTENDS Naturals, Sequences

CONSTANTS Plans,     \* sequences of requests a client may send
          MaxBody    \* FLG_http_max_body_size

VARIABLES plan,      \* the requests the client sends
          net,       \* bytes on their way
          told,      \* _stopped
          spot,      \* where on_connection is
          roomy,     \* buf.capacity() is not 0
          buf,       \* buf
          rest,      \* s: what follows the head of a request in chunks
          need,      \* bytes recvn() is to read
          size,      \* body_size
          total,     \* total_len
          handled    \* history: the requests the callback got

bytesVars == <<roomy, buf, rest, need, size, total>>
httpVars == <<plan, net, told, spot, bytesVars, handled>>

CR == <<"cr", 0>>
LF == <<"lf", 0>>
CRLF == <<CR, LF>>
EmptyLine == CRLF \o CRLF

Byte == {"head", "cr", "lf", "number", "trailer", "byte"} \X Nat

(* A request: its body in pieces, how the body is framed, whether trailing *)
(* headers follow, and whether the head says that the connection closes.   *)
Framing == {"none", "length", "chunks"}
HttpRequest ==
    [framing : Framing, pieces : Seq(Seq(Byte)), trailer : BOOLEAN, close : BOOLEAN]

(* A request without a frame has no body, and no chunk but the last one is *)
(* empty.                                                                  *)
ASSUME HttpAssumption ==
    /\ MaxBody \in Nat
    /\ \A p \in Plans :
          /\ p \in Seq(HttpRequest)
          /\ \A k \in DOMAIN p :
                /\ p[k].framing = "none" => p[k].pieces = <<>>
                /\ p[k].framing = "chunks" => \A i \in DOMAIN p[k].pieces : p[k].pieces[i] # <<>>

Joined(ss) ==
    LET tail[i \in 1..(Len(ss) + 1)] == IF i > Len(ss) THEN <<>> ELSE ss[i] \o tail[i + 1]
    IN  tail[1]

Body(r) == Joined(r.pieces)

(* What the client sends for its request number k.                         *)
HeadBytes(k) == << <<"head", k>> >> \o EmptyLine
ChunkBytes(piece) == << <<"number", Len(piece)>> >> \o CRLF \o piece \o CRLF
LastBytes(r) ==
    << <<"number", 0>> >> \o CRLF \o
    (IF r.trailer THEN << <<"trailer", 0>> >> \o CRLF ELSE <<>>) \o CRLF

Wire(k, r) ==
    HeadBytes(k) \o
    CASE r.framing = "none" -> <<>>
      [] r.framing = "length" -> Body(r)
      [] r.framing = "chunks" ->
            Joined([i \in DOMAIN r.pieces |-> ChunkBytes(r.pieces[i])]) \o LastBytes(r)

HttpTypeOK ==
    /\ plan \in Plans
    /\ told \in BOOLEAN /\ roomy \in BOOLEAN
    /\ spot \in {"first", "head", "body", "chunk", "data", "trailer", "handle", "refused", "end"}
    /\ need \in Nat /\ size \in Nat /\ total \in Nat
    /\ Len(handled) <= Len(plan)

HttpInit ==
    /\ plan \in Plans
    /\ net = Joined([k \in DOMAIN plan |-> Wire(k, plan[k])])
    /\ told = FALSE
    /\ spot = "first"
    /\ roomy = FALSE
    /\ buf = <<>> /\ rest = <<>>
    /\ need = 0 /\ size = 0 /\ total = 0
    /\ handled = <<>>

-----------------------------------------------------------------------------
From(s, i) == SubSeq(s, i, Len(s))

(* Where p begins in s for the first time, 0 if it does not.               *)
Find(s, p) ==
    LET found == {i \in 1..(Len(s) + 1 - Len(p)) : SubSeq(s, i, i + Len(p) - 1) = p}
    IN  IF found = {} THEN 0 ELSE CHOOSE i \in found : \A j \in found : i <= j

(* Places where on_connection calls recv or recvn.                         *)
HeadEnd == Find(buf, EmptyLine)
LineEnd == Find(rest, CRLF)
Receiving ==
    \/ spot \in {"first", "body", "data"}
    \/ spot = "head" /\ HeadEnd = 0
    \/ spot = "chunk" /\ LineEnd = 0
    \/ spot = "trailer" /\ Find(rest, EmptyLine) = 0

Move(p) == spot' = p

(* recv() returns n bytes.                                                 *)
Receive(n) ==
    /\ n <= Len(net)
    /\ net' = From(net, n + 1)

-----------------------------------------------------------------------------
(* An idle connection waits for one byte without a buffer of its own.      *)
RecvFirst ==
    /\ spot = "first"
    /\ Receive(1)
    /\ buf' = <<Head(net)>>
    /\ roomy' = TRUE
    /\ Move("head")
    /\ UNCHANGED <<plan, told, rest, need, size, total, handled>>

(* It is kept, unless the server has been stopped or has too many.         *)
FirstTimeout(crowded) ==
    /\ spot = "first"
    /\ told \/ crowded
    /\ Move("end")
    /\ UNCHANGED <<plan, net, told, bytesVars, handled>>

RecvHead(n) ==
    /\ spot = "head" /\ HeadEnd = 0
    /\ Receive(n)
    /\ buf' = buf \o SubSeq(net, 1, n)
    /\ UNCHANGED <<plan, told, spot, roomy, rest, need, size, total, handled>>

(* The connection is idle again if nothing of a request has come.          *)
HeadTimeout ==
    /\ spot = "head" /\ buf = <<>>
    /\ roomy' = FALSE
    /\ Move("first")
    /\ UNCHANGED <<plan, net, told, buf, rest, need, size, total, handled>>

(* The peer closes the connection, a recv() fails or times out.            *)
RecvEnds ==
    /\ Receiving
    /\ Move("end")
    /\ UNCHANGED <<plan, net, told, bytesVars, handled>>

(* parse_http_req, and what its result says of the body.                   *)
WellFormed == HeadEnd = 2 /\ buf[1][1] = "head"
Parsed == plan[buf[1][2]]

ParseError ==
    /\ spot = "head" /\ HeadEnd # 0
    /\ ~ WellFormed \/ (Parsed.framing = "length" /\ Len(Body(Parsed)) > MaxBody)
    /\ Move("refused")
    /\ UNCHANGED <<plan, net, told, bytesVars, handled>>

HeadWithLength ==
    /\ spot = "head" /\ WellFormed /\ Parsed.framing # "chunks"
    /\ LET n == Len(Body(Parsed))
       IN  /\ n <= MaxBody
           /\ size' = n
           /\ total' = 5 + n
           /\ IF Len(buf) < 5 + n
              THEN need' = 5 + n - Len(buf) /\ Move("body")
              ELSE UNCHANGED need /\ Move("handle")
    /\ UNCHANGED <<plan, net, told, roomy, buf, rest, handled>>

RecvRestOfBody ==
    /\ spot = "body"
    /\ Receive(need)
    /\ buf' = buf \o SubSeq(net, 1, need)
    /\ Move("handle")
    /\ UNCHANGED <<plan, told, roomy, rest, need, size, total, handled>>

HeadWithChunks ==
    /\ spot = "head" /\ WellFormed /\ Parsed.framing = "chunks"
    /\ buf' = SubSeq(buf, 1, 5)
    /\ rest' = From(buf, 6)
    /\ Move("chunk")
    /\ UNCHANGED <<plan, net, told, roomy, need, size, total, handled>>

-----------------------------------------------------------------------------
(* Chunks: a line with a number, as many bytes, and the end of a line.     *)

RecvRest(n) ==
    /\ \/ spot = "chunk" /\ LineEnd = 0
       \/ spot = "trailer" /\ Find(rest, EmptyLine) = 0
    /\ Receive(n)
    /\ rest' = rest \o SubSeq(net, 1, n)
    /\ UNCHANGED <<plan, told, spot, roomy, buf, need, size, total, handled>>

(* The end of a line that did not come with its chunk.                     *)
SkipLineEnd ==
    /\ spot = "chunk" /\ LineEnd = 1
    /\ rest' = From(rest, 3)
    /\ UNCHANGED <<plan, net, told, spot, roomy, buf, need, size, total, handled>>

Number == IF LineEnd = 2 /\ rest[1][1] = "number" THEN rest[1][2] ELSE MaxBody + 1

ChunkError ==
    /\ spot = "chunk" /\ LineEnd > 1 /\ Number > MaxBody
    /\ Move("refused")
    /\ UNCHANGED <<plan, net, told, bytesVars, handled>>

(* Too much in all, once a chunk has been added.                           *)
NextChunk == Move(IF Len(buf') - 5 > MaxBody THEN "refused" ELSE "chunk")

(* Slip: the end of the line is taken for granted.                         *)
WholeChunkWithEnd ==
    /\ spot = "chunk" /\ LineEnd > 1 /\ Number \in 1..MaxBody
    /\ Len(rest) >= LineEnd + 1 + Number
    /\ buf' = buf \o SubSeq(rest, LineEnd + 2, LineEnd + 1 + Number)
    /\ rest' = From(rest, LineEnd + 4 + Number)
    /\ NextChunk
    /\ UNCHANGED <<plan, net, told, roomy, need, size, total, handled>>

(* All bytes of the chunk are there, the end of its line perhaps not.      *)
WholeChunk ==
    /\ spot = "chunk" /\ LineEnd > 1 /\ Number \in 1..MaxBody
    /\ Len(rest) >= LineEnd + 1 + Number
    /\ buf' = buf \o SubSeq(rest, LineEnd + 2, LineEnd + 1 + Number)
    /\ rest' = From(rest, IF Len(rest) >= LineEnd + 3 + Number THEN LineEnd + 4 + Number
                                                               ELSE LineEnd + 2 + Number)
    /\ NextChunk
    /\ UNCHANGED <<plan, net, told, roomy, need, size, total, handled>>

PartOfChunk ==
    /\ spot = "chunk" /\ LineEnd > 1 /\ Number \in 1..MaxBody
    /\ Len(rest) < LineEnd + 1 + Number
    /\ buf' = buf \o From(rest, LineEnd + 2)
    /\ need' = LineEnd + 1 + Number - Len(rest) + 2
    /\ Move("data")
    /\ UNCHANGED <<plan, net, told, roomy, rest, size, total, handled>>

RecvChunk ==
    /\ spot = "data"
    /\ Receive(need)
    /\ buf' = buf \o SubSeq(net, 1, need - 2)
    /\ rest' = <<>>
    /\ NextChunk
    /\ UNCHANGED <<plan, told, roomy, need, size, total, handled>>

LastChunk ==
    /\ spot = "chunk" /\ LineEnd > 1 /\ Number = 0
    /\ size' = Len(buf) - 5
    /\ rest' = From(rest, LineEnd)
    /\ Move("trailer")
    /\ UNCHANGED <<plan, net, told, roomy, buf, need, total, handled>>

(* Trailing headers become part of buf, and with them what follows.        *)
Trailer ==
    /\ spot = "trailer"
    /\ LET x == Find(rest, EmptyLine)
       IN  /\ x # 0
           /\ IF Len(rest) = 4
              THEN total' = Len(buf) /\ UNCHANGED buf
              ELSE total' = Len(buf) + x + 3 /\ buf' = buf \o rest
           /\ Move(IF x = 1 \/ (x = 4 /\ rest[3][1] = "trailer") THEN "handle" ELSE "refused")
    /\ UNCHANGED <<plan, net, told, roomy, rest, need, size, handled>>

-----------------------------------------------------------------------------
(* The callback is called and a response sent.                             *)
HandleReq(fails) ==
    /\ spot = "handle"
    /\ handled' = Append(handled, [req |-> buf[1][2], body |-> SubSeq(buf, 6, 5 + size)])
    /\ buf' = From(buf, total + 1)
    /\ rest' = <<>>
    /\ need' = 0 /\ size' = 0 /\ total' = 0
    /\ Move(IF fails \/ Parsed.close \/ told THEN "end" ELSE "head")
    /\ UNCHANGED <<plan, net, told, roomy>>

SetTold ==
    /\ ~ told
    /\ told' = TRUE
    /\ UNCHANGED <<plan, net, spot, bytesVars, handled>>

HttpNext ==
    \/ RecvFirst \/ (\E crowded \in BOOLEAN : FirstTimeout(crowded)) \/ HeadTimeout \/ RecvEnds
    \/ (\E n \in 1..Len(net) : RecvHead(n) \/ RecvRest(n))
    \/ ParseError \/ HeadWithLength \/ RecvRestOfBody \/ HeadWithChunks
    \/ SkipLineEnd \/ ChunkError \/ WholeChunk \/ PartOfChunk \/ RecvChunk \/ LastChunk \/ Trailer
    \/ (\E fails \in BOOLEAN : HandleReq(fails))
    \/ SetTold

HttpSpec == HttpInit /\ [][HttpNext]_httpVars

-----------------------------------------------------------------------------
TooLong(r) == Len(Body(r)) > MaxBody

(* However the bytes are cut when they arrive, the callback gets the       *)
(* requests that were sent, in order and with their bodies; only one whose *)
(* body is too long is refused; and the server does not wait for more      *)
(* bytes of a request that is complete.                                    *)
RequestsAsSent ==
    /\ \A i \in DOMAIN handled : handled[i] = [req |-> i, body |-> Body(plan[i])]
    /\ spot = "refused" => TooLong(plan[Len(handled) + 1])
    /\ Receiving /\ Len(net) < (IF spot \in {"body", "data"} THEN need ELSE 1)
          => Len(handled) = Len(plan)
=============================================================================
