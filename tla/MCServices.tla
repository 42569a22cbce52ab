----------------------------- MODULE MCServices -----------------------------
(***************************************************************************)
(* What programs build their services of, for TLC: a behaviour is one of   *)
(* an RPC server and its client (Rpc, TcpServer), of one connection of an  *)
(* HTTP server (Http), or of JSON: values that are built and taken apart   *)
(* (JsonTree), the text of a value (JsonParser) or of a scalar (JsonText). *)
(***************************************************************************)
EXTENDS Rpc, Http

CONSTANTS Root, Key, Cap, MaxElems, MaxLive, DupEmptied,
          MaxText, MaxChars, MaxDigits, Width, MaxExp

VARIABLES root, live, val,
          text, stack, ustack, below, state, result, label, ok,
          mode, raw, chars, from, quote, slash, out, ret,
          part   \* what this behaviour is about

treeVars == <<root, live, val>>
parserVars == <<text, stack, ustack, below, state, result, label, ok>>
scalarVars == <<mode, raw, chars, from, quote, slash, out, ret>>

(* Two requests.  Bodies hold bytes that look like the end of a line or of *)
(* a head, and some are too long.                                          *)
One == << <<"byte", 1>> >>
Cr == << <<"cr", 0>> >>
Lf == << <<"lf", 0>> >>
LineEnds == Cr \o Lf \o Cr \o Lf

Bare == [framing : {"none"}, pieces : {<<>>}, trailer : {FALSE}, close : BOOLEAN]
Sized == [framing : {"length"}, pieces : {<<LineEnds>>, <<LineEnds \o One>>},
          trailer : {FALSE}, close : {FALSE}]
Chunked == [framing : {"chunks"},
            pieces : {<<>>, <<Cr \o Lf, One>>, <<Lf, Cr \o Lf \o Cr>>, <<LineEnds, Lf>>},
            trailer : BOOLEAN, close : {FALSE}]
Request2 == Bare \cup Sized \cup Chunked
MCPlans == {<<r1, r2>> : r1 \in Request2, r2 \in Request2}

Tree == INSTANCE JsonTree
Parser == INSTANCE JsonParser WITH size <- below, pc <- label
Scalars == INSTANCE JsonText WITH b <- from, p <- quote, q <- slash

(* The part that is not used has no step its fairness asks for.            *)
NoServer ==
    /\ status = 2 /\ count = 0 /\ fd = "none" /\ connfd = NoConn
    /\ server = "end" /\ backlog = <<>> /\ deleted = TRUE
    /\ conn = [c \in Connection |-> "over"] /\ exiter = [e \in Exiter |-> "back"]
    /\ stopped = TRUE
    /\ at = [c \in Conn |-> "none"] /\ kind = [c \in Conn |-> 0]
    /\ got = [c \in Conn |-> <<>>] /\ up = got /\ down = got
    /\ hungUp = [c \in Conn |-> FALSE]
    /\ cli = "idle" /\ sock = NoConn /\ sent = 0 /\ nth = MaxCalls
    /\ answer = [k \in 1..MaxCalls |-> 0]

NoHttp ==
    /\ plan = <<>> /\ net = <<>> /\ told = TRUE /\ spot = "end" /\ roomy = FALSE /\ buf = <<>>
    /\ rest = <<>> /\ need = 0 /\ size = 0 /\ total = 0 /\ handled = <<>>

NoTree == root = 0 /\ live = 0 /\ val = 0

NoParser ==
    /\ text = 0 /\ stack = 0 /\ ustack = 0 /\ below = 0 /\ state = 0
    /\ result = 0 /\ label = 0 /\ ok = 0

NoScalars ==
    /\ mode = 0 /\ raw = 0 /\ chars = 0 /\ from = 0 /\ quote = 0
    /\ slash = 0 /\ out = 0 /\ ret = 0

ServicesInit ==
    /\ part \in {"rpc", "http", "tree", "parser", "scalars"}
    /\ IF part = "rpc" THEN RpcInit ELSE NoServer
    /\ IF part = "http" THEN HttpInit ELSE NoHttp
    /\ IF part = "tree" THEN Tree!TreeInit ELSE NoTree
    /\ IF part = "parser" THEN Parser!ParserInit ELSE NoParser
    /\ IF part = "scalars" THEN Scalars!TextInit ELSE NoScalars

ServicesNext ==
    /\ UNCHANGED part
    /\ \/ part = "rpc" /\ RpcNext
          /\ UNCHANGED <<httpVars, treeVars, parserVars, scalarVars>>
       \/ part = "http" /\ HttpNext
          /\ UNCHANGED <<rpcVars, treeVars, parserVars, scalarVars>>
       \/ part = "tree" /\ Tree!TreeNext
          /\ UNCHANGED <<rpcVars, httpVars, parserVars, scalarVars>>
       \/ part = "parser" /\ Parser!ParserNext
          /\ UNCHANGED <<rpcVars, httpVars, treeVars, scalarVars>>
       \/ part = "scalars" /\ Scalars!TextNext
          /\ UNCHANGED <<rpcVars, httpVars, treeVars, parserVars>>

ServicesSpec ==
    /\ ServicesInit
    /\ [][ServicesNext]_<<rpcVars, httpVars, treeVars, parserVars, scalarVars, part>>
    /\ RpcFairness

(* The properties of JSON: see JsonTree, JsonParser and JsonText.          *)
TreeSound == part = "tree" => Tree!TreeSound
TextRead == part = "parser" => Parser!TextRead
ScalarsRead == part = "scalars" => Scalars!ScalarsRead
=============================================================================
