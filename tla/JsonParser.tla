----------------------------- MODULE JsonParser -----------------------------
(***************************************************************************)
(* Parser::parse of src/json.cc, which builds the tree of a JSON text with *)
(* two stacks instead of recursion, and Json::parse_from around it.  The   *)
(* text is a sequence of tokens as the code cuts them: white space is      *)
(* skipped, "s" is a quote, a string that can be decoded and the next      *)
(* quote, "r" the same with what cannot, for an invalid escape or because  *)
(* the next quote is escaped; "a" is another scalar that is accepted, be   *)
(* it a string with an escaped quote; "x" is nothing of all that, "end"    *)
(* the end.  JsonText has the scalars.  A key is all up to the next quote: *)
(* one with an escaped quote is an "r" and what comes after that quote.    *)
(* The text is chosen as it is read.                                       *)
(***************************************************************************)
EXTENDS Naturals, Sequences, SequencesExt, FiniteSets

CONSTANT MaxText   \* bound: tokens of a text

VARIABLES text,    \* the tokens read
          stack,   \* _a.stack(): headers and keys
          ustack,  \* _a.ustack(): size and state of the containers around
          size,    \* stack.size() when the current container was pushed
          state,   \* "{", "[" or, outside of both, "none"
          result,  \* val
          pc,      \* the label of parse() the next token is read at
          ok       \* what parse() returned

parserVars == <<text, stack, ustack, size, state, result, pc, ok>>

Token == {"{", "}", "[", "]", ",", ":", "s", "r", "a", "x", "end"}
Scalar == {"s", "a"}

(* parse_key does not look at what is between the quotes.                  *)
KeyToken == {"s", "r"}

(* What the n-th token makes: a scalar, a key, an object or an array.      *)
Leaf(n) == [at |-> n, slots |-> <<>>]
Nothing == Leaf(0)

ParserInit ==
    /\ text = <<>> /\ stack = <<>> /\ ustack = <<>>
    /\ size = 0 /\ state = "none" /\ result = Nothing
    /\ pc = "start" /\ ok = FALSE

-----------------------------------------------------------------------------
Read(t) == (t = "end" \/ Len(text) < MaxText) /\ text' = Append(text, t)
Here == Len(text) + 1

Goto(label) == pc' = label
Fail == pc' = "err" /\ UNCHANGED <<stack, ustack, size, state, result, ok>>

(* obj_beg and arr_beg                                                     *)
Open(t) ==
    /\ ustack' = ustack \o <<size, state>>
    /\ stack' = Append(stack, Leaf(Here))
    /\ size' = Len(stack')
    /\ state' = t
    /\ Goto(IF t = "{" THEN "obj_val_beg" ELSE "arr_val_beg")
    /\ UNCHANGED <<result, ok>>

(* What is above size belongs to the container below it.                   *)
Filled(s) ==
    IF Len(s) > size
    THEN Append(SubSeq(s, 1, size - 1), [s[size] EXCEPT !.slots = SubSeq(s, size + 1, Len(s))])
    ELSE s

(* obj_end and arr_end                                                     *)
Close ==
    LET prev == Last(ustack)
        filled == Filled(stack)
    IN  /\ ustack' = Front(Front(ustack))
        /\ state' = prev
        /\ IF prev = "none"
           THEN /\ result' = Last(filled) /\ stack' = Front(filled)
                /\ Goto("end") /\ UNCHANGED size
           ELSE /\ stack' = filled
                /\ size' = Last(Front(ustack))
                /\ Goto(IF prev = "{" THEN "obj_val_end" ELSE "arr_val_end")
                /\ UNCHANGED result
        /\ UNCHANGED ok

(* A scalar goes to val and on the stack.                                  *)
Push(label) ==
    /\ result' = Leaf(Here)
    /\ stack' = Append(stack, Leaf(Here))
    /\ Goto(label)
    /\ UNCHANGED <<ustack, size, state, ok>>

Value(t, label) ==
    IF t \in {"{", "["} THEN Open(t) ELSE IF t \in Scalar THEN Push(label) ELSE Fail

-----------------------------------------------------------------------------
Start(t) ==
    /\ pc = "start" /\ Read(t)
    /\ IF t \in {"{", "["} THEN Open(t)
       ELSE IF t \in Scalar
       THEN result' = Leaf(Here) /\ Goto("end") /\ UNCHANGED <<stack, ustack, size, state, ok>>
       ELSE Fail

ObjValBeg(t) ==
    /\ pc = "obj_val_beg" /\ Read(t)
    /\ IF t = "}" THEN Close
       ELSE IF t \in KeyToken
       THEN /\ stack' = Append(stack, Leaf(Here)) /\ Goto("colon")
            /\ UNCHANGED <<ustack, size, state, result, ok>>
       ELSE Fail

Colon(t) ==
    /\ pc = "colon" /\ Read(t)
    /\ IF t = ":" THEN Goto("value") /\ UNCHANGED <<stack, ustack, size, state, result, ok>>
       ELSE Fail

MemberValue(t) == pc = "value" /\ Read(t) /\ Value(t, "obj_val_end")

ObjValEnd(t) ==
    /\ pc = "obj_val_end" /\ Read(t)
    /\ IF t = "," THEN Goto("obj_val_beg") /\ UNCHANGED <<stack, ustack, size, state, result, ok>>
       ELSE IF t = "}" THEN Close ELSE Fail

ArrValBeg(t) ==
    /\ pc = "arr_val_beg" /\ Read(t)
    /\ IF t = "]" THEN Close ELSE Value(t, "arr_val_end")

ArrValEnd(t) ==
    /\ pc = "arr_val_end" /\ Read(t)
    /\ IF t = "," THEN Goto("arr_val_beg") /\ UNCHANGED <<stack, ustack, size, state, result, ok>>
       ELSE IF t = "]" THEN Close ELSE Fail

(* Nothing may follow the value.                                           *)
Trailing(t) ==
    /\ pc = "end" /\ Read(t) /\ Goto("done")
    /\ ok' = (t = "end")
    /\ UNCHANGED <<stack, ustack, size, state, result>>

-----------------------------------------------------------------------------
(* Slip: a key is left without a value.                                    *)
PadsNever(n) == FALSE

(* err: the containers are closed from the inside, each with what it has;  *)
(* a key that has no value yet gets null.                                  *)
Pads(n) == state = "{" /\ n % 2 = 1

Unwind ==
    /\ pc = "err"
    /\ IF stack = <<>>
       THEN Goto("done") /\ UNCHANGED <<stack, ustack, size, state, result>>
       ELSE LET padded == IF Len(stack) > size /\ Pads(Len(stack) - size)
                          THEN Append(stack, Nothing) ELSE stack
                filled == Filled(padded)
            IN  /\ state' = Last(ustack)
                /\ size' = Last(Front(ustack))
                /\ ustack' = Front(Front(ustack))
                /\ IF state' = "none"
                   THEN result' = Last(filled) /\ stack' = Front(filled) /\ Goto("done")
                   ELSE stack' = filled /\ UNCHANGED <<result, pc>>
    /\ UNCHANGED <<text, ok>>

ParserNext ==
    \/ \E t \in Token : Start(t) \/ ObjValBeg(t) \/ Colon(t) \/ MemberValue(t) \/ ObjValEnd(t)
                        \/ ArrValBeg(t) \/ ArrValEnd(t) \/ Trailing(t)
    \/ Unwind

ParserSpec == ParserInit /\ [][ParserNext]_parserVars

-----------------------------------------------------------------------------
(* What texts mean, by the grammar: the trees of the tokens lo to hi, of   *)
(* which there is at most one.  A comma may follow the last element, and a *)
(* key may be anything between two quotes.                                 *)
RECURSIVE Trees(_, _, _), Elements(_, _, _), Members(_, _, _)
Trees(t, lo, hi) ==
    IF lo = hi THEN IF t[lo] \in Scalar THEN {Leaf(lo)} ELSE {}
    ELSE IF t[lo] = "[" /\ t[hi] = "]"
    THEN {[at |-> lo, slots |-> es] : es \in Elements(t, lo + 1, hi - 1)}
    ELSE IF t[lo] = "{" /\ t[hi] = "}"
    THEN {[at |-> lo, slots |-> ms] : ms \in Members(t, lo + 1, hi - 1)}
    ELSE {}

Elements(t, lo, hi) ==
    IF lo > hi THEN {<<>>}
    ELSE UNION {LET rest == IF k = hi THEN {<<>>} ELSE Elements(t, k + 2, hi)
                IN  {<<e>> \o es : e \in Trees(t, lo, k), es \in rest} :
                    k \in {k \in lo..hi : k = hi \/ t[k + 1] = ","}}

Members(t, lo, hi) ==
    IF lo > hi THEN {<<>>}
    ELSE IF t[lo] \notin KeyToken \/ lo + 2 > hi THEN {}
    ELSE IF t[lo + 1] # ":" THEN {}
    ELSE UNION {LET rest == IF k = hi THEN {<<>>} ELSE Members(t, k + 2, hi)
                IN  {<<Leaf(lo), e>> \o ms : e \in Trees(t, lo + 2, k), ms \in rest} :
                    k \in {k \in (lo + 2)..hi : k = hi \/ t[k + 1] = ","}}

Meaning(t) == IF t = <<>> THEN {} ELSE Trees(t, 1, Len(t))

(* What can complete a text that is no value yet.                          *)
Endings ==
    {e \o c : e \in {<<>>, <<"a">>, <<":", "a">>},
              c \in UNION {[1..n -> {"}", "]"}] : n \in 0..(MaxText - 1)}}

(* All nodes of a tree, and whether an object has a value for each key.    *)
RECURSIVE Nodes(_)
Nodes(tree) == <<tree.at>> \o FlattenSeq([i \in DOMAIN tree.slots |-> Nodes(tree.slots[i])])
RECURSIVE Paired(_)
Paired(tree) ==
    /\ tree.at # 0 /\ text[tree.at] = "{" => Len(tree.slots) % 2 = 0
    /\ \A i \in DOMAIN tree.slots : Paired(tree.slots[i])

(* All tokens but the last, which ends the text or is not accepted, have   *)
(* been made nodes of.                                                     *)
Made == {n \in 1..(Len(text) - 1) : text[n] \in Scalar \cup KeyToken \cup {"{", "["}}

(* A text is taken if the grammar has it, and then for what the grammar    *)
(* says; if it is not, it is none and nothing after it would make it one.  *)
(* In both cases the stacks are empty for the next text, and the tree has  *)
(* everything that was allocated, once, for reset() to free.               *)
TextRead ==
    pc = "done" =>
       /\ stack = <<>> /\ ustack = <<>>
       /\ ok => Meaning(Front(text)) = {result}
       /\ ~ ok /\ Last(text) = "end" => Meaning(Front(text)) = {}
       /\ ~ ok /\ Last(text) # "end" => \A e \in Endings : Meaning(text \o e) = {}
       /\ LET nodes == SelectSeq(Nodes(result), LAMBDA n : n # 0)
          IN  IsInjective(nodes) /\ ToSet(nodes) = Made
       /\ Paired(result)
=============================================================================
