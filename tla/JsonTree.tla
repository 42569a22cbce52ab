------------------------------ MODULE JsonTree ------------------------------
(***************************************************************************)
(* The values of include/co/json.h and src/json.cc.  A Json is a pointer   *)
(* to a header, null for the value null; an array keeps the pointers of    *)
(* its elements in a block that grows, an object the keys and pointers of  *)
(* its members.  A call takes the values it is given: their pointers are   *)
(* null afterwards.                                                        *)
(*                                                                         *)
(* Calls are made on variables of the program or on elements of theirs,    *)
(* and never move a value into itself: operator= and push_back free what   *)
(* they replace before they read what they are given.                      *)
(***************************************************************************)
EXTENDS Naturals, Sequences, SequencesExt, FiniteSets, FiniteSetsExt

CONSTANTS Root,        \* variables of type Json
          Key,         \* keys, and the contents of strings
          Cap,         \* entries of a first block: 8 in the code
          MaxElems,    \* bound: elements of an array, members of an object
          MaxLive,     \* bound: blocks in use
          DupEmptied   \* whether arrays that were emptied are duplicated

VARIABLES root,   \* root[r]: what the _h of a variable points to
          live,   \* blocks allocated and not freed
          val     \* val[r]: the value the calls should have made (history)

treeVars == <<root, live, val>>

-----------------------------------------------------------------------------
(* A header, what it points to included: cap = 0 is p = 0, an array or an  *)
(* object that has no block yet; a key is in an odd slot of an object, its *)
(* value in the next.                                                      *)
NullH == [kind |-> "null"]
NumberH == [kind |-> "number"]
StringH(k) == [kind |-> "string", s |-> k]
Header(type, cap, slots) == [kind |-> type, cap |-> cap, slots |-> slots]

IsContainer(h) == h.kind \in {"array", "object"}
Step(h) == IF h.kind = "object" THEN 2 ELSE 1
Values(h) == IF IsContainer(h)
             THEN [i \in 1..(Len(h.slots) \div Step(h)) |-> h.slots[Step(h) * i]] ELSE <<>>

(* The blocks reset() frees: headers, strings, keys and arrays.            *)
RECURSIVE Blocks(_)
Blocks(h) ==
    CASE h.kind = "null" -> 0
      [] h.kind = "number" -> 1
      [] h.kind = "string" -> 2
      [] OTHER -> 1 + (IF h.cap = 0 THEN 0 ELSE 1)
                    + (IF h.kind = "object" THEN Len(Values(h)) ELSE 0)
                    + FoldLeft(LAMBDA n, x : n + Blocks(x), 0, Values(h))

(* Array::push_back                                                        *)
PushBack(h, x) ==
    [h EXCEPT !.cap = IF Len(h.slots) = h.cap THEN 2 * h.cap ELSE h.cap,
              !.slots = Append(@, x)]

(* The first member with a key, 0 if there is none.                        *)
Find(h, k) ==
    LET found == {i \in DOMAIN Values(h) : h.kind = "object" /\ h.slots[2 * i - 1] = k}
    IN  IF found = {} THEN 0 ELSE Min(found)

-----------------------------------------------------------------------------
(* What the headers mean: null, a number, a string, an array of values or  *)
(* an object, which is a sequence of members whose keys may be repeated.   *)
Null == [type |-> "null"]
Number == [type |-> "number"]
String(k) == [type |-> "string", string |-> k]
ArrayV(s) == [type |-> "array", array |-> s]
ObjectV(s) == [type |-> "object", object |-> s]

RECURSIVE Value(_)
Value(h) ==
    CASE h.kind = "null" -> Null
      [] h.kind = "number" -> Number
      [] h.kind = "string" -> String(h.s)
      [] h.kind = "array" -> ArrayV([i \in DOMAIN h.slots |-> Value(h.slots[i])])
      [] h.kind = "object" ->
            ObjectV([i \in DOMAIN Values(h) |-> <<h.slots[2 * i - 1], Value(h.slots[2 * i])>>])

Elems(v, type) == IF v.type = type THEN v[type] ELSE <<>>
FindV(v, k) ==
    LET found == {i \in DOMAIN Elems(v, "object") : v.object[i][1] = k}
    IN  IF found = {} THEN 0 ELSE Min(found)

(* A place: a variable, or the i-th element of its value.                  *)
Places == {p \in [r : Root, i : 0..MaxElems] : p.i <= Len(Values(root[p.r]))}
Whole(r) == [r |-> r, i |-> 0]
Apart(p, q) == p.r # q.r \/ (p.i # 0 /\ q.i # 0 /\ p # q)

At(p) == IF p.i = 0 THEN root[p.r] ELSE Values(root[p.r])[p.i]
Put(t, p, h) ==
    IF p.i = 0 THEN [t EXCEPT ![p.r] = h]
    ELSE [t EXCEPT ![p.r].slots[Step(t[p.r]) * p.i] = h]

ValueAt(p) ==
    IF p.i = 0 THEN val[p.r]
    ELSE IF val[p.r].type = "object" THEN val[p.r].object[p.i][2] ELSE val[p.r].array[p.i]
PutValue(v, p, x) ==
    IF p.i = 0 THEN [v EXCEPT ![p.r] = x]
    ELSE IF v[p.r].type = "object" THEN [v EXCEPT ![p.r].object[p.i][2] = x]
    ELSE [v EXCEPT ![p.r].array[p.i] = x]

-----------------------------------------------------------------------------
(* Allocated and freed blocks, within the bound.                           *)
Count(made, freed) == live + made - freed <= MaxLive /\ live' = live + made - freed

Leaf == {Number} \cup {String(k) : k \in Key}
New(v) == IF v = Number THEN NumberH ELSE StringH(v.string)

(* operator= with a new value, with a value that is moved, swap and reset. *)
assign(p, v) ==
    /\ root' = Put(root, p, New(v))
    /\ Count(Blocks(New(v)), Blocks(At(p)))
    /\ val' = PutValue(val, p, v)

move(p, q) ==
    /\ Apart(p, q)
    /\ root' = Put(Put(root, p, At(q)), q, NullH)
    /\ Count(0, Blocks(At(p)))
    /\ val' = PutValue(PutValue(val, p, ValueAt(q)), q, Null)

swap(p, q) ==
    /\ Apart(p, q)
    /\ root' = Put(Put(root, p, At(q)), q, At(p))
    /\ val' = PutValue(PutValue(val, p, ValueAt(q)), q, ValueAt(p))
    /\ UNCHANGED live

reset(p) ==
    /\ root' = Put(root, p, NullH)
    /\ Count(0, Blocks(At(p)))
    /\ val' = PutValue(val, p, Null)

-----------------------------------------------------------------------------
(* h as an array or object that can take elements: a value of another type *)
(* is reset, a first block is made if there is none.                       *)
Ready(h, type, cap) ==
    IF h.kind # type THEN Header(type, cap, <<>>)
    ELSE IF h.cap = 0 THEN [h EXCEPT !.cap = cap] ELSE h
MadeReady(h, type) == IF h.kind # type THEN 2 ELSE IF h.cap = 0 THEN 1 ELSE 0
FreedReady(h, type) == IF h.kind # type THEN Blocks(h) ELSE 0

Short(h, type) == h.kind = type => Len(Values(h)) < MaxElems

(* What is given is taken after there is room for it.                      *)
push_back(p, q) ==
    /\ Apart(p, q) /\ Short(At(p), "array")
    /\ root' = Put(Put(root, p, PushBack(Ready(At(p), "array", Cap), At(q))), q, NullH)
    /\ Count(MadeReady(At(p), "array"), FreedReady(At(p), "array"))
    /\ val' = PutValue(PutValue(val, p, ArrayV(Append(Elems(ValueAt(p), "array"),
                                                       ValueAt(q)))), q, Null)

WithMember(h, k, x) == PushBack(PushBack(h, k), x)

add_member(p, k, q) ==
    /\ Apart(p, q) /\ Short(At(p), "object")
    /\ root' = Put(Put(root, p, WithMember(Ready(At(p), "object", 2 * Cap), k, At(q))), q, NullH)
    /\ Count(MadeReady(At(p), "object") + 1, FreedReady(At(p), "object"))
    /\ val' = PutValue(PutValue(val, p, ObjectV(Append(Elems(ValueAt(p), "object"),
                                                       <<k, ValueAt(q)>>))), q, Null)

(* operator[] with a key that is not there adds it to an object or null.   *)
at_key(p, k) ==
    /\ At(p).kind \in {"null", "object"} /\ Short(At(p), "object")
    /\ Find(At(p), k) = 0
    /\ root' = Put(root, p, WithMember(Ready(At(p), "object", Cap), k, NullH))
    /\ Count(MadeReady(At(p), "object") + 1, 0)
    /\ val' = PutValue(val, p, ObjectV(Append(Elems(ValueAt(p), "object"), <<k, Null>>)))

(* set(i, v) pads an array with null, and makes one of anything else.  It  *)
(* is not called with an array that has no block, whose size the code      *)
(* would read.                                                             *)
setAt(r, i, v) ==
    LET old == IF root[r].kind = "array" THEN Len(root[r].slots) ELSE 0
        padded == FoldLeftDomain(LAMBDA h, j : IF j <= old THEN h ELSE PushBack(h, NullH),
                                 Ready(root[r], "array", Cap), [j \in 1..i |-> 0])
        elems == Elems(val[r], "array")
    IN  /\ i <= MaxElems
        /\ root[r].kind = "array" => root[r].cap # 0
        /\ root' = [root EXCEPT ![r] = [padded EXCEPT !.slots[i] = New(v)]]
        /\ Count(MadeReady(root[r], "array") + Blocks(New(v)),
                 FreedReady(root[r], "array") + Blocks(padded.slots[i]))
        /\ val' = [val EXCEPT ![r] =
                     ArrayV([j \in 1..(IF i > Len(elems) THEN i ELSE Len(elems)) |->
                               IF j = i THEN v ELSE IF j > Len(elems) THEN Null ELSE elems[j]])]

(* set(key, v) gives the first member of that name a value or adds one.    *)
setKey(r, k, v) ==
    LET n == Find(root[r], k)
        ready == IF n # 0 THEN root[r]
                 ELSE WithMember(Ready(root[r], "object", 2 * Cap), k, NullH)
        at == IF n # 0 THEN 2 * n ELSE Len(ready.slots)
        elems == Elems(val[r], "object")
        m == FindV(val[r], k)
    IN  /\ n # 0 \/ Short(root[r], "object")
        /\ root' = [root EXCEPT ![r] = [ready EXCEPT !.slots[at] = New(v)]]
        /\ Count(Blocks(New(v)) + IF n # 0 THEN 0 ELSE MadeReady(root[r], "object") + 1,
                 Blocks(ready.slots[at]) + FreedReady(root[r], "object"))
        /\ val' = [val EXCEPT ![r] = ObjectV(IF m # 0 THEN [elems EXCEPT ![m] = <<k, v>>]
                                             ELSE Append(elems, <<k, v>>))]

-----------------------------------------------------------------------------
(* Array::remove and remove_pair move the last entries into the gap,       *)
(* erase and erase_pair move down all that follow it.                      *)
MoveLast(slots, i, n) ==
    LET last == Len(slots) - n
    IN  [j \in 1..last |-> IF j \in i..(i + n - 1) THEN slots[last + 1 + j - i] ELSE slots[j]]

(* Slip: the last entry is forgotten.                                      *)
MoveDownShort(slots, i, n) ==
    [j \in 1..(Len(slots) - n) |-> IF j >= i /\ j < Len(slots) - n THEN slots[j + n] ELSE slots[j]]

MoveDown(slots, i, n) ==
    [j \in 1..(Len(slots) - n) |-> IF j >= i THEN slots[j + n] ELSE slots[j]]

TakeOut(p, i, Close(_, _, _)) ==
    LET h == At(p)
        first == Step(h) * (i - 1) + 1
    IN  /\ root' = Put(root, p, [h EXCEPT !.slots = Close(@, first, Step(h))])
        /\ Count(0, Blocks(Values(h)[i]) + IF h.kind = "object" THEN 1 ELSE 0)

(* What can be removed: an element by its index, a member by its name.     *)
Removable(h) ==
    IF h.kind = "array" THEN DOMAIN h.slots ELSE {Find(h, k) : k \in Key} \ {0}

remove(p, i) ==
    LET v == ValueAt(p) IN
    /\ TakeOut(p, i, MoveLast)
    /\ val' = PutValue(val, p, [v EXCEPT ![v.type] = Front([@ EXCEPT ![i] = Last(v[v.type])])])

erase(p, i) ==
    LET v == ValueAt(p) IN
    /\ TakeOut(p, i, MoveDown)
    /\ val' = PutValue(val, p, [v EXCEPT ![v.type] = RemoveAt(@, i)])

-----------------------------------------------------------------------------
(* _dup makes a block as long as what it copies and pushes the copies: an  *)
(* array or object that was emptied gets a block without room.             *)
RECURSIVE DupOf(_)
DupOf(h) ==
    IF ~ IsContainer(h) \/ h.cap = 0 THEN h
    ELSE FoldLeft(LAMBDA d, x : PushBack(d, x), Header(h.kind, Len(h.slots), <<>>),
                  [i \in DOMAIN h.slots |->
                     IF i % Step(h) = 0 THEN DupOf(h.slots[i]) ELSE h.slots[i]])

RECURSIVE HasEmptied(_)
HasEmptied(h) ==
    IsContainer(h) /\ \/ h.cap # 0 /\ h.slots = <<>>
                      \/ \E i \in DOMAIN Values(h) : HasEmptied(Values(h)[i])

dup(p, r) ==
    /\ DupEmptied \/ ~ HasEmptied(At(p))
    /\ root' = [root EXCEPT ![r] = DupOf(At(p))]
    /\ Count(Blocks(At(p)), Blocks(root[r]))
    /\ val' = [val EXCEPT ![r] = ValueAt(p)]

-----------------------------------------------------------------------------
(* Json{..}, json::array{..} and json::object{..} of variables.  A list is *)
(* an object if each of its values is a name and a value: the string of    *)
(* the name becomes the key, and the headers around it go with the list.   *)
IsPair(h) == h.kind = "array" /\ Len(h.slots) = 2 /\ h.slots[1].kind = "string"
IsPairV(v) == v.type = "array" /\ Len(v.array) = 2 /\ v.array[1].type = "string"

Lists == {list \in SeqOf(Root, 2) : IsInjective(list)}

makeList(r, list, type) ==
    LET hs == [i \in DOMAIN list |-> root[list[i]]]
        pairs == \A i \in DOMAIN hs : IsPair(hs[i])
        object == type = "object" \/ (type = "list" /\ pairs)
        step == IF object THEN 2 ELSE 1
        slots == IF object
                 THEN FlattenSeq([i \in DOMAIN hs |-> <<hs[i].slots[1].s, hs[i].slots[2]>>])
                 ELSE hs
        vs == [i \in DOMAIN list |-> val[list[i]]]
        new == FoldLeft(PushBack,
                        Header(IF object THEN "object" ELSE "array", step * Len(hs), <<>>), slots)
    IN  /\ type = "object" => pairs
        /\ root' = [x \in Root |-> IF x = r THEN new
                                   ELSE IF x \in ToSet(list) THEN NullH ELSE root[x]]
        \* a header and an array, less a header, an array and a header for each pair
        /\ Count(IF hs = <<>> THEN 1 ELSE 2,
                 (IF object THEN 3 * Len(hs) ELSE 0)
                 + IF r \in ToSet(list) THEN 0 ELSE Blocks(root[r]))
        /\ val' = [x \in Root |->
                     IF x # r THEN IF x \in ToSet(list) THEN Null ELSE val[x]
                     ELSE IF type # "array" /\ \A i \in DOMAIN vs : IsPairV(vs[i])
                     THEN ObjectV([i \in DOMAIN vs |-> <<vs[i].array[1].string, vs[i].array[2]>>])
                     ELSE ArrayV(vs)]

-----------------------------------------------------------------------------
(* What is read: the first member with a key, an element.  get(i) of an    *)
(* array that has no block reads its size through a null pointer.          *)
NoBlock(h) == h.kind = "array" /\ h.cap = 0
get(h, i) ==
    IF NoBlock(h) THEN [type |-> "read through a null pointer"]
    ELSE IF h.kind = "array" /\ Len(h.slots) >= i THEN Value(h.slots[i]) ELSE Null
get_key(h, k) == IF Find(h, k) = 0 THEN Null ELSE Value(h.slots[2 * Find(h, k)])

-----------------------------------------------------------------------------
TreeInit ==
    /\ root = [r \in Root |-> NullH]
    /\ live = 0
    /\ val = [r \in Root |-> Null]

TreeNext ==
    \/ \E p \in Places : \/ \E v \in Leaf : assign(p, v)
                         \/ reset(p)
                         \/ \E k \in Key : at_key(p, k)
                         \/ \E i \in Removable(At(p)) : remove(p, i) \/ erase(p, i)
                         \/ \E r \in Root : dup(p, r)
    \/ \E p, q \in Places : \/ move(p, q) \/ swap(p, q) \/ push_back(p, q)
                            \/ \E k \in Key : add_member(p, k, q)
    \/ \E r \in Root, v \in Leaf : \/ \E i \in 1..MaxElems : setAt(r, i, v)
                                   \/ \E k \in Key : setKey(r, k, v)
    \/ \E r \in Root, list \in Lists, type \in {"list", "array", "object"} :
          makeList(r, list, type)

TreeSpec == TreeInit /\ [][TreeNext]_treeVars

-----------------------------------------------------------------------------
(* Whatever calls were made, each variable is what they say, read as a     *)
(* whole, by key or by index.                                              *)
AsAsked ==
    \A r \in Root :
       /\ Value(root[r]) = val[r]
       /\ \A k \in Key :
             get_key(root[r], k) =
                LET m == FindV(val[r], k) IN IF m = 0 THEN Null ELSE val[r].object[m][2]
       /\ \A i \in 1..(MaxElems + 1) :
             NoBlock(root[r]) \/ get(root[r], i) =
                IF i \in DOMAIN Elems(val[r], "array") THEN val[r].array[i] ELSE Null

(* Every block that is not freed is reached, once: what the program lets   *)
(* go of is freed, and nothing is freed twice.                             *)
NoLeak == live = MapThenSumSet(LAMBDA r : Blocks(root[r]), Root)

(* No array holds more than it has room for.                               *)
RECURSIVE Fits(_)
Fits(h) ==
    IsContainer(h) => /\ Len(h.slots) <= h.cap
                      /\ \A i \in DOMAIN Values(h) : Fits(Values(h)[i])
WithinBlock == \A r \in Root : Fits(root[r])

TreeSound == AsAsked /\ NoLeak /\ WithinBlock
=============================================================================
