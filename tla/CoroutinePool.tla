---------------------------- MODULE CoroutinePool ----------------------------
(***************************************************************************)
(* CoroutinePool of src/co/sched.h: the Coroutine objects of a scheduler,  *)
(* in blocks of N.  An index names its block (idx >> E) and its offset in  *)
(* it (idx & (N - 1)).  Blocks are allocated when first needed and freed   *)
(* when their last coroutine is pushed back; only the indices of block 0   *)
(* and of the current block _c are kept for reuse one by one.              *)
(*                                                                         *)
(* The pool is used by one scheduler thread; its environment is what       *)
(* resume() does: pop() when a closure starts, push() when it ends, and    *)
(* never push() of main_co, the coroutine the constructor pops.            *)
(***************************************************************************)
EXTENDS Integers, Sequences, SequencesExt, FiniteSets

CONSTANTS N,         \* coroutines in a block, not 0
          MaxLive,   \* bound: coroutines that exist at the same time
          MaxBlock   \* bound: the largest block number

VARIABLES c,          \* _c: the current block
          o,          \* _o: offset of its first coroutine never handed out
          allocated,  \* the blocks q with _v[q] # 0
          useCount,   \* _use_count
          v0,         \* _v0: free coroutines of block 0, last in first out
          vc,         \* _vc: free coroutines of block _c
          blks,       \* _blks: blocks available
          holders     \* holders[i]: how often i has been popped, not pushed

vars == <<c, o, allocated, useCount, v0, vc, blks, holders>>
pool == <<c, o, allocated, useCount, v0, vc, blks>>

Block == 0..MaxBlock
Idx == 0..(MaxBlock * N + N - 1)
BlockOf(i) == i \div N
MainIdx == 0

Live == {i \in Idx : holders[i] > 0}
LiveIn(q) == {i \in Live : BlockOf(i) = q}
Smallest(S) == CHOOSE q \in S : \A r \in S : q <= r

TypeOK ==
    /\ c \in Block
    /\ o \in 0..N
    /\ allocated \subseteq Block
    /\ useCount \in [Block -> 0..MaxLive]
    /\ v0 \in Seq(Idx) /\ vc \in Seq(Idx)
    /\ blks \subseteq Block
    /\ holders \in [Idx -> 0..MaxLive]

(* The Sched constructor has popped index 0 for _main_co.                  *)
Init ==
    /\ c = 0
    /\ o = 1
    /\ allocated = {0}
    /\ useCount = [q \in Block |-> IF q = 0 THEN 1 ELSE 0]
    /\ v0 = <<>>
    /\ vc = <<>>
    /\ blks = {}
    /\ holders = [i \in Idx |-> IF i = MainIdx THEN 1 ELSE 0]

-----------------------------------------------------------------------------
(* pop()                                                                   *)

RoomForOneMore == Cardinality(Live) < MaxLive

(* A coroutine of block 0 is reused first, then one of the current block.  *)
ReuseFirstBlock ==
    /\ RoomForOneMore
    /\ v0 # <<>>
    /\ v0' = Front(v0)
    /\ useCount' = [useCount EXCEPT ![BlockOf(Last(v0))] = @ + 1]
    /\ holders' = [holders EXCEPT ![Last(v0)] = @ + 1]
    /\ UNCHANGED <<c, o, allocated, vc, blks>>

ReuseCurrentBlock ==
    /\ RoomForOneMore
    /\ v0 = <<>> /\ vc # <<>>
    /\ vc' = Front(vc)
    /\ useCount' = [useCount EXCEPT ![BlockOf(Last(vc))] = @ + 1]
    /\ holders' = [holders EXCEPT ![Last(vc)] = @ + 1]
    /\ UNCHANGED <<c, o, allocated, v0, blks>>

(* The next coroutine of block q, from offset r on.                        *)
HandOut(q, r) ==
    /\ c' = q
    /\ o' = r + 1
    /\ allocated' = allocated \cup {q}
    /\ useCount' = [useCount EXCEPT ![q] = @ + 1]
    /\ holders' = [holders EXCEPT ![q * N + r] = @ + 1]
    /\ UNCHANGED <<v0, vc>>

NewInCurrentBlock ==
    /\ RoomForOneMore
    /\ v0 = <<>> /\ vc = <<>>
    /\ o < N
    /\ HandOut(c, o)
    /\ UNCHANGED blks

(* The current block is used up: go on with the smallest block available,  *)
(* or with the one after the current one.                                  *)
NewInNextBlock ==
    /\ RoomForOneMore
    /\ v0 = <<>> /\ vc = <<>>
    /\ o = N
    /\ IF blks # {}
       THEN /\ HandOut(Smallest(blks), 0)
            /\ blks' = blks \ {Smallest(blks)}
       ELSE /\ c < MaxBlock
            /\ HandOut(c + 1, 0)
            /\ UNCHANGED blks

pop ==
    \/ ReuseFirstBlock
    \/ ReuseCurrentBlock
    \/ NewInCurrentBlock
    \/ NewInNextBlock

-----------------------------------------------------------------------------
(* push()                                                                  *)

(* The index is kept when it is in block 0 or in the current block.        *)
KeepForReuse(i) ==
    /\ v0' = IF BlockOf(i) = 0 THEN Append(v0, i) ELSE v0
    /\ vc' = IF BlockOf(i) = c /\ c # 0 THEN Append(vc, i) ELSE vc

(* A coroutine of a block that stays in use.                               *)
PushToUsedBlock(i) ==
    /\ useCount[BlockOf(i)] > 1
    /\ KeepForReuse(i)
    /\ UNCHANGED <<c, o, allocated, blks>>

(* The last coroutine of a block that is not the current one.              *)
FreeOtherBlock(i) ==
    /\ useCount[BlockOf(i)] = 1
    /\ BlockOf(i) # c
    /\ KeepForReuse(i)
    /\ allocated' = allocated \ {BlockOf(i)}
    /\ blks' = blks \cup {BlockOf(i)}
    /\ UNCHANGED <<c, o>>

(* Slip: _vc keeps the indices of a freed block.                           *)
FreeCurrentBlockKeepsVc(i) ==
    /\ useCount[BlockOf(i)] = 1
    /\ BlockOf(i) = c
    /\ KeepForReuse(i)
    /\ o' = 0
    /\ allocated' = allocated \ {c}
    /\ UNCHANGED <<c, blks>>

(* The last coroutine of the current block: the pool moves to a smaller    *)
(* block if one is available.                                              *)
FreeCurrentBlock(i) ==
    /\ useCount[BlockOf(i)] = 1
    /\ BlockOf(i) = c
    /\ v0' = IF c = 0 THEN Append(v0, i) ELSE v0
    /\ vc' = <<>>
    /\ o' = 0
    /\ allocated' = allocated \ {c}
    /\ IF blks # {} /\ Smallest(blks) < c
       THEN /\ c' = Smallest(blks)
            /\ blks' = (blks \cup {c}) \ {Smallest(blks)}
       ELSE UNCHANGED <<c, blks>>

push(i) ==
    /\ i \in Live \ {MainIdx}
    /\ useCount' = [useCount EXCEPT ![BlockOf(i)] = @ - 1]
    /\ holders' = [holders EXCEPT ![i] = @ - 1]
    /\ PushToUsedBlock(i) \/ FreeOtherBlock(i) \/ FreeCurrentBlock(i)

Next == pop \/ \E i \in Idx : push(i)

Spec == Init /\ [][Next]_vars

-----------------------------------------------------------------------------
(* An index is handed out to one coroutine at a time: two coroutines with  *)
(* one Coroutine object share its context, its stack and its timer.        *)
PopGivesFreeCoroutine == \A i \in Idx : holders[i] <= 1

(* The memory of a coroutine that exists has not been freed.               *)
LiveIsAllocated == \A i \in Live : BlockOf(i) \in allocated

(* No block is lost: one that has been used and is empty now is the        *)
(* current block or is available, and the next pop() that needs a block    *)
(* takes it before a higher one.                                           *)
EmptyBlocksAvailable ==
    \A q \in Block :
        LET reached == \E r \in Block : r >= q /\ (LiveIn(r) # {} \/ r = c \/ r \in blks)
        IN  reached /\ LiveIn(q) = {} => (q = c) # (q \in blks)

(* Together: whatever is popped and pushed, within two blocks.             *)
PoolSound == PopGivesFreeCoroutine /\ LiveIsAllocated /\ EmptyBlocksAvailable
=============================================================================
