----------------------------- MODULE MutexQueue -----------------------------
(***************************************************************************)
(* mutex_impl::queue of src/co/co.cc, the queue of those that wait for a   *)
(* mutex: a list of blocks of N entries.  Entries are pushed to the last   *)
(* block and popped from the first; a block that has been popped empty is  *)
(* deleted, or used again if it is the last.                               *)
(***************************************************************************)
EXTENDS Naturals, Sequences, SequencesExt

CONSTANTS N,      \* entries of a block
          Entry   \* what is queued

VARIABLES blocks,   \* _q
          size      \* _size

queue == <<blocks, size>>

Block == [rx : 0..N, wx : 0..N, q : Seq(Entry)]
EmptyBlock == [rx |-> 0, wx |-> 0, q |-> <<>>]

QueueInit == blocks = <<>> /\ size = 0

(* What is beyond wx is not looked at before it is written again.          *)
Write(m, x) == [m EXCEPT !.q = Append(SubSeq(@, 1, m.wx), x), !.wx = @ + 1]

(* Slip: a full block is noticed one entry too late, which is lost.        *)
push_backLate(x) ==
    /\ blocks' = IF blocks # <<>> /\ Last(blocks).wx <= N
                 THEN IF Last(blocks).wx < N
                      THEN Front(blocks) \o <<Write(Last(blocks), x)>>
                      ELSE blocks
                 ELSE Append(blocks, Write(EmptyBlock, x))
    /\ size' = size + 1

push_back(x) ==
    /\ blocks' = IF blocks # <<>> /\ Last(blocks).wx # N
                 THEN Front(blocks) \o <<Write(Last(blocks), x)>>
                 ELSE Append(blocks, Write(EmptyBlock, x))
    /\ size' = size + 1

(* A block that holds nothing gives nullptr, and nothing changes.          *)
pop_front ==
    IF blocks = <<>> \/ Head(blocks).rx >= Head(blocks).wx
    THEN UNCHANGED queue
    ELSE LET m == [Head(blocks) EXCEPT !.rx = @ + 1]
         IN  /\ blocks' = IF m.rx # m.wx THEN <<m>> \o Tail(blocks)
                          ELSE IF Len(blocks) > 1 THEN Tail(blocks)
                          ELSE <<[m EXCEPT !.rx = 0, !.wx = 0]>>
             /\ size' = size - 1

(* What pop_front will return, one entry after the other.                  *)
Contents ==
    FlattenSeq([i \in DOMAIN blocks |-> SubSeq(blocks[i].q, blocks[i].rx + 1, blocks[i].wx)])
=============================================================================
