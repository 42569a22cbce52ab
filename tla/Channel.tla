------------------------------ MODULE Channel ------------------------------
(***************************************************************************)
(* What a channel promises: elements are taken from it in the order in     *)
(* which the writers came, each of them once.  Up to limit elements are in *)
(* the channel proper; those behind belong to writers that wait, who may   *)
(* give up.  An element for which a reader already waits does not queue,   *)
(* and once the channel is shut nothing new comes in.                      *)
(***************************************************************************)
EXTENDS Sequences, SequencesExt, Naturals

CONSTANTS Elem,
          Unlimited   \* the limit of a channel that has none

VARIABLES line,     \* elements written and not read, oldest first
          handed,   \* elements on their way to readers that had to wait
          fresh,    \* elements nobody has written
          taken,    \* elements that have been read
          shut,     \* the channel is closed
          limit     \* how many elements are in the channel proper

chanVars == <<line, handed, fresh, taken, shut, limit>>

Init ==
    /\ line = <<>>
    /\ handed = {} /\ taken = {}
    /\ fresh = Elem
    /\ shut = FALSE
    /\ limit \in Nat \cup {Unlimited}

Put(e) ==
    /\ ~ shut
    /\ line' = Append(line, e)
    /\ fresh' = fresh \ {e}
    /\ UNCHANGED <<handed, taken, shut, limit>>

Pass(e) ==
    /\ ~ shut
    /\ line = <<>>
    /\ handed' = handed \cup {e}
    /\ fresh' = fresh \ {e}
    /\ UNCHANGED <<line, taken, shut, limit>>

Take ==
    /\ line # <<>>
    /\ line' = Tail(line)
    /\ taken' = taken \cup {Head(line)}
    /\ UNCHANGED <<handed, fresh, shut, limit>>

Arrive(e) ==
    /\ handed' = handed \ {e}
    /\ taken' = taken \cup {e}
    /\ UNCHANGED <<line, fresh, shut, limit>>

GiveUp(i) ==
    /\ limit \in Nat /\ i > limit
    /\ line' = RemoveAt(line, i)
    /\ fresh' = fresh \cup {line[i]}
    /\ UNCHANGED <<handed, taken, shut, limit>>

Shut ==
    /\ shut' = TRUE
    /\ UNCHANGED <<line, handed, fresh, taken, limit>>

Next ==
    \/ \E e \in fresh : Put(e) \/ Pass(e)
    \/ Take
    \/ \E e \in handed : Arrive(e)
    \/ \E i \in DOMAIN line : GiveUp(i)
    \/ Shut

Spec == Init /\ [][Next]_chanVars
=============================================================================
