-------------------------------- MODULE Hook --------------------------------
(***************************************************************************)
(* The system call hooks of src/co/hook.cc.  A coroutine may use blocking  *)
(* sockets: its calls make the socket non-blocking in the kernel, mark it, *)
(* and wait as a coroutine does.  What the user asked for is kept in a     *)
(* table by the number of the descriptor, HookCtx; the kernel keeps the    *)
(* mode with the open file, which several descriptors may share, and gives *)
(* a number to somebody else once it is closed.                            *)
(* The waits themselves are those of SockIo; here a wait ends in any way.  *)
(* Every system call and every access to the table is a step.              *)
(***************************************************************************)
EXTENDS Naturals, FiniteSets

CONSTANTS Fd,       \* numbers of descriptors
          File,     \* open files of the kernel, a set of numbers
          Co,       \* coroutines that make calls
          Thread,   \* threads that make calls
          None,
          Odd       \* unusual uses, see below

(* connect: of a socket that was read from or written to before;           *)
(* copies: the mode or the timeout of a file with several descriptors is   *)
(* changed; co_close: a hooked socket is closed by co::close; shutdown:    *)
(* shutdown() of a socket that is not connected, and is used afterwards;   *)
(* afterwards: a socket is used, and not just closed, after both of its    *)
(* directions were shut down.                                              *)
OddUses == {"connect", "copies", "co_close", "shutdown", "afterwards"}   \* Odd \subseteq OddUses

VARIABLES file,     \* the open file of each descriptor
          kind,     \* what each open file is
          kernelNb, \* its O_NONBLOCK
          down,     \* directions of it that were shut down
          userNb,   \* history: the mode the user asked for
          userMs,   \* history: whether the user set a timeout
          ctx,      \* HookCtx of each number
          call      \* the call each caller is in

kernel == <<file, kind, kernelNb, down>>
wishes == <<userNb, userMs>>
vars == <<kernel, wishes, ctx, call>>

Caller == Co \cup Thread
Idle == [at |-> "idle", fd |-> None, hooked |-> FALSE]

(* send_timeout and recv_timeout are one here: 0, or the user's.           *)
Ctx == [nb : BOOLEAN, so : BOOLEAN, mark : BOOLEAN, shut : SUBSET {"r", "w"}, ms : BOOLEAN]
NoCtx == [nb |-> FALSE, so |-> FALSE, mark |-> FALSE, shut |-> {}, ms |-> FALSE]

TypeOK ==
    /\ file \in [Fd -> File \cup {None}]
    /\ kind \in [File -> {"none", "sock", "plain"}]
    /\ kernelNb \in [File -> BOOLEAN] /\ down \in [File -> SUBSET {"r", "w"}]
    /\ userNb \in [File -> BOOLEAN] /\ userMs \in [File -> BOOLEAN]
    /\ ctx \in [Fd -> Ctx]
    /\ call \in [Caller -> [at : {"idle", "try", "wait", "connect", "close"},
                            fd : Fd \cup {None}, hooked : BOOLEAN]]

Init ==
    /\ file = [n \in Fd |-> None]
    /\ kind = [f \in File |-> "none"]
    /\ kernelNb = [f \in File |-> FALSE] /\ down = [f \in File |-> {}]
    /\ userNb = kernelNb /\ userMs = kernelNb
    /\ ctx = [n \in Fd |-> NoCtx]
    /\ call = [p \in Caller |-> Idle]

Open(n) == file[n] # None
Shared(n) == \E m \in Fd \ {n} : file[m] = file[n]
Busy(n) == \E p \in Caller : call[p].fd = n
InUse(n) == \E p \in Caller : call[p].fd # None /\ file[call[p].fd] = file[n]

(* A new open file gets a number that is free; the user's wishes with it.  *)
Create(n, f, k, nb) ==
    /\ ~ Open(n) /\ kind[f] = "none" /\ \A g \in File : g < f => kind[g] # "none"
    /\ file' = [file EXCEPT ![n] = f]
    /\ kind' = [kind EXCEPT ![f] = k]
    /\ kernelNb' = [kernelNb EXCEPT ![f] = nb]
    /\ down' = [down EXCEPT ![f] = {}]
    /\ userNb' = [userNb EXCEPT ![f] = nb]
    /\ userMs' = [userMs EXCEPT ![f] = FALSE]

(* Nobody uses a number that is being closed, or a socket while it is      *)
(* being connected.                                                        *)
Closable(n) ==
    /\ Open(n)
    /\ \A p \in Caller : /\ ~ (call[p].at = "close" /\ call[p].fd = n)
                         /\ ~ (call[p].at = "connect" /\ file[call[p].fd] = file[n])

Usable(n) == Closable(n) /\ (down[file[n]] = {"r", "w"} => "afterwards" \in Odd)

(* What is left of an open file when n no longer refers to it.             *)
Forget(n) == kind' = IF ~ Open(n) \/ Shared(n) THEN kind ELSE [kind EXCEPT ![file[n]] = "none"]

(* A call of p on n begins; or one that is over at once.                   *)
At(p, at, n, hooked) == call' = [call EXCEPT ![p] = [at |-> at, fd |-> n, hooked |-> hooked]]
Return(p) == call' = [call EXCEPT ![p] = Idle]

(* HookCtx::set_non_blocking                                               *)
SetNonBlocking(c, nb) == [c EXCEPT !.nb = nb, !.mark = FALSE]

(* HookCtx::set_shut_read, set_shut_write                                  *)
SetShut(c, how) ==
    LET shut == c.shut \cup how
    IN  IF shut = {"r", "w"} THEN NoCtx ELSE [c EXCEPT !.shut = shut]
-----------------------------------------------------------------------------
(* Descriptors come and go.                                                *)

(* socket, socketpair, pipe and pipe2: nobody knows a number yet when the  *)
(* table learns of it, so this is one step.                                *)
Socket(n, f, nb) ==
    /\ Create(n, f, "sock", nb)
    /\ ctx' = [ctx EXCEPT ![n] =
                  IF nb THEN SetNonBlocking([@ EXCEPT !.so = TRUE], TRUE) ELSE [@ EXCEPT !.so = TRUE]]
    /\ UNCHANGED call

(* open() is not hooked.                                                   *)
OpenPlain(n, f) ==
    /\ Create(n, f, "plain", FALSE)
    /\ UNCHANGED <<ctx, call>>

(* dup, and fcntl with F_DUPFD.                                            *)
Dup(old, new) ==
    /\ Usable(old) /\ ~ Open(new)
    /\ file' = [file EXCEPT ![new] = file[old]]
    /\ ctx' = IF ctx[old].so THEN [ctx EXCEPT ![new] = ctx[old]] ELSE ctx
    /\ UNCHANGED <<kind, kernelNb, down, wishes, call>>

(* dup2 and dup3; the kernel closes what new was.                          *)
Dup2(old, new) ==
    /\ old # new
    /\ Usable(old) /\ (Open(new) => Closable(new) /\ ~ Busy(new))
    /\ Forget(new)
    /\ file' = [file EXCEPT ![new] = file[old]]
    /\ ctx' = [ctx EXCEPT ![new] = ctx[old]]
    /\ UNCHANGED <<kernelNb, down, wishes, call>>

(* Slip: the mode is reset, what else is known of the number is kept.      *)
CloseBeginsKeeps(p, n) ==
    /\ call[p] = Idle /\ Closable(n) /\ ~ Busy(n)
    /\ ctx' = IF ctx[n].so THEN [ctx EXCEPT ![n] = [@ EXCEPT !.nb = FALSE, !.mark = FALSE]] ELSE ctx
    /\ At(p, "close", n, ctx[n].so)
    /\ UNCHANGED <<kernel, wishes>>

(* close: the table first, then the kernel.                                *)
CloseBegins(p, n) ==
    /\ call[p] = Idle /\ Closable(n) /\ ~ Busy(n)
    /\ ctx' = IF ctx[n].so THEN [ctx EXCEPT ![n] = NoCtx] ELSE ctx
    /\ At(p, "close", n, ctx[n].so)
    /\ UNCHANGED <<kernel, wishes>>

CloseEnds(p) ==
    LET n == call[p].fd
    IN  /\ call[p].at = "close"
        /\ Forget(n)
        /\ file' = [file EXCEPT ![n] = None]
        /\ Return(p)
        /\ UNCHANGED <<kernelNb, down, wishes, ctx>>

(* The library's own close(), which knows nothing of the table.            *)
CoClose(n) ==
    /\ Closable(n) /\ ~ Busy(n) /\ "co_close" \in Odd
    /\ Forget(n)
    /\ file' = [file EXCEPT ![n] = None]
    /\ UNCHANGED <<kernelNb, down, wishes, ctx, call>>
-----------------------------------------------------------------------------
(* Modes, timeouts, shutdown.                                              *)

(* fcntl with F_SETFL, and ioctl with FIONBIO.                             *)
SetMode(n, nb) ==
    /\ Usable(n) /\ ~ InUse(n)
    /\ Shared(n) => "copies" \in Odd
    /\ kernelNb' = [kernelNb EXCEPT ![file[n]] = nb]
    /\ userNb' = [userNb EXCEPT ![file[n]] = nb]
    /\ ctx' = IF ctx[n].so THEN [ctx EXCEPT ![n] = SetNonBlocking(@, nb)] ELSE ctx
    /\ UNCHANGED <<file, kind, down, userMs, call>>

(* setsockopt with SO_RCVTIMEO or SO_SNDTIMEO.                             *)
SetTimeout(n, ms) ==
    /\ Usable(n) /\ kind[file[n]] = "sock" /\ ~ InUse(n)
    /\ Shared(n) => "copies" \in Odd
    /\ userMs' = [userMs EXCEPT ![file[n]] = ms]
    /\ ctx' = [ctx EXCEPT ![n].ms = ms]
    /\ UNCHANGED <<kernel, userNb, call>>

(* shutdown: the table is changed whatever the kernel says, and cleared    *)
(* when both directions are down.                                          *)
Shutdown(n, how, fails) ==
    /\ fails => "shutdown" \in Odd
    /\ Usable(n) /\ kind[file[n]] = "sock" /\ ~ InUse(n)
    /\ ctx' = [ctx EXCEPT ![n] = SetShut(@, how)]
    /\ down' = IF fails THEN down ELSE [down EXCEPT ![file[n]] = @ \cup how]
    /\ UNCHANGED <<file, kind, kernelNb, wishes, call>>
-----------------------------------------------------------------------------
(* Calls that may wait.  A thread's, and one on a descriptor the user made *)
(* non-blocking, go to the kernel as they are; read, readv, write, writev  *)
(* do so, too, for what is not known to be a socket or a pipe.             *)
PassesThrough(p, n, all) == p \in Thread \/ ctx[n].nb \/ (~ all /\ ~ ctx[n].so)

(* The mark says that the hook has made the socket non-blocking.           *)
Mark(n) ==
    /\ kernelNb' = IF ctx[n].mark THEN kernelNb ELSE [kernelNb EXCEPT ![file[n]] = TRUE]
    /\ ctx' = [ctx EXCEPT ![n].mark = TRUE]

(* read to sendmsg, accept and accept4.                                    *)
CallBegins(p, n, all) ==
    /\ call[p] = Idle /\ Usable(n)
    /\ kind[file[n]] = "plain" => ~ all
    /\ IF PassesThrough(p, n, all)
       THEN /\ At(p, "try", n, FALSE)
            /\ UNCHANGED <<kernelNb, ctx>>
       ELSE /\ At(p, "try", n, TRUE)
            /\ Mark(n)
    /\ UNCHANGED <<file, kind, down, wishes>>

(* Plain files never make a call wait, nor do directions that are down.    *)
CanWait(n) == kind[file[n]] = "sock" /\ down[file[n]] # {"r", "w"}

TrySucceeds(p) ==
    /\ call[p].at = "try"
    /\ Return(p)
    /\ UNCHANGED <<kernel, wishes, ctx>>

(* The kernel has nothing yet.  Called by a thread it blocks, or says so   *)
(* at once; the hook waits, for as long as the user said.                  *)
TryAgain(p) ==
    /\ call[p].at = "try" /\ CanWait(call[p].fd) /\ kernelNb[file[call[p].fd]]
    /\ IF call[p].hooked THEN At(p, "wait", call[p].fd, TRUE) ELSE Return(p)
    /\ UNCHANGED <<kernel, wishes, ctx>>

WaitEnds(p) ==
    /\ call[p].at = "wait"
    /\ \/ At(p, "try", call[p].fd, TRUE)
       \/ ctx[call[p].fd].ms /\ Return(p)
    /\ UNCHANGED <<kernel, wishes, ctx>>

(* accept and accept4 got a connection: the number becomes a socket's.     *)
Accepted(p, n, f, four, nb) ==
    /\ call[p].at = "try" /\ kind[file[call[p].fd]] = "sock"
    /\ nb => four
    /\ Create(n, f, "sock", nb)
    /\ ctx' = [ctx EXCEPT ![n] = IF four THEN SetNonBlocking([@ EXCEPT !.so = TRUE], nb)
                                         ELSE [@ EXCEPT !.so = TRUE]]
    /\ Return(p)

(* connect makes the socket non-blocking for itself only.                  *)
ConnectBegins(p, n) ==
    /\ call[p] = Idle /\ Usable(n) /\ kind[file[n]] = "sock" /\ ~ InUse(n)
    /\ kernelNb[file[n]] /\ ~ userNb[file[n]] => "connect" \in Odd
    /\ IF PassesThrough(p, n, TRUE)
       THEN /\ At(p, "try", n, FALSE)
            /\ UNCHANGED kernelNb
       ELSE /\ At(p, "connect", n, TRUE)
            /\ kernelNb' = [kernelNb EXCEPT ![file[n]] = TRUE]
    /\ UNCHANGED <<file, kind, down, wishes, ctx>>

ConnectEnds(p) ==
    /\ call[p].at = "connect"
    /\ kernelNb' = [kernelNb EXCEPT ![file[call[p].fd]] = FALSE]
    /\ Return(p)
    /\ UNCHANGED <<file, kind, down, wishes, ctx>>
-----------------------------------------------------------------------------
Next ==
    \/ \E n \in Fd :
           \/ \E f \in File : OpenPlain(n, f) \/ \E x \in BOOLEAN : Socket(n, f, x)
           \/ \E m \in Fd : Dup(n, m) \/ Dup2(n, m)
           \/ CoClose(n)
           \/ \E x \in BOOLEAN : SetMode(n, x) \/ SetTimeout(n, x)
           \/ \E how \in {{"r"}, {"w"}, {"r", "w"}}, x \in BOOLEAN : Shutdown(n, how, x)
    \/ \E p \in Caller :
           \/ \E n \in Fd :
                  \/ CloseBegins(p, n) \/ ConnectBegins(p, n)
                  \/ \E x \in BOOLEAN : CallBegins(p, n, x)
                  \/ \E f \in File, x, y \in BOOLEAN : Accepted(p, n, f, x, y)
           \/ CloseEnds(p) \/ TrySucceeds(p) \/ TryAgain(p) \/ WaitEnds(p) \/ ConnectEnds(p)

Spec == Init /\ [][Next]_vars
-----------------------------------------------------------------------------
(* No coroutine waits in the kernel, and its scheduler with it, whatever   *)
(* became of the number and of the open file before.                       *)
SchedulerNotBlocked ==
    \A p \in Co : call[p].at = "try" /\ CanWait(call[p].fd) => kernelNb[file[call[p].fd]]

(* A socket with the mark has been made non-blocking: "for blocking        *)
(* sockets, we modify them to non_blocking, and set nb_mark to 1", says    *)
(* the comment of set_nb_mark.  With "connect" in Odd it does not hold:    *)
(* recvfrom, say, of a datagram socket marks it, connect sets the kernel   *)
(* back, and the next read blocks the scheduler.                           *)
MarkedIsNonBlocking ==
    \A n \in Fd : Open(n) /\ ctx[n].mark => kernelNb[file[n]]

(* A call of a coroutine waits if the user left the descriptor blocking,   *)
(* and as long as the user said; otherwise it returns at once.             *)
WaitsAsAsked ==
    \A p \in Co :
        LET f == file[call[p].fd]
        IN  /\ call[p].at = "wait" => ~ userNb[f] /\ ctx[call[p].fd].ms = userMs[f]
            /\ call[p].at = "try" /\ CanWait(call[p].fd) /\ ~ call[p].hooked => userNb[f]
=============================================================================
