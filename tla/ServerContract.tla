--------------------------- MODULE ServerContract ---------------------------
(***************************************************************************)
(* What the owner of a server may expect of init and close, said without   *)
(* listeners, sets of sockets and timers: a start serves connections until *)
(* a close; a forced close leaves none; and a promise of close is kept     *)
(* only when the start it was made of is over for everybody, and broken    *)
(* only when it was made of a server that did not run.                     *)
(***************************************************************************)
EXTENDS Naturals, Sequences

CONSTANT Conns

VARIABLES
    starts,             \* how often the server was started
    running,
    served,             \* per connection: the start that serves it, if any
    promises            \* of close, in the order they were made

vars == <<starts, running, served, promises>>

Init ==
    /\ starts = 0
    /\ running = FALSE
    /\ served = [c \in Conns |-> {}]
    /\ promises = <<>>

Start ==
    /\ ~running
    /\ running' = TRUE
    /\ starts' = starts + 1
    /\ UNCHANGED <<served, promises>>

Serve(c) ==
    /\ running
    /\ served[c] = {}
    /\ served' = [served EXCEPT ![c] = {starts}]
    /\ UNCHANGED <<starts, running, promises>>

\* Connections end, for whatever reason.
Leave(left) ==
    /\ served' = [c \in Conns |-> IF c \in left THEN {} ELSE served[c]]
    /\ UNCHANGED <<starts, running, promises>>

Close(force) ==
    /\ running' = FALSE
    /\ served' = IF force THEN [c \in Conns |-> {}] ELSE served
    /\ promises' = Append(promises,
          [of |-> starts, running |-> running, state |-> "pending"])
    /\ UNCHANGED starts

\* Nothing of the start that the promise was made of goes on.
Over(start) ==
    /\ running => start # starts
    /\ \A c \in Conns : start \notin served[c]

Keep(i) ==
    /\ promises[i].state = "pending"
    /\ promises[i].running
    /\ Over(promises[i].of)
    /\ promises' = [promises EXCEPT ![i].state = "kept"]
    /\ UNCHANGED <<starts, running, served>>

\* Promises of closing what did not run, rejected together.
Break(vain) ==
    /\ \A i \in vain : promises[i].state = "pending" /\ ~promises[i].running
    /\ promises' = [i \in 1 .. Len(promises) |->
          IF i \in vain THEN [promises[i] EXCEPT !.state = "broken"]
                        ELSE promises[i]]
    /\ UNCHANGED <<starts, running, served>>

Next ==
    \/ Start
    \/ \E c \in Conns : Serve(c)
    \/ \E left \in SUBSET Conns : Leave(left)
    \/ \E force \in BOOLEAN : Close(force)
    \/ \E i \in 1 .. Len(promises) : Keep(i)
    \/ \E vain \in SUBSET (1 .. Len(promises)) : Break(vain)

Spec == Init /\ [][Next]_vars

=============================================================================
