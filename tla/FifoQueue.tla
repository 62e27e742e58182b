----------------------------- MODULE FifoQueue -----------------------------
(***************************************************************************)
(* What a job queue promises to the code on both sides of it: the          *)
(* functions handed to enqueue() come out of poll() one at a time, each    *)
(* once, in the order in which they were pushed.  There are no threads,    *)
(* locks or wake-ups here; JobQueue.tla is shown to implement this.        *)
(***************************************************************************)
EXTENDS Sequences

CONSTANT Jobs   \* the functions that may be enqueued, each submitted once

VARIABLES
    pending,    \* pushed and not yet taken, in order
    delivered   \* taken by some poll(), in order

vars == <<pending, delivered>>

Members(s) == {s[i] : i \in DOMAIN s}

Init ==
    /\ pending = <<>>
    /\ delivered = <<>>

Submit(j) ==
    /\ j \notin Members(pending) \cup Members(delivered)
    /\ pending' = Append(pending, j)
    /\ UNCHANGED delivered

Deliver ==
    /\ pending # <<>>
    /\ delivered' = Append(delivered, Head(pending))
    /\ pending' = Tail(pending)

Next == Deliver \/ \E j \in Jobs : Submit(j)

Spec == Init /\ [][Next]_vars
=============================================================================
