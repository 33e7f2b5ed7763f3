----------------------------- MODULE PipeQueues -----------------------------
(***************************************************************************)
(* What the pipes promise: each has two ends and is a queue of at most     *)
(* Capacity bytes.  A pipe begins empty, and only one that has both ends   *)
(* closed begins anew; bytes come in at an open write end and leave, in    *)
(* the order they came, at an open read end.                               *)
(***************************************************************************)
EXTENDS Naturals, Sequences, SequencesExt

CONSTANTS Pipes, Capacity

VARIABLES
  queue,   \* pipe -> the bytes in it
  open     \* pipe -> its open ends

QueueInit ==
  /\ queue = [p \in Pipes |-> <<>>]
  /\ open = [p \in Pipes |-> {}]

Begin(p) ==
  /\ open[p] = {}
  /\ open' = [open EXCEPT ![p] = {"read", "write"}]
  /\ queue' = [queue EXCEPT ![p] = <<>>]

Close(p, end) ==
  /\ end \in open[p]
  /\ open' = [open EXCEPT ![p] = @ \ {end}]
  /\ UNCHANGED queue

\* Bytes are only added behind the others, and only the oldest are taken.
Put(p) ==
  /\ "write" \in open[p]
  /\ IsPrefix(queue[p], queue'[p]) /\ Len(queue'[p]) <= Capacity
  /\ queue' = [queue EXCEPT ![p] = queue'[p]]
  /\ UNCHANGED open

Get(p) ==
  /\ "read" \in open[p]
  /\ IsSuffix(queue'[p], queue[p])
  /\ queue' = [queue EXCEPT ![p] = queue'[p]]
  /\ UNCHANGED open

QueueNext ==
  \E p \in Pipes :
    \/ Begin(p)
    \/ \E end \in {"read", "write"} : Close(p, end)
    \/ Get(p)
    \/ Put(p)

QueueSpec == QueueInit /\ [][QueueNext]_<<queue, open>>
=============================================================================
