---------------------------- MODULE BoundedQueue ----------------------------
(***************************************************************************)
(* What a synchronous FIFO promises its two sides: a first-in first-out    *)
(* queue of at most DEPTH words.  In one clock the two sides may both act, *)
(* each judged by the level before the clock: a put into a full queue and  *)
(* a get from an empty one have no effect.  Models no code.                *)
(***************************************************************************)
EXTENDS Naturals, Sequences

CONSTANTS Values, DEPTH

VARIABLES
  queue,       \* the words stored, oldest first
  out          \* the word last handed to the reader

Init ==
  /\ queue = <<>>
  /\ out \in Values

Put(d) ==
  /\ Len(queue) < DEPTH
  /\ queue' = Append(queue, d)
  /\ UNCHANGED out

Get ==
  /\ queue # <<>>
  /\ out' = Head(queue)
  /\ queue' = Tail(queue)

PutAndGet(d) ==
  /\ queue # <<>> /\ Len(queue) < DEPTH
  /\ out' = Head(queue)
  /\ queue' = Append(Tail(queue), d)

Clear ==
  /\ queue' = <<>>
  /\ out' \in Values

Next ==
  \/ \E d \in Values : Put(d) \/ PutAndGet(d)
  \/ Get
  \/ Clear

Spec == Init /\ [][Next]_<<queue, out>>
=============================================================================
