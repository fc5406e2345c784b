----------------------------- MODULE WorkerQueue -----------------------------
(***************************************************************************)
(* The queue of a Worker (workers/worker.py): a FIFO of indexes, a         *)
(* dictionary from index to message, and the next index, none of them      *)
(* under a lock.  add_to_queue is three statements, and any thread may     *)
(* call it; the worker loop takes an index and then its message.           *)
(*                                                                         *)
(* The module has the state and one operator per statement.  What the      *)
(* threads around it do is in the modules that extend it.                  *)
(***************************************************************************)
EXTENDS Integers, Sequences, FiniteSets

CONSTANTS Threads,    \* everyone who may call add_to_queue
          Messages,
          NoMessage,  \* an index without a message
          MaxIndex    \* bound: the largest index handed out

ASSUME NoMessageAssumption == NoMessage \notin Messages
ASSUME MaxIndexAssumption == MaxIndex \in Nat

VARIABLES
  queue,      \* Worker.queue, indexes
  items,      \* Worker.items
  index,      \* Worker.current_index
  adding,     \* where each thread stands in add_to_queue
  overlapped  \* two threads were inside add_to_queue at once

queueVars == <<queue, items, index, adding, overlapped>>

Slots == 0..MaxIndex
NotAdding == [stage |-> "out", at |-> 0]

QueueTypeOK ==
  /\ queue \in Seq(Slots)
  /\ items \in [Slots -> Messages \cup {NoMessage}]
  /\ index \in Nat
  /\ adding \in [Threads -> [stage : {"out", "put", "bump"}, at : Slots]]
  /\ overlapped \in BOOLEAN

QueueInit ==
  /\ queue = <<>>
  /\ items = [i \in Slots |-> NoMessage]
  /\ index = 0
  /\ adding = [t \in Threads |-> NotAdding]
  /\ overlapped = FALSE

-----------------------------------------------------------------------------
(* add_to_queue *)

\* items[current_index] = message.
WriteSlot(t, m) ==
  /\ adding[t].stage = "out"
  /\ index \in Slots
  /\ items' = [items EXCEPT ![index] = m]
  /\ adding' = [adding EXCEPT ![t] = [stage |-> "put", at |-> index]]
  /\ overlapped' = (overlapped \/ \E s \in Threads \ {t} : adding[s].stage # "out")
  /\ UNCHANGED <<queue, index>>

\* queue.put(current_index): another thread may run before or after the argument
\* is read, so it is the index of the slot or a later one.
PutIndex(t) ==
  /\ adding[t].stage = "put"
  /\ \E i \in {adding[t].at, index} \cap Slots : queue' = Append(queue, i)
  /\ adding' = [adding EXCEPT ![t].stage = "bump"]
  /\ UNCHANGED <<items, index, overlapped>>

\* current_index += 1.
BumpIndex(t) ==
  /\ adding[t].stage = "bump"
  /\ index' = index + 1
  /\ adding' = [adding EXCEPT ![t] = NotAdding]
  /\ UNCHANGED <<queue, items, overlapped>>

-----------------------------------------------------------------------------
(* The worker loop *)

\* get_next_item: the message, or NoMessage, is items[Head(queue)].
TakeNext ==
  /\ queue # <<>>
  /\ queue' = Tail(queue)
  /\ items' = [items EXCEPT ![Head(queue)] = NoMessage]
  /\ UNCHANGED <<index, adding, overlapped>>

\* Mutant: clears the dictionary as well.
ClearQueueAndItems ==
  /\ queue' = <<>>
  /\ items' = [i \in Slots |-> NoMessage]
  /\ UNCHANGED <<index, adding, overlapped>>

\* clear_queue: the indexes go, the dictionary stays.
ClearQueue ==
  /\ queue' = <<>>
  /\ UNCHANGED <<items, index, adding, overlapped>>

\* The messages whose index is queued.
Queued == {items[queue[i]] : i \in DOMAIN queue} \ {NoMessage}

-----------------------------------------------------------------------------
\* As long as no two threads were inside add_to_queue at once, every queued index
\* is queued once and has a message: an unlocked dictionary and queue stay in step
\* across clear_queue, which drops the one and keeps the other (worker.py:109).
IndexHasItem ==
  ~overlapped => \A i, j \in DOMAIN queue :
                    /\ items[queue[i]] # NoMessage
                    /\ queue[i] = queue[j] => i = j
=============================================================================
