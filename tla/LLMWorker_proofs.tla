--------------------------- MODULE LLMWorker_proofs ---------------------------
(***************************************************************************)
(* Proofs about LLMWorker and the WorkerQueue it extends, for any sets of  *)
(* requests, unloads, outsiders and download threads and any scenarios.    *)
(*                                                                         *)
(* The queue is proved by itself (QInv).  For the rest, a thread has a     *)
(* place in its own program, also while it is inside the manager (Stacks); *)
(* it has a request exactly at the places of handle_message (Msgs); so     *)
(* whoever leaves a request or an unload pending can be named by its place *)
(* (RequestOwned, UnloadOwned).                                            *)
(***************************************************************************)
EXTENDS LLMWorker, SequenceTheorems, TLAPS

-----------------------------------------------------------------------------
(* The queue *)

\* While no two threads were in add_to_queue at once, the one in it knows the
\* index it works at, which is queued only in the moment before it is counted up.
Adding(t) == adding[t].stage # "out"

InStep ==
  /\ \A s, t \in Threads : Adding(s) /\ Adding(t) => s = t
  /\ \A t \in Threads : Adding(t) => adding[t].at = index
  /\ \A t \in Threads : adding[t].stage = "put" => items[index] # NoMessage
  /\ \A i \in DOMAIN queue :
       /\ queue[i] <= index
       /\ queue[i] = index => \E t \in Threads : adding[t].stage = "bump"

QInv == QueueTypeOK /\ IndexHasItem /\ (~overlapped => InStep)

\* What one step may do to the queue.
QueueStep ==
  \/ \E t \in Threads :
       (\E m \in Messages : WriteSlot(t, m)) \/ PutIndex(t) \/ BumpIndex(t)
  \/ TakeNext \/ ClearQueue \/ UNCHANGED queueVars

LEMMA QueueSteps == [Next]_vars => QueueStep
<1> SUFFICES ASSUME [Next]_vars
             PROVE  QueueStep
  OBVIOUS
<1>1. ASSUME NEW t \in Threads, Add(t)
      PROVE  QueueStep
  BY <1>1, MessagesAssumption DEF Add, QueueStep
<1>2. ASSUME NEW t \in Threads, Step(t), ~Add(t)
      PROVE  QueueStep
  BY <1>2 DEF Step, QueuePendingUnload, Clear, Pend, Look, Manage, ReadStatus, NothingToLoad,
     AnnounceMissing, StartDownload, Decide, Build, Components, UnloadModel, Release,
     ManagerRaises, ManagerOnly, Handle, Check, Keep, Gather, GatherRaises, Prepare, Ensure,
     Generate, Restore, Settle, BeginDownload, RetryPending, ForgetPending, CloseDownload,
     DownloadOnly, TakeNothing, TakeUnload, TakeRequest, ForgetActivity, QueueStep
<1>3. CASE (\E r \in Requests : Send(r)) \/ (\E u \in Unloaders : Interrupt(u))
           \/ (\E o \in Outsiders : LoadRoute(o) \/ CheckInactivity(o))
           \/ (\E d \in Downloaders : FetchEnds(d)) \/ UNCHANGED vars
  BY <1>3 DEF Send, Interrupt, LoadRoute, CheckInactivity, FetchEnds, DownloadOnly, vars, QueueStep
<1> QED BY <1>1, <1>2, <1>3 DEF Next

LEMMA QueueTypes ==
  ASSUME QInv
  PROVE  /\ queue \in Seq(Slots) /\ items \in [Slots -> Messages \cup {NoMessage}]
         /\ index \in Nat /\ overlapped \in BOOLEAN
         /\ adding \in [Threads -> [stage : {"out", "put", "bump"}, at : Slots]]
         /\ Len(queue) \in Nat /\ DOMAIN queue = 1..Len(queue)
         /\ \A i \in DOMAIN queue : queue[i] \in Slots
         /\ \A i \in Slots : i \in Nat
BY LenProperties, ElementOfSeq, MaxIndexAssumption DEF QInv, QueueTypeOK, Slots

LEMMA WriteSlotKeepsQInv ==
  ASSUME QInv, NEW t \in Threads, NEW m \in Messages, WriteSlot(t, m)
  PROVE  QInv'
<1> USE QueueTypes, NoMessageAssumption
<1>1. index \in Slots /\ items' = [items EXCEPT ![index] = m] /\ UNCHANGED <<queue, index>>
      /\ adding' = [adding EXCEPT ![t] = [stage |-> "put", at |-> index]]
  BY DEF WriteSlot
<1>2. overlapped' \in BOOLEAN /\ (~overlapped' =>
        ~overlapped /\ \A s \in Threads \ {t} : ~Adding(s))
  BY DEF WriteSlot, Adding
<1>3. QueueTypeOK'
  BY <1>1, <1>2 DEF QueueTypeOK
<1>4. ASSUME ~overlapped'
      PROVE  InStep' /\ \A i, j \in DOMAIN queue' : /\ items'[queue'[i]] # NoMessage
                                                    /\ queue'[i] = queue'[j] => i = j
  <2>1. InStep /\ \A i, j \in DOMAIN queue : /\ items[queue[i]] # NoMessage
                                             /\ queue[i] = queue[j] => i = j
    BY <1>2, <1>4 DEF QInv, IndexHasItem
  <2>2. \A s \in Threads : adding[s].stage = "out"
    BY <1>2, <1>4 DEF WriteSlot, Adding
  <2>3. \A i \in DOMAIN queue : queue[i] # index
    BY <2>1, <2>2 DEF InStep
  <2>4. \A i \in DOMAIN queue : items'[queue[i]] = items[queue[i]]
    BY <1>1, <2>3
  <2>5. InStep'
    BY <1>1, <2>1, <2>2, <2>3 DEF InStep, Adding
  <2> QED BY <1>1, <2>1, <2>4, <2>5
<1> QED BY <1>3, <1>4 DEF QInv, IndexHasItem

LEMMA PutIndexKeepsQInv ==
  ASSUME QInv, NEW t \in Threads, PutIndex(t)
  PROVE  QInv'
<1> USE QueueTypes
<1>1. PICK i \in {adding[t].at, index} \cap Slots : queue' = Append(queue, i)
  BY DEF PutIndex
<1>2. adding[t].stage = "put" /\ UNCHANGED <<items, index, overlapped>>
      /\ adding' = [adding EXCEPT ![t] = [adding[t] EXCEPT !.stage = "bump"]]
  BY DEF PutIndex
<1>3. queue' \in Seq(Slots) /\ Len(queue') = Len(queue) + 1 /\ queue'[Len(queue) + 1] = i
      /\ \A k \in 1..Len(queue) : queue'[k] = queue[k]
  BY <1>1, AppendProperties
<1>4. DOMAIN queue' = 1..(Len(queue) + 1)
  BY <1>3, LenProperties
<1>5. adding'[t].stage = "bump" /\ adding'[t].at = adding[t].at
      /\ \A s \in Threads \ {t} : adding'[s] = adding[s]
  BY <1>2
<1>6. QueueTypeOK'
  BY <1>2, <1>3 DEF QueueTypeOK
<1>7. ASSUME ~overlapped'
      PROVE  InStep' /\ \A k, l \in DOMAIN queue' : /\ items'[queue'[k]] # NoMessage
                                                    /\ queue'[k] = queue'[l] => k = l
  <2>1. InStep /\ \A k, l \in DOMAIN queue : /\ items[queue[k]] # NoMessage
                                             /\ queue[k] = queue[l] => k = l
    BY <1>2, <1>7 DEF QInv, IndexHasItem
  <2>2. i = index /\ items[index] # NoMessage /\ \A s \in Threads \ {t} : ~Adding(s)
    BY <1>1, <1>2, <2>1 DEF InStep, Adding
  <2>3. \A k \in DOMAIN queue : queue[k] # index
    BY <1>2, <2>1, <2>2 DEF InStep, Adding
  <2>4. InStep'
    <3>1. \A s \in Threads \ {t} : adding'[s].stage = "out"
      BY <1>5, <2>2 DEF Adding
    <3>2. adding'[t].at = index'
      BY <1>2, <1>5, <2>1 DEF InStep, Adding
    <3>3. \A k \in DOMAIN queue' : queue'[k] <= index'
      <4>1. ASSUME NEW k \in DOMAIN queue PROVE queue'[k] <= index'
        BY <1>2, <1>3, <2>1 DEF InStep
      <4>2. queue'[Len(queue) + 1] <= index'
        BY <1>2, <1>3, <2>2
      <4>3. \A k \in DOMAIN queue' : k = Len(queue) + 1 \/ k \in DOMAIN queue
        BY <1>4
      <4> QED BY <4>1, <4>2, <4>3
    <3>4. \A r, s \in Threads : Adding(r)' /\ Adding(s)' => r = s
      BY <3>1 DEF Adding
    <3>5. \A s \in Threads : Adding(s)' => adding'[s].at = index'
      BY <3>1, <3>2 DEF Adding
    <3>6. \A s \in Threads : adding'[s].stage # "put"
      BY <1>5, <3>1
    <3> QED BY <1>5, <3>3, <3>4, <3>5, <3>6 DEF InStep
  <2>5. \A k \in DOMAIN queue' : items'[queue'[k]] # NoMessage
    BY <1>2, <1>3, <1>4, <2>1, <2>2
  <2>6. \A k, l \in DOMAIN queue' : queue'[k] = queue'[l] => k = l
    <3>1. \A k \in DOMAIN queue' : k = Len(queue) + 1 \/ k \in DOMAIN queue
      BY <1>4
    <3>2. \A k \in DOMAIN queue : queue'[k] = queue[k]
      BY <1>3
    <3> QED BY <1>3, <2>1, <2>2, <2>3, <3>1, <3>2
  <2> QED BY <2>4, <2>5, <2>6
<1> QED BY <1>6, <1>7 DEF QInv, IndexHasItem

LEMMA BumpIndexKeepsQInv ==
  ASSUME QInv, NEW t \in Threads, BumpIndex(t)
  PROVE  QInv'
<1> USE QueueTypes
<1>1. adding[t].stage = "bump" /\ index' = index + 1 /\ UNCHANGED <<queue, items, overlapped>>
      /\ adding' = [adding EXCEPT ![t] = NotAdding]
  BY DEF BumpIndex
<1>2. QueueTypeOK'
  <2>1. NotAdding \in [stage : {"out", "put", "bump"}, at : Slots]
    BY MaxIndexAssumption DEF NotAdding, Slots
  <2> QED BY <1>1, <2>1 DEF QueueTypeOK
<1>3. ASSUME ~overlapped'
      PROVE  InStep'
  <2>1. InStep
    BY <1>1, <1>3 DEF QInv
  <2>2. \A s \in Threads : adding'[s].stage = "out"
    BY <1>1, <2>1 DEF InStep, Adding, NotAdding
  <2>3. \A k \in DOMAIN queue : queue[k] <= index /\ queue[k] \in Nat
    BY <2>1 DEF InStep
  <2> QED BY <1>1, <2>2, <2>3 DEF InStep, Adding
<1> QED BY <1>1, <1>2, <1>3 DEF QInv, IndexHasItem

LEMMA TakeNextKeepsQInv ==
  ASSUME QInv, TakeNext
  PROVE  QInv'
<1> USE QueueTypes
<1>1. queue # <<>> /\ queue' = Tail(queue) /\ items' = [items EXCEPT ![Head(queue)] = NoMessage]
      /\ UNCHANGED <<index, adding, overlapped>>
  BY DEF TakeNext
<1>2. queue' \in Seq(Slots) /\ Len(queue') = Len(queue) - 1 /\ Head(queue) = queue[1]
      /\ 1 \in DOMAIN queue /\ \A k \in 1..Len(queue') : queue'[k] = queue[k + 1]
  BY <1>1, HeadTailProperties
<1>3. DOMAIN queue' = 1..(Len(queue) - 1)
  BY <1>2, LenProperties
<1>4. QueueTypeOK'
  BY <1>1, <1>2 DEF QueueTypeOK
<1>5. ASSUME ~overlapped'
      PROVE  InStep' /\ \A k, l \in DOMAIN queue' : /\ items'[queue'[k]] # NoMessage
                                                    /\ queue'[k] = queue'[l] => k = l
  <2>1. InStep /\ \A k, l \in DOMAIN queue : /\ items[queue[k]] # NoMessage
                                             /\ queue[k] = queue[l] => k = l
    BY <1>1, <1>5 DEF QInv, IndexHasItem
  <2>2. \A k \in DOMAIN queue' : k + 1 \in DOMAIN queue /\ queue'[k] = queue[k + 1]
    BY <1>2, <1>3
  <2>3. ASSUME NEW k \in DOMAIN queue' PROVE queue'[k] # Head(queue)
    <3>1. k + 1 # 1 /\ k + 1 \in DOMAIN queue /\ queue'[k] = queue[k + 1]
      BY <1>3, <2>2
    <3> QED BY <1>2, <2>1, <3>1
  <2>4. \A k, l \in DOMAIN queue' : /\ items'[queue'[k]] # NoMessage
                                    /\ queue'[k] = queue'[l] => k = l
    BY <1>1, <1>3, <2>1, <2>2, <2>3
  <2>5. ASSUME NEW t \in Threads, adding'[t].stage = "put"
        PROVE  items'[index'] # NoMessage
    <3>1. \A s \in Threads : adding[s].stage # "bump"
      BY <1>1, <2>1, <2>5 DEF InStep, Adding
    <3>2. Head(queue) # index
      BY <1>2, <2>1, <3>1 DEF InStep
    <3> QED BY <1>1, <1>2, <2>1, <2>5, <3>2 DEF InStep
  <2>6. InStep'
    BY <1>1, <2>1, <2>2, <2>5 DEF InStep, Adding
  <2> QED BY <2>4, <2>6
<1> QED BY <1>4, <1>5 DEF QInv, IndexHasItem

LEMMA ClearQueueKeepsQInv ==
  ASSUME QInv, ClearQueue
  PROVE  QInv'
<1> USE QueueTypes
<1>1. queue' = <<>> /\ UNCHANGED <<items, index, adding, overlapped>>
  BY DEF ClearQueue
<1>2. QueueTypeOK'
  BY <1>1 DEF QueueTypeOK
<1>3. ~overlapped' => InStep'
  BY <1>1 DEF QInv, InStep, Adding
<1> QED BY <1>1, <1>2, <1>3 DEF QInv, IndexHasItem

LEMMA NextQInv == QInv /\ [Next]_vars => QInv'
<1> SUFFICES ASSUME QInv, [Next]_vars
             PROVE  QInv'
  OBVIOUS
<1>1. CASE UNCHANGED queueVars
  BY <1>1 DEF queueVars, QInv, QueueTypeOK, IndexHasItem, InStep, Adding
<1> QED BY <1>1, QueueSteps, WriteSlotKeepsQInv, PutIndexKeepsQInv, BumpIndexKeepsQInv,
           TakeNextKeepsQInv, ClearQueueKeepsQInv DEF QueueStep

LEMMA InitQInv == Init => QInv
<1> SUFFICES ASSUME Init PROVE QInv
  OBVIOUS
<1>1. NotAdding \in [stage : {"out", "put", "bump"}, at : Slots] /\ NotAdding.stage = "out"
  BY MaxIndexAssumption DEF NotAdding, Slots
<1>2. QueueTypeOK
  <2>1. adding \in [Threads -> [stage : {"out", "put", "bump"}, at : Slots]]
    BY <1>1 DEF Init, QueueInit
  <2>2. overlapped \in BOOLEAN
    BY DEF Init, QueueInit
  <2>3. queue \in Seq(Slots) /\ items \in [Slots -> Messages \cup {NoMessage}] /\ index \in Nat
    BY DEF Init, QueueInit
  <2> QED BY <2>1, <2>2, <2>3 DEF QueueTypeOK
<1>3. queue = <<>> /\ DOMAIN queue = {} /\ \A t \in Threads : adding[t].stage = "out"
  BY <1>1 DEF Init, QueueInit
<1> QED BY <1>2, <1>3 DEF QInv, IndexHasItem, InStep, Adding

LEMMA SpecQInv == Spec => []QInv
BY InitQInv, NextQInv, PTL DEF Spec

\* Worker.add_to_queue, get_next_item and clear_queue: without two adders at once
\* the index queue and the dictionary of messages never get out of step.
THEOREM IndexHasItemTheorem == Spec => []IndexHasItem
<1>1. QInv => IndexHasItem
  BY DEF QInv
<1> QED BY <1>1, SpecQInv, PTL

-----------------------------------------------------------------------------
(* The threads *)

\* The places of LLMModelManager.load and unload.
Manages == {"load", "decide", "announce", "build", "components", "unload", "release"}
\* The places of handle_message for a request.
Handling == {"check", "keep", "gather", "prepare", "ensure", "generate", "restore", "settle"}

\* The places that a path through the manager ends in.
Ends == {"done", "stamp", "idle", "prepare", "ensure", "restore", "settle", "close", "auto"}

\* The thread is in the manager as long as it has somewhere to return to; of the
\* places on its stack only the last is one of its own program.
StackInv(t) ==
  /\ pc[t] \in Manages <=> cont[t] # <<>>
  /\ cont[t] # <<>> => PlaceOf(t) \in Ends
  /\ \A i \in 1..Len(cont[t]) : cont[t][i] \in Manages <=> i < Len(cont[t])

StackTypes == pc \in [Threads -> Locations] /\ cont \in [Managing -> Seq(Locations)]

Stacks == StackTypes /\ \A t \in Managing : StackInv(t)

\* The step is one of t, which moves from the place a to the place b of its own
\* program; another thread is at most a download thread that starts.
Starts(from, to) == from = "off" /\ to = "begin"

Moves(t, a, b) ==
  /\ t \in Managing => PlaceOf(t) = a /\ PlaceOf(t)' = b
  /\ \A s \in Threads \ {t} : pc'[s] = pc[s] \/ Starts(pc[s], pc'[s])
  /\ \A s \in Managing \ {t} : PlaceOf(s)' = PlaceOf(s) \/ Starts(PlaceOf(s), PlaceOf(s)')

\* A path through the manager to b.
PathTo(p, b) ==
  /\ p \in Seq(Locations) /\ Len(p) > 0 /\ p[Len(p)] = b /\ b \in Ends
  /\ \A i \in 1..Len(p) : p[i] \in Manages <=> i < Len(p)

\* A sequence of one element has nothing behind its head.
LEMMA EmptyTail ==
  ASSUME NEW S, NEW p \in Seq(S), p # <<>>
  PROVE  Len(p) \in Nat \ {0} /\ (Tail(p) = <<>> <=> Len(p) = 1)
<1>1. Len(p) \in Nat \ {0} /\ Tail(p) \in Seq(S) /\ Len(Tail(p)) = Len(p) - 1
  BY EmptySeq, HeadTailProperties
<1>2. Tail(p) = <<>> <=> Len(Tail(p)) = 0
  BY <1>1, EmptySeq
<1> QED BY <1>1, <1>2

LEMMA OneStep ==
  ASSUME NEW a \in Ends
  PROVE  PathTo(<<a>>, a)
BY DEF PathTo, Ends, Locations, Manages

\* A place of the manager in front of a path.
LEMMA PrefixPath ==
  ASSUME NEW p, NEW b, PathTo(p, b), NEW m \in Manages
  PROVE  PathTo(<<m>> \o p, b)
<1>1. <<m>> \in Seq(Locations) /\ Len(<<m>>) = 1 /\ <<m>>[1] = m
  BY DEF Manages, Locations
<1>2. p \in Seq(Locations) /\ Len(p) \in Nat /\ Len(p) > 0
  BY LenProperties DEF PathTo
<1>3. <<m>> \o p \in Seq(Locations) /\ Len(<<m>> \o p) = 1 + Len(p)
      /\ \A i \in 1..(1 + Len(p)) : (<<m>> \o p)[i] = IF i <= 1 THEN m ELSE p[i - 1]
  BY <1>1, <1>2, ConcatProperties
<1>4. (<<m>> \o p)[1 + Len(p)] = b
  BY <1>2, <1>3 DEF PathTo
<1>5. ASSUME NEW i \in 1..(1 + Len(p))
      PROVE  (<<m>> \o p)[i] \in Manages <=> i < 1 + Len(p)
  <2>1. CASE i = 1
    BY <1>2, <1>3, <2>1
  <2>2. CASE i # 1
    <3>1. i - 1 \in 1..Len(p) /\ (<<m>> \o p)[i] = p[i - 1]
      BY <1>2, <1>3, <2>2
    <3> QED BY <1>2, <3>1 DEF PathTo
  <2> QED BY <2>1, <2>2
<1> QED BY <1>2, <1>3, <1>4, <1>5 DEF PathTo

\* The paths that handle_message runs, with and without settings of its own.
LEMMA OverridePaths ==
  ASSUME NEW h \in Handlers
  PROVE  /\ PathTo(Overrides(h) \o <<"load", "prepare">>, "prepare")
         /\ PathTo(Overrides(h) \o <<"settle">>, "settle")
         /\ PathTo(<<"load", "restore">>, "restore")
         /\ PathTo(<<"unload", "load", "ensure">>, "ensure")
<1>1. \A a \in Ends, m \in Manages : PathTo(<<a>>, a) /\ PathTo(<<m>> \o <<a>>, a)
  BY OneStep, PrefixPath
<1>2. {"load", "unload"} \subseteq Manages /\ {"prepare", "ensure", "restore", "settle"} \subseteq Ends
  BY DEF Manages, Ends
<1>3. /\ <<"load", "prepare">> = <<"load">> \o <<"prepare">>
      /\ <<"load", "restore">> = <<"load">> \o <<"restore">>
      /\ <<"unload", "load", "ensure">> = <<"unload">> \o (<<"load">> \o <<"ensure">>)
  OBVIOUS
<1>4. PathTo(<<"load">> \o <<"ensure">>, "ensure")
  BY <1>1, <1>2
<1>5. PathTo(<<"unload", "load", "ensure">>, "ensure")
  BY <1>2, <1>3, <1>4, PrefixPath
<1>6. PathTo(<<"load", "prepare">>, "prepare") /\ PathTo(<<"load", "restore">>, "restore")
  BY <1>1, <1>2, <1>3
<1>7. CASE Overrides(h) = <<>>
  <2>1. <<"settle">> \in Seq(Locations) /\ <<"load", "prepare">> \in Seq(Locations)
    BY DEF Locations
  <2>2. Overrides(h) \o <<"load", "prepare">> = <<"load", "prepare">>
        /\ Overrides(h) \o <<"settle">> = <<"settle">>
    BY <1>7, <2>1, ConcatEmptySeq
  <2> QED BY <1>1, <1>2, <1>5, <1>6, <2>2
<1>8. CASE Overrides(h) = <<"unload">>
  BY <1>1, <1>2, <1>5, <1>6, <1>8, PrefixPath
<1> QED BY <1>7, <1>8 DEF Overrides

-----------------------------------------------------------------------------
(* What the steps do to the stacks *)

\* A step of a thread in its own program.
LEMMA LocalStep ==
  ASSUME Stacks, NEW t \in Threads, NEW b \in Locations \ Manages, pc[t] \notin Manages,
         pc' = [pc EXCEPT ![t] = b], UNCHANGED cont
  PROVE  Stacks' /\ Moves(t, pc[t], b)
<1>1. StackTypes' /\ Managing \subseteq Threads
  BY ThreadsAssumption DEF Stacks, StackTypes
<1>2. ASSUME NEW s \in Managing PROVE StackInv(s)'
  BY <1>1, <1>2 DEF Stacks, StackTypes, StackInv, PlaceOf
<1>3. Moves(t, pc[t], b)
  BY <1>1 DEF Stacks, StackTypes, StackInv, Moves, PlaceOf
<1> QED BY <1>1, <1>2, <1>3 DEF Stacks

\* A step inside the manager.
LEMMA InnerStep ==
  ASSUME Stacks, NEW t \in Managing, pc[t] \in Manages, NEW m \in Manages,
         pc' = [pc EXCEPT ![t] = m], UNCHANGED cont
  PROVE  Stacks' /\ Moves(t, PlaceOf(t), PlaceOf(t))
<1>1. StackTypes' /\ Managing \subseteq Threads
  BY ThreadsAssumption DEF Stacks, StackTypes, Manages, Locations
<1>2. ASSUME NEW s \in Managing PROVE StackInv(s)' /\ PlaceOf(s)' = PlaceOf(s)
  <2>1. CASE s = t
    BY <1>1, <2>1 DEF Stacks, StackTypes, StackInv, PlaceOf
  <2>2. CASE s # t
    BY <1>1, <2>2 DEF Stacks, StackTypes, StackInv, PlaceOf
  <2> QED BY <2>1, <2>2
<1>3. \A s \in Threads \ {t} : pc'[s] = pc[s]
  BY DEF Stacks, StackTypes
<1> QED BY <1>1, <1>2, <1>3 DEF Stacks, Moves

\* What a step of t leaves of the others: all but a download thread that starts.
LEMMA OthersStay ==
  ASSUME Stacks, NEW t \in Managing, StackTypes', StackInv(t)',
         \A s \in Managing \ {t} : cont'[s] = cont[s],
         \A s \in Threads \ {t} : pc'[s] = pc[s] \/ Starts(pc[s], pc'[s])
  PROVE  Stacks' /\ Moves(t, PlaceOf(t), PlaceOf(t)')
<1>1. Managing \subseteq Threads
  BY ThreadsAssumption
<1>2. ASSUME NEW s \in Managing \ {t}
      PROVE  StackInv(s)' /\ (PlaceOf(s)' = PlaceOf(s) \/ Starts(PlaceOf(s), PlaceOf(s)'))
  <2>1. CASE pc'[s] = pc[s]
    BY <2>1 DEF Stacks, StackInv, PlaceOf
  <2>2. CASE Starts(pc[s], pc'[s])
    <3>1. cont[s] = <<>> /\ cont'[s] = <<>>
      BY <2>2 DEF Stacks, StackInv, Starts, Manages
    <3> QED BY <2>2, <3>1 DEF Stacks, StackInv, PlaceOf, Starts, Manages
  <2> QED BY <1>1, <2>1, <2>2
<1> QED BY <1>2 DEF Stacks, Moves

\* A return from the manager, which load may do after it has started a download.
LEMMA ReturnStep ==
  ASSUME Stacks, NEW t \in Managing, pc[t] \in Manages,
         cont' = [cont EXCEPT ![t] = Tail(@)],
         \/ pc' = [pc EXCEPT ![t] = Head(cont[t])]
         \/ \E d \in Downloaders : /\ At(d, "off")
                                   /\ pc' = [pc EXCEPT ![t] = Head(cont[t]), ![d] = "begin"]
  PROVE  Stacks' /\ Moves(t, PlaceOf(t), PlaceOf(t))
<1>1. cont[t] \in Seq(Locations) /\ cont[t] # <<>> /\ t \in Threads /\ Len(cont[t]) \in Nat
  BY ThreadsAssumption DEF Stacks, StackTypes, StackInv
<1>2. Head(cont[t]) \in Locations /\ Head(cont[t]) = cont[t][1]
      /\ Tail(cont[t]) \in Seq(Locations) /\ Len(Tail(cont[t])) = Len(cont[t]) - 1
      /\ \A i \in 1..(Len(cont[t]) - 1) : Tail(cont[t])[i] = cont[t][i + 1]
  BY <1>1, HeadTailProperties
<1>3. Len(cont[t]) > 0 /\ (Tail(cont[t]) = <<>> <=> Len(cont[t]) = 1)
  BY <1>1, EmptyTail
<1>4. /\ pc' \in [Threads -> Locations] /\ pc'[t] = Head(cont[t])
      /\ \A s \in Threads \ {t} : pc'[s] = pc[s] \/ Starts(pc[s], pc'[s])
  <2>1. CASE pc' = [pc EXCEPT ![t] = Head(cont[t])]
    BY <1>1, <1>2, <2>1 DEF Stacks, StackTypes
  <2>2. CASE \E d \in Downloaders : /\ At(d, "off")
                                    /\ pc' = [pc EXCEPT ![t] = Head(cont[t]), ![d] = "begin"]
    <3>1. PICK d \in Downloaders : /\ At(d, "off")
                                   /\ pc' = [pc EXCEPT ![t] = Head(cont[t]), ![d] = "begin"]
      BY <2>2
    <3>2. d \in Threads /\ d # t /\ pc[d] = "off" /\ "begin" \in Locations
      BY <3>1, ThreadsAssumption DEF At, Managing, Handlers, Manages, Locations
    <3> QED BY <1>1, <1>2, <3>1, <3>2 DEF Stacks, StackTypes, Starts
  <2> QED BY <2>1, <2>2
<1>5. cont'[t] = Tail(cont[t]) /\ cont' \in [Managing -> Seq(Locations)]
  BY <1>1, <1>2 DEF Stacks, StackTypes
<1>6. \A i \in 1..Len(cont[t]) : cont[t][i] \in Manages <=> i < Len(cont[t])
  BY DEF Stacks, StackInv
<1>7. PlaceOf(t)' = PlaceOf(t)
  <2>1. CASE Len(cont[t]) = 1
    BY <1>1, <1>2, <1>3, <1>4, <1>5, <2>1 DEF PlaceOf
  <2>2. CASE Len(cont[t]) # 1
    <3>1. cont'[t] # <<>> /\ Len(cont'[t]) = Len(cont[t]) - 1 /\ Len(cont[t]) - 1 \in 1..(Len(cont[t]) - 1)
      BY <1>1, <1>2, <1>3, <1>5, <2>2
    <3>2. cont'[t][Len(cont'[t])] = cont[t][Len(cont[t])]
      BY <1>1, <1>2, <1>5, <3>1
    <3> QED BY <1>1, <3>1, <3>2 DEF PlaceOf
  <2> QED BY <2>1, <2>2
<1>8. StackInv(t)'
  <2>1. pc'[t] \in Manages <=> cont'[t] # <<>>
    <3>1. cont[t][1] \in Manages <=> Len(cont[t]) # 1
      BY <1>1, <1>3, <1>6
    <3> QED BY <1>2, <1>3, <1>4, <1>5, <3>1
  <2>2. ASSUME NEW i \in 1..Len(cont'[t]) PROVE cont'[t][i] \in Manages <=> i < Len(cont'[t])
    <3>1. i + 1 \in 1..Len(cont[t]) /\ cont'[t][i] = cont[t][i + 1]
          /\ Len(cont'[t]) = Len(cont[t]) - 1
      BY <1>1, <1>2, <1>5
    <3> QED BY <1>1, <1>6, <3>1
  <2>3. PlaceOf(t)' \in Ends
    BY <1>1, <1>7 DEF Stacks, StackInv
  <2> QED BY <2>1, <2>2, <2>3 DEF StackInv
<1>9. \A s \in Managing \ {t} : cont'[s] = cont[s]
  BY DEF Stacks, StackTypes
<1>10. StackTypes'
  BY <1>4, <1>5 DEF StackTypes
<1> QED BY <1>4, <1>8, <1>7, <1>9, <1>10, OthersStay

\* Running a path from a place of the thread's own program.
LEMMA RunStep ==
  ASSUME Stacks, NEW t \in Managing, pc[t] \notin Manages, NEW p, NEW b, PathTo(p, b), Run(t, p)
  PROVE  Stacks' /\ Moves(t, pc[t], b)
<1>1. cont[t] = <<>> /\ t \in Threads /\ PlaceOf(t) = pc[t]
  BY ThreadsAssumption DEF Stacks, StackInv, PlaceOf
<1>2. p \in Seq(Locations) /\ Len(p) \in Nat /\ Len(p) > 0 /\ p # <<>>
  BY LenProperties DEF PathTo
<1>3. Head(p) = p[1] /\ Head(p) \in Locations /\ Tail(p) \in Seq(Locations)
      /\ Len(Tail(p)) = Len(p) - 1 /\ \A i \in 1..(Len(p) - 1) : Tail(p)[i] = p[i + 1]
  BY <1>2, HeadTailProperties
<1>4. Tail(p) = <<>> <=> Len(p) = 1
  BY <1>2, EmptyTail
<1>5. Tail(p) \o cont[t] = Tail(p)
  BY <1>1, <1>3, ConcatEmptySeq
<1>6. pc' = [pc EXCEPT ![t] = p[1]] /\ cont' = [cont EXCEPT ![t] = Tail(p)]
  BY <1>3, <1>5 DEF Run, Goto
<1>7. pc'[t] = p[1] /\ cont'[t] = Tail(p) /\ StackTypes'
  BY <1>1, <1>3, <1>6 DEF Stacks, StackTypes
<1>8. PlaceOf(t)' = b
  <2>1. CASE Len(p) = 1
    BY <1>4, <1>7, <2>1 DEF PlaceOf, PathTo
  <2>2. CASE Len(p) # 1
    <3>1. cont'[t] # <<>> /\ Len(cont'[t]) = Len(p) - 1 /\ Len(p) - 1 \in 1..(Len(p) - 1)
      BY <1>2, <1>3, <1>4, <1>7, <2>2
    <3>2. cont'[t][Len(cont'[t])] = p[Len(p)]
      BY <1>2, <1>3, <1>7, <3>1
    <3> QED BY <3>1, <3>2 DEF PlaceOf, PathTo
  <2> QED BY <2>1, <2>2
<1>9. StackInv(t)'
  <2>1. pc'[t] \in Manages <=> cont'[t] # <<>>
    BY <1>2, <1>4, <1>7 DEF PathTo
  <2>2. ASSUME NEW i \in 1..Len(cont'[t]) PROVE cont'[t][i] \in Manages <=> i < Len(cont'[t])
    <3>1. i + 1 \in 1..Len(p) /\ cont'[t][i] = p[i + 1] /\ Len(cont'[t]) = Len(p) - 1
      BY <1>2, <1>3, <1>7
    <3> QED BY <1>2, <3>1 DEF PathTo
  <2>3. PlaceOf(t)' \in Ends
    BY <1>8 DEF PathTo
  <2> QED BY <2>1, <2>2, <2>3 DEF StackInv
<1>10. (\A s \in Threads \ {t} : pc'[s] = pc[s]) /\ \A s \in Managing \ {t} : cont'[s] = cont[s]
  BY <1>1, <1>6 DEF Stacks, StackTypes
<1> QED BY <1>1, <1>7, <1>9, <1>8, <1>10, OthersStay

\* load unloads another model before it builds its own.
LEMMA UnloadFirstStep ==
  ASSUME Stacks, NEW t \in Managing, pc[t] \in Manages, Run(t, <<"unload", "build">>)
  PROVE  Stacks' /\ Moves(t, PlaceOf(t), PlaceOf(t))
<1>1. cont[t] \in Seq(Locations) /\ cont[t] # <<>> /\ t \in Threads
      /\ Len(cont[t]) \in Nat /\ Len(cont[t]) > 0
  BY ThreadsAssumption, EmptySeq DEF Stacks, StackTypes, StackInv
<1>2. Head(<<"unload", "build">>) = "unload" /\ Tail(<<"unload", "build">>) = <<"build">>
  OBVIOUS
<1>3. pc' = [pc EXCEPT ![t] = "unload"] /\ cont' = [cont EXCEPT ![t] = <<"build">> \o cont[t]]
  BY <1>2 DEF Run, Goto
<1>4. <<"build">> \in Seq(Locations) /\ Len(<<"build">>) = 1 /\ <<"build">>[1] = "build"
  BY DEF Locations
<1>5. <<"build">> \o cont[t] \in Seq(Locations)
      /\ Len(<<"build">> \o cont[t]) = 1 + Len(cont[t])
      /\ \A i \in 1..(1 + Len(cont[t])) :
           (<<"build">> \o cont[t])[i] = IF i <= 1 THEN "build" ELSE cont[t][i - 1]
  BY <1>1, <1>4, ConcatProperties
<1>6. pc'[t] = "unload" /\ cont'[t] = <<"build">> \o cont[t] /\ StackTypes'
  BY <1>1, <1>3, <1>5 DEF Stacks, StackTypes, Locations
<1>7. cont'[t] # <<>>
  BY <1>1, <1>5, <1>6, EmptySeq
<1>8. PlaceOf(t)' = PlaceOf(t)
  <2>1. cont'[t][Len(cont'[t])] = cont[t][Len(cont[t])]
    BY <1>1, <1>5, <1>6
  <2> QED BY <1>1, <1>7, <2>1 DEF PlaceOf
<1>9. StackInv(t)'
  <2>1. ASSUME NEW i \in 1..Len(cont'[t]) PROVE cont'[t][i] \in Manages <=> i < Len(cont'[t])
    <3>1. CASE i = 1
      BY <1>1, <1>5, <1>6, <3>1 DEF Manages
    <3>2. CASE i # 1
      <4>1. i - 1 \in 1..Len(cont[t]) /\ cont'[t][i] = cont[t][i - 1]
            /\ Len(cont'[t]) = 1 + Len(cont[t])
        BY <1>1, <1>5, <1>6, <3>2
      <4> QED BY <1>1, <4>1 DEF Stacks, StackInv
    <3> QED BY <3>1, <3>2
  <2>2. PlaceOf(t)' \in Ends /\ pc'[t] \in Manages
    BY <1>1, <1>6, <1>8 DEF Stacks, StackInv, Manages
  <2> QED BY <1>7, <2>1, <2>2 DEF StackInv
<1>10. (\A s \in Threads \ {t} : pc'[s] = pc[s]) /\ \A s \in Managing \ {t} : cont'[s] = cont[s]
  BY <1>1, <1>3 DEF Stacks, StackTypes
<1> QED BY <1>6, <1>9, <1>8, <1>10, OthersStay

\* An exception leaves the manager at once, for the place where it is caught.
LEMMA RaiseStep ==
  ASSUME Stacks, NEW t \in Managing, pc[t] \in Manages, Goto(t, CaughtAt(PlaceOf(t))),
         cont' = [cont EXCEPT ![t] = <<>>]
  PROVE  Stacks' /\ Moves(t, PlaceOf(t), CaughtAt(PlaceOf(t)))
<1>1. t \in Threads /\ PlaceOf(t) \in Ends
  BY ThreadsAssumption DEF Stacks, StackInv
<1>2. CaughtAt(PlaceOf(t)) \in Locations \ Manages
  BY <1>1 DEF CaughtAt, Ends, Locations, Manages
<1>3. StackTypes' /\ pc'[t] = CaughtAt(PlaceOf(t)) /\ cont'[t] = <<>>
  BY <1>1, <1>2 DEF Stacks, StackTypes, Goto
<1>4. StackInv(t)' /\ PlaceOf(t)' = CaughtAt(PlaceOf(t))
  BY <1>2, <1>3 DEF StackInv, PlaceOf
<1>5. (\A s \in Threads \ {t} : pc'[s] = pc[s]) /\ \A s \in Managing \ {t} : cont'[s] = cont[s]
  BY DEF Stacks, StackTypes, Goto
<1> QED BY <1>3, <1>4, <1>5, OthersStay

-----------------------------------------------------------------------------
(* Requests in progress, and who still owes what *)

Values ==
  /\ msg \in [Handlers -> Requests \cup {NoMessage}]
  /\ outcome \in [Handlers -> Outcomes]
  /\ seen \in [Managing -> Statuses]
  /\ {interrupted, pendingUnload, downloading, stamped, stranded} \subseteq BOOLEAN
  /\ pendingRequest \in Requests \cup {NoMessage}
  /\ status \in Statuses
  /\ {answered, kept, raised, dropped} \subseteq SUBSET Requests
  /\ {ran, missed} \subseteq SUBSET Unloaders

\* A handler has a request from the time it takes it until it has settled it.
Msgs == \A h \in Handlers : msg[h] # NoMessage <=> PlaceOf(h) \in Handling

\* Past its check a request will be settled, and then the pending unload is queued, or
\* its handling raises; past "keep" it is the one that is stored, or was.
Working == Handling \ {"check"}
Stored == Working \ {"keep"}

RequestOwned ==
  pendingRequest # NoMessage =>
    \/ pendingRequest \in kept \cup raised
    \/ \E h \in Handlers : msg[h] = pendingRequest /\ PlaceOf(h) \in Stored

UnloadOwned ==
  pendingUnload =>
    \/ stranded
    \/ \E u \in Unloaders : pc[u] \in {"look", "take"}
    \/ \E h \in Handlers : PlaceOf(h) \in Working \cup {"queue"}

OInv == Stacks /\ Values /\ Msgs /\ RequestOwned /\ UnloadOwned

LEMMA MsgsKept ==
  ASSUME Msgs, NEW t \in Threads, NEW a, NEW b, Moves(t, a, b),
         UNCHANGED msg, a \in Handling <=> b \in Handling
  PROVE  Msgs'
BY ThreadsAssumption DEF Msgs, Moves, Starts, Handling, Managing

LEMMA RequestOwnedKept ==
  ASSUME RequestOwned, NEW t \in Threads, NEW a, NEW b, Moves(t, a, b), UNCHANGED msg,
         pendingRequest' \in {pendingRequest, NoMessage},
         kept \subseteq kept', raised \subseteq raised', a \in Stored => b \in Stored
  PROVE  RequestOwned'
BY ThreadsAssumption DEF RequestOwned, Moves, Starts, Stored, Working, Handling, Managing

LEMMA UnloadOwnedKept ==
  ASSUME UnloadOwned, NEW t \in Threads, NEW a, NEW b, Moves(t, a, b),
         pendingUnload' => pendingUnload, pc[t] \notin {"look", "take"},
         stranded => stranded', a \in Working \cup {"queue"} => b \in Working \cup {"queue"}
  PROVE  UnloadOwned'
BY ThreadsAssumption DEF UnloadOwned, Moves, Starts, Working, Handling, Managing

\* Most steps: between places without a request of its own, within the manager, or
\* on the way to the end of a request.
LEMMA OwnersKept ==
  ASSUME OInv, NEW t \in Threads, NEW a, NEW b, Stacks', Moves(t, a, b), Values',
         a = b \/ {a, b} \cap (Handling \cup {"queue"}) = {} \/ {a, b} \subseteq Stored,
         pc[t] \notin {"look", "take"}, UNCHANGED <<msg, kept, raised, pendingUnload, stranded>>,
         pendingRequest' \in {pendingRequest, NoMessage}
  PROVE  OInv'
<1>1. Msgs'
  BY MsgsKept DEF OInv, Stored, Working
<1>2. RequestOwned'
  BY RequestOwnedKept DEF OInv, Stored, Working
<1>3. UnloadOwned'
  BY UnloadOwnedKept DEF OInv, Stored, Working
<1> QED BY <1>1, <1>2, <1>3 DEF OInv

-----------------------------------------------------------------------------
(* Each step keeps the owners *)

LEMMA ThreadSets ==
  /\ Handlers \subseteq Managing /\ Managing \subseteq Threads
  /\ Downloaders \subseteq Handlers /\ Worker \in Handlers /\ Outsiders \subseteq Managing
  /\ Requests \subseteq Threads /\ Unloaders \subseteq Threads
  /\ NoMessage \notin Requests
BY ThreadsAssumption, MessagesAssumption, NoMessageAssumption DEF Handlers, Managing

\* A thread at a place outside the manager, which is where all steps but the
\* manager's begin.
LEMMA Local ==
  ASSUME OInv, NEW t \in Threads, pc[t] \notin Manages, NEW b \in Locations \ Manages,
         Goto(t, b), UNCHANGED cont
  PROVE  Stacks' /\ Moves(t, pc[t], b)
BY LocalStep DEF OInv, Goto

LEMMA HandlerHasRequest ==
  ASSUME OInv, NEW h \in Handlers, pc[h] \in Handling
  PROVE  msg[h] \in Requests /\ PlaceOf(h) = pc[h]
<1>1. PlaceOf(h) = pc[h]
  BY ThreadSets DEF OInv, Stacks, StackInv, PlaceOf, Handling, Manages
<1> QED BY <1>1 DEF OInv, Msgs, Values

\* The handlers that the properties speak of are those at work.
LEMMA HandlesPlace ==
  ASSUME OInv, NEW h \in Handlers
  PROVE  Handles(h) <=> PlaceOf(h) \in Working
<1>1. CASE cont[h] = <<>>
  BY <1>1 DEF OInv, Msgs, PlaceOf, Handles, At, Working, Handling
<1>2. CASE cont[h] # <<>>
  BY <1>2, ThreadSets DEF OInv, Msgs, Stacks, StackInv, Ends, Manages, Handles, At, Working, Handling
<1> QED BY <1>1, <1>2

LEMMA CallerKeepsOInv ==
  ASSUME OInv, NEW t \in Threads,
         \/ Send(t) \/ Interrupt(t) \/ ForgetActivity(t)
         \/ BeginDownload(t) \/ ForgetPending(t) \/ CloseDownload(t)
         \/ t \in Unloaders /\ Clear(t)
  PROVE  OInv'
<1> USE DEF Send, Interrupt, Clear, ForgetActivity, BeginDownload, ForgetPending, CloseDownload
<1>1. PICK b \in {"add", "refused", "clear", "pend", "done", "fetch", "close"} : Goto(t, b)
  OBVIOUS
<1>2. pc[t] \in {"start", "clear", "stamp", "begin", "forget", "close"} /\ UNCHANGED cont
  BY DEF Comes, At, locals, DownloadOnly
<1>3. Stacks' /\ Moves(t, pc[t], b)
  BY <1>1, <1>2, Local DEF Locations, Manages
<1>4. UNCHANGED <<msg, kept, raised, pendingUnload, stranded, outcome, seen, status, answered,
                  ran, missed>>
      /\ pendingRequest' \in {pendingRequest, NoMessage}
  BY DEF locals, flags, history, unloads, DownloadOnly
<1>5. /\ interrupted' \in {interrupted, TRUE, FALSE} /\ downloading' \in {downloading, TRUE, FALSE}
      /\ stamped' \in {stamped, TRUE, FALSE}
  BY DEF flags, DownloadOnly
<1>6. dropped' \subseteq dropped \cup Requests
  BY DEF history, DownloadOnly
<1>7. Values'
  BY <1>4, <1>5, <1>6 DEF OInv, Values
<1> QED BY <1>1, <1>2, <1>3, <1>4, <1>7, OwnersKept DEF Handling

LEMMA AddKeepsOInv ==
  ASSUME OInv, NEW t \in Threads, Add(t)
  PROVE  OInv'
<1>1. UNCHANGED <<locals, flags, status, history>> /\ pc[t] = "add"
  BY DEF Add, At
<1>2. Values'
  BY <1>1 DEF OInv, Values, locals, flags, history, unloads
<1>3. CASE UNCHANGED pc
  BY <1>1, <1>2, <1>3 DEF OInv, Stacks, StackTypes, StackInv, PlaceOf, Msgs, RequestOwned,
     UnloadOwned, locals, flags, history
<1>4. CASE Goto(t, AfterAdding(t))
  <2>1. AfterAdding(t) \in {"idle", "forget", "done"}
    BY DEF AfterAdding, AfterHandling
  <2>2. Stacks' /\ Moves(t, pc[t], AfterAdding(t))
    BY <1>1, <1>4, <2>1, Local DEF Locations, Manages, locals
  <2> QED BY <1>1, <1>2, <2>1, <2>2, OwnersKept DEF Handling, locals, flags, history
<1> QED BY <1>3, <1>4 DEF Add

LEMMA PendKeepsOInv ==
  ASSUME OInv, NEW u \in Unloaders, Pend(u)
  PROVE  OInv'
<1> USE ThreadSets
<1>1. pc[u] = "pend" /\ Goto(u, "look") /\ pendingUnload' = TRUE
      /\ UNCHANGED <<locals, interrupted, pendingRequest, downloading, stamped, status, history>>
  BY DEF Pend, At
<1>2. Stacks' /\ Moves(u, pc[u], "look")
  BY <1>1, Local DEF Locations, Manages, locals
<1>3. Values'
  BY <1>1 DEF OInv, Values, locals, history, unloads
<1>4. Msgs' /\ RequestOwned'
  BY <1>1, <1>2, MsgsKept, RequestOwnedKept DEF OInv, Handling, Working, Stored, locals, history
<1>5. UnloadOwned'
  BY <1>1 DEF OInv, Stacks, StackTypes, Goto, UnloadOwned
<1> QED BY <1>2, <1>3, <1>4, <1>5 DEF OInv

\* An unload is left to the request that is stored: a handler is at work on it, or
\* the unload is stranded.
LEMMA LookKeepsOInv ==
  ASSUME OInv, NEW u \in Unloaders, Look(u)
  PROVE  OInv'
<1> USE ThreadSets
<1>1. /\ pc[u] = "look"
      /\ UNCHANGED <<locals, flags, status, answered, kept, raised, dropped, unloads>>
  BY DEF Look, At
<1>2. PICK b \in {"take", "done"} : Goto(u, b) /\ (b = "done" => pendingRequest # NoMessage)
  BY DEF Look
<1>3. Stacks' /\ Moves(u, pc[u], b)
  BY <1>1, <1>2, Local DEF Locations, Manages, locals
<1>4. Values'
  BY <1>1 DEF OInv, Values, Look, locals, flags, unloads
<1>5. Msgs' /\ RequestOwned'
  BY <1>1, <1>2, <1>3, MsgsKept, RequestOwnedKept DEF OInv, Handling, Working, Stored, locals, flags
<1>6. UnloadOwned'
  <2>1. CASE b = "take"
    BY <1>2, <2>1 DEF OInv, Stacks, StackTypes, Goto, UnloadOwned
  <2>2. CASE b = "done"
    <3>1. pendingRequest \in kept \cup raised \/ \E h \in Handlers : PlaceOf(h) \in Stored
      BY <1>2, <2>2 DEF OInv, RequestOwned
    <3>2. stranded' \/ \E h \in Handlers : PlaceOf(h) \in Working
      BY <3>1, HandlesPlace DEF Look, Stored
    <3>3. \A h \in Handlers : PlaceOf(h) \in Working => PlaceOf(h)' \in Working
      BY <1>1, <1>3 DEF Moves, Starts, Working, Handling
    <3> QED BY <3>2, <3>3 DEF UnloadOwned
  <2> QED BY <2>1, <2>2
<1> QED BY <1>3, <1>4, <1>5, <1>6 DEF OInv

LEMMA QueuePendingUnloadKeepsOInv ==
  ASSUME OInv, NEW t \in Threads, QueuePendingUnload(t)
  PROVE  OInv'
<1>1. /\ pc[t] \in {"take", "queue"} /\ pendingUnload' = FALSE /\ stranded' = FALSE
      /\ UNCHANGED <<locals, interrupted, pendingRequest, downloading, stamped, status, answered,
                     kept, raised, dropped, unloads>>
  BY DEF QueuePendingUnload
<1>2. PICK b \in {"add", "idle", "forget", "done"} : Goto(t, b)
  BY DEF QueuePendingUnload, AfterAdding, AfterHandling
<1>3. Stacks' /\ Moves(t, pc[t], b)
  BY <1>1, <1>2, Local DEF Locations, Manages, locals
<1>4. Values'
  BY <1>1 DEF OInv, Values, locals, unloads
<1>5. Msgs' /\ RequestOwned'
  BY <1>1, <1>2, <1>3, MsgsKept, RequestOwnedKept DEF OInv, Handling, Working, Stored, locals
<1>6. UnloadOwned'
  BY <1>1 DEF UnloadOwned
<1> QED BY <1>3, <1>4, <1>5, <1>6 DEF OInv

\* The callers of the manager that are not handling a request.
LEMMA VisitKeepsOInv ==
  ASSUME OInv, NEW t \in Managing,
         \/ LoadRoute(t) \/ CheckInactivity(t)
         \/ t = Worker /\ TakeUnload
         \/ t \in Downloaders /\ FetchEnds(t)
  PROVE  OInv'
<1> USE ThreadSets
<1>1. pc[t] \in {"start", "idle", "fetch"}
  BY DEF LoadRoute, CheckInactivity, TakeUnload, FetchEnds, Comes, At
<1>2. PICK p : /\ Run(t, p)
               /\ p \in {<<"load", "done">>, <<"unload", "stamp">>, <<"unload", "idle">>,
                         <<"close">>, <<"load", "auto">>}
  BY DEF LoadRoute, CheckInactivity, TakeUnload, FetchEnds
<1>3. PICK b \in {"done", "stamp", "idle", "close", "auto"} : PathTo(p, b)
  <2>1. /\ <<"load", "done">> = <<"load">> \o <<"done">>
        /\ <<"unload", "stamp">> = <<"unload">> \o <<"stamp">>
        /\ <<"unload", "idle">> = <<"unload">> \o <<"idle">>
        /\ <<"load", "auto">> = <<"load">> \o <<"auto">>
    OBVIOUS
  <2>2. \A c \in Ends : PathTo(<<c>>, c)
    BY OneStep
  <2>3. {"done", "stamp", "idle", "close", "auto"} \subseteq Ends
        /\ {"load", "unload"} \subseteq Manages
    BY DEF Ends, Manages
  <2>4. \A m \in {"load", "unload"}, c \in {"done", "stamp", "idle", "close", "auto"} :
          PathTo(<<m>> \o <<c>>, c)
    BY <2>2, <2>3, PrefixPath
  <2> QED BY <1>2, <2>1, <2>2, <2>3, <2>4
<1>4. Stacks' /\ Moves(t, pc[t], b)
  BY <1>1, <1>2, <1>3, RunStep DEF OInv, Manages
<1>5. UNCHANGED <<msg, pendingUnload, pendingRequest, outcome, seen, interrupted, stamped,
                  answered, kept, raised, dropped, ran, missed, stranded>>
  BY DEF LoadRoute, CheckInactivity, TakeUnload, FetchEnds, flags, history, unloads, DownloadOnly
<1>6. /\ status' \in {status, "unloaded"}
      /\ downloading' \in {downloading, FALSE}
  BY DEF LoadRoute, CheckInactivity, TakeUnload, FetchEnds, ManagerExists, flags, history,
     DownloadOnly
<1>7. Values'
  BY <1>5, <1>6 DEF OInv, Values, Statuses
<1> QED BY <1>1, <1>3, <1>4, <1>5, <1>7, OwnersKept DEF Handling

LEMMA ManageKeepsOInv ==
  ASSUME OInv, NEW t \in Managing, Manage(t), ~ManagerRaises(t)
  PROVE  OInv'
<1> USE ThreadSets
<1> USE DEF Manage, ReadStatus, NothingToLoad, AnnounceMissing, Decide, Build, Components,
            UnloadModel, Release
<1>1. pc[t] \in Manages
  BY DEF StartDownload, At, Manages
<1>2. Stacks' /\ Moves(t, PlaceOf(t), PlaceOf(t))
  <2>1. CASE \E m \in {"decide", "announce", "components", "release"} : Goto(t, m) /\ UNCHANGED cont
    <3>1. PICK m \in {"decide", "announce", "components", "release"} : Goto(t, m) /\ UNCHANGED cont
      BY <2>1
    <3> QED BY <1>1, <3>1, InnerStep DEF OInv, Goto, Manages
  <2>2. CASE Return(t)
    BY <1>1, <2>2, ReturnStep DEF OInv, Return, Goto
  <2>3. CASE StartDownload(t)
    BY <1>1, <2>3, ReturnStep DEF OInv, StartDownload
  <2>4. CASE Run(t, <<"unload", "build">>)
    BY <1>1, <2>4, UnloadFirstStep DEF OInv
  <2> QED BY <2>1, <2>2, <2>3, <2>4
<1>3. UNCHANGED <<msg, pendingUnload, pendingRequest, outcome, interrupted, stamped, answered,
                  kept, raised, dropped, stranded>>
  BY DEF StartDownload, ManagerOnly, flags, history
<1>4. /\ status' \in {status, "loading", "loaded", "failed", "unloaded"}
      /\ downloading' \in {downloading, TRUE}
      /\ seen' \in {seen, [seen EXCEPT ![t] = status], [seen EXCEPT ![t] = "none"]}
      /\ ran' \in {ran, ran \cup Asking} /\ missed' \in {missed, missed \cup Asking}
  BY DEF StartDownload, ManagerOnly, Forgotten, Serves, flags, history, unloads
<1>5. Values'
  BY <1>3, <1>4 DEF OInv, Values, Statuses, Asking
<1>6. pc[t] \notin {"look", "take"}
  BY <1>1 DEF Manages
<1> QED BY <1>2, <1>3, <1>5, <1>6, OwnersKept

\* What raises in the manager is caught on the way to the end of the request, or by
\* those who have none.
LEMMA ManagerRaisesKeepsOInv ==
  ASSUME OInv, NEW t \in Managing, ManagerRaises(t)
  PROVE  OInv'
<1> USE ThreadSets
<1>1. pc[t] \in Manages
  BY DEF ManagerRaises, Manages
<1>2. Stacks' /\ Moves(t, PlaceOf(t), CaughtAt(PlaceOf(t)))
  BY <1>1, RaiseStep DEF OInv, ManagerRaises
<1>3. \/ PlaceOf(t) = CaughtAt(PlaceOf(t))
      \/ {PlaceOf(t), CaughtAt(PlaceOf(t))} \cap (Handling \cup {"queue"}) = {}
      \/ {PlaceOf(t), CaughtAt(PlaceOf(t))} \subseteq Stored
  BY DEF CaughtAt, Handling, Working, Stored
<1>4. UNCHANGED <<msg, pendingUnload, pendingRequest, downloading, interrupted, stamped, answered,
                  kept, raised, dropped, ran, stranded>>
  BY DEF ManagerRaises, flags
<1>5. Values'
  <2>1. outcome' \in [Handlers -> Outcomes]
    BY DEF ManagerRaises, OInv, Values, Outcomes
  <2>2. seen' \in [Managing -> Statuses] /\ status' \in Statuses
    BY DEF ManagerRaises, Forgotten, OInv, Values, Statuses
  <2>3. missed' \subseteq Unloaders
    BY DEF ManagerRaises, Serves, Asking, OInv, Values
  <2> QED BY <1>4, <2>1, <2>2, <2>3 DEF OInv, Values
<1>6. pc[t] \notin {"look", "take"}
  BY <1>1 DEF Manages
<1> QED BY <1>2, <1>3, <1>4, <1>5, <1>6, OwnersKept

\* A handler takes a request, from the queue or the one that waited for a download,
\* or drops it.
LEMMA ChangesMsg ==
  ASSUME OInv, NEW h \in Handlers, NEW m \in Requests \cup {NoMessage},
         msg' = [msg EXCEPT ![h] = m], NEW b, Stacks', Moves(h, pc[h], b),
         m # NoMessage <=> b \in Handling
  PROVE  Msgs'
BY ThreadSets DEF OInv, Values, Msgs, Moves, Starts, Handling

\* A handler that is not at work owns nothing, whatever becomes of its request.
LEMMA OwnersStay ==
  ASSUME OInv, NEW h \in Handlers, pc[h] \in {"idle", "auto", "check"}, NEW m,
         msg' = [msg EXCEPT ![h] = m], NEW b, Moves(h, pc[h], b),
         UNCHANGED <<pendingRequest, kept, raised, pendingUnload, stranded>>
  PROVE  RequestOwned' /\ UnloadOwned'
<1>1. PlaceOf(h) = pc[h]
  BY ThreadSets DEF Moves
<1>2. \A g \in Handlers : PlaceOf(g) \in Working \cup {"queue"} =>
        g # h /\ PlaceOf(g)' = PlaceOf(g) /\ msg'[g] = msg[g]
  BY <1>1, ThreadSets DEF OInv, Values, Moves, Starts, Working, Handling
<1>3. RequestOwned'
  BY <1>2 DEF OInv, RequestOwned, Stored
<1>4. \A u \in Unloaders : pc[u] \in {"look", "take"} => pc'[u] = pc[u]
  BY ThreadSets DEF Moves, Starts
<1>5. UnloadOwned'
  BY <1>2, <1>4 DEF OInv, UnloadOwned
<1> QED BY <1>3, <1>5

LEMMA TakeRequestKeepsOInv ==
  ASSUME OInv, TakeRequest
  PROVE  OInv'
<1> USE ThreadSets
<1>1. pc[Worker] = "idle" /\ Goto(Worker, "check") /\ Taken \in Requests
      /\ msg' = [msg EXCEPT ![Worker] = Taken] /\ UNCHANGED <<cont, outcome, seen, flags, status, history>>
  BY DEF TakeRequest, At
<1>2. Stacks' /\ Moves(Worker, pc[Worker], "check")
  BY <1>1, Local DEF Locations, Manages
<1>3. Values'
  BY <1>1 DEF OInv, Values, flags, history, unloads
<1>4. Msgs'
  <2>1. Taken # NoMessage /\ "check" \in Handling
    BY <1>1 DEF Handling
  <2> QED BY <1>1, <1>2, <2>1, ChangesMsg
<1>5. RequestOwned' /\ UnloadOwned'
  BY <1>1, <1>2, OwnersStay DEF flags, history
<1> QED BY <1>2, <1>3, <1>4, <1>5 DEF OInv

LEMMA RetryPendingKeepsOInv ==
  ASSUME OInv, NEW d \in Downloaders, RetryPending(d)
  PROVE  OInv'
<1> USE ThreadSets
<1>1. pc[d] = "auto"
      /\ UNCHANGED <<cont, downloading, outcome, seen, interrupted, pendingUnload, stamped,
                     status, history>>
  BY DEF RetryPending, At, DownloadOnly
<1>2. CASE /\ status = "loaded" /\ pendingRequest # NoMessage
           /\ msg' = [msg EXCEPT ![d] = pendingRequest] /\ Goto(d, "check")
           /\ UNCHANGED pendingRequest
  <2>1. Stacks' /\ Moves(d, pc[d], "check")
    BY <1>1, <1>2, Local DEF Locations, Manages
  <2>2. Values'
    BY <1>1, <1>2 DEF OInv, Values, history, unloads
  <2>3. Msgs'
    <3>1. pendingRequest \in Requests /\ "check" \in Handling
      BY <1>2 DEF OInv, Values, Handling
    <3> QED BY <1>2, <2>1, <3>1, ChangesMsg
  <2>4. RequestOwned' /\ UnloadOwned'
    BY <1>1, <1>2, <2>1, OwnersStay DEF history
  <2> QED BY <2>1, <2>2, <2>3, <2>4 DEF OInv
<1>3. CASE pendingRequest' = NoMessage /\ Goto(d, "close") /\ UNCHANGED msg
  <2>1. Stacks' /\ Moves(d, pc[d], "close")
    BY <1>1, <1>3, Local DEF Locations, Manages
  <2>2. Values'
    BY <1>1, <1>3 DEF OInv, Values, history, unloads
  <2> QED BY <1>1, <1>3, <2>1, <2>2, OwnersKept DEF Handling, history
<1> QED BY <1>2, <1>3 DEF RetryPending

\* While it works on its request, the handler answers for both.
LEMMA WorkingKeepsOInv ==
  ASSUME OInv, NEW h \in Handlers, pc[h] \in Handling, NEW b \in Working,
         Stacks', Moves(h, pc[h], b), Values', UNCHANGED <<msg, kept, raised>>,
         \/ UNCHANGED pendingRequest /\ (pc[h] \in Stored => b \in Stored)
         \/ pendingRequest' = msg[h] /\ b \in Stored
  PROVE  OInv'
<1>1. Msgs'
  BY ThreadSets, MsgsKept DEF OInv, Working
<1>2. PlaceOf(h)' = b
  BY ThreadSets DEF Moves
<1>3. RequestOwned'
  <2>1. CASE UNCHANGED pendingRequest /\ (pc[h] \in Stored => b \in Stored)
    BY <2>1, ThreadSets, RequestOwnedKept DEF OInv
  <2>2. CASE pendingRequest' = msg[h] /\ b \in Stored
    BY <1>2, <2>2 DEF RequestOwned
  <2> QED BY <2>1, <2>2
<1> QED BY <1>1, <1>2, <1>3 DEF OInv, UnloadOwned

LEMMA CheckKeepsOInv ==
  ASSUME OInv, NEW h \in Handlers, Check(h)
  PROVE  OInv'
<1> USE ThreadSets
<1>1. pc[h] = "check"
      /\ UNCHANGED <<cont, outcome, seen, flags, status, answered, kept, raised, unloads, stranded>>
  BY DEF Check, At
<1>2. msg[h] \in Requests
  BY <1>1, HandlerHasRequest DEF Handling
<1>3. CASE /\ dropped' = dropped \cup {msg[h]} /\ msg' = [msg EXCEPT ![h] = NoMessage]
           /\ Goto(h, AfterHandling(h))
  <2>1. AfterHandling(h) \in {"idle", "forget"}
    BY DEF AfterHandling
  <2>2. Stacks' /\ Moves(h, pc[h], AfterHandling(h))
    BY <1>1, <1>3, <2>1, Local DEF Locations, Manages
  <2>3. Values'
    BY <1>1, <1>2, <1>3 DEF OInv, Values, flags, unloads
  <2>4. Msgs'
    BY <1>3, <2>1, <2>2, ChangesMsg DEF Handling
  <2>5. RequestOwned' /\ UnloadOwned'
    BY <1>1, <1>3, <2>2, OwnersStay DEF flags
  <2> QED BY <2>2, <2>3, <2>4, <2>5 DEF OInv
<1>4. CASE Goto(h, "keep") /\ UNCHANGED <<dropped, msg>>
  <2>1. Stacks' /\ Moves(h, pc[h], "keep")
    BY <1>1, <1>4, Local DEF Locations, Manages
  <2>2. Values'
    BY <1>1, <1>4 DEF OInv, Values, flags, unloads
  <2> QED BY <1>1, <1>4, <2>1, <2>2, WorkingKeepsOInv DEF Stored, Working, Handling, flags
<1> QED BY <1>3, <1>4 DEF Check

LEMMA KeepKeepsOInv ==
  ASSUME OInv, NEW h \in Handlers, Keep(h)
  PROVE  OInv'
<1>1. pc[h] = "keep" /\ pendingRequest' = msg[h] /\ Goto(h, "gather")
      /\ UNCHANGED <<cont, msg, outcome, seen, interrupted, pendingUnload, downloading, stamped,
                     status, history>>
  BY DEF Keep, At
<1>2. msg[h] \in Requests
  BY <1>1, HandlerHasRequest DEF Handling
<1>3. Stacks' /\ Moves(h, pc[h], "gather")
  BY <1>1, ThreadSets, Local DEF Locations, Manages
<1>4. Values'
  BY <1>1, <1>2 DEF OInv, Values, history, unloads
<1> QED BY <1>1, <1>3, <1>4, WorkingKeepsOInv DEF Stored, Working, Handling, history

LEMMA AttemptKeepsOInv ==
  ASSUME OInv, NEW h \in Handlers,
         Gather(h) \/ Prepare(h) \/ Ensure(h) \/ Generate(h) \/ Restore(h)
  PROVE  OInv'
<1> USE ThreadSets
<1> USE DEF Gather, Prepare, Ensure, Generate, Restore
<1>1. pc[h] \in {"gather", "prepare", "ensure", "generate", "restore"}
      /\ UNCHANGED <<msg, seen, flags, kept, raised, dropped, unloads, stranded>>
  BY DEF At, history
<1>2. msg[h] \in Requests
  BY <1>1, HandlerHasRequest DEF Handling
<1>3. PICK b \in {"prepare", "ensure", "generate", "restore", "settle"} :
        Stacks' /\ Moves(h, pc[h], b)
  <2>1. CASE \E b \in {"ensure", "generate", "restore", "settle"} : Goto(h, b) /\ UNCHANGED cont
    BY <1>1, <2>1, Local DEF Locations, Manages
  <2>2. CASE \/ Run(h, Overrides(h) \o <<"load", "prepare">>)
             \/ Run(h, Overrides(h) \o <<"settle">>)
             \/ Run(h, <<"load", "restore">>)
             \/ Run(h, <<"unload", "load", "ensure">>)
    BY <1>1, <2>2, OverridePaths, RunStep DEF OInv, Manages
  <2> QED BY <2>1, <2>2
<1>4. /\ outcome' = outcome \/ \E o \in {"ok", "failed", "retry"} : EndsAs(h, o)
      /\ answered' \in {answered, answered \cup {msg[h]}}
      /\ status' \in {status, "unloaded"}
  BY DEF ManagerExists, history
<1>5. Values'
  BY <1>1, <1>2, <1>4 DEF OInv, Values, flags, unloads, EndsAs, Outcomes, Statuses
<1> QED BY <1>1, <1>3, <1>5, WorkingKeepsOInv DEF Stored, Working, Handling, flags

\* The request stays stored, and the pending unload, if there is one, is stranded.
LEMMA GatherRaisesKeepsOInv ==
  ASSUME OInv, NEW h \in Handlers, GatherRaises(h)
  PROVE  OInv'
<1> USE ThreadSets
<1>1. /\ pc[h] = "gather" /\ status' \in {status, "unloaded"}
      /\ raised' = raised \cup {msg[h]} /\ stranded' = (stranded \/ pendingUnload)
      /\ msg' = [msg EXCEPT ![h] = NoMessage]
      /\ UNCHANGED <<cont, outcome, seen, flags, answered, kept, dropped, unloads>>
  BY DEF GatherRaises, At
<1>2. PICK b \in {"idle", "close"} : Goto(h, b)
  BY DEF GatherRaises
<1>3. msg[h] \in Requests /\ PlaceOf(h) = pc[h]
  BY <1>1, HandlerHasRequest DEF Handling
<1>4. Stacks' /\ Moves(h, pc[h], b)
  BY <1>1, <1>2, Local DEF Locations, Manages
<1>5. Values'
  <2>1. stranded' \in BOOLEAN
    BY <1>1 DEF OInv, Values
  <2> QED BY <1>1, <1>3, <2>1 DEF OInv, Values, flags, unloads, Statuses
<1>6. Msgs'
  <2>1. b \notin Handling
    BY <1>2 DEF Handling
  <2> QED BY <1>1, <1>4, <2>1, ChangesMsg
<1>7. RequestOwned'
  <2>1. \A g \in Handlers : g # h /\ PlaceOf(g) \in Stored =>
          PlaceOf(g)' \in Stored /\ msg'[g] = msg[g]
    BY <1>1, <1>4 DEF OInv, Values, Moves, Starts, Stored, Working, Handling
  <2> QED BY <1>1, <2>1 DEF OInv, RequestOwned, flags
<1>8. UnloadOwned'
  BY <1>1 DEF UnloadOwned, flags
<1> QED BY <1>4, <1>5, <1>6, <1>7, <1>8 DEF OInv

\* The request that stays stored is one kept for its download.
LEMMA SettleKeepsOInv ==
  ASSUME OInv, NEW h \in Handlers, Settle(h)
  PROVE  OInv'
<1> USE ThreadSets
<1>1. pc[h] = "settle" /\ msg' = [msg EXCEPT ![h] = NoMessage] /\ EndsAs(h, "none")
      /\ Goto(h, "queue")
      /\ UNCHANGED <<cont, seen, interrupted, pendingUnload, downloading, stamped, status, raised,
                     dropped, unloads, stranded>>
  BY DEF Settle, At, NextAfter
<1>2. msg[h] \in Requests
  BY <1>1, HandlerHasRequest DEF Handling
<1>3. /\ answered' \in {answered, answered \cup {msg[h]}}
      /\ \/ pendingRequest' = NoMessage /\ kept' \in {kept, kept \ {msg[h]}}
         \/ pendingRequest' = pendingRequest /\ kept' = kept \cup {msg[h]}
  BY DEF Settle, PendingAfter, AnsweredAfter
<1>4. Stacks' /\ Moves(h, pc[h], "queue")
  BY <1>1, Local DEF Locations, Manages
<1>5. Values'
  <2>1. outcome' \in [Handlers -> Outcomes] /\ msg' \in [Handlers -> Requests \cup {NoMessage}]
    BY <1>1 DEF OInv, Values, EndsAs, Outcomes
  <2>2. kept' \subseteq Requests /\ answered' \subseteq Requests
    BY <1>2, <1>3 DEF OInv, Values
  <2>3. pendingRequest' \in Requests \cup {NoMessage}
    BY <1>3 DEF OInv, Values
  <2> QED BY <1>1, <2>1, <2>2, <2>3 DEF OInv, Values, unloads
<1>6. Msgs'
  <2>1. "queue" \notin Handling
    BY DEF Handling
  <2> QED BY <1>1, <1>4, <2>1, ChangesMsg
<1>7. RequestOwned'
  <2>1. \A g \in Handlers : g # h /\ PlaceOf(g) \in Stored =>
          PlaceOf(g)' \in Stored /\ msg'[g] = msg[g]
    BY <1>1, <1>4 DEF OInv, Values, Moves, Starts, Stored, Working, Handling
  <2> QED BY <1>1, <1>3, <2>1 DEF OInv, RequestOwned
<1>8. UnloadOwned'
  BY <1>1, <1>4, UnloadOwnedKept DEF OInv, Working, Handling
<1> QED BY <1>4, <1>5, <1>6, <1>7, <1>8 DEF OInv

LEMMA IdleKeepsOInv ==
  ASSUME OInv, UNCHANGED workerVars
  PROVE  OInv'
<1>1. \A h : PlaceOf(h)' = PlaceOf(h)
  BY DEF workerVars, PlaceOf
<1>2. Stacks' /\ Values'
  BY <1>1 DEF workerVars, OInv, Stacks, StackTypes, StackInv, Values
<1>3. Msgs' /\ RequestOwned' /\ UnloadOwned'
  BY <1>1 DEF workerVars, OInv, Msgs, RequestOwned, UnloadOwned
<1> QED BY <1>2, <1>3 DEF OInv

LEMMA NextOInv == OInv /\ [Next]_vars => OInv'
<1> SUFFICES ASSUME OInv, [Next]_vars
             PROVE  OInv'
  OBVIOUS
<1> USE ThreadSets
<1>1. ASSUME NEW t \in Threads, Step(t) PROVE OInv'
  <2>1. CASE Add(t) \/ QueuePendingUnload(t)
    BY <2>1, AddKeepsOInv, QueuePendingUnloadKeepsOInv
  <2>2. CASE t \in Unloaders /\ (Clear(t) \/ Pend(t) \/ Look(t))
    BY <2>2, CallerKeepsOInv, PendKeepsOInv, LookKeepsOInv
  <2>3. CASE t \in Managing /\ Manage(t)
    BY <2>3, ManageKeepsOInv, ManagerRaisesKeepsOInv
  <2>4. CASE t \in Handlers /\ Handle(t)
    BY <2>4, CheckKeepsOInv, KeepKeepsOInv, AttemptKeepsOInv, GatherRaisesKeepsOInv,
       SettleKeepsOInv DEF Handle
  <2>5. CASE \/ /\ t \in Downloaders
                /\ BeginDownload(t) \/ RetryPending(t) \/ ForgetPending(t) \/ CloseDownload(t)
             \/ t \in Outsiders /\ ForgetActivity(t)
    BY <2>5, RetryPendingKeepsOInv, CallerKeepsOInv
  <2>6. CASE t = Worker /\ TakeNothing
    BY <2>6, IdleKeepsOInv DEF TakeNothing
  <2>7. CASE t = Worker /\ TakeUnload
    <3>1. t \in Managing
      BY <2>7
    <3> QED BY <2>7, <3>1, VisitKeepsOInv
  <2>8. CASE t = Worker /\ TakeRequest
    BY <2>8, TakeRequestKeepsOInv
  <2> QED BY <1>1, <2>1, <2>2, <2>3, <2>4, <2>5, <2>6, <2>7, <2>8 DEF Step
<1>2. CASE (\E r \in Requests : Send(r)) \/ (\E u \in Unloaders : Interrupt(u))
  BY <1>2, CallerKeepsOInv
<1>3. CASE (\E o \in Outsiders : LoadRoute(o) \/ CheckInactivity(o))
           \/ (\E d \in Downloaders : FetchEnds(d))
  BY <1>3, VisitKeepsOInv
<1>4. CASE UNCHANGED vars
  BY <1>4, IdleKeepsOInv DEF vars, workerVars
<1> QED BY <1>1, <1>2, <1>3, <1>4 DEF Next

LEMMA InitOInv == Init => OInv
<1> SUFFICES ASSUME Init PROVE OInv
  OBVIOUS
<1> USE ThreadSets
<1>1. \A t \in Threads : pc[t] \in {"off", "idle", "start"}
  BY DEF Init, StartOf
<1>2. \A t \in Managing : cont[t] = <<>> /\ Len(cont[t]) = 0 /\ PlaceOf(t) = pc[t]
  BY EmptySeq DEF Init, PlaceOf
<1>3. Stacks
  BY <1>1, <1>2 DEF Init, Stacks, StackTypes, StackInv, Locations, Manages, StartOf
<1>4. Values
  BY DEF Init, Values, Outcomes, Statuses
<1>5. Msgs /\ RequestOwned /\ UnloadOwned
  BY <1>1, <1>2 DEF Init, Msgs, RequestOwned, UnloadOwned, Handling
<1> QED BY <1>3, <1>4, <1>5 DEF OInv

LEMMA SpecOInv == Spec => []OInv
BY InitOInv, NextOInv, PTL DEF Spec

OneScenario == callers \in Scenarios

\* Every variable of the worker keeps its type: no handler stores, answers or drops
\* a request that it does not have (llm_generate_worker.py: handle_message).
THEOREM LLMWorkerTypeOK == Spec => []TypeOK
<1>1. Init => OneScenario
  BY DEF Init, OneScenario
<1>2. OneScenario /\ [Next]_vars => OneScenario'
  BY DEF Next, vars, OneScenario
<1>3. Spec => []OneScenario
  BY <1>1, <1>2, PTL DEF Spec
<1>4. QInv /\ OInv /\ OneScenario => TypeOK
  BY DEF QInv, OInv, OneScenario, Stacks, StackTypes, Values, TypeOK
<1> QED BY <1>3, <1>4, SpecQInv, SpecOInv, PTL

\* request_unload_after_interrupt and _queue_pending_unload_request: an unload that
\* is pending has somebody who will queue it, whatever its caller and the handlers
\* of requests do at the same time.
THEOREM PendingUnloadHasOwnerTheorem == Spec => []PendingUnloadHasOwner
<1>1. OInv => PendingUnloadHasOwner
  <2> SUFFICES ASSUME OInv, NEW h \in Handlers, PlaceOf(h) \in Working \cup {"queue"}
               PROVE  Handles(h) \/ At(h, "queue")
    BY DEF OInv, UnloadOwned, PendingUnloadHasOwner
  <2>1. CASE PlaceOf(h) \in Working
    BY <2>1, HandlesPlace
  <2>2. CASE PlaceOf(h) = "queue"
    BY <2>2, ThreadSets DEF OInv, Stacks, StackInv, PlaceOf, Ends, At
  <2> QED BY <2>1, <2>2
<1> QED BY <1>1, SpecOInv, PTL
=============================================================================
