------------------------ MODULE SidecarProcess_proofs ------------------------
(***************************************************************************)
(* Proofs about SidecarProcess for any set of calls, settings and kinds of *)
(* client.                                                                 *)
(*                                                                         *)
(* As long as no two calls meet where no lock keeps them apart, and no     *)
(* launcher is replaced without being stopped, one call at a time is       *)
(* inside the launcher (Alone).  What it finds there is then what it left: *)
(* the launcher it works with is the client's, the process it stops is     *)
(* that launcher's, and when it spawns one no other is alive (ChildInv).   *)
(***************************************************************************)
EXTENDS SidecarProcess, TLAPS

\* Where a call that locks holds the lock.
Holding == Inside \cup {"use", "leave"}

LockInv == \A c \in Calls : pc[c] \in Holding /\ Locks(c) => lock = c

Alone == \A c, d \in Calls : pc[c] \in Inside /\ pc[d] \in Inside => c = d

NoneLive == \A p \in Calls : child[p] \notin Live

\* The launcher and the children as the call c leaves them, wherever it stands.
LeftBy(c) ==
  /\ pc[c] \in Inside \ {"enter"} => mine[c] = launcher
  /\ pc[c] = "clear" => victim[c] = proc[launcher]
  /\ pc[c] = "kill" => proc[launcher] = None
  /\ pc[c] \in {"spawn", "replace"} => NoneLive

ChildInv ==
  /\ \A c \in Calls : LeftBy(c)
  /\ \A p \in Calls : child[p] \in Live =>
       \/ proc[launcher] = p
       \/ \E c \in Calls : pc[c] \in {"clear", "kill"} /\ victim[c] = p

PInv ==
  /\ TypeOK
  /\ LockInv
  /\ ~raced => Alone
  /\ Supervised => ChildInv

-----------------------------------------------------------------------------
LEMMA InitPInv == Init => PInv
<1> SUFFICES ASSUME Init PROVE PInv
  OBVIOUS
<1>1. {raced, left} \subseteq BOOLEAN
  BY DEF Init
<1>2. TypeOK
  BY <1>1, FirstAssumption
     DEF Init, TypeOK, Locations, Inside, Ops, Launchers, Live, ChildStates
<1>3. \A c \in Calls : pc[c] \notin Holding /\ pc[c] \notin Inside /\ child[c] \notin Live
  BY DEF Init, Holding, Inside, Live
<1>4. LockInv /\ Alone
  BY <1>3 DEF LockInv, Alone
<1>5. ChildInv
  BY <1>3 DEF ChildInv, LeftBy, Inside
<1> QED BY <1>2, <1>4, <1>5 DEF PInv

\* The typing in the form the steps below use.
LEMMA Types ==
  ASSUME PInv
  PROVE  /\ kind \in Kinds /\ pc \in [Calls -> Locations] /\ op \in [Calls -> Ops]
         /\ want \in [Calls -> Settings] /\ mine \in [Calls -> Launchers]
         /\ victim \in [Calls -> Calls \cup {None}]
         /\ then \in [Calls -> {"replace", "leave"}]
         /\ lock \in Calls \cup {None} /\ settings \in Settings /\ launcher \in Launchers
         /\ proc \in [Launchers -> Calls \cup {None}]
         /\ child \in [Calls -> ChildStates]
         /\ raced \in BOOLEAN /\ left \in BOOLEAN
         /\ None \notin Calls /\ Calls \subseteq Launchers /\ Base \in Launchers
BY NamesAssumption DEF PInv, TypeOK, Launchers

\* At most one child is alive while the client is supervised.
LEMMA LiveIsOne ==
  ASSUME PInv, Supervised, NEW p \in Calls, NEW q \in Calls,
         child[p] \in Live, child[q] \in Live
  PROVE  p = q
<1>1. Alone /\ ChildInv
  BY DEF PInv, Supervised
<1>2. CASE \E c \in Calls : pc[c] = "kill"
  <2>1. PICK c \in Calls : pc[c] = "kill"
    BY <1>2
  <2>2. proc[launcher] = None /\ \A d \in Calls : pc[d] \in {"clear", "kill"} => d = c
    BY <1>1, <2>1 DEF ChildInv, LeftBy, Alone, Inside
  <2> QED BY <1>1, <2>2, Types DEF ChildInv
<1>3. CASE ~\E c \in Calls : pc[c] = "kill"
  <2>1. \A c \in Calls : pc[c] \in {"clear", "kill"} => victim[c] = proc[launcher]
    BY <1>1, <1>3 DEF ChildInv, LeftBy
  <2> QED BY <1>1, <2>1 DEF ChildInv
<1> QED BY <1>2, <1>3

-----------------------------------------------------------------------------
(* The steps of a call inside the launcher *)

\* A step of c that takes it from one place inside to another, or out.
Moves(c, label) ==
  /\ pc[c] \in Inside \cup {"use"}
  /\ pc' = [pc EXCEPT ![c] = label]
  /\ label \in Holding /\ (label \in Inside => pc[c] \in Inside)
  /\ UNCHANGED <<kind, op, want, lock, raced>>
  /\ left' \in BOOLEAN /\ (left => left')

LEMMA MovesKeepsLock ==
  ASSUME PInv, NEW c \in Calls, NEW label, Moves(c, label)
  PROVE  /\ pc' \in [Calls -> Locations] /\ LockInv' /\ (~raced' => Alone')
         /\ Supervised' => Supervised
<1> USE Types DEF Moves
<1>1. pc' \in [Calls -> Locations]
  BY DEF Holding, Locations
<1>2. LockInv'
  BY DEF PInv, LockInv, Locks, Holding
<1>3. ~raced' => Alone'
  BY DEF PInv, Alone
<1>4. Supervised' => Supervised
  BY DEF Supervised
<1> QED BY <1>1, <1>2, <1>3, <1>4

\* What remains to be shown of a step of the one call inside.
LEMMA InsideKeepsPInv ==
  ASSUME PInv, NEW c \in Calls, NEW label, Moves(c, label), pc[c] \in Inside, TypeOK',
         Supervised' =>
           /\ LeftBy(c)'
           /\ \A p \in Calls : child'[p] \in Live =>
                proc'[launcher'] = p \/ (label \in {"clear", "kill"} /\ victim'[c] = p)
  PROVE  PInv'
<1>1. LockInv' /\ (~raced' => Alone') /\ (Supervised' => Supervised) /\ pc'[c] = label
  BY Types, MovesKeepsLock DEF Moves
<1>2. ASSUME Supervised' PROVE ChildInv'
  <2>1. \A d \in Calls \ {c} : pc'[d] \notin Inside
    BY <1>1, <1>2, Types DEF PInv, Supervised, Alone, Moves
  <2>2. \A d \in Calls \ {c} : LeftBy(d)'
    BY <2>1 DEF LeftBy, Inside
  <2> QED BY <1>1, <1>2, <2>2 DEF ChildInv
<1> QED BY <1>1, <1>2 DEF PInv

\* What such a step starts from.
LEMMA InsideFinds ==
  ASSUME PInv, Supervised, NEW c \in Calls, pc[c] \in Inside
  PROVE  /\ LeftBy(c)
         /\ \A p \in Calls : child[p] \in Live =>
              proc[launcher] = p \/ (pc[c] \in {"clear", "kill"} /\ victim[c] = p)
<1>1. \A d \in Calls : pc[d] \in {"clear", "kill"} => d = c
  BY DEF PInv, Supervised, Alone, Inside
<1> QED BY <1>1 DEF PInv, ChildInv

LEMMA PrepareKeepsPInv ==
  ASSUME PInv, NEW c \in Calls, Prepare(c)
  PROVE  PInv'
<1> USE Types
<1>1. PICK label \in {"enter", "take", "replace"} : Moves(c, label)
  <2>1. left' \in BOOLEAN /\ (left => left')
    <3>1. left' = left \/ left' = (left \/ kind = "llm")
      BY DEF Prepare
    <3>2. CASE left' = left
      BY <3>2
    <3>3. CASE left' = (left \/ kind = "llm")
      BY <3>3
    <3> QED BY <3>1, <3>2, <3>3
  <2>2. pc[c] = "prepare" /\ UNCHANGED <<kind, op, want, lock, raced>>
    BY DEF Prepare, At, Inner, client
  <2>3. \E label \in {"enter", "take", "replace"} : pc' = [pc EXCEPT ![c] = label]
    BY DEF Prepare, Goto
  <2> QED BY <2>1, <2>2, <2>3 DEF Moves, Inside, Holding
<1>2. UNCHANGED <<victim, proc, child, launcher, settings>> /\ mine' = [mine EXCEPT ![c] = launcher]
      /\ then' \in [Calls -> {"replace", "leave"}] /\ pc[c] = "prepare"
  BY DEF Prepare, Inner, client, At
<1>3. TypeOK'
  BY <1>1, <1>2, MovesKeepsLock DEF TypeOK, Moves
<1>4. Supervised' => label # "replace"
  BY <1>1, KindsAssumption
     DEF Prepare, Goto, Changes, StopsOld, Supervised, Moves
<1>5. Supervised' =>
        /\ LeftBy(c)'
        /\ \A p \in Calls : child'[p] \in Live => proc'[launcher'] = p
  <2> SUFFICES ASSUME Supervised' PROVE LeftBy(c)' /\ \A p \in Calls : child'[p] \in Live => proc'[launcher'] = p
    OBVIOUS
  <2>1. Supervised
    BY <1>1, MovesKeepsLock
  <2>2. \A p \in Calls : child[p] \in Live => proc[launcher] = p
    BY <1>2, <2>1, InsideFinds DEF Inside
  <2>3. pc'[c] = label
    BY <1>1 DEF Moves
  <2> QED BY <1>2, <1>4, <2>2, <2>3 DEF LeftBy
<1> QED BY <1>1, <1>2, <1>3, <1>5, InsideKeepsPInv DEF Inside

LEMMA ReplaceKeepsPInv ==
  ASSUME PInv, NEW c \in Calls, Replace(c)
  PROVE  PInv'
<1> USE Types
<1>1. Moves(c, "enter") /\ pc[c] = "replace" /\ UNCHANGED <<victim, proc, child, mine, then>>
      /\ launcher' = c /\ settings' = want[c]
  BY DEF Replace, Goto, At, Moves, locals, flags, Inside, Holding
<1>2. TypeOK'
  BY <1>1, MovesKeepsLock DEF TypeOK, Moves
<1>3. Supervised' => LeftBy(c)' /\ \A p \in Calls : child'[p] \notin Live
  <2>1. pc'[c] = "enter"
    BY <1>1 DEF Moves
  <2>2. Supervised => NoneLive
    BY <1>1, InsideFinds DEF Inside, LeftBy
  <2> QED BY <1>1, <2>1, <2>2, MovesKeepsLock DEF LeftBy, NoneLive
<1> QED BY <1>1, <1>2, <1>3, InsideKeepsPInv DEF Inside

\* The steps that look at the launcher and leave it and the children alone.
LEMMA LooksKeepPInv ==
  ASSUME PInv, NEW c \in Calls, Status(c) \/ Enter(c) \/ Ensure(c) \/ WaitUntilReady(c)
  PROVE  PInv'
<1> USE Types
<1>1. PICK label \in {"take", "leave", "use", "ensure", "wait", "spawn"} :
        /\ Moves(c, label)
        /\ label = "spawn" => Ensure(c) /\ ~Running(mine[c])
  BY DEF Status, Enter, Ensure, WaitUntilReady, Goto, At, Moves, Inner, client, flags, LauncherOnly,
         Inside, Holding
<1>2. pc[c] \in {"status", "enter", "ensure", "wait"}
      /\ UNCHANGED <<victim, proc, child, launcher, settings>>
      /\ (mine' = [mine EXCEPT ![c] = launcher] \/ (UNCHANGED mine /\ pc[c] # "enter"))
      /\ then' \in [Calls -> {"replace", "leave"}]
  BY DEF Status, Enter, Ensure, WaitUntilReady, Inner, client, At, LauncherOnly
<1>3. TypeOK'
  <2>1. mine' \in [Calls -> Launchers] /\ pc' \in [Calls -> Locations]
    BY <1>1, <1>2, MovesKeepsLock
  <2>2. {raced, left}' \subseteq BOOLEAN
    BY <1>1 DEF Moves
  <2> QED BY <1>1, <1>2, <2>1, <2>2 DEF TypeOK, Moves
<1>4. ASSUME Supervised'
      PROVE  LeftBy(c)' /\ \A p \in Calls : child'[p] \in Live => proc'[launcher'] = p
  <2>1. Supervised
    BY <1>1, <1>4, MovesKeepsLock
  <2>2. LeftBy(c) /\ \A p \in Calls : child[p] \in Live => proc[launcher] = p
    BY <1>2, <2>1, InsideFinds DEF Inside
  <2>3. label = "spawn" => NoneLive
    <3> SUFFICES ASSUME label = "spawn" PROVE NoneLive
      OBVIOUS
    <3>1. mine[c] = launcher /\ ~Alive(proc[launcher])
      BY <1>1, <2>2 DEF Ensure, At, LeftBy, Inside, Running
    <3> QED BY <2>2, <3>1 DEF Alive, NoneLive
  <2>4. pc'[c] = label /\ mine'[c] = launcher
    BY <1>1, <1>2, <2>2 DEF Moves, LeftBy, Inside
  <2> QED BY <1>2, <2>2, <2>3, <2>4 DEF LeftBy, NoneLive
<1> QED BY <1>1, <1>2, <1>3, <1>4, InsideKeepsPInv DEF Inside

\* A child is spawned when none is alive, as the process of the client's launcher.
LEMMA SpawnKeepsPInv ==
  ASSUME PInv, NEW c \in Calls, Spawn(c)
  PROVE  PInv'
<1> USE Types
<1>1. PICK label \in {"wait", "leave"} : Moves(c, label)
  BY DEF Spawn, Goto, At, Moves, Inner, client, flags, LauncherOnly, Inside, Holding
<1>2. pc[c] = "spawn" /\ UNCHANGED <<victim, mine, then, launcher, settings>>
  BY DEF Spawn, At, Inner, client, LauncherOnly
<1>3. \/ proc' = [proc EXCEPT ![mine[c]] = c] /\ child' = [child EXCEPT ![c] = "starting"]
      \/ UNCHANGED <<proc, child>>
  BY DEF Spawn
<1>4. TypeOK'
  <2>1. proc' \in [Launchers -> Calls \cup {None}]
    BY <1>3
  <2>2. child' \in [Calls -> ChildStates]
    BY <1>3 DEF Live, ChildStates
  <2> QED BY <1>1, <1>2, <2>1, <2>2, MovesKeepsLock DEF TypeOK, Moves
<1>5. ASSUME Supervised'
      PROVE  LeftBy(c)' /\ \A p \in Calls : child'[p] \in Live => proc'[launcher'] = p
  <2>1. NoneLive /\ mine[c] = launcher
    BY <1>1, <1>2, <1>5, MovesKeepsLock, InsideFinds DEF Inside, LeftBy
  <2>2. pc'[c] \in {"wait", "leave"}
    BY <1>1 DEF Moves
  <2>3. \A p \in Calls : child'[p] \in Live => proc'[launcher'] = p
    BY <1>2, <1>3, <2>1 DEF NoneLive
  <2> QED BY <1>2, <2>1, <2>2, <2>3 DEF LeftBy
<1> QED BY <1>1, <1>2, <1>4, <1>5, InsideKeepsPInv DEF Inside

LEMMA TakeKeepsPInv ==
  ASSUME PInv, NEW c \in Calls, Take(c)
  PROVE  PInv'
<1> USE Types
<1>1. Moves(c, "clear") /\ pc[c] = "take" /\ UNCHANGED <<proc, child, mine, then, launcher, settings>>
      /\ victim' = [victim EXCEPT ![c] = proc[mine[c]]]
  BY DEF Take, Goto, At, Moves, Inner, client, flags, LauncherOnly, Inside, Holding
<1>2. TypeOK'
  BY <1>1, MovesKeepsLock DEF TypeOK, Moves
<1>3. ASSUME Supervised'
      PROVE  LeftBy(c)' /\ \A p \in Calls : child'[p] \in Live => proc'[launcher'] = p
  <2>1. mine[c] = launcher /\ \A p \in Calls : child[p] \in Live => proc[launcher] = p
    BY <1>1, <1>3, MovesKeepsLock, InsideFinds DEF Inside, LeftBy
  <2>2. pc'[c] = "clear" /\ victim'[c] = proc[launcher]
    BY <1>1, <2>1 DEF Moves
  <2> QED BY <1>1, <2>1, <2>2 DEF LeftBy
<1> QED BY <1>1, <1>2, <1>3, InsideKeepsPInv DEF Inside

LEMMA ClearKeepsPInv ==
  ASSUME PInv, NEW c \in Calls, Clear(c)
  PROVE  PInv'
<1> USE Types
<1>1. Moves(c, "kill") /\ pc[c] = "clear" /\ UNCHANGED <<victim, child, mine, then, launcher, settings>>
      /\ proc' = [proc EXCEPT ![mine[c]] = None]
  BY DEF Clear, Goto, At, Moves, Inner, client, flags, LauncherOnly, Inside, Holding
<1>2. TypeOK'
  BY <1>1, MovesKeepsLock DEF TypeOK, Moves
<1>3. ASSUME Supervised'
      PROVE  LeftBy(c)' /\ \A p \in Calls : child'[p] \in Live => victim'[c] = p
  <2>1. mine[c] = launcher /\ victim[c] = proc[launcher]
        /\ \A p \in Calls : child[p] \in Live => victim[c] = p
    BY <1>1, <1>3, MovesKeepsLock, InsideFinds DEF Inside, LeftBy
  <2>2. pc'[c] = "kill" /\ proc'[launcher] = None
    BY <1>1, <2>1 DEF Moves
  <2> QED BY <1>1, <2>1, <2>2 DEF LeftBy
<1> QED BY <1>1, <1>2, <1>3, InsideKeepsPInv DEF Inside

\* The only child that can be alive is the one that is killed.
LEMMA KillKeepsPInv ==
  ASSUME PInv, NEW c \in Calls, Kill(c) \/ KillTimesOut(c)
  PROVE  PInv'
<1> USE Types
<1>1. PICK label \in {"replace", "leave"} : Moves(c, label)
  BY DEF Kill, KillTimesOut, Goto, At, Moves, Inner, client, flags, LauncherOnly, Inside, Holding
<1>2. pc[c] = "kill" /\ UNCHANGED <<proc, mine, then, launcher, settings>>
      /\ victim' = [victim EXCEPT ![c] = None]
      /\ \/ /\ Alive(victim[c])
            /\ \E s \in {"dying", "dead"} : child' = [child EXCEPT ![victim[c]] = s]
         \/ ~Alive(victim[c]) /\ child' = child
  BY DEF Kill, KillTimesOut, At, Inner, client, LauncherOnly
<1>3. TypeOK'
  BY <1>1, <1>2, MovesKeepsLock DEF TypeOK, Moves, Alive, ChildStates
<1>4. ASSUME Supervised'
      PROVE  LeftBy(c)' /\ \A p \in Calls : child'[p] \notin Live
  <2>1. mine[c] = launcher /\ proc[launcher] = None
        /\ \A p \in Calls : child[p] \in Live => victim[c] = p
    BY <1>1, <1>2, <1>4, MovesKeepsLock, InsideFinds DEF Inside, LeftBy
  <2>2. \A p \in Calls : child'[p] \notin Live
    BY <1>2, <2>1 DEF Alive, Live
  <2>3. pc'[c] = label
    BY <1>1 DEF Moves
  <2> QED BY <1>2, <2>1, <2>2, <2>3 DEF LeftBy, NoneLive
<1> QED BY <1>1, <1>2, <1>3, <1>4, InsideKeepsPInv DEF Inside

-----------------------------------------------------------------------------
(* Entering and leaving, and the children by themselves *)

\* A step that changes no launcher and revives no child, of a call outside.
LEMMA OutsideKeepsChildren ==
  ASSUME PInv, Supervised, UNCHANGED <<launcher, proc>>,
         \A p \in Calls : child'[p] \in Live => child[p] \in Live,
         \A d \in Calls : pc'[d] \in Inside =>
            \/ /\ pc'[d] = pc[d] /\ mine'[d] = mine[d] /\ victim'[d] = victim[d]
            \/ /\ pc'[d] \in {"prepare", "status", "take"} /\ mine'[d] = launcher
               /\ pc[d] \notin Inside,
         \A d \in Calls : pc[d] \in {"clear", "kill"} => pc'[d] = pc[d] /\ victim'[d] = victim[d]
  PROVE  ChildInv'
<1>1. ChildInv
  BY DEF PInv
<1>2. NoneLive => NoneLive'
  BY DEF NoneLive
<1>3. ASSUME NEW d \in Calls PROVE LeftBy(d)'
  BY <1>1, <1>2 DEF ChildInv, LeftBy, Inside
<1> QED BY <1>1, <1>3 DEF ChildInv

LEMMA BeginKeepsPInv ==
  ASSUME PInv, NEW c \in Calls, Begin(c)
  PROVE  PInv'
<1> USE Types
<1>1. pc[c] = "start" /\ pc' = [pc EXCEPT ![c] = "lock"]
      /\ UNCHANGED <<kind, mine, victim, then, lock, settings, launcher, proc, child, raced, left>>
      /\ \A d \in Calls \ {c} : op'[d] = op[d]
  BY DEF Begin, At, Goto, client, flags
<1>2. op' \in [Calls -> Ops] /\ want' \in [Calls -> Settings]
  BY DEF Begin
<1>3. TypeOK'
  <2>1. pc' \in [Calls -> Locations]
    BY <1>1 DEF Locations
  <2>2. {raced, left}' \subseteq BOOLEAN
    BY <1>1
  <2> QED BY <1>1, <1>2, <2>1, <2>2 DEF TypeOK
<1>4. LockInv' /\ (~raced' => Alone')
  BY <1>1 DEF PInv, LockInv, Locks, Alone, Holding, Inside
<1>5. ASSUME Supervised' PROVE ChildInv'
  <2>1. \A d \in Calls : pc'[d] \in Inside \/ pc[d] \in Inside => pc'[d] = pc[d]
    BY <1>1 DEF Inside
  <2>2. Supervised
    BY <1>1, <1>5 DEF Supervised
  <2>3. "clear" \in Inside /\ "kill" \in Inside
    BY DEF Inside
  <2> QED BY <1>1, <2>1, <2>2, <2>3, OutsideKeepsChildren
<1> QED BY <1>3, <1>4, <1>5 DEF PInv

\* A call that goes inside either is alone or sets raced.
LEMMA AcquireKeepsPInv ==
  ASSUME PInv, NEW c \in Calls, Acquire(c)
  PROVE  PInv'
<1> USE Types
<1>1. pc[c] = "lock" /\ Body(c) \in {"prepare", "status", "take"}
      /\ pc' = [pc EXCEPT ![c] = Body(c)] /\ mine' = [mine EXCEPT ![c] = launcher]
      /\ UNCHANGED <<kind, op, want, victim, then, settings, launcher, proc, child, left>>
  BY DEF Acquire, At, Goto, Body
<1>2. (Locks(c) /\ lock = None /\ lock' = c) \/ (~Locks(c) /\ UNCHANGED lock)
  BY DEF Acquire
<1>3. raced' = (raced \/ \E d \in Calls \ {c} : pc[d] \in Inside /\ ~(Locks(c) /\ Locks(d)))
  BY DEF Acquire
<1>4. TypeOK'
  <2>1. raced' \in BOOLEAN /\ lock' \in Calls \cup {None}
    BY <1>2, <1>3
  <2>2. {raced, left}' \subseteq BOOLEAN
    BY <1>1, <2>1
  <2> QED BY <1>1, <2>1, <2>2 DEF TypeOK, Locations, Inside
<1>5. \A d \in Calls : Locks(d)' = Locks(d)
  BY <1>1 DEF Locks
<1>6. LockInv'
  <2>1. ASSUME NEW d \in Calls \ {c}, pc'[d] \in Holding, Locks(d)'
        PROVE  lock' = d
    BY <1>1, <1>2, <1>5, <2>1 DEF PInv, LockInv
  <2>2. Locks(c)' => lock' = c
    BY <1>2, <1>5
  <2> QED BY <2>1, <2>2 DEF LockInv
<1>7. ASSUME ~raced' PROVE Alone'
  <2>1. ~raced /\ \A d \in Calls \ {c} : pc[d] \in Inside => Locks(c) /\ Locks(d)
    BY <1>3, <1>7
  <2>2. \A d \in Calls \ {c} : pc[d] \notin Inside
    BY <1>2, <2>1 DEF PInv, LockInv, Holding
  <2> QED BY <1>1, <2>2 DEF Alone
<1>8. ASSUME Supervised' PROVE ChildInv'
  <2>1. Supervised
    BY <1>1, <1>3, <1>8 DEF Supervised
  <2>2. \A d \in Calls \ {c} : pc'[d] = pc[d] /\ mine'[d] = mine[d] /\ victim'[d] = victim[d]
    BY <1>1
  <2>3. pc'[c] \in {"prepare", "status", "take"} /\ mine'[c] = launcher /\ pc[c] \notin Inside
    BY <1>1 DEF Inside
  <2>4. \A d \in Calls : pc[d] \in {"clear", "kill"} => d # c
    BY <1>1
  <2> QED BY <1>1, <2>1, <2>2, <2>3, <2>4, OutsideKeepsChildren
<1> QED BY <1>4, <1>6, <1>7, <1>8 DEF PInv

LEMMA UseKeepsPInv ==
  ASSUME PInv, NEW c \in Calls, Use(c)
  PROVE  PInv'
<1> USE Types
<1>1. Moves(c, "leave") /\ pc[c] = "use"
      /\ UNCHANGED <<victim, proc, child, mine, then, launcher, settings, left>>
  BY DEF Use, Goto, At, Moves, Inner, client, flags, LauncherOnly, Inside, Holding
<1>2. TypeOK'
  BY <1>1, MovesKeepsLock DEF TypeOK, Moves
<1>3. ASSUME Supervised' PROVE ChildInv'
  <2>1. \A d \in Calls : pc'[d] \in Inside \/ pc[d] \in Inside => pc'[d] = pc[d]
    BY <1>1 DEF Moves, Inside
  <2> QED BY <1>1, <1>3, <2>1, MovesKeepsLock, OutsideKeepsChildren DEF Inside
<1> QED BY <1>1, <1>2, <1>3, MovesKeepsLock DEF PInv

LEMMA LeaveKeepsPInv ==
  ASSUME PInv, NEW c \in Calls, Leave(c)
  PROVE  PInv'
<1> USE Types
<1>1. pc[c] = "leave" /\ pc' = [pc EXCEPT ![c] = "done"]
      /\ lock' = (IF lock = c THEN None ELSE lock)
      /\ UNCHANGED <<kind, victim, settings, launcher, proc, child, raced, left>>
      /\ \A d \in Calls \ {c} : op'[d] = op[d] /\ mine'[d] = mine[d]
  BY DEF Leave, At, Goto, flags
<1>2. TypeOK'
  <2>1. op' \in [Calls -> Ops] /\ want' \in [Calls -> Settings] /\ mine' \in [Calls -> Launchers]
        /\ then' \in [Calls -> {"replace", "leave"}]
    BY FirstAssumption DEF Leave, Ops
  <2> QED BY <1>1, <2>1 DEF TypeOK, Locations
<1>3. LockInv'
  BY <1>1 DEF PInv, LockInv, Locks, Holding, Inside
<1>4. ~raced' => Alone'
  BY <1>1 DEF PInv, Alone, Inside
<1>5. ASSUME Supervised' PROVE ChildInv'
  <2>1. \A d \in Calls : pc'[d] \in Inside \/ pc[d] \in Inside => d # c /\ pc'[d] = pc[d]
    BY <1>1 DEF Inside
  <2> QED BY <1>1, <1>5, <2>1, OutsideKeepsChildren DEF Supervised, Inside
<1> QED BY <1>2, <1>3, <1>4, <1>5 DEF PInv

LEMMA ChildrenKeepPInv ==
  ASSUME PInv, (\E p \in Calls : Serve(p) \/ Crash(p)) \/ UNCHANGED vars
  PROVE  PInv'
<1> USE Types
<1>1. UNCHANGED <<kind, pc, op, want, mine, victim, then, lock, settings, launcher, proc, raced, left>>
  BY DEF Serve, Crash, locals, client, flags, vars
<1>2. child' \in [Calls -> ChildStates]
      /\ \A p \in Calls : child'[p] \in Live => child[p] \in Live
  BY DEF Serve, Crash, Live, ChildStates, vars
<1>3. TypeOK'
  BY <1>1, <1>2 DEF TypeOK
<1>4. LockInv' /\ (~raced' => Alone')
  BY <1>1 DEF PInv, LockInv, Locks, Alone
<1>5. ASSUME Supervised' PROVE ChildInv'
  BY <1>1, <1>2, <1>5, OutsideKeepsChildren DEF Supervised
<1> QED BY <1>3, <1>4, <1>5 DEF PInv

-----------------------------------------------------------------------------
LEMMA NextPInv == PInv /\ [Next]_vars => PInv'
<1> SUFFICES ASSUME PInv, [Next]_vars
             PROVE  PInv'
  OBVIOUS
<1>1. ASSUME NEW c \in Calls, Step(c)
      PROVE  PInv'
  BY <1>1, AcquireKeepsPInv, PrepareKeepsPInv, ReplaceKeepsPInv, LooksKeepPInv, SpawnKeepsPInv,
     UseKeepsPInv, TakeKeepsPInv, ClearKeepsPInv, KillKeepsPInv, LeaveKeepsPInv DEF Step
<1>2. ASSUME NEW c \in Calls, Begin(c)
      PROVE  PInv'
  BY <1>2, BeginKeepsPInv
<1>3. CASE (\E p \in Calls : Serve(p) \/ Crash(p)) \/ UNCHANGED vars
  BY <1>3, ChildrenKeepPInv
<1> QED BY <1>1, <1>2, <1>3 DEF Next

LEMMA SpecPInv == Spec => []PInv
BY InitPInv, NextPInv, PTL DEF Spec

\* A call that comes to use the sidecar has seen somebody answer and its launcher's
\* own process alive; with one child alive these are the same.
LEMMA UseIsOwn ==
  ASSUME PInv, [Next]_vars, Supervised, NEW c \in Calls, pc[c] # "use", pc'[c] = "use"
  PROVE  child[proc[mine'[c]]] = "serving"
<1> USE Types
<1>1. (Enter(c) /\ Ready(launcher)) \/ (WaitUntilReady(c) /\ Ready(mine[c]))
  <2>1. PICK d \in Calls : Begin(d) \/ Step(d) \/ Serve(d) \/ Crash(d)
    BY DEF Next, vars
  <2>2. ~(Serve(d) \/ Crash(d))
    BY <2>1 DEF Serve, Crash
  <2>3. d = c
    BY <2>1, <2>2 DEF Begin, Step, Acquire, Prepare, Replace, Status, Enter, Ensure, Spawn,
           WaitUntilReady, Use, Take, Clear, Kill, KillTimesOut, Leave, Goto
  <2> QED BY <2>1, <2>2, <2>3 DEF Begin, Step, Acquire, Prepare, Replace, Status, Enter, Ensure, Spawn,
           WaitUntilReady, Use, Take, Clear, Kill, KillTimesOut, Leave, Goto, Body
<1>2. mine'[c] \in Launchers /\ Ready(mine'[c])
  BY <1>1 DEF Enter, WaitUntilReady
<1>3. PICK p \in Calls : child[p] = "serving"
  BY <1>2 DEF Ready
<1>4. mine'[c] = launcher /\ pc[c] \in {"enter", "wait"}
  BY <1>1 DEF Enter, WaitUntilReady, At, PInv, Supervised, ChildInv, LeftBy, Inside
<1>5. proc[launcher] = p
  <2>1. \A d \in Calls : pc[d] \notin {"clear", "kill"}
    BY <1>4 DEF PInv, Supervised, Alone, Inside
  <2> QED BY <1>3, <2>1 DEF PInv, Supervised, ChildInv, Live
<1> QED BY <1>3, <1>4, <1>5

-----------------------------------------------------------------------------
\* A client's calls, its launchers and its children are well typed.
THEOREM SidecarProcessTypeOK == Spec => []TypeOK
<1>1. PInv => TypeOK
  BY DEF PInv
<1> QED BY <1>1, SpecPInv, PTL

\* SidecarLauncher.start and stop under one lock never leave a child that the
\* client's launcher does not know and nobody is stopping.
THEOREM NoOrphanTheorem == Spec => []NoOrphan
<1>1. PInv => NoOrphan
  BY DEF PInv, ChildInv, NoOrphan
<1> QED BY <1>1, SpecPInv, PTL

\* A child is spawned only when the one before is gone.
THEOREM OneChildTheorem == Spec => []OneChild
<1>1. PInv => OneChild
  BY LiveIsOne DEF OneChild
<1> QED BY <1>1, SpecPInv, PTL

\* start returns on an answer of the launcher's own process.
THEOREM AnswerIsOwnTheorem == Spec => AnswerIsOwn
<1>1. PInv /\ [Next]_vars =>
        [Supervised => \A c \in Calls : pc[c] # "use" /\ pc'[c] = "use"
                                         => child[proc[mine'[c]]] = "serving"]_vars
  BY UseIsOwn
<1> QED BY <1>1, SpecPInv, PTL DEF Spec, AnswerIsOwn

=============================================================================
