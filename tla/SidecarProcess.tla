--------------------------- MODULE SidecarProcess ---------------------------
(***************************************************************************)
(* One runtime client and the child process it supervises: load, invoke,   *)
(* unload and the stops of cancel and close, called from several threads,  *)
(* and the launcher they go through.                                       *)
(*                                                                         *)
(* The image client runs all of it but close under one lock, the speech    *)
(* client only its invocations, the language client nothing.  The last two *)
(* replace their launcher when its settings change.  All launchers of a    *)
(* client use one port, so whoever serves it answers a health check.  The  *)
(* transcription client is written like the language client.               *)
(***************************************************************************)
EXTENDS FiniteSets

CONSTANTS
  First,     \* the settings the client starts with
  Calls,     \* one thread each; a call spawns at most one child, which has its name
  Settings,  \* launcher settings
  Kinds,     \* of the client: "art", "tts" or "llm"
  Callers,   \* bound: the calls a client of each kind gets
  Base,      \* the launcher the client starts with
  None       \* no process, no holder

ASSUME KindsAssumption == Kinds \subseteq {"art", "tts", "llm"}
ASSUME CallersAssumption == Callers \in [Kinds -> SUBSET Calls]
ASSUME FirstAssumption == First \in Settings
ASSUME NamesAssumption == {Base, None} \cap Calls = {} /\ Base # None

Launchers == Calls \cup {Base}   \* a launcher has the name of the call that made it

VARIABLES
  kind,      \* the kind of this client
  pc,        \* where each call stands
  op,        \* what it was called for
  want,      \* the settings it needs
  mine,      \* the launcher whose start or stop it is in
  victim,    \* the process its stop has taken
  then,      \* where its stop returns to
  lock,      \* _invoke_lock
  settings,  \* the client's _settings
  launcher,  \* the client's _launcher
  proc,      \* each launcher's _process
  child,     \* the children themselves
  raced,     \* calls that do not lock were inside together with another one
  left       \* a launcher was replaced without being stopped

client == <<lock, settings, launcher>>
flags == <<raced, left>>
locals == <<op, want, mine, victim, then>>
vars == <<kind, pc, locals, client, proc, child, flags>>

Ops == {"load", "invoke", "unload", "stop"}
\* Inside the launcher or about to replace it.
Inside == {"prepare", "status", "take", "clear", "kill", "replace", "enter",
           "ensure", "spawn", "wait"}
Locations == Inside \cup {"start", "lock", "use", "leave", "done"}
Live == {"starting", "serving"}
\* "dying": killed, and not gone when its stop stopped waiting.
ChildStates == Live \cup {"unborn", "dying", "dead"}

TypeOK ==
  /\ kind \in Kinds
  /\ pc \in [Calls -> Locations]
  /\ op \in [Calls -> Ops]
  /\ want \in [Calls -> Settings]
  /\ mine \in [Calls -> Launchers]
  /\ victim \in [Calls -> Calls \cup {None}]
  /\ then \in [Calls -> {"replace", "leave"}]
  /\ lock \in Calls \cup {None}
  /\ settings \in Settings
  /\ launcher \in Launchers
  /\ proc \in [Launchers -> Calls \cup {None}]
  /\ child \in [Calls -> ChildStates]
  /\ {raced, left} \subseteq BOOLEAN

Init ==
  /\ kind \in Kinds
  /\ settings = First
  /\ pc = [c \in Calls |-> "start"]
  /\ op = [c \in Calls |-> "load"]
  /\ want = [c \in Calls |-> First]
  /\ mine = [c \in Calls |-> Base]
  /\ victim = [c \in Calls |-> None]
  /\ then = [c \in Calls |-> "leave"]
  /\ lock = None
  /\ launcher = Base
  /\ proc = [l \in Launchers |-> None]
  /\ child = [c \in Calls |-> "unborn"]
  /\ raced = FALSE /\ left = FALSE

At(c, label) == pc[c] = label
Goto(c, label) == pc' = [pc EXCEPT ![c] = label]

Alive(p) == p # None /\ child[p] \in Live \cup {"dying"}
\* is_running, and is_ready: the launcher's own process is alive, and somebody
\* answers on the port.
Running(l) == Alive(proc[l])
Ready(l) == Running(l) /\ \E p \in Calls : child[p] = "serving"

Locks(c) == \/ kind = "art" /\ op[c] # "stop"
            \/ kind = "tts" /\ op[c] = "invoke"
Starts(c) == op[c] \in {"load", "invoke"}

-----------------------------------------------------------------------------
(* A call up to its first look at the launcher *)

\* Where the body of the call begins: what the image client does on unload depends
\* on the launcher's health; every other unload, cancel and close is a stop.
Body(c) == IF Starts(c) THEN "prepare"
            ELSE IF kind = "art" /\ op[c] = "unload" THEN "status" ELSE "take"

Begin(c) ==
  /\ At(c, "start") /\ c \in Callers[kind]
  /\ \E o \in Ops, s \in Settings :
       /\ op' = [op EXCEPT ![c] = o]
       /\ want' = [want EXCEPT ![c] = s]
  /\ Goto(c, "lock")
  /\ UNCHANGED <<kind, mine, victim, then, client, proc, child, flags>>

\* Mutant: an image request does not take the lock.
AcquireUnlocked(c) ==
  /\ At(c, "lock")
  /\ raced' = (raced \/ (~Locks(c) /\ \E d \in Calls \ {c} : pc[d] \in Inside))
  /\ mine' = [mine EXCEPT ![c] = launcher]
  /\ Goto(c, Body(c))
  /\ UNCHANGED <<kind, op, want, victim, then, client, proc, child, left>>

Acquire(c) ==
  /\ At(c, "lock")
  /\ IF Locks(c) THEN lock = None /\ lock' = c ELSE UNCHANGED lock
  /\ raced' = (raced \/ \E d \in Calls \ {c} :
                          pc[d] \in Inside /\ ~(Locks(c) /\ Locks(d)))
  /\ mine' = [mine EXCEPT ![c] = launcher]
  /\ Goto(c, Body(c))
  /\ UNCHANGED <<kind, op, want, victim, then, settings, launcher, proc, child,
                 left>>

Inner(c) == UNCHANGED <<kind, op, want, client>>

\* The image client compares launcher settings without what a request changes, so it
\* keeps its launcher; the language client's load always makes a new one.
Changes(c) == \/ kind # "art" /\ want[c] # settings
              \/ kind = "llm" /\ op[c] = "load"

\* Mutant: no client stops the launcher it replaces.
StopsNever(c) == FALSE

\* The language client replaces the launcher of an invocation as it is.
StopsOld(c) == kind = "tts" \/ op[c] = "load"

\* _prepare_launcher, _ensure_launcher.
Prepare(c) ==
  /\ At(c, "prepare")
  /\ \/ ~Changes(c) /\ Goto(c, "enter") /\ UNCHANGED <<then, left>>
     \/ /\ Changes(c) /\ StopsOld(c)
        /\ then' = [then EXCEPT ![c] = "replace"]
        /\ Goto(c, "take")
        /\ UNCHANGED left
     \/ /\ Changes(c) /\ ~StopsOld(c)
        /\ left' = (left \/ kind = "llm")
        /\ Goto(c, "replace")
        /\ UNCHANGED then
  /\ mine' = [mine EXCEPT ![c] = launcher]
  /\ UNCHANGED <<victim, proc, child, raced>>
  /\ Inner(c)

\* Mutant: drops the launcher and makes none.
ReplaceDrops(c) ==
  /\ At(c, "replace")
  /\ settings' = want[c]
  /\ launcher' = None
  /\ Goto(c, "enter")
  /\ UNCHANGED <<kind, locals, lock, proc, child, flags>>

\* The client gets the new settings and a new launcher.
Replace(c) ==
  /\ At(c, "replace")
  /\ settings' = want[c]
  /\ launcher' = c
  /\ Goto(c, "enter")
  /\ UNCHANGED <<kind, locals, lock, proc, child, flags>>

\* The image client's unload: stops at once when it is to release the process or the
\* launcher is not ready, asks a ready sidecar, and stops when that fails.
Status(c) ==
  /\ At(c, "status")
  /\ \/ Goto(c, "take")
     \/ (Ready(launcher) \/ proc[launcher] = None) /\ Goto(c, "leave")
  /\ then' = [then EXCEPT ![c] = "leave"]
  /\ mine' = [mine EXCEPT ![c] = launcher]
  /\ UNCHANGED <<victim, proc, child, flags>>
  /\ Inner(c)

-----------------------------------------------------------------------------
(* SidecarLauncher.start *)

Enter(c) ==
  /\ At(c, "enter")
  /\ mine' = [mine EXCEPT ![c] = launcher]
  /\ Goto(c, IF Ready(launcher) THEN "use" ELSE "ensure")
  /\ UNCHANGED <<victim, then, proc, child, flags>>
  /\ Inner(c)

LauncherOnly == UNCHANGED <<mine, then, flags>>

Ensure(c) ==
  /\ At(c, "ensure")
  /\ Goto(c, IF Running(mine[c]) THEN "wait" ELSE "spawn")
  /\ UNCHANGED <<victim, proc, child>>
  /\ LauncherOnly
  /\ Inner(c)

\* Mutant: a launcher that could not start its process keeps the lock.
SpawnKeepsLock(c) ==
  /\ At(c, "spawn")
  /\ \/ /\ proc' = [proc EXCEPT ![mine[c]] = c]
        /\ child' = [child EXCEPT ![c] = "starting"]
        /\ Goto(c, "wait")
     \/ Goto(c, "done") /\ UNCHANGED <<proc, child>>
  /\ UNCHANGED victim
  /\ LauncherOnly
  /\ Inner(c)

Spawn(c) ==
  /\ At(c, "spawn")
  /\ \/ /\ proc' = [proc EXCEPT ![mine[c]] = c]
        /\ child' = [child EXCEPT ![c] = "starting"]
        /\ Goto(c, "wait")
     \/ Goto(c, "leave") /\ UNCHANGED <<proc, child>>
  /\ UNCHANGED victim
  /\ LauncherOnly
  /\ Inner(c)

\* _wait_until_ready polls: ready, exited, or out of time, which stops the process.
WaitUntilReady(c) ==
  /\ At(c, "wait")
  /\ \/ Ready(mine[c]) /\ Goto(c, "use") /\ UNCHANGED then
     \/ /\ proc[mine[c]] # None /\ ~Running(mine[c])
        /\ Goto(c, "leave")
        /\ UNCHANGED then
     \/ then' = [then EXCEPT ![c] = "leave"] /\ Goto(c, "take")
  /\ UNCHANGED <<mine, victim, proc, child, flags>>
  /\ Inner(c)

\* The request to the sidecar, however it ends.
Use(c) ==
  /\ At(c, "use")
  /\ Goto(c, "leave")
  /\ UNCHANGED <<victim, proc, child>>
  /\ LauncherOnly
  /\ Inner(c)

-----------------------------------------------------------------------------
(* SidecarLauncher.stop *)

Take(c) ==
  /\ At(c, "take")
  /\ victim' = [victim EXCEPT ![c] = proc[mine[c]]]
  /\ Goto(c, "clear")
  /\ UNCHANGED <<proc, child>>
  /\ LauncherOnly
  /\ Inner(c)

Clear(c) ==
  /\ At(c, "clear")
  /\ proc' = [proc EXCEPT ![mine[c]] = None]
  /\ Goto(c, "kill")
  /\ UNCHANGED <<victim, child>>
  /\ LauncherOnly
  /\ Inner(c)

\* Mutant: does not wait for the process to end.
KillNoWait(c) ==
  /\ At(c, "kill")
  /\ victim' = [victim EXCEPT ![c] = None]
  /\ Goto(c, then[c])
  /\ UNCHANGED <<proc, child>>
  /\ LauncherOnly
  /\ Inner(c)

\* terminate, wait, and kill when that takes too long.
Kill(c) ==
  /\ At(c, "kill")
  /\ child' = IF Alive(victim[c]) THEN [child EXCEPT ![victim[c]] = "dead"] ELSE child
  /\ victim' = [victim EXCEPT ![c] = None]
  /\ Goto(c, then[c])
  /\ UNCHANGED proc
  /\ LauncherOnly
  /\ Inner(c)

\* The second wait times out as well and raises out of stop, whatever was to follow.
KillTimesOut(c) ==
  /\ At(c, "kill")
  /\ Alive(victim[c])
  /\ child' = [child EXCEPT ![victim[c]] = "dying"]
  /\ victim' = [victim EXCEPT ![c] = None]
  /\ Goto(c, "leave")
  /\ UNCHANGED proc
  /\ LauncherOnly
  /\ Inner(c)

Leave(c) ==
  /\ At(c, "leave")
  /\ lock' = IF lock = c THEN None ELSE lock
  /\ Goto(c, "done")
  /\ op' = [op EXCEPT ![c] = "load"]
  /\ want' = [want EXCEPT ![c] = First]
  /\ mine' = [mine EXCEPT ![c] = Base]
  /\ then' = [then EXCEPT ![c] = "leave"]
  /\ UNCHANGED <<kind, victim, settings, launcher, proc, child, flags>>

-----------------------------------------------------------------------------
(* The children, outside this program *)

\* Binds the port and answers, or ends because another child has the port.
Serve(p) ==
  /\ child[p] = "starting"
  /\ child' = [child EXCEPT ![p] = IF \E q \in Calls : child[q] \in {"serving", "dying"}
                                   THEN "dead" ELSE "serving"]
  /\ UNCHANGED <<kind, pc, locals, client, proc, flags>>

\* Crashes, or is gone at last.
Crash(p) ==
  /\ child[p] \in Live \cup {"dying"}
  /\ child' = [child EXCEPT ![p] = "dead"]
  /\ UNCHANGED <<kind, pc, locals, client, proc, flags>>

-----------------------------------------------------------------------------
Step(c) ==
  \/ Acquire(c) \/ Prepare(c) \/ Replace(c) \/ Status(c) \/ Enter(c) \/ Ensure(c)
  \/ Spawn(c) \/ WaitUntilReady(c) \/ Use(c) \/ Take(c) \/ Clear(c) \/ Kill(c)
  \/ KillTimesOut(c) \/ Leave(c)

Next == \E c \in Calls : Begin(c) \/ Step(c) \/ Serve(c) \/ Crash(c)

\* Threads run: every request to a sidecar and every wait has a timeout.  A call is
\* finite, so fairness of all of them together is enough.  Nothing is assumed of
\* callers and children.
Fairness == WF_vars(\E c \in Calls : Step(c))

Spec == Init /\ [][Next]_vars /\ Fairness

-----------------------------------------------------------------------------
(* Properties *)

Supervised == ~raced /\ ~left

\* Every live child belongs to the client's launcher or is being stopped, over
\* crashes, time-outs, failed starts and changes of settings: what is launched is
\* never left running with nobody to stop it, unless it was killed and does not go
\* ("Own the lifecycle of one dedicated art daemon process", sidecar_art_launcher.py:80).
NoOrphan ==
  Supervised =>
    \A p \in Calls : child[p] \in Live =>
      \/ proc[launcher] = p
      \/ \E c \in Calls : pc[c] \in {"clear", "kill"} /\ victim[c] = p

\* Two models are never in memory for one client: a new child is spawned only when
\* the one before is gone, or was killed and does not go.
OneChild ==
  Supervised => \A p, q \in Calls : {child[p], child[q]} \subseteq Live => p = q

\* start returns because the launcher's own process answers, not because of one that
\* was left on the port.
AnswerIsOwn ==
  [][Supervised =>
       \A c \in Calls : pc[c] # "use" /\ pc'[c] = "use"
                        => child[proc[mine'[c]]] = "serving"]_vars

\* Every call returns, whatever becomes of the child: no error path keeps the lock.
CallsReturn == <>[](\A c \in Calls : pc[c] \in {"start", "done"})
=============================================================================
