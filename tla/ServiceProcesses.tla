-------------------------- MODULE ServiceProcesses --------------------------
(***************************************************************************)
(* Services and their processes: the service registry                      *)
(* (server/pkg/registry/service_registry.go), the process manager          *)
(* (server/pkg/process/manager.go) and the operators who use both, through *)
(* the admin API and the Telegram bot, at the same time.                   *)
(*                                                                         *)
(* An operation of the registry, with the transaction that saves it, holds *)
(* the registry's lock, so it is one step: a crash in the middle of it     *)
(* takes the memory away and so looks like one before or after it.  An     *)
(* operation of the process manager holds the manager's lock, but enters   *)
(* and leaves the registry's, so a start is two steps.                     *)
(*                                                                         *)
(* A service's identifier may have spaces around it.  The registry and the *)
(* transaction that saves a service keep them, the one that deletes it     *)
(* trims them (SQLiteRegistryStore.DeleteService).                         *)
(*                                                                         *)
(* Left out: descriptions and arguments of services, their status, logs.   *)
(***************************************************************************)
EXTENDS Naturals

CONSTANTS Services,           \* the identifiers of services
          Trimmed,            \* each without the spaces around it, if there are any
          Slugs,
          Operators, Admin,   \* Admin is the operator who may change the registry
          ConfigSlug,         \* the services in the configuration, with their slugs
          Executables,        \* bound: the kinds of executable each service may have
          Unvalidated,        \* bound: the services that may get an invalid address
          Pids,               \* process numbers of the operating system
          MaxStarts,          \* bound: instances of services
          MaxCrashes          \* bound: crashes of the server

ASSUME OperatorsAssumption == Admin \in Operators
ASSUME ConfigAssumption ==
  /\ DOMAIN ConfigSlug \subseteq Services
  /\ \A s \in DOMAIN ConfigSlug : ConfigSlug[s] \in Slugs
  /\ \A s, t \in DOMAIN ConfigSlug : ConfigSlug[s] = ConfigSlug[t] => s = t
ASSUME TrimmedAssumption ==
  \A s \in Services : Trimmed[s] \in Services => Trimmed[Trimmed[s]] = Trimmed[s]
ASSUME ExecutablesAssumption ==
  \A s \in Services : Executables[s] \subseteq {"none", "program", "simulated"}
ASSUME NamesAssumption == "none" \notin Services \cup Slugs \cup Pids
ASSUME BoundsAssumption == MaxStarts \in Nat /\ MaxCrashes \in Nat

VARIABLES
  server,        \* the server's process: down, bootstrapping, up
  crashes, file, \* how often it crashed; whether the state file exists
  disk, byID,    \* each service's definition in SQLite and in the registry
  bySlug,        \* the registry's index of slugs
  runtime,       \* the ProcessState and ProcessPID of each service in the registry
  processes,     \* ProcessManager.processes, each service's last instance
  starts, child, \* the instances in the order of their birth, with their child processes
  op,            \* where each operator is in a call, and for which service
  deleted        \* history: services deleted and not registered since

boot == <<server, crashes, file>>
registry == <<disk, byID, bySlug, deleted>>
children == <<starts, child>>
vars == <<boot, registry, runtime, processes, children, op>>

-----------------------------------------------------------------------------

\* `valid`: Restore accepts the definition.  `exe`: no executable, a program, or the
\* ":mock" and "sim:" paths, for which StartService only pretends.
Definitions == [slug : Slugs, valid : BOOLEAN, exe : {"none", "program", "simulated"}]
NoDef == [slug |-> "none", valid |-> FALSE, exe |-> "none"]
Registered(s) == byID[s] # NoDef

States == {"STOPPED", "RUNNING", "CRASHED"}
Stopped == [state |-> "STOPPED", pid |-> "none"]
NoInstance == [state |-> "NONE", n |-> 0]

\* A child is running, a zombie whose exit nobody waited for, or reaped; a simulated
\* instance has none, only a number.  Its waiter is the goroutine of waitForProcess:
\* not started, in Wait, about to take the lock, done, or lost with an earlier life of
\* the server.
Children == [svc : Services, pid : Pids, os : {"running", "zombie", "reaped", "simulated"},
             waiter : {"none", "waiting", "noticing", "done", "lost"},
             killed : BOOLEAN]
Born == 1 .. starts

\* The operating system gives out a number that no child has any more.
PidFree(p) == \A n \in Born : child[n].pid = p => child[n].os \in {"reaped", "simulated"}

\* An operator between two calls, between the halves of a restart or a deletion, or
\* with a child that is not recorded yet, holding the lock.
NoCall == [at |-> "idle", svc |-> "none"]
Calls == [at : {"toStart", "spawned", "toUnregister"}, svc : Services] \cup {NoCall}

\* The lock of the process manager is free.
Unlocked == \A o \in Operators : op[o].at # "spawned"

IsRunning(s) == processes[s].state = "RUNNING"
RunningPid(s) == child[processes[s].n].pid

Init ==
  /\ server = "down" /\ crashes = 0 /\ file = FALSE
  /\ disk = [s \in Services |-> NoDef] /\ byID = disk
  /\ bySlug = [x \in Slugs |-> "none"]
  /\ runtime = [s \in Services |-> Stopped]
  /\ processes = [s \in Services |-> NoInstance]
  /\ starts = 0 /\ child = <<>>
  /\ op = [o \in Operators |-> NoCall]
  /\ deleted = {}

-----------------------------------------------------------------------------
\* Start-up: main.

\* Mutant of CreateState: any empty registry is filled from the configuration.
CreateWhenEmpty ==
  /\ server = "down"
  /\ \A s \in Services : disk[s] = NoDef
  /\ server' = "bootstrapping" /\ file' = TRUE
  /\ UNCHANGED <<crashes, registry, runtime, processes, children, op>>

\* A file that did not exist is created, and its services come from the
\* configuration.
CreateState ==
  /\ server = "down" /\ ~file
  /\ server' = "bootstrapping" /\ file' = TRUE
  /\ UNCHANGED <<crashes, registry, runtime, processes, children, op>>

\* Restore: one definition that does not validate stops the start-up, and so do two
\* with one slug.
Restore ==
  /\ server = "down" /\ file
  /\ \A s \in Services : disk[s] # NoDef => disk[s].valid
  /\ \A s, t \in Services :
       disk[s] # NoDef /\ disk[t] # NoDef /\ disk[s].slug = disk[t].slug => s = t
  /\ server' = "up"
  /\ byID' = disk
  /\ bySlug' = [x \in Slugs |-> IF \E s \in Services : disk[s] # NoDef /\ disk[s].slug = x
                                THEN CHOOSE s \in Services : disk[s] # NoDef /\ disk[s].slug = x
                                ELSE "none"]
  /\ UNCHANGED <<crashes, file, disk, deleted, runtime, processes, children, op>>

\* A definition is saved and installed under both keys.
Install(s, d) ==
  /\ disk' = [disk EXCEPT ![s] = d]
  /\ byID' = [byID EXCEPT ![s] = d]

Add(s, slug) ==
  /\ ~Registered(s) /\ bySlug[slug] = "none"
  /\ \E exe \in Executables[s] : Install(s, [slug |-> slug, valid |-> TRUE, exe |-> exe])
  /\ bySlug' = [bySlug EXCEPT ![slug] = s]
  /\ runtime' = [runtime EXCEPT ![s] = Stopped]

\* ApplyToRegistries, one service at a time.
BootstrapService(s) ==
  /\ server = "bootstrapping"
  /\ Add(s, ConfigSlug[s])
  /\ UNCHANGED <<boot, processes, children, op, deleted>>

\* ensureConfiguredServicesPresent
BootstrapDone ==
  /\ server = "bootstrapping"
  /\ \A s \in DOMAIN ConfigSlug : Registered(s)
  /\ server' = "up"
  /\ UNCHANGED <<crashes, file, registry, runtime, processes, children, op>>

\* The server dies, or fails to start.  Its children live on without it.
Crash ==
  /\ server # "down"
  /\ crashes < MaxCrashes
  /\ crashes' = crashes + 1
  /\ server' = "down"
  /\ byID' = [s \in Services |-> NoDef] /\ bySlug' = [x \in Slugs |-> "none"]
  /\ runtime' = [s \in Services |-> Stopped]
  /\ processes' = [s \in Services |-> NoInstance]
  /\ child' = [n \in Born |->
                [child[n] EXCEPT !.waiter = "lost",
                                 !.os = IF @ = "zombie" THEN "reaped" ELSE @]]
  /\ op' = [o \in Operators |-> NoCall]
  /\ UNCHANGED <<file, disk, deleted, starts>>

-----------------------------------------------------------------------------
\* The registry's operations, by an operator between two calls.  One that fails to
\* save changes nothing.

Idle(o) == server = "up" /\ op[o] = NoCall

Register(s, slug) ==
  /\ Idle(Admin)
  /\ Add(s, slug)
  /\ deleted' = deleted \ {s}
  /\ UNCHANGED <<boot, processes, children, op>>

\* Port, executable and arguments: the new upstream address is not validated.
UpdateExecutable(o, s) ==
  /\ Idle(o) /\ Registered(s)
  /\ \E v \in {TRUE, s \notin Unvalidated}, exe \in Executables[s] :
       Install(s, [byID[s] EXCEPT !.valid = v, !.exe = exe])
  /\ UNCHANGED <<boot, bySlug, deleted, runtime, processes, children, op>>

UpdateRoute(s) ==
  /\ Idle(Admin) /\ Registered(s)
  /\ Install(s, [byID[s] EXCEPT !.valid = TRUE])
  /\ UNCHANGED <<boot, bySlug, deleted, runtime, processes, children, op>>

\* Mutant of UpdateFull: the old slug still leads to the service.
UpdateFullKeepsSlug(s, slug) ==
  /\ Idle(Admin) /\ Registered(s)
  /\ bySlug[slug] \in {"none", s}
  /\ \E exe \in Executables[s] : Install(s, [slug |-> slug, valid |-> TRUE, exe |-> exe])
  /\ bySlug' = [bySlug EXCEPT ![slug] = s]
  /\ UNCHANGED <<boot, deleted, runtime, processes, children, op>>

UpdateFull(s, slug) ==
  /\ Idle(Admin) /\ Registered(s)
  /\ bySlug[slug] \in {"none", s}
  /\ \E exe \in Executables[s] : Install(s, [slug |-> slug, valid |-> TRUE, exe |-> exe])
  /\ bySlug' = [bySlug EXCEPT ![byID[s].slug] = "none", ![slug] = s]
  /\ UNCHANGED <<boot, deleted, runtime, processes, children, op>>

-----------------------------------------------------------------------------
\* The process manager.

Continue(o, s, at) == op' = [op EXCEPT ![o] = [at |-> at, svc |-> s]]
Return(o) == op' = [op EXCEPT ![o] = NoCall]

\* An operator starts a service, or is between the halves of a restart.
MayStart(o, s) ==
  /\ Unlocked
  /\ \/ Idle(o)
     \/ op[o] = [at |-> "toStart", svc |-> s]

UpdateProcessRuntime(s, state, pid) ==
  runtime' = IF Registered(s)
             THEN [runtime EXCEPT ![s] = [state |-> state, pid |-> pid]] ELSE runtime

Startable(s) == Registered(s) /\ byID[s].exe # "none" /\ ~IsRunning(s)

StartRefused(o) ==
  /\ Unlocked
  /\ op[o].at = "toStart" /\ ~Startable(op[o].svc)
  /\ Return(o)
  /\ UNCHANGED <<boot, registry, runtime, processes, children>>

\* The program cannot be run.
StartFails(o, s) ==
  /\ MayStart(o, s) /\ Startable(s) /\ byID[s].exe = "program"
  /\ UpdateProcessRuntime(s, "STOPPED", "none")
  /\ Return(o)
  /\ UNCHANGED <<boot, registry, processes, children>>

\* The child runs, or nothing but a number that is made up (mockPIDSeq) and may be a
\* child's; the registry does not know yet and may lose the service.
StartSpawns(o, s) ==
  /\ MayStart(o, s) /\ Startable(s)
  /\ starts < MaxStarts
  /\ starts' = starts + 1
  /\ \E p \in Pids, os \in {"running", "simulated"} :
       /\ IF byID[s].exe = "program" THEN os = "running" /\ PidFree(p) ELSE os = "simulated"
       /\ child' = [n \in 1 .. starts' |->
                     IF n = starts'
                     THEN [svc |-> s, pid |-> p, os |-> os, waiter |-> "none",
                           killed |-> FALSE]
                     ELSE child[n]]
  /\ Continue(o, s, "spawned")
  /\ UNCHANGED <<boot, registry, runtime, processes>>

\* Mutant of StartRecorded: nobody waits for the child.
StartUnwatched(o) ==
  /\ op[o].at = "spawned" /\ Registered(op[o].svc)
  /\ UpdateProcessRuntime(op[o].svc, "RUNNING", child[starts].pid)
  /\ processes' = [processes EXCEPT ![op[o].svc] = [state |-> "RUNNING", n |-> starts]]
  /\ Return(o)
  /\ UNCHANGED <<boot, registry, children>>

\* Nobody waits for a simulated instance: cmd is nil.
StartRecorded(o) ==
  /\ op[o].at = "spawned" /\ Registered(op[o].svc)
  /\ UpdateProcessRuntime(op[o].svc, "RUNNING", child[starts].pid)
  /\ processes' = [processes EXCEPT ![op[o].svc] = [state |-> "RUNNING", n |-> starts]]
  /\ child' = [child EXCEPT ![starts].waiter =
                  IF child[starts].os = "simulated" THEN "none" ELSE "waiting"]
  /\ Return(o)
  /\ UNCHANGED <<boot, registry, starts>>

\* The child, if there is one, is killed.
Killed(c) == [c EXCEPT !.killed = (c.os # "simulated")]

\* The service was deleted meanwhile: the child is killed and never waited for.
StartUnrecorded(o) ==
  /\ op[o].at = "spawned" /\ ~Registered(op[o].svc)
  /\ child' = [child EXCEPT ![starts] = Killed(@)]
  /\ Return(o)
  /\ UNCHANGED <<boot, registry, runtime, processes, starts>>

\* StopService; its error when nothing runs is ignored or told to the operator.
StopProcess(s) ==
  IF IsRunning(s)
  THEN /\ child' = [child EXCEPT ![processes[s].n] = Killed(@)]
       /\ processes' = [processes EXCEPT ![s].state = "STOPPED"]
       /\ UpdateProcessRuntime(s, "STOPPED", "none")
  ELSE UNCHANGED <<processes, runtime, child>>

\* A stop, or the first half of a restart or of a deletion.
StopService(o, s, then) ==
  /\ Idle(o) /\ Unlocked
  /\ then = "toUnregister" => o = Admin
  /\ StopProcess(s)
  /\ IF then = "return" THEN Return(o) ELSE Continue(o, s, then)
  /\ UNCHANGED <<boot, registry, starts>>

\* The service leaves memory, and the record of its trimmed identifier the disk: its
\* own, another service's or none at all.
Forget(s) ==
  /\ disk' = [t \in Services |-> IF t = Trimmed[s] THEN NoDef ELSE disk[t]]
  /\ byID' = [byID EXCEPT ![s] = NoDef]
  /\ bySlug' = [bySlug EXCEPT ![byID[s].slug] = "none"]
  /\ runtime' = [runtime EXCEPT ![s] = Stopped]
  /\ deleted' = deleted \cup {s}

Unregister(o) ==
  /\ op[o].at = "toUnregister" /\ Registered(op[o].svc)
  /\ Forget(op[o].svc)
  /\ Return(o)
  /\ UNCHANGED <<boot, processes, children>>

\* The service is not registered, or the deletion could not be saved.
UnregisterFails(o) ==
  /\ op[o].at = "toUnregister"
  /\ Return(o)
  /\ UNCHANGED <<boot, registry, runtime, processes, children>>

-----------------------------------------------------------------------------
\* Child processes and the goroutines that wait for them.

ChildExits(n) ==
  /\ child[n].os = "running"
  /\ child' = [child EXCEPT ![n].os =
                IF child[n].waiter = "lost" THEN "reaped" ELSE "zombie"]
  /\ UNCHANGED <<boot, registry, runtime, processes, starts, op>>

\* Wait reaps the child, whose number is free from now on.
WaitReturns(n) ==
  /\ child[n].waiter = "waiting" /\ child[n].os = "zombie"
  /\ child' = [child EXCEPT ![n].waiter = "noticing", ![n].os = "reaped"]
  /\ UNCHANGED <<boot, registry, runtime, processes, starts, op>>

\* Mutant of IsExitOf: any exit of the service's children ends its instance.
IsExitOfAny(n, s) == IsRunning(s)

\* Mutant of IsExitOf: compares with the number the instance had before a stop.
IsExitOfStopped(n, s) == processes[s].n # 0 /\ RunningPid(s) = child[n].pid

IsExitOf(n, s) == IsRunning(s) /\ RunningPid(s) = child[n].pid

\* Mutant of NoticeExit: the registry is not told.
NoticeExitSilently(n) ==
  /\ Unlocked
  /\ child[n].waiter = "noticing"
  /\ LET s == child[n].svc IN
       IF IsExitOf(n, s)
       THEN processes' = [processes EXCEPT ![s].state = "STOPPED"]
       ELSE UNCHANGED processes
  /\ child' = [child EXCEPT ![n].waiter = "done"]
  /\ UNCHANGED <<boot, registry, runtime, starts, op>>

\* The second half of waitForProcess; how the child ended decides the state.
NoticeExit(n) ==
  /\ Unlocked
  /\ child[n].waiter = "noticing"
  /\ LET s == child[n].svc IN
       IF IsExitOf(n, s)
       THEN \E end \in {"STOPPED", "CRASHED"} :
              /\ processes' = [processes EXCEPT ![s].state = end]
              /\ UpdateProcessRuntime(s, end, "none")
       ELSE UNCHANGED <<processes, runtime>>
  /\ child' = [child EXCEPT ![n].waiter = "done"]
  /\ UNCHANGED <<boot, registry, starts, op>>

-----------------------------------------------------------------------------

Boot ==
  \/ CreateState \/ Restore \/ BootstrapDone
  \/ \E s \in DOMAIN ConfigSlug : BootstrapService(s)

Edit ==
  \E s \in Services :
    \/ UpdateRoute(s)
    \/ \E slug \in Slugs : Register(s, slug) \/ UpdateFull(s, slug)
    \/ \E o \in Operators : UpdateExecutable(o, s)

\* The calls an operator has begun.
Goes(o) == \/ StartRefused(o) \/ StartRecorded(o) \/ StartUnrecorded(o)
           \/ Unregister(o) \/ UnregisterFails(o)

Manage ==
  \E o \in Operators :
    \/ Goes(o)
    \/ \E s \in Services :
         \/ StartFails(o, s) \/ StartSpawns(o, s)
         \/ \E then \in {"return", "toStart", "toUnregister"} : StopService(o, s, then)

Waits(n) == WaitReturns(n) \/ NoticeExit(n)

Next ==
  \/ Boot \/ Edit \/ Manage
  \/ \E n \in Born : ChildExits(n) \/ Waits(n)
  \/ Crash

Spec == Init /\ [][Next]_vars

(***************************************************************************)
(* Fairness.  A call that holds the manager's lock goes on, and so does a  *)
(* goroutine whose child has exited; with a lock that is taken again and   *)
(* again, sync.RWMutex still lets a goroutine that waits for it have it.   *)
(* Nothing makes an operator do anything or a child exit.                  *)
(***************************************************************************)
Fairness ==
  /\ \A o \in Operators : WF_vars(Goes(o))
  /\ \A n \in 1 .. MaxStarts : SF_vars(n \in Born /\ Waits(n))

FairSpec == Spec /\ Fairness

-----------------------------------------------------------------------------

TypeOK ==
  /\ server \in {"down", "bootstrapping", "up"}
  /\ crashes \in 0 .. MaxCrashes /\ file \in BOOLEAN
  /\ disk \in [Services -> Definitions \cup {NoDef}]
  /\ byID \in [Services -> Definitions \cup {NoDef}]
  /\ bySlug \in [Slugs -> Services \cup {"none"}]
  /\ runtime \in [Services -> [state : States, pid : Pids \cup {"none"}]]
  /\ processes \in [Services -> [state : States \cup {"NONE"}, n : Born \cup {0}]]
  /\ starts \in 0 .. MaxStarts
  /\ child \in [Born -> Children]
  /\ op \in [Operators -> Calls]
  /\ deleted \subseteq Services

\* No identifier but its own is trimmed to it: a deletion of the service deletes its
\* record, and no other deletion does.
Clean(s) == \A t \in Services : Trimmed[t] = s <=> t = s

\* Whatever is registered, renamed and deleted, and wherever the server crashes, a
\* slug leads to exactly the service that is registered under it, and memory holds
\* what the next start restores, but for identifiers with spaces around them.
RoutesMatchServices ==
  server # "down" =>
    /\ \A s \in Services : Clean(s) => byID[s] = disk[s]
    /\ \A s \in Services, x \in Slugs : bySlug[x] = s <=> Registered(s) /\ byID[s].slug = x

\* "an existing state DB, including an empty service registry, is authoritative and
\* cannot be silently reseeded" (I-031): a service that was deleted stays so, through
\* crashes and restarts, until it is registered again, if its identifier has no spaces
\* around it.
NoResurrection ==
  \A s \in deleted : Clean(s) => disk[s] = NoDef /\ byID[s] = NoDef

\* A service is shown as running only while the manager runs it, under the number it
\* is shown with, and there is a child of its own and a goroutine that will see it
\* exit, unless the service is a simulated one.
NoFakeRunning ==
  \A s \in Services :
    /\ runtime[s].state = "RUNNING" => IsRunning(s) /\ runtime[s].pid = RunningPid(s)
    /\ IsRunning(s) => LET c == child[processes[s].n]
                       IN c.svc = s /\ (c.os = "simulated" \/ c.waiter \in {"waiting", "noticing"})

\* An older child of the service, already reaped, had the same number.
Reused(n) ==
  \E m \in Born \ {n} : /\ child[m].svc = child[n].svc /\ child[m].pid = child[n].pid
                        /\ child[m].os = "reaped"

\* No child that runs is forgotten: starts, stops, restarts, deletions and late
\* exits of older children race, and still the manager knows each child that nobody
\* killed, and so runs a service once.  Only a child that has got the number of an
\* older one can be taken for it (waitForProcess compares numbers).
NoChildForgotten ==
  \A n \in Born :
    child[n].os = "running" /\ child[n].waiter = "waiting" /\ ~child[n].killed
      => \/ IsRunning(child[n].svc) /\ processes[child[n].svc].n = n
         \/ Reused(n)

\* A service is reported to have crashed only while the manager thinks so too, and
\* only when its own child has exited by itself, however late the exits of older
\* children, which an operator killed, are noticed.  The one exception is a number
\* that was used again: the exit of the killed child that had it before is then taken
\* for a crash of the new one.
CrashIsNotAStop ==
  \A s \in Services :
    /\ runtime[s].state = "CRASHED" => processes[s].state = "CRASHED"
    /\ processes[s].state = "CRASHED" =>
         LET n == processes[s].n
         IN (child[n].os = "reaped" /\ ~child[n].killed) \/ Reused(n)

\* "unexpected process exit is visible to health system": a child that exits is not
\* shown as running for ever.
ExitIsVisible ==
  \A n \in 1 .. MaxStarts :
    (n \in Born /\ child[n].os \in {"zombie", "reaped"})
      ~> (\A s \in Services : ~(IsRunning(s) /\ processes[s].n = n))

-----------------------------------------------------------------------------
(***************************************************************************)
(* What the repository says of deletions and the code does not do.         *)
(***************************************************************************)

\* "Unregister removes a service from the registry only after durable deletion
\* succeeds" (service_registry.go): a service that was deleted is not saved any more
\* and no start brings it back.
DeletionIsDurable ==
  \A s \in deleted : disk[s] = NoDef /\ byID[s] = NoDef
=============================================================================
