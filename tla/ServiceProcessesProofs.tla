------------------------ MODULE ServiceProcessesProofs ------------------------
(***************************************************************************)
(* The safety of registry and process manager, for any sets of services,   *)
(* slugs, operators and process numbers and any bounds.  RegistryInv is    *)
(* about definitions and slugs, ManagerInv about instances and children.   *)
(***************************************************************************)
EXTENDS ServiceProcesses, SequenceTheorems, TLAPS

\* Memory is empty while the server is down; a configuration is only read into a
\* state file that was never there, when nothing was deleted yet.
RegistryInv ==
  /\ server = "down" => /\ \A s \in Services : ~Registered(s)
                        /\ \A x \in Slugs : bySlug[x] = "none"
  /\ ~file => server = "down" /\ deleted = {} /\ \A s \in Services : disk[s] = NoDef
  /\ server = "bootstrapping" => deleted = {}
  /\ \A s \in Services : ~Registered(s) => runtime[s] = Stopped
  /\ RoutesMatchServices
  /\ NoResurrection

\* A child that is started but not recorded is the youngest, belongs to the one
\* operator who holds the lock, and no instance is its or runs for its service.
SpawnedInv ==
  /\ \A o \in Operators : op[o] # NoCall => server = "up"
  /\ \A o, q \in Operators : op[o].at = "spawned" /\ op[q].at = "spawned" => o = q
  /\ \A o \in Operators : op[o].at = "spawned" =>
       /\ starts \in Born
       /\ child[starts].svc = op[o].svc
       /\ child[starts].waiter = "none"
       /\ ~child[starts].killed
       /\ ~IsRunning(op[o].svc)
       /\ \A s \in Services : processes[s].n # starts

\* An instance has a child of its service, which nobody killed while it runs; a
\* waiter that is about to take the lock has reaped its child; a simulated instance
\* has no waiter.
InstanceInv ==
  /\ \A s \in Services : processes[s].state # "NONE" =>
       processes[s].n \in Born /\ child[processes[s].n].svc = s
  /\ \A s \in Services : processes[s].state = "NONE" => processes[s].n = 0
  /\ \A s \in Services : IsRunning(s) => ~child[processes[s].n].killed
  /\ \A n \in Born : child[n].waiter \in {"noticing", "done"} => child[n].os = "reaped"
  /\ \A n \in Born : child[n].os = "simulated" => child[n].waiter \in {"none", "lost"}

ManagerInv ==
  /\ SpawnedInv /\ InstanceInv
  /\ NoFakeRunning /\ NoChildForgotten /\ CrashIsNotAStop

\* The manager knows child n as the running instance of its service.
Known(n) == IsRunning(child[n].svc) /\ processes[child[n].svc].n = n

ServicesInv == TypeOK /\ RegistryInv /\ ManagerInv

USE OperatorsAssumption, ConfigAssumption, NamesAssumption, BoundsAssumption

\* An empty server.
LEMMA ServicesInvInit == Init => ServicesInv
<1> SUFFICES ASSUME Init PROVE ServicesInv
  OBVIOUS
<1>1. TypeOK
  <2>1. child \in [Born -> Children]
    <3>1. Born = {}
      BY DEF Init, Born
    <3>2. child \in Seq(Children) /\ Len(child) = 0
      BY DEF Init
    <3> QED
      BY <3>1, <3>2, LenProperties
  <2>2. disk \in [Services -> Definitions \cup {NoDef}] /\ byID = disk
    BY DEF Init
  <2>3. op \in [Operators -> Calls]
    BY DEF Init, Calls
  <2>4. processes \in [Services -> [state : States \cup {"NONE"}, n : Born \cup {0}]]
    BY DEF Init, NoInstance
  <2>5. runtime \in [Services -> [state : States, pid : Pids \cup {"none"}]]
    BY DEF Init, Stopped, States
  <2>6. bySlug \in [Slugs -> Services \cup {"none"}] /\ deleted \subseteq Services
    BY DEF Init
  <2>7. starts \in 0 .. MaxStarts /\ crashes \in 0 .. MaxCrashes
    BY BoundsAssumption DEF Init
  <2>8. server \in {"down", "bootstrapping", "up"} /\ file \in BOOLEAN
    BY DEF Init
  <2> QED
    BY <2>1, <2>2, <2>3, <2>4, <2>5, <2>6, <2>7, <2>8, Zenon DEF TypeOK
<1>2. RegistryInv
  BY DEF Init, RegistryInv, RoutesMatchServices, NoResurrection, Registered
<1>3. ManagerInv
  BY DEF Init, ManagerInv, SpawnedInv, InstanceInv, NoFakeRunning, NoChildForgotten,
         CrashIsNotAStop, IsRunning, NoInstance, NoCall, Born, Stopped
<1> QED
  BY <1>1, <1>2, <1>3 DEF ServicesInv

-----------------------------------------------------------------------------
\* A step that touches no instance and no child, and shows runtimes as they were or as
\* stopped, keeps what the manager promises.
LEMMA ManagerUntouched ==
  ASSUME ServicesInv, UNCHANGED <<processes, children>>,
         \A o \in Operators : op'[o] = op[o] \/ op'[o].at # "spawned",
         \A o \in Operators : op'[o] # NoCall => server' = "up",
         \A s \in Services : runtime'[s] = runtime[s] \/ runtime'[s] = Stopped
  PROVE  ManagerInv'
<1> USE DEF ServicesInv, ManagerInv, children
<1>1. SpawnedInv'
  BY DEF SpawnedInv, IsRunning, Born
<1>2. InstanceInv'
  BY DEF InstanceInv, IsRunning, Born
<1>3. NoFakeRunning'
  BY DEF NoFakeRunning, IsRunning, RunningPid, Stopped
<1>4. NoChildForgotten'
  BY DEF NoChildForgotten, Reused, IsRunning, Born
<1>5. CrashIsNotAStop'
  BY DEF CrashIsNotAStop, Stopped, Reused, Born
<1> QED
  BY <1>1, <1>2, <1>3, <1>4, <1>5

\* A step of the manager leaves definitions and slugs alone, and shows nothing of a
\* service that is not registered.
LEMMA RegistryUntouched ==
  ASSUME ServicesInv, UNCHANGED <<server, file, registry>>,
         \A s \in Services : ~Registered(s) => runtime'[s] = runtime[s]
  PROVE  RegistryInv'
BY DEF ServicesInv, RegistryInv, registry, Registered, RoutesMatchServices, NoResurrection

\* A service that gets an identifier and a slug nobody has.
LEMMA AddPreserves ==
  ASSUME ServicesInv, NEW s \in Services, NEW slug \in Slugs, Add(s, slug),
         UNCHANGED <<boot, processes, children, op>>,
         server # "down", deleted' \subseteq deleted \ {s}
  PROVE  TypeOK' /\ RegistryInv'
<1> USE DEF ServicesInv, boot, children
<1> PICK exe \in Executables[s] : Install(s, [slug |-> slug, valid |-> TRUE, exe |-> exe])
  BY DEF Add
<1> DEFINE d == [slug |-> slug, valid |-> TRUE, exe |-> exe]
<1>0. /\ disk' = [disk EXCEPT ![s] = d] /\ byID' = [byID EXCEPT ![s] = d]
      /\ bySlug' = [bySlug EXCEPT ![slug] = s]
      /\ runtime' = [runtime EXCEPT ![s] = Stopped]
      /\ byID[s] = NoDef /\ bySlug[slug] = "none"
  BY DEF Add, Install, Registered
<1>1. d \in Definitions /\ d # NoDef /\ d.slug = slug
  BY ExecutablesAssumption, NamesAssumption DEF Definitions, NoDef
<1> HIDE DEF d
<1>2. TypeOK'
  BY <1>0, <1>1 DEF TypeOK, Born, Stopped, States
<1>3. RoutesMatchServices'
  BY <1>0, <1>1, NamesAssumption DEF TypeOK, RegistryInv, RoutesMatchServices, Registered
<1>4. NoResurrection'
  BY <1>0, <1>1 DEF TypeOK, RegistryInv, NoResurrection
<1> QED
  BY <1>0, <1>1, <1>2, <1>3, <1>4 DEF TypeOK, RegistryInv, Registered

-----------------------------------------------------------------------------
\* Start-up.
LEMMA BootPreserves == ServicesInv /\ Boot => ServicesInv'
<1> USE DEF ServicesInv, boot, registry, children
<1> SUFFICES ASSUME ServicesInv, Boot PROVE ServicesInv'
  OBVIOUS
<1>0. \A o \in Operators : op[o] # NoCall => server = "up"
  BY DEF ManagerInv, SpawnedInv
<1>1. CASE CreateState
  <2>1. TypeOK'
    <3>1. /\ server' = "bootstrapping" /\ file' = TRUE
          /\ UNCHANGED <<crashes, disk, byID, bySlug, deleted, runtime, processes, starts,
                         child, op>>
      BY <1>1 DEF CreateState
    <3> QED
      BY <3>1 DEF TypeOK, Born
  <2>2. RegistryInv'
    BY <1>1 DEF CreateState, RegistryInv, TypeOK, Registered, RoutesMatchServices, NoResurrection
  <2>3. ManagerInv'
    BY <1>0, <1>1, ManagerUntouched DEF CreateState
  <2> QED
    BY <2>1, <2>2, <2>3
<1>2. CASE Restore
  <2>0. \A s \in Services, x \in Slugs :
          bySlug'[x] = s <=> disk[s] # NoDef /\ disk[s].slug = x
    <3> SUFFICES ASSUME NEW s \in Services, NEW x \in Slugs
                 PROVE  bySlug'[x] = s <=> disk[s] # NoDef /\ disk[s].slug = x
      OBVIOUS
    <3> DEFINE Has(t) == t \in Services /\ disk[t] # NoDef /\ disk[t].slug = x
    <3>1. \A t, u \in Services : Has(t) /\ Has(u) => t = u
      BY <1>2 DEF Restore
    <3>2. CASE \E t \in Services : Has(t)
      <4>1. Has(CHOOSE t \in Services : disk[t] # NoDef /\ disk[t].slug = x)
        BY <3>2
      <4>2. bySlug'[x] = CHOOSE t \in Services : disk[t] # NoDef /\ disk[t].slug = x
        BY <1>2, <3>2 DEF Restore
      <4> QED
        BY <3>1, <4>1, <4>2
    <3>3. CASE ~\E t \in Services : Has(t)
      <4>1. bySlug'[x] = "none"
        BY <1>2, <3>3 DEF Restore
      <4> QED
        BY <3>3, <4>1, NamesAssumption
    <3> QED
      BY <3>2, <3>3
  <2>1. TypeOK'
    <3>1. bySlug' \in [Slugs -> Services \cup {"none"}]
      BY <1>2 DEF Restore
    <3> QED
      BY <1>2, <3>1 DEF Restore, TypeOK, Born
  <2>2. RegistryInv'
    BY <1>2, <2>0 DEF Restore, RegistryInv, TypeOK, Registered, RoutesMatchServices, NoResurrection
  <2>3. ManagerInv'
    BY <1>0, <1>2, ManagerUntouched DEF Restore
  <2> QED
    BY <2>1, <2>2, <2>3
<1>3. CASE BootstrapDone
  <2>1. TypeOK'
    BY <1>3 DEF BootstrapDone, TypeOK, Born
  <2>2. RegistryInv'
    BY <1>3 DEF BootstrapDone, RegistryInv, TypeOK, Registered, RoutesMatchServices, NoResurrection
  <2>3. ManagerInv'
    BY <1>0, <1>3, ManagerUntouched DEF BootstrapDone
  <2> QED
    BY <2>1, <2>2, <2>3
<1>4. ASSUME NEW s \in DOMAIN ConfigSlug, BootstrapService(s) PROVE ServicesInv'
  <2>0. s \in Services /\ ConfigSlug[s] \in Slugs
    OBVIOUS
  <2>1. TypeOK' /\ RegistryInv'
    BY <1>4, <2>0, AddPreserves DEF BootstrapService, RegistryInv
  <2>2. ManagerInv'
    BY <1>0, <1>4, <2>0, ManagerUntouched DEF BootstrapService, Add, TypeOK
  <2> QED
    BY <2>1, <2>2
<1> QED
  BY <1>1, <1>2, <1>3, <1>4 DEF Boot

-----------------------------------------------------------------------------
\* A definition that keeps the slug, whatever becomes of its validity and executable.
LEMMA RevalidatePreserves ==
  ASSUME ServicesInv, NEW s \in Services, NEW v \in BOOLEAN, Registered(s),
         NEW exe \in {"none", "program", "simulated"},
         Install(s, [byID[s] EXCEPT !.valid = v, !.exe = exe]),
         UNCHANGED <<boot, bySlug, deleted, runtime, processes, children, op>>,
         server = "up"
  PROVE  TypeOK' /\ RegistryInv'
<1> DEFINE d == [byID[s] EXCEPT !.valid = v, !.exe = exe]
<1> USE DEF ServicesInv, boot, children
<1>0. /\ disk' = [disk EXCEPT ![s] = d] /\ byID' = [byID EXCEPT ![s] = d]
      /\ byID[s] # NoDef /\ byID[s] \in Definitions
  BY DEF Install, Registered, TypeOK
<1>1. d \in Definitions /\ d # NoDef /\ d.slug = byID[s].slug
  BY <1>0, NamesAssumption DEF Definitions, NoDef
<1> HIDE DEF d
<1>2. TypeOK'
  BY <1>0, <1>1 DEF TypeOK, Born
<1>3. RoutesMatchServices'
  BY <1>0, <1>1 DEF TypeOK, RegistryInv, RoutesMatchServices, Registered
<1>4. NoResurrection'
  BY <1>0, <1>1 DEF TypeOK, RegistryInv, NoResurrection
<1> QED
  BY <1>0, <1>1, <1>2, <1>3, <1>4 DEF TypeOK, RegistryInv, Registered

\* A new slug that is free or already the service's.
LEMMA UpdateFullPreserves ==
  ASSUME ServicesInv, NEW s \in Services, NEW slug \in Slugs, UpdateFull(s, slug)
  PROVE  TypeOK' /\ RegistryInv'
<1> USE DEF ServicesInv, boot, children
<1> PICK exe \in Executables[s] : Install(s, [slug |-> slug, valid |-> TRUE, exe |-> exe])
  BY DEF UpdateFull
<1> DEFINE d == [slug |-> slug, valid |-> TRUE, exe |-> exe]
<1>0. /\ disk' = [disk EXCEPT ![s] = d] /\ byID' = [byID EXCEPT ![s] = d]
      /\ byID[s] # NoDef /\ byID[s] \in Definitions
      /\ bySlug[slug] \in {"none", s}
      /\ bySlug' = [bySlug EXCEPT ![byID[s].slug] = "none", ![slug] = s]
      /\ UNCHANGED <<boot, deleted, runtime, processes, children, op>>
      /\ server = "up"
  BY DEF UpdateFull, Install, Registered, TypeOK, Idle
<1>1. d \in Definitions /\ d # NoDef /\ d.slug = slug /\ byID[s].slug \in Slugs
  BY <1>0, ExecutablesAssumption, NamesAssumption DEF Definitions, NoDef
<1> HIDE DEF d
<1>2. TypeOK'
  BY <1>0, <1>1 DEF TypeOK, Born
<1>3. RoutesMatchServices'
  BY <1>0, <1>1, NamesAssumption DEF TypeOK, RegistryInv, RoutesMatchServices, Registered
<1>4. NoResurrection'
  BY <1>0, <1>1 DEF TypeOK, RegistryInv, NoResurrection
<1> QED
  BY <1>0, <1>1, <1>2, <1>3, <1>4 DEF TypeOK, RegistryInv, Registered

\* What an operator does to definitions.
LEMMA EditPreserves == ServicesInv /\ Edit => ServicesInv'
<1> USE DEF ServicesInv, boot, registry, children
<1> SUFFICES ASSUME ServicesInv, NEW s \in Services,
                    \/ UpdateRoute(s)
                    \/ \E slug \in Slugs : Register(s, slug) \/ UpdateFull(s, slug)
                    \/ \E o \in Operators : UpdateExecutable(o, s)
             PROVE  ServicesInv'
  BY DEF Edit
<1>0. \A o \in Operators : op[o] # NoCall => server = "up"
  BY DEF ManagerInv, SpawnedInv
<1>1. CASE UpdateRoute(s)
  <2>1. /\ byID[s] \in Definitions /\ server = "up" /\ Registered(s)
        /\ Install(s, [byID[s] EXCEPT !.valid = TRUE])
        /\ UNCHANGED <<boot, bySlug, deleted, runtime, processes, children, op>>
    BY <1>1 DEF UpdateRoute, Idle, TypeOK, Registered
  <2>2. [byID[s] EXCEPT !.valid = TRUE] = [byID[s] EXCEPT !.valid = TRUE, !.exe = byID[s].exe]
    BY <2>1 DEF Definitions
  <2>3. byID[s].exe \in {"none", "program", "simulated"}
    BY <2>1 DEF Definitions
  <2>4. TypeOK' /\ RegistryInv'
    BY <2>1, <2>2, <2>3, RevalidatePreserves
  <2>5. ManagerInv'
    BY <1>0, <1>1, ManagerUntouched DEF UpdateRoute
  <2> QED
    BY <2>4, <2>5
<1>2. ASSUME NEW slug \in Slugs, Register(s, slug) PROVE ServicesInv'
  <2>1. TypeOK' /\ RegistryInv'
    BY <1>2, AddPreserves DEF Register, Idle
  <2>2. ManagerInv'
    BY <1>0, <1>2, ManagerUntouched DEF Register, Add, TypeOK
  <2> QED
    BY <2>1, <2>2
<1>3. ASSUME NEW slug \in Slugs, UpdateFull(s, slug) PROVE ServicesInv'
  <2>1. TypeOK' /\ RegistryInv'
    BY <1>3, UpdateFullPreserves
  <2>2. ManagerInv'
    BY <1>0, <1>3, ManagerUntouched DEF UpdateFull
  <2> QED
    BY <2>1, <2>2
<1>4. ASSUME NEW o \in Operators, UpdateExecutable(o, s) PROVE ServicesInv'
  <2>0. PICK v \in BOOLEAN, exe \in {"none", "program", "simulated"} :
          Install(s, [byID[s] EXCEPT !.valid = v, !.exe = exe])
    BY <1>4, ExecutablesAssumption DEF UpdateExecutable
  <2>1. TypeOK' /\ RegistryInv'
    BY <1>4, <2>0, RevalidatePreserves DEF UpdateExecutable, Idle
  <2>2. ManagerInv'
    BY <1>0, <1>4, ManagerUntouched DEF UpdateExecutable
  <2> QED
    BY <2>1, <2>2
<1> QED
  BY <1>1, <1>2, <1>3, <1>4

-----------------------------------------------------------------------------
\* The calls of the manager that touch no instance and no child.
LEMMA RefusalsPreserve ==
  ASSUME ServicesInv, NEW o \in Operators,
         \/ StartRefused(o) \/ UnregisterFails(o)
         \/ \E s \in Services : StartFails(o, s)
  PROVE  ServicesInv'
<1> USE DEF ServicesInv, boot, registry, children
<1>0. \A q \in Operators : op[q] # NoCall => server = "up"
  BY DEF ManagerInv, SpawnedInv
<1>1. NoCall.at # "spawned" /\ NoCall \in Calls
  BY DEF NoCall, Calls
<1>2. CASE StartRefused(o) \/ UnregisterFails(o)
  <2>0. op' = [op EXCEPT ![o] = NoCall] /\ UNCHANGED <<boot, registry, runtime, processes, children>>
    BY <1>2 DEF StartRefused, UnregisterFails, Return
  <2>1. TypeOK'
    BY <1>1, <2>0 DEF TypeOK, Born
  <2>2. RegistryInv'
    BY <2>0, RegistryUntouched
  <2>3. ManagerInv'
    BY <1>0, <1>1, <2>0, ManagerUntouched DEF TypeOK
  <2> QED
    BY <2>1, <2>2, <2>3
<1>3. ASSUME NEW s \in Services, StartFails(o, s) PROVE ServicesInv'
  <2>0. /\ op' = [op EXCEPT ![o] = NoCall] /\ UNCHANGED <<boot, registry, processes, children>>
        /\ runtime' = [runtime EXCEPT ![s] = Stopped] /\ Registered(s)
    BY <1>3 DEF StartFails, Return, UpdateProcessRuntime, Startable, Stopped
  <2>1. TypeOK'
    BY <1>1, <2>0 DEF TypeOK, Born, Stopped, States
  <2>2. RegistryInv'
    BY <2>0, RegistryUntouched DEF TypeOK
  <2>3. ManagerInv'
    BY <1>0, <1>1, <2>0, ManagerUntouched DEF TypeOK
  <2> QED
    BY <2>1, <2>2, <2>3
<1> QED
  BY <1>2, <1>3

\* A service that is deleted is shown no more and leads nowhere.
LEMMA UnregisterPreserves ==
  ASSUME ServicesInv, NEW o \in Operators, Unregister(o)
  PROVE  ServicesInv'
<1> DEFINE s == op[o].svc
<1> USE DEF ServicesInv, boot, children
<1>0. /\ disk' = [t \in Services |-> IF t = Trimmed[s] THEN NoDef ELSE disk[t]]
      /\ byID' = [byID EXCEPT ![s] = NoDef]
      /\ bySlug' = [bySlug EXCEPT ![byID[s].slug] = "none"]
      /\ runtime' = [runtime EXCEPT ![s] = Stopped] /\ deleted' = deleted \cup {s}
      /\ op' = [op EXCEPT ![o] = NoCall] /\ UNCHANGED <<boot, processes, children>>
      /\ op[o].at = "toUnregister" /\ byID[s] # NoDef
  BY DEF Unregister, Forget, Return, Registered
<1>1. s \in Services /\ server = "up"
  BY <1>0 DEF TypeOK, Calls, NoCall, ManagerInv, SpawnedInv
<1>2. byID[s] \in Definitions /\ byID[s].slug \in Slugs
  BY <1>0, <1>1 DEF TypeOK, Definitions
<1>3. NoCall.at # "spawned" /\ NoCall \in Calls
  BY DEF NoCall, Calls
<1> HIDE DEF s
<1>4. TypeOK'
  BY <1>0, <1>1, <1>2, <1>3 DEF TypeOK, Born, Stopped, States
<1>5. RoutesMatchServices'
  <2>1. \A t \in Services : Clean(t) => byID'[t] = disk'[t]
    BY <1>0, <1>1 DEF TypeOK, RegistryInv, RoutesMatchServices, Clean
  <2>2. \A t \in Services, x \in Slugs :
          bySlug'[x] = t <=> byID'[t] # NoDef /\ byID'[t].slug = x
    BY <1>0, <1>1, <1>2, NamesAssumption DEF TypeOK, RegistryInv, RoutesMatchServices, Registered
  <2> QED
    BY <2>1, <2>2 DEF RoutesMatchServices, Registered
<1>6. NoResurrection'
  BY <1>0, <1>1 DEF TypeOK, RegistryInv, NoResurrection, Clean
<1>7. RegistryInv'
  BY <1>0, <1>1, <1>5, <1>6 DEF TypeOK, RegistryInv, Registered
<1>8. ManagerInv'
  BY <1>0, <1>1, <1>3, ManagerUntouched DEF TypeOK
<1> QED
  BY <1>4, <1>7, <1>8

-----------------------------------------------------------------------------
\* Starts.  The new child is nobody's instance yet.
LEMMA StartSpawnsPreserves ==
  ASSUME ServicesInv, NEW o \in Operators, NEW s \in Services, StartSpawns(o, s)
  PROVE  ServicesInv'
<1> USE DEF ServicesInv, boot, registry, ManagerInv
<1>0. PICK p \in Pids, os \in {"running", "simulated"} : child' = [n \in 1 .. starts' |->
          IF n = starts'
          THEN [svc |-> s, pid |-> p, os |-> os, waiter |-> "none", killed |-> FALSE]
          ELSE child[n]]
  BY DEF StartSpawns
<1>1. /\ starts' = starts + 1 /\ starts < MaxStarts /\ starts \in Nat
      /\ op' = [op EXCEPT ![o] = [at |-> "spawned", svc |-> s]]
      /\ UNCHANGED <<boot, registry, runtime, processes>>
      /\ \A q \in Operators : op[q].at # "spawned"
      /\ ~IsRunning(s) /\ server = "up"
  BY NamesAssumption DEF StartSpawns, MayStart, Unlocked, Idle, Startable, Continue, SpawnedInv, TypeOK,
         NoCall
<1>2. /\ Born' = Born \cup {starts'} /\ starts' \notin Born /\ starts' # 0 /\ Born = 1 .. starts
      /\ \A n \in Born : child'[n] = child[n]
      /\ child'[starts'] = [svc |-> s, pid |-> p, os |-> os, waiter |-> "none",
                            killed |-> FALSE]
  BY <1>0, <1>1 DEF Born
<1>3. TypeOK'
  <2>1. child' \in [Born' -> Children]
    BY <1>0, <1>1, <1>2 DEF TypeOK, Children, Born
  <2>2. starts' \in 0 .. MaxStarts
    BY <1>1, BoundsAssumption
  <2>3. op' \in [Operators -> Calls]
    BY <1>1 DEF TypeOK, Calls
  <2>4. processes' \in [Services -> [state : States \cup {"NONE"}, n : Born' \cup {0}]]
    BY <1>1, <1>2 DEF TypeOK
  <2> QED
    BY <1>1, <2>1, <2>2, <2>3, <2>4 DEF TypeOK
<1>4. RegistryInv'
  BY <1>1, RegistryUntouched
<1> HIDE DEF Born
<1>5. \A t \in Services : processes[t].n \in Born \cup {0} /\ processes'[t] = processes[t]
  BY <1>1 DEF TypeOK
<1>6. SpawnedInv'
  BY <1>1, <1>2, <1>5 DEF SpawnedInv, TypeOK, IsRunning
<1>7. InstanceInv'
  BY <1>1, <1>2, <1>5 DEF InstanceInv, IsRunning
<1>8. NoFakeRunning'
  BY <1>1, <1>2, <1>5 DEF NoFakeRunning, InstanceInv, IsRunning, RunningPid
<1>9. NoChildForgotten'
  <2> SUFFICES ASSUME NEW n \in Born', child'[n].os = "running", child'[n].waiter = "waiting",
                      ~child'[n].killed
               PROVE  Known(n)' \/ Reused(n)'
    BY DEF NoChildForgotten, Known
  <2>1. n \in Born /\ child'[n] = child[n]
    BY <1>2
  <2>2. CASE Known(n)
    BY <1>1, <2>1, <2>2 DEF Known, IsRunning
  <2>3. CASE Reused(n)
    BY <1>2, <2>1, <2>3 DEF Reused
  <2> QED
    BY <2>1, <2>2, <2>3 DEF NoChildForgotten, Known
<1>10. CrashIsNotAStop'
  <2>1. \A n \in Born : Reused(n) => Reused(n)'
    BY <1>2 DEF Reused
  <2>2. \A t \in Services : processes[t].state = "CRASHED" => processes[t].n \in Born
    BY DEF InstanceInv
  <2> QED
    BY <1>1, <1>2, <2>1, <2>2 DEF CrashIsNotAStop
<1> QED
  BY <1>3, <1>4, <1>6, <1>7, <1>8, <1>9, <1>10

\* The child becomes its service's instance; an older child of the service that still
\* runs was already excused.
LEMMA StartRecordedPreserves ==
  ASSUME ServicesInv, NEW o \in Operators, StartRecorded(o)
  PROVE  ServicesInv'
<1> DEFINE s == op[o].svc
           w == IF child[starts].os = "simulated" THEN "none" ELSE "waiting"
<1> USE DEF ServicesInv, boot, registry, ManagerInv
<1>1. /\ processes' = [processes EXCEPT ![s] = [state |-> "RUNNING", n |-> starts]]
      /\ runtime' = [runtime EXCEPT ![s] = [state |-> "RUNNING", pid |-> child[starts].pid]]
      /\ child' = [child EXCEPT ![starts].waiter = w]
      /\ op' = [op EXCEPT ![o] = NoCall]
      /\ UNCHANGED <<boot, registry, starts>>
      /\ op[o].at = "spawned" /\ Registered(s)
  BY DEF StartRecorded, UpdateProcessRuntime, Return
<1>2. /\ s \in Services /\ starts \in Born /\ child[starts].svc = s /\ ~IsRunning(s)
      /\ child[starts].waiter = "none" /\ ~child[starts].killed
      /\ \A t \in Services : processes[t].n # starts
      /\ \A q \in Operators : q # o => op[q].at # "spawned"
  BY <1>1 DEF SpawnedInv, TypeOK, Calls, NoCall
<1>3. NoCall.at # "spawned" /\ NoCall \in Calls
  BY DEF NoCall, Calls
<1>4. Born' = Born
  BY <1>1 DEF Born
<1>w. w \in {"none", "waiting"} /\ (w = "none" <=> child[starts].os = "simulated")
  OBVIOUS
<1> HIDE DEF s, w
<1>5. /\ \A n \in Born : n # starts => child'[n] = child[n]
      /\ child'[starts] = [child[starts] EXCEPT !.waiter = w]
      /\ child[starts] \in Children
  BY <1>1, <1>2 DEF TypeOK
<1>6. /\ child'[starts].svc = s /\ child'[starts].waiter = w
      /\ child'[starts].pid = child[starts].pid /\ child'[starts].killed = child[starts].killed
      /\ child'[starts].os = child[starts].os
  BY <1>2, <1>5 DEF Children
<1>7. /\ \A t \in Services : t # s => processes'[t] = processes[t] /\ runtime'[t] = runtime[t]
      /\ processes'[s] = [state |-> "RUNNING", n |-> starts]
      /\ runtime'[s] = [state |-> "RUNNING", pid |-> child[starts].pid]
      /\ \A q \in Operators : op'[q].at # "spawned"
      /\ \A q \in Operators : op'[q] = op[q] \/ op'[q] = NoCall
  BY <1>1, <1>2, <1>3 DEF TypeOK
<1>8. TypeOK'
  <2>1. child' \in [Born -> Children]
    BY <1>1, <1>2, <1>5, <1>w DEF TypeOK, Children
  <2>2. child[starts].pid \in Pids
    BY <1>5 DEF Children
  <2> QED
    BY <1>1, <1>2, <1>3, <1>4, <2>1, <2>2 DEF TypeOK, States
<1>9. RegistryInv'
  BY <1>1, <1>7, RegistryUntouched DEF TypeOK
<1>10. SpawnedInv'
  BY <1>1, <1>7 DEF SpawnedInv
<1>11. InstanceInv'
  <2>1. \A t \in Services \ {s} : processes[t].state # "NONE" =>
          processes[t].n \in Born /\ child'[processes[t].n] = child[processes[t].n]
    BY <1>2, <1>5 DEF InstanceInv
  <2>2. ASSUME NEW n \in Born
        PROVE  /\ child'[n].waiter \in {"noticing", "done"} => child'[n].os = "reaped"
               /\ child'[n].os = "simulated" => child'[n].waiter \in {"none", "lost"}
    <3>1. CASE n = starts
      BY <1>6, <1>w, <3>1
    <3>2. CASE n # starts
      BY <1>5, <3>2 DEF InstanceInv
    <3> QED
      BY <3>1, <3>2
  <2> QED
    BY <1>2, <1>4, <1>6, <1>7, <2>1, <2>2 DEF InstanceInv, IsRunning
<1>12. NoFakeRunning'
  <2> SUFFICES ASSUME NEW t \in Services
               PROVE  /\ runtime'[t].state = "RUNNING" =>
                           IsRunning(t)' /\ runtime'[t].pid = RunningPid(t)'
                      /\ IsRunning(t)' => /\ child'[processes'[t].n].svc = t
                                          /\ \/ child'[processes'[t].n].os = "simulated"
                                             \/ child'[processes'[t].n].waiter \in {"waiting", "noticing"}
    BY DEF NoFakeRunning
  <2>1. CASE t = s
    BY <1>6, <1>7, <1>w, <2>1 DEF IsRunning, RunningPid
  <2>2. CASE t # s
    <3>1. IsRunning(t) => processes[t].n \in Born /\ child'[processes[t].n] = child[processes[t].n]
      BY <1>2, <1>5 DEF InstanceInv, IsRunning
    <3> QED
      BY <1>7, <2>2, <3>1 DEF NoFakeRunning, IsRunning, RunningPid
  <2> QED
    BY <2>1, <2>2
<1>13. NoChildForgotten'
  <2> SUFFICES ASSUME NEW n \in Born, child'[n].os = "running", child'[n].waiter = "waiting",
                      ~child'[n].killed
               PROVE  Known(n)' \/ Reused(n)'
    BY <1>4 DEF NoChildForgotten, Known
  <2>1. CASE n = starts
    BY <1>6, <1>7, <2>1 DEF Known, IsRunning
  <2>2. CASE n # starts /\ Reused(n)
    <3>1. PICK m \in Born \ {n} : /\ child[m].svc = child[n].svc /\ child[m].pid = child[n].pid
                                  /\ child[m].os = "reaped"
      BY <2>2 DEF Reused
    <3>2. /\ child'[m].svc = child'[n].svc /\ child'[m].pid = child'[n].pid
          /\ child'[m].os = "reaped"
      BY <1>2, <1>5, <1>6, <2>2, <3>1
    <3> QED
      BY <1>4, <3>2 DEF Reused
  <2>3. CASE n # starts /\ ~Reused(n)
    <3>1. IsRunning(child[n].svc) /\ processes[child[n].svc].n = n /\ child'[n] = child[n]
      BY <1>5, <2>3 DEF NoChildForgotten
    <3>2. child[n].svc \in Services
      BY DEF TypeOK, Children
    <3> QED
      BY <1>2, <1>7, <3>1, <3>2 DEF Known, IsRunning
  <2> QED
    BY <2>1, <2>2, <2>3
<1>14. CrashIsNotAStop'
  <2>1. \A n \in Born : Reused(n) => Reused(n)'
    <3> SUFFICES ASSUME NEW n \in Born, Reused(n) PROVE Reused(n)'
      OBVIOUS
    <3>1. \A m \in Born : /\ child'[m].svc = child[m].svc /\ child'[m].pid = child[m].pid
                          /\ child'[m].os = child[m].os
      BY <1>2, <1>5, <1>6
    <3> QED
      BY <1>4, <3>1 DEF Reused
  <2>2. \A t \in Services : processes[t].state = "CRASHED" =>
          processes[t].n \in Born /\ child'[processes[t].n] = child[processes[t].n]
    BY <1>2, <1>5 DEF InstanceInv
  <2> QED
    BY <1>7, <2>1, <2>2 DEF CrashIsNotAStop
<1> QED
  BY <1>8, <1>9, <1>10, <1>11, <1>12, <1>13, <1>14

-----------------------------------------------------------------------------
\* A step of one child, or of its waiter in Wait: what it is a child of and its number
\* stay, it never runs again, and it is killed only when no instance is its.
LEMMA ChildStepPreserves ==
  ASSUME ServicesInv, NEW m \in Born,
         UNCHANGED <<boot, registry, runtime, processes, starts>>,
         child' \in [Born -> Children],
         \A n \in Born \ {m} : child'[n] = child[n],
         child'[m].svc = child[m].svc, child'[m].pid = child[m].pid,
         child'[m].os = "running" => child[m].os = "running",
         child[m].os \in {"reaped", "simulated"} => child'[m].os = child[m].os,
         child'[m].os = "simulated" => child[m].os = "simulated",
         \/ child'[m].waiter = child[m].waiter
         \/ child[m].waiter = "waiting" /\ child'[m].waiter = "noticing" /\ child'[m].os = "reaped"
         \/ /\ child[m].waiter = "noticing" /\ child'[m].waiter = "done"
            /\ \A s \in Services : IsRunning(s) => processes[s].n # m,
         child[m].killed => child'[m].killed,
         child'[m].killed = child[m].killed \/ \A s \in Services : processes[s].n # m,
         \A o \in Operators : \/ op'[o] = NoCall
                             \/ /\ op'[o] = op[o]
                                /\ op[o].at = "spawned" => child'[m].killed = child[m].killed,
         op' \in [Operators -> Calls]
  PROVE  ServicesInv'
<1> USE DEF ServicesInv, boot, registry, ManagerInv
<1>1. Born' = Born
  BY DEF Born
<1>2. TypeOK'
  BY <1>1 DEF TypeOK
<1>3. RegistryInv'
  BY RegistryUntouched
<1>4. SpawnedInv'
  <2>1. NoCall.at # "spawned"
    BY DEF NoCall
  <2>2. CASE \E o \in Operators : op'[o].at = "spawned"
    <3>1. PICK o \in Operators : op'[o].at = "spawned"
      BY <2>2
    <3>2. op'[o] = op[o] /\ child'[m].killed = child[m].killed
      BY <2>1, <3>1
    <3>3. child'[starts].waiter = "none" /\ ~child'[starts].killed /\ child'[starts].svc = child[starts].svc
      BY <3>1, <3>2 DEF SpawnedInv
    <3> QED
      BY <1>1, <2>1, <3>3 DEF SpawnedInv, IsRunning
  <2>3. CASE ~\E o \in Operators : op'[o].at = "spawned"
    BY <2>3 DEF SpawnedInv
  <2> QED
    BY <2>2, <2>3
<1>5. InstanceInv'
  BY <1>1 DEF InstanceInv, IsRunning
<1>6. NoFakeRunning'
  <2> SUFFICES ASSUME NEW t \in Services
               PROVE  /\ runtime'[t].state = "RUNNING" =>
                           IsRunning(t)' /\ runtime'[t].pid = RunningPid(t)'
                      /\ IsRunning(t)' => /\ child'[processes'[t].n].svc = t
                                          /\ \/ child'[processes'[t].n].os = "simulated"
                                             \/ child'[processes'[t].n].waiter \in {"waiting", "noticing"}
    BY DEF NoFakeRunning
  <2>1. IsRunning(t) => processes[t].n \in Born
    BY DEF InstanceInv, IsRunning
  <2> QED
    BY <2>1 DEF NoFakeRunning, IsRunning, RunningPid
<1>7. NoChildForgotten'
  <2> SUFFICES ASSUME NEW n \in Born, child'[n].os = "running", child'[n].waiter = "waiting",
                      ~child'[n].killed
               PROVE  Known(n)' \/ Reused(n)'
    BY <1>1 DEF NoChildForgotten, Known
  <2>1. child'[n].svc = child[n].svc /\ child'[n].pid = child[n].pid
    OBVIOUS
  <2>2. Known(n) \/ Reused(n)
    BY DEF NoChildForgotten, Known
  <2>3. CASE Known(n)
    BY <2>1, <2>3 DEF Known, IsRunning
  <2>4. CASE Reused(n)
    <3>1. PICK k \in Born \ {n} : /\ child[k].svc = child[n].svc /\ child[k].pid = child[n].pid
                                  /\ child[k].os = "reaped"
      BY <2>4 DEF Reused
    <3>2. /\ child'[k].svc = child'[n].svc /\ child'[k].pid = child'[n].pid
          /\ child'[k].os = "reaped"
      BY <2>1, <3>1
    <3> QED
      BY <1>1, <3>2 DEF Reused
  <2> QED
    BY <2>2, <2>3, <2>4
<1>8. CrashIsNotAStop'
  <2>1. \A n \in Born : Reused(n) => Reused(n)'
    <3> SUFFICES ASSUME NEW n \in Born, Reused(n) PROVE Reused(n)'
      OBVIOUS
    <3>1. PICK k \in Born \ {n} : /\ child[k].svc = child[n].svc /\ child[k].pid = child[n].pid
                                  /\ child[k].os = "reaped"
      BY DEF Reused
    <3>2. /\ child'[k].svc = child[k].svc /\ child'[k].pid = child[k].pid
          /\ child'[k].os = "reaped"
          /\ child'[n].svc = child[n].svc /\ child'[n].pid = child[n].pid
      BY <3>1
    <3> QED
      BY <1>1, <3>1, <3>2 DEF Reused
  <2> SUFFICES ASSUME NEW t \in Services, processes[t].state = "CRASHED"
               PROVE  \/ child'[processes[t].n].os = "reaped" /\ ~child'[processes[t].n].killed
                      \/ Reused(processes[t].n)'
    BY DEF CrashIsNotAStop
  <2>2. processes[t].n \in Born
    BY DEF InstanceInv
  <2>3. \/ child[processes[t].n].os = "reaped" /\ ~child[processes[t].n].killed
        \/ Reused(processes[t].n)
    BY DEF CrashIsNotAStop
  <2>4. child[processes[t].n].os = "reaped" => child'[processes[t].n].os = "reaped"
    BY <2>2
  <2>5. child'[processes[t].n].killed = child[processes[t].n].killed
    BY <2>2
  <2> QED
    BY <2>1, <2>2, <2>3, <2>4, <2>5
<1> QED
  BY <1>2, <1>3, <1>4, <1>5, <1>6, <1>7, <1>8

\* The child of a service that was deleted meanwhile is killed.
LEMMA StartUnrecordedPreserves ==
  ASSUME ServicesInv, NEW o \in Operators, StartUnrecorded(o)
  PROVE  ServicesInv'
<1> USE DEF ServicesInv, ManagerInv
<1>1. /\ child' = [child EXCEPT ![starts] = Killed(@)] /\ op' = [op EXCEPT ![o] = NoCall]
      /\ UNCHANGED <<boot, registry, runtime, processes, starts>>
      /\ op[o].at = "spawned"
  BY DEF StartUnrecorded, Return
<1>2. starts \in Born /\ child[starts].waiter = "none" /\ \A s \in Services : processes[s].n # starts
  BY <1>1 DEF SpawnedInv
<1>3. \A q \in Operators : op'[q] = NoCall \/ (op'[q] = op[q] /\ op[q].at # "spawned")
  <2>1. \A q \in Operators : q # o => op[q].at # "spawned"
    BY <1>1 DEF SpawnedInv
  <2>2. op'[o] = NoCall /\ \A q \in Operators : q # o => op'[q] = op[q]
    BY <1>1 DEF TypeOK
  <2> QED
    BY <2>1, <2>2, Zenon
<1>4. op' \in [Operators -> Calls]
  BY <1>1 DEF TypeOK, Calls
<1>5. /\ child[starts] \in Children
      /\ child'[starts] = [child[starts] EXCEPT !.killed = (child[starts].os # "simulated")]
      /\ \A n \in Born \ {starts} : child'[n] = child[n]
  BY <1>1, <1>2 DEF TypeOK, Killed
<1>6. /\ child'[starts].svc = child[starts].svc /\ child'[starts].pid = child[starts].pid
      /\ child'[starts].os = child[starts].os /\ child'[starts].waiter = child[starts].waiter
      /\ ~child[starts].killed
  BY <1>1, <1>5 DEF Children, SpawnedInv
<1>7. child' \in [Born -> Children]
  <2>1. child'[starts] \in Children
    BY <1>5 DEF Children
  <2> QED
    BY <1>1, <1>2, <1>5, <2>1 DEF TypeOK
<1> QED
  <2>1. \/ child'[starts].killed = child[starts].killed
        \/ \A s \in Services : processes[s].n # starts
    BY <1>2, Zenon
  <2>2. UNCHANGED <<boot, registry, runtime, processes, starts>>
    BY <1>1
  <2>3. \A q \in Operators : \/ op'[q] = NoCall
                             \/ /\ op'[q] = op[q]
                                /\ op[q].at = "spawned" => child'[starts].killed = child[starts].killed
    BY <1>3, Zenon
  <2>4. /\ child'[starts].os = "running" => child[starts].os = "running"
        /\ child[starts].os \in {"reaped", "simulated"} => child'[starts].os = child[starts].os
        /\ child'[starts].os = "simulated" => child[starts].os = "simulated"
        /\ child[starts].killed => child'[starts].killed
    BY <1>6
  <2>5. \/ child'[starts].waiter = child[starts].waiter
        \/ child[starts].waiter = "waiting" /\ child'[starts].waiter = "noticing" /\ child'[starts].os = "reaped"
    BY <1>6
  <2> QED
    BY <1>2, <1>4, <1>5, <1>6, <1>7, <2>1, <2>2, <2>3, <2>4, <2>5, ChildStepPreserves

\* A child exits, or Wait returns.
LEMMA ExitsPreserve ==
  ASSUME ServicesInv, NEW m \in Born, ChildExits(m) \/ WaitReturns(m)
  PROVE  ServicesInv'
<1>1. child[m] \in Children /\ op \in [Operators -> Calls]
  BY DEF ServicesInv, TypeOK
<1>2. /\ UNCHANGED <<boot, registry, runtime, processes, starts>> /\ op' = op
      /\ \A n \in Born \ {m} : child'[n] = child[n]
  BY DEF ChildExits, WaitReturns, ServicesInv, TypeOK
<1>3. PICK w \in {"none", "waiting", "noticing", "done", "lost"}, e \in {"zombie", "reaped"} :
        /\ child'[m] = [child[m] EXCEPT !.waiter = w, !.os = e]
        /\ \/ w = child[m].waiter /\ child[m].os = "running"
           \/ child[m].waiter = "waiting" /\ w = "noticing" /\ e = "reaped"
  <2>1. CASE ChildExits(m)
    <3>1. child'[m] = [child[m] EXCEPT !.os = IF child[m].waiter = "lost" THEN "reaped" ELSE "zombie"]
          /\ child[m].os = "running"
      BY <2>1 DEF ChildExits, ServicesInv, TypeOK
    <3>2. child[m].waiter \in {"none", "waiting", "noticing", "done", "lost"}
      BY <1>1 DEF Children
    <3>3. child'[m] = [child[m] EXCEPT !.waiter = child[m].waiter,
                                       !.os = IF child[m].waiter = "lost" THEN "reaped" ELSE "zombie"]
      BY <1>1, <3>1 DEF Children
    <3> QED
      BY <3>1, <3>2, <3>3
  <2>2. CASE WaitReturns(m)
    BY <2>2 DEF WaitReturns, ServicesInv, TypeOK
  <2> QED
    BY <2>1, <2>2
<1>4. /\ child'[m].svc = child[m].svc /\ child'[m].pid = child[m].pid
      /\ child'[m].killed = child[m].killed /\ child'[m].os = e /\ child'[m].waiter = w
  BY <1>1, <1>3 DEF Children
<1>5. child' \in [Born -> Children]
  <2>1. child'[m] \in Children
    BY <1>1, <1>3 DEF Children
  <2> QED
    BY <1>2, <2>1 DEF ChildExits, WaitReturns, ServicesInv, TypeOK
<1>6. child[m].os \in {"reaped", "simulated"} => child'[m].os = child[m].os
  <2>1. child[m].waiter = "waiting" => child[m].os # "simulated"
    BY DEF ServicesInv, ManagerInv, InstanceInv
  <2> QED
    BY <1>3, <1>4, <2>1
<1>7. /\ \/ child'[m].waiter = child[m].waiter
         \/ child[m].waiter = "waiting" /\ child'[m].waiter = "noticing" /\ child'[m].os = "reaped"
      /\ child'[m].os # "running" /\ child'[m].os # "simulated"
  BY <1>3, <1>4
<1> QED
  BY <1>1, <1>2, <1>4, <1>5, <1>6, <1>7, ChildStepPreserves

\* An instance ends: stopped with its child killed, or seen to exit by the waiter of a
\* child that has its number.
LEMMA InstanceEndsPreserves ==
  ASSUME ServicesInv, NEW s \in Services, NEW m \in Born, NEW end \in {"STOPPED", "CRASHED"},
         IsRunning(s), child[m].svc = s,
         UNCHANGED <<boot, registry, starts>>,
         processes' = [processes EXCEPT ![s].state = end],
         UpdateProcessRuntime(s, end, "none"),
         op' \in [Operators -> Calls],
         \A o \in Operators : op'[o].at # "spawned" /\ (op'[o] # NoCall => server = "up"),
         \/ /\ m = processes[s].n /\ end = "STOPPED"
            /\ child' = [child EXCEPT ![m] = Killed(@)]
         \/ /\ child[m].waiter = "noticing" /\ child[m].pid = RunningPid(s)
            /\ child' = [child EXCEPT ![m].waiter = "done"]
  PROVE  ServicesInv'
<1> USE DEF ServicesInv, ManagerInv
<1>1. Born' = Born
  BY DEF Born
<1>2. /\ processes[s].n \in Born /\ child[processes[s].n].svc = s
      /\ ~child[processes[s].n].killed
  BY DEF IsRunning, InstanceInv
<1>3. /\ \A t \in Services \ {s} : processes'[t] = processes[t] /\ runtime'[t] = runtime[t]
      /\ processes'[s].state = end /\ processes'[s].n = processes[s].n
  BY DEF UpdateProcessRuntime, TypeOK
<1>4. runtime'[s].state # "RUNNING" /\ (runtime'[s].state = "CRASHED" => end = "CRASHED")
  <2>1. CASE Registered(s)
    BY <2>1 DEF UpdateProcessRuntime, TypeOK
  <2>2. CASE ~Registered(s)
    BY <2>2 DEF UpdateProcessRuntime, RegistryInv, Stopped
  <2> QED
    BY <2>1, <2>2
<1>5. /\ child[m] \in Children /\ \A n \in Born \ {m} : child'[n] = child[n]
      /\ child'[m].svc = s /\ child'[m].pid = child[m].pid /\ child'[m].os = child[m].os
  BY DEF TypeOK, Children, Killed
<1>6. \/ /\ m = processes[s].n /\ end = "STOPPED"
         /\ child'[m].waiter = child[m].waiter
      \/ /\ child[m].waiter = "noticing" /\ child[m].pid = RunningPid(s)
         /\ child'[m].waiter = "done" /\ child'[m].killed = child[m].killed
  BY <1>5 DEF TypeOK, Children, Killed
<1>7. TypeOK'
  <2>1. child' \in [Born -> Children]
    <3>1. \/ child'[m] = [child[m] EXCEPT !.killed = (child[m].os # "simulated")]
          \/ child'[m] = [child[m] EXCEPT !.waiter = "done"]
      BY DEF TypeOK, Killed
    <3>2. child'[m] \in Children
      BY <1>5, <3>1 DEF Children
    <3>3. DOMAIN child' = Born /\ child' = [n \in Born |-> child'[n]]
      BY DEF TypeOK
    <3> QED
      BY <1>5, <3>2, <3>3 DEF TypeOK
  <2>2. processes' \in [Services -> [state : States \cup {"NONE"}, n : Born \cup {0}]]
    <3>1. processes[s].n \in Born \cup {0} /\ end \in States \cup {"NONE"}
      BY <1>2 DEF States
    <3>2. [processes[s] EXCEPT !.state = end] \in [state : States \cup {"NONE"}, n : Born \cup {0}]
      BY <3>1 DEF TypeOK
    <3> QED
      BY <3>2 DEF TypeOK
  <2>3. runtime' \in [Services -> [state : States, pid : Pids \cup {"none"}]]
    BY DEF TypeOK, States, UpdateProcessRuntime
  <2> QED
    BY <1>1, <2>1, <2>2, <2>3 DEF TypeOK, boot, registry
<1>8. RegistryInv'
  BY RegistryUntouched DEF boot, registry, TypeOK, UpdateProcessRuntime
<1>9. SpawnedInv'
  BY DEF SpawnedInv, boot
<1>10. InstanceInv'
  <2>1. \A t \in Services \ {s} : processes[t].state # "NONE" =>
          processes[t].n \in Born /\ child'[processes[t].n] = child[processes[t].n]
    BY <1>5 DEF InstanceInv
  <2>2. \A n \in Born :
          /\ child'[n].waiter \in {"noticing", "done"} => child'[n].os = "reaped"
          /\ child'[n].os = "simulated" => child'[n].waiter \in {"none", "lost"}
    BY <1>5, <1>6 DEF InstanceInv
  <2>3. child'[processes[s].n].svc = s
    BY <1>2, <1>5
  <2> QED
    BY <1>1, <1>2, <1>3, <2>1, <2>2, <2>3 DEF InstanceInv, IsRunning
<1>11. NoFakeRunning'
  <2> SUFFICES ASSUME NEW t \in Services
               PROVE  /\ runtime'[t].state = "RUNNING" =>
                           IsRunning(t)' /\ runtime'[t].pid = RunningPid(t)'
                      /\ IsRunning(t)' => /\ child'[processes'[t].n].svc = t
                                          /\ \/ child'[processes'[t].n].os = "simulated"
                                             \/ child'[processes'[t].n].waiter \in {"waiting", "noticing"}
    BY DEF NoFakeRunning
  <2>1. CASE t = s
    BY <1>3, <1>4, <2>1 DEF IsRunning
  <2>2. CASE t # s
    <3>1. IsRunning(t) => processes[t].n \in Born /\ child'[processes[t].n] = child[processes[t].n]
      BY <1>5, <2>2 DEF InstanceInv, IsRunning
    <3> QED
      BY <1>3, <2>2, <3>1 DEF NoFakeRunning, IsRunning, RunningPid
  <2> QED
    BY <2>1, <2>2
<1>12. NoChildForgotten'
  <2> SUFFICES ASSUME NEW n \in Born, child'[n].os = "running", child'[n].waiter = "waiting",
                      ~child'[n].killed
               PROVE  Known(n)' \/ Reused(n)'
    BY <1>1 DEF NoChildForgotten, Known
  <2>1. \A k \in Born : /\ child'[k].svc = child[k].svc /\ child'[k].pid = child[k].pid
                        /\ child'[k].os = child[k].os
    BY <1>5
  <2>2. child[n].waiter = "waiting" /\ ~child[n].killed
    <3>1. CASE n # m
      BY <1>5, <3>1
    <3>2. CASE n = m
      BY <1>2, <1>6, <3>2
    <3> QED
      BY <3>1, <3>2
  <2>3. Known(n) \/ Reused(n)
    BY <2>1, <2>2 DEF NoChildForgotten, Known
  <2>4. CASE Reused(n)
    BY <1>1, <2>1, <2>4 DEF Reused
  <2>5. CASE Known(n) /\ child[n].svc # s
    <3>1. child[n].svc \in Services
      BY DEF TypeOK, Children
    <3> QED
      BY <1>3, <2>1, <2>5, <3>1 DEF Known, IsRunning
  <2>6. CASE Known(n) /\ child[n].svc = s
    <3>0. child[m].waiter = "noticing" /\ child[m].pid = child[processes[s].n].pid
      <4>1. CASE m = processes[s].n /\ child' = [child EXCEPT ![m] = Killed(@)]
        <5>1. child[m].os = "running" /\ child'[m].killed = (child[m].os # "simulated")
          BY <1>5, <2>1, <2>6, <4>1 DEF Known, TypeOK, Children, Killed
        <5> QED
          BY <2>6, <4>1, <5>1 DEF Known
      <4>2. CASE child[m].waiter = "noticing" /\ child[m].pid = RunningPid(s)
        BY <4>2 DEF RunningPid
      <4> QED
        BY <4>1, <4>2
    <3>1. n # m /\ child[m].waiter = "noticing" /\ child[m].pid = child[n].pid
      BY <2>2, <2>6, <3>0 DEF Known
    <3>2. child[m].os = "reaped"
      BY <3>1 DEF InstanceInv
    <3> QED
      BY <1>1, <1>5, <2>1, <2>6, <3>1, <3>2 DEF Reused
  <2> QED
    BY <2>3, <2>4, <2>5, <2>6
<1>13. CrashIsNotAStop'
  <2>1. \A t \in Services \ {s} : processes[t].state # "NONE" =>
          processes[t].n \in Born /\ child'[processes[t].n] = child[processes[t].n]
    BY <1>5 DEF InstanceInv
  <2>2. \A k \in Born : /\ child'[k].svc = child[k].svc /\ child'[k].pid = child[k].pid
                        /\ child'[k].os = child[k].os
    BY <1>5
  <2>3. \A n \in Born : Reused(n) => Reused(n)'
    BY <1>1, <2>2 DEF Reused
  <2>4. ASSUME end = "CRASHED"
        PROVE  \/ child'[processes[s].n].os = "reaped" /\ ~child'[processes[s].n].killed
               \/ Reused(processes[s].n)'
    <3>1. /\ child[m].waiter = "noticing" /\ child[m].pid = child[processes[s].n].pid
          /\ child'[m].killed = child[m].killed
      BY <1>6, <2>4 DEF RunningPid
    <3>2. child[m].os = "reaped"
      BY <3>1 DEF InstanceInv
    <3>3. CASE m = processes[s].n
      BY <1>2, <2>2, <3>1, <3>2, <3>3
    <3>4. CASE m # processes[s].n
      BY <1>1, <1>2, <2>2, <3>1, <3>2, <3>4 DEF Reused
    <3> QED
      BY <3>3, <3>4
  <2>5. \A t \in Services : runtime'[t].state = "CRASHED" => processes'[t].state = "CRASHED"
    BY <1>3, <1>4 DEF CrashIsNotAStop
  <2>6. ASSUME NEW t \in Services \ {s}, processes[t].state = "CRASHED"
        PROVE  \/ child'[processes[t].n].os = "reaped" /\ ~child'[processes[t].n].killed
               \/ Reused(processes[t].n)'
    <3>1. processes[t].n \in Born /\ child'[processes[t].n] = child[processes[t].n]
      BY <2>1, <2>6
    <3>2. \/ child[processes[t].n].os = "reaped" /\ ~child[processes[t].n].killed
          \/ Reused(processes[t].n)
      BY <2>6 DEF CrashIsNotAStop
    <3> QED
      BY <2>3, <3>1, <3>2
  <2> SUFFICES ASSUME NEW t \in Services, processes'[t].state = "CRASHED"
               PROVE  \/ child'[processes'[t].n].os = "reaped" /\ ~child'[processes'[t].n].killed
                      \/ Reused(processes[t].n)' /\ processes'[t].n = processes[t].n
    BY <2>5 DEF CrashIsNotAStop, Reused
  <2>7. CASE t = s
    BY <1>3, <2>4, <2>7
  <2>8. CASE t # s
    BY <1>3, <2>6, <2>8
  <2> QED
    BY <2>7, <2>8
<1> QED
  BY <1>7, <1>8, <1>9, <1>10, <1>11, <1>12, <1>13

\* A stop, or the first half of a restart or of a deletion.
LEMMA StopServicePreserves ==
  ASSUME ServicesInv, NEW o \in Operators, NEW s \in Services,
         NEW then \in {"return", "toStart", "toUnregister"}, StopService(o, s, then)
  PROVE  ServicesInv'
<1> USE DEF ServicesInv
<1>1. /\ UNCHANGED <<boot, registry, starts>> /\ server = "up" /\ StopProcess(s)
      /\ \A q \in Operators : op[q].at # "spawned"
  BY DEF StopService, Idle, Unlocked
<1>2. PICK c \in Calls : c.at # "spawned" /\ op' = [op EXCEPT ![o] = c]
  BY DEF StopService, Return, Continue, Calls, NoCall
<1>3. /\ op' \in [Operators -> Calls]
      /\ \A q \in Operators : op'[q].at # "spawned" /\ (op'[q] # NoCall => server = "up")
  BY <1>1, <1>2 DEF TypeOK
<1>4. CASE IsRunning(s)
  <2>1. processes[s].n \in Born /\ child[processes[s].n].svc = s
    BY <1>4 DEF ManagerInv, InstanceInv, IsRunning
  <2>2. /\ child' = [child EXCEPT ![processes[s].n] = Killed(@)]
        /\ processes' = [processes EXCEPT ![s].state = "STOPPED"]
        /\ UpdateProcessRuntime(s, "STOPPED", "none")
    BY <1>1, <1>4 DEF StopProcess
  <2> QED
    BY <1>1, <1>3, <1>4, <2>1, <2>2, InstanceEndsPreserves
<1>5. CASE ~IsRunning(s)
  <2>1. UNCHANGED <<processes, runtime, child>>
    BY <1>1, <1>5 DEF StopProcess
  <2>2. TypeOK'
    BY <1>1, <1>3, <2>1 DEF TypeOK, Born, boot, registry
  <2>3. RegistryInv'
    BY <1>1, <2>1, RegistryUntouched DEF boot, registry
  <2>4. ManagerInv'
    BY <1>1, <1>3, <2>1, ManagerUntouched DEF children, boot
  <2> QED
    BY <2>2, <2>3, <2>4
<1> QED
  BY <1>4, <1>5

\* The waiter of a child takes the lock.
LEMMA NoticeExitPreserves ==
  ASSUME ServicesInv, NEW m \in Born, NoticeExit(m)
  PROVE  ServicesInv'
<1> DEFINE s == child[m].svc
<1> USE DEF ServicesInv
<1>1. /\ UNCHANGED <<boot, registry, starts>> /\ op' = op
      /\ child' = [child EXCEPT ![m].waiter = "done"] /\ child[m].waiter = "noticing"
      /\ \A q \in Operators : op[q].at # "spawned"
  BY DEF NoticeExit, Unlocked
<1>2. child[m] \in Children /\ s \in Services /\ op \in [Operators -> Calls]
  BY DEF TypeOK, Children
<1>3. CASE IsExitOf(m, s)
  <2>1. PICK end \in {"STOPPED", "CRASHED"} :
          /\ processes' = [processes EXCEPT ![s].state = end]
          /\ UpdateProcessRuntime(s, end, "none")
    BY <1>3 DEF NoticeExit
  <2>2. IsRunning(s) /\ child[m].pid = RunningPid(s)
    BY <1>3 DEF IsExitOf
  <2>3. \A o \in Operators : op'[o].at # "spawned" /\ (op'[o] # NoCall => server = "up")
    BY <1>1 DEF ManagerInv, SpawnedInv
  <2> HIDE DEF s
  <2>4. child[m].svc = s
    BY DEF s
  <2> QED
    BY <1>1, <1>2, <2>1, <2>2, <2>3, <2>4, InstanceEndsPreserves
<1>4. CASE ~IsExitOf(m, s)
  <2>1. UNCHANGED <<boot, registry, runtime, processes, starts>>
    BY <1>1, <1>4 DEF NoticeExit
  <2>2. /\ \A n \in Born \ {m} : child'[n] = child[n]
        /\ child'[m] = [child[m] EXCEPT !.waiter = "done"]
    BY <1>1 DEF TypeOK
  <2>3. /\ child'[m].svc = child[m].svc /\ child'[m].pid = child[m].pid
        /\ child'[m].killed = child[m].killed /\ child'[m].os = child[m].os
        /\ child'[m].waiter = "done"
    BY <1>2, <2>2 DEF Children
  <2>4. child' \in [Born -> Children]
    <3>1. child'[m] \in Children
      BY <1>2, <2>2 DEF Children
    <3> QED
      BY <1>1, <2>2, <3>1 DEF TypeOK
  <2>5. \A t \in Services : IsRunning(t) => processes[t].n # m
    BY <1>4 DEF IsExitOf, RunningPid, ManagerInv, InstanceInv, IsRunning
  <2> QED
    BY <1>1, <1>2, <2>1, <2>2, <2>3, <2>4, <2>5, ChildStepPreserves
<1> QED
  BY <1>3, <1>4

\* A crash leaves the children, with nobody who waits for them, and the state file.
LEMMA CrashPreserves == ServicesInv /\ Crash => ServicesInv'
<1> USE DEF ServicesInv
<1> SUFFICES ASSUME ServicesInv, Crash PROVE ServicesInv'
  OBVIOUS
<1>1. /\ server' = "down" /\ byID' = [s \in Services |-> NoDef]
      /\ bySlug' = [x \in Slugs |-> "none"] /\ runtime' = [s \in Services |-> Stopped]
      /\ processes' = [s \in Services |-> NoInstance] /\ op' = [o \in Operators |-> NoCall]
      /\ crashes < MaxCrashes /\ crashes' = crashes + 1 /\ server # "down"
      /\ UNCHANGED <<file, disk, deleted, starts>> /\ Born' = Born
  BY DEF Crash, Born
<1>2. child' = [n \in Born |->
                  [child[n] EXCEPT !.waiter = "lost",
                                   !.os = IF @ = "zombie" THEN "reaped" ELSE @]]
  BY DEF Crash
<1>3. \A n \in Born : child'[n] \in Children /\ child'[n].waiter = "lost"
  <2> SUFFICES ASSUME NEW n \in Born PROVE child'[n] \in Children /\ child'[n].waiter = "lost"
    OBVIOUS
  <2>1. child[n] \in Children
    BY DEF TypeOK
  <2>2. PICK e \in {"running", "zombie", "reaped", "simulated"} :
          child'[n] = [child[n] EXCEPT !.waiter = "lost", !.os = e]
    BY <1>2, <2>1 DEF Children
  <2> QED
    BY <2>1, <2>2 DEF Children
<1>4. TypeOK'
  <2>1. child' \in [Born -> Children]
    BY <1>2, <1>3
  <2>2. crashes' \in 0 .. MaxCrashes
    BY <1>1, BoundsAssumption DEF TypeOK
  <2>3. /\ runtime' \in [Services -> [state : States, pid : Pids \cup {"none"}]]
        /\ processes' \in [Services -> [state : States \cup {"NONE"}, n : Born \cup {0}]]
    BY <1>1 DEF Stopped, States, NoInstance
  <2>4. /\ byID' \in [Services -> Definitions \cup {NoDef}]
        /\ bySlug' \in [Slugs -> Services \cup {"none"}]
        /\ op' \in [Operators -> Calls]
    BY <1>1 DEF Calls
  <2> QED
    BY <1>1, <2>1, <2>2, <2>3, <2>4 DEF TypeOK
<1>5. RegistryInv'
  <2>1. /\ \A s \in Services : byID'[s] = NoDef /\ runtime'[s] = Stopped
        /\ \A x \in Slugs : bySlug'[x] = "none"
        /\ file' = file /\ file /\ disk' = disk /\ deleted' = deleted
    BY <1>1 DEF RegistryInv, TypeOK
  <2>2. NoResurrection'
    BY <2>1 DEF RegistryInv, NoResurrection, TypeOK
  <2>3. RoutesMatchServices'
    BY <1>1 DEF RoutesMatchServices
  <2> QED
    BY <1>1, <2>1, <2>2, <2>3 DEF RegistryInv, Registered
<1>6. SpawnedInv'
  BY <1>1 DEF SpawnedInv, NoCall
<1>7. InstanceInv'
  BY <1>1, <1>3 DEF InstanceInv, IsRunning, NoInstance
<1>8. NoFakeRunning'
  BY <1>1 DEF NoFakeRunning, IsRunning, NoInstance, Stopped
<1>9. NoChildForgotten'
  BY <1>1, <1>3 DEF NoChildForgotten
<1>10. CrashIsNotAStop'
  BY <1>1 DEF CrashIsNotAStop, NoInstance, Stopped
<1> QED
  BY <1>4, <1>5, <1>6, <1>7, <1>8, <1>9, <1>10 DEF ManagerInv

-----------------------------------------------------------------------------
LEMMA ServicesInvStep == ServicesInv /\ [Next]_vars => ServicesInv'
<1> SUFFICES ASSUME ServicesInv, [Next]_vars PROVE ServicesInv'
  OBVIOUS
<1>1. CASE Boot
  BY <1>1, BootPreserves
<1>2. CASE Edit
  BY <1>2, EditPreserves
<1>3. ASSUME NEW o \in Operators, Goes(o) PROVE ServicesInv'
  BY <1>3, RefusalsPreserve, StartRecordedPreserves, StartUnrecordedPreserves, UnregisterPreserves
     DEF Goes
<1>4. ASSUME NEW o \in Operators, NEW s \in Services,
             \/ StartFails(o, s) \/ StartSpawns(o, s)
             \/ \E then \in {"return", "toStart", "toUnregister"} : StopService(o, s, then)
      PROVE  ServicesInv'
  BY <1>4, RefusalsPreserve, StartSpawnsPreserves, StopServicePreserves
<1>5. ASSUME NEW n \in Born, ChildExits(n) \/ Waits(n) PROVE ServicesInv'
  BY <1>5, ExitsPreserve, NoticeExitPreserves DEF Waits
<1>6. CASE Crash
  BY <1>6, CrashPreserves
<1>7. CASE UNCHANGED vars
  <2>1. TypeOK'
    BY <1>7 DEF vars, boot, registry, children, ServicesInv, TypeOK, Born
  <2>2. RegistryInv'
    BY <1>7, RegistryUntouched DEF vars, boot, registry
  <2>3. ManagerInv'
    BY <1>7, ManagerUntouched DEF vars, boot, children, ServicesInv, ManagerInv, SpawnedInv
  <2> QED
    BY <2>1, <2>2, <2>3 DEF ServicesInv
<1> QED
  BY <1>1, <1>2, <1>3, <1>4, <1>5, <1>6, <1>7 DEF Next, Manage

\* The invariant, with every variable's type, for services, slugs, operators and
\* process numbers in any number.
THEOREM ServicesInvHolds == Spec => []ServicesInv
BY ServicesInvInit, ServicesInvStep, PTL DEF Spec

\* What the server, the registry, the manager and the operators hold has its type.
THEOREM ServicesTypes == Spec => []TypeOK
BY ServicesInvHolds, PTL DEF ServicesInv

\* Through registrations, renamings, deletions and crashes a slug leads to the service
\* registered under it, whatever the identifiers, and memory holds what the next start
\* restores of each service whose identifier is the only one trimmed to it.
THEOREM ServicesRoutesMatch == Spec => []RoutesMatchServices
<1>1. ServicesInv => RoutesMatchServices
  BY DEF ServicesInv, RegistryInv
<1> QED
  BY <1>1, ServicesInvHolds, PTL

\* A deleted service stays deleted, through crashes and restarts, until it is
\* registered again, if its identifier is the only one that is trimmed to it.
THEOREM ServicesNoResurrection == Spec => []NoResurrection
<1>1. ServicesInv => NoResurrection
  BY DEF ServicesInv, RegistryInv
<1> QED
  BY <1>1, ServicesInvHolds, PTL

\* A service is shown as running only while the manager runs it, under its number, with
\* a goroutine that waits for its child unless it is simulated.
THEOREM ServicesNoFakeRunning == Spec => []NoFakeRunning
<1>1. ServicesInv => NoFakeRunning
  BY DEF ServicesInv, ManagerInv
<1> QED
  BY <1>1, ServicesInvHolds, PTL

\* The manager knows each running child that nobody killed, but for one that got the
\* process number of an older child of its service.
THEOREM ServicesNoChildForgotten == Spec => []NoChildForgotten
<1>1. ServicesInv => NoChildForgotten
  BY DEF ServicesInv, ManagerInv
<1> QED
  BY <1>1, ServicesInvHolds, PTL

\* A service is reported to have crashed only when its own child exited by itself, or
\* had got the number of an older child of the service.
THEOREM ServicesCrashIsNotAStop == Spec => []CrashIsNotAStop
<1>1. ServicesInv => CrashIsNotAStop
  BY DEF ServicesInv, ManagerInv
<1> QED
  BY <1>1, ServicesInvHolds, PTL
===============================================================================
