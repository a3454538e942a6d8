---------------------------- MODULE ControlPlane ----------------------------
(***************************************************************************)
(* The control plane of the server: the device registry                    *)
(* (server/pkg/registry/device_registry.go), the durable admin handler and *)
(* its audit log (server/pkg/admin), the SQLite state both write           *)
(* (server/pkg/persistence), the gateway's device check                    *)
(* (server/pkg/gateway) and start-up (server/cmd/webgate-server).          *)
(*                                                                         *)
(* Admin requests hold the handler's mutex and come one at a time.  The    *)
(* registry's own lock covers the transaction that saves a device and the  *)
(* assignment that installs it in memory, which are two steps here; a      *)
(* crash may come between any two steps.  A transaction happens whole or   *)
(* fails whole.                                                            *)
(***************************************************************************)
EXTENDS Naturals

CONSTANTS Devices, Challenges,
          Requests,    \* gateway requests in progress at the same time
          Times,       \* bound: the microseconds LogAudit can name an event by
          MaxEvents,   \* bound: audit events
          MaxCrashes   \* bound: crashes of the process

ASSUME BoundsAssumption == MaxEvents \in Nat /\ MaxCrashes \in Nat
ASSUME NamesAssumption ==
  /\ Devices \cap {"unissued", "gone"} = {}
  /\ "random" \notin Times

VARIABLES
  disk, mem,             \* each device's status in SQLite and in the registry
  saving,                \* the devices whose saved status is not installed yet:
                         \* the registry's lock is held while there is one
  chal,                  \* each challenge: unissued, the device it is for, gone
  diskConfig, memConfig, \* the control configuration, named by its event
  diskAudit, memAudit,   \* the audit events in SQLite and in AdminAPI.auditLog
  proc,                  \* the process: down, starting up, up
  admin,                 \* where the admin request is
  adev, awant,           \* its device and what it asks for
  aevent,                \* the events it has produced
  events,                \* how many events there have been
  req, rdev,             \* where each gateway request is, and its device
  acked,                 \* history: events of the requests answered with success
  stale,                 \* history: challenges issued before their device's revocation
  crashes

registry == <<disk, mem, saving, chal, stale>>
config == <<diskConfig, memConfig>>
audit == <<diskAudit, memAudit, events>>
handler == <<admin, adev, awant, aevent, acked>>
requests == <<req, rdev>>
process == <<proc, crashes>>
vars == <<registry, config, audit, handler, requests, process>>

-----------------------------------------------------------------------------

Statuses == {"ABSENT", "PENDING", "ACTIVE", "SUSPENDED", "REVOKED"}

\* What an admin asks for: an enrolment or a status (revoking is asking for REVOKED).
Wants == {"ENROLL"} \cup (Statuses \ {"ABSENT"})
\* Mutant of Target: an enrolment keeps the status it came with.
TargetUnchanged(x) == x

Target(x) == IF x = "ENROLL" THEN "PENDING" ELSE x

\* The n-th event.  LogAudit names it by the time, newAuditEvent by random bytes.
Event(n, id) == [n |-> n, id |-> id]
Events == [n : 1 .. MaxEvents, id : Times \cup {"random"}]
Clash(e, f) == e.id = f.id /\ e.id # "random" /\ e.n # f.n
Clashes(es) == \E e \in es, f \in es : Clash(e, f)

Locked == saving # {}

Gone(c) == IF chal[c] = "unissued" THEN "unissued" ELSE "gone"

Init ==
  /\ disk = [d \in Devices |-> "ABSENT"] /\ mem = disk
  /\ saving = {}
  /\ chal = [c \in Challenges |-> "unissued"]
  /\ diskConfig = 0 /\ memConfig = 0
  /\ diskAudit = {} /\ memAudit = {} /\ events = 0
  /\ proc = "down"
  /\ admin = "idle"
  /\ adev \in Devices /\ awant = "ENROLL"
  /\ aevent = {} /\ acked = {}
  /\ req = [g \in Requests |-> "idle"]
  /\ rdev \in [Requests -> Devices]
  /\ stale = {}
  /\ crashes = 0

-----------------------------------------------------------------------------
\* Start-up: main.

\* The registries are restored from disk, without challenges; the configuration
\* comes from disk or, if main was given one, from a file.
Restore ==
  /\ proc = "down"
  /\ proc' = "restored"
  /\ mem' = disk
  /\ memConfig' \in {diskConfig, 0}
  /\ UNCHANGED <<disk, saving, chal, stale, diskConfig, audit, handler, requests, crashes>>

SaveStartConfig ==
  /\ proc = "restored"
  /\ proc' = "configured"
  /\ diskConfig' = memConfig
  /\ memAudit' = diskAudit     \* NewDurableAdminHandler
  /\ UNCHANGED <<registry, memConfig, diskAudit, events, handler, requests, crashes>>

\* RecordAudit, after which the listeners are opened.
RecordStart ==
  /\ proc = "configured"
  /\ events < MaxEvents
  /\ proc' = "up"
  /\ events' = events + 1
  /\ diskAudit' = diskAudit \cup {Event(events', "random")}
  /\ memAudit' = memAudit \cup {Event(events', "random")}
  /\ UNCHANGED <<registry, config, handler, requests, crashes>>

-----------------------------------------------------------------------------
\* The device registry.

Save(d, s) ==
  /\ disk' = [disk EXCEPT ![d] = s]
  /\ saving' = {d}

Install(d) ==
  /\ mem' = [mem EXCEPT ![d] = disk[d]]
  /\ saving' = {}

\* CreateChallenge, for any device that exists, whatever its status.
CreateChallenge(c, d) ==
  /\ proc = "up" /\ ~Locked
  /\ chal[c] = "unissued" /\ mem[d] # "ABSENT"
  /\ chal' = [chal EXCEPT ![c] = d]
  /\ UNCHANGED <<disk, mem, saving, stale, config, audit, handler, requests, process>>

\* VerifyAndActivate: the challenge is spent; it had expired, the signature was
\* wrong or the device could not be saved.
VerifyFails(c) ==
  /\ proc = "up" /\ ~Locked
  /\ chal[c] \in Devices
  /\ chal' = [chal EXCEPT ![c] = "gone"]
  /\ UNCHANGED <<disk, mem, saving, stale, config, audit, handler, requests, process>>

\* Mutant of Verify: the challenge stays usable.
VerifyReusing(c) ==
  /\ proc = "up" /\ ~Locked
  /\ chal[c] \in Devices
  /\ Save(chal[c], "ACTIVE")
  /\ UNCHANGED <<mem, chal, stale, config, audit, handler, requests, process>>

\* The proof holds: the device is saved as active, whatever it was.
Verify(c) ==
  /\ proc = "up" /\ ~Locked
  /\ chal[c] \in Devices
  /\ chal' = [chal EXCEPT ![c] = "gone"]
  /\ Save(chal[c], "ACTIVE")
  /\ UNCHANGED <<mem, stale, config, audit, handler, requests, process>>

VerifyInstalls ==
  /\ admin # "saving"
  /\ \E d \in saving : Install(d)
  /\ UNCHANGED <<disk, chal, stale, config, audit, handler, requests, process>>

-----------------------------------------------------------------------------
\* An admin request for a device: DurableAdminHandler.ServeHTTP around
\* handleEnrollDevice, handleRevokeDevice or handleUpdateDeviceStatus.

AdminStep(from, to) == admin = from /\ admin' = to

AdminRequest(d, x) ==
  /\ proc = "up"
  /\ AdminStep("idle", "handling")
  /\ adev' = d /\ awant' = x
  /\ UNCHANGED <<registry, config, audit, aevent, acked, requests, process>>

\* Any other request, such as reading the audit log: it only syncs.
AdminReads ==
  /\ proc = "up"
  /\ AdminStep("idle", "syncing")
  /\ UNCHANGED <<registry, config, audit, adev, awant, aevent, acked, requests, process>>

\* Enroll wants a new device, the others a known one; only VerifyAndActivate makes
\* a device active.
Permitted(d, x) ==
  /\ x = "ENROLL" <=> mem[d] = "ABSENT"
  /\ x = "ACTIVE" => mem[d] = "ACTIVE"

\* Mutant of AdminFails: a save that fails has been installed already.
AdminFailsInstalled ==
  /\ ~Locked
  /\ AdminStep("handling", "syncing")
  /\ mem' = IF Permitted(adev, awant) THEN [mem EXCEPT ![adev] = Target(awant)] ELSE mem
  /\ UNCHANGED <<disk, saving, chal, stale, config, audit, adev, awant, aevent, acked,
                 requests, process>>

\* The registry refuses or cannot save the device: an error is buffered.
AdminFails ==
  /\ ~Locked
  /\ AdminStep("handling", "syncing")
  /\ UNCHANGED <<registry, config, audit, adev, awant, aevent, acked, requests, process>>

AdminSaves ==
  /\ ~Locked
  /\ Permitted(adev, awant)
  /\ AdminStep("handling", "saving")
  /\ Save(adev, Target(awant))
  /\ stale' = IF awant = "REVOKED" THEN stale \cup {c \in Challenges : chal[c] = adev}
                                   ELSE stale
  /\ UNCHANGED <<mem, chal, config, audit, adev, awant, aevent, acked, requests, process>>

AdminInstalls ==
  /\ AdminStep("saving", "logging")
  /\ Install(adev)
  /\ UNCHANGED <<disk, chal, stale, config, audit, adev, awant, aevent, acked, requests,
                 process>>

\* LogAudit; the clock's microsecond may be one that named an event before.
LogAudit ==
  /\ events < MaxEvents
  /\ AdminStep("logging", "syncing")
  /\ \E t \in Times :
       /\ events' = events + 1
       /\ aevent' = {Event(events', t)}
       /\ memAudit' = memAudit \cup aevent'
  /\ UNCHANGED <<registry, config, diskAudit, adev, awant, acked, requests, process>>

\* Mutant of Sync: a record with the same id is overwritten.
SyncOverwrites ==
  /\ AdminStep("syncing", "answering")
  /\ diskAudit' = {e \in diskAudit \cup memAudit :
                     \A f \in memAudit : Clash(e, f) => f.n < e.n}
  /\ UNCHANGED <<registry, config, memAudit, events, adev, awant, aevent, acked, requests,
                 process>>

\* syncAudit appends the whole log in memory, in one transaction; a record that is
\* there already is left alone, another record with its id is corruption.
Sync ==
  /\ AdminStep("syncing", "answering")
  /\ ~Clashes(memAudit \cup diskAudit)
  /\ diskAudit' = diskAudit \cup memAudit
  /\ UNCHANGED <<registry, config, memAudit, events, adev, awant, aevent, acked, requests,
                 process>>

\* Mutant of SyncFails: the buffered response goes out all the same.
SyncFailsUnnoticed ==
  /\ AdminStep("syncing", "answering")
  /\ UNCHANGED <<registry, config, audit, adev, awant, aevent, acked, requests, process>>

\* A clash or a failing disk: the request is answered 503.
SyncFails ==
  /\ AdminStep("syncing", "idle")
  /\ aevent' = {}
  /\ UNCHANGED <<registry, config, audit, adev, awant, acked, requests, process>>

Answer ==
  /\ AdminStep("answering", "idle")
  /\ acked' = acked \cup aevent
  /\ aevent' = {}
  /\ UNCHANGED <<registry, config, audit, adev, awant, requests, process>>

\* handleUpdateConfig and handleBindConfig: the configuration and its event are one
\* transaction, and the log in memory is not synced.  One that fails changes nothing.
SaveConfig ==
  /\ proc = "up"
  /\ events < MaxEvents
  /\ AdminStep("idle", "configSaved")
  /\ events' = events + 1
  /\ aevent' = {Event(events', "random")}
  /\ diskConfig' = events'
  /\ diskAudit' = diskAudit \cup aevent'
  /\ UNCHANGED <<registry, memConfig, memAudit, adev, awant, acked, requests, process>>

InstallConfig ==
  /\ AdminStep("configSaved", "answering")
  /\ memConfig' = diskConfig
  /\ memAudit' = memAudit \cup aevent
  /\ UNCHANGED <<registry, diskConfig, diskAudit, events, adev, awant, aevent, acked,
                 requests, process>>

-----------------------------------------------------------------------------
\* The gateway: ServeHTTP.  Which service is asked for makes no difference here.

RequestStep(g, from, to) ==
  /\ req[g] = from
  /\ req' = [req EXCEPT ![g] = to]

CheckDevice(g, d) ==
  /\ proc = "up" /\ ~Locked
  /\ mem[d] = "ACTIVE"
  /\ RequestStep(g, "idle", "authorizing")
  /\ rdev' = [rdev EXCEPT ![g] = d]
  /\ UNCHANGED <<registry, config, audit, handler, process>>

Authorize(g) ==
  /\ RequestStep(g, "authorizing", "proxying")
  /\ UNCHANGED <<registry, config, audit, handler, rdev, process>>

\* Refused by the authority, or answered.
EndRequest(g) ==
  /\ \E at \in {"authorizing", "proxying"} : RequestStep(g, at, "idle")
  /\ UNCHANGED <<registry, config, audit, handler, rdev, process>>

-----------------------------------------------------------------------------

\* The process is killed, or a step of start-up fails.
Crash ==
  /\ proc # "down"
  /\ crashes < MaxCrashes
  /\ crashes' = crashes + 1
  /\ proc' = "down"
  /\ mem' = [d \in Devices |-> "ABSENT"] /\ saving' = {}
  /\ chal' = [c \in Challenges |-> Gone(c)]
  /\ memConfig' = 0 /\ memAudit' = {}
  /\ admin' = "idle" /\ aevent' = {}
  /\ req' = [g \in Requests |-> "idle"]
  /\ UNCHANGED <<disk, stale, diskConfig, diskAudit, events, adev, awant, acked, rdev>>

StartUp == Restore \/ SaveStartConfig \/ RecordStart

Proof == \/ VerifyInstalls
         \/ \E c \in Challenges : \/ \E d \in Devices : CreateChallenge(c, d)
                                  \/ VerifyFails(c) \/ Verify(c)

Admin ==
  \/ \E d \in Devices, x \in Wants : AdminRequest(d, x)
  \/ AdminReads
  \/ AdminFails \/ AdminSaves \/ AdminInstalls \/ LogAudit
  \/ Sync \/ SyncFails \/ Answer
  \/ SaveConfig \/ InstallConfig

Gateway ==
  \E g \in Requests : \/ \E d \in Devices : CheckDevice(g, d)
                      \/ Authorize(g) \/ EndRequest(g)

Next == StartUp \/ Proof \/ Admin \/ Gateway \/ Crash

Spec == Init /\ [][Next]_vars

-----------------------------------------------------------------------------

TypeOK ==
  /\ disk \in [Devices -> Statuses] /\ mem \in [Devices -> Statuses]
  /\ saving \subseteq Devices
  /\ chal \in [Challenges -> Devices \cup {"unissued", "gone"}]
  /\ diskConfig \in 0 .. MaxEvents /\ memConfig \in 0 .. MaxEvents
  /\ diskAudit \subseteq Events /\ memAudit \subseteq Events
  /\ events \in 0 .. MaxEvents
  /\ proc \in {"down", "restored", "configured", "up"}
  /\ admin \in {"idle", "handling", "saving", "logging", "syncing", "answering",
                "configSaved"}
  /\ adev \in Devices /\ awant \in Wants
  /\ aevent \subseteq Events /\ acked \subseteq Events
  /\ req \in [Requests -> {"idle", "authorizing", "proxying"}]
  /\ rdev \in [Requests -> Devices]
  /\ stale \subseteq Challenges
  /\ crashes \in 0 .. MaxCrashes

\* "Durable mutation commits before authoritative memory changes; failure leaves
\* memory unchanged" (I-026): what the registry and the configuration serve from
\* memory is what a restart would restore, except while one save is installed.
MemoryIsDurable ==
  /\ proc # "down" => \A d \in Devices \ saving : mem[d] = disk[d]
  /\ proc = "up" /\ admin # "configSaved" => memConfig = diskConfig

\* A request is answered with success only when its audit event is in SQLite
\* ("buffers ordinary admin responses until newly produced audit records are
\* durable"), and a crash does not take the event away.
AcknowledgedIsAudited == acked \subseteq diskAudit

\* No record leaves the durable log, and an event that could not be made durable
\* stays in memory for the next request to write, as long as the process lives.
AuditOnlyGrows ==
  [][/\ diskAudit \subseteq diskAudit'
     /\ proc' # "down" => memAudit \subseteq memAudit' \cup diskAudit']_vars

\* Seen through SQLite, registry, admin requests, proofs and crashes together keep
\* the ledger: statuses survive, a proof counts once, and the gateway admits a
\* request only of a device that is active.
Ledger == INSTANCE AccessLedger WITH
  status <- disk,
  spent <- {c \in Challenges : chal[c] = "gone"},
  admitted <- {<<g, rdev[g]>> : g \in {r \in Requests : req[r] # "idle"}}
ImplementsLedger == Ledger!LedgerSpec

\* The inductive strengthening: what each step of a request, of start-up and of a
\* proof may rely on about the lock, the process and the log.
LockInv ==
  /\ \A d, e \in saving : d = e
  /\ admin = "saving" => saving = {adev}
  /\ \A c \in Challenges : chal[c] \in Devices => disk[chal[c]] # "ABSENT"

ProcessInv ==
  /\ proc # "up" => /\ admin = "idle" /\ saving = {}
                    /\ \A c \in Challenges : chal[c] \notin Devices
                    /\ \A g \in Requests : req[g] = "idle"
  /\ proc = "configured" => memConfig = diskConfig
  /\ proc \in {"down", "restored"} => memAudit = {}

EventInv ==
  /\ admin \in {"idle", "handling", "saving", "logging"} => aevent = {}
  /\ admin = "syncing" => aevent \subseteq memAudit
  /\ admin \in {"answering", "configSaved"} => aevent \subseteq diskAudit

StepInv == LockInv /\ ProcessInv /\ EventInv

IInv == TypeOK /\ StepInv /\ MemoryIsDurable /\ AcknowledgedIsAudited

-----------------------------------------------------------------------------
(***************************************************************************)
(* What the repository says of the control plane and the code does not do. *)
(***************************************************************************)

\* "Reactivation of a revoked/lost device requires explicit re-enrollment or fresh
\* PoP": a challenge that was issued before the revocation does not undo it.
RevokedNeedsFreshProof ==
  [][\A c \in stale, d \in Devices :
       chal[c] = d /\ chal'[c] = "gone" /\ disk[d] = "REVOKED" => disk'[d] = "REVOKED"]_vars
=============================================================================
