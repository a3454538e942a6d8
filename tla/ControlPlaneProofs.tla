------------------------- MODULE ControlPlaneProofs -------------------------
(***************************************************************************)
(* Proofs about ControlPlane, for any sets of devices, challenges and      *)
(* requests and any bounds.                                                *)
(***************************************************************************)
EXTENDS ControlPlane, TLAPS

USE BoundsAssumption, NamesAssumption

\* The next event is one, whatever it is named by.
LEMMA EventType ==
  ASSUME events \in 0 .. MaxEvents, events < MaxEvents, NEW id \in Times \cup {"random"}
  PROVE  events + 1 \in 0 .. MaxEvents /\ Event(events + 1, id) \in Events
BY DEF Event, Events

\* What a save and an installation do to the types.
LEMMA RegistryTypes ==
  ASSUME TypeOK, NEW d \in Devices, NEW s \in Statuses
  PROVE  /\ Save(d, s) => disk' \in [Devices -> Statuses] /\ saving' \subseteq Devices
         /\ Install(d) => mem' \in [Devices -> Statuses] /\ saving' \subseteq Devices
BY DEF TypeOK, Save, Install

LEMMA TargetType == \A x \in Wants : Target(x) \in Statuses \ {"ABSENT"}
BY DEF Wants, Target, Statuses

LEMMA InitIInv == Init => IInv
<1> SUFFICES ASSUME Init PROVE IInv
  OBVIOUS
<1>1. TypeOK
  BY DEF Init, TypeOK, Statuses, Wants, Events
<1>2. StepInv
  BY DEF Init, StepInv, LockInv, ProcessInv, EventInv
<1>3. MemoryIsDurable /\ AcknowledgedIsAudited
  BY DEF Init, MemoryIsDurable, AcknowledgedIsAudited
<1> QED
  BY <1>1, <1>2, <1>3 DEF IInv

\* The types are an invariant of every step.
LEMMA TypeStep == TypeOK /\ [Next]_vars => TypeOK'
<1> SUFFICES ASSUME TypeOK, [Next]_vars PROVE TypeOK'
  OBVIOUS
<1> USE DEF TypeOK, registry, config, audit, handler, requests, process, AdminStep,
            RequestStep
<1>1. CASE StartUp
  <2>1. CASE Restore \/ SaveStartConfig
    BY <2>1 DEF Restore, SaveStartConfig
  <2>2. CASE RecordStart
    BY <2>2, EventType DEF RecordStart
  <2> QED
    BY <1>1, <2>1, <2>2 DEF StartUp
<1>2. CASE Proof
  <2>1. CASE VerifyInstalls
    BY <2>1, RegistryTypes DEF VerifyInstalls, Install
  <2>2. ASSUME NEW c \in Challenges, NEW d \in Devices, CreateChallenge(c, d)
        PROVE TypeOK'
    BY <2>2 DEF CreateChallenge
  <2>3. ASSUME NEW c \in Challenges, VerifyFails(c) PROVE TypeOK'
    BY <2>3 DEF VerifyFails
  <2>4. ASSUME NEW c \in Challenges, Verify(c) PROVE TypeOK'
    BY <2>4, RegistryTypes DEF Verify, Save, Statuses
  <2> QED
    BY <1>2, <2>1, <2>2, <2>3, <2>4 DEF Proof
<1>3. CASE Admin
  <2>1. ASSUME NEW d \in Devices, NEW x \in Wants, AdminRequest(d, x) PROVE TypeOK'
    BY <2>1 DEF AdminRequest
  <2>2. CASE AdminReads \/ AdminFails \/ Sync \/ SyncFails \/ Answer
    BY <2>2 DEF AdminReads, AdminFails, Sync, SyncFails, Answer
  <2>3. CASE AdminSaves
    BY <2>3, RegistryTypes, TargetType DEF AdminSaves, Save
  <2>4. CASE AdminInstalls
    BY <2>4, RegistryTypes DEF AdminInstalls, Install
  <2>5. CASE LogAudit
    BY <2>5, EventType DEF LogAudit
  <2>6. CASE SaveConfig \/ InstallConfig
    BY <2>6, EventType DEF SaveConfig, InstallConfig
  <2> QED
    BY <1>3, <2>1, <2>2, <2>3, <2>4, <2>5, <2>6 DEF Admin
<1>4. CASE Gateway
  BY <1>4 DEF Gateway, CheckDevice, Authorize, EndRequest
<1>5. CASE Crash
  BY <1>5 DEF Crash, Gone, Statuses
<1>6. CASE UNCHANGED vars
  BY <1>6 DEF vars
<1> QED
  BY <1>1, <1>2, <1>3, <1>4, <1>5, <1>6 DEF Next

\* Every step leaves the lock, the process, the log and the memory as the others
\* rely on.
LEMMA InvStep ==
  IInv /\ [Next]_vars => StepInv' /\ MemoryIsDurable' /\ AcknowledgedIsAudited'
<1> SUFFICES ASSUME IInv, [Next]_vars
             PROVE  StepInv' /\ MemoryIsDurable' /\ AcknowledgedIsAudited'
  OBVIOUS
<1> USE DEF IInv, TypeOK, StepInv, LockInv, ProcessInv, EventInv, MemoryIsDurable,
            AcknowledgedIsAudited, Locked, registry, config, audit, handler, requests,
            process, AdminStep, RequestStep
<1>1. CASE StartUp
  BY <1>1 DEF StartUp, Restore, SaveStartConfig, RecordStart
<1>2. CASE Proof
  <2>1. CASE VerifyInstalls
    BY <2>1 DEF VerifyInstalls, Install
  <2>2. ASSUME NEW c \in Challenges, NEW d \in Devices, CreateChallenge(c, d)
        PROVE  StepInv' /\ MemoryIsDurable' /\ AcknowledgedIsAudited'
    BY <2>2 DEF CreateChallenge
  <2>3. ASSUME NEW c \in Challenges, VerifyFails(c)
        PROVE  StepInv' /\ MemoryIsDurable' /\ AcknowledgedIsAudited'
    BY <2>3 DEF VerifyFails
  <2>4. ASSUME NEW c \in Challenges, Verify(c)
        PROVE  StepInv' /\ MemoryIsDurable' /\ AcknowledgedIsAudited'
    BY <2>4 DEF Verify, Save
  <2> QED
    BY <1>2, <2>1, <2>2, <2>3, <2>4 DEF Proof
<1>3. CASE Admin
  <2>1. ASSUME NEW d \in Devices, NEW x \in Wants, AdminRequest(d, x)
        PROVE  StepInv' /\ MemoryIsDurable' /\ AcknowledgedIsAudited'
    BY <2>1 DEF AdminRequest
  <2>2. CASE AdminReads \/ AdminFails
    BY <2>2 DEF AdminReads, AdminFails
  <2>3. CASE AdminSaves
    BY <2>3, TargetType DEF AdminSaves, Save
  <2>4. CASE AdminInstalls
    BY <2>4 DEF AdminInstalls, Install
  <2>5. CASE LogAudit
    BY <2>5 DEF LogAudit
  <2>6. CASE Sync \/ SyncFails
    BY <2>6 DEF Sync, SyncFails
  <2>7. CASE Answer
    BY <2>7 DEF Answer
  <2>8. CASE SaveConfig \/ InstallConfig
    BY <2>8 DEF SaveConfig, InstallConfig
  <2> QED
    BY <1>3, <2>1, <2>2, <2>3, <2>4, <2>5, <2>6, <2>7, <2>8 DEF Admin
<1>4. CASE Gateway
  BY <1>4 DEF Gateway, CheckDevice, Authorize, EndRequest
<1>5. CASE Crash
  BY <1>5 DEF Crash, Gone
<1>6. CASE UNCHANGED vars
  BY <1>6 DEF vars
<1> QED
  BY <1>1, <1>2, <1>3, <1>4, <1>5, <1>6 DEF Next

\* The inductive invariant: types, the lock, the process, the log in transit, the
\* memory and the acknowledgements.
THEOREM Invariance == Spec => []IInv
<1>1. IInv /\ [Next]_vars => IInv'
  BY TypeStep, InvStep DEF IInv
<1> QED
  BY InitIInv, <1>1, PTL DEF Spec

\* Devices keep to their statuses, requests and the steps of a handler to their
\* records, and every event that is written, in memory or in SQLite, names a change
\* that the handlers make.
THEOREM TypeCorrect == Spec => []TypeOK
BY Invariance, PTL DEF IInv

\* The registry and the configuration never serve from memory what a restart would
\* not restore (saveDeviceLocked before the assignment, SaveControlConfigWithAudit
\* before InstallConfig).
THEOREM Durable == Spec => []MemoryIsDurable
BY Invariance, PTL DEF IInv

\* No request is answered with success before its event is in SQLite (syncAudit
\* before flushTo).
THEOREM Audited == Spec => []AcknowledgedIsAudited
BY Invariance, PTL DEF IInv

\* No step takes a record from SQLite or, while the process lives, from the log in
\* memory before it is in SQLite.
LEMMA AuditStep ==
  ASSUME IInv, [Next]_vars
  PROVE  /\ diskAudit \subseteq diskAudit'
         /\ proc' # "down" => memAudit \subseteq memAudit' \cup diskAudit'
<1> USE DEF IInv, TypeOK, StepInv, ProcessInv, registry, config, audit, handler,
            requests, process, AdminStep, RequestStep
<1>1. CASE StartUp
  BY <1>1 DEF StartUp, Restore, SaveStartConfig, RecordStart
<1>2. CASE Proof
  BY <1>2 DEF Proof, VerifyInstalls, CreateChallenge, VerifyFails, Verify
<1>3. CASE Admin
  BY <1>3 DEF Admin, AdminRequest, AdminReads, AdminFails, AdminSaves, AdminInstalls,
              LogAudit, Sync, SyncFails, Answer, SaveConfig, InstallConfig
<1>4. CASE Gateway
  BY <1>4 DEF Gateway, CheckDevice, Authorize, EndRequest
<1>5. CASE Crash
  BY <1>5 DEF Crash
<1>6. CASE UNCHANGED vars
  BY <1>6 DEF vars
<1> QED
  BY <1>1, <1>2, <1>3, <1>4, <1>5, <1>6 DEF Next

\* The durable audit is append-only (the triggers of control_state.go and
\* appendAuditTx, which never writes a record twice).
THEOREM AppendOnly == Spec => AuditOnlyGrows
BY Invariance, AuditStep, PTL DEF Spec, AuditOnlyGrows

-----------------------------------------------------------------------------
\* The refinement of AccessLedger.

Spent == {c \in Challenges : chal[c] = "gone"}
Admitted == {<<g, rdev[g]>> : g \in {r \in Requests : req[r] # "idle"}}

LEMMA InitLedger == Init => Ledger!LedgerInit
BY DEF Init, Ledger!LedgerInit

\* Steps that move no device, issue or lose challenges and end requests at most.
LEMMA LoseStep ==
  ASSUME IInv, UNCHANGED disk, Spent \subseteq Spent', Admitted' \subseteq Admitted
  PROVE  Ledger!Lose
BY DEF Ledger!Lose, Spent, Admitted

LEMMA RequestStepLoses ==
  ASSUME IInv, UNCHANGED <<disk, chal, rdev>>,
         \A g \in Requests : req'[g] # "idle" => req[g] # "idle"
  PROVE  Ledger!Lose
BY LoseStep DEF Spent, Admitted

LEMMA LedgerStep == IInv /\ [Next]_vars => [Ledger!LedgerNext]_(Ledger!ledger)
<1> SUFFICES ASSUME IInv, [Next]_vars PROVE [Ledger!LedgerNext]_(Ledger!ledger)
  OBVIOUS
<1> USE DEF registry, config, audit, handler, requests, process, AdminStep
<1>a. SUFFICES \/ Ledger!Lose
               \/ \E d \in Devices : \/ Ledger!Decide(d)
                                     \/ \E c \in Challenges : Ledger!Prove(d, c)
                                     \/ \E g \in Requests : Ledger!Admit(g, d)
  BY DEF Ledger!LedgerNext
<1>1. CASE StartUp
  BY <1>1, RequestStepLoses DEF StartUp, Restore, SaveStartConfig, RecordStart
<1>2. CASE Proof
  <2>1. CASE VerifyInstalls
    BY <2>1, RequestStepLoses DEF VerifyInstalls
  <2>2. ASSUME NEW c \in Challenges, NEW d \in Devices, CreateChallenge(c, d)
        PROVE  Ledger!Lose
    BY <2>2, LoseStep DEF CreateChallenge, Spent, Admitted, IInv, TypeOK
  <2>3. ASSUME NEW c \in Challenges, VerifyFails(c) PROVE Ledger!Lose
    BY <2>3, LoseStep DEF VerifyFails, Spent, Admitted, IInv, TypeOK
  <2>4. ASSUME NEW c \in Challenges, Verify(c)
        PROVE  \E d \in Devices : Ledger!Prove(d, c)
    <3>1. PICK d \in Devices : chal[c] = d
      BY <2>4 DEF Verify
    <3>2. disk[d] # "ABSENT" /\ c \notin Spent
      BY <3>1 DEF IInv, StepInv, LockInv, Spent
    <3>3. Spent' = Spent \cup {c} /\ Admitted' = Admitted
      BY <2>4 DEF Verify, Spent, Admitted, IInv, TypeOK
    <3> QED
      BY <2>4, <3>1, <3>2, <3>3 DEF Verify, Save, Ledger!Prove, Spent, Admitted
  <2> QED
    BY <1>2, <2>1, <2>2, <2>3, <2>4 DEF Proof
<1>3. CASE Admin
  <2>1. CASE AdminSaves
    \* The registry decided on what is in memory, which is what is on disk.
    <3>1. mem[adev] = disk[adev] /\ adev \in Devices /\ Target(awant) \in Statuses \ {"ABSENT"}
      BY <2>1, TargetType
         DEF AdminSaves, Locked, IInv, TypeOK, StepInv, ProcessInv, MemoryIsDurable
    <3>2. /\ disk[adev] = "ABSENT" => Target(awant) = "PENDING"
          /\ Target(awant) = "ACTIVE" => disk[adev] = "ACTIVE"
      BY <2>1, <3>1 DEF AdminSaves, Permitted, Target
    <3> QED
      BY <2>1, <3>1, <3>2 DEF AdminSaves, Save, Ledger!Decide, Ledger!Statuses, Statuses
  <2>2. CASE ~AdminSaves
    BY <1>3, <2>2, RequestStepLoses
       DEF Admin, AdminRequest, AdminReads, AdminFails, AdminInstalls, LogAudit, Sync,
           SyncFails, Answer, SaveConfig, InstallConfig
  <2> QED
    BY <2>1, <2>2
<1>4. CASE Gateway
  <2>1. ASSUME NEW g \in Requests, NEW d \in Devices, CheckDevice(g, d)
        PROVE  Ledger!Admit(g, d)
    <3>1. disk[d] = "ACTIVE"
      BY <2>1 DEF CheckDevice, Locked, IInv, MemoryIsDurable
    <3>2. Admitted' = Admitted \cup {<<g, d>>}
      BY <2>1 DEF CheckDevice, RequestStep, Admitted, IInv, TypeOK
    <3> QED
      BY <2>1, <3>1, <3>2 DEF CheckDevice, Ledger!Admit, Admitted
  <2>2. ASSUME NEW g \in Requests, Authorize(g) \/ EndRequest(g) PROVE Ledger!Lose
    BY <2>2, RequestStepLoses DEF Authorize, EndRequest, RequestStep, IInv, TypeOK
  <2> QED
    BY <1>4, <2>1, <2>2 DEF Gateway
<1>5. CASE Crash
  BY <1>5, LoseStep DEF Crash, Gone, Spent, Admitted, IInv, TypeOK
<1>6. CASE UNCHANGED vars
  BY <1>6, RequestStepLoses DEF vars
<1> QED
  BY <1>1, <1>2, <1>3, <1>4, <1>5, <1>6 DEF Next

\* Whatever fails and whenever the process dies, the control plane keeps the ledger:
\* no status is lost, no proof counts twice and no request is admitted of a device
\* that is not active.
THEOREM Refinement == Spec => ImplementsLedger
BY Invariance, InitLedger, LedgerStep, PTL DEF Spec, ImplementsLedger, Ledger!LedgerSpec
=============================================================================
