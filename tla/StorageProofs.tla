--------------------------- MODULE StorageProofs ---------------------------
(***************************************************************************)
(* Theorems about Storage, for any number of processes, sessions and IDs:  *)
(* its inductive invariant, that no reader and no power failure meets half *)
(* a session file, and that DeviceID implements the choice of one ID.      *)
(***************************************************************************)
EXTENDS Storage, TLAPS

\* An empty state directory and idle processes.
LEMMA InitStorageInv == ASSUME Init PROVE StorageInv
BY StorageAssumption DEF Init, StorageInv, TypeOK, WholeFiles, OneDevice, TempInv, CreatorInv

\* The steps of Write keep what is said of the files and of the temporary file;
\* the only one that touches session.json puts a synced file in its place.
LEMMA WriteStepInv ==
  ASSUME StorageInv, NEW p \in Procs, WriteStep(p) PROVE StorageInv'
<1> USE StorageAssumption DEF StorageInv, fileVars, deviceVars
<1>1. OneDevice' /\ CreatorInv'
  BY DEF WriteStep, Write, WriteTemp, SyncTemp, Rename, OneDevice, CreatorInv, TypeOK
<1>2. CASE Write(p)
  BY <1>1, <1>2 DEF Write, goOn, TypeOK, WholeFiles, TempInv
<1>3. CASE WriteTemp(p)
  BY <1>1, <1>3 DEF WriteTemp, goOn, giveUp, TypeOK, WholeFiles, TempInv
<1>4. CASE SyncTemp(p)
  BY <1>1, <1>4 DEF SyncTemp, goOn, giveUp, synced, TypeOK, WholeFiles, TempInv
<1>5. CASE Rename(p)
  <2>1. temp[p] = "synced" /\ val[p] \in Values BY <1>5 DEF Rename, TempInv, TypeOK
  <2> QED BY <1>1, <1>5, <2>1 DEF Rename, goOn, giveUp, TypeOK, WholeFiles, TempInv
<1> QED BY <1>2, <1>3, <1>4, <1>5 DEF WriteStep

\* The steps of DeviceID: while device_id is torn nobody has been given an ID,
\* and the one process that may write it is its creator.
LEMMA DeviceStepInv ==
  ASSUME StorageInv, NEW p \in Procs, DeviceStep(p) PROVE StorageInv'
<1> USE StorageAssumption DEF StorageInv, fileVars, writeVars
<1>1. WholeFiles' /\ TempInv'
  BY DEF DeviceStep, DeviceID, Read, Create, WriteString, Close, WholeFiles, TempInv, TypeOK
<1>2. CASE DeviceID(p)
  BY <1>1, <1>2 DEF DeviceID, TypeOK, OneDevice, CreatorInv
<1>3. CASE Read(p)
  BY <1>1, <1>3 DEF Read, return, TypeOK, OneDevice, CreatorInv
<1>4. CASE Create(p)
  BY <1>1, <1>4 DEF Create, creatable, return, TypeOK, OneDevice, CreatorInv
<1>5. CASE WriteString(p)
  BY <1>1, <1>5 DEF WriteString, return, TypeOK, OneDevice, CreatorInv
<1>6. CASE Close(p)
  BY <1>1, <1>6 DEF Close, return, TypeOK, OneDevice, CreatorInv
<1> QED BY <1>2, <1>3, <1>4, <1>5, <1>6 DEF DeviceStep

\* So do a kill, the write-back and the loss of power.
LEMMA StorageInvStep == ASSUME StorageInv, [Next]_vars PROVE StorageInv'
<1>1. ASSUME NEW p \in Procs, WriteStep(p) PROVE StorageInv' BY <1>1, WriteStepInv
<1>2. ASSUME NEW p \in Procs, DeviceStep(p) PROVE StorageInv' BY <1>2, DeviceStepInv
<1> USE StorageAssumption
    DEF StorageInv, TypeOK, WholeFiles, OneDevice, TempInv, CreatorInv, fileVars, writeVars, deviceVars
<1>3. ASSUME NEW p \in Procs, Kill(p) PROVE StorageInv'
  BY <1>3 DEF Kill, giveUp, goOn, return
<1>4. CASE WriteBack BY <1>4 DEF WriteBack
<1>5. CASE PowerLoss BY <1>5 DEF PowerLoss
<1>6. CASE UNCHANGED vars BY <1>6 DEF vars
<1> QED BY <1>1, <1>2, <1>3, <1>4, <1>5, <1>6 DEF Next

\* The inductive invariant holds in every reachable state.
THEOREM StorageInvariant == Spec => []StorageInv
<1>1. Init => StorageInv BY InitStorageInv
<1>2. StorageInv /\ [Next]_vars => StorageInv' BY StorageInvStep
<1> QED BY <1>1, <1>2, PTL DEF Spec

\* session.json is never seen, and never survives a power failure, incomplete.
THEOREM FilesWhole == Spec => []WholeFiles
BY StorageInvariant, PTL DEF StorageInv

\* DeviceID implements Once: one ID is chosen, and only it is ever returned.
THEOREM ImplementsOnce == Spec => OnceSpec
<1> USE StorageAssumption
<1>1. Init => Choice!Init BY DEF Init, Choice!Init
<1>2. ASSUME StorageInv, [Next]_vars PROVE [Choice!Next]_<<IF device \in Ids THEN device ELSE None, given>>
  <2> USE <1>2 DEF StorageInv, Choice!Next, Choice!Choose, Choice!Give, Choice!PowerLoss
  <2>1. ASSUME NEW p \in Procs, WriteStep(p) PROVE UNCHANGED <<device, given>>
    BY <2>1 DEF WriteStep, Write, WriteTemp, SyncTemp, Rename, fileVars
  <2>2. ASSUME NEW p \in Procs, Kill(p) PROVE UNCHANGED <<device, given>>
    BY <2>2 DEF Kill, return, fileVars
  <2>3. ASSUME NEW p \in Procs, Create(p)
        PROVE  \/ device \notin Ids /\ device' \notin Ids /\ UNCHANGED given
               \/ UNCHANGED <<device, given>>
    BY <2>3 DEF Create, creatable, return
  <2>a. ASSUME NEW p \in Procs, return(p, None) PROVE given' = given
    BY <2>a DEF return
  <2>b. ASSUME NEW p \in Procs, device \in Ids, return(p, device) PROVE given' = {device}
    <3>1. given \subseteq {device} BY DEF OneDevice
    <3>2. {device} \ {None} = {device} BY <2>b
    <3> QED BY <2>b, <3>1, <3>2 DEF return
  <2>4. ASSUME NEW p \in Procs, WriteString(p)
        PROVE  Choice!Choose \/ UNCHANGED <<device, given>>
    <3>1. device \notin Ids /\ draw[p] \in Ids BY <2>4 DEF WriteString, CreatorInv
    <3> QED BY <2>4, <2>a, <3>1 DEF WriteString
  <2>5. ASSUME NEW p \in Procs, DeviceID(p) \/ Read(p) \/ Close(p)
        PROVE  Choice!Give \/ UNCHANGED <<device, given>>
    <3>1. dpc[p] = "close" => device \in Ids /\ draw[p] = device BY DEF CreatorInv
    <3>2. device \in Ids => device # None OBVIOUS
    <3> QED BY <2>5, <2>a, <2>b, <3>1, <3>2 DEF DeviceID, Read, Close, fileVars
  <2>6. CASE WriteBack BY <2>6 DEF WriteBack
  <2>7. CASE PowerLoss BY <2>7 DEF PowerLoss, TypeOK
  <2>8. CASE UNCHANGED vars BY <2>8 DEF vars, fileVars
  <2> QED BY <2>1, <2>2, <2>3, <2>4, <2>5, <2>6, <2>7, <2>8 DEF Next, DeviceStep
<1> QED BY <1>1, <1>2, StorageInvariant, PTL DEF Spec, OnceSpec, Choice!Spec
============================================================================
