------------------------------ MODULE Storage ------------------------------
(***************************************************************************)
(* Package storage: the steps of Write and of DeviceID, by processes that  *)
(* share a state directory (the service, login, export-mihomo), may fail   *)
(* at every step, may be killed between two steps, and lose what the       *)
(* kernel has not written back when the power fails.                       *)
(*                                                                         *)
(* The content of a file is one value; Torn is any content that is not     *)
(* complete, the empty one included.  Each file has the set of contents    *)
(* that a power failure may leave of it.  os.CreateTemp draws a random     *)
(* name, so a temporary file belongs to its process.                       *)
(***************************************************************************)
CONSTANTS Procs,
          Values,  \* what is written to session.json
          Ids,     \* device IDs
          Missing, Torn, None

ASSUME StorageAssumption ==
  /\ Missing \notin Values \cup Ids /\ Torn \notin Values \cup Ids /\ None \notin Ids
  /\ Missing # Torn

VARIABLES
  session,   \* session.json as a reader finds it
  sdisk,     \* what a power failure may leave of it
  device,    \* device_id
  ddisk,
  wpc, val,  \* where each process is in Write, and what it writes
  temp,      \* temp[p]: its temporary file: "none", "part", "full" or "synced"
  dpc, draw, \* where it is in DeviceID, and the ID it drew
  given      \* the IDs DeviceID has returned since the machine was started

fileVars == <<session, sdisk, device, ddisk>>
writeVars == <<wpc, val, temp>>
deviceVars == <<dpc, draw>>
vars == <<fileVars, writeVars, deviceVars, given>>

TypeOK ==
  /\ session \in Values \cup {Missing, Torn} /\ sdisk \subseteq Values \cup {Missing, Torn}
  /\ device \in Ids \cup {Missing, Torn} /\ ddisk \subseteq Ids \cup {Missing, Torn}
  /\ wpc \in [Procs -> {"idle", "write", "sync", "rename"}] /\ val \in [Procs -> Values \cup {Missing}]
  /\ temp \in [Procs -> {"none", "part", "full", "synced"}]
  /\ dpc \in [Procs -> {"idle", "read", "create", "write", "close"}] /\ draw \in [Procs -> Ids \cup {None}]
  /\ given \subseteq Ids

Init ==
  /\ session = Missing /\ sdisk = {Missing} /\ device = Missing /\ ddisk = {Missing}
  /\ wpc = [p \in Procs |-> "idle"] /\ val = [p \in Procs |-> Missing]
  /\ temp = [p \in Procs |-> "none"]
  /\ dpc = [p \in Procs |-> "idle"] /\ draw = [p \in Procs |-> None]
  /\ given = {}

----------------------------------------------------------------------------
(* Write.                                                                  *)

\* Write goes on to pc with its temporary file in state t.
goOn(p, pc, t) == wpc' = [wpc EXCEPT ![p] = pc] /\ temp' = [temp EXCEPT ![p] = t]

\* Write returns, and the deferred os.Remove finds what is left.
giveUp(p) == goOn(p, "idle", "none") /\ val' = [val EXCEPT ![p] = Missing]

\* MkdirAll and CreateTemp succeeded; a failure has no effect.
Write(p) ==
  /\ wpc[p] = "idle" /\ dpc[p] = "idle"
  /\ val' \in {[val EXCEPT ![p] = v] : v \in Values}
  /\ goOn(p, "write", "part")
  /\ UNCHANGED <<fileVars, deviceVars, given>>

\* Chmod and f.Write.
WriteTemp(p) ==
  /\ wpc[p] = "write"
  /\ \/ goOn(p, "sync", "full") /\ UNCHANGED val
     \/ giveUp(p)
  /\ UNCHANGED <<fileVars, deviceVars, given>>

\* Mutant: the file is closed without f.Sync.
unsynced(p) == temp[p]
synced(p) == IF temp[p] = "full" THEN "synced" ELSE temp[p]

\* f.Sync and f.Close.
SyncTemp(p) ==
  /\ wpc[p] = "sync"
  /\ \/ goOn(p, "rename", synced(p)) /\ UNCHANGED val
     \/ giveUp(p)
  /\ UNCHANGED <<fileVars, deviceVars, given>>

\* os.Rename replaces the directory entry; the directory itself is not synced,
\* so the entries it had before may come back.
Rename(p) ==
  /\ wpc[p] = "rename"
  /\ giveUp(p)
  /\ \/ /\ session' = IF temp[p] = "part" THEN Torn ELSE val[p]
        /\ sdisk' = sdisk \cup {session'} \cup (IF temp[p] = "synced" THEN {} ELSE {Torn})
     \/ UNCHANGED <<session, sdisk>>
  /\ UNCHANGED <<device, ddisk, deviceVars, given>>

----------------------------------------------------------------------------
(* DeviceID.                                                               *)

\* DeviceID returns id, or an error if id is None.
return(p, id) ==
  /\ dpc' = [dpc EXCEPT ![p] = "idle"] /\ draw' = [draw EXCEPT ![p] = None]
  /\ given' = given \cup ({id} \ {None})

DeviceID(p) ==
  /\ wpc[p] = "idle" /\ dpc[p] = "idle"
  /\ dpc' = [dpc EXCEPT ![p] = "read"]
  /\ UNCHANGED <<fileVars, writeVars, draw, given>>

\* os.ReadFile fails, finds an ID or something else, or finds no file; then an
\* ID is drawn.
Read(p) ==
  /\ dpc[p] = "read"
  /\ \/ return(p, None)
     \/ device \in Ids /\ return(p, device)
     \/ /\ device = Missing
        /\ dpc' = [dpc EXCEPT ![p] = "create"]
        /\ draw' \in {[draw EXCEPT ![p] = i] : i \in Ids}
        /\ UNCHANGED given
  /\ UNCHANGED <<fileVars, writeVars>>

\* Mutant: the file is opened without O_EXCL.
creatableAlways == TRUE
\* O_EXCL
creatable == device = Missing

\* os.OpenFile creates an empty file, fails, or finds one, which DeviceID then
\* reads.
Create(p) ==
  /\ dpc[p] = "create"
  /\ \/ /\ creatable
        /\ device' = Torn /\ ddisk' = ddisk \cup {Torn}
        /\ dpc' = [dpc EXCEPT ![p] = "write"] /\ UNCHANGED <<draw, given>>
     \/ /\ ~creatable
        /\ dpc' = [dpc EXCEPT ![p] = "read"] /\ draw' = [draw EXCEPT ![p] = None]
        /\ UNCHANGED <<device, ddisk, given>>
     \/ return(p, None) /\ UNCHANGED <<device, ddisk>>
  /\ UNCHANGED <<session, sdisk, writeVars>>

\* f.WriteString; after a short write the file stays as it is.
WriteString(p) ==
  /\ dpc[p] = "write"
  /\ \/ /\ device' = draw[p] /\ ddisk' = ddisk \cup {device'}
        /\ dpc' = [dpc EXCEPT ![p] = "close"] /\ UNCHANGED <<draw, given>>
     \/ return(p, None) /\ UNCHANGED <<device, ddisk>>
  /\ UNCHANGED <<session, sdisk, writeVars>>

Close(p) ==
  /\ dpc[p] = "close"
  /\ return(p, draw[p]) \/ return(p, None)
  /\ UNCHANGED <<fileVars, writeVars>>

----------------------------------------------------------------------------
(* The machine.                                                            *)

\* A process is killed; its temporary file stays behind, and nobody uses it.
Kill(p) ==
  /\ wpc[p] # "idle" \/ dpc[p] # "idle"
  /\ giveUp(p) /\ return(p, None)
  /\ UNCHANGED fileVars

\* The kernel writes everything back.
WriteBack ==
  /\ sdisk' = {session} /\ ddisk' = {device}
  /\ UNCHANGED <<session, device, writeVars, deviceVars, given>>

PowerLoss ==
  /\ session' \in sdisk /\ sdisk' = {session'}
  /\ device' \in ddisk /\ ddisk' = {device'}
  /\ wpc' = [p \in Procs |-> "idle"] /\ val' = [p \in Procs |-> Missing]
  /\ temp' = [p \in Procs |-> "none"]
  /\ dpc' = [p \in Procs |-> "idle"] /\ draw' = [p \in Procs |-> None]
  /\ given' = {}

WriteStep(p) == Write(p) \/ WriteTemp(p) \/ SyncTemp(p) \/ Rename(p)
DeviceStep(p) == DeviceID(p) \/ Read(p) \/ Create(p) \/ WriteString(p) \/ Close(p)

Next == (\E p \in Procs : WriteStep(p) \/ DeviceStep(p) \/ Kill(p)) \/ WriteBack \/ PowerLoss

Spec == Init /\ [][Next]_vars

----------------------------------------------------------------------------
(* Properties.                                                             *)

\* "Readers never see partial JSON" (state.go:25): session.json is missing or
\* complete, whatever was killed, failed or lost its power, now and at the next
\* start.
WholeFiles == session # Torn /\ Torn \notin sdisk

\* Two logins never present different device IDs, in whatever order they read,
\* create and write device_id and are killed; and the ID presented is the one
\* on file.
OneDevice == \A i \in given : device = i

\* The same as an implementation: the first complete write chooses, and nothing
\* but a power failure undoes it.
Choice == INSTANCE Once WITH chosen <- IF device \in Ids THEN device ELSE None
OnceSpec == Choice!Spec

----------------------------------------------------------------------------
(* The inductive invariant behind WholeFiles and OneDevice.                *)

\* A temporary file is synced before it is renamed.
TempInv ==
  \A p \in Procs :
    /\ <<wpc[p], temp[p]>> \in {<<"idle", "none">>, <<"write", "part">>, <<"sync", "full">>, <<"rename", "synced">>}
    /\ wpc[p] # "idle" => val[p] \in Values

\* Only the process that created device_id writes it, once.
CreatorInv ==
  \A p \in Procs :
    /\ dpc[p] \in {"create", "write", "close"} => draw[p] \in Ids
    /\ dpc[p] = "close" => device = draw[p]
    /\ dpc[p] = "write" => device = Torn /\ \A q \in Procs \ {p} : dpc[q] # "write"

StorageInv == TypeOK /\ WholeFiles /\ OneDevice /\ TempInv /\ CreatorInv
============================================================================
