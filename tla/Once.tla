-------------------------------- MODULE Once --------------------------------
(***************************************************************************)
(* What storage.DeviceID promises: until the power fails, one ID is chosen *)
(* at most once and every call that returns an ID returns that one.        *)
(***************************************************************************)
CONSTANTS Ids, None

VARIABLES chosen,  \* the ID of the state directory, or None
          given    \* the IDs returned since the machine was last started

Init == chosen = None /\ given = {}

Choose == chosen = None /\ chosen' \in Ids /\ UNCHANGED given

Give == chosen # None /\ given' = {chosen} /\ UNCHANGED chosen

\* What was not yet on the disk may be gone, and nobody is left to tell.
PowerLoss == chosen' \in Ids \cup {None} /\ given' = {}

Next == Choose \/ Give \/ PowerLoss

Spec == Init /\ [][Next]_<<chosen, given>>
=============================================================================
