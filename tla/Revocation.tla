---------------------------- MODULE Revocation ----------------------------
(***************************************************************************)
(* What gateway.Backend promises, without locks, dials or tables: a        *)
(* connection is born authorised by the current tunnel, and a switch to    *)
(* another tunnel (or to none) ends only when no connection authorised by  *)
(* an earlier tunnel is live.                                              *)
(***************************************************************************)
CONSTANTS Calls, Tunnels, None

VARIABLES
  cur,       \* the tunnel that authorises new connections, or None
  link,      \* link[c]: "none", "live" (may carry data) or "dead"
  owner,     \* owner[c]: the tunnel that authorised connection c
  revoking   \* a switch is under way

avars == <<cur, link, owner, revoking>>

AInit ==
  /\ cur = None
  /\ link = [c \in Calls |-> "none"]
  /\ owner = [c \in Calls |-> None]
  /\ revoking = FALSE

\* A connection is handed out, even while older ones are being revoked.
Connect(c) ==
  /\ link[c] = "none" /\ cur # None
  /\ link' = [link EXCEPT ![c] = "live"]
  /\ owner' = [owner EXCEPT ![c] = cur]
  /\ UNCHANGED <<cur, revoking>>

\* A connection ends, for whatever reason.
Drop(c) ==
  /\ link[c] = "live"
  /\ link' = [link EXCEPT ![c] = "dead"]
  /\ UNCHANGED <<cur, owner, revoking>>

\* A tunnel never used before, or none, takes over.
Switch(t) ==
  /\ ~revoking
  /\ t # None => t # cur /\ \A c \in Calls : owner[c] # t
  /\ cur' = t
  /\ revoking' = TRUE
  /\ UNCHANGED <<link, owner>>

\* The switch is over: nothing authorised earlier is live.
Revoked ==
  /\ revoking
  /\ \A c \in Calls : link[c] = "live" => owner[c] = cur
  /\ revoking' = FALSE
  /\ UNCHANGED <<cur, link, owner>>

ANext == \/ \E c \in Calls : Connect(c) \/ Drop(c)
         \/ \E t \in Tunnels \cup {None} : Switch(t)
         \/ Revoked

ASpec == AInit /\ [][ANext]_avars
============================================================================
