----------------------------- MODULE Placement -----------------------------
(***************************************************************************)
(* What the interface scripts promise of a firewall's configuration: an    *)
(* interface is in at most one zone and at most one virtual router, each   *)
(* step moves one interface only, into nothing or out of nothing, and an   *)
(* interface is created before it enters a group and leaves them before it *)
(* is deleted.                                                             *)
(***************************************************************************)
CONSTANTS If, Zone, Router, NoGroup

VARIABLES there,   \* the interfaces that are configured
          zone,    \* the zone of each interface, or NoGroup
          router   \* its virtual router, or NoGroup

vars == <<there, zone, router>>

TypeOK == /\ there \subseteq If
          /\ zone \in [If -> Zone \cup {NoGroup}]
          /\ router \in [If -> Router \cup {NoGroup}]

Init == /\ TypeOK
        /\ \A i \in If \ there : zone[i] = NoGroup /\ router[i] = NoGroup

Create(i) ==
  /\ i \notin there
  /\ there' = there \cup {i}
  /\ UNCHANGED <<zone, router>>

Delete(i) ==
  /\ i \in there /\ zone[i] = NoGroup /\ router[i] = NoGroup
  /\ there' = there \ {i}
  /\ UNCHANGED <<zone, router>>

LeaveZone(i) ==
  /\ zone[i] # NoGroup
  /\ zone' = [zone EXCEPT ![i] = NoGroup]
  /\ UNCHANGED <<there, router>>

JoinZone(i, z) ==
  /\ i \in there /\ zone[i] = NoGroup
  /\ zone' = [zone EXCEPT ![i] = z]
  /\ UNCHANGED <<there, router>>

LeaveRouter(i) ==
  /\ router[i] # NoGroup
  /\ router' = [router EXCEPT ![i] = NoGroup]
  /\ UNCHANGED <<there, zone>>

JoinRouter(i, r) ==
  /\ i \in there /\ router[i] = NoGroup
  /\ router' = [router EXCEPT ![i] = r]
  /\ UNCHANGED <<there, zone>>

Next == \E i \in If :
  \/ Create(i) \/ Delete(i) \/ LeaveZone(i) \/ LeaveRouter(i)
  \/ \E z \in Zone : JoinZone(i, z)
  \/ \E r \in Router : JoinRouter(i, r)

Spec == Init /\ [][Next]_vars
=============================================================================
