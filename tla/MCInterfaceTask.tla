-------------------------- MODULE MCInterfaceTask --------------------------
(***************************************************************************)
(* Instances of InterfaceTask for TLC: one or two interfaces, with tasks   *)
(* that move them between two zones.  MCScript and MCOp mix the scripts,   *)
(* their states and operations.                                            *)
(***************************************************************************)
EXTENDS InterfaceTask, TLC

CONSTANTS i1, i2, z1, z2, r1, t1, t2, t3, t4, l2, l3

TaskFn(f) == [t \in Task |-> f[t]]

MCModes   == [i \in If |-> l3]
MCIfOf    == TaskFn(t1 :> i1 @@ t2 :> i2 @@ t3 :> i1 @@ t4 :> i2)
MCZoneFor == TaskFn(t1 :> z1 @@ t2 :> z2 @@ t3 :> z2 @@ t4 :> z1)
MCOneVr   == [t \in Task |-> r1]

MCTunnels   == [t \in Task |-> IF t = t1 THEN "panos_tunnel_int" ELSE "panos_tun_interface"]
MCScript    == TaskFn(t1 :> "panos_interface" @@ t2 :> "panos_tun_interface" @@
                      t3 :> "panos_tunnel_int" @@ t4 :> "panos_interface")

MCStates  == [t \in Task |-> "present"]
MCOp      == TaskFn(t1 :> "present" @@ t2 :> "add" @@ t3 :> "update" @@ t4 :> "absent")
=============================================================================
