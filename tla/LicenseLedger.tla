--------------------------- MODULE LicenseLedger ---------------------------
(***************************************************************************)
(* What the licence monitor of the Azure hub (azure/worker_node/monitor.py) *)
(* promises, without any of its API calls: a firewall's licence is given   *)
(* back only once its VM is gone, and the entry that remembers the firewall *)
(* is dropped only once its licence has been given back.  Monitor           *)
(* implements this specification when its cron runs do not overlap and the *)
(* scale set is never emptied.                                             *)
(***************************************************************************)
CONSTANTS Device,   \* firewall VMs, each with its own serial number
          Host,     \* host names
          HostOf,   \* the host name of each firewall
          Byol      \* do the firewalls bring a licence of their own?

VARIABLES phase,     \* life cycle of each VM
          licensed,  \* firewalls that hold a licence
          ledger     \* firewalls the monitor remembers

vars == <<phase, licensed, ledger>>

Phase == {"new", "booting", "serving", "gone"}

Init == /\ phase = [d \in Device |-> "new"]
        /\ licensed = {}
        /\ ledger = {}

Boot(d) == /\ phase[d] = "new"
           /\ phase' = [phase EXCEPT ![d] = "booting"]
           /\ UNCHANGED <<licensed, ledger>>

Join(d) == /\ phase[d] = "booting"
           /\ phase' = [phase EXCEPT ![d] = "serving"]
           /\ licensed' = IF Byol THEN licensed \cup {d} ELSE licensed
           /\ UNCHANGED ledger

Leave(d) == /\ phase[d] \in {"booting", "serving"}
            /\ phase' = [phase EXCEPT ![d] = "gone"]
            /\ UNCHANGED <<licensed, ledger>>

Record(d) == /\ phase[d] \in {"serving", "gone"}
             /\ \A e \in ledger : HostOf[e] # HostOf[d]
             /\ ledger' = ledger \cup {d}
             /\ UNCHANGED <<phase, licensed>>

Release(d) == /\ phase[d] = "gone"
              /\ d \in licensed
              /\ licensed' = licensed \ {d}
              /\ UNCHANGED <<phase, ledger>>

Forget(d) == /\ phase[d] = "gone"
             /\ d \in ledger
             /\ d \notin licensed
             /\ ledger' = ledger \ {d}
             /\ UNCHANGED <<phase, licensed>>

Next == \E d \in Device : \/ Boot(d) \/ Join(d) \/ Leave(d)
                          \/ Record(d) \/ Release(d) \/ Forget(d)

Safety == Init /\ [][Next]_vars

(* A recorded firewall whose VM is gone is not remembered for ever.        *)
Reclaimed == \A d \in Device :
               (phase[d] = "gone" /\ d \in ledger) ~> d \notin ledger

Spec == Safety /\ \A d \in Device : WF_vars(Forget(d))
                                 /\ WF_vars(d \in ledger /\ Release(d))
=============================================================================
