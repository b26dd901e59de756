----------------------------- MODULE MCBootTask -----------------------------
(***************************************************************************)
(* An instance of BootTask for TLC.  Each play waits in one way and sets   *)
(* the password with one script; two of panos_check's may wait for no time *)
(* at all and for several calls.                                           *)
(***************************************************************************)
EXTENDS BootTask, TLC

MCGate ==
     "once"   :> "panos_check"   @@ "check" :> "panos_check"
  @@ "retry"  :> "none"          @@ "dry"   :> "none"
  @@ "push"   :> "wait_for"      @@ "user"  :> "wait_for"
MCPlay == DOMAIN MCGate
MCScript == [p \in MCPlay |-> IF p \in {"push", "user"} THEN "panos_init" ELSE "panos_admpwd"]
MCTimeout == [p \in MCPlay |-> IF p = "once" THEN 0 ELSE 4]
=============================================================================
