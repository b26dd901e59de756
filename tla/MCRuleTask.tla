----------------------------- MODULE MCRuleTask -----------------------------
(***************************************************************************)
(* Instances of RuleTask for TLC: a rulebase of up to three rules, and     *)
(* tasks that put, move and delete two of them.                            *)
(***************************************************************************)
EXTENDS RuleTask, TLC

CONSTANTS r1, r2, r3, b1, b2, t1, t2, t3, t4, t5, t6, t7

TaskFn(f) == [t \in Task |-> f[t]]

(* The rulebase starts with r2 above r3.                                   *)
MCInitial == {<<{<<r2, r3>>}, (r1 :> None @@ r2 :> b2 @@ r3 :> b2)>>}

MCState     == TaskFn(t1 :> "present" @@ t2 :> "present" @@ t3 :> "absent" @@
                      t4 :> "none" @@ t5 :> "none" @@ t6 :> "none" @@ t7 :> "present")
MCOperation == TaskFn(t1 :> "add" @@ t2 :> "add" @@ t3 :> "add" @@
                      t4 :> "add" @@ t5 :> "delete" @@ t6 :> "find" @@ t7 :> "add")
MCName      == TaskFn(t1 :> r1 @@ t2 :> r2 @@ t3 :> r1 @@ t4 :> r2 @@ t5 :> r2 @@ t6 :> r1 @@ t7 :> r1)
MCAsked     == [t \in Task |-> b1]
MCLocation  == TaskFn(t1 :> "top" @@ t2 :> "after" @@ t3 :> "none" @@
                      t4 :> "before" @@ t5 :> "none" @@ t6 :> "bottom" @@ t7 :> "none")
MCExisting  == [t \in Task |-> IF t = t4 THEN r3 ELSE r1]
=============================================================================
