------------------------------ MODULE RuleTask ------------------------------
(***************************************************************************)
(* panos_nat_rule and panos_security_rule: scripts of library/ that put a  *)
(* rule into the ordered rulebase of a firewall, move it to its place, or  *)
(* delete it.  The first rule that matches a packet decides, so the place  *)
(* of a rule is as much of its meaning as its settings.                    *)
(*                                                                         *)
(* A task reads the rulebase, decides what to write, writes its rule,      *)
(* moves it and commits: each is a call that may fail, and administrators  *)
(* may edit the rulebase between two of them.  The two scripts differ in   *)
(* when they move, and in what they do when the play gives no state.       *)
(*                                                                         *)
(* The order of the rules is the relation above.  Simplified: one rulebase *)
(* of a firewall, of NAT or of security rules, with the tasks of the script*)
(* for it; the settings of a rule are one value; vsys and Panorama's       *)
(* rulebases are left out.                                                 *)
(***************************************************************************)
CONSTANTS Rule, Body, None,
          Kinds,       \* rulebases: "nat", "security"
          Initial,     \* pairs of an order and the rules' settings to start from
          Task, Idle,
          State,       \* present, absent, or none if the play gives no state
          Operation,
          Name,        \* the rule the task is about
          Asked,       \* its settings
          Location, Existing,
          Commit,      \* tasks with commit
          CheckMode,   \* tasks that are run with --check
          Incomplete,  \* tasks with parameters the script refuses
          Flaky,       \* kinds of calls that may fail
          Admin        \* what administrators may do

Books    == [Rule -> Body \cup {None}]
Known(b) == {r \in Rule : b[r] # None}

Ordered(up, b) ==
  /\ up \subseteq Known(b) \X Known(b)
  /\ \A r \in Rule : <<r, r>> \notin up
  /\ \A r, s \in Known(b) : r = s \/ <<r, s>> \in up \/ <<s, r>> \in up
  /\ \A r, s, q \in Rule : <<r, s>> \in up /\ <<s, q>> \in up => <<r, q>> \in up

Operations == {"add", "update", "delete", "find", "disable"}
Locations  == {"top", "bottom", "before", "after", "none"}

ASSUME RuleAssumption ==
  /\ None \notin Body /\ Idle \notin Task
  /\ \A start \in Initial : start[2] \in Books /\ Ordered(start[1], start[2])
  /\ Kinds \subseteq {"nat", "security"}
  /\ State \in [Task -> {"present", "absent", "none"}]
  /\ Operation \in [Task -> Operations]
  /\ Name \in [Task -> Rule] /\ Existing \in [Task -> Rule]
  /\ Asked \in [Task -> Body] /\ Location \in [Task -> Locations]
  /\ Commit \subseteq Task /\ CheckMode \subseteq Task /\ Incomplete \subseteq Task
  /\ Flaky \subseteq {"read", "write", "lost", "commit", "rejected"}
  /\ Admin \subseteq {"add", "delete", "edit", "commit"}

VARIABLES kind,     \* the kind of the rules
          above,    \* their order in the candidate configuration
          book,     \* their settings, None for a rule that is not there
          running,  \* the order and the settings that are committed
          task,     \* the task that runs, or Idle
          step,     \* its next call
          changed,  \* its variable changed
          alone,    \* has nobody else edited the candidate since it started?
          last      \* how the last task ended, when none runs

rules == <<above, book>>
run   == <<task, step, changed, alone>>
vars  == <<kind, above, book, running, run, last>>

Steps == {"none", "create", "apply", "delete", "move", "commit", "raise"}

-----------------------------------------------------------------------------
(* The rulebase.                                                           *)

Missing(r) == book[r] = None
Others(r)  == Known(book) \ {r}

(* r is put below the rules in up and above the others.                    *)
Put(r, up) ==
  {p \in above : p[1] # r /\ p[2] # r} \cup (up \X {r}) \cup ({r} \X (Others(r) \ up))

(* The rules that are above r when it is moved to location.                *)
UpTo(d) == {x \in Known(book) : <<x, d>> \in above}
Over(r, location, d) ==
  CASE location = "top"    -> {}
    [] location = "before" -> UpTo(d) \ {r}
    [] location = "after"  -> (UpTo(d) \cup {d}) \ {r}
    [] OTHER               -> Others(r)
Moved(r, location, d) == Put(r, Over(r, location, d))

Refused(r, location, d) ==
  Missing(r) \/ (location \in {"before", "after"} /\ (Missing(d) \/ d = r))
(* "already at the top", "already at the bottom"                           *)
AlreadyThere(r, location, d) == location \in {"top", "bottom"} /\ Moved(r, location, d) = above

Write(r, settings) ==
  /\ book' = [book EXCEPT ![r] = settings]
  /\ above' = IF Missing(r) THEN Put(r, Others(r)) ELSE above
Erase(r) ==
  /\ book' = [book EXCEPT ![r] = None]
  /\ above' = {p \in above : p[1] # r /\ p[2] # r}

-----------------------------------------------------------------------------
(* What a script decides from the rules it has read.                       *)

(* State has a default in panos_nat_rule, so that its operations are never *)
(* reached; in panos_security_rule it has none.                            *)
StateOf(t) == IF State[t] = "none" /\ kind = "nat" THEN "present" ELSE State[t]
LocationOf(t) == IF Location[t] = "none" /\ kind = "nat" THEN "bottom" ELSE Location[t]

Places(t) == LocationOf(t) # "none"
AfterWrite(t) == IF Places(t) THEN "move" ELSE "commit"
AfterMatchCommits(t) == "commit"
(* With nothing to write, panos_security_rule moves all the same.          *)
AfterMatch(t) == IF kind = "security" THEN AfterWrite(t) ELSE "commit"

PresentAdds(t) == IF Missing(Name[t]) THEN "create" ELSE AfterMatch(t)
Present(t) ==
  IF Missing(Name[t]) THEN "create"
  ELSE IF book[Name[t]] # Asked[t] THEN "apply" ELSE AfterMatch(t)
Absent(t) == IF Missing(Name[t]) THEN "commit" ELSE "delete"

(* find_rule(rulebase, ...) looks for the rule in the name of the rulebase.*)
Operate(t) ==
  CASE Operation[t] = "find"   -> IF Missing(Name[t]) THEN "raise" ELSE "commit"
    [] Operation[t] = "delete" -> IF Missing(Name[t]) THEN "raise" ELSE "delete"
    [] Operation[t] = "add"    -> IF Missing(Name[t]) THEN "create" ELSE "raise"
    [] OTHER                   -> "raise"

FirstStep(t) ==
  IF t \in Incomplete THEN "raise"
  ELSE CASE StateOf(t) = "present" -> Present(t)
         [] StateOf(t) = "absent"  -> Absent(t)
         [] OTHER                  -> Operate(t)

-----------------------------------------------------------------------------
Init ==
  /\ \E k \in Kinds, start \in Initial : kind = k /\ above = start[1] /\ book = start[2]
  /\ running = <<above, book>>
  /\ task = Idle /\ step = "none" /\ changed = FALSE /\ alone = TRUE
  /\ last = "none"

Busy == task # Idle
At(s) == Busy /\ step = s

(* panos_nat_rule is skipped in a run with --check.                        *)
Start(t) ==
  /\ ~ Busy /\ ~ (kind = "nat" /\ t \in CheckMode)
  /\ task' = t /\ step' = FirstStep(t)
  /\ last' = "none"
  /\ UNCHANGED <<rules, running, changed, alone>>

ReadFails ==
  /\ "read" \in Flaky /\ ~ Busy
  /\ last' = "failed"
  /\ UNCHANGED <<rules, running, run>>

EndKeeps(how) ==
  task' = Idle /\ step' = "none" /\ alone' = TRUE /\ last' = how /\ UNCHANGED changed
End(how) ==
  task' = Idle /\ step' = "none" /\ alone' = TRUE /\ last' = how /\ changed' = FALSE

EndsWell == End("ok")
Fails    == End("failed")

GoOn(next) ==
  /\ step' = next
  /\ UNCHANGED <<running, task, alone, last>>

(* create() merges into a rule that was added in the meantime, apply()     *)
(* replaces it.                                                            *)
WriteRule ==
  /\ At("create") \/ At("apply")
  /\ IF task \in CheckMode THEN UNCHANGED rules
     ELSE \E settings \in Body :
            /\ settings = Asked[task] \/ (step = "create" /\ ~ Missing(Name[task]))
            /\ Write(Name[task], settings)
  /\ GoOn(AfterWrite(task))
  /\ changed' = TRUE

DeleteRule ==
  /\ At("delete")
  /\ IF task \in CheckMode THEN UNCHANGED rules ELSE Erase(Name[task])
  /\ GoOn("commit")
  /\ changed' = TRUE

Target == <<Name[task], LocationOf(task), Existing[task]>>
CanMove == task \in CheckMode \/ ~ Refused(Target[1], Target[2], Target[3])

MoveRule ==
  /\ At("move") /\ CanMove
  /\ IF task \in CheckMode THEN UNCHANGED above
     ELSE above' = Moved(Target[1], Target[2], Target[3])
  /\ changed' = (changed \/ task \in CheckMode
                         \/ ~ AlreadyThere(Target[1], Target[2], Target[3]))
  /\ UNCHANGED book
  /\ GoOn("commit")

MoveRefused ==
  /\ At("move") /\ ~ CanMove
  /\ Fails /\ UNCHANGED <<rules, running>>

Calls == step \in {"create", "apply", "delete", "move"} /\ task \notin CheckMode

CallFails ==
  /\ "write" \in Flaky /\ Busy /\ Calls
  /\ Fails /\ UNCHANGED <<rules, running>>

(* The firewall did it, the reply did not arrive.                          *)
CallLost ==
  /\ "lost" \in Flaky /\ Busy /\ Calls
  /\ \/ step \in {"create", "apply"} /\ Write(Name[task], Asked[task])
     \/ step = "delete" /\ Erase(Name[task])
     \/ /\ step = "move" /\ CanMove /\ UNCHANGED book
        /\ above' = Moved(Target[1], Target[2], Target[3])
  /\ Fails /\ UNCHANGED running

Raise ==
  /\ At("raise")
  /\ Fails /\ UNCHANGED <<rules, running>>

MustCommit == changed /\ task \in Commit

Finish ==
  /\ At("commit") /\ ~ MustCommit
  /\ EndsWell /\ UNCHANGED <<rules, running>>

(* Nothing looks at check_mode here.                                       *)
CommitAll ==
  /\ At("commit") /\ MustCommit
  /\ running' = rules
  /\ EndsWell /\ UNCHANGED rules

CommitFails ==
  /\ "commit" \in Flaky
  /\ At("commit") /\ MustCommit
  /\ running' \in {running, rules}
  /\ Fails /\ UNCHANGED rules

(* commit(sync=True) does not ask for an exception.                        *)
CommitRejected ==
  /\ "rejected" \in Flaky
  /\ At("commit") /\ MustCommit
  /\ EndsWell /\ UNCHANGED <<rules, running>>

(* An administrator adds a rule at the bottom, deletes or edits one.       *)
AdminEdits ==
  /\ \E r \in Rule, settings \in Body :
       \/ "add" \in Admin /\ Missing(r) /\ Write(r, settings)
       \/ "edit" \in Admin /\ ~ Missing(r) /\ settings # book[r] /\ Write(r, settings)
       \/ "delete" \in Admin /\ ~ Missing(r) /\ Erase(r)
  /\ alone' = ~ Busy
  /\ UNCHANGED <<running, task, step, changed, last>>

AdminCommits ==
  /\ "commit" \in Admin
  /\ running' = rules
  /\ UNCHANGED <<rules, run, last>>

Step == \/ WriteRule \/ DeleteRule \/ MoveRule \/ MoveRefused \/ CallFails \/ CallLost
        \/ Raise \/ Finish \/ CommitAll \/ CommitFails \/ CommitRejected

Next == /\ UNCHANGED kind
        /\ \/ \E t \in Task : Start(t)
           \/ ReadFails \/ Step \/ AdminEdits \/ AdminCommits

Spec == Init /\ [][Next]_vars

-----------------------------------------------------------------------------
(* PROPERTIES.                                                             *)

TypeOK ==
  /\ kind \in Kinds
  /\ book \in Books /\ Ordered(above, book)
  /\ running[2] \in Books /\ Ordered(running[1], running[2])
  /\ task \in Task \cup {Idle}
  /\ step \in Steps /\ (step = "none" <=> ~ Busy)
  /\ changed \in BOOLEAN /\ alone \in BOOLEAN
  /\ ~ Busy => ~ changed /\ alone
  /\ last \in {"none", "ok", "failed"} /\ (Busy => last = "none")

Puts(t) == StateOf(t) = "present" \/ (StateOf(t) = "none" /\ Operation[t] \in {"add", "update"})
Removes(t) == StateOf(t) = "absent" \/ (StateOf(t) = "none" /\ Operation[t] = "delete")
AsAsked(t) == /\ Puts(t) => book[Name[t]] = Asked[t]
              /\ Removes(t) => Missing(Name[t])
EndsOk(t) == task = t /\ task' = Idle /\ last' = "ok" /\ alone /\ t \notin CheckMode

(* What ends well, with nobody else editing, has the rule it was asked for *)
(* or has removed it, whatever runs that failed half-way left behind.      *)
OkMeansAsked == [][\A t \in Task : EndsOk(t) => AsAsked(t)']_vars

Between(r, s) == {q \in Rule : <<r, q>> \in above /\ <<q, s>> \in above}
Adjacent(r, s) == <<r, s>> \in above /\ Between(r, s) = {}
InPlace(t) ==
  LET r == Name[t]  d == Existing[t]
  IN CASE LocationOf(t) = "top"    -> \A s \in Others(r) : <<r, s>> \in above
       [] LocationOf(t) = "bottom" -> \A s \in Others(r) : <<s, r>> \in above
       [] LocationOf(t) = "before" -> Adjacent(r, d)
       [] LocationOf(t) = "after"  -> Adjacent(d, r)
       [] OTHER                    -> TRUE

(* "Position to place the created rule in the rule base", says the         *)
(* documentation of location.  A security rule is there when its task ends *)
(* well, also when an earlier run wrote it and could not move it; a NAT    *)
(* rule only if it is this run that wrote it.                              *)
OkMeansMoved ==
  [][\A t \in Task : EndsOk(t) /\ Puts(t) /\ (kind = "nat" => changed) => InPlace(t)']_vars
=============================================================================
