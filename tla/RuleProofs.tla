----------------------------- MODULE RuleProofs -----------------------------
(***************************************************************************)
(* What holds of RuleTask for every rulebase, every set of tasks and every *)
(* kind of failure: the rules stay in one line, and a task that ends well  *)
(* with nobody else editing left its rule as it was asked and, but for a   *)
(* NAT rule it did not have to write, in its place.                        *)
(*                                                                         *)
(* Behind the last two is what the next call of a task says of the rule    *)
(* (Promise): each call makes true what the ones after it rely on.         *)
(***************************************************************************)
EXTENDS RuleTask, TLAPS

Promise(t) ==
  /\ step = "create" => Puts(t) /\ Missing(Name[t])
  /\ step = "apply"  => Puts(t)
  /\ step = "delete" => Removes(t)
  /\ step = "move"   => Puts(t) /\ AsAsked(t)
  /\ step = "commit" => /\ AsAsked(t)
                        /\ Puts(t) /\ (kind = "nat" => changed) => InPlace(t)

Kept == Busy /\ alone /\ task \notin CheckMode => Promise(task)
IInv == TypeOK /\ Kept

-----------------------------------------------------------------------------
(* The order of the rules.                                                 *)

LEMMA TaskFacts ==
  ASSUME NEW t \in Task
  PROVE  /\ Name[t] \in Rule /\ Existing[t] \in Rule /\ Asked[t] \in Body
         /\ Location[t] \in Locations /\ Operation[t] \in Operations
         /\ State[t] \in {"present", "absent", "none"}
BY RuleAssumption

LEMMA PutPairs ==
  ASSUME NEW r, NEW up, Ordered(above, book), NEW x, NEW y
  PROVE  <<x, y>> \in Put(r, up)
           <=> \/ x # r /\ y # r /\ <<x, y>> \in above
               \/ x \in up /\ y = r
               \/ x = r /\ y \in Others(r) \ up
BY DEF Put, Ordered

(* A rule that is put below the rules in up, none of which has one above   *)
(* it that is not in up, keeps the rules in one line.                      *)
LEMMA PutOrdered ==
  ASSUME NEW r \in Rule, Ordered(above, book), NEW up \in SUBSET Others(r),
         \A s \in up, q \in Others(r) : <<q, s>> \in above => q \in up,
         NEW b, Known(b) = Known(book) \cup {r}
  PROVE  Ordered(Put(r, up), b)
<1> DEFINE In(x, y) == <<x, y>> \in Put(r, up)
<1>1. /\ above \subseteq Known(book) \X Known(book)
      /\ \A x \in Rule : <<x, x>> \notin above
      /\ \A x, y \in Known(book) : x = y \/ <<x, y>> \in above \/ <<y, x>> \in above
      /\ \A x, y, z \in Rule : <<x, y>> \in above /\ <<y, z>> \in above => <<x, z>> \in above
      /\ Known(book) \subseteq Rule /\ Others(r) = Known(book) \ {r} /\ Known(b) \subseteq Rule
  BY DEF Ordered, Known, Others
<1>2. \A x, y : In(x, y) <=> \/ x # r /\ y # r /\ <<x, y>> \in above
                             \/ x \in up /\ y = r
                             \/ x = r /\ y \in Others(r) \ up
  BY PutPairs
<1>3. Put(r, up) \subseteq Known(b) \X Known(b)
  BY <1>1 DEF Put
<1>4. ASSUME NEW x \in Rule PROVE ~ In(x, x)
  BY <1>1, <1>2
<1>5. ASSUME NEW x \in Known(b), NEW y \in Known(b) PROVE x = y \/ In(x, y) \/ In(y, x)
  BY <1>1, <1>2
<1>6. ASSUME NEW x \in Rule, NEW y \in Rule, NEW z \in Rule, In(x, y), In(y, z)
      PROVE  In(x, z)
  <2>1. x \in Known(b) /\ y \in Known(b) /\ z \in Known(b)
    BY <1>3, <1>6
  <2>2. CASE x = r
    BY <1>1, <1>2, <1>6, <2>1, <2>2
  <2>3. CASE y = r
    BY <1>1, <1>2, <1>6, <2>1, <2>3
  <2>4. CASE z = r
    BY <1>1, <1>2, <1>6, <2>1, <2>4
  <2>5. CASE x # r /\ y # r /\ z # r
    BY <1>1, <1>2, <1>6, <2>1, <2>5
  <2>6. QED
    BY <2>2, <2>3, <2>4, <2>5
<1>7. QED
  BY <1>3, <1>4, <1>5, <1>6 DEF Ordered

LEMMA EraseOrdered ==
  ASSUME NEW r \in Rule, Ordered(above, book), book \in Books
  PROVE  Ordered({p \in above : p[1] # r /\ p[2] # r}, [book EXCEPT ![r] = None])
<1> DEFINE less == {p \in above : p[1] # r /\ p[2] # r}
<1>1. Known([book EXCEPT ![r] = None]) = Known(book) \ {r}
  BY DEF Known, Books
<1>2. \A x, y : <<x, y>> \in less <=> x # r /\ y # r /\ <<x, y>> \in above
  OBVIOUS
<1>3. less \subseteq (Known(book) \ {r}) \X (Known(book) \ {r})
  BY DEF Ordered
<1> HIDE DEF less
<1>4. QED
  BY <1>1, <1>2, <1>3 DEF Ordered

(* The rules above the place a rule is moved to.                           *)
LEMMA OverFacts ==
  ASSUME NEW r \in Rule, NEW d \in Rule, NEW location \in Locations,
         Ordered(above, book), ~ Refused(r, location, d)
  PROVE  /\ Over(r, location, d) \in SUBSET Others(r)
         /\ \A s \in Over(r, location, d), q \in Others(r) :
              <<q, s>> \in above => q \in Over(r, location, d)
<1>1. Known(book) \subseteq Rule /\ Others(r) = Known(book) \ {r}
  BY DEF Known, Others
<1>2. \A x, y, z \in Rule : <<x, y>> \in above /\ <<y, z>> \in above => <<x, z>> \in above
  BY DEF Ordered
<1>3. location \in {"before", "after"} => d \in Others(r)
  BY DEF Refused, Missing, Others, Known
<1>4. UpTo(d) \subseteq Known(book) /\ \A x \in Known(book) : x \in UpTo(d) <=> <<x, d>> \in above
  BY DEF UpTo
<1>5. CASE location = "top"
  BY <1>5 DEF Over
<1>6. CASE location = "before"
  BY <1>1, <1>2, <1>3, <1>4, <1>6 DEF Over
<1>7. CASE location = "after"
  BY <1>1, <1>2, <1>3, <1>4, <1>7 DEF Over
<1>8. CASE location \notin {"top", "before", "after"}
  BY <1>8 DEF Over
<1>9. QED
  BY <1>5, <1>6, <1>7, <1>8

LEMMA MovedOrdered ==
  ASSUME NEW r \in Rule, NEW d \in Rule, NEW location \in Locations,
         Ordered(above, book), ~ Refused(r, location, d)
  PROVE  Ordered(Moved(r, location, d), book)
<1>1. Known(book) = Known(book) \cup {r}
  BY DEF Refused, Missing, Known
<1>2. QED
  BY <1>1, OverFacts, PutOrdered DEF Moved

LEMMA WriteOrdered ==
  ASSUME NEW r \in Rule, NEW settings \in Body, Ordered(above, book), book \in Books,
         Write(r, settings)
  PROVE  Ordered(above', book') /\ book' \in Books
<1>1. book' = [book EXCEPT ![r] = settings] /\ book' \in Books /\ settings # None
  BY RuleAssumption DEF Write, Books
<1>2. Known(book') = Known(book) \cup {r}
  BY <1>1 DEF Known, Books
<1>3. CASE Missing(r)
  <2>1. above' = Put(r, Others(r))
    BY <1>3 DEF Write
  <2>2. Ordered(Put(r, Others(r)), book')
    BY <1>2, PutOrdered
  <2>3. QED
    BY <1>1, <2>1, <2>2
<1>4. CASE ~ Missing(r)
  <2>1. above' = above /\ Known(book') = Known(book)
    BY <1>2, <1>4 DEF Write, Missing, Known
  <2>2. QED
    BY <1>1, <2>1 DEF Ordered
<1>5. QED
  BY <1>3, <1>4

LEMMA EraseKeeps ==
  ASSUME NEW r \in Rule, Ordered(above, book), book \in Books, Erase(r)
  PROVE  Ordered(above', book') /\ book' \in Books
BY EraseOrdered DEF Erase, Books

-----------------------------------------------------------------------------
(* The type invariant.                                                     *)

LEMMA FirstStepType ==
  ASSUME NEW t \in Task
  PROVE  FirstStep(t) \in Steps \ {"none"}
BY DEF FirstStep, Present, Absent, Operate, AfterMatch, AfterWrite, Steps

LEMMA LocationType ==
  ASSUME NEW t \in Task
  PROVE  LocationOf(t) \in Locations
BY TaskFacts DEF LocationOf, Locations

Shifts(r, t) == /\ book' = book /\ ~ Refused(r, LocationOf(t), Existing[t])
                /\ above' = Moved(r, LocationOf(t), Existing[t])

(* What a step may do to the rules.                                        *)
LEMMA RulesChange ==
  ASSUME TypeOK, [Next]_vars
  PROVE  \/ UNCHANGED rules
         \/ \E r \in Rule, settings \in Body : Write(r, settings)
         \/ \E r \in Rule : Erase(r)
         \/ \E t \in Task : Shifts(Name[t], t)
<1> USE DEF rules
<1>0. Busy => task \in Task /\ Name[task] \in Rule /\ Asked[task] \in Body
  BY TaskFacts DEF TypeOK, Busy
<1>1. ASSUME NEW t \in Task, Start(t) PROVE UNCHANGED rules
  BY <1>1 DEF Start
<1>2. CASE ReadFails \/ Raise \/ Finish \/ CommitAll \/ CommitFails \/ CommitRejected
           \/ CallFails \/ MoveRefused \/ AdminCommits
  BY <1>2 DEF ReadFails, Raise, Finish, CommitAll, CommitFails, CommitRejected, CallFails,
              MoveRefused, AdminCommits
<1>3. CASE WriteRule
  BY <1>0, <1>3 DEF WriteRule, At
<1>4. CASE DeleteRule
  BY <1>0, <1>4 DEF DeleteRule, At
<1>5. CASE MoveRule
  BY <1>0, <1>5 DEF MoveRule, At, CanMove, Target, Shifts
<1>6. CASE CallLost
  BY <1>0, <1>6 DEF CallLost, Calls, CanMove, Target, Shifts
<1>7. CASE AdminEdits
  BY <1>7 DEF AdminEdits
<1>8. CASE UNCHANGED vars
  BY <1>8 DEF vars
<1>9. QED
  BY <1>1, <1>2, <1>3, <1>4, <1>5, <1>6, <1>7, <1>8 DEF Next, Step

LEMMA RulesType ==
  ASSUME TypeOK, [Next]_vars
  PROVE  book' \in Books /\ Ordered(above', book')
<1>0. book \in Books /\ Ordered(above, book)
  BY DEF TypeOK
<1>1. CASE UNCHANGED rules
  BY <1>0, <1>1 DEF rules
<1>2. ASSUME NEW r \in Rule, NEW settings \in Body, Write(r, settings)
      PROVE  book' \in Books /\ Ordered(above', book')
  BY <1>0, <1>2, WriteOrdered
<1>3. ASSUME NEW r \in Rule, Erase(r)
      PROVE  book' \in Books /\ Ordered(above', book')
  BY <1>0, <1>3, EraseKeeps
<1>4. ASSUME NEW t \in Task, Shifts(Name[t], t)
      PROVE  book' \in Books /\ Ordered(above', book')
  BY <1>0, <1>4, TaskFacts, LocationType, MovedOrdered DEF Shifts
<1>5. QED
  BY <1>1, <1>2, <1>3, <1>4, RulesChange

RunningOK == running[2] \in Books /\ Ordered(running[1], running[2])
RunOK ==
  /\ kind \in Kinds
  /\ task \in Task \cup {Idle}
  /\ step \in Steps /\ (step = "none" <=> ~ Busy)
  /\ changed \in BOOLEAN /\ alone \in BOOLEAN
  /\ ~ Busy => ~ changed /\ alone
  /\ last \in {"none", "ok", "failed"} /\ (Busy => last = "none")

LEMMA RunningType ==
  ASSUME TypeOK, [Next]_vars
  PROVE  RunningOK'
<1>0. RunningOK /\ book \in Books /\ Ordered(above, book)
  BY DEF TypeOK, RunningOK
<1>1. running' = running \/ running' = rules
  BY DEF Next, Step, Start, ReadFails, WriteRule, DeleteRule, MoveRule, GoOn, MoveRefused,
         CallFails, CallLost, Raise, Finish, CommitAll, CommitFails, CommitRejected,
         AdminEdits, AdminCommits, vars
<1>2. QED
  BY <1>0, <1>1 DEF RunningOK, rules

LEMMA EndType ==
  ASSUME TypeOK, kind' = kind, Busy, EndsWell \/ Fails
  PROVE  RunOK'
BY RuleAssumption DEF TypeOK, RunOK, EndsWell, Fails, End, Busy, Steps

LEMMA GoOnType ==
  ASSUME TypeOK, kind' = kind, Busy, NEW next \in Steps \ {"none"}, GoOn(next),
         changed' \in BOOLEAN
  PROVE  RunOK'
BY DEF TypeOK, RunOK, GoOn, Busy

LEMMA RunType ==
  ASSUME TypeOK, [Next]_vars
  PROVE  RunOK'
<1>0. kind' = kind
  BY DEF Next, vars
<1>1. ASSUME NEW t \in Task, Start(t) PROVE RunOK'
  <2>1. FirstStep(t) \in Steps \ {"none"} /\ t # Idle
    BY FirstStepType, RuleAssumption
  <2>2. QED
    BY <1>0, <1>1, <2>1 DEF Start, TypeOK, RunOK, Busy
<1>2. CASE ReadFails
  BY <1>0, <1>2 DEF ReadFails, TypeOK, RunOK, Busy, run
<1>3. CASE Raise \/ Finish \/ CommitAll \/ CommitFails \/ CommitRejected
           \/ CallFails \/ MoveRefused \/ CallLost
  <2>1. Busy /\ (EndsWell \/ Fails)
    BY <1>3 DEF Raise, Finish, CommitAll, CommitFails, CommitRejected, CallFails, MoveRefused,
                CallLost, At
  <2>2. QED
    BY <1>0, <2>1, EndType
<1>4. CASE WriteRule
  <2>1. Busy /\ GoOn(AfterWrite(task)) /\ changed' \in BOOLEAN
    BY <1>4 DEF WriteRule, At
  <2>2. AfterWrite(task) \in Steps \ {"none"}
    BY DEF AfterWrite, Steps
  <2>3. QED
    BY <1>0, <2>1, <2>2, GoOnType
<1>5. CASE DeleteRule
  BY <1>0, <1>5, GoOnType DEF DeleteRule, At, Steps
<1>6. CASE MoveRule
  <2>1. Busy /\ GoOn("commit") /\ changed' \in BOOLEAN
    BY <1>6 DEF MoveRule, At, TypeOK
  <2>2. QED
    BY <1>0, <2>1, GoOnType DEF Steps
<1>7. CASE AdminEdits
  BY <1>0, <1>7 DEF AdminEdits, TypeOK, RunOK, Busy
<1>8. CASE AdminCommits
  BY <1>0, <1>8 DEF AdminCommits, TypeOK, RunOK, Busy, run
<1>9. CASE UNCHANGED vars
  BY <1>9 DEF vars, TypeOK, RunOK, Busy, run
<1>10. QED
  BY <1>1, <1>2, <1>3, <1>4, <1>5, <1>6, <1>7, <1>8, <1>9 DEF Next, Step

LEMMA NextType ==
  ASSUME TypeOK, [Next]_vars
  PROVE  TypeOK'
BY RulesType, RunningType, RunType DEF TypeOK, RunningOK, RunOK

LEMMA InitType ==
  ASSUME Init
  PROVE  TypeOK
BY RuleAssumption DEF Init, TypeOK, Busy, Steps

-----------------------------------------------------------------------------
(* The promise of the next call.                                           *)

LEMMA Exclusive ==
  ASSUME NEW t \in Task, Removes(t)
  PROVE  ~ Puts(t)
BY DEF Removes, Puts

LEMMA FirstFits ==
  ASSUME TypeOK, NEW t \in Task
  PROVE  /\ FirstStep(t) = "create" => Puts(t) /\ Missing(Name[t])
         /\ FirstStep(t) = "apply" => Puts(t)
         /\ FirstStep(t) = "delete" => Removes(t)
         /\ FirstStep(t) = "move" => Puts(t) /\ AsAsked(t)
         /\ FirstStep(t) = "commit" =>
              AsAsked(t) /\ (Puts(t) => kind = "nat" \/ LocationOf(t) = "none")
<1>0. kind \in {"nat", "security"}
  BY RuleAssumption DEF TypeOK
<1>1. AfterMatch(t) \in {"move", "commit"}
      /\ (AfterMatch(t) = "commit" => kind = "nat" \/ LocationOf(t) = "none")
  BY <1>0 DEF AfterMatch, AfterWrite, Places
<1>2. CASE t \in Incomplete
  BY <1>2 DEF FirstStep
<1>3. CASE t \notin Incomplete /\ StateOf(t) = "present"
  <2>1. FirstStep(t) = Present(t) /\ Puts(t) /\ ~ Removes(t)
    BY <1>3 DEF FirstStep, Puts, Removes
  <2>2. CASE Missing(Name[t])
    BY <2>1, <2>2 DEF Present
  <2>3. CASE ~ Missing(Name[t]) /\ book[Name[t]] # Asked[t]
    BY <2>1, <2>3 DEF Present
  <2>4. CASE ~ Missing(Name[t]) /\ book[Name[t]] = Asked[t]
    <3>1. FirstStep(t) = AfterMatch(t)
      BY <2>1, <2>4 DEF Present
    <3>2. AsAsked(t)
      BY <2>1, <2>4 DEF AsAsked
    <3>3. QED
      BY <1>1, <2>1, <3>1, <3>2
  <2>5. QED
    BY <2>2, <2>3, <2>4
<1>4. CASE t \notin Incomplete /\ StateOf(t) = "absent"
  <2>1. FirstStep(t) = Absent(t) /\ Removes(t) /\ ~ Puts(t)
    BY <1>4 DEF FirstStep, Puts, Removes
  <2>2. QED
    BY <2>1 DEF Absent, AsAsked
<1>5. CASE t \notin Incomplete /\ StateOf(t) \notin {"present", "absent"}
  <2>1. FirstStep(t) = Operate(t) /\ StateOf(t) = "none"
    BY <1>5, TaskFacts DEF FirstStep, StateOf
  <2>2. QED
    BY <2>1 DEF Operate, AsAsked, Puts, Removes
<1>6. QED
  BY <1>2, <1>3, <1>4, <1>5

LEMMA StartKept ==
  ASSUME TypeOK, kind' = kind, NEW t \in Task, Start(t)
  PROVE  Kept'
<1>1. task' = t /\ step' = FirstStep(t) /\ book' = book /\ above' = above
      /\ changed' = changed /\ ~ changed
  BY DEF Start, rules, TypeOK
<1>2. (Missing(Name[t]) => Missing(Name[t])') /\ (AsAsked(t) => AsAsked(t)')
      /\ (Puts(t) => Puts(t)') /\ (Puts(t)' => Puts(t)) /\ (Removes(t) => Removes(t)')
      /\ (LocationOf(t) = "none" => InPlace(t)')
  BY <1>1 DEF Missing, AsAsked, Puts, Removes, StateOf, LocationOf, InPlace
<1>3. Promise(t)'
  BY <1>1, <1>2, FirstFits DEF Promise
<1>4. QED
  BY <1>1, <1>3 DEF Kept

LEMMA WriteKept ==
  ASSUME TypeOK, Kept, kind' = kind, WriteRule
  PROVE  Kept'
<1>1. SUFFICES ASSUME alone, task \notin CheckMode
               PROVE  Promise(task)'
  BY DEF Kept, WriteRule, GoOn
<1>2. Busy /\ step \in {"create", "apply"} /\ task' = task /\ step' = AfterWrite(task)
  BY DEF WriteRule, GoOn, At
<1>3. task \in Task /\ Puts(task) /\ (step = "create" => Missing(Name[task]))
  BY <1>1, <1>2 DEF Kept, Promise, Busy, TypeOK
<1>4. Write(Name[task], Asked[task])
  BY <1>1, <1>2, <1>3 DEF WriteRule
<1>5. book'[Name[task]] = Asked[task]
  BY <1>3, <1>4, TaskFacts DEF Write, TypeOK, Books
<1>6. Puts(task)' /\ ~ Removes(task)'
  BY <1>2, <1>3, Exclusive DEF Puts, Removes, StateOf
<1>7. AsAsked(task)'
  BY <1>2, <1>5, <1>6 DEF AsAsked
<1>8. step' \in {"move", "commit"} /\ (step' = "commit" => LocationOf(task) = "none")
  BY <1>2 DEF AfterWrite, Places
<1>9. step' = "commit" => InPlace(task)'
  BY <1>2, <1>8 DEF InPlace, LocationOf
<1>10. QED
  BY <1>6, <1>7, <1>8, <1>9 DEF Promise

LEMMA DeleteKept ==
  ASSUME TypeOK, Kept, kind' = kind, DeleteRule
  PROVE  Kept'
<1>1. SUFFICES ASSUME alone, task \notin CheckMode
               PROVE  Promise(task)'
  BY DEF Kept, DeleteRule, GoOn
<1>2. Busy /\ step = "delete" /\ task' = task /\ step' = "commit" /\ Erase(Name[task])
  BY <1>1 DEF DeleteRule, GoOn, At
<1>3. task \in Task /\ Removes(task)
  BY <1>1, <1>2 DEF Kept, Promise, Busy, TypeOK
<1>4. Missing(Name[task])'
  BY <1>2, <1>3, TaskFacts DEF Erase, TypeOK, Books, Missing
<1>5. ~ Puts(task)'
  BY <1>2, <1>3, Exclusive DEF Puts, StateOf
<1>6. QED
  BY <1>2, <1>4, <1>5 DEF Promise, AsAsked

(* A rule that is moved is next to the other one, or first or last.        *)
LEMMA MovedInPlace ==
  ASSUME NEW t \in Task, Ordered(above, book), kind' = kind, Shifts(Name[t], t)
  PROVE  InPlace(t)'
<1> DEFINE r  == Name[t]
           d  == Existing[t]
           up == Over(r, LocationOf(t), d)
<1>0. r \in Rule /\ d \in Rule /\ LocationOf(t) \in Locations /\ LocationOf(t)' = LocationOf(t)
  BY TaskFacts, LocationType DEF LocationOf
<1>1. Others(r)' = Others(r) /\ Others(r) = Known(book) \ {r} /\ Known(book) \subseteq Rule
  BY DEF Shifts, Others, Known
<1>2. \A x, y : <<x, y>> \in above'
                  <=> \/ x # r /\ y # r /\ <<x, y>> \in above
                      \/ x \in up /\ y = r
                      \/ x = r /\ y \in Others(r) \ up
  <2>1. above' = Put(r, up)
    BY DEF Shifts, Moved
  <2> HIDE DEF r, d, up
  <2>2. QED
    BY <2>1, PutPairs
<1>3. above \subseteq Known(book) \X Known(book) /\ (\A x \in Rule : <<x, x>> \notin above)
      /\ \A x, y, z \in Rule : <<x, y>> \in above /\ <<y, z>> \in above => <<x, z>> \in above
  BY DEF Ordered
<1>4. LocationOf(t) \in {"before", "after"} => d \in Known(book) /\ d # r
  BY <1>0 DEF Shifts, Refused, Missing, Known
<1>5. CASE LocationOf(t) = "top"
  <2>1. up = {}
    BY <1>5 DEF Over
  <2>2. QED
    BY <1>0, <1>1, <1>2, <1>5, <2>1 DEF InPlace
<1>6. CASE LocationOf(t) = "bottom"
  <2>1. up = Others(r)
    BY <1>6 DEF Over
  <2>2. QED
    BY <1>0, <1>1, <1>2, <1>6, <2>1 DEF InPlace
<1>7. CASE LocationOf(t) = "before"
  <2>1. up = UpTo(d) \ {r} /\ \A x \in Known(book) : x \in UpTo(d) <=> <<x, d>> \in above
    BY <1>7 DEF Over, UpTo
  <2>2. <<r, d>> \in above'
    BY <1>0, <1>1, <1>2, <1>3, <1>4, <1>7, <2>1
  <2>3. ASSUME NEW q \in Rule, <<r, q>> \in above', <<q, d>> \in above' PROVE FALSE
    BY <1>0, <1>1, <1>2, <1>3, <1>4, <1>7, <2>1, <2>3
  <2>4. QED
    BY <1>0, <1>7, <2>2, <2>3 DEF InPlace, Adjacent, Between
<1>8. CASE LocationOf(t) = "after"
  <2>1. /\ up = (UpTo(d) \cup {d}) \ {r}
        /\ UpTo(d) \subseteq Known(book)
        /\ \A x \in Known(book) : x \in UpTo(d) <=> <<x, d>> \in above
    BY <1>8 DEF Over, UpTo
  <2>2. <<d, r>> \in above'
    BY <1>0, <1>1, <1>2, <1>3, <1>4, <1>8, <2>1
  <2>3. ASSUME NEW q \in Rule, <<d, q>> \in above', <<q, r>> \in above' PROVE FALSE
    BY <1>0, <1>1, <1>2, <1>3, <1>4, <1>8, <2>1, <2>3
  <2>4. QED
    BY <1>0, <1>8, <2>2, <2>3 DEF InPlace, Adjacent, Between
<1>9. CASE LocationOf(t) = "none"
  BY <1>0, <1>9 DEF InPlace
<1>10. QED
  BY <1>0, <1>5, <1>6, <1>7, <1>8, <1>9 DEF Locations

LEMMA MoveKept ==
  ASSUME TypeOK, Kept, kind' = kind, MoveRule
  PROVE  Kept'
<1>1. SUFFICES ASSUME alone, task \notin CheckMode
               PROVE  Promise(task)'
  BY DEF Kept, MoveRule, GoOn
<1>2. Busy /\ step = "move" /\ task' = task /\ step' = "commit" /\ book' = book
  BY DEF MoveRule, GoOn, At
<1>3. task \in Task /\ AsAsked(task) /\ Ordered(above, book)
  BY <1>1, <1>2 DEF Kept, Promise, Busy, TypeOK
<1>4. Shifts(Name[task], task)
  BY <1>1, <1>2 DEF MoveRule, CanMove, Target, Shifts
<1>5. \A t \in Task : Shifts(Name[t], t) => InPlace(t)'
  BY <1>3, MovedInPlace
<1>6. InPlace(task)'
  BY <1>2, <1>3, <1>4, <1>5 DEF InPlace, LocationOf
<1>7. AsAsked(task)'
  BY <1>2, <1>3 DEF AsAsked, Puts, Removes, StateOf, Missing
<1>8. QED
  BY <1>2, <1>6, <1>7 DEF Promise

(* A step that ends the task, or after which it is no longer alone.        *)
LEMMA AsideKept ==
  ASSUME TypeOK, EndsWell \/ Fails \/ AdminEdits
  PROVE  Kept'
BY DEF EndsWell, Fails, End, AdminEdits, Kept, Busy

LEMMA SameKept ==
  ASSUME Kept, kind' = kind, UNCHANGED <<rules, run>>
  PROVE  Kept'
<1>1. UNCHANGED <<above, book, task, step, changed, alone>>
  BY DEF rules, run
<1>2. Promise(task) => Promise(task)'
  BY <1>1 DEF Promise, AsAsked, Puts, Removes, StateOf, LocationOf, Missing, InPlace, Others,
              Known, Adjacent, Between
<1>3. QED
  BY <1>1, <1>2 DEF Kept, Busy

LEMMA NextKept ==
  ASSUME IInv, [Next]_vars
  PROVE  Kept'
<1>0. TypeOK /\ Kept /\ kind' = kind
  BY DEF IInv, Next, vars
<1>1. ASSUME NEW t \in Task, Start(t) PROVE Kept'
  BY <1>0, <1>1, StartKept
<1>2. CASE Raise \/ Finish \/ CommitAll \/ CommitFails \/ CommitRejected
           \/ CallFails \/ MoveRefused \/ CallLost \/ AdminEdits
  <2>1. EndsWell \/ Fails \/ AdminEdits
    BY <1>2 DEF Raise, Finish, CommitAll, CommitFails, CommitRejected, CallFails, MoveRefused,
                CallLost
  <2>2. QED
    BY <1>0, <2>1, AsideKept
<1>3. CASE WriteRule
  BY <1>0, <1>3, WriteKept
<1>4. CASE DeleteRule
  BY <1>0, <1>4, DeleteKept
<1>5. CASE MoveRule
  BY <1>0, <1>5, MoveKept
<1>6. CASE ReadFails \/ AdminCommits \/ UNCHANGED vars
  <2>1. UNCHANGED <<rules, run>>
    BY <1>6 DEF ReadFails, AdminCommits, vars, rules
  <2>2. QED
    BY <1>0, <2>1, SameKept
<1>7. QED
  BY <1>1, <1>2, <1>3, <1>4, <1>5, <1>6 DEF Next, Step

-----------------------------------------------------------------------------
(* The theorems.                                                           *)

THEOREM Invariant == Spec => []IInv
<1>1. Init => IInv
  BY InitType DEF IInv, Kept, Init, Busy
<1>2. IInv /\ [Next]_vars => IInv'
  BY NextType, NextKept DEF IInv
<1>3. QED
  BY <1>1, <1>2, PTL DEF Spec

(* The rules stay in one line, each above or below each other one, in the  *)
(* candidate and in what is running, whatever fails and whoever edits.     *)
THEOREM TypeCorrect == Spec => []TypeOK
<1>1. IInv => TypeOK
  BY DEF IInv
<1>2. QED
  BY <1>1, Invariant, PTL

LEMMA EndFacts ==
  ASSUME IInv, [Next]_vars, NEW t \in Task, EndsOk(t)
  PROVE  /\ UNCHANGED rules /\ kind' = kind
         /\ AsAsked(t)
         /\ Puts(t) /\ (kind = "nat" => changed) => InPlace(t)
<1>1. task = t /\ task' = Idle /\ task # Idle /\ alone /\ t \notin CheckMode /\ last' = "ok"
  BY RuleAssumption DEF EndsOk
<1>2. kind' = kind
  BY DEF Next, vars
<1>3. step = "commit" /\ UNCHANGED rules
  BY <1>1 DEF Next, Step, Start, ReadFails, WriteRule, DeleteRule, MoveRule, GoOn, MoveRefused,
         CallFails, CallLost, Raise, Finish, CommitAll, CommitFails, CommitRejected, EndsWell,
         Fails, End, At, Busy, AdminEdits, AdminCommits, run, vars, rules
<1>4. Promise(t)
  BY <1>1 DEF IInv, Kept, Busy
<1>5. QED
  BY <1>2, <1>3, <1>4 DEF Promise

(* A task that ends well, with nobody else editing, left its rule as it    *)
(* was asked to or has removed it, whatever failed before.                 *)
THEOREM Truthful == Spec => OkMeansAsked
<1>1. ASSUME IInv, [Next]_vars, NEW t \in Task, EndsOk(t)
      PROVE  AsAsked(t)'
  <2>1. UNCHANGED rules /\ kind' = kind /\ AsAsked(t)
    BY <1>1, EndFacts
  <2>2. QED
    BY <2>1 DEF rules, AsAsked, Puts, Removes, StateOf, Missing
<1>2. IInv /\ [Next]_vars => [\A t \in Task : EndsOk(t) => AsAsked(t)']_vars
  BY <1>1
<1>3. QED
  BY <1>2, Invariant, PTL DEF Spec, OkMeansAsked

(* A security rule is in its place when its task ends well, a NAT rule if  *)
(* the run that ends wrote or moved it.                                    *)
THEOREM Placing == Spec => OkMeansMoved
<1>1. ASSUME IInv, [Next]_vars, NEW t \in Task,
             EndsOk(t) /\ Puts(t) /\ (kind = "nat" => changed)
      PROVE  InPlace(t)'
  <2>1. UNCHANGED rules /\ kind' = kind /\ InPlace(t)
    BY <1>1, EndFacts
  <2>2. QED
    BY <2>1 DEF rules, InPlace, LocationOf, Others, Known, Adjacent, Between
<1>2. IInv /\ [Next]_vars =>
        [\A t \in Task : EndsOk(t) /\ Puts(t) /\ (kind = "nat" => changed) => InPlace(t)']_vars
  BY <1>1
<1>3. QED
  BY <1>2, Invariant, PTL DEF Spec, OkMeansMoved
=============================================================================
