----------------------------- MODULE BootProofs -----------------------------
(***************************************************************************)
(* What BootTask keeps for every firewall, every play and every choice of  *)
(* its timeouts.  Each action has a lemma of its own, so that the argument *)
(* for an invariant names what can disturb it.                             *)
(***************************************************************************)
EXTENDS BootTask, TLAPS

Max2 == IF Interval > Latency THEN Interval ELSE Latency

(* How much time is left where, for the deadline and for the call or sleep *)
(* that is under way.                                                      *)
TimeInv ==
  /\ pc \in {"connect", "connecting"} => left <= Timeout[play]
  /\ pc = "connect" => left >= 0
  /\ pc = "connecting" => due <= left + Latency
  /\ pc = "poll" => 0 <= left + Max2
  /\ pc = "polling" => due <= left + Longest
  /\ pc = "sleeping" => due <= left + Interval
  /\ pc = "waiting" /\ ~ Patient => left >= -1

(* When the answer to a call under way is not that nothing is pending, no  *)
(* more time has passed since then than the call has taken.                *)
CalmInv ==
  /\ ~ Quiet => calm = 0
  /\ pc = "connecting" => due <= Latency /\ (answer = "error" => due <= Latency - calm)
  /\ pc = "polling" => due <= Latency /\ (answer # "quiet" => due <= Latency - calm)

(* The jobs that a quiet answer reported are finished.                     *)
SeenInv ==
  /\ pc = "port" => Gate[play] = "wait_for"
  /\ Gate[play] = "panos_check" /\ crashes = Reboots
     /\ (pc \in {"dial", "waiting", "resting"} \/ (pc = "polling" /\ answer = "quiet"))
       => \A j \in known : job[j] = "finished"

(* How far the new password has come at each line.                         *)
WordInv ==
  /\ running = "new" => cand = "new"
  /\ reply \in {"success", "refused"} => line = "commit"
  /\ reply = "prompt" => line # "commit"
  /\ pc = "waiting" /\ (line = "commit" \/ (line = "second" /\ reply = "prompt"))
       => cand = "new" \/ reverted
  /\ pc = "waiting" /\ line = "commit" /\ reply = "success" => running = "new" \/ reverted
  /\ pc = "waiting" /\ line \in {"exit", "leave"} => running = "new" \/ reverted \/ ~ okay
  /\ pc = "waiting" /\ ~ Patient => line \notin {"exit", "leave"}
  /\ pc = "waiting" /\ ~ Patient /\ play \in CheckMode => line \in {"shell", "configure"}

-----------------------------------------------------------------------------
(* TypeOK, part by part.                                                   *)

LEMMA PlayFacts ==
  ASSUME TypeOK
  PROVE  /\ Gate[play] \in {"panos_check", "wait_for", "none"}
         /\ Script[play] \in {"panos_admpwd", "panos_init"}
         /\ Timeout[play] \in Nat
BY BootAssumption DEF TypeOK, ScriptOK

LEMMA InitTypes == Init => TypeOK
<1> SUFFICES ASSUME Init PROVE TypeOK
  OBVIOUS
<1>1. /\ play \in Play /\ Gate[play] \in {"panos_check", "wait_for", "none"}
      /\ Timeout[play] \in Nat /\ InitialDelay \in Nat
      /\ Retries \in Nat /\ Reboots \in Nat
  BY BootAssumption DEF Init
<1>2. pc \in {"delay", "port", "dial"}
  BY <1>1 DEF Init
<1>3. FirewallOK
  <2>1. crashes \in 0..Reboots
    BY <1>1 DEF Init
  <2> QED BY <2>1 DEF Init, FirewallOK
<1>6. ConfigOK /\ HistoryOK
  BY DEF Init, ConfigOK, HistoryOK
<1>4. ScriptOK
  BY <1>1, <1>2 DEF Init, ScriptOK, PCs
<1>5. SessionOK
  BY DEF Init, SessionOK, Line
<1> QED BY <1>3, <1>4, <1>5, <1>6 DEF TypeOK

(* Which variables an action may change.                                   *)
LEMMA FirewallFrame == [Next]_vars /\ ~ Device => UNCHANGED firewall
<1> USE DEF firewall
<1>1. Tick => UNCHANGED firewall BY DEF Tick
<1>2. Waits => UNCHANGED firewall
  BY DEF Waits, BeginCheck, Connect, Poll, Ask, Connected, ConnectAgain, ConnectTimeout, Ready,
         PollAgain, PollTimeout, Wake, PortOpen, PortTimeout, GoOn, PlayEnds
<1>3. Talks => UNCHANGED firewall
  BY DEF Talks, Dial, DialFails, Rested, NextLine, Send, AdmpwdEnds, PromptTimeout, InitEnds,
         InitFails, TryFails, GoOn, Ends, PlayEnds
<1>4. Others => UNCHANGED firewall
  BY DEF Others, AdminCommits, AdminReverts, AdminEdits
<1> QED BY <1>1, <1>2, <1>3, <1>4 DEF Next, vars

LEMMA ConfigFrame == [Next]_vars /\ ~ Device /\ ~ Others => UNCHANGED config
<1> USE DEF config
<1>1. Tick => UNCHANGED config BY DEF Tick
<1>2. Waits => UNCHANGED config
  BY DEF Waits, BeginCheck, Connect, Poll, Ask, Connected, ConnectAgain, ConnectTimeout, Ready,
         PollAgain, PollTimeout, Wake, PortOpen, PortTimeout, GoOn, PlayEnds
<1>3. Talks => UNCHANGED config
  BY DEF Talks, Dial, DialFails, Rested, NextLine, Send, AdmpwdEnds, PromptTimeout, InitEnds,
         InitFails, TryFails, GoOn, Ends, PlayEnds
<1> QED BY <1>1, <1>2, <1>3 DEF Next, vars

LEMMA ScriptFrame == [Next]_vars /\ ~ Tick /\ ~ Waits /\ ~ Talks
                       => UNCHANGED <<play, pc, timers, answer, tries, last>>
<1>1. Device => UNCHANGED <<play, pc, timers, answer, tries, last>>
  BY DEF Device, Boot, Reboot, Post, Done, Serve, ServeOrphan
<1>2. Others => UNCHANGED <<play, pc, timers, answer, tries, last>>
  BY DEF Others, AdminCommits, AdminReverts, AdminEdits
<1> QED BY <1>1, <1>2 DEF Next, vars

LEMMA FirewallTypes == TypeOK /\ [Next]_vars => FirewallOK'
<1> SUFFICES ASSUME TypeOK, [Next]_vars PROVE FirewallOK'
  OBVIOUS
<1> USE DEF FirewallOK, firewall
<1>1. CASE ~ Device
  BY <1>1, FirewallFrame DEF TypeOK
<1>2. CASE Boot
  BY <1>2 DEF Boot, TypeOK
<1>3. CASE Reboot
  <2>1. crashes' \in 0..Reboots
    BY <1>3, BootAssumption DEF Reboot, TypeOK
  <2> QED BY <1>3, <2>1 DEF Reboot, TypeOK
<1>4. ASSUME NEW j \in Job, Post(j) \/ Done(j) PROVE FirewallOK'
  BY <1>4 DEF Post, Done, TypeOK
<1>5. CASE Serve \/ ServeOrphan
  BY <1>5 DEF Serve, ServeOrphan, TypeOK
<1> QED BY <1>1, <1>2, <1>3, <1>4, <1>5 DEF Device

LEMMA ConfigTypes == TypeOK /\ [Next]_vars => ConfigOK'
<1> SUFFICES ASSUME TypeOK, [Next]_vars PROVE ConfigOK'
  OBVIOUS
<1> USE DEF ConfigOK, config
<1>1. CASE ~ Device /\ ~ Others
  BY <1>1, ConfigFrame DEF TypeOK
<1>2. CASE Boot \/ \E j \in Job : Post(j) \/ Done(j)
  BY <1>2 DEF Boot, Post, Done, TypeOK
<1>3. CASE Reboot
  BY <1>3 DEF Reboot, TypeOK
<1>4. CASE Serve \/ ServeOrphan
  BY <1>4 DEF Serve, ServeOrphan, Carry, TypeOK
<1>5. CASE Others
  BY <1>5 DEF Others, AdminCommits, AdminReverts, AdminEdits, TypeOK
<1> QED BY <1>1, <1>2, <1>3, <1>4, <1>5 DEF Device

LEMMA TryFailsTypes == TypeOK /\ pc \in {"dial", "waiting"} /\ TryFails => ScriptOK'
<1> SUFFICES ASSUME TypeOK, pc \in {"dial", "waiting"}, TryFails PROVE ScriptOK'
  OBVIOUS
<1>1. CASE ~ Patient /\ tries > 0
  <2>1. tries' \in 0..Retries /\ due' \in Nat
    BY <1>1, BootAssumption DEF TryFails, TypeOK, ScriptOK
  <2> QED BY <1>1, <2>1 DEF TryFails, TypeOK, ScriptOK, PCs
<1>2. CASE ~ (~ Patient /\ tries > 0)
  BY <1>2 DEF TryFails, TypeOK, ScriptOK, PCs
<1> QED BY <1>1, <1>2

LEMMA EndsTypes ==
  ASSUME TypeOK, NEW how \in {"ok", "unchanged", "failed"}, PlayEnds(how), UNCHANGED timers
  PROVE  ScriptOK'
BY DEF TypeOK, ScriptOK, PlayEnds, timers, PCs

LEMMA GoOnTypes ==
  ASSUME TypeOK, NEW to \in PCs \ {"ended"}, pc # "ended", GoOn(to), left' \in Int, due' \in Nat
  PROVE  ScriptOK'
BY DEF TypeOK, ScriptOK, GoOn, PCs

LEMMA ScriptTypes == TypeOK /\ [Next]_vars => ScriptOK'
<1> SUFFICES ASSUME TypeOK, [Next]_vars PROVE ScriptOK'
  OBVIOUS
<1>1. CASE ~ Tick /\ ~ Waits /\ ~ Talks
  BY <1>1, ScriptFrame DEF TypeOK, ScriptOK, timers
<1>2. CASE Tick
  BY <1>2 DEF Tick, TypeOK, ScriptOK, PCs
<1>3. CASE BeginCheck
  BY <1>3, PlayFacts DEF BeginCheck, WaitOver, TypeOK, ScriptOK, PCs
<1>4. CASE Connect \/ Poll
  BY <1>4, BootAssumption DEF Connect, Poll, Ask, TypeOK, ScriptOK, PCs
<1>5. CASE Connected \/ ConnectAgain \/ Ready \/ Wake \/ PortOpen \/ Rested
  <2>1. left' \in Int /\ due' \in Nat /\ pc # "ended"
    BY <1>5 DEF Connected, ConnectAgain, Ready, Wake, PortOpen, Rested, Returned, timers,
       TypeOK, ScriptOK
  <2>2. GoOn("poll") \/ GoOn("connect") \/ GoOn("dial")
    BY <1>5 DEF Connected, ConnectAgain, Ready, Wake, PortOpen, Rested
  <2> QED BY <2>1, <2>2, GoOnTypes DEF PCs
<1>6. CASE PollAgain
  BY <1>6, GoOnTypes, BootAssumption DEF PollAgain, Returned, TypeOK, ScriptOK, PCs
<1>7. CASE ConnectTimeout \/ PollTimeout \/ PortTimeout
  BY <1>7, EndsTypes DEF ConnectTimeout, PollTimeout, PortTimeout
<1>8. CASE Dial
  BY <1>8, BootAssumption DEF Dial, TypeOK, ScriptOK, PCs
<1>9. CASE NextLine
  BY <1>9, BootAssumption DEF NextLine, Send, LimitOf, TypeOK, ScriptOK, PCs
<1>10. CASE DialFails \/ PromptTimeout \/ InitFails
  BY <1>10, TryFailsTypes DEF DialFails, PromptTimeout, InitFails, Waiting
<1>11. CASE AdmpwdEnds \/ InitEnds
  <2>1. pc = "waiting"
    BY <1>11 DEF AdmpwdEnds, InitEnds, LastLine, Waiting
  <2>2. TryFails \/ Ends("ok") \/ Ends("unchanged")
    BY <1>11 DEF AdmpwdEnds, InitEnds
  <2> QED BY <2>1, <2>2, TryFailsTypes, EndsTypes DEF Ends
<1> QED
  BY <1>1, <1>2, <1>3, <1>4, <1>5, <1>6, <1>7, <1>8, <1>9, <1>10, <1>11 DEF Waits, Talks

LEMMA SessionTypes == TypeOK /\ [Next]_vars => SessionOK'
<1> SUFFICES ASSUME TypeOK, [Next]_vars PROVE SessionOK'
  OBVIOUS
<1> USE DEF SessionOK, session, Replies
<1>1. CASE Tick \/ Others \/ UNCHANGED vars
  BY <1>1 DEF Tick, Others, AdminCommits, AdminReverts, AdminEdits, vars, firewall, TypeOK
<1>2. CASE Waits
  <2>1. UNCHANGED session /\ UNCHANGED up /\ pc # "waiting"
    BY <1>2 DEF Waits, BeginCheck, WaitOver, Connect, Poll, Ask, Connected, ConnectAgain,
       ConnectTimeout, Ready, PollAgain, PollTimeout, Wake, PortOpen, PortTimeout, GoOn,
       PlayEnds, Returned, firewall
  <2> QED BY <2>1 DEF TypeOK
<1>3. CASE Boot \/ \E j \in Job : Post(j) \/ Done(j)
  BY <1>3 DEF Boot, Post, Done, TypeOK
<1>4. CASE Reboot
  BY <1>4 DEF Reboot, TypeOK
<1>5. CASE Serve \/ ServeOrphan
  BY <1>5 DEF Serve, ServeOrphan, TypeOK, firewall
<1>6. CASE Dial
  BY <1>6 DEF Dial, TypeOK, Line, firewall
<1>7. CASE NextLine
  BY <1>7 DEF NextLine, Send, Following, Line, TypeOK, firewall
<1>8. CASE Rested
  BY <1>8 DEF Rested, Returned, GoOn, TypeOK, firewall
<1>9. ASSUME Gone, orphan' = orphan \/ Left PROVE SessionOK'
  BY <1>9 DEF Gone, Left, Line, TypeOK
<1>10. CASE DialFails \/ AdmpwdEnds \/ PromptTimeout \/ InitEnds \/ InitFails
  BY <1>9, <1>10 DEF DialFails, AdmpwdEnds, PromptTimeout, InitEnds, InitFails, Ends, TryFails
<1> QED
  BY <1>1, <1>2, <1>3, <1>4, <1>5, <1>6, <1>7, <1>8, <1>10 DEF Next, Talks, Device

LEMMA HistoryTypes == TypeOK /\ [Next]_vars => HistoryOK'
<1> SUFFICES ASSUME TypeOK, [Next]_vars PROVE HistoryOK'
  OBVIOUS
<1> USE DEF HistoryOK, history
<1>1. CASE Tick
  BY <1>1 DEF Tick, Longer, TypeOK
<1>2. CASE Waits
  BY <1>2 DEF Waits, BeginCheck, Connect, Poll, Ask, Connected, ConnectAgain, ConnectTimeout,
     Ready, PollAgain, PollTimeout, Wake, PortOpen, PortTimeout, GoOn, PlayEnds, TypeOK
<1>3. CASE Talks
  BY <1>3 DEF Talks, Dial, DialFails, Rested, NextLine, Send, AdmpwdEnds, PromptTimeout,
     InitEnds, InitFails, TryFails, GoOn, Ends, PlayEnds, TypeOK
<1>4. CASE Boot \/ Reboot \/ \E j \in Job : Post(j) \/ Done(j)
  <2>1. known' = known /\ calm' = 0 /\ (reverted' = reverted \/ reverted' = TRUE)
    BY <1>4 DEF Boot, Reboot, Post, Done
  <2> QED BY <2>1 DEF TypeOK
<1>5. CASE Serve \/ ServeOrphan
  <2>1. known' = known /\ calm' = calm
    BY <1>5 DEF Serve, ServeOrphan
  <2>2. reverted' \in BOOLEAN
    BY <1>5, Zenon DEF Serve, ServeOrphan, TypeOK
  <2> QED BY <2>1, <2>2 DEF TypeOK
<1>6. CASE Others \/ UNCHANGED vars
  BY <1>6 DEF Others, AdminCommits, AdminReverts, AdminEdits, vars, TypeOK
<1> QED BY <1>1, <1>2, <1>3, <1>4, <1>5, <1>6 DEF Next, Device

LEMMA NextTypes == TypeOK /\ [Next]_vars => TypeOK'
BY FirewallTypes, ConfigTypes, ScriptTypes, SessionTypes, HistoryTypes DEF TypeOK

(* The variables always have their types, and a session that is over       *)
(* leaves nothing behind (panos_admpwd.py, panos_init.go).                 *)
THEOREM TypeCorrect == Spec => []TypeOK
BY InitTypes, NextTypes, PTL DEF Spec

-----------------------------------------------------------------------------
(* The deadlines.                                                          *)

LEMMA Lengths ==
  /\ Interval \in Nat /\ Latency \in Nat /\ Latency > 0
  /\ Max2 \in Nat /\ Max2 >= Interval /\ Max2 >= Latency /\ Longest = Latency + Max2
BY BootAssumption DEF Max2, Longest

LEMMA InitTime == Init => TimeInv
<1> SUFFICES ASSUME Init PROVE TimeInv
  OBVIOUS
<1>1. Gate[play] \in {"panos_check", "wait_for", "none"}
  BY BootAssumption DEF Init
<1>2. pc \in {"delay", "port", "dial"}
  BY <1>1 DEF Init
<1> QED BY <1>2 DEF TimeInv

LEMMA TickTime == TypeOK /\ TimeInv /\ Tick => TimeInv'
<1> SUFFICES ASSUME TypeOK, TimeInv, Tick PROVE TimeInv'
  OBVIOUS
<1>1. /\ left \in Int /\ due \in Nat /\ pc' = pc /\ play' = play /\ pc \notin {"connect", "poll"}
      /\ due' = IF due > 0 THEN due - 1 ELSE 0
      /\ left' = IF Timed THEN left - 1 ELSE left
      /\ pc \in {"connecting", "polling", "sleeping"} => due > 0
      /\ pc = "waiting" /\ ~ Patient => left >= 0
  BY DEF Tick, TypeOK, ScriptOK, Urgent, Sleeps
<1>2. Patient' = Patient
  BY <1>1 DEF Patient
<1> QED BY <1>1, <1>2, Lengths, PlayFacts DEF TimeInv, Timed

LEMMA WaitsTime == TypeOK /\ TimeInv /\ Waits => TimeInv'
<1> SUFFICES ASSUME TypeOK, TimeInv, Waits PROVE TimeInv'
  OBVIOUS
<1>0. left \in Int /\ due \in Nat /\ Timeout[play] \in Nat
  BY PlayFacts DEF TypeOK, ScriptOK
<1> USE <1>0, Lengths DEF TimeInv
<1>1. CASE BeginCheck
  BY <1>1 DEF BeginCheck, WaitOver
<1>2. CASE Connect
  <2>1. /\ pc = "connect" /\ pc' = "connecting" /\ left' = left /\ play' = play
        /\ due' \in Nat /\ due' <= Latency
    BY <1>2 DEF Connect, Ask
  <2>2. due' <= left' + Latency /\ left' <= Timeout[play']
    BY <2>1
  <2> QED BY ONLY <2>1, <2>2 DEF TimeInv
<1>3. CASE Poll
  <2>1. /\ pc = "poll" /\ pc' = "polling" /\ left' = left
        /\ due' \in Nat /\ due' <= Latency
    BY <1>3 DEF Poll, Ask
  <2>2. due' <= left' + Longest
    BY <2>1
  <2> QED BY ONLY <2>1, <2>2 DEF TimeInv
<1>4. CASE Connected \/ ConnectAgain \/ Ready \/ Wake
  BY <1>4 DEF Connected, ConnectAgain, Ready, Wake, Returned, GoOn, timers
<1>5. CASE PollAgain
  BY <1>5 DEF PollAgain, DeadlinePassed, GoOn
<1>6. CASE PortOpen \/ ConnectTimeout \/ PollTimeout \/ PortTimeout
  BY <1>6 DEF PortOpen, ConnectTimeout, PollTimeout, PortTimeout, GoOn, PlayEnds
<1> QED BY <1>1, <1>2, <1>3, <1>4, <1>5, <1>6 DEF Waits

LEMMA TalksTime == TypeOK /\ TimeInv /\ Talks => TimeInv'
<1> SUFFICES ASSUME TypeOK, TimeInv, Talks PROVE TimeInv'
  OBVIOUS
<1> USE DEF TimeInv
<1>1. CASE Dial
  BY <1>1, BootAssumption DEF Dial
<1>2. CASE NextLine
  BY <1>2, BootAssumption DEF NextLine, Waiting, Send, LimitOf
<1>3. CASE Rested
  BY <1>3 DEF Rested, GoOn
<1>4. TryFails => TimeInv'
  BY DEF TryFails
<1>5. CASE DialFails \/ PromptTimeout \/ InitFails
  BY <1>4, <1>5 DEF DialFails, PromptTimeout, InitFails
<1>6. CASE AdmpwdEnds \/ InitEnds
  BY <1>4, <1>6 DEF AdmpwdEnds, InitEnds, Ends, PlayEnds
<1> QED BY <1>1, <1>2, <1>3, <1>5, <1>6 DEF Talks

LEMMA NextTime == TypeOK /\ TimeInv /\ [Next]_vars => TimeInv'
<1> SUFFICES ASSUME TypeOK, TimeInv, [Next]_vars PROVE TimeInv'
  OBVIOUS
<1>1. CASE ~ Tick /\ ~ Waits /\ ~ Talks
  <2>1. UNCHANGED <<play, pc, left, due>>
    BY <1>1, ScriptFrame DEF timers
  <2>2. Patient' = Patient
    BY <2>1 DEF Patient
  <2> QED BY <2>1, <2>2 DEF TimeInv
<1> QED BY <1>1, TickTime, WaitsTime, TalksTime

(* Neither loop of panos_check goes on for longer than a call and a sleep  *)
(* after its deadline, whatever the interval and the length of a call, and *)
(* panos_admpwd waits for no prompt longer than its limit.                 *)
THEOREM OnTime == Spec => []InTime
<1>1. Init => TypeOK /\ TimeInv
  BY InitTypes, InitTime
<1>2. TypeOK /\ TimeInv /\ [Next]_vars => (TypeOK /\ TimeInv)'
  BY NextTypes, NextTime
<1>3. TypeOK /\ TimeInv => InTime
  BY Lengths DEF TypeOK, ScriptOK, TimeInv, InTime
<1> QED BY <1>1, <1>2, <1>3, PTL DEF Spec

-----------------------------------------------------------------------------
(* Giving up.                                                              *)

LEMMA InitCalm == Init => CalmInv
<1> SUFFICES ASSUME Init PROVE CalmInv
  OBVIOUS
<1>1. Gate[play] \in {"panos_check", "wait_for", "none"}
  BY BootAssumption DEF Init
<1>2. pc \in {"delay", "port", "dial"} /\ calm = 0
  BY <1>1 DEF Init
<1> QED BY <1>2 DEF CalmInv

LEMMA NextCalm == TypeOK /\ CalmInv /\ [Next]_vars => CalmInv'
<1> SUFFICES ASSUME TypeOK, CalmInv, [Next]_vars PROVE CalmInv'
  OBVIOUS
<1>0. due \in Nat /\ calm \in Nat /\ Latency \in Nat
  BY Lengths DEF TypeOK, ScriptOK, HistoryOK
<1>1. CASE ~ Device
  <2>1. Quiet' = Quiet
    BY <1>1, FirewallFrame DEF Quiet, Pending, firewall
  <2>2. CASE Tick
    <3>1. /\ pc' = pc /\ answer' = answer
          /\ pc \in {"connecting", "polling"} => due > 0
          /\ due' = IF due > 0 THEN due - 1 ELSE 0
          /\ calm' = 0 \/ (Quiet /\ calm' \in Nat /\ calm' <= calm + 1)
      BY <1>0, <2>2 DEF Tick, Urgent, Sleeps, Longer
    <3>2. ~ Quiet => calm' = 0
      BY <2>2 DEF Tick
    <3> QED BY <1>0, <2>1, <3>1, <3>2 DEF CalmInv
  <2>3. CASE ~ Tick
    <3>1. calm' = calm
      BY <1>1, <2>3 DEF Next, Waits, BeginCheck, Connect, Poll, Ask, Connected, ConnectAgain,
         ConnectTimeout, Ready, PollAgain, PollTimeout, Wake, PortOpen, PortTimeout, GoOn,
         PlayEnds, Talks, Dial, DialFails, Rested, NextLine, Send, AdmpwdEnds, PromptTimeout,
         InitEnds, InitFails, TryFails, Ends, Others, AdminCommits, AdminReverts, AdminEdits,
         history, vars
    <3>2. CASE Connect \/ Poll
      <4>1. /\ pc' \in {"connecting", "polling"} /\ due' \in Nat /\ due' <= Latency
            /\ answer' # "quiet" => ~ Quiet
            /\ answer' = "error" => ~ Quiet
        BY <1>0, <3>2 DEF Connect, Poll, Ask, Quiet, JobsDone
      <4>2. ~ Quiet' => calm' = 0
        BY <2>1, <3>1 DEF CalmInv
      <4>3. answer' # "quiet" \/ answer' = "error" => due' <= Latency - calm'
        <5>1. CASE Quiet
          BY <4>1, <5>1
        <5>2. CASE ~ Quiet
          <6>1. calm' = 0
            BY <3>1, <5>2 DEF CalmInv
          <6> QED BY <1>0, <4>1, <6>1
        <5> QED BY <5>1, <5>2
      <4> QED BY ONLY <4>1, <4>2, <4>3 DEF CalmInv
    <3>3. CASE Waits /\ ~ Connect /\ ~ Poll
      <4>1. pc' \notin {"connecting", "polling"}
        BY <3>3 DEF Waits, BeginCheck, WaitOver, Connected, ConnectAgain, ConnectTimeout, Ready,
           PollAgain, PollTimeout, Wake, PortOpen, PortTimeout, GoOn, PlayEnds
      <4> QED BY <2>1, <3>1, <4>1 DEF CalmInv
    <3>4. CASE Talks
      <4>1. pc' \notin {"connecting", "polling"}
        BY <3>4 DEF Talks, Dial, DialFails, Rested, NextLine, Waiting, Send, AdmpwdEnds, LastLine,
           PromptTimeout, InitEnds, InitFails, TryFails, GoOn, Ends, PlayEnds
      <4> QED BY <2>1, <3>1, <4>1 DEF CalmInv
    <3>5. CASE ~ Waits /\ ~ Talks
      <4>1. UNCHANGED <<pc, due, answer>>
        BY <2>3, <3>5, ScriptFrame DEF timers
      <4> QED BY <2>1, <3>1, <4>1 DEF CalmInv
    <3> QED BY <3>2, <3>3, <3>4, <3>5
  <2> QED BY <2>2, <2>3
<1>2. CASE Device
  <2>1. UNCHANGED <<pc, due, answer>>
    BY <1>2 DEF Device, Boot, Reboot, Post, Done, Serve, ServeOrphan, timers
  <2>2. calm' = 0 \/ (calm' = calm /\ Quiet' = Quiet)
    BY <1>2 DEF Device, Boot, Reboot, Post, Done, Serve, ServeOrphan, firewall, history, Quiet,
       Pending
  <2> QED BY <1>0, <2>1, <2>2 DEF CalmInv
<1> QED BY <1>1, <1>2

(* Whatever the delays, panos_check gives up only after its deadline, and  *)
(* only on a firewall that was not ready when its last call was made       *)
(* (panos_check.py:120-136, panos.py:132-143).                             *)
THEOREM Patience == Spec => GivesUpLate
<1> DEFINE Step == last' = "failed" /\ pc \in {"connecting", "polling"}
                     => left <= 0 /\ calm <= Latency
<1>1. Init => TypeOK /\ TimeInv /\ CalmInv
  BY InitTypes, InitTime, InitCalm
<1>2. TypeOK /\ TimeInv /\ CalmInv /\ [Next]_vars => (TypeOK /\ TimeInv /\ CalmInv)'
  BY NextTypes, NextTime, NextCalm
<1>3. TypeOK /\ TimeInv /\ CalmInv /\ [Next]_vars => [Step]_vars
  <2> SUFFICES ASSUME TypeOK, TimeInv, CalmInv, [Next]_vars, last' = "failed",
                      pc \in {"connecting", "polling"}
               PROVE  left <= 0 /\ calm <= Latency
    OBVIOUS
  <2>0. /\ due \in Nat /\ calm \in Nat /\ Latency \in Nat /\ left \in Int
        /\ Timeout[play] \in Nat /\ last = "none"
    BY Lengths, PlayFacts DEF TypeOK, ScriptOK, HistoryOK
  <2>1. Waits
    <3>1. last' # last
      BY <2>0
    <3>2. ~ Tick
      BY <3>1 DEF Tick
    <3>3. ~ Talks
      BY DEF Talks, Dial, DialFails, Rested, Returned, NextLine, AdmpwdEnds, LastLine, Waiting,
         PromptTimeout, InitEnds, InitFails
    <3> QED BY <3>1, <3>2, <3>3, ScriptFrame
  <2>2. ConnectTimeout \/ PollTimeout
    BY <2>0, <2>1 DEF Waits, BeginCheck, WaitOver, Connect, Poll, Ask, Connected, ConnectAgain,
       Ready, PollAgain, Wake, Returned, PortOpen, PortTimeout, GoOn
  <2>3. CASE ConnectTimeout
    BY <2>0, <2>3 DEF ConnectTimeout, Returned, TimeInv, CalmInv
  <2>4. CASE PollTimeout
    BY <2>0, <2>4 DEF PollTimeout, Returned, DeadlinePassed, CalmInv
  <2> QED BY <2>2, <2>3, <2>4
<1> QED BY <1>1, <1>2, <1>3, PTL DEF Spec, GivesUpLate

-----------------------------------------------------------------------------
(* Readiness.                                                              *)

LEMMA InitSeen == Init => SeenInv
<1> SUFFICES ASSUME Init PROVE SeenInv
  OBVIOUS
<1>1. Gate[play] \in {"panos_check", "wait_for", "none"}
  BY BootAssumption DEF Init
<1> QED BY <1>1 DEF Init, SeenInv

(* The steps that do not bring a play to its password change neither what  *)
(* was seen nor the jobs.                                                  *)
LEMMA NextSeen == TypeOK /\ SeenInv /\ [Next]_vars => SeenInv'
<1> SUFFICES ASSUME TypeOK, SeenInv, [Next]_vars PROVE SeenInv'
  OBVIOUS
<1> USE DEF SeenInv
<1>1. CASE Connect \/ Poll
  BY <1>1 DEF Connect, Poll, Ask, JobsDone, Pending, firewall, TypeOK, FirewallOK
<1>2. CASE Waits /\ ~ Connect /\ ~ Poll
  <2>1. UNCHANGED <<play, job, crashes, known, answer>>
    BY <1>2 DEF Waits, BeginCheck, Connected, ConnectAgain, ConnectTimeout, Ready, PollAgain,
       PollTimeout, Wake, PortOpen, PortTimeout, GoOn, PlayEnds, firewall, history
  <2>2. CASE Ready
    BY <2>1, <2>2 DEF Ready, Returned, GoOn
  <2>3. CASE PortOpen
    BY <2>1, <2>3 DEF PortOpen, GoOn
  <2>4. CASE ~ Ready /\ ~ PortOpen
    <3>1. pc' \notin {"port", "dial", "waiting", "resting", "polling"}
      BY <1>2, <2>4 DEF Waits, BeginCheck, WaitOver, Connected, ConnectAgain, ConnectTimeout,
         PollAgain, PollTimeout, Wake, PortTimeout, GoOn, PlayEnds
    <3> QED BY <3>1
  <2> QED BY <2>2, <2>3, <2>4
<1>3. CASE Tick \/ Others \/ UNCHANGED vars
  <2>1. UNCHANGED <<play, job, crashes, known, pc, answer>>
    BY <1>3 DEF Tick, Others, AdminCommits, AdminReverts, AdminEdits, vars, firewall, history
  <2> QED BY <2>1
<1>4. CASE Talks
  <2>1. UNCHANGED <<play, job, crashes, known>>
    BY <1>4 DEF Talks, Dial, DialFails, Rested, NextLine, Send, AdmpwdEnds, PromptTimeout,
       InitEnds, InitFails, TryFails, GoOn, Ends, PlayEnds, firewall, history
  <2>2. /\ pc \in {"dial", "waiting", "resting"}
        /\ pc' \in {"dial", "waiting", "resting", "ended"}
    BY <1>4 DEF Talks, Dial, DialFails, Rested, Returned, NextLine, Waiting, Send, AdmpwdEnds,
       LastLine, PromptTimeout, InitEnds, InitFails, TryFails, GoOn, Ends, PlayEnds
  <2> QED BY <2>1, <2>2
<1>5. CASE Boot \/ Serve \/ ServeOrphan
  <2>1. UNCHANGED <<play, job, crashes, known, pc, answer>>
    BY <1>5 DEF Boot, Serve, ServeOrphan, firewall, history
  <2> QED BY <2>1
<1>6. CASE Reboot
  <2>1. UNCHANGED <<play, pc>> /\ crashes' # Reboots
    BY <1>6, BootAssumption DEF Reboot, TypeOK, FirewallOK
  <2> QED BY <2>1
<1>7. ASSUME NEW j \in Job, Post(j) \/ Done(j) PROVE SeenInv'
  <2>1. UNCHANGED <<play, crashes, known, pc, answer>>
    BY <1>7 DEF Post, Done
  <2>2. \A i \in Job : job[i] = "finished" => job'[i] = "finished"
    BY <1>7 DEF Post, Done, TypeOK, FirewallOK
  <2>3. known \subseteq Job
    BY DEF TypeOK, HistoryOK
  <2> QED BY <2>1, <2>2, <2>3
<1> QED BY <1>1, <1>2, <1>3, <1>4, <1>5, <1>6, <1>7 DEF Next, Device

(* Once panos_check has answered for the firewall none of the jobs it saw  *)
(* goes on, however long ago its last call was made and whatever has been  *)
(* posted since (panos_check.py:88-94, 120-131).                           *)
THEOREM Readiness == Spec => []ReadyMeansDone
<1>1. Init => TypeOK /\ SeenInv
  BY InitTypes, InitSeen
<1>2. TypeOK /\ SeenInv /\ [Next]_vars => (TypeOK /\ SeenInv)'
  BY NextTypes, NextSeen
<1>3. SeenInv => ReadyMeansDone
  BY DEF SeenInv, ReadyMeansDone, Pending
<1> QED BY <1>1, <1>2, <1>3, PTL DEF Spec

-----------------------------------------------------------------------------
(* The password.                                                           *)

LEMMA InitWord == Init => WordInv
<1> SUFFICES ASSUME Init PROVE WordInv
  OBVIOUS
<1>1. Gate[play] \in {"panos_check", "wait_for", "none"}
  BY BootAssumption DEF Init
<1>2. pc \in {"delay", "port", "dial"}
  BY <1>1 DEF Init
<1> QED BY <1>2 DEF Init, WordInv

LEMMA NextWord == TypeOK /\ WordInv /\ [Next]_vars => WordInv'
<1> SUFFICES ASSUME TypeOK, WordInv, [Next]_vars PROVE WordInv'
  OBVIOUS
<1> USE DEF WordInv
<1>1. CASE Tick \/ AdminEdits \/ Boot \/ (\E j \in Job : Post(j) \/ Done(j)) \/ UNCHANGED vars
  <2>1. UNCHANGED <<cand, running, play, pc, line, reply, okay, reverted>>
    BY <1>1 DEF Tick, AdminEdits, Boot, Post, Done, vars, config, session, history
  <2> QED BY <2>1 DEF Patient
<1>2. CASE Waits
  <2>1. /\ UNCHANGED <<cand, running, line, reply>> /\ pc' # "waiting"
    BY <1>2 DEF Waits, BeginCheck, WaitOver, Connect, Poll, Ask, Connected, ConnectAgain,
       ConnectTimeout, Ready, PollAgain, PollTimeout, Wake, PortOpen, PortTimeout, GoOn,
       PlayEnds, config, session
  <2> QED BY <2>1
<1>3. CASE AdminCommits \/ AdminReverts
  BY <1>3 DEF AdminCommits, AdminReverts, session, history, Patient, TypeOK, ConfigOK
<1>4. CASE Reboot
  BY <1>4 DEF Reboot, Patient, TypeOK, ConfigOK
<1>5. CASE ServeOrphan
  BY <1>5 DEF ServeOrphan, Carry, history, Patient, TypeOK, ConfigOK
<1>6. CASE Serve
  BY <1>6 DEF Serve, Carry, Patient, TypeOK, ConfigOK
<1>7. CASE Rested
  BY <1>7 DEF Rested, GoOn, config, session, history
<1>8. CASE Dial
  BY <1>8 DEF Dial, config, history
<1>9. CASE DialFails \/ AdmpwdEnds \/ PromptTimeout \/ InitEnds \/ InitFails
  <2>1. UNCHANGED <<cand, running>> /\ line' = "shell" /\ reply' = "none"
    BY <1>9 DEF DialFails, AdmpwdEnds, PromptTimeout, InitEnds, InitFails, Ends, PlayEnds,
       TryFails, Gone, config
  <2> QED BY <2>1
<1>10. CASE NextLine
  <2>1. /\ UNCHANGED <<cand, running, play, pc, reverted>>
        /\ line # Final /\ line' = Following /\ reply \in Replies /\ reply' = "none"
        /\ okay' = (okay /\ reply # "refused") /\ pc = "waiting"
    BY <1>10 DEF NextLine, Waiting, Readable, Send, config, history
  <2>2. line' = "commit" => line = "second"
    BY <2>1 DEF Following
  <2>3. line' \in {"exit", "leave"} => line \in {"commit", "exit", "leave"}
    BY <2>1 DEF Following, TypeOK, SessionOK, Line
  <2>4. Patient' = Patient
    BY <2>1 DEF Patient
  <2>5. line = "second" => reply = "prompt"
    BY <2>1 DEF Replies
  <2>6. ~ Patient => line' \notin {"exit", "leave"}
    <3>1. ~ Patient => line # "commit"
      BY <2>1 DEF Final
    <3> QED BY <2>1, <2>3, <3>1
  <2>8. ~ Patient /\ play \in CheckMode => line' \in {"shell", "configure"}
    BY <2>1 DEF Following, Final
  <2>7. line' \in {"exit", "leave"} => running' = "new" \/ reverted' \/ ~ okay'
    <3>1. CASE line = "commit"
      <4>1. reply = "success" \/ ~ okay'
        BY <2>1, <3>1 DEF Replies
      <4> QED BY <2>1, <3>1, <4>1
    <3>2. CASE line \in {"exit", "leave"}
      BY <2>1, <3>2
    <3> QED BY <2>3, <3>1, <3>2
  <2> QED BY <2>1, <2>2, <2>4, <2>5, <2>6, <2>7, <2>8
<1> QED
  BY <1>1, <1>2, <1>3, <1>4, <1>5, <1>6, <1>7, <1>8, <1>9, <1>10
  DEF Next, Device, Talks, Others

(* A play that reports success has put the new password in force, unless   *)
(* someone else took it out of the candidate again; with panos_init.go     *)
(* unless the commit was refused.  That holds with a script that was run   *)
(* again while the firewall still worked off a line of the run before      *)
(* (panos_admpwd.py:112-173, panos_init.go:166-209).                       *)
THEOREM PasswordInForce == Spec => OkMeansSet
<1> DEFINE Step == last' = "ok" /\ last # "ok"
                     => running = "new" \/ reverted \/ (Patient /\ ~ okay)
<1>1. Init => TypeOK /\ WordInv
  BY InitTypes, InitWord
<1>2. TypeOK /\ WordInv /\ [Next]_vars => (TypeOK /\ WordInv)'
  BY NextTypes, NextWord
<1>3. TypeOK /\ WordInv /\ [Next]_vars => [Step]_vars
  <2> SUFFICES ASSUME TypeOK, WordInv, [Next]_vars, last' = "ok", last # "ok"
               PROVE  running = "new" \/ reverted \/ (Patient /\ ~ okay)
    OBVIOUS
  <2>1. Talks
    <3>1. ~ Tick
      BY DEF Tick
    <3>2. ~ Waits
      BY DEF Waits, BeginCheck, Connect, Poll, Ask, Connected, ConnectAgain, ConnectTimeout,
         Ready, PollAgain, PollTimeout, Wake, PortOpen, PortTimeout, GoOn, PlayEnds
    <3> QED BY <3>1, <3>2, ScriptFrame
  <2>2. ~ TryFails
    BY DEF TryFails
  <2>3. AdmpwdEnds \/ InitEnds
    BY <2>1, <2>2 DEF Talks, Dial, DialFails, Rested, NextLine, Send, PromptTimeout, InitFails,
       GoOn
  <2>4. CASE AdmpwdEnds
    <3>1. /\ pc = "waiting" /\ line = Final /\ ~ Patient
          /\ play \notin CheckMode /\ reply = "success"
      BY <2>2, <2>4 DEF AdmpwdEnds, LastLine, Waiting, Ends, PlayEnds, PasswordSet, Patient
    <3> QED BY <3>1 DEF Final, WordInv
  <2>5. CASE InitEnds
    BY <2>5 DEF InitEnds, LastLine, Waiting, Final, Patient, WordInv
  <2> QED BY <2>3, <2>4, <2>5
<1> QED BY <1>1, <1>2, <1>3, PTL DEF Spec, OkMeansSet
=============================================================================
