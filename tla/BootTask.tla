------------------------------ MODULE BootTask ------------------------------
(***************************************************************************)
(* A firewall that boots, and the play that waits until it can be          *)
(* configured and gives its administrator a first password.                *)
(*                                                                         *)
(* The play waits with panos_check, which connects and then asks for the   *)
(* jobs of the firewall until none is pending; with Ansible's wait_for,    *)
(* which waits for the port; or not at all.  The password is set over ssh, *)
(* line by line, by panos_admpwd, which gives up when a prompt does not    *)
(* come and is run again, or by panos_init.go, which waits for ever and is *)
(* run once.                                                               *)
(*                                                                         *)
(* Time passes in ticks; a call takes 1 to Latency of them.  A deadline is *)
(* the number of ticks left until it, negative when it has passed, and     *)
(* what a script does between two calls takes no time.  Simplified: one    *)
(* play; the reply to a line comes whole, prompt last.                     *)
(***************************************************************************)
EXTENDS Integers

CONSTANTS Job,         \* the jobs of the firewall, its auto-commit among them
          Play,
          Gate,        \* what a play waits with
          Script,      \*   and what it sets the password with
          Timeout,     \* how long it waits
          CheckMode,   \* plays with --check
          OtherUser,   \* plays for a user who is not admin
          InitialDelay, Interval, \* of panos_check
          Latency,
          PromptLimit, CommitLimit, \* of panos_admpwd
          Retries, RetryDelay,      \* of the task that runs it
          Reboots,     \* how often the firewall may go down
          Admin        \* what is done beside the play

ASSUME BootAssumption ==
  /\ Gate \in [Play -> {"panos_check", "wait_for", "none"}]
  /\ Script \in [Play -> {"panos_admpwd", "panos_init"}]
  /\ Timeout \in [Play -> Nat]
  /\ CheckMode \subseteq Play /\ OtherUser \subseteq Play
  /\ InitialDelay \in Nat /\ Interval \in Nat /\ Latency \in Nat \ {0}
  /\ PromptLimit \in Nat /\ CommitLimit \in Nat
  /\ Retries \in Nat /\ RetryDelay \in Nat /\ Reboots \in Nat
  /\ Admin \subseteq {"commit", "revert", "edit"}

VARIABLES up,       \* does the management of the firewall answer?
          job,      \* the state of each job
          crashes,  \* how often it may still go down
          cand,     \* the password in the candidate configuration
          running,  \*   and in the running one
          dirty,    \* does the candidate differ from what is running?
          play, pc,
          left,     \* ticks until the deadline the script watches
          due,      \* ticks until its call returns or its sleep ends
          answer,   \* what the firewall answers to the call
          alive,    \* is there still a firewall at the end of the ssh session?
          line,     \* the line that was sent last
          reply,    \*   and what came back for it
          orphan,   \* a line that its script no longer waits for
          okay,     \* the variable ok of panos_init.go
          tries,    \* how often the task may be run again
          last,     \* how the play ended
          known,    \* HISTORY: the jobs in the last answer,
          calm,     \*   for how long no job has been pending,
          reverted  \*   and was the candidate reverted after the password was set?

firewall == <<up, job, crashes>>
config   == <<cand, running, dirty>>
timers   == <<left, due>>
session  == <<alive, line, reply, orphan, okay>>
history  == <<known, calm, reverted>>
vars == <<firewall, config, play, pc, timers, answer, session, tries, last, history>>

-----------------------------------------------------------------------------
(* The lines that the scripts send; the first stands for the login.        *)

Patient == Script[play] = "panos_init"   \* it reads until the prompt comes

Line == {"shell", "pager", "info", "configure", "user", "name", "first", "second",
         "commit", "exit", "leave"}
Following ==
  CASE line = "shell"     -> IF Patient THEN "pager" ELSE "configure"
    [] line = "pager"     -> "info"
    [] line = "info"      -> "configure"
    [] line = "configure" -> IF Patient /\ play \in OtherUser THEN "user" ELSE "name"
    [] line = "user"      -> "name"
    [] line = "name"      -> "first"
    [] line = "first"     -> "second"
    [] line = "second"    -> "commit"
    [] line = "commit"    -> "exit"
    [] OTHER              -> "leave"
Final == IF Patient THEN "leave" ELSE IF play \in CheckMode THEN "configure" ELSE "commit"
LimitOf(l) == IF l = "commit" THEN CommitLimit ELSE PromptLimit

Replies == {"prompt", "success", "refused"}
Readable == reply \in Replies \/ (Patient /\ reply = "closed")

Pending == {j \in Job : job[j] = "posted"}
Quiet == up /\ Pending = {}

Longest == Latency + (IF Interval > Latency THEN Interval ELSE Latency)

PCs == {"delay", "connect", "connecting", "poll", "polling", "sleeping", "port",
        "dial", "waiting", "resting", "ended"}

-----------------------------------------------------------------------------
Init ==
  /\ up = FALSE /\ job = [j \in Job |-> "none"] /\ crashes = Reboots
  /\ cand = "old" /\ running = "old" /\ dirty = FALSE
  /\ play \in Play
  /\ pc = CASE Gate[play] = "panos_check" -> "delay"
            [] Gate[play] = "wait_for"    -> "port"
            [] Gate[play] = "none"        -> "dial"
  /\ left = Timeout[play]
  /\ due = InitialDelay
  /\ answer = "none"
  /\ alive = FALSE /\ line = "shell" /\ reply = "none" /\ orphan = "none" /\ okay = TRUE
  /\ tries = Retries /\ last = "none"
  /\ known = {} /\ calm = 0 /\ reverted = FALSE

(* What the script does next it does before time goes on.                  *)
Sleeps == pc \in {"delay", "connecting", "polling", "sleeping", "resting"}
Urgent ==
  \/ pc \in {"connect", "poll", "dial"}
  \/ Sleeps /\ due = 0
  \/ pc = "port" /\ (up \/ left <= 0)
  \/ pc = "waiting" /\ (Readable \/ (~ Patient /\ left < 0))
Timed == pc \in {"connecting", "polling", "sleeping", "port"}
           \/ (pc = "waiting" /\ ~ Patient)

(* The history need not tell apart what was long ago.                      *)
Longer(n) == IF n > Longest THEN n ELSE n + 1

Tick ==
  /\ pc # "ended" /\ ~ Urgent
  /\ due' = IF due > 0 THEN due - 1 ELSE 0
  /\ left' = IF Timed THEN left - 1 ELSE left
  /\ calm' = IF Quiet THEN Longer(calm) ELSE 0
  /\ UNCHANGED <<firewall, config, play, pc, answer, session, tries, last, known, reverted>>

-----------------------------------------------------------------------------
(* The firewall.                                                           *)

Boot ==
  /\ ~ up
  /\ up' = TRUE
  /\ calm' = 0
  /\ UNCHANGED <<job, crashes, config, play, pc, timers, answer, session, tries, last,
                 known, reverted>>

Post(j) ==
  /\ up /\ job[j] = "none"
  /\ job' = [job EXCEPT ![j] = "posted"]
  /\ calm' = 0
  /\ UNCHANGED <<up, crashes, config, play, pc, timers, answer, session, tries, last,
                 known, reverted>>

Done(j) ==
  /\ up /\ job[j] = "posted"
  /\ job' = [job EXCEPT ![j] = "finished"]
  /\ calm' = 0
  /\ UNCHANGED <<up, crashes, config, play, pc, timers, answer, session, tries, last,
                 known, reverted>>

(* Going down, the firewall closes the session or just falls silent.       *)
Reboot ==
  /\ up /\ crashes > 0
  /\ up' = FALSE /\ crashes' = crashes - 1
  /\ job' = [j \in Job |-> "none"]
  /\ cand' = running /\ dirty' = FALSE
  /\ alive' = FALSE /\ orphan' = "none"
  /\ reply' \in IF alive /\ reply = "none" THEN {"none", "closed"} ELSE {reply}
  /\ calm' = 0 /\ reverted' = TRUE
  /\ UNCHANGED <<running, play, pc, timers, answer, line, okay, tries, last, known>>

(* A line is carried out.  A commit is refused while a job is pending and  *)
(* when there is nothing to commit.                                        *)
Committable == dirty /\ Pending = {}
Carry(l) ==
  /\ cand' = IF l = "second" THEN "new" ELSE cand
  /\ running' = IF l = "commit" /\ Committable THEN cand ELSE running
  /\ dirty' = CASE l \in {"user", "second"}    -> TRUE
                [] l = "commit" /\ Committable -> FALSE
                [] OTHER                       -> dirty

Serve ==
  /\ pc = "waiting" /\ alive /\ reply = "none"
  /\ Carry(line)
  /\ reply' = IF line # "commit" THEN "prompt"
              ELSE IF Committable THEN "success" ELSE "refused"
  /\ reverted' = (reverted /\ line # "second")
  /\ UNCHANGED <<firewall, play, pc, timers, answer, alive, line, orphan, okay, tries, last,
                 known, calm>>

ServeOrphan ==
  /\ orphan # "none"
  /\ Carry(orphan)
  /\ orphan' = "none"
  /\ UNCHANGED <<firewall, play, pc, timers, answer, alive, line, reply, okay, tries, last,
                 history>>

AdminCommits ==
  /\ "commit" \in Admin
  /\ up /\ Committable
  /\ running' = cand /\ dirty' = FALSE
  /\ UNCHANGED <<firewall, cand, play, pc, timers, answer, session, tries, last, history>>

AdminReverts ==
  /\ "revert" \in Admin
  /\ up /\ dirty
  /\ cand' = running /\ dirty' = FALSE
  /\ reverted' = TRUE
  /\ UNCHANGED <<firewall, running, play, pc, timers, answer, session, tries, last, known, calm>>

AdminEdits ==
  /\ "edit" \in Admin
  /\ up /\ ~ dirty
  /\ dirty' = TRUE
  /\ UNCHANGED <<firewall, cand, running, play, pc, timers, answer, session, tries, last, history>>

-----------------------------------------------------------------------------
(* Waiting.                                                                *)

WaitOver == pc = "delay" /\ due = 0 /\ pc' = "connect" /\ left' = Timeout[play]
BeginCheck ==
  /\ WaitOver
  /\ UNCHANGED <<firewall, config, play, due, answer, session, tries, last, history>>

(* The answer is what holds when the firewall gets the call.               *)
AnyJobDone == Pending = {} \/ \E j \in Job : job[j] = "finished"
JobsDone == Pending = {}

Ask(from, to) ==
  /\ pc = from
  /\ pc' = to
  /\ due' \in 1..Latency
  /\ answer' = IF ~ up THEN "error" ELSE IF JobsDone THEN "quiet" ELSE "pending"
  /\ known' = IF up THEN {j \in Job : job[j] # "none"} ELSE {}
  /\ UNCHANGED <<firewall, config, play, left, session, tries, last, calm, reverted>>
Connect == Ask("connect", "connecting")
Poll == Ask("poll", "polling")

Returned(from) == pc = from /\ due = 0
GoOn(to) ==
  /\ pc' = to
  /\ UNCHANGED <<firewall, config, play, answer, session, tries, last, history>>
PlayEnds(how) ==
  /\ pc' = "ended" /\ last' = how
  /\ UNCHANGED <<firewall, config, play, answer, tries, history>>

Connected    == Returned("connecting") /\ answer # "error" /\ GoOn("poll") /\ UNCHANGED timers
ConnectAgain ==
  /\ Returned("connecting") /\ answer = "error"
  /\ Timeout[play] # 0 /\ left > 0
  /\ GoOn("connect") /\ UNCHANGED timers
ConnectTimeout ==
  /\ Returned("connecting") /\ answer = "error"
  /\ Timeout[play] = 0 \/ left <= 0
  /\ PlayEnds("failed") /\ UNCHANGED <<timers, session>>

Ready == Returned("polling") /\ answer = "quiet" /\ GoOn("dial") /\ UNCHANGED timers
NoDeadline == FALSE
DeadlinePassed == left < 0
PollAgain ==
  /\ Returned("polling") /\ answer # "quiet"
  /\ ~ DeadlinePassed
  /\ due' = Interval
  /\ GoOn("sleeping") /\ UNCHANGED left
PollTimeoutFirst ==
  /\ Returned("polling")
  /\ DeadlinePassed
  /\ PlayEnds("failed") /\ UNCHANGED <<timers, session>>
PollTimeout ==
  /\ Returned("polling") /\ answer # "quiet"
  /\ DeadlinePassed
  /\ PlayEnds("failed") /\ UNCHANGED <<timers, session>>
Wake == Returned("sleeping") /\ GoOn("poll") /\ UNCHANGED timers

PortOpen == pc = "port" /\ up /\ GoOn("dial") /\ UNCHANGED timers
PortTimeout ==
  /\ pc = "port" /\ ~ up /\ left <= 0
  /\ PlayEnds("failed") /\ UNCHANGED <<timers, session>>

-----------------------------------------------------------------------------
(* The password.                                                           *)

Left == orphan' = IF alive /\ reply = "none" /\ line \in {"second", "commit"}
                  THEN line ELSE orphan
GoneOpen == line' = "shell" /\ reply' = "none" /\ UNCHANGED <<alive, okay>>
Gone == alive' = FALSE /\ line' = "shell" /\ reply' = "none" /\ UNCHANGED okay

(* Ansible runs the task again, if it has a register and an until.         *)
TryFails ==
  /\ Gone
  /\ IF ~ Patient /\ tries > 0
     THEN /\ pc' = "resting" /\ due' = RetryDelay /\ tries' = tries - 1
          /\ UNCHANGED last
     ELSE /\ pc' = "ended" /\ last' = "failed"
          /\ UNCHANGED <<due, tries>>
  /\ UNCHANGED <<firewall, config, play, left, answer, history>>

Dial ==
  /\ pc = "dial" /\ up
  /\ pc' = "waiting"
  /\ alive' = TRUE /\ line' = "shell" /\ reply' = "none"
  /\ left' = PromptLimit
  /\ UNCHANGED <<firewall, config, play, due, answer, orphan, okay, tries, last, history>>
DialFails == pc = "dial" /\ ~ up /\ TryFails /\ UNCHANGED orphan
Rested == Returned("resting") /\ GoOn("dial") /\ UNCHANGED timers

Waiting == pc = "waiting" /\ Readable

(* The next line is sent and its prompt waited for.                        *)
Send ==
  /\ line' = Following /\ reply' = "none"
  /\ left' = LimitOf(Following)
  /\ UNCHANGED <<firewall, config, play, pc, due, answer, alive, orphan, tries, last, history>>
NextLine ==
  /\ Waiting /\ reply # "closed" /\ line # Final
  /\ Send
  /\ okay' = (okay /\ reply # "refused")

Ends(how) == PlayEnds(how) /\ Gone /\ UNCHANGED <<timers, orphan>>
AnyReply == reply \in Replies
PasswordSet == reply = "success"
LastLine(script) == Waiting /\ Script[play] = script /\ line = Final
AdmpwdEnds ==
  /\ LastLine("panos_admpwd")
  /\ IF play \in CheckMode THEN Ends("unchanged")
     ELSE IF PasswordSet THEN Ends("ok") ELSE TryFails /\ UNCHANGED orphan
PromptTimeoutButCommit ==
  /\ pc = "waiting" /\ ~ Patient /\ left < 0 /\ line # "commit"
  /\ TryFails /\ Left
PromptTimeout ==
  /\ pc = "waiting" /\ ~ Patient /\ left < 0
  /\ TryFails /\ Left

(* After the last line the end of the session is waited for, however it    *)
(* ends.                                                                   *)
InitEnds == LastLine("panos_init") /\ Ends("ok")
InitFails ==
  /\ Waiting /\ reply = "closed" /\ line # Final
  /\ TryFails /\ UNCHANGED orphan

-----------------------------------------------------------------------------
Waits == \/ BeginCheck \/ Connect \/ Connected \/ ConnectAgain \/ ConnectTimeout
         \/ Poll \/ Ready \/ PollAgain \/ PollTimeout \/ Wake
         \/ PortOpen \/ PortTimeout
Talks == \/ Dial \/ DialFails \/ Rested \/ NextLine \/ AdmpwdEnds \/ PromptTimeout
         \/ InitEnds \/ InitFails
Device == \/ Boot \/ Reboot \/ \E j \in Job : Post(j) \/ Done(j)
          \/ Serve \/ ServeOrphan
Others == AdminCommits \/ AdminReverts \/ AdminEdits

Next == Tick \/ Waits \/ Talks \/ Device \/ Others

Spec == Init /\ [][Next]_vars

(* Time passes and the script goes on; nothing is asked of the firewall.   *)
FairSpec == Spec /\ WF_vars(Tick) /\ WF_vars(Waits) /\ WF_vars(Talks)

-----------------------------------------------------------------------------
(* PROPERTIES.                                                             *)

FirewallOK ==
  /\ up \in BOOLEAN /\ job \in [Job -> {"none", "posted", "finished"}]
  /\ crashes \in 0..Reboots
ConfigOK ==
  /\ cand \in {"old", "new"} /\ running \in {"old", "new"} /\ dirty \in BOOLEAN
ScriptOK ==
  /\ play \in Play /\ pc \in PCs /\ left \in Int /\ due \in Nat
  /\ answer \in {"none", "error", "quiet", "pending"}
  /\ tries \in 0..Retries /\ last \in {"none", "ok", "unchanged", "failed"}
  /\ pc = "ended" <=> last # "none"
SessionOK ==
  /\ alive \in BOOLEAN /\ okay \in BOOLEAN
  /\ line \in Line /\ reply \in Replies \cup {"none", "closed"}
  /\ orphan \in {"none", "second", "commit"}
  /\ alive => up /\ pc = "waiting"
HistoryOK == known \subseteq Job /\ calm \in Nat /\ reverted \in BOOLEAN

(* The variables have their types, and there is a session only with a      *)
(* firewall that is up and a script that talks to it.                      *)
TypeOK == FirewallOK /\ ConfigOK /\ ScriptOK /\ SessionOK /\ HistoryOK

(* panos_check never watches its deadline pass by more than one call and   *)
(* one sleep (or the call that connected), and no prompt is waited for     *)
(* longer than its limit: neither loop can go on after its deadline.       *)
InTime ==
  /\ pc \in {"connecting", "polling", "sleeping"} => left >= - Longest
  /\ pc = "waiting" /\ ~ Patient => left >= -1

(* panos_check gives up only after its deadline, and only if the firewall  *)
(* was not up and without pending jobs at some time during the last call:  *)
(* being ready for longer than a call takes is always noticed.             *)
GivesUpLate ==
  [][last' = "failed" /\ pc \in {"connecting", "polling"} => left <= 0 /\ calm <= Latency]_vars

(* When panos_check has found the firewall ready, a job that is pending    *)
(* was not yet there when it asked: none of the jobs it saw goes on, unless *)
(* the firewall went down and they began anew.                             *)
ReadyMeansDone ==
  /\ pc \in {"dial", "waiting", "resting"}
  /\ Gate[play] = "panos_check" /\ crashes = Reboots
  => Pending \cap known = {}

(* A play reports success only if the new password is in force, unless the *)
(* candidate was reverted by someone else after the password was put into  *)
(* it; with panos_init.go unless, besides, the commit was refused.         *)
OkMeansSet ==
  [][last' = "ok" /\ last # "ok" => running = "new" \/ reverted \/ (Patient /\ ~ okay)]_vars

(* What panos_init.go prints when it has gone through all its lines:       *)
(* "Config initialization successful".                                     *)
SuccessMeansCommitted ==
  [][last' = "ok" /\ last # "ok" => running = "new" \/ reverted]_vars

(* Whatever the firewall does, or does not, the play ends; panos_init.go   *)
(* alone may wait for a prompt for ever.                                   *)
PlayEndsAtLast == <>[](pc = "ended" \/ (pc = "waiting" /\ Patient))
=============================================================================
