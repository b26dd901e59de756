---------------------------- MODULE PartialLoad ----------------------------
(***************************************************************************)
(* library/load_partial.py: a window from which a user merges parts of a   *)
(* saved configuration file into the candidate configuration of a device.  *)
(*                                                                         *)
(* The window runs in one thread: a click, a choice in a combo box and the *)
(* answer of a worker are handled one after the other, each as a whole.    *)
(* Requests to the device are made by worker threads, whose answers arrive *)
(* in any order, and what a handler assumes of the window may have changed *)
(* since its request was sent.  Nothing keeps the user from clicking in    *)
(* the meantime.                                                           *)
(*                                                                         *)
(* An exception in a slot or a worker ends a PyQt program; the user starts *)
(* it again.  Simplified: devices and files are all of one kind, so that   *)
(* there is one box of groups (vsys, or device groups with their rulebase) *)
(* for either side; a message box is closed before anything else happens;  *)
(* the files of a device change by imports from this window only.          *)
(***************************************************************************)
CONSTANTS Device, File, Group,
          Obj, Rule, Report,   \* what can be merged
          Own,                 \* the groups of a device
          Text,                \* the contents of files
          Has,                 \* the groups in such a text
          Kept,                \* the files a device has saved at first
          Local,               \* the files the user can import: name and text
          Slot,                \* bound: as many threads as run at a time
          None, Prompt         \* no text; "Select a File"

Part == Obj \cup Rule \cup Report

(* The files of a device: each has a text of its own, whatever its name.   *)
Store == [File -> Text \cup {None}]

ASSUME LoadAssumption ==
  /\ Own \in [Device -> SUBSET Group] /\ Has \in [Text -> SUBSET Group]
  /\ Kept \in [Device -> Store] /\ Local \subseteq File \X Text
  /\ None \notin Device \cup File \cup Group \cup Text \cup {Prompt} /\ Prompt \notin File
  /\ Obj \cap Rule = {} /\ Rule \cap Report = {} /\ Obj \cap Report = {}

VARIABLES conn,            \* _ip, _api, _url: the device the window is connected to
          running_config,  \* the device it was last read from
          combo_file, combo_from, combo_to,
          from_file,       \* the file chosen last
          obj, rule,       \* self.obj and self.rule: what was clicked last
          flags,           \* the objects whose _flag is set
          color,           \* of the buttons
          dialog,          \* is the Iron Skillet dialog open?
          job,             \* the worker threads
          saved,           \* the files on the devices
          steady,          \* has the user waited for every answer?
          sent, done,      \* parts asked for, and merged, with what is chosen now
          told             \* errors the window has shown and that still count

boxes  == <<combo_file, combo_from, combo_to>>
marks  == <<flags, color>>
clicks == <<obj, rule>>
window == <<conn, running_config, boxes, from_file, clicks, marks, dialog>>
past   == <<steady, sent, done, told>>
vars   == <<window, job, saved, past>>

-----------------------------------------------------------------------------
(* Combo boxes.  The first item that is added to an empty one is chosen.   *)

Empty == [items |-> {}, text |-> None]
AddItems(box, new) ==
  IF box.text # None \/ new = {} THEN {[box EXCEPT !.items = @ \cup new]}
  ELSE [items : {new}, text : new]

Plain == [p \in Part |-> "plain"]

ResetFlagsButtons == flags' = {} /\ color' = Plain

(* Threads.                                                                *)
Idle == [kind |-> "none"]
Link(kind, d) == [kind |-> kind, dev |-> d, files |-> {}, ans |-> "running"]
Load(kind, p) == [kind |-> kind, part |-> p, dev |-> conn, file |-> from_file,
                  from |-> combo_from.text, to |-> combo_to.text, ans |-> "running"]

Is(s, kind)      == job[s].kind = kind
Runs(s, kind)    == Is(s, kind) /\ job[s].ans = "running"
Answered(s, ans) == job[s].kind # "none" /\ job[s].ans = ans
Quiet            == \A s \in Slot : Is(s, "none")

Start(thread) == \E s \in Slot : Is(s, "none") /\ job' = [job EXCEPT ![s] = thread]
Answer(s, ans) == job' = [job EXCEPT ![s].ans = ans]
End(s)         == job' = [job EXCEPT ![s] = Idle]

Init ==
  /\ conn = None /\ running_config = None
  /\ combo_file = Empty /\ combo_from = Empty /\ combo_to = Empty
  /\ from_file = None /\ obj = None /\ rule = None
  /\ flags = {} /\ color = Plain /\ dialog = FALSE
  /\ job = [s \in Slot |-> Idle] /\ saved = Kept
  /\ steady = TRUE /\ sent = {} /\ done = {} /\ told = {}

(* The program ends and is started again.                                  *)
Restart ==
  /\ conn' = None /\ running_config' = None
  /\ combo_file' = Empty /\ combo_from' = Empty /\ combo_to' = Empty
  /\ from_file' = None /\ obj' = None /\ rule' = None
  /\ ResetFlagsButtons /\ dialog' = FALSE
  /\ job' = [s \in Slot |-> Idle]
  /\ steady' = TRUE /\ sent' = {} /\ done' = {} /\ told' = {}
Abort == Restart /\ UNCHANGED saved

(* What was asked for is remembered as long as the user is patient and the *)
(* choice of device, file and groups is the same; an error, until what it  *)
(* is about has been read again.                                           *)
Remember(s, d) == sent' = (IF steady' THEN s ELSE {}) /\ done' = (IF steady' THEN d ELSE {})
Tell(errors)   == told' = IF steady' THEN errors ELSE {}
UserActs == ~dialog /\ steady' = (steady /\ Quiet)

-----------------------------------------------------------------------------
(* What the user does.                                                     *)

Quit == ~dialog /\ Abort

ClearFrom   == combo_from' = Empty /\ UNCHANGED combo_to
ClearGroups == combo_from' = Empty /\ combo_to' = Empty

(* With a blank name the thread answers before its signal is connected to  *)
(* the window, and may never be heard.                                     *)
Connect(d) ==
  /\ ~dialog /\ steady' = Quiet
  /\ ClearGroups /\ ResetFlagsButtons
  /\ Start(Link("connect", d)) \/ UNCHANGED job
  /\ Remember({}, {}) /\ Tell({})
  /\ UNCHANGED <<conn, running_config, combo_file, from_file, clicks, dialog, saved>>

ReselectFlags   == flags' = {} /\ UNCHANGED color /\ Remember({}, {})
ReselectButtons == color' = Plain /\ UNCHANGED flags /\ Remember({}, {})
Reselect        == ResetFlagsButtons /\ Remember({}, {})

(* The box with the groups of a file, if it can be read from the device    *)
(* that the window is connected to now.                                    *)
On(d)          == {f \in File : saved[d][f] # None}
Readable(f)    == IF f \in On(conn) THEN AddItems(Empty, Has[saved[conn][f]]) ELSE {}
ReadOrKeep(f)  == {combo_from} \cup Readable(f)
ReadOrEmpty(f) == {Empty} \cup Readable(f)

AnyText(f) == TRUE
IsFile(f)  == f # Prompt

(* _update_file_selected reads the file from the device and waits for it.  *)
SelectFile(f) ==
  /\ UserActs
  /\ f \in combo_file.items \ {combo_file.text}
  /\ combo_file' = [combo_file EXCEPT !.text = f]
  /\ IF IsFile(f)
     THEN /\ from_file' = f /\ combo_from' \in ReadOrEmpty(f) /\ Reselect
          /\ Tell(told \ {"import"})
     ELSE /\ Remember(sent, done) /\ Tell(told)
          /\ UNCHANGED <<from_file, combo_from, marks>>
  /\ UNCHANGED <<conn, running_config, combo_to, clicks, dialog, job, saved>>

SelectFrom(g) ==
  /\ UserActs
  /\ g \in combo_from.items \ {combo_from.text}
  /\ combo_from' = [combo_from EXCEPT !.text = g]
  /\ Reselect /\ Tell(told)
  /\ UNCHANGED <<conn, running_config, combo_file, combo_to, from_file, clicks, dialog, job, saved>>

SelectTo(g) ==
  /\ UserActs
  /\ g \in combo_to.items \ {combo_to.text}
  /\ combo_to' = [combo_to EXCEPT !.text = g]
  /\ Reselect /\ Tell(told)
  /\ UNCHANGED <<conn, running_config, combo_file, combo_from, from_file, clicks, dialog, job, saved>>

Validated ==
  /\ combo_file.text # Prompt
  /\ combo_from.text # None /\ combo_to.text # None /\ conn # None

(* The flag of an object is set when the request is sent, whatever becomes *)
(* of it; a report (_load_reports) has none.                               *)
LoadObjects(p) ==
  /\ UserActs /\ obj' = p /\ Tell(told)
  /\ IF Validated
     THEN /\ flags' = flags \cup ({p} \cap Obj) /\ Start(Load("object", p))
          /\ Remember(sent \cup {p}, done)
     ELSE Remember(sent, done) /\ UNCHANGED <<flags, job>>
  /\ UNCHANGED <<conn, running_config, boxes, from_file, rule, color, dialog, saved>>

LoadRulebase(p) ==
  /\ UserActs /\ rule' = p /\ Tell(told)
  /\ IF Validated THEN Start(Load("rule", p)) /\ Remember(sent \cup {p}, done)
                  ELSE UNCHANGED job /\ Remember(sent, done)
  /\ UNCHANGED <<conn, running_config, boxes, from_file, obj, marks, dialog, saved>>

(* Answers are handled while the dialog is open, so that the window may    *)
(* have changed between OpenSkillet and StartSkillet.                      *)
OpenSkillet ==
  /\ UserActs /\ Validated /\ combo_file.text # None
  /\ dialog' = TRUE /\ Remember(sent, done) /\ Tell(told)
  /\ UNCHANGED <<conn, running_config, boxes, from_file, clicks, marks, job, saved>>
CloseSkillet ==
  /\ dialog /\ dialog' = FALSE
  /\ Start(Load("skillet", None)) \/ UNCHANGED job
  /\ UNCHANGED <<conn, running_config, boxes, from_file, clicks, marks, saved, past>>

(* _import uploads a file and waits.  It replaces a file of that name, and *)
(* may have done so before an error.  After a success the list of files is *)
(* fetched again; a refusal and some of the other errors are shown.        *)
Import(f, x) ==
  LET stored == [saved EXCEPT ![conn][f] = x] IN
  /\ ~dialog /\ conn # None
  /\ \/ /\ UserActs /\ Remember(sent, done)
        /\ \/ saved' = stored /\ Start(Link("ssh", conn)) /\ Tell(told)
           \/ UNCHANGED <<job, saved>> /\ Tell(told)
           \/ saved' \in {saved, stored} /\ UNCHANGED job /\ Tell(told \cup {"import"})
        /\ UNCHANGED window
     \/ Restart /\ saved' \in {saved, stored}

-----------------------------------------------------------------------------
(* What the threads do.                                                    *)

ConnectThread(s) ==
  /\ Runs(s, "connect") /\ \E a \in {"success", "error"} : Answer(s, a)
  /\ UNCHANGED <<window, saved, past>>

ToComboBoxes(s) ==
  /\ Runs(s, "combo") /\ \E a \in {"success", "error"} : Answer(s, a)
  /\ UNCHANGED <<window, saved, past>>

(* A failure to log in raises an exception in the thread.                  *)
SetupSSH(s) ==
  /\ Runs(s, "ssh")
  /\ \/ /\ job' = [job EXCEPT ![s].ans = "success", ![s].files = On(job[s].dev)]
        /\ UNCHANGED <<window, saved, past>>
     \/ Abort

Chosen(j) == <<j.dev, j.file, j.from, j.to>> = <<conn, from_file, combo_from.text, combo_to.text>>
Merged(j) == j.file \in On(j.dev)
             /\ done' = IF steady /\ Chosen(j) THEN done \cup {j.part} ELSE done
APIRequest(s) ==
  /\ Runs(s, "object") \/ Runs(s, "rule")
  /\ \/ \E a \in {"success", "lost"} : Answer(s, a) /\ Merged(job[s])
     \/ \E a \in {"error", "lost"} : Answer(s, a) /\ UNCHANGED done
  /\ UNCHANGED <<window, saved, steady, sent, told>>

IronSkillet(s) ==
  /\ Runs(s, "skillet") /\ \E a \in {"success", "lost"} : Answer(s, a)
  /\ UNCHANGED <<window, saved, past>>

(* A thread that is replaced may be destroyed while it runs.               *)
Destroyed ==
  /\ \E s, u \in Slot : s # u /\ Is(s, job[u].kind) /\ ~Is(s, "none")
                        /\ job[s].ans = "running"
  /\ Abort

-----------------------------------------------------------------------------
(* What the window does with the answers.                                  *)

(* _system_info asks the device and waits; without an answer the model is  *)
(* unbound.                                                                *)
SetConnectValues(s) ==
  /\ Is(s, "connect")
  /\ \/ /\ Answered(s, "success")
        /\ conn' = job[s].dev
        /\ \E u \in Slot \ {s} :
             /\ Is(u, "none")
             /\ job' = [job EXCEPT ![s] = Link("combo", conn'), ![u] = Link("ssh", conn')]
        /\ UNCHANGED <<steady, told>> /\ Remember({}, {})
        /\ UNCHANGED <<running_config, boxes, from_file, clicks, marks, dialog, saved>>
     \/ Answered(s, "success") /\ Abort
     \/ /\ Answered(s, "error") /\ End(s)
        /\ UNCHANGED <<window, saved, past>>

(* After an error the groups of the configuration that was read before are *)
(* offered, if there is one.                                               *)
FillToComboBoxes(s) ==
  /\ Is(s, "combo") /\ ~Answered(s, "running")
  /\ running_config' = IF Answered(s, "success") THEN job[s].dev ELSE running_config
  /\ running_config' # None
  /\ combo_to' \in AddItems(combo_to, Own[running_config'])
  /\ UNCHANGED steady
  /\ Tell(IF Answered(s, "success") THEN told ELSE told \cup {"running-config"})
  /\ IF combo_to'.text = combo_to.text THEN Remember(sent, done) /\ UNCHANGED marks ELSE Reselect
  /\ End(s)
  /\ UNCHANGED <<conn, combo_file, combo_from, from_file, clicks, dialog, saved>>
NothingToFill(s) ==
  Is(s, "combo") /\ Answered(s, "error") /\ running_config = None /\ Abort

LoadSavedConfigs(s) ==
  /\ Is(s, "ssh") /\ Answered(s, "success")
  /\ combo_file' = [items |-> job[s].files \cup {Prompt}, text |-> Prompt]
  /\ End(s)
  /\ UNCHANGED <<conn, running_config, combo_from, combo_to, from_file, clicks, marks,
                 dialog, saved, past>>

(* The button that is coloured is that of the last click.                  *)
Colour(p, ans) == color' = [color EXCEPT ![p] = IF ans = "success" THEN "green" ELSE "red"]
ConnectValues(s) ==
  /\ Is(s, "object") /\ ~Answered(s, "running") /\ End(s)
  /\ IF Answered(s, "lost") THEN UNCHANGED color ELSE Colour(obj, job[s].ans)
  /\ UNCHANGED <<conn, running_config, boxes, from_file, clicks, flags, dialog, saved, past>>

(* Here the answer is read without asking whether there was one.           *)
ConnectRuleValues(s) ==
  /\ Is(s, "rule") /\ ~Answered(s, "running")
  /\ \/ Answered(s, "lost") /\ Abort
     \/ /\ ~Answered(s, "lost") /\ End(s) /\ Colour(rule, job[s].ans)
        /\ UNCHANGED <<conn, running_config, boxes, from_file, clicks, flags, dialog, saved, past>>

PrintIronSkillet(s) ==
  /\ Is(s, "skillet")
  /\ \/ Answered(s, "lost") /\ Abort
     \/ Answered(s, "success") /\ End(s) /\ UNCHANGED <<window, saved, past>>

-----------------------------------------------------------------------------
User ==
  \/ Quit \/ OpenSkillet \/ CloseSkillet
  \/ \E d \in Device : Connect(d)
  \/ \E f \in combo_file.items : SelectFile(f)
  \/ \E g \in Group : SelectFrom(g) \/ SelectTo(g)
  \/ \E p \in Obj \cup Report : LoadObjects(p)
  \/ \E p \in Rule : LoadRulebase(p)
  \/ \E l \in Local : Import(l[1], l[2])

Worker(s) ==
  ConnectThread(s) \/ ToComboBoxes(s) \/ SetupSSH(s) \/ APIRequest(s) \/ IronSkillet(s)

Handler(s) ==
  \/ SetConnectValues(s) \/ FillToComboBoxes(s) \/ NothingToFill(s) \/ LoadSavedConfigs(s)
  \/ ConnectValues(s) \/ ConnectRuleValues(s) \/ PrintIronSkillet(s)

Next == User \/ Destroyed \/ \E s \in Slot : Worker(s) \/ Handler(s)

Spec == Init /\ [][Next]_vars

-----------------------------------------------------------------------------
(* PROPERTIES.                                                             *)

Box(S) == [items : SUBSET S, text : S \cup {None}]
LinkJob == [kind : {"connect", "combo", "ssh"}, dev : Device, files : SUBSET File,
            ans : {"running", "success", "error"}]
LoadsOf(kinds, parts) ==
  [kind : kinds, part : parts, dev : Device, file : File, from : Group, to : Group,
   ans : {"running", "success", "error", "lost"}]
LoadJob == LoadsOf({"object", "rule"}, Part) \cup LoadsOf({"skillet"}, {None})

(* The window never holds a text, a thread or an answer that it has no     *)
(* meaning for: a prompt is not a file, a load has a file and both groups. *)
TypeOK ==
  /\ conn \in Device \cup {None} /\ running_config \in Device \cup {None}
  /\ combo_file \in Box(File \cup {Prompt}) /\ combo_from \in Box(Group) /\ combo_to \in Box(Group)
  /\ from_file \in File \cup {None}
  /\ obj \in Obj \cup Report \cup {None} /\ rule \in Rule \cup {None}
  /\ flags \subseteq Obj /\ color \in [Part -> {"plain", "green", "red"}]
  /\ dialog \in BOOLEAN
  /\ job \in [Slot -> LinkJob \cup LoadJob \cup {Idle}]
  /\ saved \in [Device -> Store]
  /\ steady \in BOOLEAN /\ sent \subseteq Part /\ done \subseteq Part
  /\ told \subseteq {"import", "running-config"}

(* The groups offered as source are those of the file that will be loaded: *)
(* the file chosen last, as the device that is connected now has it.  This *)
(* is for a user who has waited for every answer, the refreshed list after *)
(* an import included, and who chooses his file again after an import that *)
(* ended in an error.  Without patience it does not hold: the file may be  *)
(* read from one device and loaded on the next, which has another file of  *)
(* that name.  The file box shows that file or the prompt in any case.     *)
FromOfFile ==
  /\ combo_from.items # {} => combo_file.text \in {from_file, Prompt}
  /\ steady /\ Quiet /\ Validated /\ "import" \notin told =>
       from_file \in On(conn) /\ combo_from.items = Has[saved[conn][from_file]]

(* The target exists on the device whose running-config.xml was read last, *)
(* for a user who has waited for every answer; and that is the device that *)
(* is connected, unless the window has told him that this file could not   *)
(* be read.  Then the groups of the device before stay on offer.           *)
SelectionExists ==
  steady /\ Validated => /\ combo_to.text \in Own[running_config]
                         /\ "running-config" \notin told => running_config = conn

(* A green button says that its part has been merged from the file and the *)
(* group, into the group and the device that are chosen now.               *)
GreenMeansLoaded == steady => \A p \in Part : color[p] = "green" => p \in done

(* A rulebase is loaded without a warning only after every kind of object  *)
(* has been asked for with what is chosen now.                             *)
NoFalseAssurance == steady => flags \subseteq sent
=============================================================================
