---------------------------- MODULE GuestDetail ----------------------------
(***************************************************************************)
(* vm-detail-view and lxc-detail-view: one guest, its status and its       *)
(* configuration as two @lit/tasks, a summary tab with the action panel    *)
(* (GuestActions) and two tabs with a configuration panel (GuestConfig).   *)
(* All of it is inside the content of the status task; the configuration   *)
(* panels are inside that of the configuration task as well.  A save and   *)
(* an action may come back when their panel has gone.                      *)
(***************************************************************************)
EXTENDS GuestActions

INSTANCE GuestConfig

CONSTANTS Touched,      \* the fields that are edited (a bound)
          Typed,        \* what a user may type
          Save,         \* saves, each used once (a bound)
          MaxWrites     \* writes by someone else (a bound)

ASSUME DetailConstants == /\ Section = {"status"} /\ Reloads = {"status"}
                          /\ Tab = {"summary", "options", "hardware", "resources"}
                          /\ MaxWrites \in Nat

VARIABLES kind,         \* "qemu" or "lxc"
          stored,       \* the configuration at Proxmox
          writes,       \* how often someone else has written it
          configTask,   \* TaskStatus of _configTask
          configCall,   \* how far its latest call is
          answer,       \* the answer to that call
          config,       \* the configuration on show
          editing, saving, error, draft,   \* of the configuration panel on the page
          typed,        \* history: what was typed into the draft
          save,         \* the saves of _saveEdit
          reached       \* history: the saves that are in stored, answer, config; acknowledged

configVars == <<configTask, configCall, answer, config>>
editVars   == <<editing, saving, error, draft, typed>>
detailVars == <<kind, stored, writes, configVars, editVars, save, reached>>
vars       == <<actionVars, detailVars>>

PanelOf(k, t) == CASE k = "qemu" /\ t = "options" -> "vm_options"
                   [] k = "qemu" /\ t = "hardware" -> "vm_hardware"
                   [] k = "lxc" /\ t = "options" -> "lxc_options"
                   [] k = "lxc" /\ t = "resources" -> "lxc_resources"

VmTabs == {"summary", "options", "hardware"}
LxcTabs == {"summary", "options", "resources"}
Tabs == IF kind = "qemu" THEN VmTabs ELSE LxcTabs

Fields(k) == Touched \cap UNION {Field(PanelOf(k, t)) : t \in (IF k = "qemu" THEN VmTabs ELSE LxcTabs) \ {"summary"}}
Value == {None, "old", "other"} \cup Typed
Config == UNION {[Fields(k) -> Value] : k \in {"qemu", "lxc"}}

(* What a user has typed: some fields, and what each is to be. *)
Edits == UNION {[F -> Typed] : F \in SUBSET Touched}

(* A save of _saveEdit: the panel it comes from and the configuration that *)
(* one had, what it sends and, history, what was typed; whether the panel  *)
(* is still there.                                                         *)
SaveState == [panel : Panel \cup {None}, on : Config \cup {None}, fields : Edits, typed : Edits,
              phase : {"sent", "ok", "over"}, mounted : BOOLEAN]

(* No input puts undefined into the draft. *)
ASSUME NoneIsNotTyped == None \notin Typed \cup {"new"} \cup Config \cup SaveState

(* render: what is on the page below the tabs.  The summary of a container *)
(* keeps its action panel while the configuration loads, that of a VM too. *)
VmSummary == {"actions"} \cup (IF configTask = "complete" THEN {"card"} ELSE {})
LxcSummary == IF configTask = "complete" THEN {"actions", "card"} ELSE {"actions"}

ConfigPanel == IF configTask = "complete" THEN {tab} ELSE {}

VmContent == IF section["status"] # "complete" THEN {}
             ELSE IF tab = "summary" THEN VmSummary ELSE ConfigPanel
LxcContent == IF section["status"] # "complete" THEN {}
              ELSE IF tab = "summary" THEN LxcSummary ELSE ConfigPanel
Content == IF kind = "qemu" THEN VmContent ELSE LxcContent

PanelOpen == Content \cap {"options", "hardware", "resources"} # {}
Here == PanelOf(kind, tab)

Settled == [panel |-> None, fields |-> <<>>, typed |-> <<>>, on |-> None, phase |-> "over", mounted |-> FALSE]

Closed == ~editing /\ ~saving /\ ~error /\ draft = <<>> /\ typed = <<>>

DetailTypeOK ==
  /\ ActionsTypeOK
  /\ kind \in {"qemu", "lxc"} /\ tab \in Tabs
  /\ \A g \in Guest : Mounted(g) <=> "actions" \in Content
  /\ writes \in 0..MaxWrites
  /\ stored \in [Fields(kind) -> Value]
  /\ configTask \in {"pending", "complete", "error"} /\ configCall \in {"none", "asked", "served"}
  /\ configTask = "pending" <=> configCall # "none"
  /\ answer = None <=> configCall # "served"
  /\ config = None <=> configTask # "complete"
  /\ {answer, config} \subseteq [Fields(kind) -> Value] \cup {None}
  /\ {editing, saving, error} \subseteq BOOLEAN
  /\ ~PanelOpen => Closed
  /\ saving => editing
  /\ typed \in Edits
  /\ save \in [Save -> SaveState \cup {None}]
  /\ saving <=> \E s \in Save : save[s] # None /\ save[s].mounted

Init == /\ ActionsInit
        /\ kind \in {"qemu", "lxc"}
        /\ stored \in {[f \in Fields(kind) |-> v] : v \in {None, "old"}}
        /\ writes = 0
        /\ configTask = "pending" /\ configCall = "asked" /\ answer = None /\ config = None
        /\ editing = FALSE /\ saving = FALSE /\ error = FALSE /\ draft = <<>> /\ typed = <<>>
        /\ save = [s \in Save |-> None]
        /\ reached = [stored |-> {}, answer |-> {}, config |-> {}, acked |-> {}]

-----------------------------------------------------------------------------
(* What becomes of the configuration panel when the content changes: it    *)
(* stays as long as its place does, otherwise its state is lost, and its   *)
(* save goes on without it.  Mutants keep it while the content loads, and  *)
(* lose it when an action comes back.                                      *)
GoneWithTab == tab' # tab
GoneOnAnswer == ~PanelOpen' \/ tab' # tab \/ request' # request
Gone == ~PanelOpen' \/ tab' # tab

Close == /\ editing' = FALSE /\ saving' = FALSE /\ error' = FALSE
         /\ draft' = <<>> /\ typed' = <<>>
Orphaned == [s \in Save |-> IF Gone /\ save[s] # None THEN [save[s] EXCEPT !.mounted = FALSE] ELSE save[s]]
Keep == /\ IF Gone THEN Close ELSE UNCHANGED editVars
        /\ save' = Orphaned

(* A step of the action panel or of the status task. *)
OfActions(A) == A /\ UNCHANGED <<kind, stored, writes, configVars, reached>> /\ Keep

OfConfig == /\ UNCHANGED <<actionVars, kind, stored, writes>>
            /\ Keep

ConfigServed == /\ configCall = "asked"
                /\ configCall' = "served" /\ answer' = stored
                /\ reached' = [reached EXCEPT !.answer = reached.stored]
                /\ UNCHANGED <<configTask, config>>
                /\ OfConfig

ConfigArrives == /\ configCall = "served"
                 /\ configCall' = "none" /\ configTask' = "complete"
                 /\ config' = answer /\ answer' = None
                 /\ reached' = [reached EXCEPT !.config = reached.answer, !.answer = {}]
                 /\ OfConfig

ConfigFails == /\ configCall # "none"
               /\ configCall' = "none" /\ configTask' = "error"
               /\ config' = None /\ answer' = None
               /\ reached' = [reached EXCEPT !.answer = {}]
               /\ OfConfig

-----------------------------------------------------------------------------
OfPanel == UNCHANGED <<actionVars, kind, stored, writes, configVars>>

StartEdit == /\ PanelOpen /\ ~editing
             /\ editing' = TRUE /\ error' = FALSE
             /\ draft' = Draft(Here, config) /\ typed' = <<>>
             /\ UNCHANGED <<saving, save, reached>> /\ OfPanel

(* _cancelEdit.  It is offered while nothing is being saved. *)
Revert == /\ editing /\ ~saving
          /\ editing' = FALSE /\ error' = FALSE /\ draft' = <<>> /\ typed' = <<>>
          /\ UNCHANGED <<saving, save, reached>> /\ OfPanel

(* _set: the inputs are open while the draft is being saved as well. *)
Set(f, v) == /\ editing /\ f \in DOMAIN draft
             /\ draft' = [draft EXCEPT ![f] = v]
             /\ typed' = [g \in DOMAIN typed \cup {f} |-> IF g = f THEN v ELSE typed[g]]
             /\ UNCHANGED <<editing, saving, error, save, reached>> /\ OfPanel

(* _saveEdit, with nothing to send, and with something. *)
SaveEmpty == /\ PanelOpen /\ editing /\ ~saving
             /\ DOMAIN Changed(Here, config, draft) = {}
             /\ editing' = FALSE
             /\ UNCHANGED <<saving, error, draft, typed, save, reached>> /\ OfPanel

SaveSends(s) == /\ PanelOpen /\ editing /\ ~saving
                /\ DOMAIN Changed(Here, config, draft) # {}
                /\ \E q \in Save : save[q] = None
                /\ s = CHOOSE q \in Save : save[q] = None
                /\ save' = [save EXCEPT ![s] = [panel |-> Here, fields |-> Changed(Here, config, draft),
                                                typed |-> typed, on |-> config, phase |-> "sent", mounted |-> TRUE]]
                /\ saving' = TRUE /\ error' = FALSE
                /\ UNCHANGED <<editing, draft, typed, reached>> /\ OfPanel

(* updateQemuConfig and updateLxcConfig of the BFF: the body passes the    *)
(* pipe and Proxmox takes it over.                                         *)
SaveServed(s) ==
  /\ save[s] # None /\ save[s].phase = "sent"
  /\ Accepts(save[s].panel, save[s].fields)
  /\ stored' = [f \in DOMAIN stored |-> IF f \in DOMAIN save[s].fields THEN save[s].fields[f] ELSE stored[f]]
  /\ save' = [save EXCEPT ![s].phase = "ok"]
  /\ reached' = [reached EXCEPT !.stored = @ \cup {s}]
  /\ UNCHANGED <<actionVars, kind, writes, configVars, editVars>>

(* "config-updated" reaches _onConfigUpdated, from a panel that has been   *)
(* taken off as well, and the configuration is fetched again.  A mutant    *)
(* only listens while a panel is open.                                     *)
ConfigUpdatedHere == IF PanelOpen
                     THEN /\ configTask' = "pending" /\ configCall' = "asked"
                          /\ answer' = None /\ config' = None
                     ELSE UNCHANGED configVars
ConfigUpdated == /\ configTask' = "pending" /\ configCall' = "asked"
                 /\ answer' = None /\ config' = None

SaveDone(s) ==
  /\ save[s] # None /\ save[s].phase = "ok"
  /\ ConfigUpdated
  /\ UNCHANGED <<actionVars, kind, stored, writes>>
  /\ reached' = [reached EXCEPT !.acked = @ \cup {s}, !.answer = {}]
  /\ CASE Gone -> Close
       [] ~Gone /\ save[s].mounted -> editing' = FALSE /\ saving' = FALSE /\ UNCHANGED <<error, draft, typed>>
       [] OTHER -> UNCHANGED editVars
  /\ save' = [Orphaned EXCEPT ![s] = Settled]

(* A save fails, or its answer does: the draft stays, with the error. *)
SaveFails(s) ==
  /\ save[s] # None /\ save[s].phase \in {"sent", "ok"}
  /\ save' = [save EXCEPT ![s] = Settled]
  /\ IF save[s].mounted THEN saving' = FALSE /\ error' = TRUE ELSE UNCHANGED <<saving, error>>
  /\ UNCHANGED <<editing, draft, typed, reached>> /\ OfPanel

(* Someone else writes a field of the guest's configuration. *)
OtherWrites(f) == /\ writes < MaxWrites
                  /\ writes' = writes + 1
                  /\ stored' = [stored EXCEPT ![f] = "other"]
                  /\ UNCHANGED <<actionVars, kind, configVars, editVars, save, reached>>

StatusStep  == \E s \in Section : OfActions(SectionStep(s))
ActionStep(r) == OfActions(RequestStep(r))
ConfigStep  == ConfigServed \/ ConfigArrives \/ ConfigFails
SaveStep(s) == SaveServed(s) \/ SaveDone(s) \/ SaveFails(s)

(* The guest's power changes by the tasks of its actions; that others      *)
(* change it as well is left to GuestActions.                              *)
Next == \/ OfActions(PanelStep)
        \/ \E t \in Tabs : OfActions(SetTab(t))
        \/ StatusStep
        \/ \E r \in Request : ActionStep(r) \/ OfActions(TaskEnds(r))
        \/ ConfigStep
        \/ StartEdit \/ Revert \/ SaveEmpty
        \/ \E f \in Touched, v \in Typed : Set(f, v)
        \/ \E s \in Save : SaveSends(s) \/ SaveStep(s)
        \/ \E f \in Fields(kind) : OtherWrites(f)

Spec == Init /\ [][Next]_vars

-----------------------------------------------------------------------------
(* An open draft is the configuration that is shown, but for what its user *)
(* has typed: the panel never outlives the configuration it started from.  *)
DraftMatchesShown ==
  editing /\ PanelOpen => \A f \in DOMAIN draft :
               draft[f] = IF f \in DOMAIN typed THEN typed[f] ELSE Draft(Here, config)[f]

(* Once the page has been told that a save succeeded, a configuration it   *)
(* shows is not one from before that save.                                 *)
ReadsItsWrites == configTask = "complete" => reached.acked \subseteq reached.config

(* A save changes nothing its user has not typed, so what someone else has *)
(* written to another field in the meantime survives; and what was typed   *)
(* and differs from what was shown is written.                             *)
SaveWritesWhatWasTyped ==
  [][\A s \in Save : SaveServed(s) =>
       \A f \in DOMAIN stored :
         stored'[f] = IF /\ f \in DOMAIN save[s].typed
                         /\ save[s].typed[f] # Draft(save[s].panel, save[s].on)[f]
                      THEN save[s].typed[f] ELSE stored[f]]_vars

(* A draft is lost by its user's doing (Revert, a save, another tab), or   *)
(* when an action or a save that was sent before comes back.               *)
DraftKept ==
  [][editing /\ ~editing' =>
       \/ Revert \/ SaveEmpty \/ tab' # tab
       \/ \E s \in Save : save[s] # None /\ save[s].phase = "ok" /\ save'[s] = Settled
       \/ \E r \in Request : request[r] # None /\ request[r].phase = "ok" /\ request'[r] = None]_vars

(* What a panel starts from, what its save compares with, its inputs and   *)
(* the DTO of the BFF agree: of a guest for which nothing is configured,   *)
(* whatever field of the open panel is typed into, exactly that field is   *)
(* sent, and the pipe lets it pass.                                        *)
TypedIsSent ==
  PanelOpen /\ ~editing /\ (\A f \in DOMAIN config : config[f] = None) =>
    LET unset == [f \in DOMAIN Starting[Here] |-> None]
        start == Draft(Here, unset)
        Of(f) == Changed(Here, unset, [start EXCEPT ![f] = "new"])
    IN  /\ Field(Here) = DOMAIN start
        /\ \A f \in Field(Here) : Of(f) = [g \in {f} |-> "new"] /\ Accepts(Here, Of(f))
=============================================================================
