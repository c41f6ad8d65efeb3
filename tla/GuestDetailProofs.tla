-------------------------- MODULE GuestDetailProofs ---------------------------
(***************************************************************************)
(* What holds of GuestDetail for any fields, values, saves, actions and    *)
(* writes of others: its action panel is one of GuestActions, and what is  *)
(* typed into a configuration panel is kept, sent and read again.  The     *)
(* inductive invariant is DetailInv, with Told for the history of the saves. *)
(***************************************************************************)
EXTENDS GuestDetail, GuestActionsProofs

-----------------------------------------------------------------------------
(* The tables of the panels.                                               *)

LEMMA PanelSet == Panel = {"vm_options", "vm_hardware", "lxc_options", "lxc_resources"}
  BY DEF Panel, Starting

(* A save compares a field with what its input started from. *)
LEMMA TablesAgree == ASSUME NEW p \in Panel PROVE Comparing[p] = Starting[p]
<1>1. /\ VmOptionsSaved = VmOptionsDraft
      /\ VmHardwareSaved = VmHardwareDraft
      /\ LxcOptionsSaved = LxcOptionsDraft
      /\ LxcResourcesSaved = LxcResourcesDraft
  BY DEF VmOptionsSaved, VmOptionsDraft, VmHardwareSaved, VmHardwareDraft,
         LxcOptionsSaved, LxcOptionsDraft, LxcResourcesSaved, LxcResourcesDraft
<1> QED
  BY <1>1, PanelSet DEF Comparing, Starting

LEMMA DraftIs ==
  ASSUME NEW p, NEW c
  PROVE  /\ DOMAIN Draft(p, c) = DOMAIN c \cap DOMAIN Starting[p]
         /\ \A f \in DOMAIN Draft(p, c) : Draft(p, c)[f] = Or(c[f], Starting[p][f])
  BY DEF Draft

(* What a save sends is what differs from the draft as it was opened. *)
LEMMA ChangedIs ==
  ASSUME NEW p \in Panel, NEW c, NEW d, DOMAIN d = DOMAIN Draft(p, c)
  PROVE  /\ \A f : f \in DOMAIN Changed(p, c, d) <=> f \in DOMAIN d /\ d[f] # None /\ d[f] # Draft(p, c)[f]
         /\ \A f \in DOMAIN Changed(p, c, d) : Changed(p, c, d)[f] = d[f]
<1>1. Comparing[p] = Starting[p]
  BY TablesAgree
<1>2. \A f \in DOMAIN d : f \in DOMAIN Comparing[p] /\ Or(c[f], Comparing[p][f]) = Draft(p, c)[f]
  BY <1>1, DraftIs
<1>3. \A f \in DOMAIN d : Differs(p, c, d, f) <=> d[f] # None /\ d[f] # Draft(p, c)[f]
  BY <1>2 DEF Differs
<1>4. {g \in DOMAIN d \cap DOMAIN Comparing[p] : Differs(p, c, d, g)}
        = {f \in DOMAIN d : d[f] # None /\ d[f] # Draft(p, c)[f]}
  BY <1>2, <1>3
<1> QED
  BY <1>4 DEF Changed

(* Edits are added to one at a time. *)
LEMMA NoEdits == <<>> \in Edits /\ DOMAIN <<>> = {}
<1>1. <<>> \in [{} -> Typed]
  OBVIOUS
<1> QED
  BY <1>1 DEF Edits

LEMMA EditsAre ==
  ASSUME NEW F \in SUBSET Touched, NEW e, e = [f \in F |-> e[f]], \A f \in F : e[f] \in Typed
  PROVE  e \in Edits
<1>1. e \in [F -> Typed]
  OBVIOUS
<1> QED
  BY <1>1 DEF Edits

LEMMA EditsHave ==
  ASSUME NEW e \in Edits
  PROVE  DOMAIN e \subseteq Touched /\ \A f \in DOMAIN e : e[f] \in Typed
  BY DEF Edits

LEMMA MoreEdits ==
  ASSUME NEW e \in Edits, NEW f \in Touched, NEW v \in Typed
  PROVE  [g \in DOMAIN e \cup {f} |-> IF g = f THEN v ELSE e[g]] \in Edits
<1> DEFINE F == DOMAIN e \cup {f}
           new == [g \in F |-> IF g = f THEN v ELSE e[g]]
<1>1. F \in SUBSET Touched /\ \A g \in F : new[g] \in Typed
  BY EditsHave
<1>2. new = [g \in F |-> new[g]]
  OBVIOUS
<1> HIDE DEF F, new
<1>3. new \in Edits
  BY <1>1, <1>2, EditsAre
<1> QED
  BY <1>3 DEF F, new

LEMMA Typing ==
  /\ Typed \subseteq Value
  /\ None \notin Typed /\ None \notin SaveState /\ None \notin Config /\ None # "new"
  BY NoneIsNotTyped DEF Value

(* What a panel starts from, what its save compares with, its inputs and   *)
(* the DTO of the BFF agree, whichever panel it is.                        *)
LEMMA FieldsOf == ASSUME NEW p \in Panel PROVE Field(p) = DOMAIN Starting[p]
<1>1. Type = {"string", "boolean", "number"}
  BY DEF Type
<1>2. Field(p) = Inputs[p]["string"] \cup Inputs[p]["boolean"] \cup Inputs[p]["number"]
  BY <1>1 DEF Field
<1>3. CASE p = "vm_options"
  <2>1. DOMAIN Starting[p] = {"name", "onboot", "startup", "ostype", "boot", "tablet", "hotplug", "acpi", "kvm", "freeze",
                              "localtime", "rtcbase", "smbios1", "agent", "protection", "spice_enhancements",
                              "vmstatestorage"}
    BY <1>3 DEF Starting, VmOptionsDraft
  <2>2. Inputs[p] = VmOptionsInputs
    BY <1>3 DEF Inputs
  <2> QED
    BY <1>2, <2>1, <2>2 DEF VmOptionsInputs, VmOptionsBooleans, VmOptionsTexts
<1>4. CASE p = "vm_hardware"
  BY <1>2, <1>4 DEF Starting, VmHardwareDraft, Inputs, VmHardwareInputs, VmHardwareNumbers, VmHardwareTexts
<1>5. CASE p = "lxc_options"
  BY <1>2, <1>5 DEF Starting, LxcOptionsDraft, Inputs, LxcOptionsInputs, LxcOptionsBooleans, LxcOptionsTexts
<1>6. CASE p = "lxc_resources"
  BY <1>2, <1>6 DEF Starting, LxcResourcesDraft, Inputs, LxcResourcesInputs
<1> QED
  BY <1>3, <1>4, <1>5, <1>6, PanelSet

LEMMA PipePasses ==
  ASSUME NEW p \in Panel, NEW e
  PROVE  Accepts(p, e)
<1>1. \A t \in Type : Inputs[p][t] \subseteq Dto[p][t]
  <2>1. CASE p = "vm_options"
    BY <2>1 DEF Type, Inputs, Dto, QemuDto, VmOptionsInputs, VmOptionsBooleans, VmOptionsTexts
  <2>2. CASE p = "vm_hardware"
    BY <2>2 DEF Type, Inputs, Dto, QemuDto, VmHardwareInputs, VmHardwareNumbers, VmHardwareTexts
  <2>3. CASE p = "lxc_options"
    BY <2>3 DEF Type, Inputs, Dto, LxcDto, LxcOptionsInputs, LxcOptionsBooleans, LxcOptionsTexts
  <2>4. CASE p = "lxc_resources"
    BY <2>4 DEF Type, Inputs, Dto, LxcDto, LxcResourcesInputs
  <2> QED
    BY <2>1, <2>2, <2>3, <2>4, PanelSet
<1> QED
  BY <1>1 DEF Accepts

(* No field starts from the value that is typed. *)
LEMMA StartsElsewhere == ASSUME NEW p \in Panel, NEW f \in DOMAIN Starting[p] PROVE Starting[p][f] # "new"
<1>1. CASE p = "vm_options"
  <2>1. /\ VmOptionsDraft.name # "new" /\ VmOptionsDraft.onboot # "new" /\ VmOptionsDraft.startup # "new" /\ VmOptionsDraft.ostype # "new"
        /\ VmOptionsDraft.boot # "new" /\ VmOptionsDraft.tablet # "new" /\ VmOptionsDraft.hotplug # "new" /\ VmOptionsDraft.acpi # "new"
        /\ VmOptionsDraft.kvm # "new" /\ VmOptionsDraft.freeze # "new" /\ VmOptionsDraft.localtime # "new" /\ VmOptionsDraft.rtcbase # "new"
        /\ VmOptionsDraft.smbios1 # "new" /\ VmOptionsDraft.agent # "new" /\ VmOptionsDraft.protection # "new" /\ VmOptionsDraft.spice_enhancements # "new"
        /\ VmOptionsDraft.vmstatestorage # "new"
    BY Typing DEF VmOptionsDraft
  <2>2. \/ f = "name" \/ f = "onboot" \/ f = "startup" \/ f = "ostype" \/ f = "boot"
        \/ f = "tablet" \/ f = "hotplug" \/ f = "acpi" \/ f = "kvm" \/ f = "freeze"
        \/ f = "localtime" \/ f = "rtcbase" \/ f = "smbios1" \/ f = "agent" \/ f = "protection"
        \/ f = "spice_enhancements" \/ f = "vmstatestorage"
    BY <1>1 DEF Starting, VmOptionsDraft
  <2> QED
    BY <1>1, <2>1, <2>2 DEF Starting
<1>2. CASE p = "vm_hardware"
  <2>1. /\ VmHardwareDraft.memory # "new" /\ VmHardwareDraft.balloon # "new" /\ VmHardwareDraft.cores # "new" /\ VmHardwareDraft.sockets # "new"
        /\ VmHardwareDraft.cpu # "new" /\ VmHardwareDraft.bios # "new" /\ VmHardwareDraft.machine # "new" /\ VmHardwareDraft.vga # "new"
        /\ VmHardwareDraft.scsihw # "new"
    BY Typing DEF VmHardwareDraft
  <2>2. \/ f = "memory" \/ f = "balloon" \/ f = "cores" \/ f = "sockets" \/ f = "cpu"
        \/ f = "bios" \/ f = "machine" \/ f = "vga" \/ f = "scsihw"
    BY <1>2 DEF Starting, VmHardwareDraft
  <2> QED
    BY <1>2, <2>1, <2>2 DEF Starting
<1>3. CASE p = "lxc_options"
  <2>1. /\ LxcOptionsDraft.hostname # "new" /\ LxcOptionsDraft.onboot # "new" /\ LxcOptionsDraft.startup # "new" /\ LxcOptionsDraft.ostype # "new"
        /\ LxcOptionsDraft.arch # "new" /\ LxcOptionsDraft.console # "new" /\ LxcOptionsDraft.tty # "new" /\ LxcOptionsDraft.cmode # "new"
        /\ LxcOptionsDraft.protection # "new" /\ LxcOptionsDraft.features # "new"
    BY Typing DEF LxcOptionsDraft
  <2>2. \/ f = "hostname" \/ f = "onboot" \/ f = "startup" \/ f = "ostype" \/ f = "arch"
        \/ f = "console" \/ f = "tty" \/ f = "cmode" \/ f = "protection" \/ f = "features"
    BY <1>3 DEF Starting, LxcOptionsDraft
  <2> QED
    BY <1>3, <2>1, <2>2 DEF Starting
<1>4. CASE p = "lxc_resources"
  <2>1. /\ LxcResourcesDraft.memory # "new" /\ LxcResourcesDraft.swap # "new" /\ LxcResourcesDraft.cores # "new" /\ LxcResourcesDraft.cpulimit # "new"
        /\ LxcResourcesDraft.cpuunits # "new"
    BY Typing DEF LxcResourcesDraft
  <2>2. \/ f = "memory" \/ f = "swap" \/ f = "cores" \/ f = "cpulimit" \/ f = "cpuunits"
    BY <1>4 DEF Starting, LxcResourcesDraft
  <2> QED
    BY <1>4, <2>1, <2>2 DEF Starting
<1> QED
  BY <1>1, <1>2, <1>3, <1>4, PanelSet

-----------------------------------------------------------------------------
(* The page: what is on it, and that its action panel and its status task  *)
(* are those of GuestActions.                                              *)

PageOK == /\ kind \in {"qemu", "lxc"} /\ tab \in Tabs
          /\ \A g \in Guest : Mounted(g) <=> "actions" \in Content

ConfigOK == /\ writes \in 0..MaxWrites
            /\ stored \in [Fields(kind) -> Value]
            /\ configTask \in {"pending", "complete", "error"} /\ configCall \in {"none", "asked", "served"}
            /\ configTask = "pending" <=> configCall # "none"
            /\ answer = None <=> configCall # "served"
            /\ config = None <=> configTask # "complete"
            /\ {answer, config} \subseteq [Fields(kind) -> Value] \cup {None}

Mine(s) == save[s] # None /\ save[s].mounted

EditOK == /\ {editing, saving, error} \subseteq BOOLEAN
          /\ ~PanelOpen => Closed
          /\ saving => editing
          /\ typed \in Edits
          /\ save \in [Save -> SaveState \cup {None}]
          /\ saving <=> \E s \in Save : Mine(s)

LEMMA DetailTypes == DetailTypeOK <=> ActionsTypeOK /\ PageOK /\ ConfigOK /\ EditOK
  BY DEF DetailTypeOK, PageOK, ConfigOK, EditOK, Mine

(* A step of the action panel, of the tabs, of the status task or of an    *)
(* action.                                                                 *)
PageStep == \/ OfActions(PanelStep)
            \/ \E t \in Tabs : OfActions(SetTab(t))
            \/ StatusStep
            \/ \E r \in Request : ActionStep(r) \/ OfActions(TaskEnds(r))

PanelEdits == \/ StartEdit \/ Revert \/ SaveEmpty
              \/ \E f \in Touched, v \in Typed : Set(f, v)
              \/ \E s \in Save : SaveSends(s) \/ SaveFails(s)

LEMMA Steps ==
  Next <=> \/ PageStep \/ ConfigStep \/ PanelEdits
           \/ \E s \in Save : SaveServed(s) \/ SaveDone(s)
           \/ \E f \in Fields(kind) : OtherWrites(f)
  BY DEF Next, PageStep, PanelEdits, SaveStep

LEMMA SomeTabs == Tabs \subseteq Tab /\ VmTabs \subseteq Tab /\ LxcTabs \subseteq Tab
  BY DetailConstants DEF Tabs, VmTabs, LxcTabs

LEMMA OneStatus == ASSUME NEW g \in Guest PROVE SectionOf(g) = "status"
  BY OneSectionEach, DetailConstants

LEMMA PageOf ==
  ASSUME PageStep
  PROVE  TabbedNext /\ UNCHANGED <<kind, stored, writes, configVars, reached>> /\ Keep
  BY SomeTabs DEF PageStep, StatusStep, ActionStep, OfActions, TabbedNext, ActionsNext

LEMMA OffPage ==
  ASSUME Next, ~PageStep
  PROVE  UNCHANGED <<actionVars, kind>>
  BY Steps
     DEF ConfigStep, ConfigServed, ConfigArrives, ConfigFails, OfConfig,
         PanelEdits, StartEdit, Revert, SaveEmpty, Set, SaveSends, SaveFails, OfPanel,
         SaveServed, SaveDone, OtherWrites

LEMMA StepOfPage == [Next]_vars => [TabbedNext]_actionVars
<1>1. CASE UNCHANGED vars
  BY <1>1 DEF vars
<1>2. CASE Next /\ PageStep
  BY <1>2, PageOf
<1>3. CASE Next /\ ~PageStep
  BY <1>3, OffPage
<1> QED
  BY <1>1, <1>2, <1>3

(* The detail view implements the page of GuestActions: the two initial    *)
(* predicates, and every step is one of it or a stutter.                   *)
THEOREM DetailIsAPage == Spec => TabbedSpec
<1>1. Init => ActionsInit
  BY DEF Init
<1> QED
  BY <1>1, StepOfPage, PTL DEF Spec, TabbedSpec

(* Whatever else goes on in the view, its action panel fits the status and *)
(* spins on its own request.                                               *)
THEOREM DetailPanelsFit == Spec => [](PanelFitsStatus /\ BusyTellsTheRequest)
  BY DetailIsAPage, PanelsFit, SpinnersTell, PTL

-----------------------------------------------------------------------------
LEMMA OpenIs ==
  PageOK => (PanelOpen <=> section["status"] = "complete" /\ tab # "summary" /\ configTask = "complete")
<1> SUFFICES ASSUME PageOK
             PROVE  PanelOpen <=> section["status"] = "complete" /\ tab # "summary" /\ configTask = "complete"
  OBVIOUS
<1>1. tab \in {"summary", "options", "hardware", "resources"}
  BY DEF PageOK, Tabs, VmTabs, LxcTabs
<1>2. CASE section["status"] # "complete"
  BY <1>2 DEF PanelOpen, Content, VmContent, LxcContent
<1>3. CASE section["status"] = "complete" /\ tab = "summary"
  <2>1. Content \subseteq {"actions", "card"}
    BY <1>3 DEF Content, VmContent, LxcContent, VmSummary, LxcSummary
  <2> QED
    BY <1>3, <2>1 DEF PanelOpen
<1>4. CASE section["status"] = "complete" /\ tab # "summary"
  <2>1. Content = IF configTask = "complete" THEN {tab} ELSE {}
    BY <1>4 DEF Content, VmContent, LxcContent, ConfigPanel
  <2> QED
    BY <1>1, <1>4, <2>1 DEF PanelOpen
<1> QED
  BY <1>2, <1>3, <1>4

LEMMA HereIs ==
  ASSUME PageOK, PanelOpen
  PROVE  Here \in Panel
<1>1. tab # "summary"
  BY OpenIs
<1>2. \/ kind = "qemu" /\ tab \in {"options", "hardware"}
      \/ kind = "lxc" /\ tab \in {"options", "resources"}
  BY <1>1 DEF PageOK, Tabs, VmTabs, LxcTabs
<1> QED
  BY <1>2, PanelSet DEF Here, PanelOf

(* The action panel is on the page of a VM and of a container alike. *)
LEMMA ActionsShown ==
  tab \in Tabs => \A g \in Guest : Mounted(g) <=> "actions" \in Content
<1> SUFFICES ASSUME tab \in Tabs, NEW g \in Guest
             PROVE  Mounted(g) <=> "actions" \in Content
  OBVIOUS
<1>1. Mounted(g) <=> tab = "summary" /\ section["status"] = "complete"
  BY OneStatus DEF Mounted
<1>2. tab # "actions"
  BY DEF Tabs, VmTabs, LxcTabs
<1>3. CASE section["status"] # "complete"
  BY <1>1, <1>3 DEF Content, VmContent, LxcContent
<1>4. CASE section["status"] = "complete" /\ tab = "summary"
  BY <1>1, <1>4 DEF Content, VmContent, LxcContent, VmSummary, LxcSummary
<1>5. CASE section["status"] = "complete" /\ tab # "summary"
  BY <1>1, <1>2, <1>5 DEF Content, VmContent, LxcContent, ConfigPanel
<1> QED
  BY <1>3, <1>4, <1>5

LEMMA TabKept ==
  ASSUME PageOK, [Next]_vars
  PROVE  kind' = kind /\ tab' \in Tabs
<1>1. CASE UNCHANGED vars
  BY <1>1 DEF vars, actionVars, detailVars, PageOK
<1>2. CASE Next /\ ~PageStep
  BY <1>2, OffPage DEF actionVars, PageOK
<1>3. CASE PageStep
  <2>1. kind' = kind
    BY <1>3, PageOf
  <2>2. UNCHANGED tab \/ tab' \in Tabs
    BY <1>3 DEF PageStep, OfActions, StatusStep, ActionStep, PanelStep, Click, Confirm, Cancel, RunAction, SetTab,
                SectionStep, Served, Arrives, Fails, RequestStep, Accepted, ActionDone, ActionFailed, TaskEnds
  <2> QED
    BY <2>1, <2>2 DEF PageOK
<1> QED
  BY <1>1, <1>2, <1>3

LEMMA PageKept ==
  ASSUME PageOK, [Next]_vars
  PROVE  PageOK'
<1>1. kind' = kind /\ tab' \in Tabs'
  BY TabKept DEF Tabs
<1>2. (tab \in Tabs => \A g \in Guest : Mounted(g) <=> "actions" \in Content)'
  BY ActionsShown, PTL
<1> QED
  BY <1>1, <1>2 DEF PageOK

(* Facts about any state, of the next one. *)
LEMMA OpenIsNext ==
  (PageOK => (PanelOpen <=> section["status"] = "complete" /\ tab # "summary" /\ configTask = "complete"))'
  BY OpenIs, PTL

-----------------------------------------------------------------------------
(* The configuration, what is edited of it and what is saved.              *)

(* One save at a time has a panel that waits for it. *)
OneSave == \A s, q \in Save : Mine(s) /\ Mine(q) => s = q

(* DraftMatchesShown, with the fields there are.  Closed says that a draft *)
(* is only open while its panel is.                                        *)
Opened ==
  editing => /\ DOMAIN draft = DOMAIN Draft(Here, config)
             /\ DOMAIN typed \subseteq DOMAIN draft
             /\ \A f \in DOMAIN draft :
                  draft[f] = IF f \in DOMAIN typed THEN typed[f] ELSE Draft(Here, config)[f]

(* A save sends what was typed where that differs from what was shown. *)
Fits(r) == /\ DOMAIN r.fields = {f \in DOMAIN r.typed : r.typed[f] # Draft(r.panel, r.on)[f]}
           /\ \A f \in DOMAIN r.fields : r.fields[f] = r.typed[f]
Sending == \A s \in Save : save[s] # None => Fits(save[s])

EditInv == EditOK /\ OneSave /\ Opened /\ Sending

LEMMA ConfigIs == ASSUME kind \in {"qemu", "lxc"} PROVE None \notin [Fields(kind) -> Value]
<1>1. [Fields(kind) -> Value] \subseteq Config
  BY DEF Config
<1> QED
  BY <1>1, Typing

LEMMA SettledIs == Settled \in SaveState /\ Settled # None /\ ~Settled.mounted /\ Fits(Settled)
<1>1. Settled \in SaveState
  BY NoEdits DEF Settled, SaveState
<1>2. Settled.fields = <<>> /\ Settled.typed = <<>> /\ ~Settled.mounted
  BY DEF Settled
<1> QED
  BY <1>1, <1>2, NoEdits, Typing DEF Fits

LEMMA SaveIs ==
  ASSUME NEW r \in SaveState
  PROVE  /\ r.panel \in Panel \cup {None} /\ r.on \in Config \cup {None}
         /\ r.fields \in Edits /\ r.typed \in Edits
         /\ r.phase \in {"sent", "ok", "over"} /\ r.mounted \in BOOLEAN
  BY DEF SaveState

LEMMA Orphan ==
  ASSUME NEW r \in SaveState
  PROVE  LET o == [r EXCEPT !.mounted = FALSE] IN
           /\ o \in SaveState /\ ~o.mounted
           /\ o.panel = r.panel /\ o.on = r.on /\ o.fields = r.fields /\ o.typed = r.typed /\ o.phase = r.phase
  BY DEF SaveState

(* A save goes on without its panel. *)
LEMMA Orphans ==
  ASSUME save \in [Save -> SaveState \cup {None}]
  PROVE  /\ Orphaned \in [Save -> SaveState \cup {None}]
         /\ ~Gone => Orphaned = save
         /\ \A s \in Save : /\ (Orphaned[s] = None) = (save[s] = None)
                            /\ save[s] # None =>
                                 /\ Orphaned[s].phase = save[s].phase
                                 /\ Gone => ~Orphaned[s].mounted
                                 /\ Fits(save[s]) => Fits(Orphaned[s])
<1>1. CASE ~Gone
  <2>1. Orphaned = [s \in Save |-> save[s]]
    BY <1>1 DEF Orphaned
  <2> QED
    BY <1>1, <2>1
<1>2. CASE Gone
  <2>1. ASSUME NEW s \in Save, save[s] # None
        PROVE  /\ Orphaned[s] \in SaveState /\ Orphaned[s] # None
               /\ Orphaned[s].phase = save[s].phase
               /\ ~Orphaned[s].mounted
               /\ Fits(save[s]) => Fits(Orphaned[s])
    <3>1. save[s] \in SaveState
      BY <2>1
    <3>2. Orphaned[s] = [save[s] EXCEPT !.mounted = FALSE]
      BY <1>2, <2>1 DEF Orphaned
    <3> QED
      BY <3>1, <3>2, Orphan, Typing DEF Fits
  <2>2. ASSUME NEW s \in Save, save[s] = None PROVE Orphaned[s] = None
    BY <2>2 DEF Orphaned
  <2>3. Orphaned \in [Save -> SaveState \cup {None}]
    <3>1. \A s \in Save : Orphaned[s] \in SaveState \cup {None}
      BY <2>1, <2>2
    <3>2. Orphaned = [s \in Save |-> Orphaned[s]]
      BY DEF Orphaned
    <3> HIDE DEF Orphaned
    <3> QED
      BY <3>1, <3>2
  <2> QED
    BY <1>2, <2>1, <2>2, <2>3
<1> QED
  BY <1>1, <1>2

(* Where a step leaves the panel to what becomes of its place. *)
LEMMA KeepsEdits ==
  ASSUME PageOK, PageOK', EditInv, Keep, kind' = kind, editing => config' = config
  PROVE  EditInv'
<1>1. /\ save' \in [Save -> SaveState \cup {None}]
      /\ ~Gone => save' = save
      /\ \A s \in Save : /\ (save'[s] = None) = (save[s] = None)
                         /\ save[s] # None =>
                              /\ Gone => ~save'[s].mounted
                              /\ Fits(save[s]) => Fits(save'[s])
  BY Orphans DEF Keep, EditInv, EditOK
<1>2. Sending'
  BY <1>1 DEF EditInv, Sending, Fits
<1>3. CASE Gone
  <2>1. editing' = FALSE /\ saving' = FALSE /\ error' = FALSE /\ draft' = <<>> /\ typed' = <<>>
    BY <1>3 DEF Keep, Close
  <2>2. \A s \in Save : ~Mine(s)'
    BY <1>1, <1>3 DEF Mine
  <2> QED
    BY <1>1, <1>2, <2>1, <2>2, NoEdits DEF EditInv, EditOK, OneSave, Opened, Closed
<1>4. CASE ~Gone
  <2>1. UNCHANGED <<editVars, save>> /\ PanelOpen' /\ tab' = tab
    BY <1>1, <1>4 DEF Keep, Gone
  <2>2. \A s \in Save : Mine(s)' = Mine(s)
    BY <2>1 DEF Mine
  <2>3. EditOK' /\ OneSave'
    BY <2>1, <2>2 DEF EditInv, EditOK, OneSave, editVars
  <2>4. editing => Draft(Here, config)' = Draft(Here, config)
    BY <2>1 DEF Draft, Here
  <2>5. Opened'
    BY <2>1, <2>4 DEF EditInv, Opened, editVars
  <2> QED
    BY <1>2, <2>3, <2>5 DEF EditInv
<1> QED
  BY <1>3, <1>4

(* Only while the configuration is there can its panel be open. *)
LEMMA EditingIs ==
  ASSUME PageOK, ConfigOK, EditInv, editing
  PROVE  /\ PanelOpen /\ Here \in Panel /\ section["status"] = "complete" /\ tab # "summary"
         /\ configTask = "complete" /\ configCall = "none"
         /\ config \in [Fields(kind) -> Value] /\ config \in Config
<1>1. PanelOpen
  BY DEF EditInv, EditOK, Closed
<1>2. configTask = "complete" /\ configCall = "none" /\ config \in [Fields(kind) -> Value]
  BY <1>1, OpenIs DEF ConfigOK
<1>3. config \in Config
  BY <1>2 DEF Config, PageOK
<1> QED
  BY <1>1, <1>2, <1>3, OpenIs, HereIs

LEMMA ConfigInit == ASSUME Init PROVE ConfigOK
<1>1. Fields(kind) = Fields(kind) /\ kind \in {"qemu", "lxc"}
  BY DEF Init
<1>2. stored \in [Fields(kind) -> Value]
  BY DEF Init, Value
<1> QED
  BY <1>2, DetailConstants DEF Init, ConfigOK

LEMMA ServedTypes ==
  ASSUME PageOK, ConfigOK, EditInv, NEW s \in Save, SaveServed(s)
  PROVE  stored' \in [Fields(kind) -> Value]
<1>1. save[s] \in SaveState
  BY DEF SaveServed, EditInv, EditOK
<1>2. \A f \in DOMAIN save[s].fields : save[s].fields[f] \in Value
  BY <1>1, SaveIs, EditsHave, Typing
<1>3. stored' = [f \in Fields(kind) |-> IF f \in DOMAIN save[s].fields THEN save[s].fields[f] ELSE stored[f]]
  BY DEF SaveServed, ConfigOK
<1> QED
  BY <1>2, <1>3 DEF ConfigOK

LEMMA ConfigKept ==
  ASSUME PageOK, ConfigOK, EditInv, [Next]_vars
  PROVE  ConfigOK'
<1>1. Fields(kind)' = Fields(kind)
  BY TabKept
<1>2. CASE UNCHANGED <<stored, writes, configVars>>
  BY <1>1, <1>2 DEF ConfigOK, configVars
<1>3. CASE ConfigStep
  <2>1. UNCHANGED <<stored, writes>>
    BY <1>3 DEF ConfigStep, ConfigServed, ConfigArrives, ConfigFails, OfConfig
  <2>2. stored # None /\ None \notin [Fields(kind) -> Value]
    BY ConfigIs DEF ConfigOK, PageOK
  <2>3. CASE ConfigServed
    BY <1>1, <2>1, <2>2, <2>3 DEF ConfigServed, ConfigOK
  <2>4. CASE ConfigArrives
    BY <1>1, <2>1, <2>2, <2>4 DEF ConfigArrives, ConfigOK
  <2>5. CASE ConfigFails
    BY <1>1, <2>1, <2>5 DEF ConfigFails, ConfigOK
  <2> QED
    BY <1>3, <2>3, <2>4, <2>5 DEF ConfigStep
<1>4. ASSUME NEW s \in Save, SaveServed(s) PROVE ConfigOK'
  <2>1. UNCHANGED <<writes, configVars>>
    BY <1>4 DEF SaveServed
  <2> QED
    BY <1>1, <1>4, <2>1, ServedTypes DEF ConfigOK, configVars
<1>5. ASSUME NEW s \in Save, SaveDone(s) PROVE ConfigOK'
  BY <1>1, <1>5 DEF SaveDone, ConfigUpdated, ConfigOK
<1>6. ASSUME NEW f \in Fields(kind), OtherWrites(f) PROVE ConfigOK'
  <2>1. UNCHANGED configVars /\ writes' \in 0..MaxWrites
    BY <1>6, DetailConstants DEF OtherWrites, ConfigOK
  <2>2. stored' \in [Fields(kind) -> Value]
    BY <1>6 DEF OtherWrites, ConfigOK, Value
  <2> QED
    BY <1>1, <2>1, <2>2 DEF ConfigOK, configVars
<1>7. ASSUME UNCHANGED vars \/ PageStep \/ PanelEdits PROVE UNCHANGED <<stored, writes, configVars>>
  BY <1>7, PageOf DEF vars, detailVars, PanelEdits, StartEdit, Revert, SaveEmpty, Set, SaveSends, SaveFails, OfPanel
<1> QED
  BY <1>2, <1>3, <1>4, <1>5, <1>6, <1>7, Steps

-----------------------------------------------------------------------------
(* Steps of the panel.                                                     *)

LEMMA PanelStill ==
  ASSUME OfPanel
  PROVE  /\ PanelOpen' = PanelOpen /\ Here' = Here /\ config' = config
         /\ Draft(Here, config)' = Draft(Here, config)
  BY DEF OfPanel, PanelOpen, Content, VmContent, LxcContent, VmSummary, LxcSummary, ConfigPanel, Here, PanelOf, Draft,
         actionVars, taskVars, configVars

LEMMA StartEdits == ASSUME EditInv, StartEdit PROVE EditInv'
<1>1. /\ PanelOpen /\ PanelOpen' /\ editing' = TRUE /\ error' = FALSE
      /\ draft' = Draft(Here, config) /\ typed' = <<>> /\ UNCHANGED <<saving, save>>
      /\ Draft(Here, config)' = Draft(Here, config)
  BY PanelStill DEF StartEdit
<1>2. EditOK' /\ OneSave' /\ Sending'
  BY <1>1, NoEdits DEF EditInv, EditOK, OneSave, Sending, Mine, Fits
<1>3. Opened'
  BY <1>1, NoEdits DEF Opened
<1> QED
  BY <1>2, <1>3 DEF EditInv

LEMMA EndEdits ==
  ASSUME PageOK, ConfigOK, EditInv, Revert \/ SaveEmpty
  PROVE  EditInv'
<1>1. /\ ~saving /\ editing' = FALSE /\ UNCHANGED <<saving, save>> /\ PanelOpen' = PanelOpen
      /\ editing
  BY PanelStill DEF Revert, SaveEmpty
<1>2. PanelOpen
  BY <1>1, EditingIs
<1>3. typed' \in Edits /\ error' \in BOOLEAN
  BY NoEdits DEF Revert, SaveEmpty, EditInv, EditOK
<1> QED
  BY <1>1, <1>2, <1>3 DEF EditInv, EditOK, OneSave, Opened, Sending, Mine, Fits

LEMMA SetEdits ==
  ASSUME PageOK, ConfigOK, EditInv, NEW f \in Touched, NEW v \in Typed, Set(f, v)
  PROVE  EditInv'
<1>1. /\ editing /\ editing' = editing /\ f \in DOMAIN draft
      /\ UNCHANGED <<saving, error, save>> /\ PanelOpen' = PanelOpen
      /\ Draft(Here, config)' = Draft(Here, config)
  BY PanelStill DEF Set
<1>2. PanelOpen
  BY <1>1, EditingIs
<1>3. typed' \in Edits
  BY MoreEdits DEF Set, EditInv, EditOK
<1>4. EditOK' /\ OneSave' /\ Sending'
  BY <1>1, <1>2, <1>3 DEF EditInv, EditOK, OneSave, Sending, Mine, Fits
<1>5. Opened'
  <2>1. /\ DOMAIN draft' = DOMAIN draft /\ DOMAIN typed' = DOMAIN typed \cup {f}
        /\ draft'[f] = v /\ typed'[f] = v
        /\ \A g \in DOMAIN draft : g # f => draft'[g] = draft[g]
        /\ \A g \in DOMAIN typed : g # f => typed'[g] = typed[g]
    BY <1>1 DEF Set
  <2> QED
    BY <1>1, <2>1 DEF EditInv, Opened
<1> QED
  BY <1>4, <1>5 DEF EditInv

(* What _saveEdit sends is what was typed and differs from what is shown. *)
LEMMA SentIs ==
  ASSUME PageOK, ConfigOK, EditInv, editing
  PROVE  LET sent == Changed(Here, config, draft) IN
           /\ DOMAIN sent = {f \in DOMAIN typed : typed[f] # Draft(Here, config)[f]}
           /\ \A f \in DOMAIN sent : sent[f] = typed[f]
           /\ sent \in Edits
<1> DEFINE sent == Changed(Here, config, draft)
<1>1. Here \in Panel /\ typed \in Edits
  BY EditingIs DEF EditInv, EditOK
<1>2. /\ DOMAIN draft = DOMAIN Draft(Here, config)
      /\ DOMAIN typed \subseteq DOMAIN draft
      /\ \A f \in DOMAIN draft :
           draft[f] = IF f \in DOMAIN typed THEN typed[f] ELSE Draft(Here, config)[f]
  BY DEF EditInv, Opened
<1>3. /\ \A f : f \in DOMAIN sent <=> f \in DOMAIN draft /\ draft[f] # None /\ draft[f] # Draft(Here, config)[f]
      /\ \A f \in DOMAIN sent : sent[f] = draft[f]
  BY <1>1, <1>2, ChangedIs
<1>4. sent = [f \in DOMAIN sent |-> sent[f]]
  BY DEF Changed
<1> HIDE DEF sent
<1>5. \A f \in DOMAIN typed : typed[f] # None /\ typed[f] \in Typed
  BY <1>1, EditsHave, Typing
<1>6. DOMAIN sent = {f \in DOMAIN typed : typed[f] # Draft(Here, config)[f]}
  BY <1>2, <1>3, <1>5
<1>7. \A f \in DOMAIN sent : sent[f] = typed[f]
  BY <1>2, <1>3, <1>6
<1>8. DOMAIN sent \in SUBSET Touched /\ \A f \in DOMAIN sent : sent[f] \in Typed
  BY <1>1, <1>5, <1>6, <1>7, EditsHave
<1>9. sent \in Edits
  BY <1>4, <1>8, EditsAre
<1> QED
  BY <1>6, <1>7, <1>9 DEF sent

LEMMA SendsEdits ==
  ASSUME PageOK, ConfigOK, EditInv, NEW s \in Save, SaveSends(s)
  PROVE  EditInv'
<1> DEFINE sent == Changed(Here, config, draft)
           new == [panel |-> Here, fields |-> sent, typed |-> typed, on |-> config, phase |-> "sent", mounted |-> TRUE]
<1>1. /\ editing /\ ~saving /\ save[s] = None
      /\ save' = [save EXCEPT ![s] = new] /\ saving' = TRUE /\ error' = FALSE
      /\ UNCHANGED <<editing, draft, typed>> /\ PanelOpen' = PanelOpen
      /\ Here' = Here /\ Draft(Here, config)' = Draft(Here, config)
  <2>1. save[s] = None
    <3>1. \E q \in Save : save[q] = None
      BY DEF SaveSends
    <3>2. s = CHOOSE q \in Save : save[q] = None
      BY DEF SaveSends
    <3> QED
      BY <3>1, <3>2
  <2> QED
    BY <2>1, PanelStill DEF SaveSends
<1>2. PanelOpen /\ Here \in Panel /\ config \in Config /\ typed \in Edits
  BY <1>1, EditingIs DEF EditInv, EditOK
<1>3. /\ DOMAIN sent = {f \in DOMAIN typed : typed[f] # Draft(Here, config)[f]}
      /\ \A f \in DOMAIN sent : sent[f] = typed[f]
      /\ sent \in Edits
  BY <1>1, SentIs
<1> HIDE DEF sent
<1>4. new \in SaveState /\ new.mounted /\ Fits(new)
  BY <1>2, <1>3 DEF SaveState, Fits
<1> HIDE DEF new
<1>5. \A q \in Save : save'[q] = IF q = s THEN new ELSE save[q]
  BY <1>1 DEF EditInv, EditOK
<1>6. save' \in [Save -> SaveState \cup {None}]
  BY <1>1, <1>4 DEF EditInv, EditOK
<1>7. \A q \in Save : ~Mine(q)
  BY <1>1 DEF EditInv, EditOK
<1>8. \A q \in Save : Mine(q)' <=> q = s
  BY <1>4, <1>5, <1>7, Typing DEF Mine
<1>9. Sending'
  BY <1>4, <1>5 DEF EditInv, Sending, Fits
<1>10. EditOK' /\ OneSave'
  BY <1>1, <1>2, <1>6, <1>8 DEF EditInv, EditOK, OneSave
<1>11. Opened'
  BY <1>1 DEF EditInv, Opened
<1> QED
  BY <1>9, <1>10, <1>11 DEF EditInv

(* The save at s is over, or further than it was: what the others are is   *)
(* as before.                                                              *)
LEMMA SaveBecomes ==
  ASSUME EditInv, NEW s \in Save, NEW r \in SaveState, Fits(r), save' = [save EXCEPT ![s] = r]
  PROVE  /\ save' \in [Save -> SaveState \cup {None}] /\ Sending'
         /\ \A q \in Save : Mine(q)' <=> IF q = s THEN r.mounted ELSE Mine(q)
<1>1. \A q \in Save : save'[q] = IF q = s THEN r ELSE save[q]
  BY DEF EditInv, EditOK
<1>2. save' \in [Save -> SaveState \cup {None}]
  BY DEF EditInv, EditOK
<1>3. Sending'
  BY <1>1 DEF EditInv, Sending, Fits
<1>4. \A q \in Save : Mine(q)' <=> IF q = s THEN r.mounted ELSE Mine(q)
  BY <1>1, Typing DEF Mine
<1> QED
  BY <1>2, <1>3, <1>4

LEMMA FailsEdits ==
  ASSUME PageOK, ConfigOK, EditInv, NEW s \in Save, SaveFails(s)
  PROVE  EditInv'
<1>1. /\ save[s] # None /\ save' = [save EXCEPT ![s] = Settled]
      /\ IF save[s].mounted THEN saving' = FALSE /\ error' = TRUE ELSE UNCHANGED <<saving, error>>
      /\ UNCHANGED <<editing, draft, typed>> /\ PanelOpen' = PanelOpen
      /\ Here' = Here /\ Draft(Here, config)' = Draft(Here, config)
  BY PanelStill DEF SaveFails
<1>2. /\ save' \in [Save -> SaveState \cup {None}] /\ Sending'
      /\ \A q \in Save : Mine(q)' <=> Mine(q) /\ q # s
  BY <1>1, SettledIs, SaveBecomes
<1>3. OneSave'
  BY <1>2 DEF EditInv, OneSave
<1>4. Opened'
  BY <1>1 DEF EditInv, Opened
<1>5. CASE Mine(s)
  <2>1. \A q \in Save : ~Mine(q)'
    BY <1>2, <1>5 DEF EditInv, OneSave
  <2>2. saving' = FALSE /\ error' = TRUE /\ editing
    BY <1>1, <1>5 DEF Mine, EditInv, EditOK
  <2>3. PanelOpen
    BY <2>2, EditingIs
  <2>4. EditOK'
    BY <1>1, <1>2, <2>1, <2>2, <2>3 DEF EditInv, EditOK
  <2> QED
    BY <1>2, <1>3, <1>4, <2>4 DEF EditInv
<1>6. CASE ~Mine(s)
  <2>1. UNCHANGED <<saving, error>> /\ \A q \in Save : Mine(q)' <=> Mine(q)
    BY <1>1, <1>2, <1>6 DEF Mine
  <2>2. EditOK'
    BY <1>1, <1>2, <2>1 DEF EditInv, EditOK, Closed
  <2> QED
    BY <1>2, <1>3, <1>4, <2>2 DEF EditInv
<1> QED
  BY <1>5, <1>6

LEMMA ServedEdits ==
  ASSUME PageOK, ConfigOK, EditInv, NEW s \in Save, SaveServed(s)
  PROVE  EditInv'
<1>1. /\ save[s] \in SaveState /\ save[s] # None
      /\ save' = [save EXCEPT ![s].phase = "ok"]
      /\ UNCHANGED <<actionVars, kind, configVars, editVars>>
  BY DEF SaveServed, EditInv, EditOK
<1> DEFINE r == [save[s] EXCEPT !.phase = "ok"]
<1>2. r \in SaveState /\ r.mounted = save[s].mounted /\ Fits(r)
  <2>1. r \in SaveState /\ r.mounted = save[s].mounted
        /\ r.panel = save[s].panel /\ r.on = save[s].on /\ r.fields = save[s].fields /\ r.typed = save[s].typed
    BY <1>1 DEF SaveState
  <2> HIDE DEF r
  <2> QED
    BY <1>1, <2>1 DEF Fits, EditInv, Sending
<1>3. save' = [save EXCEPT ![s] = r]
  BY <1>1 DEF EditInv, EditOK
<1> HIDE DEF r
<1>4. /\ save' \in [Save -> SaveState \cup {None}] /\ Sending'
      /\ \A q \in Save : Mine(q)' <=> Mine(q)
  <2>1. Mine(s) <=> r.mounted
    BY <1>1, <1>2 DEF Mine
  <2> QED
    BY <1>2, <1>3, <2>1, SaveBecomes
<1>5. PanelOpen' = PanelOpen /\ Here' = Here /\ Draft(Here, config)' = Draft(Here, config)
  BY <1>1 DEF PanelOpen, Content, VmContent, LxcContent, VmSummary, LxcSummary, ConfigPanel, Here, PanelOf, Draft,
         actionVars, taskVars, configVars
<1>6. EditOK' /\ OneSave' /\ Opened'
  BY <1>1, <1>4, <1>5 DEF EditInv, EditOK, OneSave, Opened, Closed, editVars
<1> QED
  BY <1>4, <1>6 DEF EditInv

(* _onConfigUpdated takes the panel off, whoever sent the save. *)
LEMMA DoneEdits ==
  ASSUME PageOK, PageOK', ConfigOK, EditInv, NEW s \in Save, SaveDone(s)
  PROVE  EditInv' /\ Gone
<1>1. ~PanelOpen'
  <2>1. configTask' = "pending"
    BY DEF SaveDone, ConfigUpdated
  <2> QED
    BY <2>1, OpenIsNext
<1>2. Gone
  BY <1>1 DEF Gone
<1>3. Close /\ save' = [Orphaned EXCEPT ![s] = Settled]
  BY <1>2 DEF SaveDone
<1>4. /\ Orphaned \in [Save -> SaveState \cup {None}]
      /\ \A q \in Save : /\ (Orphaned[q] = None) = (save[q] = None)
                         /\ save[q] # None => ~Orphaned[q].mounted /\ Fits(Orphaned[q])
  <2>1. /\ Orphaned \in [Save -> SaveState \cup {None}]
        /\ \A q \in Save : /\ (Orphaned[q] = None) = (save[q] = None)
                           /\ save[q] # None =>
                                /\ Gone => ~Orphaned[q].mounted
                                /\ Fits(save[q]) => Fits(Orphaned[q])
    BY Orphans DEF EditInv, EditOK
  <2> QED
    BY <1>2, <2>1 DEF EditInv, Sending
<1>5. \A q \in Save : save'[q] = IF q = s THEN Settled ELSE Orphaned[q]
  BY <1>3, <1>4
<1>6. save' \in [Save -> SaveState \cup {None}]
  BY <1>3, <1>4, SettledIs
<1>7. \A q \in Save : ~Mine(q)'
  BY <1>4, <1>5, SettledIs DEF Mine
<1>8. Sending'
  BY <1>4, <1>5, SettledIs DEF Sending, Fits
<1> QED
  BY <1>1, <1>2, <1>3, <1>6, <1>7, <1>8, NoEdits DEF Close, Closed, EditInv, EditOK, OneSave, Opened

LEMMA EditInit == ASSUME Init PROVE PageOK /\ EditInv
<1>1. /\ kind \in {"qemu", "lxc"} /\ tab = "summary" /\ configTask = "pending"
      /\ editing = FALSE /\ saving = FALSE /\ error = FALSE /\ draft = <<>> /\ typed = <<>>
      /\ save = [s \in Save |-> None]
  BY DEF Init, ActionsInit
<1>2. tab \in Tabs
  BY <1>1 DEF Tabs, VmTabs, LxcTabs
<1>3. PageOK
  BY <1>1, <1>2, ActionsShown DEF PageOK
<1>4. EditInv
  BY <1>1, NoEdits DEF EditInv, EditOK, OneSave, Opened, Sending, Closed, Mine
<1> QED
  BY <1>3, <1>4

(* What the steps do to an open editor, one by one. *)
LEMMA EditsKept ==
  ASSUME PageOK, ConfigOK, EditInv, [Next]_vars
  PROVE  EditInv'
<1>1. PageOK'
  BY PageKept
<1>2. CASE UNCHANGED vars
  <2>1. UNCHANGED <<actionVars, kind, configVars, editVars, save>>
    BY <1>2 DEF vars, detailVars
  <2>2. PanelOpen' = PanelOpen /\ Here' = Here /\ Draft(Here, config)' = Draft(Here, config)
    BY <2>1 DEF PanelOpen, Content, VmContent, LxcContent, VmSummary, LxcSummary, ConfigPanel, Here, PanelOf, Draft,
           actionVars, taskVars, configVars
  <2> QED
    BY <2>1, <2>2 DEF EditInv, EditOK, OneSave, Opened, Sending, Closed, Mine, Fits, editVars
<1>3. CASE PageStep
  <2>1. Keep /\ kind' = kind /\ config' = config
    BY <1>3, PageOf DEF configVars
  <2> QED
    BY <1>1, <2>1, KeepsEdits
<1>4. CASE ConfigStep
  <2>1. Keep /\ kind' = kind /\ configCall # "none"
    BY <1>4 DEF ConfigStep, ConfigServed, ConfigArrives, ConfigFails, OfConfig
  <2>2. ~editing
    BY <2>1, EditingIs
  <2> QED
    BY <1>1, <2>1, <2>2, KeepsEdits
<1>5. CASE PanelEdits
  BY <1>5, StartEdits, EndEdits, SetEdits, SendsEdits, FailsEdits DEF PanelEdits
<1>6. ASSUME NEW f \in Fields(kind), OtherWrites(f) PROVE EditInv'
  <2>1. UNCHANGED <<actionVars, kind, configVars, editVars, save>>
    BY <1>6 DEF OtherWrites
  <2>2. PanelOpen' = PanelOpen /\ Here' = Here /\ Draft(Here, config)' = Draft(Here, config)
    BY <2>1 DEF PanelOpen, Content, VmContent, LxcContent, VmSummary, LxcSummary, ConfigPanel, Here, PanelOf, Draft,
           actionVars, taskVars, configVars
  <2> QED
    BY <2>1, <2>2 DEF EditInv, EditOK, OneSave, Opened, Sending, Closed, Mine, Fits, editVars
<1> QED
  BY <1>1, <1>2, <1>3, <1>4, <1>5, <1>6, ServedEdits, DoneEdits, Steps

DetailInv == ActionsTypeOK /\ PageOK /\ ConfigOK /\ EditInv

LEMMA DetailInit == Init => DetailInv
  BY InitTypes, EditInit, ConfigInit DEF Init, DetailInv

LEMMA DetailNext == DetailInv /\ [Next]_vars => DetailInv'
  BY NextTypes, StepOfPage, PageKept, ConfigKept, EditsKept DEF DetailInv

(* Type correctness of the detail view; a draft, a spinner or an error     *)
(* exists only in a panel that is on the page, and the spinner tells       *)
(* exactly whether that panel has a save under way.                        *)
THEOREM DetailTypesCorrect == Spec => []DetailTypeOK
<1>1. DetailInv => DetailTypeOK
  BY DetailTypes DEF DetailInv, EditInv
<1> QED
  BY <1>1, DetailInit, DetailNext, PTL DEF Spec

(* An open draft is what is shown but for what was typed, for any fields,  *)
(* values, saves and writes of others.                                     *)
THEOREM DraftsMatch == Spec => []DraftMatchesShown
<1>1. DetailInv => DraftMatchesShown
  BY DEF DetailInv, EditInv, Opened, DraftMatchesShown
<1> QED
  BY <1>1, DetailInit, DetailNext, PTL DEF Spec

-----------------------------------------------------------------------------
(* What a page knows of the saves it was told of.                          *)

ReachedOK == reached \in [stored : SUBSET Save, answer : SUBSET Save, config : SUBSET Save, acked : SUBSET Save]

Told == /\ ReachedOK
        /\ \A s \in Save : save[s] # None /\ save[s].phase = "ok" => s \in reached.stored
        /\ reached.acked \subseteq reached.stored
        /\ configCall = "served" => reached.acked \subseteq reached.answer
        /\ configTask = "complete" => reached.acked \subseteq reached.config

LEMMA ToldInit == ASSUME Init PROVE Told
  BY DEF Init, Told, ReachedOK

LEMMA ToldSame ==
  ASSUME Told, UNCHANGED <<configTask, configCall, reached>>,
         \A s \in Save : save'[s] # None /\ save'[s].phase = "ok" => save[s] # None /\ save[s].phase = "ok"
  PROVE  Told'
  BY DEF Told, ReachedOK

LEMMA KeepPhases ==
  ASSUME EditInv, Keep
  PROVE  \A s \in Save : save'[s] # None /\ save'[s].phase = "ok" => save[s] # None /\ save[s].phase = "ok"
  BY Orphans DEF Keep, EditInv, EditOK

LEMMA EditPhases ==
  ASSUME EditInv, PanelEdits
  PROVE  /\ UNCHANGED <<configTask, configCall, reached>>
         /\ \A s \in Save : save'[s] # None /\ save'[s].phase = "ok" => save[s] # None /\ save[s].phase = "ok"
<1>1. UNCHANGED <<configTask, configCall, reached>>
  BY DEF PanelEdits, StartEdit, Revert, SaveEmpty, Set, SaveSends, SaveFails, OfPanel, configVars
<1>2. CASE UNCHANGED save
  BY <1>1, <1>2
<1>3. ASSUME NEW s \in Save, SaveSends(s)
      PROVE  \A q \in Save : save'[q] # None /\ save'[q].phase = "ok" => save[q] # None /\ save[q].phase = "ok"
  <2>1. save' = [save EXCEPT ![s] = [panel |-> Here, fields |-> Changed(Here, config, draft),
                                     typed |-> typed, on |-> config, phase |-> "sent", mounted |-> TRUE]]
    BY <1>3 DEF SaveSends
  <2>2. save'[s].phase = "sent" /\ \A q \in Save : q # s => save'[q] = save[q]
    BY <2>1 DEF EditInv, EditOK
  <2> QED
    BY <2>2
<1>4. ASSUME NEW s \in Save, SaveFails(s)
      PROVE  \A q \in Save : save'[q] # None /\ save'[q].phase = "ok" => save[q] # None /\ save[q].phase = "ok"
  <2>1. save' = [save EXCEPT ![s] = Settled] /\ Settled.phase = "over"
    BY <1>4 DEF SaveFails, Settled
  <2>2. save'[s].phase = "over" /\ \A q \in Save : q # s => save'[q] = save[q]
    BY <2>1 DEF EditInv, EditOK
  <2> QED
    BY <2>2
<1>5. StartEdit \/ Revert \/ SaveEmpty \/ (\E f \in Touched, v \in Typed : Set(f, v)) => UNCHANGED save
  BY DEF StartEdit, Revert, SaveEmpty, Set
<1> QED
  BY <1>1, <1>2, <1>3, <1>4, <1>5 DEF PanelEdits

LEMMA ToldConfig == ASSUME Told, ConfigOK, EditInv, ConfigStep PROVE Told'
<1>1. \A s \in Save : save'[s] # None /\ save'[s].phase = "ok" => save[s] # None /\ save[s].phase = "ok"
  BY KeepPhases DEF ConfigStep, ConfigServed, ConfigArrives, ConfigFails, OfConfig
<1>2. CASE ConfigServed
  <2>1. /\ configCall' = "served" /\ configTask' = configTask /\ configTask # "complete"
        /\ reached' = [reached EXCEPT !.answer = reached.stored]
    BY <1>2 DEF ConfigServed, ConfigOK
  <2> QED
    BY <1>1, <2>1 DEF Told, ReachedOK
<1>3. CASE ConfigArrives
  <2>1. /\ configCall = "served" /\ configCall' = "none"
        /\ reached' = [reached EXCEPT !.config = reached.answer, !.answer = {}]
    BY <1>3 DEF ConfigArrives
  <2> QED
    BY <1>1, <2>1 DEF Told, ReachedOK
<1>4. CASE ConfigFails
  <2>1. configCall' = "none" /\ configTask' = "error" /\ reached' = [reached EXCEPT !.answer = {}]
    BY <1>4 DEF ConfigFails
  <2> QED
    BY <1>1, <2>1 DEF Told, ReachedOK
<1> QED
  BY <1>2, <1>3, <1>4 DEF ConfigStep

LEMMA ToldServed == ASSUME Told, EditInv, NEW s \in Save, SaveServed(s) PROVE Told'
<1>1. /\ UNCHANGED <<configTask, configCall>>
      /\ reached' = [reached EXCEPT !.stored = @ \cup {s}]
      /\ save' = [save EXCEPT ![s].phase = "ok"]
  BY DEF SaveServed, configVars
<1>2. \A q \in Save : q # s => save'[q] = save[q]
  BY <1>1 DEF EditInv, EditOK
<1> QED
  BY <1>1, <1>2 DEF Told, ReachedOK

(* The page is told of s, which is stored, and asks for the configuration. *)
LEMMA ToldDone == ASSUME Told, PageOK, PageOK', ConfigOK, EditInv, NEW s \in Save, SaveDone(s) PROVE Told'
<1>1. /\ configTask' = "pending" /\ configCall' = "asked"
      /\ reached' = [reached EXCEPT !.acked = @ \cup {s}, !.answer = {}]
      /\ save[s] # None /\ save[s].phase = "ok"
      /\ save' = [Orphaned EXCEPT ![s] = Settled]
  BY DEF SaveDone, ConfigUpdated
<1>2. s \in reached.stored
  BY <1>1 DEF Told
<1>3. \A q \in Save : save'[q] = IF q = s THEN Settled ELSE Orphaned[q]
  BY <1>1, Orphans DEF EditInv, EditOK
<1>4. ASSUME NEW q \in Save, save'[q] # None, save'[q].phase = "ok" PROVE save[q] # None /\ save[q].phase = "ok"
  <2>1. q # s
    BY <1>3, <1>4 DEF Settled
  <2> QED
    BY <1>3, <1>4, <2>1, Orphans DEF EditInv, EditOK
<1> QED
  BY <1>1, <1>2, <1>4 DEF Told, ReachedOK

LEMMA ToldNext == DetailInv /\ Told /\ [Next]_vars => Told'
<1> SUFFICES ASSUME DetailInv, Told, [Next]_vars PROVE Told'
  OBVIOUS
<1>1. PageOK /\ ConfigOK /\ EditInv /\ PageOK'
  BY PageKept DEF DetailInv
<1>2. CASE UNCHANGED vars
  BY <1>2, ToldSame DEF vars, detailVars, configVars
<1>3. CASE PageStep
  BY <1>1, <1>3, PageOf, KeepPhases, ToldSame DEF configVars
<1>4. CASE PanelEdits
  BY <1>1, <1>4, EditPhases, ToldSame
<1>5. ASSUME NEW f \in Fields(kind), OtherWrites(f) PROVE Told'
  BY <1>5, ToldSame DEF OtherWrites, configVars
<1> QED
  BY <1>1, <1>2, <1>3, <1>4, <1>5, ToldConfig, ToldServed, ToldDone, Steps

(* Once a page was told that a save succeeded, it shows no configuration   *)
(* from before, for any saves, calls that overtake them, and failures.     *)
THEOREM PagesReadTheirWrites == Spec => []ReadsItsWrites
<1>1. Init => Told
  BY ToldInit
<1>2. Told => ReadsItsWrites
  BY DEF Told, ReadsItsWrites
<1> QED
  BY <1>1, <1>2, DetailInit, DetailNext, ToldNext, PTL DEF Spec

-----------------------------------------------------------------------------
(* A save writes exactly what its user has typed and found otherwise, and  *)
(* nothing of what others wrote to other fields meanwhile.                 *)
THEOREM SavesWriteWhatWasTyped == Spec => SaveWritesWhatWasTyped
<1>1. ASSUME DetailInv, NEW s \in Save, SaveServed(s), NEW f \in DOMAIN stored
      PROVE  stored'[f] = IF /\ f \in DOMAIN save[s].typed
                             /\ save[s].typed[f] # Draft(save[s].panel, save[s].on)[f]
                          THEN save[s].typed[f] ELSE stored[f]
  <2>1. save[s] # None
    BY <1>1 DEF SaveServed
  <2>2. Fits(save[s])
    BY <1>1, <2>1 DEF DetailInv, EditInv, Sending
  <2>3. stored'[f] = IF f \in DOMAIN save[s].fields THEN save[s].fields[f] ELSE stored[f]
    BY <1>1 DEF SaveServed
  <2> QED
    BY <2>2, <2>3 DEF Fits
<1>2. DetailInv => [\A s \in Save : SaveServed(s) =>
                     \A f \in DOMAIN stored :
                       stored'[f] = IF /\ f \in DOMAIN save[s].typed
                                       /\ save[s].typed[f] # Draft(save[s].panel, save[s].on)[f]
                                    THEN save[s].typed[f] ELSE stored[f]]_vars
  BY <1>1
<1> QED
  BY <1>2, DetailInit, DetailNext, PTL DEF Spec, SaveWritesWhatWasTyped

-----------------------------------------------------------------------------
(* How a draft ends.                                                       *)
Ends == \/ Revert \/ SaveEmpty \/ tab' # tab
        \/ \E s \in Save : save[s] # None /\ save[s].phase = "ok" /\ save'[s] = Settled
        \/ \E r \in Request : request[r] # None /\ request[r].phase = "ok" /\ request'[r] = None

(* The page takes an open panel off with another tab or a finished action. *)
LEMMA PageEnds == ASSUME DetailInv, DetailInv', PageStep, editing, ~editing' PROVE Ends
<1>1. Keep /\ Gone /\ configTask' = configTask
  BY PageOf DEF Keep, editVars, configVars
<1>2. section["status"] = "complete" /\ tab # "summary" /\ configTask = "complete"
  BY EditingIs DEF DetailInv
<1>3. tab' # tab \/ section'["status"] # "complete"
  BY <1>1, <1>2, OpenIsNext DEF Gone, DetailInv
<1>4. CASE tab' # tab
  BY <1>4 DEF Ends
<1>5. CASE section'["status"] # "complete"
  <2>1. \E r \in Request : ActionDone(r)
    <3>1. section' # section
      BY <1>2, <1>5
    <3>2. ASSUME NEW s \in Section, SectionStep(s) PROVE FALSE
      <4>1. call["status"] # "none"
        BY <3>2, DetailConstants DEF SectionStep, Served, Arrives, Fails
      <4>2. section["status"] = "pending"
        BY <4>1, DetailConstants DEF DetailInv, ActionsTypeOK
      <4> QED
        BY <1>2, <4>2
    <3> QED
      BY <3>1, <3>2
         DEF PageStep, OfActions, StatusStep, ActionStep, PanelStep, Click, Confirm, Cancel, RunAction, SetTab,
             RequestStep, Accepted, ActionFailed, TaskEnds, taskVars
  <2>2. PICK r \in Request : ActionDone(r)
    BY <2>1
  <2>3. request[r] # None /\ request[r].phase = "ok" /\ request'[r] = None
    <3>1. [request EXCEPT ![r] = None][r] = None
      BY DEF DetailInv, ActionsTypeOK
    <3> QED
      BY <2>2, <3>1 DEF ActionDone, TakeOff
  <2> QED
    BY <2>3 DEF Ends
<1> QED
  BY <1>3, <1>4, <1>5

LEMMA DraftEnds == ASSUME DetailInv, DetailInv', Next, editing, ~editing' PROVE Ends
<1>1. CASE PageStep
  BY <1>1, PageEnds
<1>2. CASE ConfigStep
  <2>1. configCall # "none"
    BY <1>2 DEF ConfigStep, ConfigServed, ConfigArrives, ConfigFails
  <2> QED
    BY <2>1, EditingIs DEF DetailInv
<1>3. CASE PanelEdits
  BY <1>3 DEF PanelEdits, StartEdit, Set, SaveSends, SaveFails, Ends
<1>4. ASSUME NEW s \in Save, SaveDone(s) PROVE Ends
  <2>1. save[s] # None /\ save[s].phase = "ok" /\ save' = [Orphaned EXCEPT ![s] = Settled]
    BY <1>4 DEF SaveDone
  <2>2. Orphaned \in [Save -> SaveState \cup {None}]
    BY Orphans DEF DetailInv, EditInv, EditOK
  <2>3. save'[s] = Settled
    BY <2>1, <2>2
  <2> QED
    BY <2>1, <2>3 DEF Ends
<1>5. ASSUME (\E s \in Save : SaveServed(s)) \/ (\E f \in Fields(kind) : OtherWrites(f)) PROVE FALSE
  BY <1>5 DEF SaveServed, OtherWrites, editVars
<1> QED
  BY <1>1, <1>2, <1>3, <1>4, <1>5, Steps

(* A draft ends by its user, or with an action or save that had been sent  *)
(* before and comes back; no failure and no answer of Proxmox takes it.    *)
THEOREM DraftsAreKept == Spec => DraftKept
<1>1. DetailInv /\ DetailInv' /\ [Next]_vars => [editing /\ ~editing' =>
        \/ Revert \/ SaveEmpty \/ tab' # tab
        \/ \E s \in Save : save[s] # None /\ save[s].phase = "ok" /\ save'[s] = Settled
        \/ \E r \in Request : request[r] # None /\ request[r].phase = "ok" /\ request'[r] = None]_vars
  BY DraftEnds DEF Ends
<1> QED
  BY <1>1, DetailInit, DetailNext, PTL DEF Spec, DraftKept

-----------------------------------------------------------------------------
(* Whichever panel is open, of a guest with nothing configured: the field  *)
(* that is typed into is sent, and no other.                               *)
LEMMA OneFieldSent ==
  ASSUME NEW p \in Panel, NEW f \in Field(p)
  PROVE  LET unset == [g \in DOMAIN Starting[p] |-> None]
             start == Draft(p, unset)
         IN  /\ Field(p) = DOMAIN start
             /\ Changed(p, unset, [start EXCEPT ![f] = "new"]) = [g \in {f} |-> "new"]
<1> DEFINE unset == [g \in DOMAIN Starting[p] |-> None]
           start == Draft(p, unset)
           d     == [start EXCEPT ![f] = "new"]
<1>1. DOMAIN start = Field(p) /\ \A g \in Field(p) : start[g] = Starting[p][g]
  BY FieldsOf DEF Draft, Or
<1>2. DOMAIN d = DOMAIN start
  OBVIOUS
<1>3. d[f] = "new" /\ \A g \in Field(p) : g # f => d[g] = start[g]
  BY <1>1
<1>4. Starting[p][f] # "new" /\ None # "new"
  BY FieldsOf, StartsElsewhere, Typing
<1>5. DOMAIN d = DOMAIN Draft(p, unset)
  BY <1>2
<1>6. Changed(p, unset, d) = [g \in DOMAIN Changed(p, unset, d) |-> Changed(p, unset, d)[g]]
  BY DEF Changed
<1> HIDE DEF unset, d
<1>7. /\ \A g : g \in DOMAIN Changed(p, unset, d) <=> g \in DOMAIN d /\ d[g] # None /\ d[g] # Draft(p, unset)[g]
      /\ \A g \in DOMAIN Changed(p, unset, d) : Changed(p, unset, d)[g] = d[g]
  BY <1>5, ChangedIs
<1>8. DOMAIN Changed(p, unset, d) = {f}
  BY <1>1, <1>2, <1>3, <1>4, <1>7
<1>9. Changed(p, unset, d) = [g \in {f} |-> "new"]
  BY <1>3, <1>6, <1>7, <1>8
<1> QED
  BY <1>1, <1>9 DEF unset, d

(* What is typed is sent, and what is sent gets past the pipe of the BFF,  *)
(* in each of the four panels.                                             *)
THEOREM TypedIsAlwaysSent == Spec => []TypedIsSent
<1>1. PageOK => TypedIsSent
  <2> SUFFICES ASSUME PageOK, PanelOpen
               PROVE  LET unset == [f \in DOMAIN Starting[Here] |-> None]
                          start == Draft(Here, unset)
                          Of(f) == Changed(Here, unset, [start EXCEPT ![f] = "new"])
                      IN  /\ Field(Here) = DOMAIN start
                          /\ \A f \in Field(Here) : Of(f) = [g \in {f} |-> "new"] /\ Accepts(Here, Of(f))
    BY DEF TypedIsSent
  <2>1. PICK p \in Panel : p = Here
    BY HereIs
  <2>2. Field(p) = DOMAIN Draft(p, [f \in DOMAIN Starting[p] |-> None])
    BY FieldsOf DEF Draft
  <2>3. \A f \in Field(p) :
          Changed(p, [g \in DOMAIN Starting[p] |-> None],
                  [Draft(p, [g \in DOMAIN Starting[p] |-> None]) EXCEPT ![f] = "new"]) = [g \in {f} |-> "new"]
    BY OneFieldSent
  <2> QED
    BY <2>1, <2>2, <2>3, PipePasses
<1>2. DetailInv => PageOK
  BY DEF DetailInv
<1> QED
  BY <1>1, <1>2, DetailInit, DetailNext, PTL DEF Spec
===============================================================================
