------------------------- MODULE GuestActionsProofs -------------------------
(***************************************************************************)
(* Theorems about GuestActions, for any number of guests, sections and     *)
(* requests: the types, and what the panels of a page show of the requests *)
(* they have sent.                                                         *)
(***************************************************************************)
EXTENDS GuestActions, TLAPS

(* A page without tabs is one whose tab never changes: what is proved of   *)
(* TabbedSpec holds of ActionsSpec.                                        *)
LEMMA WithoutTabs == ActionsSpec => TabbedSpec
<1>1. [ActionsNext]_actionVars => [TabbedNext]_actionVars
  BY DEF TabbedNext
<1> QED
  BY <1>1, PTL DEF ActionsSpec, TabbedSpec

(* The panels' parts of the types. *)
PanelTypes == /\ busy \in [Guest -> Action \cup {None}]
              /\ confirm \in [Guest -> Action \cup {None}]
              /\ request \in [Request -> Sent \cup {None}]

ProxmoxTypes == /\ power \in [Guest -> Status]
                /\ task \in [Request -> Job \cup {None}]
                /\ others \in 0..MaxOthers

TaskTypes == /\ fetched \in [Guest -> Status \cup {None}]
             /\ seen \in [Guest -> Status \cup {None}]
             /\ section \in [Section -> {"pending", "complete", "error"}]
             /\ call \in [Section -> {"none", "asked", "served"}]
             /\ \A s \in Section : section[s] = "pending" <=> call[s] # "none"
             /\ \A s \in Section : \A g \in Rows[s] :
                  /\ fetched[g] # None <=> call[s] = "served"
                  /\ seen[g] # None <=> section[s] = "complete"

LEMMA TypesSplit == ActionsTypeOK <=> PanelTypes /\ ProxmoxTypes /\ TaskTypes /\ tab \in Tab
  BY DEF ActionsTypeOK, PanelTypes, ProxmoxTypes, TaskTypes

LEMMA ActionSet == Action = {"start", "stop", "shutdown", "reboot", "suspend", "resume", "reset"}
  BY DEF Action, When

LEMMA OfferedActions == ASSUME NEW s PROVE Offered(s) \subseteq Action
  BY DEF Offered

LEMMA NoneIsNo == None \notin Status /\ None \notin Action /\ None \notin Job /\ None \notin Sent
  BY NoneIsNothing

(* A guest is in one section, and that section is reloaded. *)
LEMMA OneSectionEach ==
  ASSUME NEW g \in Guest
  PROVE  SectionOf(g) \in Reloads /\ SectionOf(g) \in Section /\ g \in Rows[SectionOf(g)]
<1>1. PICK s \in Reloads : g \in Rows[s]
  BY ActionsConstants
<1>2. s \in Section
  BY ActionsConstants
<1>3. \A t \in Section : g \in Rows[t] => t = s
  BY <1>1, <1>2, ActionsConstants
<1> QED
  BY <1>1, <1>2, <1>3 DEF SectionOf

LEMMA OnlyThatSection ==
  ASSUME NEW s \in Section, NEW g \in Rows[s]
  PROVE  g \in Guest /\ s = SectionOf(g)
<1>1. g \in Guest
  BY ActionsConstants
<1> QED
  BY <1>1, OneSectionEach, ActionsConstants

LEMMA ReloadsAll == UNION {Rows[s] : s \in Reloads} = Guest
  BY ActionsConstants

-----------------------------------------------------------------------------
(* The types.                                                              *)
LEMMA InitTypes == ActionsInit => ActionsTypeOK
  BY ActionsConstants, NoneIsNothing
     DEF ActionsInit, ActionsTypeOK, Status

LEMMA TakeOffTypes ==
  ASSUME PanelTypes, NEW G, NEW sent \in [Request -> Sent \cup {None}], TakeOff(G, sent)
  PROVE  PanelTypes'
<1>1. request' \in [Request -> Sent \cup {None}]
  BY DEF TakeOff, Sent
<1> QED
  BY <1>1 DEF TakeOff, PanelTypes

LEMMA RunActionTypes ==
  ASSUME PanelTypes, NEW g \in Guest, NEW a \in Action, NEW r \in Request, RunAction(g, a, r)
  PROVE  PanelTypes'
<1>1. [guest |-> g, action |-> a, phase |-> "sent", mounted |-> TRUE] \in Sent
  BY DEF Sent
<1> QED
  BY <1>1 DEF RunAction, PanelTypes

LEMMA PanelStepTypes == ASSUME ActionsTypeOK, PanelStep PROVE ActionsTypeOK'
<1>0. PanelTypes /\ ProxmoxTypes /\ TaskTypes /\ tab \in Tab
  BY TypesSplit
<1>1. UNCHANGED <<proxmoxVars, tab, taskVars>>
  BY DEF PanelStep, Click, Confirm, Cancel, RunAction
<1>2. PICK g \in Guest : \/ \E r \in Request : (\E a \in Action : Click(g, a, r)) \/ Confirm(g, r)
                         \/ Cancel(g)
  BY DEF PanelStep
<1>3. PanelTypes'
  <2>1. CASE Cancel(g)
    BY <1>0, <2>1 DEF Cancel, PanelTypes
  <2>2. ASSUME NEW r \in Request, NEW a \in Action, Click(g, a, r) PROVE PanelTypes'
    <3>1. CASE NeedsConfirm(a)
      BY <1>0, <2>2, <3>1 DEF Click, PanelTypes
    <3>2. CASE ~NeedsConfirm(a)
      BY <1>0, <2>2, <3>2, RunActionTypes DEF Click
    <3> QED
      BY <3>1, <3>2
  <2>3. ASSUME NEW r \in Request, Confirm(g, r) PROVE PanelTypes'
    <3>1. confirm[g] \in Action
      BY <1>0, <2>3 DEF Confirm, PanelTypes
    <3> QED
      BY <1>0, <2>3, <3>1, RunActionTypes DEF Confirm
  <2> QED
    BY <1>2, <2>1, <2>2, <2>3
<1>4. ProxmoxTypes' /\ TaskTypes' /\ tab' \in Tab
  BY <1>0, <1>1 DEF ProxmoxTypes, TaskTypes, proxmoxVars, taskVars
<1> QED
  BY <1>3, <1>4, TypesSplit DEF ActionsTypeOK, PanelTypes, ProxmoxTypes, TaskTypes

LEMMA SetTabTypes == ASSUME ActionsTypeOK, NEW t \in Tab, SetTab(t) PROVE ActionsTypeOK'
<1>0. PanelTypes /\ ProxmoxTypes /\ TaskTypes /\ tab \in Tab
  BY TypesSplit
<1>1. request \in [Request -> Sent \cup {None}]
  BY DEF ActionsTypeOK
<1>2. PanelTypes'
  BY <1>0, <1>1, TakeOffTypes DEF SetTab
<1>3. ProxmoxTypes' /\ TaskTypes' /\ tab' \in Tab
  BY <1>0 DEF SetTab, ProxmoxTypes, TaskTypes, proxmoxVars, taskVars
<1> QED
  BY <1>2, <1>3, TypesSplit DEF ActionsTypeOK, PanelTypes, ProxmoxTypes, TaskTypes

LEMMA SectionStepTypes ==
  ASSUME ActionsTypeOK, NEW s \in Section, SectionStep(s)
  PROVE  ActionsTypeOK'
<1>0. PanelTypes /\ ProxmoxTypes /\ TaskTypes /\ tab \in Tab
  BY TypesSplit
<1>1. PanelTypes' /\ ProxmoxTypes' /\ tab' \in Tab
  BY <1>0 DEF SectionStep, Served, Arrives, Fails, PanelTypes, ProxmoxTypes, panelVars, proxmoxVars
<1>2. \A t \in Section, g \in Guest : t # s /\ g \in Rows[t] => g \notin Rows[s]
  BY ActionsConstants
<1>3. Rows[s] \subseteq Guest /\ \A t \in Section : Rows[t] \subseteq Guest
  BY ActionsConstants
<1>4. \A g \in Guest : power[g] # None
  BY <1>0, NoneIsNo DEF ProxmoxTypes
<1>5. TaskTypes'
  <2>1. CASE Served(s)
    BY <1>0, <1>2, <1>3, <1>4, <2>1 DEF Served, TaskTypes, ProxmoxTypes
  <2>2. CASE Arrives(s)
    BY <1>0, <1>2, <1>3, <2>2 DEF Arrives, TaskTypes
  <2>3. CASE Fails(s)
    BY <1>0, <1>2, <1>3, <2>3 DEF Fails, Blank, TaskTypes
  <2> QED
    BY <2>1, <2>2, <2>3 DEF SectionStep
<1> QED
  BY <1>1, <1>5, TypesSplit DEF ActionsTypeOK, PanelTypes, ProxmoxTypes, TaskTypes

(* Every panel is in a section that is asked for again. *)
LEMMA AskTypes == ASSUME TaskTypes, Ask(Reloads) PROVE TaskTypes'
<1>1. \A g \in Guest : fetched'[g] = None /\ seen'[g] = None
  BY ReloadsAll DEF Ask, Blank
<1>2. /\ fetched' \in [Guest -> Status \cup {None}]
      /\ seen' \in [Guest -> Status \cup {None}]
  BY ReloadsAll DEF Ask, Blank
<1>3. /\ section' \in [Section -> {"pending", "complete", "error"}]
      /\ call' \in [Section -> {"none", "asked", "served"}]
      /\ \A s \in Section : section'[s] = "pending" <=> call'[s] # "none"
  BY DEF Ask, TaskTypes
<1>4. \A s \in Section : \A g \in Rows[s] : section'[s] = "pending" /\ call'[s] = "asked"
  BY OnlyThatSection, OneSectionEach DEF Ask
<1>5. \A s \in Section : Rows[s] \subseteq Guest
  BY ActionsConstants
<1> QED
  BY <1>1, <1>2, <1>3, <1>4, <1>5 DEF TaskTypes

LEMMA RequestStepTypes ==
  ASSUME ActionsTypeOK, NEW r \in Request, RequestStep(r)
  PROVE  ActionsTypeOK'
<1>0. PanelTypes /\ ProxmoxTypes /\ TaskTypes /\ tab \in Tab
  BY TypesSplit
<1>1. request[r] \in Sent
  BY <1>0 DEF RequestStep, Accepted, ActionDone, ActionFailed, PanelTypes
<1>2. CASE Accepted(r)
  <2>1. [request[r] EXCEPT !.phase = "ok"] \in Sent
        /\ [guest |-> request[r].guest, action |-> request[r].action] \in Job
    BY <1>1 DEF Sent, Job
  <2>2. PanelTypes' /\ ProxmoxTypes'
    BY <1>0, <1>2, <2>1 DEF Accepted, PanelTypes, ProxmoxTypes
  <2>3. TaskTypes' /\ tab' \in Tab
    BY <1>0, <1>2 DEF Accepted, TaskTypes, taskVars
  <2> QED
    BY <2>2, <2>3, TypesSplit DEF ActionsTypeOK, PanelTypes, ProxmoxTypes, TaskTypes
<1>3. CASE ActionDone(r)
  <2>1. [request EXCEPT ![r] = None] \in [Request -> Sent \cup {None}]
    BY <1>0 DEF PanelTypes
  <2>2. PanelTypes'
    BY <1>0, <1>3, <2>1, TakeOffTypes DEF ActionDone
  <2>3. TaskTypes'
    BY <1>0, <1>3, AskTypes DEF ActionDone
  <2>4. ProxmoxTypes' /\ tab' \in Tab
    BY <1>0, <1>3 DEF ActionDone, ProxmoxTypes, proxmoxVars
  <2> QED
    BY <2>2, <2>3, <2>4, TypesSplit DEF ActionsTypeOK, PanelTypes, ProxmoxTypes, TaskTypes
<1>4. CASE ActionFailed(r)
  <2>1. PanelTypes'
    BY <1>0, <1>1, <1>4 DEF ActionFailed, Idle, PanelTypes
  <2>2. ProxmoxTypes' /\ TaskTypes' /\ tab' \in Tab
    BY <1>0, <1>4 DEF ActionFailed, ProxmoxTypes, TaskTypes, proxmoxVars, taskVars
  <2> QED
    BY <2>1, <2>2, TypesSplit DEF ActionsTypeOK, PanelTypes, ProxmoxTypes, TaskTypes
<1> QED
  BY <1>2, <1>3, <1>4 DEF RequestStep

LEMMA OutsideTypes ==
  ASSUME ActionsTypeOK, (\E r \in Request : TaskEnds(r)) \/ (\E g \in Guest : Elsewhere(g))
  PROVE  ActionsTypeOK'
<1>0. PanelTypes /\ ProxmoxTypes /\ TaskTypes /\ tab \in Tab
  BY TypesSplit
<1>1. ASSUME NEW r \in Request, TaskEnds(r) PROVE ProxmoxTypes'
  <2>1. task[r] \in Job
    BY <1>0, <1>1 DEF TaskEnds, ProxmoxTypes
  <2>2. task[r].action \in Action
    BY <2>1 DEF Job
  <2>3. Effect(task[r].action) \subseteq Status
    BY <2>2, ActionSet DEF Effect, Status
  <2> QED
    BY <1>0, <1>1, <2>3 DEF TaskEnds, ProxmoxTypes
<1>2. ASSUME NEW g \in Guest, Elsewhere(g) PROVE ProxmoxTypes'
  <2>1. others' \in 0..MaxOthers
    BY <1>0, <1>2, ActionsConstants DEF Elsewhere, ProxmoxTypes
  <2>2. power' \in [Guest -> Status]
    BY <1>0, <1>2 DEF Elsewhere, ProxmoxTypes, Status
  <2> QED
    BY <1>0, <1>2, <2>1, <2>2 DEF Elsewhere, ProxmoxTypes
<1>3. PanelTypes' /\ TaskTypes' /\ tab' \in Tab
  BY <1>0 DEF TaskEnds, Elsewhere, PanelTypes, TaskTypes, panelVars, taskVars
<1> QED
  BY <1>1, <1>2, <1>3, TypesSplit DEF ActionsTypeOK, PanelTypes, ProxmoxTypes, TaskTypes

LEMMA NextTypes == ActionsTypeOK /\ [TabbedNext]_actionVars => ActionsTypeOK'
<1> SUFFICES ASSUME ActionsTypeOK, [TabbedNext]_actionVars PROVE ActionsTypeOK'
  OBVIOUS
<1>1. CASE UNCHANGED actionVars
  BY <1>1 DEF ActionsTypeOK, actionVars, proxmoxVars, taskVars, panelVars
<1> QED
  BY <1>1, PanelStepTypes, SetTabTypes, SectionStepTypes, RequestStepTypes, OutsideTypes DEF TabbedNext, ActionsNext

(* Type correctness of the action panels and the tasks of their page. *)
THEOREM TypeCorrect == TabbedSpec => []ActionsTypeOK
  BY InitTypes, NextTypes, PTL DEF TabbedSpec

-----------------------------------------------------------------------------
(* What the panels show.                                                   *)

(* A panel that is not on the page shows nothing. *)
LEMMA OffIsIdle ==
  ASSUME PanelFitsStatus, NEW g \in Guest, ~Mounted(g)
  PROVE  busy[g] = None /\ confirm[g] = None
  BY DEF PanelFitsStatus

LEMMA InitFits == ActionsInit => PanelFitsStatus
  BY DEF ActionsInit, PanelFitsStatus

LEMMA RunActionFits ==
  ASSUME ActionsTypeOK, PanelFitsStatus, NEW g \in Guest, NEW a \in Offered(seen[g]), NEW r \in Request,
         Mounted(g), RunAction(g, a, r)
  PROVE  PanelFitsStatus'
<1>1. UNCHANGED <<tab, section, seen>>
  BY DEF RunAction, taskVars
<1>2. \A h \in Guest : Mounted(h)' = Mounted(h) /\ Offered(seen[h])' = Offered(seen[h])
  BY <1>1 DEF Mounted, Offered
<1>3. /\ busy' = [busy EXCEPT ![g] = a]
      /\ confirm' = [confirm EXCEPT ![g] = None]
  BY DEF RunAction
<1>4. \A h \in Guest : h # g => busy'[h] = busy[h] /\ confirm'[h] = confirm[h]
  BY <1>3 DEF ActionsTypeOK
<1>5. busy'[g] = a /\ confirm'[g] = None
  BY <1>3 DEF ActionsTypeOK
<1> QED
  BY <1>2, <1>4, <1>5 DEF PanelFitsStatus

LEMMA PanelStepFits == ASSUME ActionsTypeOK, PanelFitsStatus, PanelStep PROVE PanelFitsStatus'
<1>1. PICK g \in Guest : \/ \E r \in Request : (\E a \in Action : Click(g, a, r)) \/ Confirm(g, r)
                         \/ Cancel(g)
  BY DEF PanelStep
<1>2. CASE Cancel(g)
  <2>1. UNCHANGED <<tab, section, seen, busy>> /\ confirm' = [confirm EXCEPT ![g] = None]
    BY <1>2 DEF Cancel, taskVars
  <2>2. \A h \in Guest : confirm'[h] \in {confirm[h], None}
    BY <2>1 DEF ActionsTypeOK
  <2> QED
    BY <2>1, <2>2 DEF PanelFitsStatus, Mounted, Offered
<1>3. ASSUME NEW r \in Request, NEW a \in Action, Click(g, a, r) PROVE PanelFitsStatus'
  <2>1. Mounted(g) /\ a \in Offered(seen[g]) /\ busy[g] = None
    BY <1>3 DEF Click
  <2>2. CASE NeedsConfirm(a)
    <3>1. UNCHANGED <<tab, section, seen, busy>> /\ confirm' = [confirm EXCEPT ![g] = a]
      BY <1>3, <2>2 DEF Click, taskVars
    <3>2. \A h \in Guest : confirm'[h] = IF h = g THEN a ELSE confirm[h]
      BY <3>1 DEF ActionsTypeOK
    <3> QED
      BY <2>1, <3>1, <3>2 DEF PanelFitsStatus, Mounted, Offered
  <2>3. CASE ~NeedsConfirm(a)
    BY <1>3, <2>1, <2>3, RunActionFits DEF Click
  <2> QED
    BY <2>2, <2>3
<1>4. ASSUME NEW r \in Request, Confirm(g, r) PROVE PanelFitsStatus'
  <2>1. Mounted(g) /\ confirm[g] \in Offered(seen[g])
    BY <1>4 DEF Confirm, PanelFitsStatus
  <2> QED
    BY <1>4, <2>1, RunActionFits DEF Confirm
<1> QED
  BY <1>1, <1>2, <1>3, <1>4

LEMMA SetTabFits ==
  ASSUME ActionsTypeOK, PanelFitsStatus, NEW t \in Tab, SetTab(t)
  PROVE  PanelFitsStatus'
<1>1. ASSUME NEW g \in Guest PROVE busy'[g] = None /\ confirm'[g] = None
  <2>1. CASE t # "summary"
    BY <2>1 DEF SetTab, TakeOff
  <2>2. CASE t = "summary"
    <3>1. busy[g] = None /\ confirm[g] = None
      BY <2>2, OffIsIdle DEF SetTab, Mounted
    <3> QED
      BY <3>1 DEF SetTab, TakeOff
  <2> QED
    BY <2>1, <2>2
<1> QED
  BY <1>1 DEF PanelFitsStatus

LEMMA SectionStepFits ==
  ASSUME ActionsTypeOK, PanelFitsStatus, NEW s \in Section, SectionStep(s)
  PROVE  PanelFitsStatus'
<1>1. UNCHANGED <<tab, busy, confirm>>
  BY DEF SectionStep, Served, Arrives, Fails, panelVars
<1>2. section[s] = "pending"
  BY DEF SectionStep, Served, Arrives, Fails, ActionsTypeOK
<1>3. ASSUME NEW g \in Guest, {busy[g], confirm[g]} \ {None} # {}
      PROVE  Mounted(g)' /\ seen'[g] = seen[g]
  <2>1. Mounted(g) /\ SectionOf(g) \in Section /\ SectionOf(g) # s
    BY <1>2, <1>3, OneSectionEach DEF PanelFitsStatus, Mounted
  <2>2. g \notin Rows[s]
    BY <2>1, OnlyThatSection
  <2>3. section'[SectionOf(g)] = section[SectionOf(g)]
    BY <2>1 DEF SectionStep, Served, Arrives, Fails, ActionsTypeOK
  <2>4. seen'[g] = seen[g]
    BY <2>2 DEF SectionStep, Served, Arrives, Fails, Blank
  <2> QED
    BY <1>1, <2>1, <2>3, <2>4 DEF Mounted
<1> QED
  BY <1>1, <1>3 DEF PanelFitsStatus, Offered

LEMMA RequestStepFits ==
  ASSUME ActionsTypeOK, PanelFitsStatus, NEW r \in Request, RequestStep(r)
  PROVE  PanelFitsStatus'
<1>1. CASE Accepted(r)
  BY <1>1 DEF Accepted, taskVars, PanelFitsStatus, Mounted, Offered
<1>2. CASE ActionDone(r)
  <2>1. \A g \in Guest : busy'[g] = None /\ confirm'[g] = None
    BY <1>2, ReloadsAll DEF ActionDone, TakeOff
  <2> QED
    BY <2>1 DEF PanelFitsStatus
<1>3. CASE ActionFailed(r)
  <2>1. UNCHANGED <<tab, section, seen, confirm>>
    BY <1>3 DEF ActionFailed, taskVars
  <2>2. \A g \in Guest : busy'[g] \in {busy[g], None}
    BY <1>3 DEF ActionFailed, Idle, ActionsTypeOK
  <2> QED
    BY <2>1, <2>2 DEF PanelFitsStatus, Mounted, Offered
<1> QED
  BY <1>1, <1>2, <1>3 DEF RequestStep

LEMMA NextFits ==
  ActionsTypeOK /\ PanelFitsStatus /\ [TabbedNext]_actionVars => PanelFitsStatus'
<1> SUFFICES ASSUME ActionsTypeOK, PanelFitsStatus, [TabbedNext]_actionVars PROVE PanelFitsStatus'
  OBVIOUS
<1>1. CASE UNCHANGED <<tab, section, seen, busy, confirm>>
  BY <1>1 DEF PanelFitsStatus, Mounted, Offered
<1>2. ASSUME (\E r \in Request : TaskEnds(r)) \/ (\E g \in Guest : Elsewhere(g)) \/ UNCHANGED actionVars
      PROVE  UNCHANGED <<tab, section, seen, busy, confirm>>
  BY <1>2 DEF TaskEnds, Elsewhere, actionVars, taskVars, panelVars
<1> QED
  BY <1>1, <1>2, PanelStepFits, SetTabFits, SectionStepFits, RequestStepFits DEF TabbedNext, ActionsNext

(* A panel never offers, asks about or sends an action that does not fit   *)
(* the status shown next to it.                                            *)
THEOREM PanelsFit == TabbedSpec => []PanelFitsStatus
  BY InitTypes, NextTypes, InitFits, NextFits, PTL DEF TabbedSpec

-----------------------------------------------------------------------------
(* What the panels remember of their requests.                             *)
LEMMA InitBusy == ActionsInit => BusyTellsTheRequest
  BY DEF ActionsInit, BusyTellsTheRequest, Own

(* Panels that are off have no request any more. *)
LEMMA TakeOffOwn ==
  ASSUME ActionsTypeOK, NEW G \in SUBSET Guest, NEW sent \in [Request -> Sent \cup {None}],
         TakeOff(G, sent), NEW g \in G
  PROVE  busy'[g] = None /\ Own(g)' = {}
<1>1. busy'[g] = None
  BY DEF TakeOff
<1>2. ASSUME NEW r \in Request, request'[r] # None, request'[r].guest = g
      PROVE  request'[r].mounted = FALSE
  <2>1. CASE sent[r] # None /\ sent[r].guest \in G
    <3>1. sent[r] \in Sent
      BY <2>1
    <3>2. request'[r] = [sent[r] EXCEPT !.mounted = FALSE]
      BY <2>1 DEF TakeOff
    <3> QED
      BY <3>1, <3>2 DEF Sent
  <2>2. CASE ~(sent[r] # None /\ sent[r].guest \in G)
    BY <1>2, <2>2 DEF TakeOff
  <2> QED
    BY <2>1, <2>2
<1> QED
  BY <1>1, <1>2 DEF Own

LEMMA RunActionBusy ==
  ASSUME ActionsTypeOK, BusyTellsTheRequest, NEW g \in Guest, NEW a \in Action, NEW r \in Request,
         busy[g] = None, RunAction(g, a, r)
  PROVE  BusyTellsTheRequest'
<1> DEFINE new == [guest |-> g, action |-> a, phase |-> "sent", mounted |-> TRUE]
<1>1. request[r] = None
  <2>1. r \in Free
    BY DEF RunAction
  <2> QED
    BY <2>1 DEF Free
<1>2. new \in Sent /\ new # None
  <2>1. new \in Sent
    BY DEF Sent
  <2> HIDE DEF new
  <2> QED
    BY <2>1, NoneIsNo
<1>3. \A q \in Request : request'[q] = IF q = r THEN new ELSE request[q]
  BY DEF RunAction, ActionsTypeOK
<1>4. \A h \in Guest : busy'[h] = IF h = g THEN a ELSE busy[h]
  BY DEF RunAction, ActionsTypeOK
<1>5. Own(g) = {} /\ Own(g)' = {r} /\ request'[r].action = a
  <2>1. Own(g) = {}
    BY DEF BusyTellsTheRequest
  <2>2. \A q \in Request : q \in Own(g)' <=> q = r
    BY <1>2, <1>3, <2>1 DEF Own
  <2> QED
    BY <1>3, <2>1, <2>2 DEF Own
<1>6. \A h \in Guest : h # g => Own(h)' = Own(h) /\ r \notin Own(h)
  BY <1>1, <1>2, <1>3 DEF Own
<1>7. a # None
  BY NoneIsNo
<1>8. ASSUME NEW h \in Guest, h # g
      PROVE  IF busy'[h] = None THEN Own(h)' = {}
             ELSE \E q \in Request : Own(h)' = {q} /\ request'[q].action = busy'[h]
  <2>1. CASE busy[h] = None
    BY <1>4, <1>6, <1>8, <2>1 DEF BusyTellsTheRequest
  <2>2. CASE busy[h] # None
    <3>1. PICK q \in Request : Own(h) = {q} /\ request[q].action = busy[h]
      BY <2>2 DEF BusyTellsTheRequest
    <3>2. q # r
      BY <1>6, <1>8, <3>1
    <3> QED
      BY <1>3, <1>4, <1>6, <1>8, <2>2, <3>1, <3>2
  <2> QED
    BY <2>1, <2>2
<1> QED
  BY <1>4, <1>5, <1>7, <1>8 DEF BusyTellsTheRequest

LEMMA PanelStepBusy == ASSUME ActionsTypeOK, BusyTellsTheRequest, PanelStep PROVE BusyTellsTheRequest'
<1>1. PICK g \in Guest : \/ \E r \in Request : (\E a \in Action : Click(g, a, r)) \/ Confirm(g, r)
                         \/ Cancel(g)
  BY DEF PanelStep
<1>2. CASE UNCHANGED <<busy, request>>
  BY <1>2 DEF BusyTellsTheRequest, Own
<1>3. CASE Cancel(g)
  BY <1>2, <1>3 DEF Cancel
<1>4. ASSUME NEW r \in Request, NEW a \in Action, Click(g, a, r) PROVE BusyTellsTheRequest'
  <2>1. CASE NeedsConfirm(a)
    BY <1>2, <1>4, <2>1 DEF Click
  <2>2. CASE ~NeedsConfirm(a)
    BY <1>4, <2>2, RunActionBusy DEF Click
  <2> QED
    BY <2>1, <2>2
<1>5. ASSUME NEW r \in Request, Confirm(g, r) PROVE BusyTellsTheRequest'
  <2>1. confirm[g] \in Action
    BY <1>5 DEF Confirm, ActionsTypeOK
  <2> QED
    BY <1>5, <2>1, RunActionBusy DEF Confirm
<1> QED
  BY <1>1, <1>3, <1>4, <1>5

LEMMA SetTabBusy ==
  ASSUME ActionsTypeOK, PanelFitsStatus, BusyTellsTheRequest, NEW t \in Tab, SetTab(t)
  PROVE  BusyTellsTheRequest'
<1>1. request \in [Request -> Sent \cup {None}]
  BY DEF ActionsTypeOK
<1>2. CASE t # "summary"
  <2>1. TakeOff(Guest, request)
    <3>1. {g \in Guest : t # "summary"} = Guest
      BY <1>2
    <3> QED
      BY <3>1 DEF SetTab
  <2>2. \A g \in Guest : busy'[g] = None /\ Own(g)' = {}
    BY <1>1, <2>1, TakeOffOwn
  <2> QED
    BY <2>2 DEF BusyTellsTheRequest
<1>3. CASE t = "summary"
  <2>1. TakeOff({}, request)
    <3>1. {g \in Guest : t # "summary"} = {}
      BY <1>3
    <3> QED
      BY <3>1 DEF SetTab
  <2>2. \A g \in Guest : busy'[g] = busy[g]
    BY <2>1 DEF TakeOff
  <2>3. \A r \in Request : request'[r] = request[r]
    BY <2>1 DEF TakeOff
  <2>4. \A g \in Guest : Own(g)' = Own(g)
    BY <2>3 DEF Own
  <2> QED
    BY <2>2, <2>3, <2>4 DEF BusyTellsTheRequest
<1> QED
  BY <1>2, <1>3

LEMMA RequestStepBusy ==
  ASSUME ActionsTypeOK, BusyTellsTheRequest, NEW r \in Request, RequestStep(r)
  PROVE  BusyTellsTheRequest'
<1>1. CASE Accepted(r)
  <2>1. request[r] \in Sent
    BY <1>1 DEF Accepted, ActionsTypeOK
  <2>2. \A q \in Request : request'[q] = IF q = r THEN [request[r] EXCEPT !.phase = "ok"] ELSE request[q]
    BY <1>1 DEF Accepted, ActionsTypeOK
  <2>3. [request[r] EXCEPT !.phase = "ok"] \in Sent
    BY <2>1 DEF Sent
  <2>4. \A q \in Request : (request'[q] # None) = (request[q] # None)
    BY <1>1, <2>2, <2>3, NoneIsNo DEF Accepted
  <2>5. /\ request'[r].guest = request[r].guest /\ request'[r].action = request[r].action
        /\ request'[r].mounted = request[r].mounted
    BY <2>1, <2>2 DEF Sent
  <2>6. \A g \in Guest : Own(g)' = Own(g)
    BY <2>2, <2>4, <2>5 DEF Own
  <2>7. \A q \in Request : request'[q].action = request[q].action
    BY <2>2, <2>5
  <2>8. UNCHANGED busy
    BY <1>1 DEF Accepted
  <2> QED
    BY <2>6, <2>7, <2>8 DEF BusyTellsTheRequest
<1>2. CASE ActionDone(r)
  <2>1. [request EXCEPT ![r] = None] \in [Request -> Sent \cup {None}]
    BY DEF ActionsTypeOK
  <2>2. TakeOff(Guest, [request EXCEPT ![r] = None])
    BY <1>2, ReloadsAll DEF ActionDone
  <2>3. \A g \in Guest : busy'[g] = None /\ Own(g)' = {}
    BY <2>1, <2>2, TakeOffOwn
  <2> QED
    BY <2>3 DEF BusyTellsTheRequest
<1>3. CASE ActionFailed(r)
  <2>1. request[r] \in Sent /\ request[r] # None
    BY <1>3 DEF ActionFailed, ActionsTypeOK
  <2>2. \A q \in Request : request'[q] = IF q = r THEN None ELSE request[q]
    BY <1>3 DEF ActionFailed, ActionsTypeOK
  <2>3. \A g \in Guest : Own(g)' = Own(g) \ {r}
    BY <2>2 DEF Own
  <2>4. \A g \in Guest : r \in Own(g) <=> request[r].mounted /\ request[r].guest = g
    BY <2>1 DEF Own
  <2>5. ASSUME NEW g \in Guest
        PROVE  busy'[g] = IF request[r].mounted /\ request[r].guest = g THEN None ELSE busy[g]
    <3>1. Idle(r)
      BY <1>3 DEF ActionFailed
    <3>2. CASE request[r].mounted
      BY <3>1, <3>2 DEF Idle, ActionsTypeOK
    <3>3. CASE ~request[r].mounted
      BY <3>1, <3>3 DEF Idle
    <3> QED
      BY <3>2, <3>3
  <2>6. ASSUME NEW g \in Guest
        PROVE  IF busy'[g] = None THEN Own(g)' = {}
               ELSE \E q \in Request : Own(g)' = {q} /\ request'[q].action = busy'[g]
    <3>1. CASE r \in Own(g)
      <4>1. Own(g) = {r}
        BY <3>1 DEF BusyTellsTheRequest
      <4>2. busy'[g] = None
        BY <2>4, <2>5, <3>1
      <4> QED
        BY <2>3, <4>1, <4>2
    <3>2. CASE r \notin Own(g)
      <4>1. busy'[g] = busy[g] /\ Own(g)' = Own(g)
        BY <2>3, <2>4, <2>5, <3>2
      <4>2. CASE busy[g] = None
        BY <4>1, <4>2 DEF BusyTellsTheRequest
      <4>3. CASE busy[g] # None
        <5>1. PICK q \in Request : Own(g) = {q} /\ request[q].action = busy[g]
          BY <4>3 DEF BusyTellsTheRequest
        <5> QED
          BY <2>2, <3>2, <4>1, <4>3, <5>1
      <4> QED
        BY <4>2, <4>3
    <3> QED
      BY <3>1, <3>2
  <2> QED
    BY <2>6 DEF BusyTellsTheRequest
<1> QED
  BY <1>1, <1>2, <1>3 DEF RequestStep

LEMMA NextBusy ==
  ActionsTypeOK /\ PanelFitsStatus /\ BusyTellsTheRequest /\ [TabbedNext]_actionVars => BusyTellsTheRequest'
<1> SUFFICES ASSUME ActionsTypeOK, PanelFitsStatus, BusyTellsTheRequest, [TabbedNext]_actionVars
             PROVE  BusyTellsTheRequest'
  OBVIOUS
<1>1. CASE UNCHANGED <<busy, request>>
  BY <1>1 DEF BusyTellsTheRequest, Own
<1>2. ASSUME \/ \E s \in Section : SectionStep(s)
             \/ \E r \in Request : TaskEnds(r)
             \/ \E g \in Guest : Elsewhere(g)
             \/ UNCHANGED actionVars
      PROVE  UNCHANGED <<busy, request>>
  BY <1>2 DEF SectionStep, Served, Arrives, Fails, TaskEnds, Elsewhere, actionVars, panelVars
<1> QED
  BY <1>1, <1>2, PanelStepBusy, SetTabBusy, RequestStepBusy DEF TabbedNext, ActionsNext

(* A panel spins on the one action it has sent, as long as it has; the     *)
(* invariant is inductive together with the types and PanelFitsStatus,     *)
(* which says that a panel that comes back on the page starts from nothing.*)
THEOREM SpinnersTell == TabbedSpec => []BusyTellsTheRequest
  BY InitTypes, NextTypes, InitFits, NextFits, InitBusy, NextBusy, PTL DEF TabbedSpec

-----------------------------------------------------------------------------
(* What may take a confirmation away, in one step.                         *)
Kept == \A g \in Guest : confirm[g] # None /\ confirm'[g] = None =>
          \/ Cancel(g) \/ busy'[g] = confirm[g]
          \/ tab' # tab
          \/ \E r \in Request : request[r] # None /\ request[r].phase = "ok" /\ request'[r] = None

LEMMA PanelStepKeeps ==
  ASSUME ActionsTypeOK, PanelStep
  PROVE  Kept
<1>0. confirm \in [Guest -> Action \cup {None}] /\ busy \in [Guest -> Action \cup {None}]
  BY DEF ActionsTypeOK
<1>1. ASSUME NEW g \in Guest, NEW a \in Action, NEW r \in Request, Click(g, a, r)
      PROVE  Kept
  <2>1. confirm[g] = None /\ \A h \in Guest \ {g} : confirm'[h] = confirm[h]
    BY <1>0, <1>1 DEF Click, RunAction
  <2> QED
    BY <2>1 DEF Kept
<1>2. ASSUME NEW g \in Guest, NEW r \in Request, Confirm(g, r)
      PROVE  Kept
  <2>1. busy'[g] = confirm[g] /\ \A h \in Guest \ {g} : confirm'[h] = confirm[h]
    BY <1>0, <1>2 DEF Confirm, RunAction
  <2> QED
    BY <2>1 DEF Kept
<1>3. ASSUME NEW g \in Guest, Cancel(g)
      PROVE  Kept
  <2>1. \A h \in Guest \ {g} : confirm'[h] = confirm[h]
    BY <1>0, <1>3 DEF Cancel
  <2> QED
    BY <1>3, <2>1 DEF Kept
<1> QED
  BY <1>1, <1>2, <1>3 DEF PanelStep

LEMMA ActionDoneKeeps ==
  ASSUME ActionsTypeOK, NEW r \in Request, ActionDone(r)
  PROVE  Kept
<1> DEFINE sent == [request EXCEPT ![r] = None]
<1>1. sent[r] = None
  BY DEF ActionsTypeOK
<1>2. /\ request[r] # None /\ request[r].phase = "ok"
      /\ request' = [q \in Request |-> IF sent[q] # None /\ sent[q].guest \in UNION {Rows[s] : s \in Reloads}
                                       THEN [sent[q] EXCEPT !.mounted = FALSE] ELSE sent[q]]
  BY DEF ActionDone, TakeOff
<1> HIDE DEF sent
<1>3. request'[r] = None
  BY <1>1, <1>2
<1> QED
  BY <1>2, <1>3 DEF Kept

LEMMA NextKeeps == ActionsTypeOK /\ [TabbedNext]_actionVars => Kept
<1> SUFFICES ASSUME ActionsTypeOK, [TabbedNext]_actionVars
             PROVE  Kept
  OBVIOUS
<1>1. CASE UNCHANGED confirm
  BY <1>1 DEF Kept
<1>2. CASE \E t \in Tab : SetTab(t)
  BY <1>2 DEF SetTab, Kept
<1>3. CASE PanelStep \/ \E r \in Request : ActionDone(r)
  BY <1>3, PanelStepKeeps, ActionDoneKeeps
<1>4. CASE \E s \in Section : SectionStep(s)
  BY <1>1, <1>4 DEF SectionStep, Served, Arrives, Fails, panelVars
<1>5. CASE \E r \in Request : Accepted(r) \/ ActionFailed(r) \/ TaskEnds(r)
  BY <1>1, <1>5 DEF Accepted, ActionFailed, TaskEnds, panelVars
<1>6. CASE (\E g \in Guest : Elsewhere(g)) \/ UNCHANGED actionVars
  BY <1>1, <1>6 DEF Elsewhere, panelVars, actionVars
<1> QED
  BY <1>2, <1>3, <1>4, <1>5, <1>6 DEF TabbedNext, ActionsNext, RequestStep

(* Nothing but its user, an action that comes back and a change of tabs    *)
(* takes an open confirmation away: no answer to a fetch, no failure and   *)
(* nothing that is done elsewhere.                                         *)
THEOREM ConfirmationsKept == TabbedSpec => ConfirmationKept
<1>1. ActionsTypeOK /\ [TabbedNext]_actionVars => [Kept]_actionVars
  BY NextKeeps
<1> QED
  BY <1>1, TypeCorrect, PTL DEF TabbedSpec, ConfirmationKept, Kept
=============================================================================
