---------------------------- MODULE GuestActions ----------------------------
(***************************************************************************)
(* Guest action panels on a page: pxa-action-panel inside the sections     *)
(* of node-detail-view (lists of guests) and inside the summary tab of     *)
(* vm-detail-view and lxc-detail-view (one guest).  Each section is the    *)
(* content of one @lit/task: while its call is pending the content is      *)
(* taken off the page, and what a panel held is lost; what the panel has   *)
(* sent goes on without it, and still tells the view.  Proxmox answers an  *)
(* action when it has accepted it; the task it starts ends later.          *)
(***************************************************************************)
EXTENDS Naturals, FiniteSets

CONSTANTS Guest,        \* the guests of the page
          Section,      \* the tasks of the view
          Rows,         \* the guests each section shows
          Reloads,      \* the sections whose task depends on the reload counter
          Tab,          \* the tabs of the view, if it has any
          Request,      \* action requests (a bound)
          MaxOthers,    \* changes of a guest by someone else (a bound)
          None

ASSUME ActionsConstants == /\ Rows \in [Section -> SUBSET Guest]
                           /\ \A s, t \in Section : s # t => Rows[s] \cap Rows[t] = {}
                           /\ Reloads \subseteq Section
                           /\ UNION {Rows[s] : s \in Reloads} = Guest
                           /\ "summary" \in Tab
                           /\ MaxOthers \in Nat

VARIABLES power,        \* the status of each guest at Proxmox
          task,         \* what Proxmox still has to do for a request it accepted
          others,       \* how often someone else has changed a guest
          tab,          \* _tab
          section,      \* TaskStatus of each section
          call,         \* how far the latest call of a section is
          fetched,      \* the status of each guest in the answer to that call
          seen,         \* the status that is shown
          busy,         \* ActionPanel._busy of the panel on the page
          confirm,      \* ActionPanel._confirm of it
          request       \* the requests of _runAction that are under way

proxmoxVars == <<power, task, others>>
taskVars    == <<section, call, fetched, seen>>
panelVars   == <<busy, confirm, request>>
actionVars  == <<proxmoxVars, tab, taskVars, panelVars>>

Status == {"stopped", "running", "paused", "suspended"}

(* ACTIONS: the statuses each action is offered for. *)
When == [start    |-> {"stopped"},
         stop     |-> {"running", "paused", "suspended"},
         shutdown |-> {"running"},
         reboot   |-> {"running"},
         suspend  |-> {"running"},
         resume   |-> {"paused", "suspended"},
         reset    |-> {"running"}]

Action == DOMAIN When
Offered(s) == {a \in Action : s \in When[a]}
NeedsConfirm(a) == a \in {"stop", "reset"}

(* What a task may do at Proxmox. *)
Effect(a) == CASE a \in {"stop", "shutdown"} -> {"stopped"}
               [] a \in {"start", "reboot", "reset", "resume"} -> {"running"}
               [] a = "suspend" -> {"paused", "suspended"}

SectionOf(g) == CHOOSE s \in Section : g \in Rows[s]

Job == [guest : Guest, action : Action]
Sent == [guest : Guest, action : Action, phase : {"sent", "ok"}, mounted : BOOLEAN]

ASSUME NoneIsNothing == None \notin Status \cup Action \cup Job \cup Sent

ActionsTypeOK ==
  /\ power \in [Guest -> Status]
  /\ fetched \in [Guest -> Status \cup {None}]
  /\ seen \in [Guest -> Status \cup {None}]
  /\ task \in [Request -> Job \cup {None}]
  /\ others \in 0..MaxOthers
  /\ tab \in Tab
  /\ section \in [Section -> {"pending", "complete", "error"}]
  /\ call \in [Section -> {"none", "asked", "served"}]
  /\ \A s \in Section : section[s] = "pending" <=> call[s] # "none"
  /\ \A s \in Section : \A g \in Rows[s] :
       /\ fetched[g] # None <=> call[s] = "served"
       /\ seen[g] # None <=> section[s] = "complete"
  /\ busy \in [Guest -> Action \cup {None}]
  /\ confirm \in [Guest -> Action \cup {None}]
  /\ request \in [Request -> Sent \cup {None}]

(* The page has just been opened: every task has its first call under way. *)
ActionsInit == /\ power \in [Guest -> {"stopped", "running"}]
               /\ task = [r \in Request |-> None]
               /\ others = 0
               /\ tab = "summary"
               /\ section = [s \in Section |-> "pending"]
               /\ call = [s \in Section |-> "asked"]
               /\ fetched = [g \in Guest |-> None]
               /\ seen = [g \in Guest |-> None]
               /\ busy = [g \in Guest |-> None]
               /\ confirm = [g \in Guest |-> None]
               /\ request = [r \in Request |-> None]

-----------------------------------------------------------------------------
(* The panel of a guest is on the page. *)
Mounted(g) == tab = "summary" /\ section[SectionOf(g)] = "complete"

(* A mutant caches the content that is taken off. *)
TakeOffCached(G, sent) ==
  /\ UNCHANGED <<busy, confirm>>
  /\ request' = sent

(* The panels of G, after which request is as given, leave the page: their *)
(* state is gone, and their requests are nobody's.                         *)
TakeOff(G, sent) ==
  /\ busy' = [g \in Guest |-> IF g \in G THEN None ELSE busy[g]]
  /\ confirm' = [g \in Guest |-> IF g \in G THEN None ELSE confirm[g]]
  /\ request' = [r \in Request |-> IF sent[r] # None /\ sent[r].guest \in G
                                   THEN [sent[r] EXCEPT !.mounted = FALSE] ELSE sent[r]]

(* Nothing is known, and nothing shown, of the guests G.  A mutant goes on *)
(* showing what it has.                                                    *)
KeepSeen(G) == UNCHANGED <<fetched, seen>>

Blank(G) == /\ fetched' = [g \in Guest |-> IF g \in G THEN None ELSE fetched[g]]
            /\ seen' = [g \in Guest |-> IF g \in G THEN None ELSE seen[g]]

(* What a task depends on has changed: it is run again, the answer to the  *)
(* call before will be dropped, and its content makes room for "Loading".  *)
Ask(S) == /\ section' = [s \in Section |-> IF s \in S THEN "pending" ELSE section[s]]
          /\ call' = [s \in Section |-> IF s \in S THEN "asked" ELSE call[s]]
          /\ Blank(UNION {Rows[s] : s \in S})

Free == {r \in Request : request[r] = None /\ task[r] = None}

RunAction(g, a, r) ==
  /\ r \in Free
  /\ request' = [request EXCEPT ![r] = [guest |-> g, action |-> a, phase |-> "sent", mounted |-> TRUE]]
  /\ confirm' = [confirm EXCEPT ![g] = None]
  /\ busy' = [busy EXCEPT ![g] = a]
  /\ UNCHANGED <<proxmoxVars, tab, taskVars>>

(* A button of the panel; the buttons are disabled while it is busy. *)
Click(g, a, r) ==
  /\ Mounted(g) /\ busy[g] = None /\ confirm[g] = None
  /\ a \in Offered(seen[g])
  /\ IF NeedsConfirm(a)
     THEN /\ confirm' = [confirm EXCEPT ![g] = a]
          /\ UNCHANGED <<proxmoxVars, tab, taskVars, busy, request>>
     ELSE RunAction(g, a, r)

(* "Yes", and "Cancel", of the confirm strip. *)
Confirm(g, r) == /\ Mounted(g) /\ busy[g] = None /\ confirm[g] # None
                 /\ RunAction(g, confirm[g], r)

Cancel(g) == /\ Mounted(g) /\ confirm[g] # None
             /\ confirm' = [confirm EXCEPT ![g] = None]
             /\ UNCHANGED <<proxmoxVars, tab, taskVars, busy, request>>

SetTab(t) == /\ t \in Tab \ {tab}
             /\ \E s \in Section : section[s] = "complete" /\ Rows[s] # {}
             /\ tab' = t
             /\ TakeOff({g \in Guest : t # "summary"}, request)
             /\ UNCHANGED <<proxmoxVars, taskVars>>

(* The answer to a call is what Proxmox says at some moment of the call.   *)
Served(s) == /\ call[s] = "asked"
             /\ call' = [call EXCEPT ![s] = "served"]
             /\ fetched' = [g \in Guest |-> IF g \in Rows[s] THEN power[g] ELSE fetched[g]]
             /\ UNCHANGED <<proxmoxVars, tab, section, seen, panelVars>>

(* The latest call of a task comes back, and its content is rendered; or   *)
(* it fails, on its way or at Proxmox, which takes nothing else off.  A    *)
(* mutant takes every section off.                                         *)
Arrives(s) == /\ call[s] = "served"
              /\ call' = [call EXCEPT ![s] = "none"]
              /\ section' = [section EXCEPT ![s] = "complete"]
              /\ seen' = [g \in Guest |-> IF g \in Rows[s] THEN fetched[g] ELSE seen[g]]
              /\ fetched' = [g \in Guest |-> IF g \in Rows[s] THEN None ELSE fetched[g]]
              /\ UNCHANGED <<proxmoxVars, tab, panelVars>>

FailsAll(s) == /\ call[s] # "none"
               /\ call' = [call EXCEPT ![s] = "none"]
               /\ section' = [section EXCEPT ![s] = "error"]
               /\ Blank(Rows[s])
               /\ TakeOff(Guest, request)
               /\ UNCHANGED <<proxmoxVars, tab>>

Fails(s) == /\ call[s] # "none"
            /\ call' = [call EXCEPT ![s] = "none"]
            /\ section' = [section EXCEPT ![s] = "error"]
            /\ Blank(Rows[s])
            /\ UNCHANGED <<proxmoxVars, tab, panelVars>>

(* The BFF hands an action to Proxmox, which starts a task and answers     *)
(* with its UPID.                                                          *)
Accepted(r) ==
  /\ request[r] # None /\ request[r].phase = "sent"
  /\ request' = [request EXCEPT ![r].phase = "ok"]
  /\ task' = [task EXCEPT ![r] = [guest |-> request[r].guest, action |-> request[r].action]]
  /\ UNCHANGED <<power, others, tab, taskVars, busy, confirm>>

(* finally of _runAction, in the panel that sent r.  A mutant does it  *)
(* in the panel that is on the page.                                       *)
IdleOnPage(r) == busy' = [busy EXCEPT ![request[r].guest] = None]

Idle(r) == busy' = IF request[r].mounted THEN [busy EXCEPT ![request[r].guest] = None] ELSE busy

(* "action-done" reaches _onActionDone, from a panel that has been taken   *)
(* off as well: the sections that depend on the counter are fetched again. *)
ActionDone(r) ==
  LET off  == UNION {Rows[s] : s \in Reloads}
      sent == [request EXCEPT ![r] = None]
  IN  /\ request[r] # None /\ request[r].phase = "ok"
      /\ TakeOff(off, sent)
      /\ Ask(Reloads)
      /\ UNCHANGED <<proxmoxVars, tab>>

(* The request fails, on its way or at Proxmox. *)
ActionFailed(r) == /\ request[r] # None /\ request[r].phase = "sent"
                   /\ request' = [request EXCEPT ![r] = None]
                   /\ Idle(r)
                   /\ UNCHANGED <<proxmoxVars, tab, taskVars, confirm>>

(* A task ends, with its effect or without. *)
TaskEnds(r) == /\ task[r] # None
               /\ \/ \E e \in Effect(task[r].action) : power' = [power EXCEPT ![task[r].guest] = e]
                  \/ UNCHANGED power
               /\ task' = [task EXCEPT ![r] = None]
               /\ UNCHANGED <<others, tab, taskVars, panelVars>>

(* Someone else starts or stops a guest. *)
Elsewhere(g) == /\ others < MaxOthers
                /\ others' = others + 1
                /\ power' = [power EXCEPT ![g] = IF @ = "stopped" THEN "running" ELSE "stopped"]
                /\ UNCHANGED <<task, tab, taskVars, panelVars>>

PanelStep == \E g \in Guest : \/ \E r \in Request : (\E a \in Action : Click(g, a, r)) \/ Confirm(g, r)
                              \/ Cancel(g)
SectionStep(s) == Served(s) \/ Arrives(s) \/ Fails(s)
RequestStep(r) == Accepted(r) \/ ActionDone(r) \/ ActionFailed(r)

(* A page without tabs, and one with them. *)
ActionsNext == \/ PanelStep
               \/ \E s \in Section : SectionStep(s)
               \/ \E r \in Request : RequestStep(r) \/ TaskEnds(r)
               \/ \E g \in Guest : Elsewhere(g)

TabbedNext == ActionsNext \/ \E t \in Tab : SetTab(t)

ActionsSpec == ActionsInit /\ [][ActionsNext]_actionVars
TabbedSpec == ActionsInit /\ [][TabbedNext]_actionVars

-----------------------------------------------------------------------------
(* Whatever a panel is about to do, or doing, is something the status next *)
(* to it offers: the status does not change under an open confirmation or  *)
(* a request, because the panel goes when the status is fetched again.     *)
PanelFitsStatus ==
  \A g \in Guest : {busy[g], confirm[g]} \ {None} # {} =>
    Mounted(g) /\ {busy[g], confirm[g]} \ {None} \subseteq Offered(seen[g])

Own(g) == {r \in Request : request[r] # None /\ request[r].mounted /\ request[r].guest = g}

(* A panel shows a spinner on the very action it has sent, while it has,   *)
(* and has sent no other: the buttons keep a second one back.  (A request  *)
(* of a panel that was taken off is no longer known to the page.)          *)
BusyTellsTheRequest ==
  \A g \in Guest : IF busy[g] = None
                    THEN Own(g) = {}
                    ELSE \E r \in Request : Own(g) = {r} /\ request[r].action = busy[g]

(* A confirmation that is open is dropped by its user, or by an action     *)
(* that has come back on the same page; nothing else takes it away.        *)
ConfirmationKept ==
  [][\A g \in Guest : confirm[g] # None /\ confirm'[g] = None =>
       \/ Cancel(g) \/ busy'[g] = confirm[g]
       \/ tab' # tab
       \/ \E r \in Request : request[r] # None /\ request[r].phase = "ok" /\ request'[r] = None]_actionVars
=============================================================================
