---------------------------- MODULE WebAppProofs ----------------------------
(***************************************************************************)
(* Theorems about WebApp: its pages use the session store as AuthSessions  *)
(* says, so that what is proved there holds here, and a view shows what    *)
(* its route asks for.                                                     *)
(***************************************************************************)
EXTENDS WebApp, AuthSessionsProofs

PageTypes == /\ page \in [Page -> PageState]
             /\ view \in [Page -> ViewState]
             /\ boot \in [Page -> Id \cup {"none", "refused"}]

(* What a page shows, and waits for, belongs to its route.                 *)
OfRoute == \A p \in Page :
  /\ view[p].status = "complete" => view[p].key = Shown(page[p]) /\ Shown(page[p]) # "login"
  /\ call[p] # None => call[p].key = Shown(page[p]) /\ Shown(page[p]) # "login"

WInv == Inv /\ PageTypes /\ OfRoute

LEMMA ViewTypes == /\ NoView \in ViewState /\ Pending \in ViewState /\ Error \in ViewState
                   /\ NoView.status = "none" /\ Pending.status = "pending" /\ Error.status = "error"
  BY DEF NoView, Pending, Error, ViewState

LEMMA ShownPaths ==
  ASSUME NEW s \in PageState
  PROVE  Shown(s) \in Path /\ (Shown(s) # "login" => Shown(s) \in Key /\ Shown(s) = s.route /\ s.at = "ready")
  BY WebConstants DEF Shown, Path, PageState

(* The page becomes something else: its call is kept, dropped or made anew *)
(* for what it shows then.                                                 *)
LEMMA BecomesFollows ==
  ASSUME WInv, NEW p \in Page, NEW new \in PageState, Becomes(p, new)
  PROVE  /\ Follow(p)
         /\ page' \in [Page -> PageState] /\ view' \in [Page -> ViewState]
         /\ OfRoute'
<1> USE DEF WInv, PageTypes
<1>0. /\ page' = [page EXCEPT ![p] = new] /\ page' \in [Page -> PageState]
      /\ page[p] \in PageState
  BY DEF Becomes
<1>1. CASE SameView(page[p], new)
  <2>1. UNCHANGED <<view, call>> /\ Shown(page[p]) = Shown(new)
    BY <1>1 DEF Becomes, SameView
  <2>2. \A q \in Page : Shown(page'[q]) = Shown(page[q])
    BY <1>0, <2>1
  <2> QED
    BY <1>0, <2>1, <2>2 DEF OfRoute, Follow
<1>2. CASE ~SameView(page[p], new) /\ Shown(new) = "login"
  <2>1. view' = [view EXCEPT ![p] = NoView] /\ call' = [call EXCEPT ![p] = None]
    BY <1>2 DEF Becomes
  <2> QED
    BY <1>0, <2>1, ViewTypes DEF OfRoute, Follow, Inv, AuthTypeOK
<1>3. CASE ~SameView(page[p], new) /\ Shown(new) # "login"
  <2>1. view' = [view EXCEPT ![p] = Pending] /\ call' = [call EXCEPT ![p] = NewCall(Shown(new), cookie')]
    BY <1>3 DEF Becomes
  <2>2. Shown(new) \in Key
    BY <1>3, ShownPaths
  <2>3. NewCall(Shown(new), cookie').key = Shown(new)
    BY DEF NewCall
  <2>4. Follow(p)
    BY <2>1, <2>2 DEF Follow
  <2>5. OfRoute'
    BY <1>0, <1>3, <2>1, <2>3, ViewTypes DEF OfRoute, Inv, AuthTypeOK
  <2> QED
    BY <1>0, <2>1, <2>4, <2>5, ViewTypes
<1> QED
  BY <1>1, <1>2, <1>3

Step == AuthNext \/ UNCHANGED authVars

(* A page becomes something else in a step of its own.                     *)
LEMMA PageBecomes ==
  ASSUME WInv, NEW p \in Page,
         BootSucceeds(p) \/ BootFails(p) \/ (\E r \in Path : Entered(p, r)) \/ SignIn(p)
  PROVE  Step /\ PageTypes' /\ OfRoute'
<1> USE DEF WInv, PageTypes
<1>0. page[p] \in PageState /\ AuthTypeOK
  BY DEF Inv, AuthTypeOK
<1>1. CASE BootSucceeds(p)
  <2> DEFINE new == [page[p] EXCEPT !.at = "ready", !.session = boot[p], !.worker = TRUE]
  <2>1. new \in PageState
    BY <1>0, <1>1 DEF BootSucceeds, PageState
  <2>2. Becomes(p, new) /\ Booted(p)
    BY <1>1 DEF BootSucceeds
  <2> HIDE DEF new
  <2>3. boot' \in [Page -> Id \cup {"none", "refused"}]
    BY <2>2 DEF Booted
  <2> QED
    BY <2>1, <2>2, <2>3, BecomesFollows DEF Booted, Step, AuthNext, CallStep
<1>2. CASE BootFails(p)
  <2> DEFINE new == [page[p] EXCEPT !.at = "ready",
                       !.intended = IF page[p].address = "login" THEN @ ELSE page[p].address]
  <2>1. new \in PageState
    BY <1>0 DEF PageState
  <2>2. Becomes(p, new) /\ Booted(p)
    BY <1>2 DEF BootFails
  <2> HIDE DEF new
  <2>3. boot' \in [Page -> Id \cup {"none", "refused"}]
    BY <2>2 DEF Booted
  <2> QED
    BY <2>1, <2>2, <2>3, BecomesFollows DEF Booted, Step, AuthNext, CallStep
<1>3. ASSUME NEW r \in Path, Entered(p, r) PROVE Step /\ PageTypes' /\ OfRoute'
  <2> DEFINE new == [page[p] EXCEPT !.route = r]
  <2>1. new \in PageState
    BY <1>0 DEF PageState
  <2>2. Becomes(p, new) /\ UNCHANGED <<bffVars, cookie, login, logout, boot>>
    BY <1>3 DEF Entered
  <2> HIDE DEF new
  <2> QED
    BY <2>1, <2>2, BecomesFollows DEF Step, AuthNext, CallStep
<1>4. CASE SignIn(p)
  <2> DEFINE to == IF page[p].intended = None THEN Home ELSE page[p].intended
             new == [page[p] EXCEPT !.session = login[p].id, !.intended = None]
  <2>1. new \in PageState
    BY <1>0, <1>4 DEF SignIn, LoginArrives, PageState, Inv, AuthTypeOK, Login
  <2>2. Becomes(p, new) /\ LoginArrives(p) /\ UNCHANGED boot
    BY <1>4 DEF SignIn
  <2> HIDE DEF new
  <2> QED
    BY <2>1, <2>2, BecomesFollows DEF Step, AuthNext, LoginStep
<1> QED
  BY <1>1, <1>2, <1>3, <1>4

(* The page that has asked for a logout.                                   *)
LEMMA LogoutsPage ==
  ASSUME AuthTypeOK, NEW q \in Quit, logout[q] # None
  PROVE  logout[q] \in Logout /\ logout[q].page \in Page /\ logout[q].id \in Id \cup {None}
  BY DEF AuthTypeOK, Logout

LeftBehind(s) == [s EXCEPT !.session = None, !.worker = FALSE]

LEMMA QuitBecomes ==
  ASSUME WInv, NEW q \in Quit, SignOut(q) \/ SignOutUnheard(q)
  PROVE  /\ logout[q] # None /\ logout[q].page \in Page
         /\ Becomes(logout[q].page, LeftBehind(page[logout[q].page]))
         /\ LeftBehind(page[logout[q].page]) \in PageState
         /\ Step /\ PageTypes' /\ OfRoute'
<1> USE DEF WInv
<1>1. logout[q] # None /\ AuthTypeOK
  BY DEF SignOut, SignOutUnheard, LogoutArrives, LogoutFails, Inv
<1> DEFINE p == logout[q].page
<1>2. p \in Page
  BY <1>1, LogoutsPage
<1>3. LeftBehind(page[p]) \in PageState
  <2>1. page[p] \in PageState
    BY <1>2 DEF PageTypes
  <2> QED
    BY <2>1 DEF PageState, LeftBehind
<1>4. Becomes(p, LeftBehind(page[p])) /\ (LogoutArrives(q) \/ LogoutFails(q)) /\ UNCHANGED boot
  BY DEF SignOut, SignOutUnheard, SignedOut, LeftBehind
<1>5. Follow(p) /\ PageTypes' /\ OfRoute'
  BY <1>2, <1>3, <1>4, BecomesFollows DEF PageTypes
<1>6. LogoutStep(q)
  BY <1>4, <1>5 DEF LogoutStep
<1> QED
  BY <1>1, <1>2, <1>3, <1>4, <1>5, <1>6 DEF Step, AuthNext

(* The pages' steps that leave the view to itself.                         *)
LEMMA KeysKept ==
  ASSUME WInv, UNCHANGED view, \A q \in Page : Shown(page[q])' = Shown(page[q]),
         \A q \in Page : call'[q] # None => call[q] # None /\ call'[q].key = call[q].key
  PROVE  OfRoute'
  BY DEF WInv, OfRoute

LEMMA PageWaits ==
  ASSUME WInv, NEW p \in Page,
         \/ \E r \in Address[p] : Open(p, r)
         \/ \E r \in View : Navigate(p, r)
         \/ \E o \in Offer[p] : SubmitForm(p, o)
         \/ FormFails(p)
         \/ \E q \in Quit : ClickLogout(p, q)
         \/ \E k \in LiveView : LiveArrives(p, k)
  PROVE  Step /\ PageTypes' /\ OfRoute'
<1>1. ASSUME NEW r \in Address[p], Open(p, r) PROVE Step /\ PageTypes' /\ OfRoute'
  <2>1. r \in Path
    BY WebConstants DEF Path
  <2>2. page[p] \in PageState /\ page[p].at = "closed" /\ cookie \in Id \cup {None}
    BY <1>1 DEF WInv, PageTypes, Open, Inv, AuthTypeOK
  <2> DEFINE new == [page[p] EXCEPT !.at = "boot", !.address = r]
  <2>3. new \in PageState /\ Shown(new) = "login" /\ Shown(page[p]) = "login"
    BY <2>1, <2>2 DEF PageState, Shown
  <2>4. page' = [page EXCEPT ![p] = new]
    BY <1>1, <2>2 DEF Open, WInv, PageTypes
  <2> HIDE DEF new
  <2>5. \A q \in Page : Shown(page[q])' = Shown(page[q])
    BY <2>3, <2>4 DEF WInv, PageTypes
  <2>6. OfRoute'
    BY <1>1, <2>5, KeysKept DEF Open, browserVars
  <2>7. boot' \in [Page -> Id \cup {"none", "refused"}]
    BY <1>1, <2>2 DEF Open, WInv, PageTypes, Valid, Held
  <2>8. PageTypes'
    BY <1>1, <2>3, <2>4, <2>7 DEF Open, WInv, PageTypes
  <2>9. CASE cookie \in Id
    BY <1>1, <2>6, <2>8, <2>9 DEF Open, Step, AuthNext, AskSession
  <2>10. CASE cookie = None
    BY <1>1, <2>6, <2>8, <2>10 DEF Open, Step, authVars, bffVars, Swept, Held
  <2> QED
    BY <2>2, <2>9, <2>10
<1>2. ASSUME NEW r \in View, Navigate(p, r) PROVE Step /\ PageTypes' /\ OfRoute'
  BY <1>2, KeysKept DEF Navigate, Step, WInv, PageTypes, authVars, browserVars
<1>3. ASSUME NEW o \in Offer[p], SubmitForm(p, o) PROVE Step /\ PageTypes' /\ OfRoute'
  <2>1. Submit(p, o) /\ Follow(p)
    BY <1>3 DEF SubmitForm, Follow
  <2>2. Step
    BY <2>1 DEF Step, AuthNext, LoginStep
  <2> QED
    BY <1>3, <2>2, KeysKept DEF SubmitForm, WInv, PageTypes
<1>4. CASE FormFails(p)
  <2>1. Step
    BY <1>4 DEF Step, AuthNext, LoginStep, FormFails, Follow
  <2> QED
    BY <1>4, <2>1, KeysKept DEF FormFails, WInv, PageTypes, webVars
<1>5. ASSUME NEW q \in Quit, ClickLogout(p, q) PROVE Step /\ PageTypes' /\ OfRoute'
  <2>1. AskLogout(p, q) /\ Follow(p)
    BY <1>5 DEF ClickLogout, Follow
  <2>2. Step
    BY <2>1 DEF Step, AuthNext, LogoutStep
  <2> QED
    BY <1>5, <2>2, KeysKept DEF ClickLogout, WInv, PageTypes
<1>6. ASSUME NEW k \in LiveView, LiveArrives(p, k) PROVE Step /\ PageTypes' /\ OfRoute'
  <2> DEFINE new == [page[p] EXCEPT !.live = @ \cup {k}]
  <2>1. page' = [page EXCEPT ![p] = new] /\ UNCHANGED <<authVars, view, boot>>
    BY <1>6 DEF LiveArrives, WInv, PageTypes
  <2>2. new \in PageState /\ Shown(new) = Shown(page[p])
    BY DEF WInv, PageTypes, PageState, Shown
  <2> HIDE DEF new
  <2>3. \A q \in Page : Shown(page[q])' = Shown(page[q])
    BY <2>1, <2>2 DEF WInv, PageTypes
  <2>4. OfRoute'
    BY <2>1, <2>3, KeysKept DEF authVars, browserVars
  <2> QED
    BY <2>1, <2>2, <2>4 DEF Step, WInv, PageTypes
<1> QED
  BY <1>1, <1>2, <1>3, <1>4, <1>5, <1>6

(* Answers, and what happens at the BFF.                                   *)
LEMMA PageHears ==
  ASSUME WInv, NEW p \in Page, Renders(p) \/ ShowsError(p)
  PROVE  Step /\ PageTypes' /\ OfRoute'
<1>1. CASE Renders(p)
  <2> DEFINE new == [status |-> "complete", key |-> call[p].key, id |-> call[p].id]
  <2>1. call[p] \in Call /\ call[p].key = Shown(page[p]) /\ Shown(page[p]) # "login"
    BY <1>1 DEF Renders, CallArrives, WInv, OfRoute, Inv, AuthTypeOK
  <2>2. new \in ViewState /\ new.key = Shown(page[p])
    BY <2>1 DEF ViewState, Call
  <2>3. view' = [view EXCEPT ![p] = new] /\ call' = [call EXCEPT ![p] = None] /\ UNCHANGED <<page, boot>>
    BY <1>1 DEF Renders, CallArrives
  <2> HIDE DEF new
  <2>4. OfRoute'
    BY <2>1, <2>2, <2>3 DEF WInv, PageTypes, OfRoute, Inv, AuthTypeOK
  <2>5. Step
    BY <1>1 DEF Renders, Step, AuthNext, CallStep
  <2> QED
    BY <2>2, <2>3, <2>4, <2>5 DEF WInv, PageTypes
<1>2. CASE ShowsError(p)
  <2>1. view' = [view EXCEPT ![p] = Error] /\ call' = [call EXCEPT ![p] = None] /\ UNCHANGED <<page, boot>>
    BY <1>2 DEF ShowsError, GuardRefuses, CallFails
  <2>2. OfRoute'
    BY <2>1, ViewTypes DEF WInv, PageTypes, OfRoute, Inv, AuthTypeOK
  <2>3. Step
    BY <1>2 DEF ShowsError, Step, AuthNext, CallStep
  <2> QED
    BY <2>1, <2>2, <2>3, ViewTypes DEF WInv, PageTypes
<1> QED
  BY <1>1, <1>2

LEMMA BffSteps ==
  ASSUME WInv, NEW p \in Page, BffStep(p)
  PROVE  Step /\ PageTypes' /\ OfRoute'
<1>1. Step
  BY DEF BffStep, Step, AuthNext, LoginStep, CallStep
<1>2. UNCHANGED <<page, view, boot>>
  BY DEF BffStep, webVars
<1>3. \A q \in Page : call[q] # None => call[q] \in Call
  BY DEF WInv, Inv, AuthTypeOK
<1>4. CASE UNCHANGED call
  BY <1>1, <1>2, <1>4, KeysKept DEF WInv, PageTypes
<1>5. ASSUME NEW s, NEW m, Overruled(s, m) PROVE OfRoute'
  <2>1. \A q \in Page : call'[q] # None => call[q] # None /\ call'[q].key = call[q].key
    BY <1>3, <1>5, NoneIsNot DEF Overruled, Call
  <2> QED
    BY <1>2, <2>1, KeysKept
<1>6. CASE StoreServer(p)
  BY <1>1, <1>2, <1>4, <1>5, <1>6 DEF StoreServer, WInv, PageTypes
<1>7. CASE Guard(p) \/ Resolve(p)
  <2>1. \A q \in Page : call'[q] # None => call[q] # None /\ call'[q].key = call[q].key
    <3>1. call[p] \in Call
      BY <1>3, <1>7 DEF Guard, Resolve
    <3>2. CASE Guard(p)
      BY <3>1, <3>2, NoneIsNot DEF Guard, Call, WInv, Inv, AuthTypeOK
    <3>3. CASE Resolve(p)
      BY <3>1, <3>3, NoneIsNot DEF Resolve, Call, WInv, Inv, AuthTypeOK
    <3> QED
      BY <1>7, <3>2, <3>3
  <2> QED
    BY <1>1, <1>2, <2>1, KeysKept DEF WInv, PageTypes
<1> QED
  BY <1>4, <1>6, <1>7 DEF BffStep, Accept

LEMMA QuitSteps ==
  ASSUME WInv, NEW q \in Quit, QuitStep(q)
  PROVE  Step /\ PageTypes' /\ OfRoute'
<1>1. CASE Quits(q)
  <2>1. Step
    BY <1>1 DEF Quits, Step, AuthNext, LogoutStep
  <2> QED
    BY <1>1, <2>1, KeysKept DEF Quits, ServeLogout, WInv, PageTypes, webVars
<1> QED
  BY <1>1, QuitBecomes DEF QuitStep

LEMMA OutsideSteps ==
  ASSUME WInv, ItEnds \/ Restarts \/ UNCHANGED vars
  PROVE  Step /\ PageTypes' /\ OfRoute'
<1>1. CASE ItEnds
  <2>1. Step /\ UNCHANGED <<call, page, view, boot>>
    BY <1>1 DEF ItEnds, Step, AuthNext, Expire, DropCookie, webVars, browserVars
  <2> QED
    BY <2>1, KeysKept DEF WInv, PageTypes
<1>2. CASE Restarts
  <2>1. view' \in [Page -> ViewState] /\ \A q \in Page : view'[q] = view[q] \/ view'[q] = Error
    BY <1>2, ViewTypes DEF Restarts, WInv, PageTypes
  <2>2. Step /\ UNCHANGED <<page, boot>> /\ \A q \in Page : call'[q] = call[q] \/ call'[q] = None
    BY <1>2 DEF Restarts, Restart, Step, AuthNext
  <2> QED
    BY <2>1, <2>2, ViewTypes DEF WInv, PageTypes, OfRoute
<1>3. CASE UNCHANGED vars
  BY <1>3, KeysKept DEF vars, webVars, Step, WInv, PageTypes, authVars, browserVars
<1> QED
  BY <1>1, <1>2, <1>3

LEMMA NextSteps == WInv /\ [Next]_vars => Step /\ PageTypes' /\ OfRoute'
  BY PageBecomes, PageWaits, PageHears, BffSteps, QuitSteps, OutsideSteps DEF Next, PageStep

LEMMA NextWInv == WInv /\ [Next]_vars => WInv'
<1> SUFFICES ASSUME WInv, [Next]_vars PROVE WInv'
  OBVIOUS
<1>1. Step /\ PageTypes' /\ OfRoute'
  BY NextSteps
<1>2. Inv'
  BY <1>1, NextInv DEF WInv, Step
<1> QED
  BY <1>1, <1>2 DEF WInv

LEMMA InitWInv == Init => WInv
<1> SUFFICES ASSUME Init PROVE WInv
  OBVIOUS
<1>1. Inv
  BY InitInv DEF Init
<1>2. PageTypes
  BY WebConstants, ViewTypes DEF Init, PageTypes, PageState, Path
<1>3. OfRoute
  BY ViewTypes DEF Init, OfRoute, AuthInit
<1> QED
  BY <1>1, <1>2, <1>3 DEF WInv

(* The pages of WebApp are one of the ways to use the session store that   *)
(* AuthSessions allows: each of their steps is one of its steps, or none.  *)
THEOREM PagesUseTheStore == Spec => AuthSpec
<1>1. Init => AuthInit
  BY DEF Init
<1>2. WInv /\ [Next]_vars => [AuthNext]_authVars
  BY NextSteps DEF Step
<1> QED
  BY <1>1, <1>2, InitWInv, NextWInv, PTL DEF Spec, AuthSpec

(* So the tickets of the pages' calls stay at home.                        *)
THEOREM PagesTicketsStayHome == Spec => []TicketStaysHome
  BY PagesUseTheStore, TicketsStayHome, PTL

(* What a view shows is what its route asks for, for any number of pages   *)
(* and routes.                                                             *)
THEOREM RoutesAreShown == Spec => []ShowsItsRoute
<1>1. ASSUME WInv PROVE ShowsItsRoute
  <2>1. ASSUME NEW p \in Page, view[p].status = "complete" PROVE view[p].key = page[p].route
    <3>1. view[p].key = Shown(page[p]) /\ Shown(page[p]) # "login"
      BY <1>1, <2>1 DEF WInv, OfRoute
    <3> QED
      BY <3>1 DEF Shown
  <2> QED
    BY <2>1 DEF ShowsItsRoute
<1> QED
  BY <1>1, InitWInv, NextWInv, PTL DEF Spec

-----------------------------------------------------------------------------
(* A session that has been and cannot be used again.                       *)
Dead(i) == i \in Id /\ store[i] # Free /\ ~Valid(i)

(* The ids that are about have been given out.                             *)
Used == /\ cookie # None => store[cookie] # Free
        /\ \A p \in Page : login[p] # None /\ login[p].phase = "accepted"
                          => login[p].id \in Id /\ store[login[p].id] # Free

LEMMA OverruleLives ==
  \A s, m : \A r \in Session : Overrule(s, m, r).live = r.live
  BY DEF Overrule, Session

(* No session comes back.                                                  *)
LEMMA DeadStays ==
  ASSUME Inv, Step, NEW i \in Id
  PROVE  (store[i] # Free => store'[i] # Free) /\ (Dead(i) => Dead(i)')
<1>0. AuthTypeOK /\ (Held(i) => store[i] \in Session) /\ i # None
  BY AuthConstants DEF Inv, AuthTypeOK, Held
<1>1. ASSUME store'[i] = store[i] \/ store'[i] = Gone
      PROVE  (store[i] # Free => store'[i] # Free) /\ (Dead(i) => Dead(i)')
  BY <1>1, NoneIsNothingHere DEF Dead, Valid, Held
<1>2. CASE UNCHANGED store
  BY <1>1, <1>2
<1>3. ASSUME NEW s, NEW m, Overruled(s, m)
      PROVE  (store[i] # Free => store'[i] # Free) /\ (Dead(i) => Dead(i)')
  <2>1. CASE Held(i)
    <3>1. store'[i] = Overrule(s, m, store[i])
      BY <1>3, <2>1 DEF Overruled
    <3>2. store'[i] \in Session /\ store'[i].live = store[i].live
      BY <1>0, <2>1, <3>1, OverruleTypes, OverruleLives
    <3> QED
      BY <2>1, <3>2, NoneIsNot DEF Dead, Valid, Held
  <2>2. CASE ~Held(i)
    BY <1>1, <1>3, <2>2 DEF Overruled
  <2> QED
    BY <2>1, <2>2
<1>4. ASSUME NEW p \in Page, Accept(p)
      PROVE  (store[i] # Free => store'[i] # Free) /\ (Dead(i) => Dead(i)')
  <2>1. store[i] # Free => store'[i] = store[i]
    BY <1>0, <1>4 DEF Accept, AuthTypeOK
  <2> QED
    BY <1>1, <2>1 DEF Dead
<1>5. ASSUME (\E p \in Page : GuardRefuses(p)) \/ (\E q \in Quit : ServeLogout(q))
      PROVE  (store[i] # Free => store'[i] # Free) /\ (Dead(i) => Dead(i)')
  <2>1. store'[i] = store[i] \/ store'[i] = Gone
    BY <1>0, <1>5 DEF ServeLogout, StoreAfterLogout, GuardRefuses, Swept, AuthTypeOK
  <2> QED
    BY <1>1, <2>1
<1>6. ASSUME NEW j \in Id, AskSession(j) \/ Expire(j)
      PROVE  (store[i] # Free => store'[i] # Free) /\ (Dead(i) => Dead(i)')
  <2>1. CASE i # j \/ AskSession(j)
    <3>1. store'[i] = store[i] \/ store'[i] = Gone
      BY <1>0, <1>6, <2>1 DEF AskSession, Expire, Swept, AuthTypeOK
    <3> QED
      BY <1>1, <3>1
  <2>2. CASE i = j /\ Expire(j)
    <3>1. Held(i) /\ store[i] \in Session /\ ~Dead(i) /\ store' = [store EXCEPT ![i].live = FALSE]
      BY <1>0, <2>2 DEF Expire, Valid, Dead
    <3>2. store'[i] \in Session
      BY <1>0, <3>1 DEF AuthTypeOK, Session
    <3> QED
      BY <3>1, <3>2, NoneIsNot
  <2> QED
    BY <1>6, <2>1, <2>2
<1>7. CASE Restart
  BY <1>1, <1>7, NoneIsNothingHere DEF Restart
<1>8. ASSUME NEW p \in Page, LoginStep(p) \/ CallStep(p)
      PROVE  UNCHANGED store \/ (\E s, m : Overruled(s, m)) \/ Accept(p) \/ GuardRefuses(p)
  BY <1>8 DEF LoginStep, CallStep, Submit, StoreServer, LoginArrives, LoginFails,
              Guard, Resolve, CallArrives, CallFails, bffVars
<1>9. ASSUME NEW q \in Quit, LogoutStep(q)
      PROVE  UNCHANGED store \/ ServeLogout(q)
  BY <1>9 DEF LogoutStep, AskLogout, LogoutArrives, LogoutFails, bffVars
<1> QED
  BY <1>2, <1>3, <1>4, <1>5, <1>6, <1>7, <1>8, <1>9 DEF Step, AuthNext, DropCookie, bffVars, authVars

LEMMA NextUsed ==
  ASSUME Inv, Used, Step
  PROVE  Used'
<1>0. AuthTypeOK /\ \A q \in Page : login[q] # None => login[q] \in Login
  BY DEF Inv, AuthTypeOK
<1>1. cookie' # None => store[cookie'] # Free /\ cookie' \in Id
  <2>1. cookie' = cookie \/ cookie' = None \/ \E p \in Page : LoginArrives(p)
    BY DEF Step, AuthNext, LoginStep, LogoutStep, CallStep, Submit, StoreServer, Accept, LoginFails, AskLogout,
           ServeLogout, LogoutArrives, LogoutFails, Guard, GuardRefuses, Resolve, CallArrives, CallFails,
           AskSession, Expire, DropCookie, Restart, authVars, browserVars, bffVars
  <2> QED
    BY <1>0, <2>1 DEF LoginArrives, Used, AuthTypeOK
<1>2. ASSUME NEW q \in Page, login'[q] # None, login'[q].phase = "accepted"
      PROVE  \/ login[q] # None /\ login[q].phase = "accepted" /\ login'[q].id = login[q].id
             \/ Accept(q)
  <2>1. CASE UNCHANGED login
    BY <1>2, <2>1
  <2>2. ASSUME NEW p \in Page, NEW o, Submit(p, o)
        PROVE  login[q] # None /\ login[q].phase = "accepted" /\ login'[q].id = login[q].id
    BY <1>0, <1>2, <2>2 DEF Submit, AuthTypeOK
  <2>3. ASSUME NEW p \in Page, LoginArrives(p) \/ LoginFails(p)
        PROVE  login[q] # None /\ login[q].phase = "accepted" /\ login'[q].id = login[q].id
    BY <1>0, <1>2, <2>3 DEF LoginArrives, LoginFails, AuthTypeOK
  <2>4. ASSUME NEW p \in Page, StoreServer(p)
        PROVE  login[q] # None /\ login[q].phase = "accepted" /\ login'[q].id = login[q].id
    <3>1. login[p] \in Login
      BY <1>0, <2>4 DEF StoreServer
    <3>2. CASE ~login[p].save
      <4>1. login' = [login EXCEPT ![p].phase = "stored"]
        BY <2>4, <3>2 DEF StoreServer
      <4> QED
        BY <1>0, <1>2, <3>1, <4>1 DEF AuthTypeOK, Login
    <3>3. CASE login[p].save
      <4>1. PICK s \in RowsFor(login[p].host) :
              login' = [r \in Page |-> IF r = p THEN [login[p] EXCEPT !.phase = "stored", !.server = s]
                                      ELSE IF login[r] # None /\ login[r].phase = "stored"
                                      THEN Overrule(s, login[p].mode, login[r]) ELSE login[r]]
        BY <2>4, <3>3 DEF StoreServer
      <4>2. login'[p].phase = "stored"
        BY <3>1, <4>1 DEF Login
      <4>3. CASE q # p /\ login[q] # None /\ login[q].phase = "stored"
        <5>1. login'[q] = Overrule(s, login[p].mode, login[q])
          BY <4>1, <4>3
        <5> QED
          BY <1>0, <1>2, <4>3, <5>1, OverruleKeeps
      <4>4. CASE q # p /\ ~(login[q] # None /\ login[q].phase = "stored")
        BY <1>2, <4>1, <4>4
      <4> QED
        BY <1>2, <4>2, <4>3, <4>4
    <3> QED
      BY <3>2, <3>3
  <2>5. ASSUME NEW p \in Page, Accept(p), p # q
        PROVE  login[q] # None /\ login[q].phase = "accepted" /\ login'[q].id = login[q].id
    BY <1>0, <1>2, <2>5 DEF Accept, AuthTypeOK
  <2>6. CASE Restart
    BY <1>2, <2>6, NoneIsNot DEF Restart
  <2> QED
    BY <2>1, <2>2, <2>3, <2>4, <2>5, <2>6
       DEF Step, AuthNext, LoginStep, LogoutStep, CallStep, AskLogout, ServeLogout, LogoutArrives, LogoutFails,
           Guard, GuardRefuses, Resolve, CallArrives, CallFails, AskSession, Expire, DropCookie, authVars, browserVars
<1>3. ASSUME NEW q \in Page, Accept(q)
      PROVE  login'[q].id \in Id /\ store'[login'[q].id] # Free
  <2>1. login[q] \in Login
    BY <1>0, <1>3 DEF Accept
  <2>2. PICK i \in Id :
          /\ store' = [store EXCEPT ![i] = [host |-> login[q].host, server |-> login[q].server, mode |-> login[q].mode,
                                            live |-> TRUE, overruled |-> login[q].overruled]]
          /\ login' = [login EXCEPT ![q].phase = "accepted", ![q].id = i]
    BY <1>3 DEF Accept
  <2>3. login'[q].id = i
    BY <1>0, <2>1, <2>2 DEF AuthTypeOK, Login
  <2>4. store'[i] \in Session
    BY <1>0, <2>1, <2>2 DEF AuthTypeOK, Login, Session
  <2> QED
    BY <2>3, <2>4, NoneIsNot
<1>4. \A i \in Id : store[i] # Free => store'[i] # Free
  BY DeadStays
<1> QED
  BY <1>0, <1>1, <1>2, <1>3, <1>4 DEF Used

-----------------------------------------------------------------------------
(* The cookie of a page whose header names the session s, or none: what is *)
(* left of it when the session is over is nothing.                         *)
Own(s) == IF s = None THEN cookie = None \/ Dead(cookie)
          ELSE s \in Id /\ (cookie = s \/ (cookie = None /\ Dead(s)))

Plain(p) == /\ page[p].at # "ready" => page[p].session = None
            /\ login[p] # None => page[p].at = "ready"
            /\ view[p].status = "complete" => view[p].id # None
            /\ call[p] # None /\ call[p].phase # "sent" => call[p].id # None

CallFits(p) == call[p] # None => /\ call[p].id \in {page[p].session, None} \/ Dead(call[p].id)
                                 /\ call[p].phase # "sent" => call[p].id = page[p].session

(* What a page that has not gone astray knows of the cookie.               *)
Knows(p) == ~astray[p] =>
  /\ page[p].at = "ready" => Own(page[p].session)
  /\ page[p].at = "boot" => /\ boot[p] \in Id => Own(boot[p])
                            /\ boot[p] = "refused" => Own(None)
  /\ view[p].status = "complete" => view[p].id = page[p].session
  /\ CallFits(p)

(* A logout: the session it was meant for is the one it ends, or is of no  *)
(* use already.                                                            *)
Meant(q) == logout[q] # None =>
  /\ page[logout[q].page].at = "ready"
  /\ header[q] # None => /\ logout[q].id = header[q] \/ Dead(header[q])
                         /\ logout[q].phase = "served" => Dead(header[q])

HInv == /\ WInv /\ Used
        /\ astray \in [Page -> BOOLEAN]
        /\ header \in [Quit -> Id \cup {None}]
        /\ \A p \in Page : Plain(p) /\ Knows(p)
        /\ \A q \in Quit : Meant(q)

LEMMA NoneIsNotDead == ~Dead(None)
  BY NoneIsNot DEF Dead

LEMMA OwnStays ==
  ASSUME Inv, Used, Step, cookie' = cookie \/ DropCookie
  PROVE  \A s : Own(s) => Own(s)'
<1>1. \A i \in Id : Dead(i) => Dead(i)'
  BY DeadStays
<1>2. CASE cookie' = cookie
  BY <1>1, <1>2 DEF Own, Dead
<1>3. CASE DropCookie
  <2>1. cookie' = None /\ Dead(cookie)
    BY <1>3 DEF DropCookie, Used, Dead, Inv, AuthTypeOK
  <2> QED
    BY <1>1, <2>1 DEF Own, Dead
<1> QED
  BY <1>2, <1>3

(* A page that a step does nothing about.                                  *)
LEMMA Bystander ==
  ASSUME HInv, Step, NEW p \in Page, cookie' = cookie \/ DropCookie,
         page'[p].at = page[p].at, page'[p].session = page[p].session, boot'[p] = boot[p], astray'[p] = astray[p],
         login'[p] # None => login[p] # None,
         view'[p].status = "complete" => view'[p] = view[p],
         call'[p] # None => /\ call[p] # None /\ call'[p].id = call[p].id
                            /\ call'[p].phase # "sent" => call[p].phase # "sent"
  PROVE  Plain(p)' /\ Knows(p)'
<1>1. \A s : (Own(s) => Own(s)') /\ (Dead(s) => Dead(s)')
  BY OwnStays, DeadStays DEF HInv, WInv, Dead
<1>2. CallFits(p) => CallFits(p)'
  BY <1>1 DEF CallFits
<1> QED
  BY <1>1, <1>2 DEF HInv, Plain, Knows

(* A page that a step leads astray, or that is not open.                   *)
LEMMA LedAstray ==
  ASSUME HInv, NEW p \in Page, astray'[p] \/ page[p].at = "closed", WInv',
         page'[p] = page[p], view'[p] = view[p], call'[p] = call[p],
         login'[p] # None => login[p] # None
  PROVE  Plain(p)' /\ Knows(p)'
<1>1. CASE page[p].at = "closed"
  <2>1. Shown(page[p]) = "login"
    BY <1>1 DEF Shown, HInv, Plain
  <2>2. call[p] = None /\ view[p].status # "complete"
    BY <2>1 DEF HInv, WInv, OfRoute
  <2> QED
    BY <1>1, <2>1, <2>2 DEF HInv, Plain, Knows, CallFits
<1>2. CASE astray'[p]
  BY <1>2 DEF HInv, Plain, Knows
<1> QED
  BY <1>1, <1>2

(* A page that becomes something else: its new header fits the cookie, and *)
(* what was shown under another header is gone.                            *)
LEMMA BecomesKnows ==
  ASSUME HInv, Step, NEW p \in Page, NEW new \in PageState, Becomes(p, new), new.at = "ready", Own(new.session)',
         (new.session = page[p].session /\ ~astray[p]) \/ ~SameView(page[p], new) \/ Shown(page[p]) = "login"
  PROVE  /\ view'[p].status = "complete" => view'[p].id = page'[p].session
         /\ CallFits(p)'
<1>0. page[p] \in PageState /\ page'[p] = new /\ OfRoute /\ view \in [Page -> ViewState]
      /\ call \in [Page -> Call \cup {None}]
  BY DEF HInv, WInv, PageTypes, Becomes, Inv, AuthTypeOK
<1>1. CASE SameView(page[p], new)
  <2>1. UNCHANGED <<view, call>>
    BY <1>1 DEF Becomes
  <2>2. CASE Shown(page[p]) = "login"
    BY <1>0, <2>1, <2>2 DEF OfRoute, CallFits
  <2>3. CASE Shown(page[p]) # "login"
    <3>1. new.session = page[p].session /\ ~astray[p]
      BY <1>1, <2>3
    <3>2. \A s : Dead(s) => Dead(s)'
      BY DeadStays DEF HInv, WInv, Dead
    <3> QED
      BY <1>0, <2>1, <3>1, <3>2 DEF HInv, Knows, CallFits
  <2> QED
    BY <2>2, <2>3
<1>2. CASE ~SameView(page[p], new) /\ Shown(new) = "login"
  <2>1. view' = [view EXCEPT ![p] = NoView] /\ call' = [call EXCEPT ![p] = None]
    BY <1>2 DEF Becomes
  <2> QED
    BY <1>0, <2>1, ViewTypes DEF CallFits
<1>3. CASE ~SameView(page[p], new) /\ Shown(new) # "login"
  <2>1. view' = [view EXCEPT ![p] = Pending] /\ call' = [call EXCEPT ![p] = NewCall(Shown(new), cookie')]
    BY <1>3 DEF Becomes
  <2>2. /\ view'[p].status # "complete" /\ call'[p].id = cookie' /\ call'[p].phase = "sent"
    BY <1>0, <2>1, ViewTypes DEF NewCall
  <2>3. cookie' \in {new.session, None} \/ Dead(cookie)'
    BY DEF Own
  <2> QED
    BY <1>0, <2>2, <2>3 DEF CallFits, Dead, Valid, Held
<1> QED
  BY <1>1, <1>2, <1>3

-----------------------------------------------------------------------------
(* The steps, first those of the page itself in which it becomes something *)
(* else.                                                                   *)
Steady(p) == \A q \in Page \ {p} : /\ page'[q] = page[q] /\ view'[q] = view[q] /\ boot'[q] = boot[q]
                                   /\ call'[q] = call[q] /\ (login'[q] # None => login[q] # None)

LEMMA BecomesSteady ==
  ASSUME HInv, NEW p \in Page, NEW new, Becomes(p, new),
         boot' = boot \/ boot' = [boot EXCEPT ![p] = "none"],
         \A q \in Page : login'[q] # None => login[q] # None
  PROVE  Steady(p)
<1>1. /\ page \in [Page -> PageState] /\ view \in [Page -> ViewState]
      /\ boot \in [Page -> Id \cup {"none", "refused"}]
      /\ call \in [Page -> Call \cup {None}]
  BY DEF HInv, WInv, PageTypes, Inv, AuthTypeOK
<1> QED
  BY <1>1 DEF Becomes, Steady

(* Whatever it becomes, what it shows and waits for was a session's.       *)
LEMMA BecomesPlain ==
  ASSUME HInv, NEW p \in Page, NEW new, Becomes(p, new), new.at = "ready" \/ (new.session = None /\ login'[p] = None)
  PROVE  Plain(p)'
<1>0. /\ page[p] \in PageState /\ page'[p] = new /\ view \in [Page -> ViewState]
      /\ call \in [Page -> Call \cup {None}]
  BY DEF HInv, WInv, PageTypes, Becomes, Inv, AuthTypeOK
<1>1. /\ view'[p].status = "complete" => view'[p].id # None
      /\ call'[p] # None /\ call'[p].phase # "sent" => call'[p].id # None
  <2>1. CASE UNCHANGED <<view, call>>
    BY <2>1 DEF HInv, Plain
  <2>2. CASE view'[p] = NoView /\ call'[p] = None
    BY <2>2, ViewTypes
  <2>3. CASE view'[p] = Pending /\ call'[p] = NewCall(Shown(new), cookie')
    BY <2>3, ViewTypes DEF NewCall
  <2> QED
    BY <1>0, <2>1, <2>2, <2>3 DEF Becomes
<1> QED
  BY <1>0, <1>1 DEF Plain

LEMMA OthersKnow ==
  ASSUME HInv, Step, NEW p \in Page, Steady(p),
         \A q \in Page \ {p} : astray'[q] = astray[q], cookie' = cookie
  PROVE  \A q \in Page \ {p} : Plain(q)' /\ Knows(q)'
  BY Bystander DEF Steady

LEMMA OthersLedAstray ==
  ASSUME HInv, WInv', NEW p \in Page, Steady(p),
         \A q \in Page \ {p} : astray'[q] \/ page[q].at = "closed"
  PROVE  \A q \in Page \ {p} : Plain(q)' /\ Knows(q)'
  BY LedAstray DEF Steady

LEMMA BootKnows ==
  ASSUME HInv, Step, WInv', NEW p \in Page, BootSucceeds(p) \/ BootFails(p)
  PROVE  astray' \in [Page -> BOOLEAN] /\ \A q \in Page : Plain(q)' /\ Knows(q)'
<1>1. /\ page[p] \in PageState /\ page[p].at = "boot" /\ page[p].session = None
      /\ Shown(page[p]) = "login"
      /\ astray \in [Page -> BOOLEAN]
  BY DEF BootSucceeds, BootFails, Booted, HInv, WInv, PageTypes, Plain, Shown
<1>2. /\ Booted(p) /\ cookie' = cookie /\ login' = login /\ boot' = [boot EXCEPT ![p] = "none"]
  BY DEF BootSucceeds, BootFails, Booted
<1>3. \A s : Own(s) => Own(s)'
  BY <1>2, OwnStays DEF HInv, WInv
<1>4. CASE BootSucceeds(p)
  <2>0. PICK ok : ok = [page[p] EXCEPT !.at = "ready", !.session = boot[p], !.worker = TRUE]
    OBVIOUS
  <2>1. ok \in PageState /\ ok.at = "ready" /\ ok.session = boot[p] /\ boot[p] \in Id
    BY <1>1, <1>4, <2>0 DEF BootSucceeds, PageState
  <2>2. Becomes(p, ok) /\ astray' = astray
    BY <1>4, <2>0 DEF BootSucceeds
  <2>3. page'[p] = ok
    BY <2>2 DEF Becomes, HInv, WInv, PageTypes
  <2>4. ASSUME ~astray[p]
        PROVE  /\ Own(ok.session)' /\ (view'[p].status = "complete" => view'[p].id = page'[p].session) /\ CallFits(p)'
    <3>1. Own(ok.session)
      BY <1>1, <2>1, <2>4 DEF HInv, Knows
    <3>2. Own(ok.session)'
      BY <1>3, <3>1
    <3> QED
      BY <1>1, <2>1, <2>2, <3>2, BecomesKnows
  <2>5. Plain(p)' /\ Knows(p)'
    BY <1>1, <1>2, <2>1, <2>2, <2>3, <2>4, BecomesPlain DEF Knows, Own, Dead
  <2> QED
    BY <1>1, <1>2, <2>2, <2>5, BecomesSteady, OthersKnow
<1>5. CASE BootFails(p)
  <2>0. PICK out : out = [page[p] EXCEPT !.at = "ready",
                            !.intended = IF page[p].address = "login" THEN @ ELSE page[p].address]
    OBVIOUS
  <2>1. out \in PageState /\ out.at = "ready" /\ out.session = None
    BY <1>1, <2>0 DEF PageState
  <2>2. Becomes(p, out) /\ astray' = [astray EXCEPT ![p] = @ \/ boot[p] # "refused"]
    BY <1>5, <2>0 DEF BootFails
  <2>3. page'[p] = out
    BY <2>2 DEF Becomes, HInv, WInv, PageTypes
  <2>4. ASSUME ~astray'[p]
        PROVE  /\ Own(out.session)' /\ (view'[p].status = "complete" => view'[p].id = page'[p].session) /\ CallFits(p)'
    <3>1. ~astray[p] /\ boot[p] = "refused"
      BY <1>1, <2>2, <2>4
    <3>2. Own(None)
      BY <1>1, <3>1 DEF HInv, Knows
    <3>3. Own(out.session)'
      BY <1>3, <2>1, <3>2
    <3> QED
      BY <1>1, <2>1, <2>2, <3>3, BecomesKnows
  <2>5. Plain(p)' /\ Knows(p)'
    BY <1>1, <1>2, <2>1, <2>2, <2>3, <2>4, BecomesPlain DEF Knows, Own, Dead
  <2>6. astray' \in [Page -> BOOLEAN] /\ \A q \in Page \ {p} : astray'[q] = astray[q]
    <3>1. (astray[p] \/ boot[p] # "refused") \in BOOLEAN
      OBVIOUS
    <3> QED
      BY <1>1, <2>2, <3>1
  <2> QED
    BY <1>1, <1>2, <2>2, <2>5, <2>6, BecomesSteady, OthersKnow
<1> QED
  BY <1>4, <1>5

LEMMA EnteredKnows ==
  ASSUME HInv, Step, WInv', NEW p \in Page, NEW r \in Path, Entered(p, r)
  PROVE  astray' \in [Page -> BOOLEAN] /\ \A q \in Page : Plain(q)' /\ Knows(q)'
<1>0. PICK new : new = [page[p] EXCEPT !.route = r]
  OBVIOUS
<1>1. /\ page[p] \in PageState /\ astray \in [Page -> BOOLEAN]
      /\ new \in PageState /\ new.session = page[p].session /\ new.at = page[p].at
  BY <1>0 DEF HInv, WInv, PageTypes, PageState
<1>2. /\ Becomes(p, new) /\ cookie' = cookie /\ login' = login /\ boot' = boot /\ astray' = astray
  BY <1>0 DEF Entered
<1>3. page'[p] = new
  BY <1>2 DEF Becomes, HInv, WInv, PageTypes
<1>4. \A s : (Own(s) => Own(s)') /\ (Dead(s) => Dead(s)')
  BY <1>2, OwnStays, DeadStays DEF HInv, WInv, Dead
<1>5. CASE page[p].at = "ready"
  <2>1. ASSUME ~astray[p]
        PROVE  /\ Own(new.session)' /\ (view'[p].status = "complete" => view'[p].id = page'[p].session) /\ CallFits(p)'
    <3>1. Own(page[p].session)
      BY <1>5, <2>1 DEF HInv, Knows
    <3>2. Own(new.session)'
      BY <1>1, <1>4, <3>1
    <3> QED
      BY <1>1, <1>2, <1>5, <2>1, <3>2, BecomesKnows
  <2>2. Plain(p)'
    BY <1>1, <1>2, <1>5, BecomesPlain
  <2>3. Plain(p)' /\ Knows(p)'
    BY <1>1, <1>2, <1>3, <1>5, <2>1, <2>2 DEF HInv, Knows, Own, Dead
  <2> QED
    BY <1>1, <1>2, <2>3, BecomesSteady, OthersKnow
<1>6. CASE page[p].at # "ready"
  <2>1. Shown(new) = "login" /\ Shown(page[p]) = "login"
    BY <1>1, <1>6 DEF Shown
  <2>2. call'[p] = None /\ view'[p].status # "complete"
    BY <1>3, <2>1 DEF WInv, OfRoute
  <2>3. page[p].session = None
    BY <1>6 DEF HInv, Plain
  <2>4. Plain(p)' /\ Knows(p)'
    BY <1>1, <1>2, <1>3, <1>4, <1>6, <2>2, <2>3 DEF HInv, Plain, Knows, CallFits
  <2> QED
    BY <1>1, <1>2, <2>4, BecomesSteady, OthersKnow
<1> QED
  BY <1>5, <1>6

(* A login or a logout leads the other pages astray; the page itself knows *)
(* its new cookie, or, when it was signed in already or has not heard from *)
(* the BFF, has gone astray too.                                           *)
LEMMA SignInKnows ==
  ASSUME HInv, Step, WInv', NEW p \in Page, SignIn(p)
  PROVE  astray' \in [Page -> BOOLEAN] /\ \A q \in Page : Plain(q)' /\ Knows(q)'
<1>0. PICK new : new = [page[p] EXCEPT !.session = login[p].id, !.intended = None]
  OBVIOUS
<1>1. /\ page[p] \in PageState /\ astray \in [Page -> BOOLEAN]
      /\ login[p].id \in Id /\ login[p].id # None
  BY NoneIsNot DEF HInv, WInv, PageTypes, SignIn, LoginArrives, Used
<1>2. new \in PageState /\ new.session = login[p].id /\ new.at = page[p].at
  BY <1>0, <1>1 DEF PageState
<1>3. /\ Becomes(p, new) /\ boot' = boot /\ cookie' = new.session
      /\ \A q \in Page : login'[q] # None => login[q] # None
  BY <1>0, <1>2 DEF SignIn, LoginArrives, HInv, WInv, Inv, AuthTypeOK
<1>4. /\ astray' \in [Page -> BOOLEAN]
      /\ astray'[p] = (page[p].session # None)
      /\ \A q \in Page \ {p} : astray'[q] \/ page[q].at = "closed"
  BY <1>1 DEF SignIn
<1>5. page'[p] = new
  BY <1>3 DEF Becomes, HInv, WInv, PageTypes
<1>6. page[p].at = "ready"
  BY DEF SignIn, LoginArrives, HInv, Plain
<1>7. ASSUME page[p].session = None
      PROVE  Knows(p)'
  <2>1. Own(new.session)'
    BY <1>1, <1>2, <1>3 DEF Own, Dead
  <2>2. ~SameView(page[p], new)
    BY <1>1, <1>2, <1>7 DEF SameView
  <2>3. (view'[p].status = "complete" => view'[p].id = page'[p].session) /\ CallFits(p)'
    BY <1>2, <1>3, <1>6, <2>1, <2>2, BecomesKnows
  <2> QED
    BY <1>2, <1>3, <1>5, <1>6, <1>7, <2>1, <2>3 DEF Knows, Own, Dead
<1>8. Plain(p)' /\ Knows(p)'
  BY <1>1, <1>2, <1>3, <1>4, <1>5, <1>6, <1>7, BecomesPlain DEF Knows
<1> QED
  BY <1>3, <1>4, <1>8, BecomesSteady, OthersLedAstray

LEMMA SignOutKnows ==
  ASSUME HInv, Step, WInv', NEW q \in Quit, SignOut(q) \/ SignOutUnheard(q)
  PROVE  astray' \in [Page -> BOOLEAN] /\ \A r \in Page : Plain(r)' /\ Knows(r)'
<1>0. PICK p \in Page, new \in PageState : p = logout[q].page /\ new = LeftBehind(page[p])
  BY QuitBecomes DEF HInv
<1>1. /\ logout[q] # None /\ Becomes(p, new)
  BY <1>0, QuitBecomes DEF HInv
<1>2. /\ page[p] \in PageState /\ astray \in [Page -> BOOLEAN] /\ page[p].at = "ready"
  BY <1>0, <1>1 DEF HInv, WInv, PageTypes, Meant
<1>3. new.session = None /\ new.at = "ready"
  BY <1>0, <1>2 DEF LeftBehind, PageState
<1>4. boot' = boot /\ login' = login
  BY DEF SignOut, SignOutUnheard, SignedOut, LogoutArrives, LogoutFails
<1>5. page'[p] = new
  BY <1>1 DEF Becomes, HInv, WInv, PageTypes
<1>6. CASE SignOut(q)
  <2>1. /\ cookie' = None /\ astray' \in [Page -> BOOLEAN] /\ astray'[p] = astray[p]
        /\ \A r \in Page \ {p} : astray'[r] \/ page[r].at = "closed"
    BY <1>0, <1>2, <1>6 DEF SignOut, LogoutArrives, Strays
  <2>2. Own(new.session)' /\ (page[p].session = new.session \/ ~SameView(page[p], new))
    BY <1>3, <2>1 DEF Own, SameView
  <2>3. ~astray[p] => (view'[p].status = "complete" => view'[p].id = page'[p].session) /\ CallFits(p)'
    BY <1>1, <1>3, <2>2, BecomesKnows
  <2>4. Plain(p)' /\ Knows(p)'
    BY <1>1, <1>3, <1>5, <2>1, <2>2, <2>3, BecomesPlain DEF Knows, Own, Dead
  <2> QED
    BY <1>1, <1>4, <2>1, <2>4, BecomesSteady, OthersLedAstray
<1>7. CASE SignOutUnheard(q)
  <2>1. /\ cookie' = cookie /\ astray' = [astray EXCEPT ![p] = TRUE]
    BY <1>0, <1>7 DEF SignOutUnheard, LogoutFails
  <2>2. Plain(p)' /\ Knows(p)'
    BY <1>1, <1>2, <1>3, <2>1, BecomesPlain DEF Knows
  <2> QED
    BY <1>1, <1>2, <1>4, <2>1, <2>2, BecomesSteady, OthersKnow
<1> QED
  BY <1>6, <1>7

(* A page is opened: what it is told is what the cookie is then.           *)
LEMMA OpenKnows ==
  ASSUME HInv, Step, NEW p \in Page, NEW r \in Address[p], Open(p, r)
  PROVE  \A q \in Page : Plain(q)' /\ Knows(q)'
<1>1. /\ page[p].at = "closed" /\ page[p].session = None /\ login[p] = None
      /\ call[p] = None /\ view[p].status # "complete"
  BY DEF Open, HInv, Plain, WInv, OfRoute, Shown
<1>2. /\ page' = [page EXCEPT ![p].at = "boot", ![p].address = r]
      /\ UNCHANGED <<view, astray, cookie, login, logout, call>>
      /\ boot' = [boot EXCEPT ![p] = IF Valid(cookie) THEN cookie ELSE "refused"]
  BY DEF Open, browserVars
<1>3. page'[p].at = "boot" /\ page'[p].session = None
  BY <1>1, <1>2 DEF HInv, WInv, PageTypes, PageState
<1>4. CASE Valid(cookie)
  <2>1. cookie \in Id /\ cookie # None
    BY <1>4 DEF Valid, Held, HInv, WInv, Inv, AuthTypeOK
  <2>2. Own(cookie)
    BY <2>1 DEF Own
  <2>3. Own(cookie)'
    BY <1>2, <2>1 DEF Own
  <2>4. boot'[p] = cookie /\ boot'[p] # "refused"
    BY <1>2, <1>4, <2>1, WebConstants DEF HInv, WInv, PageTypes
  <2>5. Plain(p)' /\ Knows(p)'
    BY <1>1, <1>2, <1>3, <2>1, <2>3, <2>4 DEF Plain, Knows, CallFits, Own, Dead
  <2> QED
    BY <1>2, <2>5, Bystander DEF HInv, WInv, PageTypes
<1>5. CASE ~Valid(cookie)
  <2>1. cookie = None \/ Dead(cookie)
    BY <1>5 DEF HInv, WInv, Inv, AuthTypeOK, Used, Dead
  <2>2. Own(None)'
    BY <1>2, <2>1, DeadStays DEF Own, Dead, HInv, WInv
  <2>3. boot'[p] = "refused" /\ boot'[p] \notin Id
    BY <1>2, <1>5, WebConstants DEF HInv, WInv, PageTypes
  <2>4. Plain(p)' /\ Knows(p)'
    BY <1>1, <1>2, <1>3, <2>2, <2>3 DEF Plain, Knows, CallFits
  <2> QED
    BY <1>2, <2>4, Bystander DEF HInv, WInv, PageTypes
<1> QED
  BY <1>4, <1>5

LEMMA UserKnows ==
  ASSUME HInv, Step, NEW p \in Page,
         \/ \E r \in View : Navigate(p, r)
         \/ \E o \in Offer[p] : SubmitForm(p, o)
         \/ FormFails(p)
         \/ \E q \in Quit : ClickLogout(p, q)
         \/ \E k \in LiveView : LiveArrives(p, k)
  PROVE  \A q \in Page : Plain(q)' /\ Knows(q)'
<1>0. /\ login \in [Page -> Login \cup {None}]
  BY DEF HInv, WInv, Inv, AuthTypeOK
<1>1. CASE \E r \in View : Navigate(p, r)
  BY <1>1, Bystander DEF Navigate, authVars, browserVars
<1>2. CASE \E o \in Offer[p] : SubmitForm(p, o)
  <2>1. /\ UNCHANGED <<page, view, boot, astray, cookie, call>> /\ page[p].at = "ready"
        /\ \A q \in Page \ {p} : login'[q] = login[q]
    BY <1>0, <1>2 DEF SubmitForm, Submit
  <2>2. \A q \in Page \ {p} : Plain(q)' /\ Knows(q)'
    BY <2>1, Bystander
  <2>3. \A s : (Own(s) => Own(s)') /\ (Dead(s) => Dead(s)')
    BY <2>1, OwnStays, DeadStays DEF HInv, WInv, Dead
  <2>4. Plain(p)' /\ Knows(p)'
    BY <2>1, <2>3 DEF HInv, Plain, Knows, CallFits
  <2> QED
    BY <2>2, <2>4
<1>3. CASE FormFails(p)
  BY <1>0, <1>3, Bystander DEF FormFails, LoginFails, webVars
<1>4. CASE \E q \in Quit : ClickLogout(p, q)
  BY <1>4, Bystander DEF ClickLogout, AskLogout
<1>5. ASSUME NEW k \in LiveView, LiveArrives(p, k)
      PROVE  \A q \in Page : Plain(q)' /\ Knows(q)'
  <2>1. UNCHANGED <<view, boot, astray, cookie, login, call>>
    BY <1>5 DEF LiveArrives, authVars, browserVars
  <2>2. \A q \in Page : page'[q].at = page[q].at /\ page'[q].session = page[q].session
    BY <1>5 DEF LiveArrives, HInv, WInv, PageTypes, PageState
  <2> QED
    BY <2>1, <2>2, Bystander
<1> QED
  BY <1>1, <1>2, <1>3, <1>4, <1>5

LEMMA AnswerKnows ==
  ASSUME HInv, Step, NEW p \in Page, Renders(p) \/ ShowsError(p)
  PROVE  \A q \in Page : Plain(q)' /\ Knows(q)'
<1>0. /\ view \in [Page -> ViewState] /\ call \in [Page -> Call \cup {None}]
  BY DEF HInv, WInv, Inv, AuthTypeOK, PageTypes
<1>1. /\ UNCHANGED <<page, boot, astray, cookie, login>> /\ call' = [call EXCEPT ![p] = None]
      /\ \A q \in Page \ {p} : view'[q] = view[q]
  BY <1>0 DEF Renders, ShowsError, CallArrives, CallFails, GuardRefuses
<1>2. \A q \in Page \ {p} : Plain(q)' /\ Knows(q)'
  BY <1>0, <1>1, Bystander
<1>3. \A s : (Own(s) => Own(s)') /\ (Dead(s) => Dead(s)')
  BY <1>1, OwnStays, DeadStays DEF HInv, WInv, Dead
<1>4. view'[p].status = "complete" => view'[p].id # None /\ (~astray[p] => view'[p].id = page[p].session)
  <2>1. CASE Renders(p)
    <3>1. call[p] # None /\ call[p].phase = "asked" /\ view'[p].id = call[p].id
      BY <1>0, <2>1 DEF Renders, CallArrives
    <3> QED
      BY <3>1 DEF HInv, Plain, Knows, CallFits
  <2>2. CASE ShowsError(p)
    BY <1>0, <2>2, ViewTypes DEF ShowsError
  <2> QED
    BY <2>1, <2>2
<1>5. Plain(p)' /\ Knows(p)'
  BY <1>0, <1>1, <1>3, <1>4 DEF HInv, Plain, Knows, CallFits
<1> QED
  BY <1>2, <1>5

LEMMA BffKnows ==
  ASSUME HInv, Step, NEW p \in Page, BffStep(p)
  PROVE  \A q \in Page : Plain(q)' /\ Knows(q)'
<1>0. /\ login \in [Page -> Login \cup {None}]
      /\ call \in [Page -> Call \cup {None}] /\ store \in [Id -> Session \cup {Free, Gone}]
  BY DEF HInv, WInv, Inv, AuthTypeOK
<1>1. UNCHANGED <<page, view, boot, astray, cookie>>
  BY DEF BffStep, webVars, StoreServer, Accept, Guard, Resolve
<1>2. CASE StoreServer(p)
  <2>1. \A q \in Page : login'[q] # None => login[q] # None
    BY <1>0, <1>2 DEF StoreServer
  <2>2. \A q \in Page : call'[q] # None => /\ call[q] # None /\ call'[q].id = call[q].id
                                           /\ call'[q].phase = call[q].phase
    <3>1. CASE UNCHANGED call
      BY <3>1
    <3>2. ASSUME NEW s, NEW m, Overruled(s, m)
          PROVE  \A q \in Page : call'[q] # None => /\ call[q] # None /\ call'[q].id = call[q].id
                                                    /\ call'[q].phase = call[q].phase
      BY <1>0, <3>2, NoneIsNot DEF Overruled, Call
    <3> QED
      BY <1>2, <3>1, <3>2 DEF StoreServer
  <2> QED
    BY <1>1, <2>1, <2>2, Bystander
<1>3. CASE Accept(p)
  <2>1. call' = call /\ \A q \in Page : login'[q] # None => login[q] # None
    BY <1>0, <1>3 DEF Accept
  <2> QED
    BY <1>1, <2>1, Bystander
<1>4. \A s : (Own(s) => Own(s)') /\ (Dead(s) => Dead(s)')
  BY <1>1, OwnStays, DeadStays DEF HInv, WInv, Dead
<1>5. CASE Guard(p)
  <2>1. /\ login' = login /\ call[p] \in Call /\ Valid(call[p].id)
        /\ call' = [call EXCEPT ![p].phase = "guarded", ![p].session = store[call[p].id]]
    BY <1>0, <1>5 DEF Guard
  <2>2. /\ call'[p].id = call[p].id /\ call'[p] # None
        /\ \A q \in Page \ {p} : call'[q] = call[q]
    <3>1. store[call[p].id] \in Session
      BY <1>0, <2>1 DEF Valid, Held, Call
    <3>2. call'[p] \in Call
      BY <1>0, <2>1, <3>1 DEF Call
    <3> QED
      BY <1>0, <2>1, <3>2, NoneIsNot DEF Call
  <2>3. \A q \in Page \ {p} : Plain(q)' /\ Knows(q)'
    BY <1>1, <2>1, <2>2, Bystander
  <2>4. call[p].id # None /\ (~astray[p] => call[p].id = page[p].session)
    BY <1>5, <2>1 DEF HInv, Knows, CallFits, Guard, Dead, Valid, Held
  <2> QED
    BY <1>1, <1>4, <2>1, <2>2, <2>3, <2>4 DEF HInv, Plain, Knows, CallFits
<1>6. CASE Resolve(p)
  <2>1. /\ login' = login /\ call[p] \in Call /\ call[p].phase = "guarded"
        /\ call' = [call EXCEPT ![p].phase = "asked", ![p].host = ServerRef(p).host, ![p].mode = ServerRef(p).mode]
    BY <1>0, <1>6 DEF Resolve
  <2>2. /\ call'[p].id = call[p].id /\ call[p] # None
        /\ \A q \in Page \ {p} : call'[q] = call[q]
    BY <1>0, <2>1, NoneIsNot DEF Call
  <2> QED
    BY <1>1, <2>1, <2>2, Bystander
<1> QED
  BY <1>2, <1>3, <1>5, <1>6 DEF BffStep

LEMMA QuitsKnows ==
  ASSUME HInv, Step, NEW q \in Quit, Quits(q)
  PROVE  \A p \in Page : Plain(p)' /\ Knows(p)'
BY Bystander DEF Quits, ServeLogout, webVars

LEMMA OutsideKnows ==
  ASSUME HInv, Step, ItEnds \/ Restarts \/ UNCHANGED vars
  PROVE  \A q \in Page : Plain(q)' /\ Knows(q)'
<1>1. CASE ItEnds
  BY <1>1, Bystander DEF ItEnds, Expire, DropCookie, webVars, browserVars
<1>2. CASE Restarts
  <2>1. \A q \in Page : /\ login'[q] \in {login[q], None} /\ call'[q] \in {call[q], None}
                        /\ view'[q].status = "complete" => view'[q] = view[q]
    BY <1>2, ViewTypes DEF Restarts, Restart
  <2> QED
    BY <1>2, <2>1, Bystander DEF Restarts, Restart
<1>3. CASE UNCHANGED vars
  BY <1>3, Bystander DEF vars, webVars, authVars, browserVars
<1> QED
  BY <1>1, <1>2, <1>3

-----------------------------------------------------------------------------
LEMMA InitHInv == Init => HInv
<1> SUFFICES ASSUME Init PROVE HInv
  OBVIOUS
<1>1. WInv /\ Used /\ astray \in [Page -> BOOLEAN]
  BY InitWInv DEF Init, AuthInit, Used
<1>2. ASSUME NEW p \in Page PROVE Plain(p) /\ Knows(p)
  BY ViewTypes DEF Init, AuthInit, Plain, Knows, CallFits
<1>3. header \in [Quit -> Id \cup {None}] /\ \A q \in Quit : Meant(q)
  BY DEF Init, AuthInit, Meant
<1> QED
  BY <1>1, <1>2, <1>3 DEF HInv

-----------------------------------------------------------------------------
(* The logouts.  A page that is ready stays so.                            *)
LEMMA StaysReady ==
  ASSUME HInv, [Next]_vars
  PROVE  \A p \in Page : page[p].at = "ready" => page'[p].at = "ready"
<1>0. /\ page \in [Page -> PageState] /\ WInv
      /\ \A q \in Quit : logout[q] # None => logout[q].page \in Page
  BY LogoutsPage DEF HInv, WInv, PageTypes, Inv, AuthTypeOK
<1>1. ASSUME NEW p \in Page, NEW new, Becomes(p, new), new.at = "ready" \/ new.at = page[p].at
      PROVE  \A q \in Page : page[q].at = "ready" => page'[q].at = "ready"
  BY <1>0, <1>1 DEF Becomes
<1>2. CASE UNCHANGED page
  BY <1>2
<1>3. ASSUME NEW p \in Page, PageStep(p)
      PROVE  \A q \in Page : page[q].at = "ready" => page'[q].at = "ready"
  <2>1. CASE BootSucceeds(p)
    <3> DEFINE new == [page[p] EXCEPT !.at = "ready", !.session = boot[p], !.worker = TRUE]
    <3>1. Becomes(p, new) /\ new.at = "ready"
      BY <1>0, <2>1 DEF BootSucceeds, PageState
    <3> HIDE DEF new
    <3> QED
      BY <1>1, <3>1
  <2>2. CASE BootFails(p)
    <3> DEFINE new == [page[p] EXCEPT !.at = "ready",
                         !.intended = IF page[p].address = "login" THEN @ ELSE page[p].address]
    <3>1. Becomes(p, new) /\ new.at = "ready"
      BY <1>0, <2>2 DEF BootFails, PageState
    <3> HIDE DEF new
    <3> QED
      BY <1>1, <3>1
  <2>3. ASSUME NEW r, Entered(p, r)
        PROVE  \A q \in Page : page[q].at = "ready" => page'[q].at = "ready"
    <3> DEFINE new == [page[p] EXCEPT !.route = r]
    <3>1. Becomes(p, new) /\ new.at = page[p].at
      BY <1>0, <2>3 DEF Entered, PageState
    <3> HIDE DEF new
    <3> QED
      BY <1>1, <3>1
  <2>4. CASE SignIn(p)
    <3> DEFINE new == [page[p] EXCEPT !.session = login[p].id, !.intended = None]
    <3>1. Becomes(p, new) /\ new.at = page[p].at
      BY <1>0, <2>4 DEF SignIn, PageState
    <3> HIDE DEF new
    <3> QED
      BY <1>1, <3>1
  <2>5. ASSUME NEW r, Open(p, r)
        PROVE  \A q \in Page : page[q].at = "ready" => page'[q].at = "ready"
    BY <1>0, <2>5 DEF Open
  <2>6. ASSUME NEW k, LiveArrives(p, k)
        PROVE  \A q \in Page : page[q].at = "ready" => page'[q].at = "ready"
    BY <1>0, <2>6 DEF LiveArrives, PageState
  <2> QED
    BY <1>2, <1>3, <2>1, <2>2, <2>3, <2>4, <2>5, <2>6
       DEF PageStep, Navigate, SubmitForm, FormFails, ClickLogout, Renders, ShowsError, webVars
<1>4. ASSUME NEW q \in Quit, SignOut(q) \/ SignOutUnheard(q)
      PROVE  \A p \in Page : page[p].at = "ready" => page'[p].at = "ready"
  <2>1. logout[q].page \in Page /\ Becomes(logout[q].page, LeftBehind(page[logout[q].page]))
    BY <1>0, <1>4, QuitBecomes
  <2>2. LeftBehind(page[logout[q].page]).at = page[logout[q].page].at
    BY <1>0, <2>1 DEF LeftBehind, PageState
  <2> QED
    BY <1>1, <2>1, <2>2
<1> QED
  BY <1>2, <1>3, <1>4 DEF Next, QuitStep, Quits, BffStep, ItEnds, Restarts, vars, webVars

(* A logout that a step does nothing about.                                *)
LEMMA MeantStays ==
  ASSUME HInv, Step, [Next]_vars, NEW q \in Quit, logout'[q] \in {logout[q], None}, header'[q] = header[q]
  PROVE  Meant(q)'
<1>1. \A i \in Id : Dead(i) => Dead(i)'
  BY DeadStays DEF HInv, WInv
<1>2. logout[q] # None => logout[q].page \in Page
  BY LogoutsPage DEF HInv, WInv, Inv
<1> QED
  BY <1>1, <1>2, StaysReady DEF HInv, Meant, Dead

(* The session a logout is meant for is that of the page's cookie, when    *)
(* the page knows it, and it is over once the BFF has served the logout.   *)
LEMMA NextMeant ==
  ASSUME HInv, Step, [Next]_vars
  PROVE  header' \in [Quit -> Id \cup {None}] /\ \A q \in Quit : Meant(q)'
<1>0. /\ page \in [Page -> PageState] /\ header \in [Quit -> Id \cup {None}]
      /\ logout \in [Quit -> Logout \cup {None}] /\ store \in [Id -> Session \cup {Free, Gone}]
      /\ cookie \in Id \cup {None}
  BY DEF HInv, WInv, PageTypes, Inv, AuthTypeOK
<1>1. CASE UNCHANGED <<logout, header>>
  BY <1>0, <1>1, MeantStays
<1>2. ASSUME NEW p \in Page, NEW q \in Quit, ClickLogout(p, q)
      PROVE  header' \in [Quit -> Id \cup {None}] /\ \A r \in Quit : Meant(r)'
  <2>1. /\ page[p].at = "ready" /\ page[p].session # None /\ UNCHANGED <<page, store, cookie>>
        /\ logout' = [logout EXCEPT ![q] = [page |-> p, id |-> cookie, phase |-> "sent"]]
        /\ header' = [header EXCEPT ![q] = IF astray[p] THEN None ELSE page[p].session]
    BY <1>2 DEF ClickLogout, AskLogout, bffVars
  <2>2. page[p].session \in Id
    BY <1>0, <2>1 DEF PageState
  <2>3. \A r \in Quit \ {q} : Meant(r)'
    BY <1>0, <2>1, MeantStays
  <2>4. header'[q] # None => header'[q] = page[p].session /\ (cookie = page[p].session \/ Dead(page[p].session))
    BY <1>0, <2>1 DEF HInv, Knows, Own
  <2>5. \A i : Dead(i) => Dead(i)'
    BY <2>1 DEF Dead, Valid, Held
  <2>6. Meant(q)'
    BY <1>0, <2>1, <2>4, <2>5 DEF Meant
  <2> QED
    BY <1>0, <2>1, <2>2, <2>3, <2>6
<1>3. ASSUME NEW q \in Quit, ServeLogout(q), UNCHANGED webVars
      PROVE  header' \in [Quit -> Id \cup {None}] /\ \A r \in Quit : Meant(r)'
  <2>1. /\ UNCHANGED <<page, header>> /\ logout[q] # None /\ logout[q] \in Logout
        /\ logout' = [logout EXCEPT ![q].phase = "served"] /\ store' = StoreAfterLogout(q)
    BY <1>0, <1>3 DEF ServeLogout, webVars
  <2>2. logout'[q] = [logout[q] EXCEPT !.phase = "served"] /\ logout'[q].id = logout[q].id
        /\ logout'[q].page = logout[q].page
    BY <1>0, <2>1 DEF Logout
  <2>3. \A r \in Quit \ {q} : Meant(r)'
    BY <1>0, <2>1, MeantStays
  <2>4. ASSUME header[q] # None
        PROVE  Dead(header[q])'
    <3>1. header[q] \in Id /\ (logout[q].id = header[q] \/ Dead(header[q]))
      BY <1>0, <2>1, <2>4 DEF HInv, Meant
    <3>2. CASE logout[q].id = header[q]
      <4>1. store'[header[q]] = Gone
        BY <1>0, <2>1, <2>4, <3>1, <3>2 DEF StoreAfterLogout
      <4> QED
        BY <2>1, <3>1, <4>1, NoneIsNothingHere DEF Dead, Valid, Held
    <3>3. CASE Dead(header[q])
      <4>1. store[header[q]] # Free => store'[header[q]] # Free
        BY <3>1, DeadStays DEF HInv, WInv
      <4>2. Dead(header[q]) => Dead(header[q])'
        BY <2>1, <3>1, DeadStays DEF HInv, WInv, Dead
      <4> QED
        BY <3>3, <4>2
    <3> QED
      BY <3>1, <3>2, <3>3
  <2>5. Meant(q)'
    BY <2>1, <2>2, <2>4 DEF HInv, Meant
  <2> QED
    BY <1>0, <2>1, <2>3, <2>5
<1>4. ASSUME NEW q \in Quit, LogoutArrives(q) \/ LogoutFails(q), Answered(q)
      PROVE  header' \in [Quit -> Id \cup {None}] /\ \A r \in Quit : Meant(r)'
  <2>1. /\ logout' = [logout EXCEPT ![q] = None] /\ header' = [header EXCEPT ![q] = None]
    BY <1>4 DEF LogoutArrives, LogoutFails, Answered
  <2>2. \A r \in Quit \ {q} : Meant(r)'
    BY <1>0, <2>1, MeantStays
  <2> QED
    BY <1>0, <2>1, <2>2 DEF Meant
<1>5. ASSUME NEW p \in Page, PageStep(p) \/ BffStep(p)
      PROVE  UNCHANGED <<logout, header>> \/ \E q \in Quit : ClickLogout(p, q)
  BY <1>5 DEF PageStep, BffStep, Open, Entered, Navigate, BootSucceeds, BootFails, Booted, SubmitForm, Submit,
              SignIn, LoginArrives, FormFails, LoginFails, Renders, CallArrives, ShowsError, GuardRefuses, CallFails,
              LiveArrives, StoreServer, Accept, Guard, Resolve, authVars, browserVars, webVars
<1>6. CASE ItEnds \/ Restarts \/ UNCHANGED vars
  BY <1>1, <1>6 DEF ItEnds, Expire, DropCookie, Restarts, Restart, vars, authVars, browserVars, webVars
<1> QED
  BY <1>1, <1>2, <1>3, <1>4, <1>5, <1>6 DEF Next, QuitStep, Quits, SignOut, SignOutUnheard

LEMMA NextHInv == HInv /\ [Next]_vars => HInv'
<1> SUFFICES ASSUME HInv, [Next]_vars PROVE HInv'
  OBVIOUS
<1>1. Step /\ WInv' /\ Used'
  BY NextSteps, NextWInv, NextUsed DEF HInv, WInv
<1>2. astray \in [Page -> BOOLEAN]
  BY DEF HInv
<1>3. ASSUME NEW p \in Page, PageStep(p)
      PROVE  astray' \in [Page -> BOOLEAN] /\ \A q \in Page : Plain(q)' /\ Knows(q)'
  <2>1. CASE BootSucceeds(p) \/ BootFails(p) \/ (\E r \in Path : Entered(p, r))
               \/ SignIn(p)
    BY <1>1, <2>1, BootKnows, EnteredKnows, SignInKnows
  <2>2. CASE \E r \in Address[p] : Open(p, r)
    BY <1>1, <1>2, <2>2, OpenKnows DEF Open
  <2>3. CASE (\E r \in View : Navigate(p, r)) \/ (\E o \in Offer[p] : SubmitForm(p, o))
               \/ FormFails(p) \/ (\E q \in Quit : ClickLogout(p, q)) \/ (\E k \in LiveView : LiveArrives(p, k))
    <3>1. UNCHANGED astray
      BY <2>3 DEF Navigate, SubmitForm, FormFails, ClickLogout, LiveArrives, webVars
    <3> QED
      BY <1>1, <1>2, <2>3, <3>1, UserKnows
  <2>4. CASE Renders(p) \/ ShowsError(p)
    BY <1>1, <1>2, <2>4, AnswerKnows DEF Renders, ShowsError
  <2> QED
    BY <1>3, <2>1, <2>2, <2>3, <2>4 DEF PageStep
<1>4. ASSUME NEW p \in Page, BffStep(p)
      PROVE  astray' \in [Page -> BOOLEAN] /\ \A q \in Page : Plain(q)' /\ Knows(q)'
  <2>1. UNCHANGED astray
    BY <1>4 DEF BffStep, webVars
  <2> QED
    BY <1>1, <1>2, <1>4, <2>1, BffKnows
<1>5. ASSUME ItEnds \/ Restarts \/ UNCHANGED vars
      PROVE  astray' \in [Page -> BOOLEAN] /\ \A q \in Page : Plain(q)' /\ Knows(q)'
  <2>1. UNCHANGED astray
    BY <1>5 DEF ItEnds, Restarts, vars, webVars
  <2> QED
    BY <1>1, <1>2, <1>5, <2>1, OutsideKnows DEF HInv
<1>6. astray' \in [Page -> BOOLEAN] /\ \A q \in Page : Plain(q)' /\ Knows(q)'
  <2>1. CASE \E p \in Page : PageStep(p)
    BY <1>3, <2>1
  <2>2. CASE \E p \in Page : BffStep(p)
    BY <1>4, <2>2
  <2>3. CASE ItEnds \/ Restarts \/ UNCHANGED vars
    BY <1>5, <2>3
  <2>4. CASE \E q \in Quit : SignOut(q) \/ SignOutUnheard(q)
    BY <1>1, <2>4, SignOutKnows
  <2>5. CASE \E q \in Quit : Quits(q)
    BY <1>1, <1>2, <2>5, QuitsKnows DEF Quits, webVars
  <2> QED
    BY <2>1, <2>2, <2>3, <2>4, <2>5 DEF Next, QuitStep
<1> QED
  BY <1>1, <1>6, NextMeant DEF HInv

(* The data under a header belong to the session it names, or are live     *)
(* data and it names some session, for any number of pages, sessions and   *)
(* restarts, unless the page has gone astray.  The invariant ties what a   *)
(* page may still show, and what its calls carry, to the cookie: it is the *)
(* page's own, or gone with its session for good.                          *)
THEOREM HeadersTellWhoseData == Spec => []DataIsOfTheHeader
<1>1. ASSUME HInv PROVE DataIsOfTheHeader
  <2>1. ASSUME NEW p \in Page, ~astray[p]
        PROVE  /\ Sources(p) \subseteq {page[p].session, "worker"}
               /\ page[p].session = None => Sources(p) = {}
    <3>1. view[p].status = "complete" => view[p].id = page[p].session /\ view[p].id # None
      BY <1>1, <2>1 DEF HInv, Plain, Knows
    <3> QED
      BY <3>1 DEF Sources
  <2> QED
    BY <2>1 DEF DataIsOfTheHeader
<1> QED
  BY <1>1, InitHInv, NextHInv, PTL DEF Spec

(* A logout that was served has ended the session that its page named, for *)
(* any number of logouts under way.                                        *)
THEOREM LogoutsEndSessions == Spec => []LogoutEndsTheSession
<1>1. HInv => LogoutEndsTheSession
  BY DEF HInv, Meant, Dead, LogoutEndsTheSession
<1> QED
  BY <1>1, InitHInv, NextHInv, PTL DEF Spec

-----------------------------------------------------------------------------
(* The rest of the types: a view that waits has a call and no other has,   *)
(* a page has a view when it shows a route that needs one, and a page that *)
(* does not boot waits for no answer of getSession.                        *)
Fits(p) == /\ view[p].status = "pending" <=> call[p] # None
           /\ view[p].status = "none" <=> Shown(page[p]) = "login"
           /\ page[p].at # "boot" => boot[p] = "none"

TInv == /\ HInv
        /\ entering \in [Page -> SUBSET Path]
        /\ moves \in 0..MaxMoves
        /\ \A p \in Page : Fits(p)

LEMMA InitTInv == Init => TInv
<1> SUFFICES ASSUME Init
             PROVE  TInv
  OBVIOUS
<1>1. HInv
  BY InitHInv
<1>2. entering \in [Page -> SUBSET Path] /\ moves \in 0..MaxMoves
  BY WebConstants DEF Init
<1>3. \A p \in Page : Fits(p)
  BY ViewTypes DEF Init, AuthInit, Fits, Shown
<1> QED
  BY <1>1, <1>2, <1>3 DEF TInv

(* A page that a step leaves alone.                                        *)
LEMMA FitsStays ==
  ASSUME NEW p \in Page, Fits(p), view'[p] = view[p], page'[p] = page[p], boot'[p] = boot[p],
         call'[p] # None <=> call[p] # None
  PROVE  Fits(p)'
  BY DEF Fits, Shown

(* A page that becomes something else: its view goes, waits, or is kept.   *)
LEMMA BecomesFits ==
  ASSUME TInv, cookie' \in Id \cup {None}, NEW p \in Page, NEW new \in PageState, Becomes(p, new),
         \A q \in Page : q # p => boot'[q] = boot[q],
         boot'[p] = "none" \/ (boot'[p] = boot[p] /\ (new.at = "boot" <=> page[p].at = "boot"))
  PROVE  \A q \in Page : Fits(q)'
<1>0. /\ page \in [Page -> PageState] /\ view \in [Page -> ViewState] /\ call \in [Page -> Call \cup {None}]
      /\ \A q \in Page : Fits(q)
  BY DEF TInv, HInv, WInv, PageTypes, Inv, AuthTypeOK
<1>1. page'[p] = new /\ \A q \in Page : q # p => page'[q] = page[q]
  BY <1>0 DEF Becomes
<1>2. ASSUME NEW q \in Page, q # p
      PROVE  Fits(q)'
  <2>1. view'[q] = view[q] /\ call'[q] = call[q]
    BY <1>0, <1>2 DEF Becomes
  <2> QED
    BY <1>0, <1>1, <1>2, <2>1, FitsStays
<1>3. /\ view'[p].status = "pending" <=> call'[p] # None
      /\ view'[p].status = "none" <=> Shown(new) = "login"
  <2>1. CASE SameView(page[p], new)
    <3>1. view'[p] = view[p] /\ call'[p] = call[p] /\ Shown(new) = Shown(page[p])
      BY <2>1 DEF Becomes, SameView
    <3> QED
      BY <1>0, <3>1 DEF Fits
  <2>2. CASE ~SameView(page[p], new) /\ Shown(new) = "login"
    <3>1. view'[p] = NoView /\ call'[p] = None
      BY <1>0, <2>2 DEF Becomes
    <3> QED
      BY <2>2, <3>1, ViewTypes
  <2>3. CASE ~SameView(page[p], new) /\ Shown(new) # "login"
    <3>1. view'[p] = Pending /\ call'[p] = NewCall(Shown(new), cookie')
      BY <1>0, <2>3 DEF Becomes
    <3>2. NewCall(Shown(new), cookie') # None
      <4>1. Shown(new) \in Key
        BY <2>3, ShownPaths
      <4>2. NewCall(Shown(new), cookie') \in Call
        BY <4>1 DEF NewCall, Call
      <4> QED
        BY <4>2, NoneIsNot
    <3> QED
      BY <2>3, <3>1, <3>2, ViewTypes
  <2> QED
    BY <2>1, <2>2, <2>3
<1>4. Fits(p)'
  <2>1. page'[p].at # "boot" => boot'[p] = "none"
    BY <1>0, <1>1 DEF Fits
  <2>2. Shown(page[p])' = Shown(new)
    BY <1>1 DEF Shown
  <2> QED
    BY <1>3, <2>1, <2>2 DEF Fits
<1> QED
  BY <1>2, <1>4

LEMMA BecomingFits ==
  ASSUME TInv, cookie' \in Id \cup {None}, NEW p \in Page,
         BootSucceeds(p) \/ BootFails(p) \/ (\E r \in Path : Entered(p, r))
           \/ SignIn(p)
  PROVE  \A q \in Page : Fits(q)'
<1>0. /\ page[p] \in PageState /\ boot \in [Page -> Id \cup {"none", "refused"}]
      /\ login \in [Page -> Login \cup {None}]
  BY DEF TInv, HInv, WInv, PageTypes, Inv, AuthTypeOK
<1>1. CASE BootSucceeds(p)
  <2> DEFINE new == [page[p] EXCEPT !.at = "ready", !.session = boot[p], !.worker = TRUE]
  <2>1. new \in PageState /\ Becomes(p, new) /\ boot' = [boot EXCEPT ![p] = "none"]
    BY <1>0, <1>1 DEF BootSucceeds, Booted, PageState
  <2> HIDE DEF new
  <2> QED
    BY <1>0, <2>1, BecomesFits
<1>2. CASE BootFails(p)
  <2> DEFINE new == [page[p] EXCEPT !.at = "ready",
                       !.intended = IF page[p].address = "login" THEN @ ELSE page[p].address]
  <2>1. new \in PageState /\ Becomes(p, new) /\ boot' = [boot EXCEPT ![p] = "none"]
    BY <1>0, <1>2 DEF BootFails, Booted, PageState
  <2> HIDE DEF new
  <2> QED
    BY <1>0, <2>1, BecomesFits
<1>3. ASSUME NEW r \in Path, Entered(p, r)
      PROVE  \A q \in Page : Fits(q)'
  <2> DEFINE new == [page[p] EXCEPT !.route = r]
  <2>1. new \in PageState /\ new.at = page[p].at /\ Becomes(p, new) /\ UNCHANGED boot
    BY <1>0, <1>3 DEF Entered, PageState
  <2> HIDE DEF new
  <2> QED
    BY <2>1, BecomesFits
<1>4. CASE SignIn(p)
  <2> DEFINE new == [page[p] EXCEPT !.session = login[p].id, !.intended = None]
  <2>1. Becomes(p, new) /\ UNCHANGED boot /\ LoginArrives(p)
    BY <1>4 DEF SignIn
  <2>2. new \in PageState /\ new.at = page[p].at
    BY <1>0, <2>1 DEF LoginArrives, PageState, Login
  <2> HIDE DEF new
  <2> QED
    BY <2>1, <2>2, BecomesFits
<1> QED
  BY <1>1, <1>2, <1>3, <1>4

LEMMA QuitFits ==
  ASSUME TInv, cookie' \in Id \cup {None}, NEW q \in Quit, SignOut(q) \/ SignOutUnheard(q)
  PROVE  \A r \in Page : Fits(r)'
<1> DEFINE p == logout[q].page
           new == LeftBehind(page[p])
<1>1. /\ p \in Page /\ Becomes(p, new) /\ new \in PageState
      /\ page[p] \in PageState /\ UNCHANGED boot
  BY QuitBecomes DEF TInv, HInv, WInv, PageTypes, SignOut, SignOutUnheard, SignedOut
<1>2. new.at = page[p].at
  BY <1>1 DEF LeftBehind, PageState
<1> HIDE DEF new
<1> QED
  BY <1>1, <1>2, BecomesFits

LEMMA OpenedPage ==
  ASSUME page \in [Page -> PageState], NEW p \in Page, NEW r, Open(p, r)
  PROVE  page' = [page EXCEPT ![p] = [page[p] EXCEPT !.at = "boot", !.address = r]]
<1> DEFINE one == [page EXCEPT ![p].at = "boot"]
<1>1. one[p] = [page[p] EXCEPT !.at = "boot"]
  OBVIOUS
<1>2. page' = [one EXCEPT ![p].address = r]
  BY DEF Open
<1>3. [one EXCEPT ![p].address = r] = [page EXCEPT ![p] = [one[p] EXCEPT !.address = r]]
  OBVIOUS
<1> QED
  BY <1>1, <1>2, <1>3 DEF PageState

LEMMA WaitingFits ==
  ASSUME TInv, NEW p \in Page,
         \/ \E r \in Address[p] : Open(p, r)
         \/ \E r \in View : Navigate(p, r)
         \/ \E o \in Offer[p] : SubmitForm(p, o)
         \/ FormFails(p)
         \/ \E q \in Quit : ClickLogout(p, q)
         \/ \E k \in LiveView : LiveArrives(p, k)
  PROVE  \A q \in Page : Fits(q)'
<1>0. /\ page \in [Page -> PageState] /\ boot \in [Page -> Id \cup {"none", "refused"}]
      /\ \A q \in Page : Fits(q)
  BY DEF TInv, HInv, WInv, PageTypes
<1>1. ASSUME NEW r \in Address[p], Open(p, r)
      PROVE  \A q \in Page : Fits(q)'
  <2> DEFINE new == [page[p] EXCEPT !.at = "boot", !.address = r]
  <2>1. UNCHANGED <<view, call>> /\ page' = [page EXCEPT ![p] = new]
    <3>1. UNCHANGED <<view, call>>
      BY <1>1 DEF Open, browserVars
    <3>2. page' = [page EXCEPT ![p] = [page[p] EXCEPT !.at = "boot", !.address = r]]
      BY <1>0, <1>1, OpenedPage
    <3> QED
      BY <3>1, <3>2 DEF new
  <2>2. \A q \in Page : q # p => boot'[q] = boot[q]
    <3>1. boot' = [boot EXCEPT ![p] = IF Valid(cookie) THEN cookie ELSE "refused"]
      BY <1>1 DEF Open
    <3> QED
      BY <1>0, <3>1
  <2>3. new.at = "boot"
    BY <1>0 DEF PageState
  <2> HIDE DEF new
  <2>4. page'[p].at = "boot" /\ \A q \in Page : q # p => page'[q] = page[q]
    BY <1>0, <2>1, <2>3
  <2>5. page[p].at = "closed"
    BY <1>1 DEF Open
  <2>6. Fits(p)'
    BY <1>0, <2>1, <2>4, <2>5 DEF Fits, Shown
  <2> QED
    BY <1>0, <2>1, <2>2, <2>4, <2>6, FitsStays
<1>2. ASSUME NEW k, LiveArrives(p, k)
      PROVE  \A q \in Page : Fits(q)'
  <2>1. UNCHANGED <<view, boot, call>>
    BY <1>2 DEF LiveArrives, authVars, browserVars
  <2>2. \A q \in Page : page'[q].at = page[q].at /\ page'[q].route = page[q].route
    BY <1>0, <1>2 DEF LiveArrives, PageState
  <2> QED
    BY <1>0, <2>1, <2>2 DEF Fits, Shown
<1>3. CASE ~(\E r \in Address[p] : Open(p, r)) /\ ~(\E k \in LiveView : LiveArrives(p, k))
  <2>1. UNCHANGED <<view, page, boot, call>>
    BY <1>3 DEF Navigate, SubmitForm, FormFails, ClickLogout, authVars, browserVars, webVars
  <2> QED
    BY <1>0, <2>1, FitsStays
<1> QED
  BY <1>1, <1>2, <1>3

LEMMA AnswerFits ==
  ASSUME TInv, NEW p \in Page, Renders(p) \/ ShowsError(p)
  PROVE  \A q \in Page : Fits(q)'
<1>0. /\ view \in [Page -> ViewState] /\ call \in [Page -> Call \cup {None}]
      /\ \A q \in Page : Fits(q)
  BY DEF TInv, HInv, WInv, PageTypes, Inv, AuthTypeOK
<1>1. call[p] # None /\ call' = [call EXCEPT ![p] = None] /\ UNCHANGED <<page, boot>>
  BY DEF Renders, ShowsError, CallArrives, GuardRefuses, CallFails
<1>2. view'[p].status \in {"complete", "error"} /\ \A q \in Page : q # p => view'[q] = view[q]
  BY <1>0, ViewTypes DEF Renders, ShowsError
<1>3. Fits(p)'
  BY <1>0, <1>1, <1>2 DEF Fits, Shown
<1>4. ASSUME NEW q \in Page, q # p
      PROVE  Fits(q)'
  BY <1>0, <1>1, <1>2, <1>4, FitsStays
<1> QED
  BY <1>3, <1>4

LEMMA BffFits ==
  ASSUME TInv, (\E p \in Page : BffStep(p)) \/ (\E q \in Quit : Quits(q)) \/ ItEnds \/ UNCHANGED vars
  PROVE  \A q \in Page : Fits(q)'
<1>0. /\ call \in [Page -> Call \cup {None}]
      /\ \A q \in Page : Fits(q)
  BY DEF TInv, HInv, WInv, PageTypes, Inv, AuthTypeOK
<1>1. UNCHANGED <<view, page, boot>>
  BY DEF BffStep, Quits, ItEnds, vars, webVars
<1>2. \A q \in Page : call'[q] # None <=> call[q] # None
  <2>1. CASE UNCHANGED call
    BY <2>1
  <2>2. Inv
    BY DEF TInv, HInv, WInv
  <2>3. CASE ItEnds \/ UNCHANGED vars
    BY <2>1, <2>3 DEF ItEnds, Expire, DropCookie, browserVars, vars, authVars
  <2> QED
    BY <2>1, <2>2, <2>3, CallsStay DEF BffStep, Accept, Quits, ServeLogout
<1> QED
  BY <1>0, <1>1, <1>2, FitsStays

LEMMA RestartFits ==
  ASSUME TInv, Restarts
  PROVE  \A q \in Page : Fits(q)'
<1>1. ASSUME NEW q \in Page
      PROVE  Fits(q)'
  <2>1. Fits(q) /\ UNCHANGED <<page, boot>> /\ call'[q] \in {call[q], None}
    BY DEF TInv, Restarts, Restart
  <2>2. view'[q] = IF call[q] # call'[q] THEN Error ELSE view[q]
    BY DEF Restarts
  <2> QED
    BY <2>1, <2>2, ViewTypes DEF Fits, Shown
<1> QED
  BY <1>1

(* Which routes are being loaded, and what the user has done so far.       *)
LEMMA NextMoves ==
  ASSUME TInv, [Next]_vars
  PROVE  entering' \in [Page -> SUBSET Path] /\ moves' \in 0..MaxMoves
<1>0. /\ entering \in [Page -> SUBSET Path] /\ moves \in 0..MaxMoves /\ MaxMoves \in Nat
      /\ page \in [Page -> PageState]
  BY WebConstants DEF TInv, HInv, WInv, PageTypes
<1>1. ASSUME Acts
      PROVE  moves' \in 0..MaxMoves
  BY <1>0, <1>1 DEF Acts
<1>2. ASSUME NEW p \in Page, NEW r \in Path, Enters(p, r)
      PROVE  entering' \in [Page -> SUBSET Path]
  BY <1>0, <1>2 DEF Enters
<1>3. ASSUME NEW p \in Page, PageStep(p)
      PROVE  entering' \in [Page -> SUBSET Path] /\ moves' \in 0..MaxMoves
  <2>0. Home \in Path /\ "login" \in Path /\ View \subseteq Path /\ Address[p] \subseteq Path
    BY WebConstants DEF Path
  <2>1. CASE \E r \in Address[p] : Open(p, r)
    BY <1>1, <1>2, <2>0, <2>1 DEF Open
  <2>2. CASE \E r \in Path : Entered(p, r)
    BY <1>0, <2>2 DEF Entered
  <2>3. CASE \E r \in View : Navigate(p, r)
    BY <1>1, <1>2, <2>0, <2>3 DEF Navigate
  <2>4. CASE BootSucceeds(p)
    BY <1>0, <2>4 DEF BootSucceeds, Booted
  <2>5. CASE BootFails(p)
    BY <1>0, <1>2, <2>0, <2>5 DEF BootFails, Booted
  <2>6. CASE (\E o \in Offer[p] : SubmitForm(p, o)) \/ (\E q \in Quit : ClickLogout(p, q))
    BY <1>0, <1>1, <2>6 DEF SubmitForm, ClickLogout
  <2>7. CASE SignIn(p)
    <3> DEFINE to == IF page[p].intended = None THEN Home ELSE page[p].intended
    <3>1. to \in Path
      BY <1>0, <2>0 DEF PageState
    <3>2. Enters(p, to) /\ UNCHANGED moves
      BY <2>7 DEF SignIn
    <3> HIDE DEF to
    <3> QED
      BY <1>0, <1>2, <3>1, <3>2
  <2>8. CASE FormFails(p) \/ Renders(p) \/ ShowsError(p) \/ (\E k \in LiveView : LiveArrives(p, k))
    BY <1>0, <2>8 DEF FormFails, Renders, ShowsError, LiveArrives, webVars
  <2> QED
    BY <1>3, <2>1, <2>2, <2>3, <2>4, <2>5, <2>6, <2>7, <2>8 DEF PageStep
<1>4. ASSUME NEW q \in Quit, SignOut(q) \/ SignOutUnheard(q)
      PROVE  entering' \in [Page -> SUBSET Path] /\ moves' \in 0..MaxMoves
  <2>1. "login" \in Path /\ logout[q].page \in Page
    BY <1>4, QuitBecomes DEF Path, TInv, HInv
  <2> QED
    BY <1>0, <1>2, <1>4, <2>1 DEF SignOut, SignOutUnheard, SignedOut
<1>5. CASE UNCHANGED <<entering, moves>>
  BY <1>0, <1>5
<1> QED
  BY <1>3, <1>4, <1>5 DEF Next, QuitStep, Quits, BffStep, ItEnds, Restarts, vars, webVars

LEMMA NextTInv == TInv /\ [Next]_vars => TInv'
<1> SUFFICES ASSUME TInv, [Next]_vars
             PROVE  TInv'
  OBVIOUS
<1>1. HInv' /\ cookie' \in Id \cup {None}
  <2>1. HInv'
    BY NextHInv DEF TInv
  <2> QED
    BY <2>1 DEF HInv, WInv, Inv, AuthTypeOK
<1>2. \A q \in Page : Fits(q)'
  <2>1. ASSUME NEW p \in Page, PageStep(p)
        PROVE  \A q \in Page : Fits(q)'
    BY <1>1, <2>1, BecomingFits, WaitingFits, AnswerFits DEF PageStep
  <2> QED
    BY <1>1, <2>1, QuitFits, BffFits, RestartFits DEF Next, QuitStep
<1> QED
  BY <1>1, <1>2, NextMoves DEF TInv

(* The types of the pages, with what goes together in them.                *)
THEOREM WebTypesCorrect == Spec => []WebTypeOK
<1>1. ASSUME TInv
      PROVE  WebTypeOK
  <2>1. /\ AuthTypeOK /\ PageTypes /\ entering \in [Page -> SUBSET Path] /\ moves \in 0..MaxMoves
        /\ astray \in [Page -> BOOLEAN] /\ header \in [Quit -> Id \cup {None}]
    BY <1>1 DEF TInv, HInv, WInv, Inv
  <2>2. ASSUME NEW p \in Page
        PROVE  Shown(page[p]) = "login" <=> page[p].at # "ready" \/ page[p].route \in {"login", None}
    BY DEF Shown
  <2> QED
    BY <1>1, <2>1, <2>2 DEF TInv, Fits, PageTypes, WebTypeOK
<1> QED
  BY <1>1, InitTInv, NextTInv, PTL DEF Spec

(* The pages' calls check certificates the way their users have chosen.    *)
THEOREM PagesModesAreAgreed == Spec => []ModeAsAgreed
  BY PagesUseTheStore, ModesAreAgreed, PTL
=============================================================================
