------------------------------- MODULE WebApp -------------------------------
(***************************************************************************)
(* The pages of a browser over the session store: the boot of app-shell,   *)
(* its router, the login view, the logout of nav-rail and the session      *)
(* signal, with the view of the current route and the latest call of its   *)
(* @lit/task (the views differ in what they call: Endpoints).  A route     *)
(* is entered when its bundle is loaded, which may take any time, and the  *)
(* view is made anew when the route changes, and when the layout around    *)
(* it does, because the page signs in or out.  Some views put the live     *)
(* data of the event stream before the answer of their call.               *)
(***************************************************************************)
EXTENDS AuthSessions, Endpoints

CONSTANTS View,         \* the paths of views that call the BFF
          Home,         \* /dashboard
          LiveView,     \* the views that prefer live data
          Address,      \* where each page may be opened
          MaxMoves      \* what the user does: opens, clicks, sends (a bound)

ASSUME WebConstants == /\ View = Key
                       /\ Home \in View
                       /\ LiveView \subseteq View
                       /\ "login" \notin View
                       /\ {"none", "refused", "worker"} \cap Id = {}
                       /\ Address \in [Page -> SUBSET (View \cup {"login"})]
                       /\ MaxMoves \in Nat

VARIABLES page,         \* what each page knows
          entering,     \* the routes whose bundle is being loaded
          view,         \* the task of the view that is shown
          boot,         \* the answer to getSession, while it is under way
          moves,
          astray,       \* history: the cookie has changed without the page
          header        \* history: the session that a logout was meant for

webVars == <<page, entering, view, boot, moves, astray, header>>
vars == <<authVars, webVars>>

Path == View \cup {"login"}
PageState == [at : {"closed", "boot", "ready"}, address : Path, route : Path \cup {None},
              session : Id \cup {None}, intended : Path \cup {None},
              worker : BOOLEAN,         \* event-stream.ts has a worker
              live : SUBSET LiveView]   \* the views it has live data for
ViewState == [status : {"none", "pending", "complete", "error"}, key : Key \cup {None}, id : Id \cup {None}]
NoView == [status |-> "none", key |-> None, id |-> None]
Pending == [NoView EXCEPT !.status = "pending"]

WebTypeOK == /\ AuthTypeOK
             /\ page \in [Page -> PageState]
             /\ entering \in [Page -> SUBSET Path]
             /\ view \in [Page -> ViewState]
             /\ boot \in [Page -> Id \cup {"none", "refused"}]
             /\ moves \in 0..MaxMoves
             /\ astray \in [Page -> BOOLEAN]
             /\ header \in [Quit -> Id \cup {None}]
             /\ \A p \in Page :
                  /\ view[p].status = "pending" <=> call[p] # None
                  /\ view[p].status = "none" <=> page[p].at # "ready" \/ page[p].route \in {"login", None}
                  /\ page[p].at # "boot" => boot[p] = "none"

Init == /\ AuthInit
        /\ page = [p \in Page |-> [at |-> "closed", address |-> Home, route |-> None,
                                   session |-> None, intended |-> None, worker |-> FALSE, live |-> {}]]
        /\ entering = [p \in Page |-> {}]
        /\ view = [p \in Page |-> NoView]
        /\ boot = [p \in Page |-> "none"]
        /\ moves = 0
        /\ astray = [p \in Page |-> FALSE]
        /\ header = [q \in Quit |-> None]

-----------------------------------------------------------------------------
(* A mutant does not wait for _boot. *)
ShownAtOnce(s) == IF s.route # None THEN s.route ELSE "login"

(* What the router's outlet shows: nothing while the page boots. *)
Shown(s) == IF s.at = "ready" /\ s.route # None THEN s.route ELSE "login"

(* Mutants forget the layout around the view, or the change of the route. *)
SameRoute(s, new) == Shown(s) = Shown(new)
SameLayout(s, new) == (Shown(s) = "login") = (Shown(new) = "login") /\ (s.session = None) = (new.session = None)

(* The view is kept when neither its route nor the layout changes: Lit     *)
(* renders the same template, and the task has the same arguments.         *)
SameView(s, new) == Shown(s) = Shown(new) /\ (s.session = None) = (new.session = None)

(* The page p becomes new: its view is kept, or goes, or is made, and its  *)
(* task calls the BFF with the cookie of that moment.  What an earlier     *)
(* call brings is nobody's.                                                *)
Becomes(p, new) ==
  /\ page' = [page EXCEPT ![p] = new]
  /\ CASE SameView(page[p], new) -> UNCHANGED <<view, call>>
       [] ~SameView(page[p], new) /\ Shown(new) = "login" ->
            /\ view' = [view EXCEPT ![p] = NoView]
            /\ call' = [call EXCEPT ![p] = None]
       [] OTHER ->
            /\ view' = [view EXCEPT ![p] = Pending]
            /\ call' = [call EXCEPT ![p] = NewCall(Shown(new), cookie')]

Enters(p, r) == entering' = [entering EXCEPT ![p] = @ \cup {r}]

(* The cookie is not what the other pages think it is. *)
Strays(p) == astray' = [q \in Page |-> astray[q] \/ (q # p /\ page[q].at # "closed")]

Acts == moves < MaxMoves /\ moves' = moves + 1

(* The page is opened at some address; the router enters its route while   *)
(* _boot asks who is signed in, with the cookie that there is.             *)
Open(p, u) ==
  /\ page[p].at = "closed"
  /\ Acts
  /\ page' = [page EXCEPT ![p].at = "boot", ![p].address = u]
  /\ Enters(p, u)
  /\ boot' = [boot EXCEPT ![p] = IF Valid(cookie) THEN cookie ELSE "refused"]
  /\ store' = Swept(cookie)
  /\ UNCHANGED <<row, restarts, browserVars, view, astray, header>>

Booted(p) == /\ page[p].at = "boot"
             /\ boot' = [boot EXCEPT ![p] = "none"]
             /\ UNCHANGED <<bffVars, cookie, login, logout, moves, header>>

(* getSession has an answer: the page shows what it was opened for, and is *)
(* connected to the event stream.                                          *)
BootSucceeds(p) ==
  /\ Booted(p)
  /\ boot[p] \in Id
  /\ UNCHANGED <<entering, astray>>
  /\ Becomes(p, [page[p] EXCEPT !.at = "ready", !.session = boot[p], !.worker = TRUE])

(* It is a refusal, or there is none: the address is kept for later, in    *)
(* both cases, and the page goes to the login view.                        *)
BootFails(p) ==
  /\ Booted(p)
  /\ astray' = [astray EXCEPT ![p] = @ \/ boot[p] # "refused"]
  /\ Enters(p, "login")
  /\ Becomes(p, [page[p] EXCEPT !.at = "ready",
                                !.intended = IF page[p].address = "login" THEN @ ELSE page[p].address])

(* The bundle of a route is there: the router shows the route.  When       *)
(* several are being loaded, the last to come is what stays.               *)
Entered(p, r) ==
  /\ r \in entering[p]
  /\ entering' = [entering EXCEPT ![p] = @ \ {r}]
  /\ UNCHANGED <<bffVars, cookie, login, logout, boot, moves, astray, header>>
  /\ Becomes(p, [page[p] EXCEPT !.route = r])

(* The navigation is there for a page that is signed in. *)
Navigate(p, r) ==
  /\ page[p].at = "ready" /\ page[p].session # None
  /\ Acts
  /\ Enters(p, r)
  /\ UNCHANGED <<authVars, page, boot, astray, header, view>>

(* The login view sends its form; it is on the page. *)
SubmitForm(p, o) ==
  /\ page[p].at = "ready" /\ page[p].route = "login"
  /\ Submit(p, o)
  /\ Acts
  /\ UNCHANGED <<call, page, entering, view, boot, astray, header>>

(* The session signal is set, and the page goes where it was to go: when   *)
(* it was signed in already and is there, its view is kept.                *)
SignIn(p) ==
  /\ LoginArrives(p)
  /\ LET to == IF page[p].intended = None THEN Home ELSE page[p].intended IN
       /\ Enters(p, to)
       /\ astray' = [q \in Page |-> IF q = p THEN page[p].session # None ELSE astray[q] \/ page[q].at # "closed"]
       /\ UNCHANGED <<boot, moves, header>>
       /\ Becomes(p, [page[p] EXCEPT !.session = login[p].id, !.intended = None])

FormFails(p) == LoginFails(p) /\ UNCHANGED <<call, webVars>>

(* The button of nav-rail; header is what the user wants to be out of, if  *)
(* the page knows its cookie.                                              *)
ClickLogout(p, q) ==
  /\ page[p].at = "ready" /\ page[p].session # None
  /\ AskLogout(p, q)
  /\ Acts
  /\ header' = [header EXCEPT ![q] = IF astray[p] THEN None ELSE page[p].session]
  /\ UNCHANGED <<call, page, entering, view, boot, astray>>

(* clearSession, whether or not the BFF has heard of the logout, and       *)
(* whoever is signed in by then.  The live data stay.                      *)
SignedOut(p) == /\ Enters(p, "login")
                /\ UNCHANGED <<boot, moves>>
                /\ Becomes(p, [page[p] EXCEPT !.session = None, !.worker = FALSE])

Answered(q) == header' = [header EXCEPT ![q] = None]

SignOut(q) == /\ LogoutArrives(q)
              /\ Strays(logout[q].page)
              /\ Answered(q)
              /\ SignedOut(logout[q].page)

SignOutUnheard(q) == /\ LogoutFails(q)
                     /\ astray' = [astray EXCEPT ![logout[q].page] = TRUE]
                     /\ Answered(q)
                     /\ SignedOut(logout[q].page)

-----------------------------------------------------------------------------
(* The task of the view has its answer, or an error: a 401 is one like     *)
(* another, and signs nobody out.                                          *)
Renders(p) ==
  /\ CallArrives(p)
  /\ view' = [view EXCEPT ![p] = [status |-> "complete", key |-> call[p].key, id |-> call[p].id]]
  /\ UNCHANGED <<page, entering, boot, moves, astray, header>>

(* The stream brings what the view k prefers to its answer: the polling    *)
(* worker's account has seen it, whoever is signed in.                     *)
LiveArrives(p, k) ==
  /\ page[p].worker
  /\ page' = [page EXCEPT ![p].live = @ \cup {k}]
  /\ UNCHANGED <<authVars, entering, view, boot, moves, astray, header>>

Error == [NoView EXCEPT !.status = "error"]
ShowsError(p) ==
  /\ GuardRefuses(p) \/ CallFails(p)
  /\ view' = [view EXCEPT ![p] = Error]
  /\ UNCHANGED <<page, entering, boot, moves, astray, header>>

(* What goes on without the pages; a session that ends or a cookie that    *)
(* goes is not told to them either.                                        *)
BffStep(p) == (StoreServer(p) \/ Accept(p) \/ Guard(p) \/ Resolve(p)) /\ UNCHANGED webVars
Quits(q) == ServeLogout(q) /\ UNCHANGED webVars
ItEnds == ((\E i \in Id : Expire(i)) \/ DropCookie) /\ UNCHANGED webVars
Restarts == /\ Restart
            /\ view' = [p \in Page |-> IF call[p] # call'[p] THEN Error ELSE view[p]]
            /\ UNCHANGED <<page, entering, boot, moves, astray, header>>

PageStep(p) == \/ \E r \in Address[p] : Open(p, r)
               \/ \E r \in Path : Entered(p, r)
               \/ \E r \in View : Navigate(p, r)
               \/ BootSucceeds(p) \/ BootFails(p)
               \/ \E o \in Offer[p] : SubmitForm(p, o)
               \/ SignIn(p) \/ FormFails(p)
               \/ \E q \in Quit : ClickLogout(p, q)
               \/ Renders(p) \/ ShowsError(p)
               \/ \E k \in LiveView : LiveArrives(p, k)

QuitStep(q) == SignOut(q) \/ SignOutUnheard(q) \/ Quits(q)

Next == \/ \E p \in Page : PageStep(p) \/ BffStep(p)
        \/ \E q \in Quit : QuitStep(q)
        \/ ItEnds
        \/ Restarts

Spec == Init /\ [][Next]_vars

-----------------------------------------------------------------------------
(* What a view shows is what its route asks for, whatever the order in     *)
(* which bundles and answers have come.                                    *)
ShowsItsRoute == \A p \in Page : view[p].status = "complete" => view[p].key = page[p].route

(* Whose data a view shows: the answer is of the session that its call was *)
(* made with, the live data are of the polling worker's host.              *)
Sources(p) == IF view[p].status # "complete" THEN {}
              ELSE {view[p].id} \cup (IF view[p].key \in page[p].live THEN {"worker"} ELSE {})

(* The data under a header are those of the session that the header names, *)
(* but for the live ones, which are the same for every session, and a page *)
(* that is signed out shows none, not even live ones it has kept.  Except  *)
(* that the cookie, which is all that a call carries, has changed by       *)
(* another page's login or logout, or the page was signed out without      *)
(* hearing from the BFF, or has signed in twice.                           *)
DataIsOfTheHeader == \A p \in Page : ~astray[p] =>
  /\ Sources(p) \subseteq {page[p].session, "worker"}
  /\ page[p].session = None => Sources(p) = {}

(* Once the BFF has served a logout nobody can use the session that the    *)
(* header showed when the user asked for it, under the same proviso,       *)
(* however many logouts the page has under way and whoever has signed in   *)
(* since.  (It is not said to be gone: a cookie that is over takes no      *)
(* session with it, and the store keeps its ticket and its password.)      *)
LogoutEndsTheSession == \A q \in Quit :
  logout[q] # None /\ logout[q].phase = "served" /\ header[q] # None => ~Valid(header[q])
=============================================================================
