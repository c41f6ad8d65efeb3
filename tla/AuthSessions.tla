---------------------------- MODULE AuthSessions ----------------------------
(***************************************************************************)
(* The session store of the BFF (auth.service.ts, auth.controller.ts), the *)
(* SessionGuard and resolveServerRef of the controllers, with what a       *)
(* browser keeps of a session: one cookie that all its pages share.  A     *)
(* login stores the server before Proxmox has accepted the credentials;    *)
(* a call is guarded first, then waits for the database to tell the host,  *)
(* and only then goes to Proxmox with the ticket of the session.           *)
(***************************************************************************)
EXTENDS Naturals, FiniteSets

CONSTANTS Page,         \* the pages of one browser
          Host, Mode,   \* Proxmox hosts; the ways to check their certificate
          Cut,          \* the hosts whose name has a ":" in it
          Server,       \* ids of KnownServer rows
          Id,           \* session ids (a bound on the logins)
          Key,          \* what a call may ask for
          Offer,        \* the logins the user of each page may try
          Quit,         \* the logouts under way at a time (a bound)
          MaxRestarts,  \* restarts of the BFF (a bound)
          Nowhere,      \* a host that is none
          Free, Gone,   \* a session id that is not used yet, and no longer
          None

ASSUME AuthConstants == /\ "system" \in Mode
                        /\ Cut \subseteq Host
                        /\ Offer \in [Page -> SUBSET [host : Host, mode : Mode, save : BOOLEAN]]
                        /\ MaxRestarts \in Nat
                        /\ Nowhere \notin Host
                        /\ None \notin Host \cup Server \cup Id

VARIABLES row,      \* the rows of KnownServer
          store,    \* AuthService.sessions, Free or Gone where there is none
          restarts,
          cookie,   \* pxa_session in the browser
          login,    \* the login each page has under way
          logout,   \* the logouts under way, of whichever page
          call      \* the latest call of each page's view

bffVars     == <<row, store, restarts>>
browserVars == <<cookie, login, logout, call>>
authVars    == <<bffVars, browserVars>>

Row == [host : Host, mode : Mode]

(* A session: whose ticket it holds (server.host), the row it belongs to   *)
(* (serverId, None when it is "ephemeral:host:port"), the mode agreed on   *)
(* at login, and, for the properties only, whether another login has saved *)
(* another mode for the host since.                                        *)
Session == [host : Host, server : Server \cup {None}, mode : Mode, live : BOOLEAN, overruled : BOOLEAN]
Login == [host : Host, mode : Mode, save : BOOLEAN, phase : {"sent", "stored", "accepted"},
          server : Server \cup {None}, id : Id \cup {None}, overruled : BOOLEAN]
Logout == [page : Page, id : Id \cup {None}, phase : {"sent", "served"}]
Call == [key : Key, id : Id \cup {None}, phase : {"sent", "guarded", "asked"},
         session : Session \cup {None}, host : Host \cup {Nowhere, None}, mode : Mode \cup {None}]

ASSUME NoneIsNothingHere == /\ None \notin Row \cup Session \cup Login \cup Logout \cup Call \cup Mode
                            /\ Free # Gone
                            /\ {Free, Gone} \cap Session = {}

Held(i) == i # None /\ store[i] \notin {Free, Gone}

AuthTypeOK == /\ row \in [Server -> Row \cup {None}]
              /\ store \in [Id -> Session \cup {Free, Gone}]
              /\ restarts \in 0..MaxRestarts
              /\ cookie \in Id \cup {None}
              /\ login \in [Page -> Login \cup {None}]
              /\ logout \in [Quit -> Logout \cup {None}]
              /\ call \in [Page -> Call \cup {None}]
              /\ \A p \in Page : call[p] # None /\ call[p].phase # "sent" => call[p].session # None

AuthInit == /\ row = [s \in Server |-> None]
            /\ store = [i \in Id |-> Free]
            /\ restarts = 0
            /\ cookie = None
            /\ login = [p \in Page |-> None]
            /\ logout = [q \in Quit |-> None]
            /\ call = [p \in Page |-> None]

-----------------------------------------------------------------------------
(* request(): a call of the view that carries the cookie c. *)
NewCall(k, c) == [key |-> k, id |-> c, phase |-> "sent", session |-> None, host |-> None, mode |-> None]

(* What becomes of the call of a page in a step of its own. *)
Follow(p) == \/ UNCHANGED call
             \/ call' = [call EXCEPT ![p] = None]
             \/ \E k \in Key : call' = [call EXCEPT ![p] = NewCall(k, cookie')]

(* LoginView._handleSubmit. *)
Submit(p, o) ==
  /\ login[p] = None
  /\ login' = [login EXCEPT ![p] = [host |-> o.host, mode |-> o.mode, save |-> o.save, phase |-> "sent",
                                    server |-> None, id |-> None, overruled |-> FALSE]]
  /\ UNCHANGED <<bffVars, cookie, logout>>

(* The rows that upsert by (host, port) may end up with. *)
RowsFor(h) == LET found == {s \in Server : row[s] # None /\ row[s].host = h}
              IN IF found # {} THEN found ELSE {s \in Server : row[s] = None}

Overrule(s, m, r) == [r EXCEPT !.overruled = @ \/ (r.server = s /\ r.mode # m)]

(* For the properties: a mode m saved for the row s overrules the others.  *)
Overruled(s, m) ==
  /\ store' = [i \in Id |-> IF Held(i) THEN Overrule(s, m, store[i]) ELSE store[i]]
  /\ call' = [p \in Page |-> IF call[p] # None /\ call[p].phase = "guarded"
                             THEN [call[p] EXCEPT !.session = Overrule(s, m, @)] ELSE call[p]]

(* AuthService.login up to authenticate(): the server is stored, with the  *)
(* mode of this login, or is given an ephemeral id.                        *)
StoreServer(p) ==
  /\ login[p] # None /\ login[p].phase = "sent"
  /\ \/ /\ ~login[p].save
        /\ login' = [login EXCEPT ![p].phase = "stored"]
        /\ UNCHANGED <<row, store, call>>
     \/ /\ login[p].save
        /\ \E s \in RowsFor(login[p].host) :
             /\ row' = [row EXCEPT ![s] = [host |-> login[p].host, mode |-> login[p].mode]]
             /\ Overruled(s, login[p].mode)
             /\ login' = [q \in Page |-> IF q = p THEN [login[p] EXCEPT !.phase = "stored", !.server = s]
                                         ELSE IF login[q] # None /\ login[q].phase = "stored"
                                         THEN Overrule(s, login[p].mode, login[q]) ELSE login[q]]
  /\ UNCHANGED <<restarts, cookie, logout>>

(* The rest of it: Proxmox has accepted, and the session is made.  The     *)
(* audit entry changes nothing that is used again.                         *)
Accept(p) ==
  /\ login[p] # None /\ login[p].phase = "stored"
  /\ \E i \in Id :
       /\ store[i] = Free
       /\ store' = [store EXCEPT ![i] = [host |-> login[p].host, server |-> login[p].server, mode |-> login[p].mode,
                                         live |-> TRUE, overruled |-> login[p].overruled]]
       /\ login' = [login EXCEPT ![p].phase = "accepted", ![p].id = i]
  /\ UNCHANGED <<row, restarts, cookie, logout, call>>

(* The answer of the login reaches the browser, and brings the cookie. *)
LoginArrives(p) ==
  /\ login[p] # None /\ login[p].phase = "accepted"
  /\ cookie' = login[p].id
  /\ login' = [login EXCEPT ![p] = None]
  /\ UNCHANGED <<bffVars, logout>>

(* The login is refused, by the BFF, its database or Proxmox, or else the  *)
(* request or its answer is lost.                                          *)
LoginFails(p) ==
  /\ login[p] # None
  /\ login' = [login EXCEPT ![p] = None]
  /\ UNCHANGED <<bffVars, cookie, logout>>

(* NavRail._logout: the button stays as it is, so that a page may have     *)
(* several logouts under way.                                              *)
AskLogout(p, q) ==
  /\ logout[q] = None
  /\ logout' = [logout EXCEPT ![q] = [page |-> p, id |-> cookie, phase |-> "sent"]]
  /\ UNCHANGED <<bffVars, cookie, login>>

(* A mutant forgets the cookie and not the session. *)
LogoutKeeps(q) == store

StoreAfterLogout(q) == IF logout[q].id = None THEN store ELSE [store EXCEPT ![logout[q].id] = Gone]

(* AuthController.logout. *)
ServeLogout(q) ==
  /\ logout[q] # None /\ logout[q].phase = "sent"
  /\ store' = StoreAfterLogout(q)
  /\ logout' = [logout EXCEPT ![q].phase = "served"]
  /\ UNCHANGED <<row, restarts, cookie, login, call>>

(* clearCookie takes whatever cookie the browser has by then. *)
LogoutArrives(q) ==
  /\ logout[q] # None /\ logout[q].phase = "served"
  /\ cookie' = None
  /\ logout' = [logout EXCEPT ![q] = None]
  /\ UNCHANGED <<bffVars, login>>

LogoutFails(q) ==
  /\ logout[q] # None
  /\ logout' = [logout EXCEPT ![q] = None]
  /\ UNCHANGED <<bffVars, cookie, login>>

-----------------------------------------------------------------------------
(* AuthService.getSession: a session that is over is removed when someone  *)
(* asks for it.                                                            *)
Valid(i) == Held(i) /\ store[i].live
Swept(i) == IF Held(i) /\ ~store[i].live THEN [store EXCEPT ![i] = Gone] ELSE store

(* SessionGuard.canActivate: the session is attached to the request. *)
Guard(p) ==
  /\ call[p] # None /\ call[p].phase = "sent"
  /\ Valid(call[p].id)
  /\ call' = [call EXCEPT ![p].phase = "guarded", ![p].session = store[call[p].id]]
  /\ UNCHANGED <<bffVars, cookie, login, logout>>

(* It throws; the page is told 401. *)
GuardRefuses(p) ==
  /\ call[p] # None /\ call[p].phase = "sent"
  /\ ~Valid(call[p].id)
  /\ store' = Swept(call[p].id)
  /\ call' = [call EXCEPT ![p] = None]
  /\ UNCHANGED <<row, restarts, cookie, login, logout>>

(* A mutant looks the session up again by the cookie when the row is read. *)
SessionByCookie(p) == IF Held(cookie) THEN store[cookie] ELSE call[p].session

SessionOf(p) == call[p].session

(* A mutant does not know the mode of a row. *)
RefToSystem(p) == [host |-> IF SessionOf(p).server # None THEN row[SessionOf(p).server].host ELSE Nowhere,
                   mode |-> "system"]

(* resolveServerRef: the row of the session, or the parts of its ephemeral *)
(* id, which tell no mode, and no host when its name is cut at a ":".      *)
ServerRef(p) ==
  LET s == SessionOf(p) IN
  IF s.server # None THEN row[s.server]
  ELSE [host |-> IF s.host \in Cut THEN Nowhere ELSE s.host, mode |-> "system"]

(* The row has been read, and the call goes to Proxmox. *)
Resolve(p) ==
  /\ call[p] # None /\ call[p].phase = "guarded"
  /\ call' = [call EXCEPT ![p].phase = "asked", ![p].host = ServerRef(p).host, ![p].mode = ServerRef(p).mode]
  /\ UNCHANGED <<bffVars, cookie, login, logout>>

(* Proxmox's answer reaches the page. *)
CallArrives(p) ==
  /\ call[p] # None /\ call[p].phase = "asked" /\ call[p].host # Nowhere
  /\ call' = [call EXCEPT ![p] = None]
  /\ UNCHANGED <<bffVars, cookie, login, logout>>

(* The page is told an error, or nothing at all. *)
CallFails(p) ==
  /\ call[p] # None
  /\ call' = [call EXCEPT ![p] = None]
  /\ UNCHANGED <<bffVars, cookie, login, logout>>

(* GET /auth/session asks for the session of the cookie c. *)
AskSession(c) == /\ store' = Swept(c)
                 /\ UNCHANGED <<row, restarts, browserVars>>

(* Two hours have passed since the login. *)
Expire(i) ==
  /\ Valid(i)
  /\ store' = [store EXCEPT ![i].live = FALSE]
  /\ UNCHANGED <<row, restarts, browserVars>>

(* maxAge, counted from the answer, which is later than the session's. *)
DropCookie ==
  /\ cookie # None
  /\ ~Valid(cookie)
  /\ cookie' = None
  /\ UNCHANGED <<bffVars, login, logout, call>>

(* The BFF is stopped and started: the sessions were in memory, the rows   *)
(* are not.  What waits for the database or for Proxmox on behalf of a     *)
(* page is dropped; what is on its way to or from a page may still arrive. *)
Restart ==
  /\ restarts < MaxRestarts
  /\ restarts' = restarts + 1
  /\ store' = [i \in Id |-> IF store[i] = Free THEN Free ELSE Gone]
  /\ login' = [p \in Page |-> IF login[p] # None /\ login[p].phase = "stored" THEN None ELSE login[p]]
  /\ call' = [p \in Page |-> IF call[p] # None /\ call[p].phase = "guarded" THEN None ELSE call[p]]
  /\ UNCHANGED <<row, cookie, logout>>

LoginStep(p) == \/ \E o \in Offer[p] : Submit(p, o) /\ Follow(p)
                \/ StoreServer(p) \/ Accept(p)
                \/ LoginArrives(p) /\ Follow(p)
                \/ LoginFails(p) /\ Follow(p)
LogoutStep(q) == \/ \E p \in Page : AskLogout(p, q) /\ Follow(p)
                 \/ ServeLogout(q)
                 \/ (LogoutArrives(q) \/ LogoutFails(q)) /\ Follow(logout[q].page)
CallStep(p) == \/ Follow(p) /\ UNCHANGED <<bffVars, cookie, login, logout>>
               \/ Guard(p) \/ GuardRefuses(p) \/ Resolve(p) \/ CallArrives(p) \/ CallFails(p)

AuthNext == \/ \E p \in Page : LoginStep(p) \/ CallStep(p)
            \/ \E q \in Quit : LogoutStep(q)
            \/ \E i \in Id : AskSession(i) \/ Expire(i)
            \/ DropCookie
            \/ Restart

AuthSpec == AuthInit /\ [][AuthNext]_authVars

-----------------------------------------------------------------------------
(* A ticket is sent to the host that has issued it and to no other,        *)
(* although between the guard and the answer of the database the session   *)
(* may end, the cookie may change and the row may be saved again.          *)
TicketStaysHome == \A p \in Page :
  call[p] # None /\ call[p].phase = "asked" => call[p].host \in {call[p].session.host, Nowhere}

(* A host's certificate is checked the way its user has chosen at login,   *)
(* but for two cases: the server was not to be saved, when the choice is   *)
(* forgotten for "system", or another login, which Proxmox may even have   *)
(* refused, has saved another mode for the host since.                     *)
ModeAsAgreed == \A p \in Page :
  call[p] # None /\ call[p].phase = "asked" =>
    \/ call[p].mode = call[p].session.mode
    \/ call[p].session.server = None /\ call[p].mode = "system"
    \/ call[p].session.overruled
=============================================================================
