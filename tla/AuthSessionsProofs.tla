------------------------- MODULE AuthSessionsProofs -------------------------
(***************************************************************************)
(* Theorems about AuthSessions, for any pages, hosts, rows, logins and     *)
(* number of sessions: the types, and where tickets go.  Of the steps of   *)
(* the pages nothing is assumed but that a call is made anew, kept or      *)
(* dropped in a step of its page (Follow).                                 *)
(***************************************************************************)
EXTENDS AuthSessions, TLAPS

LEMMA NoneIsNot ==
  /\ None \notin Row /\ None \notin Session /\ None \notin Login /\ None \notin Logout /\ None \notin Call
  /\ None \notin Id /\ None \notin Server /\ None \notin Host /\ Nowhere \notin Host
  /\ Free \notin Session /\ Gone \notin Session
  BY NoneIsNothingHere, AuthConstants

(* The steps of a page about its call. *)
CallTypes == /\ call \in [Page -> Call \cup {None}]
             /\ \A p \in Page : call[p] # None /\ call[p].phase # "sent" => call[p].session # None

LEMMA FollowTypes ==
  ASSUME CallTypes, cookie' \in Id \cup {None}, NEW p \in Page, Follow(p)
  PROVE  CallTypes'
<1>1. \A k \in Key : NewCall(k, cookie') \in Call /\ NewCall(k, cookie').phase = "sent"
  BY DEF NewCall, Call
<1>2. call' \in [Page -> Call \cup {None}]
  BY <1>1 DEF Follow, CallTypes
<1>3. ASSUME NEW q \in Page, call'[q] # None, call'[q].phase # "sent" PROVE call'[q] = call[q]
  BY <1>1, <1>3 DEF Follow, CallTypes
<1> QED
  BY <1>2, <1>3 DEF CallTypes

LEMMA OverruleTypes ==
  /\ \A s, m : \A r \in Session : Overrule(s, m, r) \in Session
  /\ \A s, m : \A r \in Login : Overrule(s, m, r) \in Login
<1>1. ASSUME NEW s, NEW m, NEW r \in Session
      PROVE  Overrule(s, m, r) \in Session
  <2> DEFINE b == r.overruled \/ (r.server = s /\ r.mode # m)
  <2>1. b \in BOOLEAN
    BY DEF Session
  <2>2. Overrule(s, m, r) = [r EXCEPT !.overruled = b]
    BY DEF Overrule
  <2> HIDE DEF b
  <2> QED
    BY <2>1, <2>2 DEF Session
<1>2. ASSUME NEW s, NEW m, NEW r \in Login
      PROVE  Overrule(s, m, r) \in Login
  <2> DEFINE b == r.overruled \/ (r.server = s /\ r.mode # m)
  <2>1. b \in BOOLEAN
    BY DEF Login
  <2>2. Overrule(s, m, r) = [r EXCEPT !.overruled = b]
    BY DEF Overrule
  <2> HIDE DEF b
  <2> QED
    BY <2>1, <2>2 DEF Login
<1> QED
  BY <1>1, <1>2

LEMMA OverruledTypes ==
  ASSUME AuthTypeOK, NEW s, NEW m, Overruled(s, m)
  PROVE  store' \in [Id -> Session \cup {Free, Gone}] /\ CallTypes'
<1>1. ASSUME NEW i \in Id, Held(i) PROVE Overrule(s, m, store[i]) \in Session
  BY <1>1, OverruleTypes DEF Held, AuthTypeOK
<1>2. store' \in [Id -> Session \cup {Free, Gone}]
  BY <1>1 DEF Overruled, AuthTypeOK
<1>3. ASSUME NEW p \in Page, call[p] # None, call[p].phase = "guarded"
      PROVE  /\ [call[p] EXCEPT !.session = Overrule(s, m, @)] \in Call
             /\ [call[p] EXCEPT !.session = Overrule(s, m, @)].session # None
  <2> DEFINE r == Overrule(s, m, call[p].session)
  <2>1. call[p] \in Call /\ call[p].session \in Session
    BY <1>3 DEF AuthTypeOK, Call
  <2>2. r \in Session /\ r # None
    BY <2>1, OverruleTypes, NoneIsNot
  <2> HIDE DEF r
  <2>3. [call[p] EXCEPT !.session = r] \in Call /\ [call[p] EXCEPT !.session = r].session # None
    BY <2>1, <2>2 DEF Call
  <2> QED
    BY <2>3 DEF r
<1> DEFINE new == [p \in Page |-> IF call[p] # None /\ call[p].phase = "guarded"
                                  THEN [call[p] EXCEPT !.session = Overrule(s, m, @)] ELSE call[p]]
<1>4. call' = new
  BY DEF Overruled
<1>5. \A p \in Page : /\ new[p] \in Call \cup {None}
                      /\ new[p] # None /\ new[p].phase # "sent" => new[p].session # None
  BY <1>3 DEF AuthTypeOK
<1> HIDE DEF new
<1>6. new \in [Page -> Call \cup {None}]
  BY <1>5 DEF new
<1> QED
  BY <1>2, <1>4, <1>5, <1>6 DEF CallTypes

-----------------------------------------------------------------------------
(* A row keeps the host it was made for: what has learnt its id before the *)
(* database is asked for it will find that host.                           *)
Known(srv, h) == srv # None => row[srv] # None /\ row[srv].host = h

Homes == /\ \A i \in Id : Held(i) => Known(store[i].server, store[i].host)
         /\ \A p \in Page : login[p] # None => Known(login[p].server, login[p].host)
         /\ \A p \in Page : call[p] # None /\ call[p].phase # "sent"
                           => Known(call[p].session.server, call[p].session.host)

Inv == AuthTypeOK /\ Homes /\ TicketStaysHome

LEMMA InitInv == AuthInit => Inv
  BY AuthConstants DEF AuthInit, Inv, AuthTypeOK, Homes, TicketStaysHome, Held

LEMMA KnownStays ==
  ASSUME UNCHANGED row
  PROVE  \A srv, h : Known(srv, h)' <=> Known(srv, h)
  BY DEF Known

(* A step that leaves the rows, the sessions and the logins alone, and     *)
(* does no more to the calls than its page may.                            *)
LEMMA FollowKeeps ==
  ASSUME Inv, NEW p \in Page, Follow(p), cookie' \in Id \cup {None}, UNCHANGED bffVars,
         login' \in [Page -> Login \cup {None}], logout' \in [Quit -> Logout \cup {None}],
         \A q \in Page : login'[q] # None => login'[q] = login[q] \/ login'[q].server = None
  PROVE  Inv'
<1>1. CallTypes'
  BY FollowTypes DEF Inv, AuthTypeOK, CallTypes
<1>2. AuthTypeOK'
  BY <1>1 DEF Inv, AuthTypeOK, CallTypes, bffVars
<1>3. ASSUME NEW q \in Page, call'[q] # None, call'[q].phase # "sent" PROVE call'[q] = call[q]
  <2>1. \A k \in Key : NewCall(k, cookie').phase = "sent"
    BY DEF NewCall
  <2> QED
    BY <1>3, <2>1 DEF Follow, Inv, AuthTypeOK
<1>4. Homes'
  <2>1. \A i \in Id : Held(i)' => Known(store[i].server, store[i].host)'
    BY DEF Inv, Homes, Held, Known, bffVars
  <2>2. ASSUME NEW q \in Page, login'[q] # None PROVE Known(login[q].server, login[q].host)'
    BY <2>2 DEF Inv, Homes, Known, bffVars
  <2>3. ASSUME NEW q \in Page, call'[q] # None, call'[q].phase # "sent"
        PROVE  Known(call[q].session.server, call[q].session.host)'
    BY <2>3, <1>3 DEF Inv, Homes, Known, bffVars
  <2> QED
    BY <2>1, <2>2, <2>3 DEF Homes
<1>5. TicketStaysHome'
  BY <1>3 DEF TicketStaysHome, Inv
<1> QED
  BY <1>2, <1>4, <1>5 DEF Inv

LEMMA PageSteps ==
  ASSUME Inv, NEW p \in Page,
         \/ \E o \in Offer[p] : Submit(p, o) /\ Follow(p)
         \/ LoginArrives(p) /\ Follow(p)
         \/ LoginFails(p) /\ Follow(p)
         \/ Follow(p) /\ UNCHANGED <<bffVars, cookie, login, logout>>
  PROVE  Inv'
<1>0. AuthTypeOK
  BY DEF Inv
<1>1. ASSUME NEW o \in Offer[p], Submit(p, o), Follow(p) PROVE Inv'
  <2>1. o \in [host : Host, mode : Mode, save : BOOLEAN]
    BY AuthConstants
  <2> DEFINE new == [host |-> o.host, mode |-> o.mode, save |-> o.save, phase |-> "sent",
                     server |-> None, id |-> None, overruled |-> FALSE]
  <2>2. new \in Login /\ new.server = None
    BY <2>1 DEF Login
  <2>3. login' = [login EXCEPT ![p] = new]
    BY <1>1 DEF Submit
  <2> HIDE DEF new
  <2>4. login' \in [Page -> Login \cup {None}] /\ \A q \in Page : login'[q] = login[q] \/ login'[q].server = None
    BY <2>2, <2>3, <1>0 DEF AuthTypeOK
  <2> QED
    BY <1>0, <1>1, <2>4, FollowKeeps DEF Submit, AuthTypeOK
<1>2. ASSUME LoginArrives(p), Follow(p) PROVE Inv'
  <2>1. cookie' \in Id \cup {None}
    BY <1>0, <1>2 DEF LoginArrives, AuthTypeOK, Login
  <2> QED
    BY <1>0, <1>2, <2>1, FollowKeeps DEF LoginArrives, AuthTypeOK
<1>3. ASSUME LoginFails(p), Follow(p) PROVE Inv'
  BY <1>0, <1>3, FollowKeeps DEF LoginFails, AuthTypeOK
<1>4. ASSUME Follow(p), UNCHANGED <<bffVars, cookie, login, logout>> PROVE Inv'
  BY <1>0, <1>4, FollowKeeps DEF AuthTypeOK
<1> QED
  BY <1>1, <1>2, <1>3, <1>4

-----------------------------------------------------------------------------
(* upsert finds the row of the host or makes one: the row that is written  *)
(* is of that host, and no row changes hosts.                              *)
LEMMA UpsertKeepsHosts ==
  ASSUME AuthTypeOK, NEW h \in Host, NEW m \in Mode, NEW s \in RowsFor(h),
         row' = [row EXCEPT ![s] = [host |-> h, mode |-> m]]
  PROVE  /\ row' \in [Server -> Row \cup {None}]
         /\ s \in Server /\ row'[s] # None /\ row'[s].host = h
         /\ \A srv \in Server \cup {None} : \A k : Known(srv, k) => Known(srv, k)'
<1>1. s \in Server /\ (row[s] = None \/ row[s].host = h)
  BY DEF RowsFor
<1>2. [host |-> h, mode |-> m] \in Row /\ [host |-> h, mode |-> m] # None
  BY NoneIsNot DEF Row
<1>3. row' \in [Server -> Row \cup {None}]
  BY <1>1, <1>2 DEF AuthTypeOK
<1>4. row'[s] # None /\ row'[s].host = h
  BY <1>1, <1>2 DEF Known, AuthTypeOK
<1>5. ASSUME NEW srv \in Server, NEW k, Known(srv, k) PROVE Known(srv, k)'
  <2>1. CASE srv = s
    BY <1>1, <1>2, <1>5, <2>1, NoneIsNot DEF Known, AuthTypeOK
  <2>2. CASE srv # s
    BY <1>5, <2>2 DEF Known, AuthTypeOK
  <2> QED
    BY <2>1, <2>2
<1> QED
  BY <1>1, <1>3, <1>4, <1>5 DEF Known

(* Marking what a login has overruled changes no host and no row.          *)
LEMMA OverruleKeeps ==
  /\ \A s, m : \A r \in Session \cup Login : /\ Overrule(s, m, r).host = r.host
                                             /\ Overrule(s, m, r).server = r.server
  /\ \A s, m : \A r \in Login : Overrule(s, m, r).phase = r.phase
  BY DEF Overrule, Session, Login

LEMMA StoreServerInv ==
  ASSUME Inv, NEW p \in Page, StoreServer(p)
  PROVE  Inv'
<1> USE DEF Inv
<1>1. login[p] \in Login
  BY DEF StoreServer, AuthTypeOK
<1>2. CASE ~login[p].save
  <2>1. /\ UNCHANGED <<row, store, call, restarts, cookie, logout>>
        /\ login' = [login EXCEPT ![p].phase = "stored"]
    BY <1>2 DEF StoreServer
  <2>2. login' \in [Page -> Login \cup {None}]
    BY <1>1, <2>1 DEF AuthTypeOK, Login
  <2>3. ASSUME NEW q \in Page, login'[q] # None
        PROVE  login[q] # None /\ login'[q].server = login[q].server /\ login'[q].host = login[q].host
    BY <1>1, <2>1, <2>3, NoneIsNot DEF AuthTypeOK, Login
  <2> QED
    BY <2>1, <2>2, <2>3 DEF AuthTypeOK, Homes, Known, TicketStaysHome, Held
<1>3. CASE login[p].save
  <2> DEFINE h == login[p].host
             m == login[p].mode
  <2>1. h \in Host /\ m \in Mode
    BY <1>1 DEF Login
  <2>2. PICK s \in RowsFor(h) :
          /\ row' = [row EXCEPT ![s] = [host |-> h, mode |-> m]]
          /\ Overruled(s, m)
          /\ login' = [q \in Page |-> IF q = p THEN [login[p] EXCEPT !.phase = "stored", !.server = s]
                                      ELSE IF login[q] # None /\ login[q].phase = "stored"
                                      THEN Overrule(s, m, login[q]) ELSE login[q]]
    BY <1>3 DEF StoreServer
  <2>3. /\ row' \in [Server -> Row \cup {None}]
        /\ s \in Server /\ row'[s] # None /\ row'[s].host = h
        /\ \A srv \in Server \cup {None} : \A k : Known(srv, k) => Known(srv, k)'
    BY <2>1, <2>2, UpsertKeepsHosts
  <2>4. store' \in [Id -> Session \cup {Free, Gone}] /\ CallTypes'
    BY <2>2, OverruledTypes
  <2>5. [login[p] EXCEPT !.phase = "stored", !.server = s] \in Login
    BY <1>1, <2>3 DEF Login
  <2>6. \A q \in Page : login[q] # None => login[q] \in Login
    BY DEF AuthTypeOK
  <2>7. login' \in [Page -> Login \cup {None}]
    BY <2>2, <2>5, <2>6, OverruleTypes DEF AuthTypeOK
  <2>8. AuthTypeOK'
    BY <2>3, <2>4, <2>7 DEF AuthTypeOK, StoreServer, CallTypes
  <2>9. ASSUME NEW i \in Id, Held(i)' PROVE Known(store[i].server, store[i].host)'
    <3>1. Held(i) /\ store[i] \in Session
      BY <2>2, <2>9 DEF Overruled, Held, AuthTypeOK
    <3>2. store'[i].server = store[i].server /\ store'[i].host = store[i].host
      BY <2>2, <3>1, OverruleKeeps DEF Overruled
    <3>3. Known(store[i].server, store[i].host) /\ store[i].server \in Server \cup {None}
      BY <3>1 DEF Homes, Session
    <3> QED
      BY <2>3, <3>2, <3>3 DEF Known
  <2>10. ASSUME NEW q \in Page, login'[q] # None PROVE Known(login[q].server, login[q].host)'
    <3>1. CASE q = p
      <4>1. login'[q].server = s /\ login'[q].host = h
        BY <1>1, <2>2, <3>1 DEF Login
      <4> QED
        BY <2>3, <4>1 DEF Known
    <3>2. CASE q # p
      <4>1. login[q] \in Login /\ login'[q].server = login[q].server /\ login'[q].host = login[q].host
        BY <2>2, <2>6, <2>10, <3>2, OverruleKeeps
      <4>2. Known(login[q].server, login[q].host) /\ login[q].server \in Server \cup {None}
        BY <4>1, NoneIsNot DEF Homes, Login
      <4> QED
        BY <2>3, <4>1, <4>2 DEF Known
    <3> QED
      BY <3>1, <3>2
  <2>11. ASSUME NEW q \in Page, call'[q] # None
         PROVE  /\ call[q] # None /\ call'[q].phase = call[q].phase /\ call'[q].host = call[q].host
                /\ call[q].phase # "sent" => /\ call[q].session \in Session
                                             /\ call'[q].session.host = call[q].session.host
                                             /\ call'[q].session.server = call[q].session.server
    <3>1. call[q] \in Call
      BY <2>2, <2>11 DEF Overruled, AuthTypeOK
    <3>2. call[q].phase # "sent" => call[q].session \in Session
      BY <3>1, NoneIsNot DEF AuthTypeOK, Call
    <3>3. CASE call[q].phase = "guarded"
      <4> DEFINE r == Overrule(s, m, call[q].session)
      <4>1. r.host = call[q].session.host /\ r.server = call[q].session.server
        BY <3>2, <3>3, OverruleKeeps
      <4>2. call'[q] = [call[q] EXCEPT !.session = r]
        BY <2>2, <3>1, <3>3, NoneIsNot DEF Overruled
      <4> HIDE DEF r
      <4> QED
        BY <3>1, <3>2, <4>1, <4>2, NoneIsNot DEF Call
    <3>4. CASE call[q].phase # "guarded"
      BY <2>2, <3>1, <3>2, <3>4, NoneIsNot DEF Overruled
    <3> QED
      BY <3>3, <3>4
  <2>12. ASSUME NEW q \in Page, call'[q] # None, call'[q].phase # "sent"
         PROVE  Known(call[q].session.server, call[q].session.host)'
    <3>1. Known(call[q].session.server, call[q].session.host) /\ call[q].session.server \in Server \cup {None}
      BY <2>11, <2>12 DEF Homes, Session
    <3> QED
      BY <2>3, <2>11, <2>12, <3>1, SMTT(30) DEF Known
  <2>13. TicketStaysHome'
    BY <2>11 DEF TicketStaysHome
  <2> QED
    BY <2>8, <2>9, <2>10, <2>12, <2>13 DEF Homes
<1> QED
  BY <1>2, <1>3

-----------------------------------------------------------------------------
(* What happens to the sessions: none is made but by a login, and what is  *)
(* left of one belongs to the row and the host it belonged to.             *)
LEMMA StoreKeeps ==
  ASSUME Inv, UNCHANGED <<row, restarts, cookie>>,
         store' \in [Id -> Session \cup {Free, Gone}],
         \A i \in Id : Held(i)' => \/ /\ Held(i) /\ store'[i].server = store[i].server
                                      /\ store'[i].host = store[i].host
                                  \/ Known(store'[i].server, store'[i].host),
         login' \in [Page -> Login \cup {None}], logout' \in [Quit -> Logout \cup {None}],
         \A q \in Page : login'[q] # None => /\ login[q] # None /\ login'[q].server = login[q].server
                                             /\ login'[q].host = login[q].host,
         call' \in [Page -> Call \cup {None}],
         \A q \in Page : call'[q] = call[q] \/ call'[q] = None
  PROVE  Inv'
  BY NoneIsNot DEF Inv, AuthTypeOK, Homes, Known, TicketStaysHome

LEMMA SweptTypes ==
  ASSUME AuthTypeOK, NEW i \in Id \cup {None}
  PROVE  /\ Swept(i) \in [Id -> Session \cup {Free, Gone}]
         /\ \A j \in Id : Swept(i)[j] = store[j] \/ Swept(i)[j] = Gone
  BY DEF AuthTypeOK, Swept, Held

LEMMA StoreSteps ==
  ASSUME Inv, NEW p \in Page, Accept(p) \/ GuardRefuses(p) \/ CallArrives(p) \/ CallFails(p)
  PROVE  Inv'
<1>0. AuthTypeOK
  BY DEF Inv
<1>1. CASE Accept(p)
  <2>1. login[p] \in Login
    BY <1>0, <1>1 DEF Accept, AuthTypeOK
  <2> DEFINE new == [host |-> login[p].host, server |-> login[p].server, mode |-> login[p].mode,
                     live |-> TRUE, overruled |-> login[p].overruled]
  <2>2. new \in Session /\ new.server = login[p].server /\ new.host = login[p].host
    BY <2>1 DEF Session, Login
  <2>3. PICK i \in Id : /\ store' = [store EXCEPT ![i] = new]
                        /\ login' = [login EXCEPT ![p].phase = "accepted", ![p].id = i]
    BY <1>1 DEF Accept
  <2>4. Known(login[p].server, login[p].host)
    BY <2>1, NoneIsNot DEF Inv, Homes
  <2> HIDE DEF new
  <2>5. /\ store' \in [Id -> Session \cup {Free, Gone}]
        /\ \A j \in Id : j # i => store'[j] = store[j]
        /\ Known(store'[i].server, store'[i].host)
    BY <1>0, <2>2, <2>3, <2>4 DEF AuthTypeOK
  <2>6. [login[p] EXCEPT !.phase = "accepted", !.id = i] \in Login
    BY <2>1 DEF Login
  <2>7. login' \in [Page -> Login \cup {None}]
    BY <1>0, <2>3, <2>6 DEF AuthTypeOK
  <2>8. \A q \in Page : login'[q] # None => /\ login[q] # None /\ login'[q].server = login[q].server
                                            /\ login'[q].host = login[q].host
    BY <1>0, <2>1, <2>3, NoneIsNot DEF AuthTypeOK, Login
  <2>9. \A j \in Id : Held(j)' => \/ /\ Held(j) /\ store'[j].server = store[j].server
                                       /\ store'[j].host = store[j].host
                                    \/ Known(store'[j].server, store'[j].host)
    BY <2>5 DEF Held
  <2> QED
    BY <1>0, <1>1, <2>5, <2>7, <2>8, <2>9, StoreKeeps DEF Accept, AuthTypeOK
<1>3. CASE GuardRefuses(p)
  <2>1. call[p].id \in Id \cup {None}
    BY <1>0, <1>3 DEF GuardRefuses, AuthTypeOK, Call
  <2>2. \A j \in Id : Held(j)' => Held(j) /\ store'[j] = store[j]
    BY <1>0, <1>3, <2>1, SweptTypes DEF GuardRefuses, Held
  <2> QED
    BY <1>0, <1>3, <2>1, <2>2, SweptTypes, StoreKeeps DEF GuardRefuses, AuthTypeOK
<1>4. CASE CallArrives(p) \/ CallFails(p)
  <2>1. UNCHANGED <<bffVars, cookie, login, logout>> /\ call' = [call EXCEPT ![p] = None]
    BY <1>4 DEF CallArrives, CallFails
  <2>2. \A j \in Id : Held(j)' => Held(j) /\ store'[j] = store[j]
    BY <2>1 DEF Held, bffVars
  <2> QED
    BY <1>0, <2>1, <2>2, StoreKeeps DEF AuthTypeOK, bffVars
<1> QED
  BY <1>1, <1>3, <1>4

(* The steps of a logout: of the page that asked for it, or of the BFF.    *)
LEMMA LogoutTypes ==
  ASSUME AuthTypeOK, NEW q \in Quit, LogoutStep(q)
  PROVE  /\ logout' \in [Quit -> Logout \cup {None}] /\ cookie' \in Id \cup {None}
         /\ UNCHANGED <<row, restarts, login>>
         /\ \/ UNCHANGED store /\ \E p \in Page : Follow(p)
            \/ ServeLogout(q)
<1>1. CASE \E p \in Page : AskLogout(p, q) /\ Follow(p)
  BY <1>1 DEF AskLogout, AuthTypeOK, Logout, bffVars
<1>2. CASE ServeLogout(q)
  BY <1>2 DEF ServeLogout, AuthTypeOK, Logout
<1>3. CASE (LogoutArrives(q) \/ LogoutFails(q)) /\ Follow(logout[q].page)
  <2>1. logout[q].page \in Page
    BY <1>3 DEF LogoutArrives, LogoutFails, AuthTypeOK, Logout
  <2> QED
    BY <1>3, <2>1 DEF LogoutArrives, LogoutFails, AuthTypeOK, bffVars
<1> QED
  BY <1>1, <1>2, <1>3 DEF LogoutStep

LEMMA ServedKeeps ==
  ASSUME AuthTypeOK, NEW q \in Quit, ServeLogout(q)
  PROVE  /\ store' \in [Id -> Session \cup {Free, Gone}]
         /\ \A j \in Id : Held(j)' => Held(j) /\ store'[j] = store[j]
<1>1. logout[q] \in Logout
  BY DEF ServeLogout, AuthTypeOK
<1>2. /\ store' \in [Id -> Session \cup {Free, Gone}]
      /\ \A j \in Id : store'[j] = store[j] \/ store'[j] = Gone
  BY <1>1 DEF ServeLogout, StoreAfterLogout, AuthTypeOK, Logout
<1> QED
  BY <1>2 DEF Held

LEMMA LogoutInv ==
  ASSUME Inv, NEW q \in Quit, LogoutStep(q)
  PROVE  Inv'
<1>0. AuthTypeOK
  BY DEF Inv
<1>1. ASSUME UNCHANGED store, NEW p \in Page, Follow(p)
      PROVE  Inv'
  BY <1>0, <1>1, LogoutTypes, FollowKeeps DEF AuthTypeOK, bffVars
<1>2. CASE ServeLogout(q)
  BY <1>0, <1>2, LogoutTypes, ServedKeeps, StoreKeeps DEF ServeLogout, AuthTypeOK
<1> QED
  BY <1>0, <1>1, <1>2, LogoutTypes

(* The guard attaches a session of the store to the call.                  *)
LEMMA GuardCall ==
  ASSUME Inv, NEW p \in Page, Guard(p)
  PROVE  /\ call' \in [Page -> Call \cup {None}]
         /\ call'[p] \in Call /\ call'[p].phase = "guarded"
         /\ call'[p].session \in Session /\ Known(call'[p].session.server, call'[p].session.host)
         /\ \A q \in Page : q # p => call'[q] = call[q]
<1> DEFINE s == store[call[p].id]
<1>1. call[p] \in Call /\ call[p].id \in Id /\ s \in Session /\ Known(s.server, s.host)
  BY NoneIsNot DEF Guard, Valid, Held, Inv, AuthTypeOK, Homes, Call
<1>2. call' = [call EXCEPT ![p].phase = "guarded", ![p].session = s]
  BY DEF Guard
<1> HIDE DEF s
<1>3. /\ call'[p] \in Call /\ call'[p].phase = "guarded" /\ call'[p].session = s
      /\ \A q \in Page : q # p => call'[q] = call[q]
      /\ call' \in [Page -> Call \cup {None}]
  BY <1>1, <1>2 DEF Inv, AuthTypeOK, Call
<1> QED
  BY <1>1, <1>3

LEMMA GuardInv ==
  ASSUME Inv, NEW p \in Page, Guard(p)
  PROVE  Inv'
<1>1. /\ call' \in [Page -> Call \cup {None}]
      /\ call'[p] \in Call /\ call'[p].phase = "guarded"
      /\ call'[p].session \in Session /\ Known(call'[p].session.server, call'[p].session.host)
      /\ \A q \in Page : q # p => call'[q] = call[q]
  BY GuardCall
<1>2. UNCHANGED <<row, store, restarts, cookie, login, logout>>
  BY DEF Guard, bffVars
<1>3. AuthTypeOK'
  BY <1>1, <1>2, NoneIsNot DEF Inv, AuthTypeOK
<1>4. Homes'
  <2>1. ASSUME NEW q \in Page, call'[q] # None, call'[q].phase # "sent"
        PROVE  Known(call[q].session.server, call[q].session.host)'
    BY <1>1, <1>2, <2>1 DEF Inv, Homes, Known
  <2> QED
    BY <1>2, <2>1 DEF Inv, Homes, Known, Held
<1> QED
  BY <1>1, <1>3, <1>4 DEF Inv, TicketStaysHome

(* The row that is read is the one the session has been made with.         *)
LEMMA ResolveCall ==
  ASSUME Inv, NEW p \in Page, Resolve(p)
  PROVE  /\ call' \in [Page -> Call \cup {None}]
         /\ call'[p] \in Call /\ call'[p].session = call[p].session
         /\ call[p].session \in Session /\ Known(call[p].session.server, call[p].session.host)
         /\ call'[p].host \in {call[p].session.host, Nowhere}
         /\ \A q \in Page : q # p => call'[q] = call[q]
<1> DEFINE s == call[p].session
           ref == ServerRef(p)
<1>1. call[p] \in Call /\ s \in Session /\ Known(s.server, s.host)
  BY NoneIsNot DEF Resolve, Inv, AuthTypeOK, Homes, Call
<1>2. ref.host \in {s.host, Nowhere} /\ ref.mode \in Mode
  <2>1. CASE s.server # None
    <3>1. row[s.server] \in Row /\ row[s.server].host = s.host
      BY <1>1, <2>1 DEF Known, Inv, AuthTypeOK, Session
    <3> QED
      BY <2>1, <3>1 DEF ServerRef, SessionOf, Row
  <2>2. CASE s.server = None
    BY <2>2, AuthConstants DEF ServerRef, SessionOf
  <2> QED
    BY <2>1, <2>2
<1>3. call' = [call EXCEPT ![p].phase = "asked", ![p].host = ref.host, ![p].mode = ref.mode]
  BY DEF Resolve
<1> HIDE DEF ref
<1>4. /\ call'[p] \in Call /\ call'[p].session = s /\ call'[p].host = ref.host
      /\ \A q \in Page : q # p => call'[q] = call[q]
      /\ call' \in [Page -> Call \cup {None}]
  BY <1>1, <1>2, <1>3 DEF Inv, AuthTypeOK, Call, Session
<1> QED
  BY <1>1, <1>2, <1>4

LEMMA ResolveInv ==
  ASSUME Inv, NEW p \in Page, Resolve(p)
  PROVE  Inv'
<1> DEFINE s == call[p].session
<1>1. /\ call' \in [Page -> Call \cup {None}]
      /\ call'[p] \in Call /\ call'[p].session = s
      /\ s \in Session /\ Known(s.server, s.host)
      /\ call'[p].host \in {s.host, Nowhere}
      /\ \A q \in Page : q # p => call'[q] = call[q]
  BY ResolveCall
<1> HIDE DEF s
<1>2. UNCHANGED <<row, store, restarts, cookie, login, logout>>
  BY DEF Resolve, bffVars
<1>3. AuthTypeOK'
  BY <1>1, <1>2, NoneIsNot DEF Inv, AuthTypeOK
<1>4. Homes'
  <2>1. ASSUME NEW q \in Page, call'[q] # None, call'[q].phase # "sent"
        PROVE  Known(call[q].session.server, call[q].session.host)'
    BY <1>1, <1>2, <2>1 DEF Inv, Homes, Known
  <2> QED
    BY <1>2, <2>1 DEF Inv, Homes, Known, Held
<1> QED
  BY <1>1, <1>3, <1>4 DEF Inv, TicketStaysHome

(* What the BFF does with a call leaves it a call.                         *)
LEMMA CallsStay ==
  ASSUME Inv, NEW p \in Page, StoreServer(p) \/ Guard(p) \/ Resolve(p)
  PROVE  \A q \in Page : call'[q] # None <=> call[q] # None
<1>0. AuthTypeOK /\ call \in [Page -> Call \cup {None}]
  BY DEF Inv, AuthTypeOK
<1>1. CASE UNCHANGED call
  BY <1>1
<1>2. ASSUME NEW s, NEW m, Overruled(s, m)
      PROVE  \A q \in Page : call'[q] # None <=> call[q] # None
  <2>1. ASSUME NEW q \in Page, call[q] # None, call[q].phase = "guarded"
        PROVE  call'[q] # None
    <3> DEFINE r == Overrule(s, m, call[q].session)
    <3>1. call'[q] = [call[q] EXCEPT !.session = r]
      BY <1>2, <2>1 DEF Overruled
    <3>2. call[q] \in Call /\ call[q].session \in Session
      BY <1>0, <2>1 DEF AuthTypeOK, Call
    <3>3. r \in Session
      BY <3>2, OverruleTypes
    <3> HIDE DEF r
    <3>4. [call[q] EXCEPT !.session = r] \in Call
      BY <3>2, <3>3 DEF Call
    <3> QED
      BY <3>1, <3>4, NoneIsNot
  <2>2. ASSUME NEW q \in Page, ~(call[q] # None /\ call[q].phase = "guarded")
        PROVE  call'[q] = call[q]
    BY <1>2, <2>2 DEF Overruled
  <2> QED
    BY <2>1, <2>2
<1>3. CASE Guard(p) \/ Resolve(p)
  <2>1. call[p] # None
    BY <1>3 DEF Guard, Resolve
  <2>2. call'[p] # None /\ \A q \in Page : q # p => call'[q] = call[q]
    BY <1>3, GuardCall, ResolveCall, NoneIsNot
  <2> QED
    BY <2>1, <2>2
<1>4. CASE StoreServer(p)
  <2>1. login[p] \in Login
    BY <1>0, <1>4 DEF StoreServer, AuthTypeOK
  <2>2. CASE ~login[p].save
    BY <1>1, <1>4, <2>2 DEF StoreServer
  <2>3. CASE login[p].save
    <3>1. PICK s \in RowsFor(login[p].host) : Overruled(s, login[p].mode)
      BY <1>4, <2>3 DEF StoreServer
    <3> QED
      BY <1>2, <3>1
  <2> QED
    BY <2>2, <2>3
<1> QED
  BY <1>3, <1>4

(* What happens without the pages.                                         *)
LEMMA OtherSteps ==
  ASSUME Inv, (\E i \in Id : AskSession(i) \/ Expire(i)) \/ DropCookie \/ Restart
  PROVE  Inv'
<1>0. AuthTypeOK
  BY DEF Inv
<1>1. ASSUME NEW i \in Id, AskSession(i) PROVE Inv'
  <2>1. \A j \in Id : Held(j)' => Held(j) /\ store'[j] = store[j]
    BY <1>0, <1>1, SweptTypes DEF AskSession, Held
  <2> QED
    BY <1>0, <1>1, <2>1, SweptTypes, StoreKeeps DEF AskSession, AuthTypeOK, browserVars
<1>2. ASSUME NEW i \in Id, Expire(i) PROVE Inv'
  <2>1. store[i] \in Session
    BY <1>0, <1>2 DEF Expire, Valid, Held, AuthTypeOK
  <2>2. store' = [store EXCEPT ![i].live = FALSE]
    BY <1>2 DEF Expire
  <2>3. /\ store'[i] \in Session /\ store'[i].server = store[i].server /\ store'[i].host = store[i].host
        /\ \A j \in Id : j # i => store'[j] = store[j]
        /\ store' \in [Id -> Session \cup {Free, Gone}]
    BY <1>0, <2>1, <2>2 DEF AuthTypeOK, Session
  <2>4. \A j \in Id : Held(j)' => /\ Held(j) /\ store'[j].server = store[j].server
                                  /\ store'[j].host = store[j].host
    BY <1>2, <2>3 DEF Held, Expire, Valid
  <2> QED
    BY <1>0, <1>2, <2>3, <2>4, StoreKeeps DEF Expire, AuthTypeOK, browserVars
<1>3. CASE DropCookie
  BY <1>3 DEF DropCookie, Inv, AuthTypeOK, Homes, Known, Held, TicketStaysHome, bffVars
<1>4. CASE Restart
  <2>1. restarts' \in 0..MaxRestarts
    BY <1>0, <1>4, AuthConstants DEF Restart, AuthTypeOK
  <2>2. /\ store' \in [Id -> Session \cup {Free, Gone}]
        /\ \A j \in Id : ~Held(j)'
    BY <1>4 DEF Restart, Held
  <2>3. \A p \in Page : login'[p] \in {login[p], None} /\ call'[p] \in {call[p], None}
    BY <1>4 DEF Restart
  <2>4. /\ login' \in [Page -> Login \cup {None}] /\ call' \in [Page -> Call \cup {None}]
        /\ UNCHANGED <<row, cookie, logout>>
    BY <1>0, <1>4 DEF Restart, AuthTypeOK
  <2>5. AuthTypeOK'
    BY <1>0, <2>1, <2>2, <2>3, <2>4 DEF AuthTypeOK
  <2>6. Homes'
    BY <2>2, <2>3, <2>4 DEF Inv, Homes, Known
  <2>7. TicketStaysHome'
    BY <2>3 DEF Inv, TicketStaysHome
  <2> QED
    BY <2>5, <2>6, <2>7 DEF Inv
<1> QED
  BY <1>1, <1>2, <1>3, <1>4

LEMMA NextInv == Inv /\ [AuthNext]_authVars => Inv'
<1> SUFFICES ASSUME Inv, [AuthNext]_authVars PROVE Inv'
  OBVIOUS
<1>1. CASE UNCHANGED authVars
  BY <1>1 DEF Inv, AuthTypeOK, Homes, Known, Held, TicketStaysHome, authVars, bffVars, browserVars
<1>2. ASSUME NEW p \in Page, LoginStep(p) \/ CallStep(p) PROVE Inv'
  BY <1>2, PageSteps, StoreServerInv, StoreSteps, GuardInv, ResolveInv DEF LoginStep, CallStep
<1> QED
  BY <1>1, <1>2, LogoutInv, OtherSteps DEF AuthNext

-----------------------------------------------------------------------------
(* What was agreed on at a login is what its row says, unless a later      *)
(* login has overruled it.  This is only so until the session is made      *)
(* (later logins do not reach one that is accepted: its session does) and  *)
(* until the row of a call is read.                                        *)
Agreed(r) == r.server # None => r.overruled \/ row[r.server].mode = r.mode

LoginAgreed(l) == (l.phase = "sent" => l.server = None) /\ (l.phase = "stored" => Agreed(l))

Modes == /\ \A i \in Id : Held(i) => Agreed(store[i])
         /\ \A p \in Page : login[p] # None => LoginAgreed(login[p])
         /\ \A p \in Page : call[p] # None /\ call[p].phase = "guarded" => Agreed(call[p].session)

(* ModeAsAgreed, for one call.                                             *)
AsAgreed(c) == c.mode = c.session.mode \/ (c.session.server = None /\ c.mode = "system") \/ c.session.overruled

MInv == Inv /\ Modes /\ ModeAsAgreed

LEMMA InitModes == AuthInit => Modes /\ ModeAsAgreed
  BY DEF AuthInit, Modes, ModeAsAgreed, Held

(* A step that leaves the rows alone: what is new in it has to agree.      *)
LEMMA ModesStay ==
  ASSUME MInv, UNCHANGED row,
         \A i \in Id : Held(i)' => (Held(i) /\ store'[i] = store[i]) \/ Agreed(store'[i]),
         \A q \in Page : login'[q] # None => login'[q] = login[q] \/ LoginAgreed(login'[q]),
         \A q \in Page : call'[q] # None /\ call'[q].phase # "sent" =>
                           \/ call'[q] = call[q]
                           \/ call'[q].phase = "guarded" /\ Agreed(call'[q].session)
                           \/ call'[q].phase = "asked" /\ AsAgreed(call'[q])
  PROVE  Modes' /\ ModeAsAgreed'
<1>1. \A i \in Id : Held(i)' => Agreed(store[i])'
  BY DEF MInv, Modes, Agreed
<1>2. \A q \in Page : login'[q] # None => LoginAgreed(login[q])'
  BY DEF MInv, Modes, LoginAgreed, Agreed
<1>3. \A q \in Page : call'[q] # None /\ call'[q].phase = "guarded" => Agreed(call[q].session)'
  BY DEF MInv, Modes, Agreed
<1>4. \A q \in Page : call'[q] # None /\ call'[q].phase = "asked" => AsAgreed(call'[q])
  BY DEF MInv, ModeAsAgreed, AsAgreed
<1>5. Modes'
  BY <1>1, <1>2, <1>3 DEF Modes
<1>6. ModeAsAgreed'
  BY <1>4 DEF ModeAsAgreed, AsAgreed
<1> QED
  BY <1>5, <1>6

LEMMA PageStepModes ==
  ASSUME MInv, NEW p \in Page,
         \/ \E o \in Offer[p] : Submit(p, o) /\ Follow(p)
         \/ LoginArrives(p) /\ Follow(p)
         \/ LoginFails(p) /\ Follow(p)
         \/ Follow(p) /\ UNCHANGED <<bffVars, cookie, login, logout>>
  PROVE  Modes' /\ ModeAsAgreed'
<1>0. AuthTypeOK
  BY DEF MInv, Inv
<1>1. Follow(p) /\ UNCHANGED <<row, store>>
  BY DEF Submit, LoginArrives, LoginFails, bffVars
<1>2. \A i \in Id : Held(i)' => Held(i) /\ store'[i] = store[i]
  BY <1>1 DEF Held
<1>3. \A k \in Key : NewCall(k, cookie').phase = "sent"
  BY DEF NewCall
<1>4. \A q \in Page : call'[q] # None /\ call'[q].phase # "sent" => call'[q] = call[q]
  BY <1>0, <1>1, <1>3 DEF Follow, AuthTypeOK
<1>5. ASSUME NEW q \in Page, login'[q] # None
      PROVE  login'[q] = login[q] \/ LoginAgreed(login'[q])
  <2>1. ASSUME NEW o \in Offer[p], Submit(p, o)
        PROVE  login'[q] = login[q] \/ LoginAgreed(login'[q])
    BY <1>0, <1>5, <2>1 DEF Submit, AuthTypeOK, LoginAgreed
  <2>2. CASE UNCHANGED login \/ login' = [login EXCEPT ![p] = None]
    BY <1>0, <1>5, <2>2 DEF AuthTypeOK
  <2> QED
    BY <2>1, <2>2 DEF LoginArrives, LoginFails
<1> QED
  BY <1>1, <1>2, <1>4, <1>5, ModesStay

(* Agreed, with the rows after a step.                                     *)
AgreedThen(r) == r.server # None => r.overruled \/ row'[r.server].mode = r.mode

(* The login that saves another mode marks all whose mode it was not.      *)
LEMMA OverruleAgrees ==
  ASSUME NEW s \in Server, NEW h, NEW m, row \in [Server -> Row \cup {None}],
         row' = [row EXCEPT ![s] = [host |-> h, mode |-> m]],
         NEW r \in Session \cup Login, Agreed(r)
  PROVE  AgreedThen(Overrule(s, m, r))
<1> DEFINE b == r.overruled \/ (r.server = s /\ r.mode # m)
           n == [r EXCEPT !.overruled = b]
<1>1. Overrule(s, m, r) = n
  BY DEF Overrule
<1>2. n.overruled = b /\ n.server = r.server /\ n.mode = r.mode /\ r.server \in Server \cup {None}
  BY DEF Session, Login
<1>3. row'[s].mode = m /\ \A t \in Server : t # s => row'[t] = row[t]
  OBVIOUS
<1> HIDE DEF n
<1>4. n.server # None => n.overruled \/ row'[n.server].mode = n.mode
  BY <1>2, <1>3 DEF Agreed
<1> QED
  BY <1>1, <1>4 DEF AgreedThen

LEMMA StoreServerModes ==
  ASSUME MInv, NEW p \in Page, StoreServer(p)
  PROVE  Modes' /\ ModeAsAgreed'
<1>0. AuthTypeOK /\ login[p] \in Login
  BY DEF MInv, Inv, StoreServer, AuthTypeOK
<1>1. CASE ~login[p].save
  <2>1. UNCHANGED <<row, store, call>> /\ login' = [login EXCEPT ![p].phase = "stored"]
    BY <1>1 DEF StoreServer
  <2>2. login[p].server = None
    BY <1>0, NoneIsNot DEF StoreServer, MInv, Modes, LoginAgreed
  <2>3. \A i \in Id : Held(i)' => Held(i) /\ store'[i] = store[i]
    BY <2>1 DEF Held
  <2>4. login'[p].phase = "stored" /\ login'[p].server = None /\ \A q \in Page : q # p => login'[q] = login[q]
    BY <1>0, <2>1, <2>2 DEF AuthTypeOK, Login
  <2>5. LoginAgreed(login'[p])
    BY <2>4 DEF LoginAgreed, Agreed
  <2> QED
    BY <2>1, <2>3, <2>4, <2>5, ModesStay
<1>2. CASE login[p].save
  <2> DEFINE h == login[p].host
             m == login[p].mode
             mine(s) == [login[p] EXCEPT !.phase = "stored", !.server = s]
  <2>1. PICK s \in RowsFor(h) :
          /\ row' = [row EXCEPT ![s] = [host |-> h, mode |-> m]]
          /\ Overruled(s, m)
          /\ login' = [q \in Page |-> IF q = p THEN mine(s)
                                      ELSE IF login[q] # None /\ login[q].phase = "stored"
                                      THEN Overrule(s, m, login[q]) ELSE login[q]]
    BY <1>2 DEF StoreServer
  <2>2. s \in Server /\ row \in [Server -> Row \cup {None}]
    BY <1>0 DEF RowsFor, AuthTypeOK
  <2>3. row'[s].mode = m
    BY <2>1, <2>2
  <2>4. ASSUME NEW i \in Id, Held(i)'
        PROVE  AgreedThen(store'[i])
    <3>1. Held(i) /\ store[i] \in Session /\ store'[i] = Overrule(s, m, store[i])
      BY <1>0, <2>1, <2>4 DEF Overruled, Held, AuthTypeOK
    <3>2. Agreed(store[i])
      BY <3>1 DEF MInv, Modes
    <3> QED
      BY <2>1, <2>2, <3>1, <3>2, OverruleAgrees
  <2>5. ASSUME NEW q \in Page, login'[q] # None
        PROVE  /\ login'[q].phase = "sent" => login'[q].server = None
               /\ login'[q].phase = "stored" => AgreedThen(login'[q])
    <3>1. CASE q = p
      <4>1. login'[q] = mine(s)
        BY <2>1, <3>1
      <4>2. mine(s).phase = "stored" /\ mine(s).server = s /\ mine(s).mode = m
        BY <1>0 DEF Login
      <4> HIDE DEF mine
      <4> QED
        BY <2>3, <4>1, <4>2 DEF AgreedThen
    <3>2. CASE q # p /\ login[q] # None /\ login[q].phase = "stored"
      <4>1. login[q] \in Login /\ Agreed(login[q]) /\ login'[q] = Overrule(s, m, login[q])
        BY <1>0, <2>1, <3>2 DEF AuthTypeOK, MInv, Modes, LoginAgreed
      <4> QED
        BY <2>1, <2>2, <3>2, <4>1, OverruleAgrees, OverruleKeeps
    <3>3. CASE q # p /\ ~(login[q] # None /\ login[q].phase = "stored")
      <4>1. login'[q] = login[q] /\ LoginAgreed(login[q])
        BY <2>1, <2>5, <3>3 DEF MInv, Modes
      <4> QED
        BY <2>5, <3>3, <4>1 DEF LoginAgreed
    <3> QED
      BY <3>1, <3>2, <3>3
  <2>6. ASSUME NEW q \in Page, call'[q] # None
        PROVE  /\ call'[q].phase = "guarded" => AgreedThen(call'[q].session)
               /\ call'[q].phase = "asked" => call[q] # None /\ call'[q] = call[q]
    <3>1. CASE call[q] # None /\ call[q].phase = "guarded"
      <4> DEFINE r == Overrule(s, m, call[q].session)
      <4>1. call[q] \in Call /\ call[q].session \in Session /\ Agreed(call[q].session)
        BY <1>0, <3>1 DEF AuthTypeOK, Call, MInv, Modes
      <4>2. AgreedThen(r)
        BY <2>1, <2>2, <4>1, OverruleAgrees
      <4>3. call'[q] = [call[q] EXCEPT !.session = r]
        BY <2>1, <3>1 DEF Overruled
      <4> HIDE DEF r
      <4>4. call'[q].session = r /\ call'[q].phase = "guarded"
        BY <3>1, <4>1, <4>3 DEF Call
      <4> QED
        BY <4>2, <4>4
    <3>2. CASE ~(call[q] # None /\ call[q].phase = "guarded")
      BY <2>1, <2>6, <3>2 DEF Overruled
    <3> QED
      BY <3>1, <3>2
  <2>7. Modes'
    BY <2>4, <2>5, <2>6 DEF Modes, LoginAgreed, Agreed, AgreedThen
  <2>8. ModeAsAgreed'
    BY <2>6 DEF MInv, ModeAsAgreed
  <2> QED
    BY <2>7, <2>8
<1> QED
  BY <1>1, <1>2

LEMMA StoreStepModes ==
  ASSUME MInv, NEW p \in Page, Accept(p) \/ GuardRefuses(p) \/ CallArrives(p) \/ CallFails(p)
  PROVE  Modes' /\ ModeAsAgreed'
<1>0. AuthTypeOK
  BY DEF MInv, Inv
<1>1. CASE Accept(p)
  <2>1. login[p] # None /\ login[p] \in Login /\ Agreed(login[p])
    BY <1>0, <1>1 DEF Accept, AuthTypeOK, MInv, Modes, LoginAgreed
  <2> DEFINE new == [host |-> login[p].host, server |-> login[p].server, mode |-> login[p].mode,
                     live |-> TRUE, overruled |-> login[p].overruled]
  <2>2. Agreed(new)
    BY <2>1 DEF Agreed
  <2>3. PICK i \in Id : /\ store' = [store EXCEPT ![i] = new]
                        /\ login' = [login EXCEPT ![p].phase = "accepted", ![p].id = i]
    BY <1>1 DEF Accept
  <2> HIDE DEF new
  <2>4. store'[i] = new /\ \A j \in Id : j # i => store'[j] = store[j]
    BY <1>0, <2>3 DEF AuthTypeOK
  <2>5. \A j \in Id : Held(j)' => (Held(j) /\ store'[j] = store[j]) \/ Agreed(store'[j])
    BY <2>2, <2>4 DEF Held
  <2>6. login'[p].phase = "accepted" /\ \A q \in Page : q # p => login'[q] = login[q]
    BY <1>0, <2>1, <2>3 DEF AuthTypeOK, Login
  <2>7. LoginAgreed(login'[p])
    BY <2>6 DEF LoginAgreed
  <2> QED
    BY <1>1, <2>5, <2>6, <2>7, ModesStay DEF Accept
<1>3. CASE GuardRefuses(p)
  <2>1. call[p].id \in Id \cup {None}
    BY <1>0, <1>3 DEF GuardRefuses, AuthTypeOK, Call
  <2>2. \A j \in Id : Held(j)' => Held(j) /\ store'[j] = store[j]
    BY <1>0, <1>3, <2>1, SweptTypes DEF GuardRefuses, Held
  <2>3. \A q \in Page : call'[q] # None => call'[q] = call[q]
    BY <1>0, <1>3 DEF GuardRefuses, AuthTypeOK
  <2> QED
    BY <1>3, <2>2, <2>3, ModesStay DEF GuardRefuses
<1>4. CASE CallArrives(p) \/ CallFails(p)
  <2>1. UNCHANGED <<bffVars, cookie, login, logout>> /\ call' = [call EXCEPT ![p] = None]
    BY <1>4 DEF CallArrives, CallFails
  <2>2. \A j \in Id : Held(j)' => Held(j) /\ store'[j] = store[j]
    BY <2>1 DEF Held, bffVars
  <2>3. \A q \in Page : call'[q] # None => call'[q] = call[q]
    BY <1>0, <2>1 DEF AuthTypeOK
  <2> QED
    BY <2>1, <2>2, <2>3, ModesStay DEF bffVars
<1> QED
  BY <1>1, <1>3, <1>4

LEMMA LogoutModes ==
  ASSUME MInv, NEW q \in Quit, LogoutStep(q)
  PROVE  Modes' /\ ModeAsAgreed'
<1>0. AuthTypeOK
  BY DEF MInv, Inv
<1>1. ASSUME UNCHANGED store, NEW p \in Page, Follow(p)
      PROVE  Modes' /\ ModeAsAgreed'
  <2>1. \A i \in Id : Held(i)' => Held(i) /\ store'[i] = store[i]
    BY <1>1 DEF Held
  <2>2. \A k \in Key : NewCall(k, cookie').phase = "sent"
    BY DEF NewCall
  <2>3. \A r \in Page : call'[r] # None /\ call'[r].phase # "sent" => call'[r] = call[r]
    BY <1>0, <1>1, <2>2 DEF Follow, AuthTypeOK
  <2> QED
    BY <1>0, <2>1, <2>3, LogoutTypes, ModesStay
<1>2. CASE ServeLogout(q)
  BY <1>0, <1>2, LogoutTypes, ServedKeeps, ModesStay DEF ServeLogout
<1> QED
  BY <1>0, <1>1, <1>2, LogoutTypes

(* The guard attaches what the store holds; then the row is read.          *)
LEMMA CallStepModes ==
  ASSUME MInv, NEW p \in Page, Guard(p) \/ Resolve(p)
  PROVE  Modes' /\ ModeAsAgreed'
<1>0. AuthTypeOK /\ call[p] # None /\ call[p] \in Call
  BY DEF MInv, Inv, Guard, Resolve, AuthTypeOK
<1>1. UNCHANGED <<row, store, login>>
  BY DEF Guard, Resolve, bffVars
<1>2. \A j \in Id : Held(j)' => Held(j) /\ store'[j] = store[j]
  BY <1>1 DEF Held
<1>3. CASE Guard(p)
  <2> DEFINE s == store[call[p].id]
  <2>1. Agreed(s)
    BY <1>0, <1>3, NoneIsNot DEF Guard, Valid, Held, MInv, Modes, Call
  <2>2. call' = [call EXCEPT ![p].phase = "guarded", ![p].session = s]
    BY <1>3 DEF Guard
  <2> HIDE DEF s
  <2>3. /\ call'[p].phase = "guarded" /\ call'[p].session = s
        /\ \A q \in Page : q # p => call'[q] = call[q]
    BY <1>0, <2>2 DEF AuthTypeOK, Call
  <2> QED
    BY <1>1, <1>2, <2>1, <2>3, ModesStay
<1>4. CASE Resolve(p)
  <2> DEFINE s == call[p].session
             ref == ServerRef(p)
  <2>1. Agreed(s)
    BY <1>0, <1>4 DEF Resolve, MInv, Modes
  <2>2. s.server = None => ref.mode = "system"
    BY DEF ServerRef, SessionOf
  <2>3. s.server # None => ref.mode = row[s.server].mode
    BY DEF ServerRef, SessionOf
  <2>4. call' = [call EXCEPT ![p].phase = "asked", ![p].host = ref.host, ![p].mode = ref.mode]
    BY <1>4 DEF Resolve
  <2> HIDE DEF ref
  <2>5. /\ call'[p].phase = "asked" /\ call'[p].session = s /\ call'[p].mode = ref.mode
        /\ \A q \in Page : q # p => call'[q] = call[q]
    BY <1>0, <2>4 DEF AuthTypeOK, Call
  <2> HIDE DEF s
  <2>6. AsAgreed(call'[p])
    BY <2>1, <2>2, <2>3, <2>5 DEF AsAgreed, Agreed
  <2> QED
    BY <1>1, <1>2, <2>5, <2>6, ModesStay
<1> QED
  BY <1>3, <1>4

LEMMA OtherStepModes ==
  ASSUME MInv, (\E i \in Id : AskSession(i) \/ Expire(i)) \/ DropCookie \/ Restart
  PROVE  Modes' /\ ModeAsAgreed'
<1>0. AuthTypeOK
  BY DEF MInv, Inv
<1>1. ASSUME NEW i \in Id, AskSession(i)
      PROVE  Modes' /\ ModeAsAgreed'
  <2>1. \A j \in Id : Held(j)' => Held(j) /\ store'[j] = store[j]
    BY <1>0, <1>1, SweptTypes DEF AskSession, Held
  <2> QED
    BY <1>1, <2>1, ModesStay DEF AskSession, browserVars
<1>2. ASSUME NEW i \in Id, Expire(i)
      PROVE  Modes' /\ ModeAsAgreed'
  <2>1. store[i] \in Session /\ Agreed(store[i]) /\ Held(i)
    BY <1>0, <1>2 DEF Expire, Valid, Held, AuthTypeOK, MInv, Modes
  <2>2. store' = [store EXCEPT ![i].live = FALSE]
    BY <1>2 DEF Expire
  <2>3. /\ store'[i].server = store[i].server /\ store'[i].mode = store[i].mode
        /\ store'[i].overruled = store[i].overruled
        /\ \A j \in Id : j # i => store'[j] = store[j]
    BY <1>0, <2>1, <2>2 DEF AuthTypeOK, Session
  <2>4. Agreed(store'[i])
    BY <2>1, <2>3 DEF Agreed
  <2>5. \A j \in Id : Held(j)' => (Held(j) /\ store'[j] = store[j]) \/ Agreed(store'[j])
    BY <2>3, <2>4 DEF Held
  <2> QED
    BY <1>2, <2>5, ModesStay DEF Expire, browserVars
<1>3. CASE DropCookie
  <2>1. \A j \in Id : Held(j)' => Held(j) /\ store'[j] = store[j]
    BY <1>3 DEF DropCookie, Held, bffVars
  <2> QED
    BY <1>3, <2>1, ModesStay DEF DropCookie, bffVars
<1>4. CASE Restart
  <2>1. /\ \A j \in Id : ~Held(j)'
        /\ \A q \in Page : login'[q] \in {login[q], None} /\ call'[q] \in {call[q], None}
    BY <1>4 DEF Restart, Held
  <2> QED
    BY <1>4, <2>1, ModesStay DEF Restart
<1> QED
  BY <1>1, <1>2, <1>3, <1>4

LEMMA NextModes == MInv /\ [AuthNext]_authVars => MInv'
<1> SUFFICES ASSUME MInv, [AuthNext]_authVars
             PROVE  MInv'
  OBVIOUS
<1>1. Inv'
  BY NextInv DEF MInv
<1>2. CASE UNCHANGED authVars
  BY <1>1, <1>2 DEF MInv, Modes, LoginAgreed, Agreed, Held, ModeAsAgreed, authVars, bffVars, browserVars
<1>3. ASSUME NEW p \in Page, LoginStep(p) \/ CallStep(p)
      PROVE  Modes' /\ ModeAsAgreed'
  BY <1>3, PageStepModes, StoreServerModes, StoreStepModes, CallStepModes DEF LoginStep, CallStep
<1> QED
  BY <1>1, <1>2, <1>3, LogoutModes, OtherStepModes DEF AuthNext, MInv

(* The types of the session store and of what the browser keeps.           *)
THEOREM TypesCorrect == AuthSpec => []AuthTypeOK
<1>1. Inv => AuthTypeOK
  BY DEF Inv
<1> QED
  BY <1>1, InitInv, NextInv, PTL DEF AuthSpec

(* A ticket goes to the host that has issued it, or nowhere: for any       *)
(* number of pages, rows and sessions, whatever happens between the guard  *)
(* of a call and the answer of the database.                               *)
THEOREM TicketsStayHome == AuthSpec => []TicketStaysHome
<1>1. Inv => TicketStaysHome
  BY DEF Inv
<1> QED
  BY <1>1, InitInv, NextInv, PTL DEF AuthSpec

(* A host's certificate is checked the way its user has chosen, but for    *)
(* the two cases that the property names, whatever is saved between a      *)
(* login, the guard of a call and the answer of the database.              *)
THEOREM ModesAreAgreed == AuthSpec => []ModeAsAgreed
<1>1. Inv /\ Modes /\ ModeAsAgreed <=> MInv
  BY DEF MInv
<1>2. MInv => ModeAsAgreed
  BY DEF MInv
<1> QED
  BY <1>1, <1>2, InitInv, InitModes, NextModes, PTL DEF AuthSpec
=============================================================================
