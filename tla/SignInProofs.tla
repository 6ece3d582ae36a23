---------------------------- MODULE SignInProofs ----------------------------
(***************************************************************************)
(* Nobody is fully signed in on a device where they never gave a code, and *)
(* a reset leaves nothing of before: for any number of employees and       *)
(* devices, and requests that overlap in any way.                          *)
(***************************************************************************)
EXTENDS SignIn, TLAPS

\* Who a request is for gave a code where the request will act on it.
CodeGivenFirst ==
    \A v \in Devices :
      /\ trust[v] # None => trust[v].e \in gave[v]
      /\ req[v].pc \in {"trusted", "code", "grant"} => req[v].e \in gave[v]
      /\ At(v, "code") /\ session[v] # None => session[v].e = req[v].e

\* What a request is about to write was not there before the reset.
NothingOldUnderWay ==
    \A v \in Devices :
      req[v].pc \in {"trusted", "refused", "plain", "code", "grant"} => req[v].mark # "old"

SignsOut(w, e, v) == At(w, "sign out") /\ req[w].of = e /\ req[w].keep # v
Resets(w, e, v) == req[w].pc \in {"sign out", "revoke"} /\ req[w].of = e /\ req[w].keep # v

\* What is old is about to be deleted by a reset that does not keep it.
OldIsDue ==
    \A v \in Devices :
      /\ session[v] # None /\ session[v].mark = "old" =>
           \E w \in Devices : SignsOut(w, session[v].e, v)
      /\ trust[v] # None /\ trust[v].mark = "old" =>
           \E w \in Devices : Resets(w, trust[v].e, v)

SignInInv ==
    /\ TypeOK
    /\ CodeGivenFirst
    /\ NothingOldUnderWay
    /\ OldIsDue
    /\ CodeGivenHere

-----------------------------------------------------------------------------
(* Requests, sessions and grants, one at a time.                           *)

Login5 == {"trusted", "refused", "plain", "code", "grant"}

LEMMA RequestFields ==
    ASSUME NEW r \in Request
    PROVE  /\ r.pc \in {"idle", "count", "sign out", "revoke", "deactivate"} \union Login5
           /\ r.pc \in Login5 => r.e \in Employees /\ r.mark \in Mark
           /\ r.pc \in {"sign out", "revoke", "deactivate"} =>
                r.of \in Employees /\ r.keep \in Devices \union {None}
           /\ r.pc = "count" => r.of \in Employees /\ r.role \in Role /\ r.active \in BOOLEAN
           /\ r.pc = "code" => r.first \in BOOLEAN
           /\ "e" \in DOMAIN r <=> r.pc \in Login5
<1> USE DEF Login5
<1>1. CASE r \in [pc : {"idle"}]
  BY <1>1
<1>2. CASE r \in [pc : {"trusted", "refused", "plain"}, e : Employees, mark : Mark]
  BY <1>2
<1>3. CASE r \in [pc : {"code"}, e : Employees, first : BOOLEAN, mark : Mark]
  BY <1>3
<1>4. CASE r \in [pc : {"grant"}, e : Employees, mark : Mark]
  BY <1>4
<1>5. CASE r \in [pc : {"sign out", "revoke", "deactivate"}, of : Employees, keep : Devices \union {None}]
  BY <1>5
<1>6. CASE r \in [pc : {"count"}, of : Employees, role : Role, active : BOOLEAN]
  BY <1>6
<1> QED
  BY <1>1, <1>2, <1>3, <1>4, <1>5, <1>6 DEF Request

\* A request that a reset overtakes is marked, and stays what it was.
LEMMA RequestMarked ==
    ASSUME NEW r \in Request, r.pc \in Login5
    PROVE  LET late == [r EXCEPT !.mark = "late"]
           IN  late \in Request /\ late.pc = r.pc /\ late.e = r.e /\ late.mark = "late"
<1> USE DEF Login5, Mark, Request
<1>1. CASE r \in [pc : {"trusted", "refused", "plain"}, e : Employees, mark : Mark]
  BY <1>1
<1>2. CASE r \in [pc : {"code"}, e : Employees, first : BOOLEAN, mark : Mark]
  BY <1>2
<1>3. CASE r \in [pc : {"grant"}, e : Employees, mark : Mark]
  BY <1>3
<1> QED
  BY <1>1, <1>2, <1>3

LEMMA RequestMoved ==
    ASSUME NEW r \in Request, r.pc = "sign out"
    PROVE  LET next == [r EXCEPT !.pc = "revoke"]
           IN  next \in Request /\ next.pc = "revoke" /\ next.of = r.of /\ next.keep = r.keep
BY DEF Request

LEMMA Rows ==
    ASSUME TypeOK, NEW v \in Devices
    PROVE  /\ req[v] \in Request
           /\ session[v] # None => session[v] \in Session /\ session[v].e \in Employees
           /\ trust[v] # None => trust[v] \in Grant /\ trust[v].e \in Employees
BY DEF TypeOK, Session, Grant

\* What a step of one device does to the requests.
LEMMA OneRequest ==
    ASSUME TypeOK, NEW v \in Devices, NEW r \in Request, Goto(v, r)
    PROVE  /\ req'[v] = r
           /\ \A w \in Devices \ {v} : req'[w] = req[w]
           /\ req' \in [Devices -> Request]
BY DEF TypeOK, Goto

LEMMA IdleIsRequest == Idle \in Request /\ Idle.pc = "idle"
BY DEF Idle, Request

LEMMA InitSignIn == Init => SignInInv
<1> SUFFICES ASSUME Init PROVE SignInInv
  OBVIOUS
<1>1. TypeOK
  BY IdleIsRequest, MaxHoursAssumption, MaxPressesAssumption DEF Init, TypeOK, Employee, Role
<1>2. \A v \in Devices : session[v] = None /\ trust[v] = None /\ req[v].pc = "idle"
  BY IdleIsRequest DEF Init
<1> QED
  BY <1>1, <1>2 DEF SignInInv, CodeGivenFirst, NothingOldUnderWay, OldIsDue, CodeGivenHere, At

-----------------------------------------------------------------------------
(* Signing in.                                                             *)

\* A device's own request goes on: what it leaves behind is not old unless it was,
\* and is of somebody who gave a code there.
LEMMA OwnStep ==
    ASSUME SignInInv, TypeOK', NEW v \in Devices,
           \A w \in Devices \ {v} : /\ session'[w] = session[w] /\ trust'[w] = trust[w]
                                    /\ req'[w] = req[w] /\ gave'[w] = gave[w],
           gave[v] \subseteq gave'[v],
           req[v].pc \in {"sign out", "revoke"} => req'[v] = req[v],
           req'[v].pc \in {"trusted", "code", "grant"} => req'[v].e \in gave'[v],
           req'[v].pc \in Login5 => req'[v].mark # "old",
           At(v, "code")' /\ session'[v] # None => session'[v].e = req'[v].e,
           trust'[v] # None => /\ trust'[v].e \in gave'[v]
                               /\ trust'[v].mark = "old" =>
                                    trust[v] # None /\ trust[v].mark = "old" /\ trust'[v].e = trust[v].e,
           session'[v] # None => /\ ~session'[v].pending => session'[v].e \in gave'[v]
                                 /\ session'[v].mark = "old" =>
                                      /\ session[v] # None /\ session[v].mark = "old"
                                      /\ session'[v].e = session[v].e
    PROVE  SignInInv'
<1> USE DEF SignInInv
<1>1. CodeGivenFirst'
  BY DEF CodeGivenFirst, At
<1>2. NothingOldUnderWay'
  BY DEF NothingOldUnderWay, Login5
<1>3. \A w \in Devices : req[w].pc \in {"sign out", "revoke"} => req'[w] = req[w]
  OBVIOUS
<1>4. OldIsDue'
  <2>1. ASSUME NEW w \in Devices, session'[w] # None, session'[w].mark = "old"
        PROVE  \E u \in Devices : SignsOut(u, session[w].e, w)'
    <3>1. session[w] # None /\ session[w].mark = "old" /\ session'[w].e = session[w].e
      BY <2>1
    <3>2. PICK u \in Devices : SignsOut(u, session[w].e, w)
      BY <3>1 DEF OldIsDue
    <3>3. req'[u] = req[u]
      BY <1>3, <3>2 DEF SignsOut, At
    <3> QED
      BY <3>1, <3>2, <3>3 DEF SignsOut, At
  <2>2. ASSUME NEW w \in Devices, trust'[w] # None, trust'[w].mark = "old"
        PROVE  \E u \in Devices : Resets(u, trust[w].e, w)'
    <3>1. trust[w] # None /\ trust[w].mark = "old" /\ trust'[w].e = trust[w].e
      BY <2>2
    <3>2. PICK u \in Devices : Resets(u, trust[w].e, w)
      BY <3>1 DEF OldIsDue
    <3>3. req'[u] = req[u]
      BY <1>3, <3>2 DEF Resets
    <3> QED
      BY <3>1, <3>2, <3>3 DEF Resets
  <2> QED
    BY <2>1, <2>2 DEF OldIsDue
<1>5. CodeGivenHere'
  BY DEF CodeGivenHere
<1> QED
  BY <1>1, <1>2, <1>4, <1>5

LEMMA LoginSignIn ==
    ASSUME SignInInv, NEW v \in Devices, NEW e \in Employees, Login(v, e)
    PROVE  SignInInv'
<1> USE DEF SignInInv
<1> DEFINE pc == IF ~emp[e].enrolled \/ trust[v] = None THEN "plain"
                 ELSE IF DeviceTrusted(v, e) THEN "trusted" ELSE "refused"
           r == [pc |-> pc, e |-> e, mark |-> "ok"]
<1>1. pc \in {"plain", "trusted", "refused"}
  OBVIOUS
<1>2. pc = "trusted" => e \in gave[v]
  BY DEF DeviceTrusted, CodeGivenFirst
<1>3. Goto(v, r)
  BY DEF Login
<1> HIDE DEF pc
<1>4. r \in Request /\ r.pc = pc /\ r.e = e /\ r.mark = "ok"
  BY <1>1 DEF Request, Mark
<1> HIDE DEF r
<1>5. /\ req'[v] = r
      /\ \A w \in Devices \ {v} : req'[w] = req[w]
      /\ req' \in [Devices -> Request]
  BY <1>3, <1>4, OneRequest
<1>6. TypeOK'
  BY <1>5 DEF TypeOK, Login
<1>7. req[v].pc = "idle"
  BY IdleIsRequest DEF Login
<1>8. /\ trust[v] # None => trust[v].e \in gave[v]
      /\ session[v] # None /\ ~session[v].pending => session[v].e \in gave[v]
  BY DEF CodeGivenFirst, CodeGivenHere
<1> QED
  BY <1>1, <1>2, <1>4, <1>5, <1>6, <1>7, <1>8, OwnStep DEF Login, At

LEMMA OpenSessionSignIn ==
    ASSUME SignInInv, NEW v \in Devices, OpenSession(v)
    PROVE  SignInInv'
<1> USE DEF SignInInv
<1> DEFINE row == [e |-> req[v].e, pending |-> ~At(v, "trusted"), mark |-> req[v].mark]
<1>1. req[v].pc \in {"trusted", "refused", "plain"} /\ req[v].e \in Employees /\ req[v].mark \in Mark
  BY Rows, RequestFields DEF OpenSession, Login5
<1>2. /\ req'[v] = Idle
      /\ \A w \in Devices \ {v} : req'[w] = req[w]
      /\ req' \in [Devices -> Request]
  BY IdleIsRequest, OneRequest DEF OpenSession
<1>3. /\ session'[v] = row
      /\ \A w \in Devices \ {v} : session'[w] = session[w]
  BY DEF OpenSession, TypeOK
<1>4. /\ row \in Session /\ row.e = req[v].e /\ row.mark = req[v].mark
      /\ ~row.pending => At(v, "trusted")
  BY <1>1 DEF Session
<1> HIDE DEF row
<1>5. /\ trust'[v] \in {None, trust[v]}
      /\ \A w \in Devices \ {v} : trust'[w] = trust[w]
      /\ trust' \in [Devices -> Grant \union {None}]
  BY DEF OpenSession, TypeOK
<1>6. TypeOK'
  BY <1>2, <1>3, <1>4, <1>5 DEF TypeOK, OpenSession
<1>7. row.mark # "old" /\ (~row.pending => row.e \in gave[v])
  BY <1>1, <1>4 DEF NothingOldUnderWay, CodeGivenFirst, At
<1>8. trust[v] # None => trust[v].e \in gave[v]
  BY DEF CodeGivenFirst
<1> QED
  BY <1>1, <1>2, <1>3, <1>5, <1>6, <1>7, <1>8, IdleIsRequest, OwnStep DEF OpenSession, At, Login5

LEMMA GiveCodeSignIn ==
    ASSUME SignInInv, NEW v \in Devices, GiveCode(v)
    PROVE  SignInInv'
<1> USE DEF SignInInv
<1> DEFINE e == session[v].e
           mark == IF session[v].mark = "ok" THEN "ok" ELSE "late"
           r == [pc |-> "code", e |-> e, first |-> ~emp[e].enrolled, mark |-> mark]
<1>1. session[v] # None /\ session[v].pending /\ e \in Employees
  BY Rows DEF GiveCode, SignedIn
<1>2. Goto(v, r)
  BY DEF GiveCode
<1>3. mark \in {"ok", "late"} /\ (~emp[e].enrolled) \in BOOLEAN
  OBVIOUS
<1> HIDE DEF mark
<1>4. r \in Request /\ r.pc = "code" /\ r.e = e /\ r.mark # "old"
  BY <1>1, <1>3 DEF Request, Mark
<1> HIDE DEF r
<1>5. /\ req'[v] = r
      /\ \A w \in Devices \ {v} : req'[w] = req[w]
      /\ req' \in [Devices -> Request]
  BY <1>2, <1>4, OneRequest
<1>6. /\ gave'[v] = gave[v] \union {e}
      /\ \A w \in Devices \ {v} : gave'[w] = gave[w]
      /\ gave' \in [Devices -> SUBSET Employees]
  BY <1>1 DEF GiveCode, TypeOK
<1>7. TypeOK'
  BY <1>5, <1>6 DEF TypeOK, GiveCode
<1>8. req[v].pc = "idle"
  BY IdleIsRequest DEF GiveCode
<1>9. trust[v] # None => trust[v].e \in gave[v]
  BY DEF CodeGivenFirst
<1> QED
  BY <1>1, <1>4, <1>5, <1>6, <1>7, <1>8, <1>9, OwnStep DEF GiveCode, At

LEMMA VerifySignIn ==
    ASSUME SignInInv, NEW v \in Devices, Verify(v)
    PROVE  SignInInv'
<1> USE DEF SignInInv
<1> DEFINE r == [pc |-> "grant", e |-> req[v].e, mark |-> req[v].mark]
<1>1. /\ req[v].pc = "code" /\ req[v].e \in Employees /\ req[v].mark \in Mark
      /\ req[v].first \in BOOLEAN
  BY Rows, RequestFields DEF Verify, At, Login5
<1>2. Goto(v, r)
  BY DEF Verify
<1>3. r \in Request /\ r.pc = "grant" /\ r.e = req[v].e /\ r.mark = req[v].mark
  BY <1>1 DEF Request
<1> HIDE DEF r
<1>4. /\ req'[v] = r
      /\ \A w \in Devices \ {v} : req'[w] = req[w]
      /\ req' \in [Devices -> Request]
  BY <1>2, <1>3, OneRequest
<1>5. emp' \in [Employees -> Employee]
  <2>1. CASE req[v].first
    <3>1. emp' = [emp EXCEPT ![req[v].e] = [emp[req[v].e] EXCEPT !.enrolled = TRUE]]
      BY <1>1, <2>1 DEF Verify
    <3>2. emp[req[v].e] \in Employee
      BY <1>1 DEF TypeOK
    <3>3. [emp[req[v].e] EXCEPT !.enrolled = TRUE] \in Employee
      BY <3>2 DEF Employee
    <3> QED
      BY <3>1, <3>3 DEF TypeOK
  <2> QED
    BY <2>1 DEF Verify, TypeOK
<1>6. /\ session'[v] # None => session[v] # None
      /\ session[v] # None => session'[v] = [session[v] EXCEPT !.pending = FALSE]
      /\ \A w \in Devices \ {v} : session'[w] = session[w]
      /\ session[v] = None => session' = session
  BY DEF Verify, TypeOK
<1>7. session[v] # None =>
        LET row == [session[v] EXCEPT !.pending = FALSE]
        IN  row \in Session /\ row.e = session[v].e /\ row.mark = session[v].mark
  BY Rows DEF Session
<1>8. session' \in [Devices -> Session \union {None}]
  BY <1>6, <1>7 DEF Verify, TypeOK
<1>9. TypeOK'
  BY <1>4, <1>5, <1>8 DEF TypeOK, Verify
<1>10. /\ req[v].e \in gave[v] /\ req[v].mark # "old"
       /\ session[v] # None => session[v].e = req[v].e
       /\ trust[v] # None => trust[v].e \in gave[v]
  BY <1>1 DEF CodeGivenFirst, NothingOldUnderWay, At
<1>11. session'[v] # None => /\ session'[v].e \in gave[v]
                             /\ session'[v].mark = session[v].mark
                             /\ session'[v].e = session[v].e
  BY <1>6, <1>7, <1>10
<1> QED
  BY <1>1, <1>3, <1>4, <1>6, <1>9, <1>10, <1>11, OwnStep DEF Verify, At

LEMMA GrantTrustSignIn ==
    ASSUME SignInInv, NEW v \in Devices, GrantTrust(v)
    PROVE  SignInInv'
<1> USE DEF SignInInv
<1> DEFINE row == [e |-> req[v].e, age |-> 0, hours |-> window, mark |-> req[v].mark]
<1>1. req[v].pc = "grant" /\ req[v].e \in Employees /\ req[v].mark \in Mark
  BY Rows, RequestFields DEF GrantTrust, At, Login5
<1>2. /\ req'[v] = Idle
      /\ \A w \in Devices \ {v} : req'[w] = req[w]
      /\ req' \in [Devices -> Request]
  BY IdleIsRequest, OneRequest DEF GrantTrust
<1>3. /\ trust'[v] = IF window = 0 THEN trust[v] ELSE row
      /\ \A w \in Devices \ {v} : trust'[w] = trust[w]
  BY DEF GrantTrust, TypeOK
<1>4. /\ row.e = req[v].e /\ row.mark = req[v].mark
      /\ window # 0 => row \in Grant
  BY <1>1, MaxHoursAssumption DEF Grant, TypeOK
<1> HIDE DEF row
<1>5. trust' \in [Devices -> Grant \union {None}]
  BY <1>3, <1>4 DEF TypeOK, GrantTrust
<1>6. TypeOK'
  BY <1>2, <1>5 DEF TypeOK, GrantTrust
<1>7. /\ req[v].e \in gave[v] /\ req[v].mark # "old"
      /\ trust[v] # None => trust[v].e \in gave[v]
      /\ session[v] # None /\ ~session[v].pending => session[v].e \in gave[v]
  BY <1>1 DEF CodeGivenFirst, NothingOldUnderWay, CodeGivenHere
<1>8. trust'[v] # None => /\ trust'[v].e \in gave[v]
                          /\ trust'[v].mark = "old" => trust'[v] = trust[v]
  BY <1>3, <1>4, <1>7
<1>9. UNCHANGED <<session, gave>>
  BY DEF GrantTrust
<1> QED
  BY <1>1, <1>2, <1>3, <1>6, <1>7, <1>8, <1>9, IdleIsRequest, OwnStep DEF At, Login5

\* What was there before a step of the device's own is in order.
LEMMA InOrder ==
    ASSUME SignInInv, NEW v \in Devices
    PROVE  /\ session[v] # None /\ ~session[v].pending => session[v].e \in gave[v]
           /\ trust[v] # None => trust[v].e \in gave[v]
           /\ req[v].pc \in {"trusted", "code", "grant"} => req[v].e \in gave[v]
           /\ req[v].pc \in Login5 => req[v].mark # "old"
           /\ At(v, "code") /\ session[v] # None => session[v].e = req[v].e
BY DEF SignInInv, CodeGivenFirst, CodeGivenHere, NothingOldUnderWay, Login5

\* Steps that touch at most the employees, the window and the count of changes.
LEMMA SettingStep ==
    ASSUME SignInInv, UNCHANGED <<session, trust, req, gave>>, TypeOK'
    PROVE  SignInInv'
<1>1. CodeGivenFirst' /\ CodeGivenHere' /\ NothingOldUnderWay'
  BY DEF SignInInv, CodeGivenFirst, CodeGivenHere, NothingOldUnderWay, At
<1>2. OldIsDue'
  BY DEF SignInInv, OldIsDue, At, SignsOut, Resets
<1> QED
  BY <1>1, <1>2 DEF SignInInv

LEMMA EnrollSignIn ==
    ASSUME SignInInv, NEW v \in Devices, Enroll(v)
    PROVE  SignInInv'
<1> DEFINE e == session[v].e
<1>1. e \in Employees /\ emp[e] \in Employee
  BY Rows DEF Enroll, SignedIn, SignInInv, TypeOK
<1>2. [emp[e] EXCEPT !.secret = TRUE] \in Employee
  BY <1>1 DEF Employee
<1>3. emp' = [emp EXCEPT ![e] = [emp[e] EXCEPT !.secret = TRUE]]
  BY DEF Enroll
<1>4. TypeOK'
  BY <1>2, <1>3 DEF SignInInv, TypeOK, Enroll
<1> QED
  BY <1>4, SettingStep DEF Enroll

LEMMA SetWindowSignIn ==
    ASSUME SignInInv, NEW v \in Devices, NEW hours \in 0..MaxHours, SetWindow(v, hours)
    PROVE  SignInInv'
<1>1. TypeOK'
  BY MaxPressesAssumption DEF SignInInv, TypeOK, SetWindow, Press
<1> QED
  BY <1>1, SettingStep DEF SetWindow

\* A session goes: the employee leaves, or twelve hours have passed.
LEMMA SessionEnds ==
    ASSUME SignInInv, NEW v \in Devices, Logout(v) \/ ExpireSession(v)
    PROVE  SignInInv'
<1>1. /\ session' = [session EXCEPT ![v] = None]
      /\ UNCHANGED <<emp, window, trust, req, gave, presses>>
  BY DEF Logout, ExpireSession
<1>2. /\ session'[v] = None
      /\ \A w \in Devices \ {v} : session'[w] = session[w]
  BY <1>1 DEF SignInInv, TypeOK
<1>3. TypeOK'
  BY <1>1 DEF SignInInv, TypeOK
<1> QED
  BY <1>1, <1>2, <1>3, InOrder, OwnStep DEF At

LEMMA AgeSignIn ==
    ASSUME SignInInv, NEW v \in Devices, Age(v)
    PROVE  SignInInv'
<1> DEFINE row == [trust[v] EXCEPT !.age = @ + 1]
<1>1. trust[v] \in Grant /\ trust[v].age < MaxHours
  BY Rows DEF SignInInv, Age
<1>2. row \in Grant /\ row.e = trust[v].e /\ row.mark = trust[v].mark
  BY <1>1, MaxHoursAssumption DEF Grant
<1>3. trust' = [trust EXCEPT ![v] = row]
  BY DEF Age
<1> HIDE DEF row
<1>4. /\ trust'[v] = row
      /\ \A w \in Devices \ {v} : trust'[w] = trust[w]
      /\ trust' \in [Devices -> Grant \union {None}]
  BY <1>2, <1>3 DEF SignInInv, TypeOK
<1>5. TypeOK'
  BY <1>4 DEF SignInInv, TypeOK, Age
<1>6. UNCHANGED <<session, req, gave>> /\ trust[v] # None
  BY DEF Age
<1> QED
  BY <1>2, <1>4, <1>5, <1>6, InOrder, OwnStep DEF At

LEMMA UpdateSignIn ==
    ASSUME SignInInv, NEW v \in Devices, NEW e \in Employees, NEW role \in Role,
           NEW active \in BOOLEAN, Update(v, e, role, active)
    PROVE  SignInInv'
<1> DEFINE r == [pc |-> "count", of |-> e, role |-> role, active |-> active]
<1>1. r \in Request /\ r.pc = "count"
  BY DEF Request
<1>2. Goto(v, r)
  BY DEF Update
<1> HIDE DEF r
<1>3. /\ req'[v] = r
      /\ \A w \in Devices \ {v} : req'[w] = req[w]
      /\ req' \in [Devices -> Request]
  BY <1>1, <1>2, OneRequest DEF SignInInv
<1>4. TypeOK'
  BY <1>3, MaxPressesAssumption DEF SignInInv, TypeOK, Update, Press
<1>5. UNCHANGED <<session, trust, gave>> /\ req[v].pc = "idle"
  BY IdleIsRequest DEF Update, Press
<1> QED
  BY <1>1, <1>3, <1>4, <1>5, InOrder, OwnStep DEF At, Login5

LEMMA CommitSignIn ==
    ASSUME SignInInv, NEW v \in Devices, Commit(v)
    PROVE  SignInInv'
<1> DEFINE e == req[v].of
           r == IF req[v].active THEN Idle ELSE [pc |-> "deactivate", of |-> e, keep |-> None]
<1>1. /\ req[v].pc = "count" /\ e \in Employees /\ req[v].role \in Role /\ req[v].active \in BOOLEAN
      /\ emp[e] \in Employee
  BY Rows, RequestFields DEF SignInInv, TypeOK, Commit, At
<1>3. r \in Request /\ r.pc \in {"idle", "deactivate"}
  BY <1>1, IdleIsRequest DEF Request
<1>4. Goto(v, r)
  BY DEF Commit
<1> HIDE DEF r
<1>5. /\ req'[v] = r
      /\ \A w \in Devices \ {v} : req'[w] = req[w]
      /\ req' \in [Devices -> Request]
  BY <1>3, <1>4, OneRequest DEF SignInInv
<1>6. emp' \in [Employees -> Employee]
  <2> DEFINE half == [emp EXCEPT ![e].role = req[v].role]
  <2>1. emp' = [half EXCEPT ![e].active = req[v].active]
    BY DEF Commit
  <2>2. half \in [Employees -> Employee]
    <3>1. [emp[e] EXCEPT !.role = req[v].role] \in Employee
      BY <1>1 DEF Employee
    <3>2. half = [emp EXCEPT ![e] = [emp[e] EXCEPT !.role = req[v].role]]
      OBVIOUS
    <3> QED
      BY <3>1, <3>2 DEF SignInInv, TypeOK
  <2> HIDE DEF half
  <2>3. [half[e] EXCEPT !.active = req[v].active] \in Employee
    <3>1. half[e] \in Employee
      BY <1>1, <2>2
    <3> QED
      BY <1>1, <3>1 DEF Employee
  <2> QED
    BY <2>1, <2>2, <2>3
<1>7. TypeOK'
  BY <1>5, <1>6 DEF SignInInv, TypeOK, Commit
<1>8. UNCHANGED <<session, trust, gave>>
  BY DEF Commit
<1> QED
  BY <1>1, <1>3, <1>5, <1>7, <1>8, InOrder, OwnStep DEF At, Login5

-----------------------------------------------------------------------------
(* Resets.                                                                 *)

\* A row of the employee becomes old, another stays.
LEMMA Outdated ==
    ASSUME TypeOK, NEW v \in Devices, NEW e \in Employees, NEW keep, Outdate(v, e, keep),
           NEW w \in Devices
    PROVE  /\ session[w] = None => session'[w] = None
           /\ session[w] # None =>
                /\ session'[w] \in Session
                /\ session'[w].e = session[w].e /\ session'[w].pending = session[w].pending
                /\ session'[w].mark = "old" =>
                     session[w].mark = "old" \/ (session[w].e = e /\ w # keep)
           /\ trust[w] = None => trust'[w] = None
           /\ trust[w] # None =>
                /\ trust'[w] \in Grant
                /\ trust'[w].e = trust[w].e
                /\ trust'[w].mark = "old" => trust[w].mark = "old" \/ (trust[w].e = e /\ w # keep)
<1>1. session'[w] = IF w # keep /\ session[w] # None /\ session[w].e = e /\ session[w].mark = "ok"
                    THEN [session[w] EXCEPT !.mark = "old"] ELSE session[w]
  BY DEF Outdate
<1>2. session[w] # None =>
        LET old == [session[w] EXCEPT !.mark = "old"]
        IN  old \in Session /\ old.e = session[w].e /\ old.pending = session[w].pending
  BY Rows DEF Session, Mark
<1>3. trust'[w] = IF w # keep /\ trust[w] # None /\ trust[w].e = e /\ trust[w].mark = "ok"
                  THEN [trust[w] EXCEPT !.mark = "old"] ELSE trust[w]
  BY DEF Outdate
<1>4. trust[w] # None =>
        LET old == [trust[w] EXCEPT !.mark = "old"]
        IN  old \in Grant /\ old.e = trust[w].e
  BY Rows DEF Grant, Mark
<1>5. /\ session[w] = None => session'[w] = None
      /\ session[w] # None =>
           /\ session'[w] \in Session
           /\ session'[w].e = session[w].e /\ session'[w].pending = session[w].pending
           /\ session'[w].mark = "old" =>
                session[w].mark = "old" \/ (session[w].e = e /\ w # keep)
  BY <1>1, <1>2, Rows
<1>6. /\ trust[w] = None => trust'[w] = None
      /\ trust[w] # None =>
           /\ trust'[w] \in Grant
           /\ trust'[w].e = trust[w].e
           /\ trust'[w].mark = "old" => trust[w].mark = "old" \/ (trust[w].e = e /\ w # keep)
  BY <1>3, <1>4, Rows
<1> QED
  BY <1>5, <1>6

\* Requests of other devices keep their place and their employee.
LEMMA Overtaken ==
    ASSUME TypeOK, NEW v \in Devices, NEW e \in Employees, NEW keep \in Devices \union {None},
           Outdate(v, e, keep)
    PROVE  /\ req' \in [Devices -> Request]
           /\ req'[v].pc = "sign out" /\ req'[v].of = e /\ req'[v].keep = keep
           /\ \A w \in Devices \ {v} :
                /\ req'[w].pc = req[w].pc
                /\ req[w].pc \in Login5 =>
                     req'[w].e = req[w].e /\ req'[w].mark \in {req[w].mark, "late"}
                /\ req[w].pc \notin Login5 => req'[w] = req[w]
<1> DEFINE r == [pc |-> "sign out", of |-> e, keep |-> keep]
<1>1. r \in Request /\ r.pc = "sign out" /\ r.of = e /\ r.keep = keep
  BY DEF Request
<1>2. req'[v] = r
  BY DEF Outdate
<1> HIDE DEF r
<1>3. ASSUME NEW w \in Devices \ {v}
      PROVE  req'[w] = IF req[w].pc \in Login5 /\ req[w].e = e
                       THEN [req[w] EXCEPT !.mark = "late"] ELSE req[w]
  BY Rows, RequestFields DEF Outdate
<1>4. ASSUME NEW w \in Devices \ {v}
      PROVE  /\ req'[w] \in Request
             /\ req'[w].pc = req[w].pc
             /\ req[w].pc \in Login5 =>
                  req'[w].e = req[w].e /\ req'[w].mark \in {req[w].mark, "late"}
             /\ req[w].pc \notin Login5 => req'[w] = req[w]
  BY <1>3, Rows, RequestMarked
<1>5. \A w \in Devices : req'[w] \in Request
  BY <1>1, <1>2, <1>4
<1>6. req' \in [Devices -> Request]
  BY <1>5 DEF Outdate
<1> QED
  BY <1>1, <1>2, <1>4, <1>6

LEMMA OutdateStep ==
    ASSUME SignInInv, NEW v \in Devices, NEW e \in Employees, NEW keep \in Devices \union {None},
           Press(v), Outdate(v, e, keep), emp' \in [Employees -> Employee],
           UNCHANGED <<window, gave>>
    PROVE  SignInInv'
<1> USE DEF SignInInv
<1>1. req[v].pc = "idle"
  BY IdleIsRequest DEF Press
<1>2. TypeOK'
  <2>1. session' \in [Devices -> Session \union {None}] /\ trust' \in [Devices -> Grant \union {None}]
    <3>1. \A w \in Devices : session'[w] \in Session \union {None} /\ trust'[w] \in Grant \union {None}
      BY Outdated
    <3> QED
      BY <3>1 DEF Outdate
  <2>2. req' \in [Devices -> Request]
    BY Overtaken
  <2>3. presses' \in 0..MaxPresses
    BY MaxPressesAssumption DEF TypeOK, Press
  <2> QED
    BY <2>1, <2>2, <2>3 DEF TypeOK
<1>3. CodeGivenFirst'
  <2> SUFFICES ASSUME NEW w \in Devices
               PROVE  /\ trust'[w] # None => trust'[w].e \in gave[w]
                      /\ req'[w].pc \in {"trusted", "code", "grant"} => req'[w].e \in gave[w]
                      /\ req'[w].pc = "code" /\ session'[w] # None => session'[w].e = req'[w].e
    BY DEF CodeGivenFirst, At
  <2>1. trust'[w] # None => trust'[w].e \in gave[w]
    BY Outdated DEF CodeGivenFirst
  <2>2. req'[w].pc \in {"trusted", "code", "grant"} => w # v /\ req[w].pc = req'[w].pc /\ req'[w].e = req[w].e
    BY Overtaken DEF Login5
  <2>3. session'[w] # None => session[w] # None /\ session'[w].e = session[w].e
    BY Outdated
  <2> QED
    BY <2>1, <2>2, <2>3, InOrder DEF At
<1>4. NothingOldUnderWay'
  BY Overtaken DEF NothingOldUnderWay, Login5
<1>5. \A w \in Devices : req[w].pc \in {"sign out", "revoke"} => w # v /\ req'[w] = req[w]
  BY <1>1, Overtaken DEF Login5
<1>6. req'[v].pc = "sign out" /\ req'[v].of = e /\ req'[v].keep = keep
  BY Overtaken
<1>7. OldIsDue'
  <2>1. ASSUME NEW w \in Devices, session'[w] # None, session'[w].mark = "old"
        PROVE  \E u \in Devices : SignsOut(u, session[w].e, w)'
    <3>1. /\ session[w] # None /\ session'[w].e = session[w].e
          /\ session[w].mark = "old" \/ (session[w].e = e /\ w # keep)
      BY <2>1, Outdated
    <3>2. CASE session[w].mark = "old"
      <4>1. PICK u \in Devices : SignsOut(u, session[w].e, w)
        BY <3>1, <3>2 DEF OldIsDue
      <4> QED
        BY <1>5, <3>1, <4>1 DEF SignsOut, At
    <3>3. CASE session[w].e = e /\ w # keep
      BY <1>6, <3>1, <3>3 DEF SignsOut, At
    <3> QED
      BY <3>1, <3>2, <3>3
  <2>2. ASSUME NEW w \in Devices, trust'[w] # None, trust'[w].mark = "old"
        PROVE  \E u \in Devices : Resets(u, trust[w].e, w)'
    <3>1. /\ trust[w] # None /\ trust'[w].e = trust[w].e
          /\ trust[w].mark = "old" \/ (trust[w].e = e /\ w # keep)
      BY <2>2, Outdated
    <3>2. CASE trust[w].mark = "old"
      <4>1. PICK u \in Devices : Resets(u, trust[w].e, w)
        BY <3>1, <3>2 DEF OldIsDue
      <4> QED
        BY <1>5, <3>1, <4>1 DEF Resets
    <3>3. CASE trust[w].e = e /\ w # keep
      BY <1>6, <3>1, <3>3 DEF Resets
    <3> QED
      BY <3>1, <3>2, <3>3
  <2> QED
    BY <2>1, <2>2 DEF OldIsDue
<1>8. CodeGivenHere'
  BY Outdated DEF CodeGivenHere
<1> QED
  BY <1>2, <1>3, <1>4, <1>7, <1>8

LEMMA ResetSignIn ==
    ASSUME SignInInv, NEW v \in Devices, NEW e \in Employees,
           ResetPassword(v, e) \/ ResetMfa(v, e) \/ ChangePassword(v)
    PROVE  SignInInv'
<1>1. CASE ResetPassword(v, e)
  BY <1>1, OutdateStep DEF ResetPassword, SignInInv, TypeOK
<1>2. CASE ResetMfa(v, e)
  <2>1. emp' = [emp EXCEPT ![e].secret = FALSE, ![e].enrolled = FALSE]
    BY <1>2 DEF ResetMfa
  <2>2. emp' \in [Employees -> Employee]
    <3> DEFINE half == [emp EXCEPT ![e].secret = FALSE]
    <3>1. emp' = [half EXCEPT ![e].enrolled = FALSE]
      BY <2>1
    <3>2. half \in [Employees -> Employee]
      <4>1. emp[e] \in Employee
        BY DEF SignInInv, TypeOK
      <4>2. [emp[e] EXCEPT !.secret = FALSE] \in Employee
        BY <4>1 DEF Employee
      <4>3. half = [emp EXCEPT ![e] = [emp[e] EXCEPT !.secret = FALSE]]
        OBVIOUS
      <4> QED
        BY <4>2, <4>3 DEF SignInInv, TypeOK
    <3> HIDE DEF half
    <3>3. [half[e] EXCEPT !.enrolled = FALSE] \in Employee
      <4>1. half[e] \in Employee
        BY <3>2
      <4> QED
        BY <4>1 DEF Employee
    <3> QED
      BY <3>1, <3>2, <3>3
  <2> QED
    BY <1>2, <2>2, OutdateStep DEF ResetMfa
<1>3. CASE ChangePassword(v)
  <2>1. session[v].e \in Employees
    BY <1>3, Rows DEF SignInInv, ChangePassword, Full, SignedIn
  <2> QED
    BY <1>3, <2>1, OutdateStep DEF ChangePassword, SignInInv, TypeOK
<1> QED
  BY <1>1, <1>2, <1>3

LEMMA SignOutSignIn ==
    ASSUME SignInInv, NEW v \in Devices, SignOut(v)
    PROVE  SignInInv'
<1> USE DEF SignInInv
<1> DEFINE next == [req[v] EXCEPT !.pc = "revoke"]
<1>1. req[v].pc = "sign out"
  BY DEF SignOut, At
<1>2. next \in Request /\ next.pc = "revoke" /\ next.of = req[v].of /\ next.keep = req[v].keep
  BY <1>1, Rows, RequestMoved
<1> HIDE DEF next
<1>3. Goto(v, next)
  BY DEF SignOut, next
<1>4. /\ req'[v] = next
      /\ \A w \in Devices \ {v} : req'[w] = req[w]
      /\ req' \in [Devices -> Request]
  BY <1>2, <1>3, OneRequest
<1>5. /\ \A w \in Devices :
           session'[w] = IF session[w] # None /\ session[w].e = req[v].of /\ w # req[v].keep
                         THEN None ELSE session[w]
      /\ session' \in [Devices -> Session \union {None}]
  BY DEF SignOut, TypeOK
<1>6. UNCHANGED <<emp, window, trust, gave, presses>>
  BY DEF SignOut
<1>7. TypeOK'
  BY <1>4, <1>5, <1>6 DEF TypeOK
<1>8. CodeGivenFirst' /\ CodeGivenHere'
  BY <1>2, <1>4, <1>5, <1>6 DEF CodeGivenFirst, CodeGivenHere, At
<1>9. NothingOldUnderWay'
  BY <1>2, <1>4 DEF NothingOldUnderWay
<1>10. OldIsDue'
  <2>1. ASSUME NEW w \in Devices, session'[w] # None, session'[w].mark = "old"
        PROVE  \E u \in Devices : SignsOut(u, session[w].e, w)'
    <3>1. /\ session'[w] = session[w] /\ session[w] # None
          /\ ~(session[w].e = req[v].of /\ w # req[v].keep)
      BY <1>5, <2>1
    <3>2. PICK u \in Devices : SignsOut(u, session[w].e, w)
      BY <2>1, <3>1 DEF OldIsDue
    <3>3. u # v
      BY <3>1, <3>2 DEF SignsOut
    <3> QED
      BY <1>4, <3>1, <3>2, <3>3 DEF SignsOut, At
  <2>2. ASSUME NEW w \in Devices, trust'[w] # None, trust'[w].mark = "old"
        PROVE  \E u \in Devices : Resets(u, trust[w].e, w)'
    <3>1. PICK u \in Devices : Resets(u, trust[w].e, w)
      BY <1>6, <2>2 DEF OldIsDue
    <3> QED
      BY <1>1, <1>2, <1>4, <1>6, <3>1 DEF Resets
  <2> QED
    BY <2>1, <2>2 DEF OldIsDue
<1> QED
  BY <1>7, <1>8, <1>9, <1>10

LEMMA RevokeSignIn ==
    ASSUME SignInInv, NEW v \in Devices, Revoke(v)
    PROVE  SignInInv'
<1> USE DEF SignInInv
<1>1. req[v].pc \in {"revoke", "deactivate"}
  BY DEF Revoke, At
<1>2. /\ req'[v] = Idle /\ req'[v].pc = "idle"
      /\ \A w \in Devices \ {v} : req'[w] = req[w]
      /\ req' \in [Devices -> Request]
  BY IdleIsRequest, OneRequest DEF Revoke
<1>3. /\ \A w \in Devices :
           trust'[w] = IF trust[w] # None /\ trust[w].e = req[v].of /\ w # req[v].keep
                       THEN None ELSE trust[w]
      /\ trust' \in [Devices -> Grant \union {None}]
  BY DEF Revoke, Revoked, TypeOK
<1>4. UNCHANGED <<emp, window, session, gave, presses>>
  BY DEF Revoke
<1>5. TypeOK'
  BY <1>2, <1>3, <1>4 DEF TypeOK
<1>6. CodeGivenFirst' /\ CodeGivenHere'
  BY <1>2, <1>3, <1>4 DEF CodeGivenFirst, CodeGivenHere, At
<1>7. NothingOldUnderWay'
  BY <1>2 DEF NothingOldUnderWay
<1>8. OldIsDue'
  <2>1. ASSUME NEW w \in Devices, session'[w] # None, session'[w].mark = "old"
        PROVE  \E u \in Devices : SignsOut(u, session[w].e, w)'
    <3>1. PICK u \in Devices : SignsOut(u, session[w].e, w)
      BY <1>4, <2>1 DEF OldIsDue
    <3> QED
      BY <1>1, <1>2, <1>4, <3>1 DEF SignsOut, At
  <2>2. ASSUME NEW w \in Devices, trust'[w] # None, trust'[w].mark = "old"
        PROVE  \E u \in Devices : Resets(u, trust[w].e, w)'
    <3>1. /\ trust'[w] = trust[w] /\ trust[w] # None
          /\ ~(trust[w].e = req[v].of /\ w # req[v].keep)
      BY <1>3, <2>2
    <3>2. PICK u \in Devices : Resets(u, trust[w].e, w)
      BY <2>2, <3>1 DEF OldIsDue
    <3>3. u # v
      BY <3>1, <3>2 DEF Resets
    <3> QED
      BY <1>2, <3>1, <3>2, <3>3 DEF Resets
  <2> QED
    BY <2>1, <2>2 DEF OldIsDue
<1> QED
  BY <1>5, <1>6, <1>7, <1>8

LEMMA LeaveSignIn ==
    ASSUME SignInInv, NEW v \in Devices, Leave(v)
    PROVE  SignInInv'
<1> USE DEF SignInInv
<1> DEFINE forgiven(row) == /\ req[v].pc \in {"sign out", "revoke"} /\ row # None
                            /\ row.e = req[v].of /\ row.mark = "old"
<1>1. /\ req'[v] = Idle /\ req'[v].pc = "idle"
      /\ \A w \in Devices \ {v} : req'[w] = req[w]
      /\ req' \in [Devices -> Request]
  BY IdleIsRequest, OneRequest DEF Leave
<1>2. \A w \in Devices :
        /\ session'[w] = IF forgiven(session[w]) THEN [session[w] EXCEPT !.mark = "late"] ELSE session[w]
        /\ trust'[w] = IF forgiven(trust[w]) THEN [trust[w] EXCEPT !.mark = "late"] ELSE trust[w]
  BY DEF Leave
<1>3. ASSUME NEW w \in Devices
      PROVE  /\ session[w] # None =>
                  LET late == [session[w] EXCEPT !.mark = "late"]
                  IN  /\ late \in Session /\ late.e = session[w].e /\ late.mark = "late"
                      /\ late.pending = session[w].pending
             /\ trust[w] # None =>
                  LET late == [trust[w] EXCEPT !.mark = "late"]
                  IN  late \in Grant /\ late.e = trust[w].e /\ late.mark = "late"
  <2>1. session[w] # None =>
          LET late == [session[w] EXCEPT !.mark = "late"]
          IN  /\ late \in Session /\ late.e = session[w].e /\ late.mark = "late"
              /\ late.pending = session[w].pending
    BY Rows DEF Session, Mark
  <2>2. trust[w] # None =>
          LET late == [trust[w] EXCEPT !.mark = "late"]
          IN  late \in Grant /\ late.e = trust[w].e /\ late.mark = "late"
    BY Rows DEF Grant, Mark
  <2> QED
    BY <2>1, <2>2
<1>4. ASSUME NEW w \in Devices
      PROVE  /\ session'[w] \in Session \union {None}
             /\ session[w] = None => session'[w] = None
             /\ session[w] # None => /\ session'[w].e = session[w].e
                                     /\ session'[w].pending = session[w].pending
                                     /\ session'[w].mark = "old" =>
                                          session[w].mark = "old" /\ ~forgiven(session[w])
  BY <1>2, <1>3, Rows
<1>5. ASSUME NEW w \in Devices
      PROVE  /\ trust'[w] \in Grant \union {None}
             /\ trust[w] = None => trust'[w] = None
             /\ trust[w] # None => /\ trust'[w].e = trust[w].e
                                   /\ trust'[w].mark = "old" =>
                                        trust[w].mark = "old" /\ ~forgiven(trust[w])
  BY <1>2, <1>3, Rows
<1>6. TypeOK'
  <2>1. session' \in [Devices -> Session \union {None}] /\ trust' \in [Devices -> Grant \union {None}]
    BY <1>4, <1>5 DEF Leave
  <2> QED
    BY <1>1, <2>1 DEF TypeOK, Leave
<1>7. CodeGivenFirst' /\ CodeGivenHere'
  <2>1. gave' = gave
    BY DEF Leave
  <2>2. CodeGivenHere'
    BY <1>4, <2>1 DEF CodeGivenHere
  <2>3. ASSUME NEW w \in Devices
        PROVE  /\ trust'[w] # None => trust'[w].e \in gave[w]
               /\ req'[w].pc \in {"trusted", "code", "grant"} => req'[w].e \in gave[w]
               /\ req'[w].pc = "code" /\ session'[w] # None => session'[w].e = req'[w].e
    BY <1>1, <1>4, <1>5, InOrder DEF At
  <2> QED
    BY <2>1, <2>2, <2>3 DEF CodeGivenFirst, At
<1>8. NothingOldUnderWay'
  BY <1>1 DEF NothingOldUnderWay
<1>9. OldIsDue'
  <2>1. ASSUME NEW w \in Devices, session'[w] # None, session'[w].mark = "old"
        PROVE  \E u \in Devices : SignsOut(u, session[w].e, w)'
    <3>1. /\ session[w] # None /\ session'[w].e = session[w].e
          /\ session[w].mark = "old" /\ ~forgiven(session[w])
      BY <1>4, <2>1
    <3>2. PICK u \in Devices : SignsOut(u, session[w].e, w)
      BY <3>1 DEF OldIsDue
    <3>3. u # v
      BY <3>1, <3>2 DEF SignsOut, At
    <3> QED
      BY <1>1, <3>1, <3>2, <3>3 DEF SignsOut, At
  <2>2. ASSUME NEW w \in Devices, trust'[w] # None, trust'[w].mark = "old"
        PROVE  \E u \in Devices : Resets(u, trust[w].e, w)'
    <3>1. /\ trust[w] # None /\ trust'[w].e = trust[w].e
          /\ trust[w].mark = "old" /\ ~forgiven(trust[w])
      BY <1>5, <2>2
    <3>2. PICK u \in Devices : Resets(u, trust[w].e, w)
      BY <3>1 DEF OldIsDue
    <3>3. u # v
      BY <3>1, <3>2 DEF Resets
    <3> QED
      BY <1>1, <3>1, <3>2, <3>3 DEF Resets
  <2> QED
    BY <2>1, <2>2 DEF OldIsDue
<1> QED
  BY <1>6, <1>7, <1>8, <1>9

-----------------------------------------------------------------------------
LEMMA NextSignIn == SignInInv /\ [Next]_vars => SignInInv'
<1> SUFFICES ASSUME SignInInv, [Next]_vars PROVE SignInInv'
  OBVIOUS
<1>1. CASE UNCHANGED vars
  <2>1. TypeOK'
    BY <1>1 DEF vars, SignInInv, TypeOK
  <2> QED
    BY <1>1, <2>1, SettingStep DEF vars
<1>2. ASSUME NEW v \in Devices, OpenSession(v) PROVE SignInInv'
  BY <1>2, OpenSessionSignIn
<1>3. ASSUME NEW v \in Devices, Enroll(v) PROVE SignInInv'
  BY <1>3, EnrollSignIn
<1>4. ASSUME NEW v \in Devices, GiveCode(v) PROVE SignInInv'
  BY <1>4, GiveCodeSignIn
<1>5. ASSUME NEW v \in Devices, Verify(v) PROVE SignInInv'
  BY <1>5, VerifySignIn
<1>6. ASSUME NEW v \in Devices, GrantTrust(v) PROVE SignInInv'
  BY <1>6, GrantTrustSignIn
<1>7. ASSUME NEW v \in Devices, Logout(v) \/ ExpireSession(v) PROVE SignInInv'
  BY <1>7, SessionEnds
<1>8. ASSUME NEW v \in Devices, Age(v) PROVE SignInInv'
  BY <1>8, AgeSignIn
<1>9. ASSUME NEW v \in Devices, ChangePassword(v) PROVE SignInInv'
  BY <1>9, ResetSignIn, BossAssumption
<1>10. ASSUME NEW v \in Devices, SignOut(v) PROVE SignInInv'
  BY <1>10, SignOutSignIn
<1>11. ASSUME NEW v \in Devices, Revoke(v) PROVE SignInInv'
  BY <1>11, RevokeSignIn
<1>12. ASSUME NEW v \in Devices, Commit(v) PROVE SignInInv'
  BY <1>12, CommitSignIn
<1>13. ASSUME NEW v \in Devices, Leave(v) PROVE SignInInv'
  BY <1>13, LeaveSignIn
<1>14. ASSUME NEW v \in Devices, NEW e \in Employees, Login(v, e) PROVE SignInInv'
  BY <1>14, LoginSignIn
<1>15. ASSUME NEW v \in Devices, NEW e \in Employees, ResetPassword(v, e) \/ ResetMfa(v, e)
       PROVE  SignInInv'
  BY <1>15, ResetSignIn
<1>16. ASSUME NEW v \in Devices, NEW e \in Employees, NEW role \in Role, NEW active \in BOOLEAN,
              Update(v, e, role, active)
       PROVE  SignInInv'
  BY <1>16, UpdateSignIn
<1>17. ASSUME NEW v \in Devices, NEW hours \in 0..MaxHours, SetWindow(v, hours) PROVE SignInInv'
  BY <1>17, SetWindowSignIn
<1> QED
  BY <1>1, <1>2, <1>3, <1>4, <1>5, <1>6, <1>7, <1>8, <1>9, <1>10, <1>11, <1>12, <1>13, <1>14,
     <1>15, <1>16, <1>17 DEF Next

\* Everything below rests on this invariant.
THEOREM SignInInvariant == Spec => []SignInInv
BY InitSignIn, NextSignIn, PTL DEF Spec

\* The types of the sessions, the grants and what requests have read.
THEOREM SignInTyped == Spec => []TypeOK
<1>1. SignInInv => TypeOK
  BY DEF SignInInv
<1> QED
  BY <1>1, SignInInvariant, PTL

\* However sign-ins on a shared device overlap with resets and with each other,
\* a full session is of somebody who gave a code on that device (login,
\* device_trusted, mfa_verify).
THEOREM CodeWasGiven == Spec => []CodeGivenHere
<1>1. SignInInv => CodeGivenHere
  BY DEF SignInInv
<1> QED
  BY <1>1, SignInInvariant, PTL

\* However resets overlap, one that has come to its end left no session and no
\* grant of before (reset_password, reset_mfa, change_password, revoke_trust).
THEOREM ResetLeavesNothing == Spec => []ResetSignsOut
<1>1. SignInInv => ResetSignsOut
  <2> SUFFICES ASSUME SignInInv, NEW v \in Devices, NEW e \in Employees,
                      \/ session[v] # None /\ session[v].e = e /\ session[v].mark = "old"
                      \/ trust[v] # None /\ trust[v].e = e /\ trust[v].mark = "old"
               PROVE  Resetting(e)
    BY DEF ResetSignsOut
  <2>1. \E w \in Devices : Resets(w, e, v)
    <3>1. \A w \in Devices : SignsOut(w, e, v) => Resets(w, e, v)
      BY DEF SignsOut, Resets, At
    <3> QED
      BY <3>1 DEF SignInInv, OldIsDue
  <2> QED
    BY <2>1 DEF Resetting, Resets
<1> QED
  BY <1>1, SignInInvariant, PTL

=============================================================================
