--------------------------------- MODULE SignIn ---------------------------------
(***************************************************************************)
(* How employees sign in (src/api/src/routes/session.rs,                   *)
(* employee_auth.rs) and how admins manage them (routes/employees.rs).     *)
(*                                                                         *)
(* A sign-in is a password and then a code from the employee's phone.  A   *)
(* device on which a code was given is trusted for some hours: there, the  *)
(* same employee needs the password only.  The stand tablet is shared.     *)
(*                                                                         *)
(* Most handlers are several statements without a transaction, and every   *)
(* device has one request at a time.  Passwords and codes that are wrong   *)
(* change nothing and are left out.                                        *)
(***************************************************************************)
EXTENDS Naturals, FiniteSets

CONSTANTS
    Employees, Devices,
    Boss,           \* the admin the server starts with
    MaxHours,       \* bound: the longest trust window
    MaxPresses,     \* bound: how many changes admins make, own passwords included
    None

ASSUME MaxHoursAssumption == MaxHours \in Nat \ {0}
ASSUME MaxPressesAssumption == MaxPresses \in Nat
ASSUME BossAssumption == Boss \in Employees /\ None \notin Employees

VARIABLES
    emp,        \* emp[e]: the row in employees
    window,     \* settings.mfa_trust_hours
    session,    \* session[v]: the row of the session cookie on device v
    trust,      \* trust[v]: the row of the trust cookie on device v
    req,        \* req[v]: the request of device v, and what it has read
    gave,       \* gave[v]: who ever gave a code on device v; not in the program
    presses     \* changes made so far

vars == <<emp, window, session, trust, req, gave, presses>>

Role == {"worker", "admin"}
Employee == [role : Role, active : BOOLEAN, secret : BOOLEAN, enrolled : BOOLEAN]

\* What became of a session or a grant when its employee was reset: "old" ones
\* were there before, "late" ones were made by a request that was under way, or
\* the reset stopped before it came to them.  Not in the program.
Mark == {"ok", "old", "late"}
Session == [e : Employees, pending : BOOLEAN, mark : Mark]
Grant == [e : Employees, age : 0..MaxHours, hours : 1..MaxHours, mark : Mark]
Request ==
    [pc : {"idle"}]
    \union [pc : {"trusted", "refused", "plain"}, e : Employees, mark : Mark]
    \union [pc : {"code"}, e : Employees, first : BOOLEAN, mark : Mark]
    \union [pc : {"grant"}, e : Employees, mark : Mark]
    \union [pc : {"sign out", "revoke", "deactivate"}, of : Employees, keep : Devices \union {None}]
    \union [pc : {"count"}, of : Employees, role : Role, active : BOOLEAN]

TypeOK ==
    /\ emp \in [Employees -> Employee]
    /\ window \in 0..MaxHours
    /\ session \in [Devices -> Session \union {None}]
    /\ trust \in [Devices -> Grant \union {None}]
    /\ req \in [Devices -> Request]
    /\ gave \in [Devices -> SUBSET Employees]
    /\ presses \in 0..MaxPresses

Idle == [pc |-> "idle"]

Init ==
    /\ emp = [e \in Employees |-> [role |-> IF e = Boss THEN "admin" ELSE "worker",
                                   active |-> TRUE, secret |-> FALSE, enrolled |-> FALSE]]
    /\ window = MaxHours
    /\ session = [v \in Devices |-> None]
    /\ trust = [v \in Devices |-> None]
    /\ req = [v \in Devices |-> Idle]
    /\ gave = [v \in Devices |-> {}]
    /\ presses = 0

At(v, pc) == req[v].pc = pc
Goto(v, r) == req' = [req EXCEPT ![v] = r]

\* A change an admin asks for, or an employee of their own password.
Press(v) == req[v] = Idle /\ presses < MaxPresses /\ presses' = presses + 1

\* load_session
SignedIn(v) == session[v] # None /\ emp[session[v].e].active
Full(v) == SignedIn(v) /\ ~session[v].pending
Admin(v) == Full(v) /\ emp[session[v].e].role = "admin"

-----------------------------------------------------------------------------
(* Signing in.                                                             *)

\* Mutant of DeviceTrusted: whoever the device was trusted for.
DeviceTrustedForAll(v, e) ==
    trust[v] # None /\ trust[v].age < trust[v].hours /\ trust[v].age < window

\* device_trusted: this employee's grant, inside its own window and the current one.
DeviceTrusted(v, e) ==
    /\ trust[v] # None
    /\ trust[v].e = e
    /\ trust[v].age < trust[v].hours
    /\ trust[v].age < window

\* login: the password fits; the employee is read, then the grant.
Login(v, e) ==
    /\ req[v] = Idle
    /\ emp[e].active
    /\ Goto(v, [pc |-> IF ~emp[e].enrolled \/ trust[v] = None THEN "plain"
                      ELSE IF DeviceTrusted(v, e) THEN "trusted" ELSE "refused",
                e |-> e, mark |-> "ok"])
    /\ UNCHANGED <<emp, window, session, trust, gave, presses>>

\* The session: pending unless the device is trusted.  A trust cookie that did
\* not serve is cleared.
OpenSession(v) ==
    /\ req[v].pc \in {"trusted", "refused", "plain"}
    /\ session' = [session EXCEPT ![v] =
         [e |-> req[v].e, pending |-> ~At(v, "trusted"), mark |-> req[v].mark]]
    /\ trust' = IF At(v, "refused") THEN [trust EXCEPT ![v] = None] ELSE trust
    /\ Goto(v, Idle)
    /\ UNCHANGED <<emp, window, gave, presses>>

\* mfa_enroll, for an employee who has not.
Enroll(v) ==
    /\ req[v] = Idle
    /\ SignedIn(v) /\ session[v].pending
    /\ ~emp[session[v].e].enrolled
    /\ emp' = [emp EXCEPT ![session[v].e].secret = TRUE]
    /\ UNCHANGED <<window, session, trust, req, gave, presses>>

\* mfa_verify: the code fits the secret that was read.
GiveCode(v) ==
    /\ req[v] = Idle
    /\ SignedIn(v) /\ session[v].pending
    /\ emp[session[v].e].secret
    /\ Goto(v, [pc |-> "code", e |-> session[v].e, first |-> ~emp[session[v].e].enrolled,
                mark |-> IF session[v].mark = "ok" THEN "ok" ELSE "late"])
    /\ gave' = [gave EXCEPT ![v] = @ \union {session[v].e}]
    /\ UNCHANGED <<emp, window, session, trust, presses>>

\* Its transaction.  The session may be gone by now: then it stays gone.
Verify(v) ==
    /\ At(v, "code")
    /\ emp' = IF req[v].first THEN [emp EXCEPT ![req[v].e].enrolled = TRUE] ELSE emp
    /\ session' = IF session[v] # None THEN [session EXCEPT ![v].pending = FALSE] ELSE session
    /\ Goto(v, [pc |-> "grant", e |-> req[v].e, mark |-> req[v].mark])
    /\ UNCHANGED <<window, trust, gave, presses>>

\* grant_trust, unless the window is off.
GrantTrust(v) ==
    /\ At(v, "grant")
    /\ trust' = IF window = 0 THEN trust
                ELSE [trust EXCEPT ![v] = [e |-> req[v].e, age |-> 0, hours |-> window, mark |-> req[v].mark]]
    /\ Goto(v, Idle)
    /\ UNCHANGED <<emp, window, session, gave, presses>>

Logout(v) ==
    /\ req[v] = Idle
    /\ session' = [session EXCEPT ![v] = None]
    /\ UNCHANGED <<emp, window, trust, req, gave, presses>>

\* An hour passes for a grant; twelve have passed for a session.
Age(v) ==
    /\ trust[v] # None /\ trust[v].age < MaxHours
    /\ trust' = [trust EXCEPT ![v].age = @ + 1]
    /\ UNCHANGED <<emp, window, session, req, gave, presses>>
ExpireSession(v) ==
    /\ session[v] # None
    /\ session' = [session EXCEPT ![v] = None]
    /\ UNCHANGED <<emp, window, trust, req, gave, presses>>

-----------------------------------------------------------------------------
(* Resets: the row of the employee is written, then every session of       *)
(* theirs is deleted, then every grant.                                    *)

\* All that e has becomes old, and requests of e under way are late.
Outdate(v, e, keep) ==
    /\ session' = [w \in Devices |->
         IF w # keep /\ session[w] # None /\ session[w].e = e /\ session[w].mark = "ok"
         THEN [session[w] EXCEPT !.mark = "old"] ELSE session[w]]
    /\ trust' = [w \in Devices |->
         IF w # keep /\ trust[w] # None /\ trust[w].e = e /\ trust[w].mark = "ok"
         THEN [trust[w] EXCEPT !.mark = "old"] ELSE trust[w]]
    /\ req' = [w \in Devices |->
         IF w = v THEN [pc |-> "sign out", of |-> e, keep |-> keep]
         ELSE IF "e" \in DOMAIN req[w] /\ req[w].e = e THEN [req[w] EXCEPT !.mark = "late"]
         ELSE req[w]]

ResetPassword(v, e) ==
    /\ Press(v) /\ Admin(v)
    /\ Outdate(v, e, None)
    /\ UNCHANGED <<emp, window, gave>>

ResetMfa(v, e) ==
    /\ Press(v) /\ Admin(v)
    /\ emp' = [emp EXCEPT ![e].secret = FALSE, ![e].enrolled = FALSE]
    /\ Outdate(v, e, None)
    /\ UNCHANGED <<window, gave>>

\* change_password keeps this device's session and its grant.
ChangePassword(v) ==
    /\ Press(v) /\ Full(v)
    /\ Outdate(v, session[v].e, v)
    /\ UNCHANGED <<emp, window, gave>>

SignOut(v) ==
    /\ At(v, "sign out")
    /\ session' = [w \in Devices |->
         IF session[w] # None /\ session[w].e = req[v].of /\ w # req[v].keep THEN None ELSE session[w]]
    /\ Goto(v, [req[v] EXCEPT !.pc = "revoke"])
    /\ UNCHANGED <<emp, window, trust, gave, presses>>

\* Mutant of Revoked: grants of trusted devices that are signed out are missed.
RevokedIfSignedIn(w, e) == trust[w] # None /\ trust[w].e = e /\ session[w] # None

\* revoke_trust
Revoked(w, e) == trust[w] # None /\ trust[w].e = e

Revoke(v) ==
    /\ At(v, "revoke") \/ At(v, "deactivate")
    /\ trust' = [w \in Devices |->
         IF Revoked(w, req[v].of) /\ w # req[v].keep THEN None ELSE trust[w]]
    /\ Goto(v, Idle)
    /\ UNCHANGED <<emp, window, session, gave, presses>>

-----------------------------------------------------------------------------
(* Admins.                                                                 *)

ActiveAdmins(rows) == {e \in Employees : rows[e].active /\ rows[e].role = "admin"}

\* What update counts: its own change, and the rows others have committed.
AdminsLeft(e, role, active) ==
    ActiveAdmins([emp EXCEPT ![e].role = role, ![e].active = active]) # {}

\* update writes the row, which locks it, and counts; then it commits.  Two at a
\* time do not see each other's change, and may demote the last two admins.
Update(v, e, role, active) ==
    /\ Press(v) /\ Admin(v)
    /\ \A w \in Devices : ~(At(w, "count") /\ req[w].of = e)
    /\ AdminsLeft(e, role, active)
    /\ Goto(v, [pc |-> "count", of |-> e, role |-> role, active |-> active])
    /\ UNCHANGED <<emp, window, session, trust, gave>>

\* Deactivation goes on to revoke the grants; sessions are not deleted.
Commit(v) ==
    /\ At(v, "count")
    /\ emp' = [emp EXCEPT ![req[v].of].role = req[v].role, ![req[v].of].active = req[v].active]
    /\ Goto(v, IF req[v].active THEN Idle
               ELSE [pc |-> "deactivate", of |-> req[v].of, keep |-> None])
    /\ UNCHANGED <<window, session, trust, gave, presses>>

SetWindow(v, hours) ==
    /\ Press(v) /\ Admin(v)
    /\ window' = hours
    /\ UNCHANGED <<emp, session, trust, req, gave>>

\* The request is dropped between two statements.  What a reset that stops half
\* way left is not held against it; one that has written nothing may just wait.
Leave(v) ==
    /\ req[v].pc \in {"grant", "sign out", "revoke", "deactivate"}
    /\ LET forgive(row) == IF req[v].pc \in {"sign out", "revoke"} /\ row # None
                              /\ row.e = req[v].of /\ row.mark = "old"
                           THEN [row EXCEPT !.mark = "late"] ELSE row
       IN  /\ session' = [w \in Devices |-> forgive(session[w])]
           /\ trust' = [w \in Devices |-> forgive(trust[w])]
    /\ Goto(v, Idle)
    /\ UNCHANGED <<emp, window, gave, presses>>

Next ==
    \E v \in Devices :
      \/ OpenSession(v) \/ Enroll(v) \/ GiveCode(v) \/ Verify(v)
      \/ GrantTrust(v) \/ Logout(v) \/ Age(v) \/ ExpireSession(v)
      \/ ChangePassword(v) \/ SignOut(v) \/ Revoke(v) \/ Commit(v) \/ Leave(v)
      \/ \E e \in Employees :
           \/ Login(v, e) \/ ResetPassword(v, e) \/ ResetMfa(v, e)
           \/ \E role \in Role, active \in BOOLEAN : Update(v, e, role, active)
      \/ \E hours \in 0..MaxHours : SetWindow(v, hours)

Spec == Init /\ [][Next]_vars

-----------------------------------------------------------------------------
(* Properties.                                                             *)

\* Whoever is fully signed in on a device gave a code there at some time, though
\* the device is shared and trusted for others (0022_mfa_trust.sql: "It is bound
\* to one employee").
CodeGivenHere ==
    \A v \in Devices : session[v] # None /\ ~session[v].pending => session[v].e \in gave[v]

\* After a reset nothing of before is left, except what a request that was
\* under way made afterwards, or when the reset itself was dropped half way.
Resetting(e) == \E v \in Devices : req[v].pc \in {"sign out", "revoke"} /\ req[v].of = e
ResetSignsOut ==
    \A v \in Devices, e \in Employees :
      \/ Resetting(e)
      \/ /\ ~(session[v] # None /\ session[v].e = e /\ session[v].mark = "old")
         /\ ~(trust[v] # None /\ trust[v].e = e /\ trust[v].mark = "old")
=============================================================================
