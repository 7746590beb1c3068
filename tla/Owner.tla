------------------------------- MODULE Owner -------------------------------
(***************************************************************************)
(* The owner of one account, as its worker keeps it: the wrapped private   *)
(* key, the temporary password of the admin that still has to be claimed,  *)
(* the sessions and the two-factor codes (auth/routes.ts, auth/sessions.ts,*)
(* api/internal.ts).  The streams bound to a session are in Gateway.       *)
(*                                                                         *)
(* Every request that checks a password reads the owner's row, waits for   *)
(* scrypt, and then writes from what it had read: other requests run in    *)
(* between.  The rest of a handler is synchronous and is one step here.    *)
(* A wrong password changes nothing but the throttle's counters, so only   *)
(* requests with the password (and key) of the row they read are modelled. *)
(***************************************************************************)
EXTENDS Naturals, FiniteSets

CONSTANTS
  Reqs,      \* requests in flight
  Sessions,  \* session ids
  None,
  Steps,     \* TOTP time steps
  MaxGen,    \* key pairs generated        (bound)
  MaxPw,     \* passwords ever set         (bound)
  MaxSecrets \* TOTP secrets ever enrolled (bound)

ASSUME OwnerAssumption == Steps \subseteq Nat \ {0} /\ {MaxGen, MaxPw, MaxSecrets} \subseteq Nat

VARIABLES
  owner,    \* table owner: None, or the row
  pending,  \* table pending_claim: None, or its mode
  session,  \* table sessions: None, or the key and the password it came from
  enrol,    \* pendingTotp: the secret a session is enrolling, 0 for none
  req,      \* requests
  count,    \* key pairs, passwords and secrets made so far
  used,     \* codes accepted so far: <<secret, step>>
  reused,   \* whether a code was accepted twice
  crossed   \* whether a request wrote over another owner than it had read

vars == <<owner, pending, session, enrol, req, count, used, reused, crossed>>

Ops == {"signup", "login", "claim", "recover", "password", "rotate", "verify", "enable", "disable",
        "provision", "recovery", "wipe"}
Idle == [op |-> None]
\* gen: the public key; key, rec: the private key wrapped under the password
\* and under the recovery key; totp: the secret, 0 if off; last: its last step.
Row(gen, pw) == [gen |-> gen, pw |-> pw, key |-> gen, rec |-> gen, totp |-> 0, last |-> 0]
GenOf(row) == IF row = None THEN 0 ELSE row.gen

OwnerRows == [gen: 1..MaxGen, pw: 1..MaxPw, key: 1..MaxGen, rec: 1..MaxGen,
              totp: 0..MaxSecrets, last: {0} \cup Steps]
SessionRows == [key: 1..MaxGen, pw: 1..MaxPw, late: BOOLEAN]
ASSUME NoneAssumption == None \notin {"new", "reset"} \cup Ops \cup Sessions \cup OwnerRows \cup SessionRows
TypeOK ==
  /\ owner \in OwnerRows \cup {None}
  /\ pending \in {None, "new", "reset"}
  /\ session \in [Sessions -> SessionRows \cup {None}]
  /\ enrol \in [Sessions -> 0..MaxSecrets]
  /\ req \in [Reqs -> {Idle} \cup
       [op: Ops, at: {"temp", "scrypt", "wiped"}, mode: {None, "new", "reset"}, ses: Sessions \cup {None},
        row: OwnerRows \cup {None}, secret: 0..MaxSecrets, step: {0} \cup Steps]]
  /\ count \in [gen: 0..MaxGen, pw: 0..MaxPw, secret: 0..MaxSecrets]
  /\ used \subseteq (1..MaxSecrets) \X Steps
  /\ reused \in BOOLEAN /\ crossed \in BOOLEAN

\* A new account, provisioned or not.
Init ==
  /\ owner = None
  /\ pending \in {None, "new"}
  /\ session = [s \in Sessions |-> None]
  /\ enrol = [s \in Sessions |-> 0]
  /\ req = [r \in Reqs |-> Idle]
  /\ count = [gen |-> 0, pw |-> 0, secret |-> 0]
  /\ used = {}
  /\ reused = FALSE
  /\ crossed = FALSE

Live(s) == session[s] # None
\* Session ids are random: one that is still remembered is not given out again.
Unused(s) ==
  /\ ~Live(s)
  /\ \A r \in Reqs : req[r] # Idle => req[r].ses # s

(***************************************************************************)
(* The statements of db/repo.ts that a handler is built from.              *)
(***************************************************************************)
InsertSession(s, key, pw, late) ==
  /\ Unused(s)
  /\ session' = [session EXCEPT ![s] = [key |-> key, pw |-> pw, late |-> late]]
\* deleteAllSessions(except): the session that changes the password stays.
WithoutSessions(keep, pw) ==
  [s \in Sessions |-> IF s = keep /\ Live(s) THEN [session[s] EXCEPT !.pw = pw] ELSE None]

\* consumeTotpStep(): an UPDATE that only ever raises the step.
Accepts(row, step) == step > row.last
AcceptsAsRead(r) == owner # None /\ Accepts(req[r].row, req[r].step)   \* mutant: no condition on the row written
Consumes(r) ==
  /\ owner # None /\ Accepts(req[r].row, req[r].step)
  /\ owner.last < req[r].step
Consumed(r) == [owner EXCEPT !.last = req[r].step]
Spend(secret, step) ==
  /\ used' = used \cup {<<secret, step>>}
  /\ reused' = (reused \/ (<<secret, step>> \in used /\ secret = owner.totp))

\* The second factor of the row that was read, if it has one.
Factor(r) ==
  IF req[r].row.totp = 0 THEN owner' = owner /\ UNCHANGED <<used, reused>>
  ELSE Consumes(r) /\ owner' = Consumed(r) /\ Spend(req[r].row.totp, req[r].step)

(***************************************************************************)
(* Requests: what is read before the wait for scrypt.                      *)
(***************************************************************************)
NeedsCode(op) == op = "enable" \/ (owner # None /\ owner.totp # 0 /\ op \in {"login", "verify", "rotate", "disable"})
Start(r, op, ses) ==
  /\ req[r] = Idle
  /\ \E step \in IF NeedsCode(op) THEN Steps ELSE {0} :
       req' = [req EXCEPT ![r] =
         [op |-> op, at |-> IF op = "claim" THEN "temp" ELSE "scrypt", mode |-> pending, ses |-> ses,
          row |-> owner, secret |-> IF op = "enable" THEN enrol[ses] ELSE 0, step |-> step]]
  /\ UNCHANGED <<owner, pending, session, enrol, count, used, reused, crossed>>

\* Only the gateway's admin signs up, once, instead of claiming.
Signup(r) == owner = None /\ pending = None /\ count.gen = 0 /\ Start(r, "signup", None)
Login(r) == pending = None /\ owner # None /\ Start(r, "login", None)
Claim(r) == pending # None /\ Start(r, "claim", None)
Recover(r) == owner # None /\ Start(r, "recover", None)
Sensitive(r, s) ==
  /\ Live(s) /\ owner # None
  /\ \/ Start(r, "password", s)
     \/ Start(r, "rotate", s)
     \/ Start(r, "verify", s)
     \/ owner.totp = 0 /\ enrol[s] # 0 /\ Start(r, "enable", s)
     \/ owner.totp # 0 /\ Start(r, "disable", s)
\* The admin's requests (/internal).
Provision(r) == owner = None /\ Start(r, "provision", None)
Reset(r) == owner # None /\ \E op \in {"recovery", "wipe"} : Start(r, op, None)

(***************************************************************************)
(* And what is written after it.                                           *)
(***************************************************************************)
Waited(r, op) == req[r] # Idle /\ req[r].op = op /\ req[r].at = "scrypt"
Finish(r) ==
  /\ req' = [req EXCEPT ![r] = Idle]
  /\ crossed' = (crossed \/ GenOf(req[r].row) # GenOf(owner))
NewPassword == count.pw < MaxPw /\ count' = [count EXCEPT !.pw = @ + 1]
NoTotp == [s \in Sessions |-> 0]

\* A session is late if the password it came from was replaced, or put aside
\* by the admin, while the request waited.
FinishLogin(r) ==
  /\ Waited(r, "login") /\ Finish(r)
  /\ LET row == req[r].row
         late == owner = None \/ pending # None \/ [owner EXCEPT !.totp = 0, !.last = 0, !.rec = 0]
                                                  # [row EXCEPT !.totp = 0, !.last = 0, !.rec = 0]
     IN \E s \in Sessions : InsertSession(s, row.key, row.pw, late)
  /\ Factor(r)
  /\ UNCHANGED <<pending, enrol, count>>

\* /claim: after the temporary password was checked; a reset account's row is
\* read now, for the second wait.
TempChecked(r) ==
  /\ req[r] # Idle /\ req[r].op = "claim" /\ req[r].at = "temp"
  /\ req' = [req EXCEPT ![r].at = "scrypt", ![r].row = IF req[r].mode = "reset" THEN owner ELSE @]
  /\ req[r].mode = "reset" => owner # None
  /\ UNCHANGED <<owner, pending, session, enrol, count, used, reused, crossed>>

\* createAccount(): INSERT OR IGNORE, and the claim goes in the same transaction.
Created(r, left) ==
  /\ Waited(r, "signup") \/ (Waited(r, "claim") /\ req[r].mode = "new")
  /\ Finish(r)
  /\ owner = None
  /\ count.gen < MaxGen /\ count.pw < MaxPw
  /\ count' = [count EXCEPT !.gen = @ + 1, !.pw = @ + 1]
  /\ owner' = Row(count'.gen, count'.pw)
  /\ pending' = left
  /\ \E s \in Sessions : InsertSession(s, count'.gen, count'.pw, FALSE)
  /\ UNCHANGED <<enrol, used, reused>>
ClaimStays(r) == Created(r, pending)   \* mutant
CreateAccount(r) == Created(r, None)

\* performRecovery(), for /recover and for a claim after an admin's reset.
PerformRecovery(r) ==
  /\ Waited(r, "recover") \/ (Waited(r, "claim") /\ req[r].mode = "reset")
  /\ Finish(r) /\ NewPassword
  /\ owner' = IF owner = None THEN None   \* UPDATE of no row
              ELSE [owner EXCEPT !.pw = count'.pw, !.key = req[r].row.rec, !.rec = req[r].row.rec,
                                 !.totp = 0, !.last = 0]
  /\ pending' = None
  /\ \E s \in Sessions :
       /\ Unused(s)
       /\ session' = [WithoutSessions(None, 0) EXCEPT
            ![s] = [key |-> req[r].row.rec, pw |-> count'.pw, late |-> owner = None]]
  /\ enrol' = NoTotp
  /\ UNCHANGED <<used, reused>>

FinishPassword(r) ==
  /\ Waited(r, "password") /\ Finish(r) /\ NewPassword
  /\ owner' = IF owner = None THEN None ELSE [owner EXCEPT !.pw = count'.pw, !.key = req[r].row.key]
  /\ session' = WithoutSessions(req[r].ses, count'.pw)
  /\ UNCHANGED <<pending, enrol, used, reused>>

\* verifyOwnerSecret(), then what each route does.
FinishRotate(r) ==
  /\ Waited(r, "rotate") /\ Finish(r)
  /\ IF req[r].row.totp = 0
     THEN /\ owner' = IF owner = None THEN None ELSE [owner EXCEPT !.rec = req[r].row.key]
          /\ UNCHANGED <<used, reused>>
     ELSE /\ Consumes(r)
          /\ owner' = [Consumed(r) EXCEPT !.rec = req[r].row.key]
          /\ Spend(req[r].row.totp, req[r].step)
  /\ UNCHANGED <<pending, session, enrol, count>>
FinishVerify(r) ==
  /\ Waited(r, "verify") /\ Finish(r) /\ Factor(r)
  /\ UNCHANGED <<pending, session, enrol, count>>
\* The code that proves the enrolment counts as used.
FinishEnable(r) ==
  /\ Waited(r, "enable") /\ Finish(r)
  /\ enrol[req[r].ses] = req[r].secret   \* a secret that was replaced is zeroed
  /\ IF owner = None THEN UNCHANGED <<owner, used, reused>>
     ELSE /\ owner' = [owner EXCEPT !.totp = req[r].secret, !.last = req[r].step]
          /\ used' = used \cup {<<req[r].secret, req[r].step>>} /\ UNCHANGED reused
  /\ enrol' = [enrol EXCEPT ![req[r].ses] = 0]
  /\ UNCHANGED <<pending, session, count>>
FinishDisable(r) ==
  /\ Waited(r, "disable") /\ Finish(r) /\ Consumes(r)
  /\ owner' = [owner EXCEPT !.totp = 0, !.last = 0]
  /\ Spend(req[r].row.totp, req[r].step)
  /\ UNCHANGED <<pending, session, enrol, count>>

FinishProvision(r) ==
  /\ Waited(r, "provision") /\ Finish(r)
  /\ pending' = "new"
  /\ UNCHANGED <<owner, session, enrol, count, used, reused>>
Issued(r, sessions) ==
  /\ Waited(r, "recovery") /\ Finish(r)
  /\ pending' = "reset"
  /\ session' = sessions
  /\ UNCHANGED <<owner, enrol, count, used, reused>>
SessionsStay(r) == Issued(r, session)   \* mutant
IssueReset(r) == Issued(r, WithoutSessions(None, 0))
\* resetAccount() empties the database at once; the new temporary password is
\* written after the files are gone.
ResetAccount(r) ==
  /\ Waited(r, "wipe")
  /\ req' = [req EXCEPT ![r].at = "wiped", ![r].row = None]
  /\ crossed' = (crossed \/ GenOf(req[r].row) # GenOf(owner))
  /\ owner' = None /\ pending' = None
  /\ session' = WithoutSessions(None, 0)
  /\ UNCHANGED <<enrol, count, used, reused>>
FinishWipe(r) ==
  /\ req[r] # Idle /\ req[r].op = "wipe" /\ req[r].at = "wiped" /\ Finish(r)
  /\ pending' = "new"
  /\ UNCHANGED session
  /\ UNCHANGED <<owner, enrol, count, used, reused>>

\* A handler ends early: wrong password or code, someone else was first
\* (createAccount's conflict), or the files of a wipe cannot be removed.
GiveUp(r) ==
  /\ req[r] # Idle
  /\ req' = [req EXCEPT ![r] = Idle]
  /\ UNCHANGED <<owner, pending, session, enrol, count, used, reused, crossed>>

(***************************************************************************)
(* Handlers without a wait.                                                *)
(***************************************************************************)
Logout(s) ==
  /\ Live(s)
  /\ session' = [session EXCEPT ![s] = None]
  /\ enrol' = [enrol EXCEPT ![s] = 0]
  /\ UNCHANGED <<owner, pending, req, count, used, reused, crossed>>
LogoutAll ==
  /\ \E s \in Sessions : Live(s)
  /\ session' = WithoutSessions(None, 0)
  /\ enrol' = NoTotp
  /\ UNCHANGED <<owner, pending, req, count, used, reused, crossed>>
\* The user ends one session, or the admin all of them.
RevokeSessions ==
  /\ \E s \in Sessions : Live(s) /\ session' \in {[session EXCEPT ![s] = None], WithoutSessions(None, 0)}
  /\ UNCHANGED <<owner, pending, enrol, req, count, used, reused, crossed>>
\* Idle or too old: the next request, or the hourly clean-up, deletes the row.
Expire(s) ==
  /\ Live(s)
  /\ session' = [session EXCEPT ![s] = None]
  /\ UNCHANGED <<owner, pending, enrol, req, count, used, reused, crossed>>
SetupTotp(s) ==
  /\ Live(s) /\ owner # None /\ owner.totp = 0
  /\ count.secret < MaxSecrets /\ count' = [count EXCEPT !.secret = @ + 1]
  /\ enrol' = [enrol EXCEPT ![s] = count'.secret]
  /\ UNCHANGED <<owner, pending, session, req, used, reused, crossed>>

Next ==
  \/ \E r \in Reqs :
       \/ Signup(r) \/ Login(r) \/ Claim(r) \/ Recover(r) \/ Provision(r) \/ Reset(r)
       \/ \E s \in Sessions : Sensitive(r, s)
       \/ FinishLogin(r) \/ TempChecked(r) \/ CreateAccount(r) \/ PerformRecovery(r)
       \/ FinishPassword(r) \/ FinishRotate(r) \/ FinishVerify(r) \/ FinishEnable(r) \/ FinishDisable(r)
       \/ FinishProvision(r) \/ IssueReset(r) \/ ResetAccount(r) \/ FinishWipe(r) \/ GiveUp(r)
  \/ \E s \in Sessions : Logout(s) \/ Expire(s) \/ SetupTotp(s)
  \/ LogoutAll \/ RevokeSessions

Spec == Init /\ [][Next]_vars

(***************************************************************************)
(* Properties                                                              *)
(***************************************************************************)

\* The private key wrapped under the password and the one wrapped under the
\* recovery key both belong to the account's public key, and a temporary
\* password fits the account: a new one has no owner yet, a reset one has.
\* Only a request that waited while the account became another one's can
\* break this (every handler writes what it had read before the wait).
OwnerFits ==
  crossed \/ /\ owner # None => owner.key = owner.gen /\ owner.rec = owner.gen
             /\ pending = "new" => owner = None
             /\ pending = "reset" => owner # None

\* Sessions opened with a password end when it is replaced or put aside: each
\* live one holds the owner's key and the current password, unless its login
\* was already waiting at that moment (or the password was changed from it).
SessionsMatch ==
  \A s \in Sessions : Live(s) /\ ~session[s].late /\ ~crossed =>
    owner # None /\ pending = None /\ session[s].key = owner.key /\ session[s].pw = owner.pw

\* What the account's requests keep together (auth/routes.ts, api/internal.ts): its
\* two wrapped keys, its temporary password and its sessions, both of the above.
AccountFits == OwnerFits /\ SessionsMatch

\* consumeTotpStep(): parallel requests cannot use one code twice while its
\* secret is in force, the code of the enrolment included.
CodesUsedOnce == ~reused

(***************************************************************************)
(* Not kept.                                                               *)
(***************************************************************************)
\* Without the exception: a request that waits over a wipe and the next claim
\* writes the old owner's wrapped key into the new owner's row.
AlwaysFits == owner # None => owner.key = owner.gen /\ owner.rec = owner.gen
\* "The old password stops working" (internal.ts), without the exception.
NoOldSession == \A s \in Sessions : Live(s) /\ owner # None => session[s].pw = owner.pw
=============================================================================
