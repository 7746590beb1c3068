------------------------------ MODULE Throttle ------------------------------
(***************************************************************************)
(* The brute-force throttle (auth/throttle.ts) in front of every check of  *)
(* a password, code or recovery key.  begin() charges an attempt before    *)
(* scrypt runs, success() clears what it charged; in between any number of *)
(* others begin.  The counters of the addresses are the process's, those   *)
(* of the account are a row of its database: the pending claim's while     *)
(* there is one, else the owner's.                                         *)
(***************************************************************************)
EXTENDS Naturals, FiniteSets

CONSTANTS
  IPs, Attempts,
  IP_THRESHOLD, IP_BASE_MS, IP_MAX_MS,
  GLOBAL_THRESHOLD, GLOBAL_BASE_MS, GLOBAL_MAX_MS,
  IP_ENTRY_TTL_MS,
  PRUNE_AT,    \* entries from which on old ones are removed
  NoLock,
  MaxTime      \* (bound)

LockRows == {"owner", "pending"}
ASSUME ThrottleAssumption ==
  /\ {IP_THRESHOLD, GLOBAL_THRESHOLD, IP_ENTRY_TTL_MS, PRUNE_AT, MaxTime} \subseteq Nat
  /\ IP_BASE_MS \in Nat /\ IP_MAX_MS \in IP_BASE_MS..128 * IP_BASE_MS
  /\ GLOBAL_BASE_MS \in Nat /\ GLOBAL_MAX_MS \in GLOBAL_BASE_MS..128 * GLOBAL_BASE_MS
  /\ IPs \cap LockRows = {}

VARIABLES
  now,
  ips,      \* the IpState of each address
  lock,     \* the two rows with counters
  attempt,  \* attempts whose secret is being checked
  guesses   \* since when an address, or a row, was not cleared, and the guesses since

throttleVars == <<now, ips, lock, attempt, guesses>>

IpState == [fails : Nat, lockedUntil : Nat, last : Nat]
AuthLock == [failed : Nat, until : Nat]
ASSUME NoLockAssumption == NoLock \notin IpState \cup AuthLock
Unlocked == [failed |-> 0, until |-> 0]
NoAttempt == [ip |-> NoLock, global |-> FALSE]
Unguessed == [n |-> 0, since |-> now]

ThrottleTypeOK ==
  /\ now \in Nat
  /\ ips \in [IPs -> IpState \cup {NoLock}]
  /\ lock \in [LockRows -> AuthLock \cup {NoLock}]
  /\ attempt \in [Attempts -> [ip : IPs \cup {NoLock}, global : BOOLEAN]]
  /\ guesses \in [IPs \cup LockRows -> [n : Nat, since : Nat]]

\* A worker with or without an owner and a claim; the gateway has no rows at all.
ThrottleInit ==
  /\ now = 1
  /\ ips = [ip \in IPs |-> NoLock]
  /\ lock \in [LockRows -> {NoLock, Unlocked}]
  /\ attempt = [a \in Attempts |-> NoAttempt]
  /\ guesses = [k \in IPs \cup LockRows |-> [n |-> 0, since |-> 1]]

\* base * 2 ** (n - threshold - 1), at most max.
Doubled == <<1, 2, 4, 8, 16, 32, 64>>
Backoff(n, threshold, base, max) ==
  LET k == IF n > threshold THEN n - threshold ELSE 1 IN
  IF k > 7 \/ base * Doubled[k] > max THEN max ELSE base * Doubled[k]

\* Old failures from a quiet address decay after a day.
Quiet(st) == now > st.last + IP_ENTRY_TTL_MS
Entry(ip) ==
  IF ips[ip] = NoLock \/ (ips[ip].lockedUntil <= now /\ Quiet(ips[ip]))
  THEN [fails |-> 0, lockedUntil |-> 0, last |-> now] ELSE ips[ip]

LockedOnce(st) ==   \* mutant: the lock is set at the threshold only
  LET n == st.fails + 1 IN
  [fails |-> n, last |-> now,
   lockedUntil |-> IF n = IP_THRESHOLD + 1 THEN now + Backoff(n, IP_THRESHOLD, IP_BASE_MS, IP_MAX_MS)
                   ELSE st.lockedUntil]
ChargedIp(st) ==
  LET n == st.fails + 1 IN
  [fails |-> n, last |-> now,
   lockedUntil |-> IF n > IP_THRESHOLD THEN now + Backoff(n, IP_THRESHOLD, IP_BASE_MS, IP_MAX_MS)
                   ELSE st.lockedUntil]
ChargedLock(l) ==
  LET n == l.failed + 1 IN
  [failed |-> n,
   until |-> IF n > GLOBAL_THRESHOLD THEN now + Backoff(n, GLOBAL_THRESHOLD, GLOBAL_BASE_MS, GLOBAL_MAX_MS)
             ELSE l.until]

\* getAuthLock(): a pending claim guards the account.
Guard == IF lock["pending"] # NoLock THEN "pending" ELSE "owner"
Charges(global) == global /\ lock[Guard] # NoLock
LockOpen == lock[Guard].until <= now

\* prune(): a full map loses what has expired.
Known == {ip \in IPs : ips[ip] # NoLock}
Expired(st) == Quiet(st) /\ st.lockedUntil < now
Pruned == [ip \in IPs |-> IF ips[ip] # NoLock /\ Cardinality(Known) >= PRUNE_AT /\ Expired(ips[ip])
                          THEN NoLock ELSE ips[ip]]

(***************************************************************************)
(* begin(): one step, whatever comes after it.                             *)
(***************************************************************************)
Counted(g, fresh) == [n |-> IF fresh THEN 1 ELSE g.n + 1, since |-> IF fresh THEN now ELSE g.since]

Begin(a, ip, global) ==
  /\ attempt[a] = NoAttempt
  /\ Entry(ip).lockedUntil <= now
  /\ Charges(global) => LockOpen
  /\ lock' = IF Charges(global) THEN [lock EXCEPT ![Guard] = ChargedLock(@)] ELSE lock
  /\ ips' = [Pruned EXCEPT ![ip] = ChargedIp(Entry(ip))]
  /\ attempt' = [attempt EXCEPT ![a] = [ip |-> ip, global |-> global]]
  /\ guesses' = [k \in IPs \cup LockRows |->
       IF k = ip THEN Counted(guesses[k], Entry(ip).fails = 0)
       ELSE IF k = Guard /\ Charges(global) THEN Counted(guesses[k], lock[Guard].failed = 0)
       ELSE guesses[k]]
  /\ UNCHANGED now

\* 429: nothing is charged; the full map was looked through.
Refused(ip, global) ==
  /\ Entry(ip).lockedUntil > now \/ (Charges(global) /\ ~LockOpen)
  /\ ips' = Pruned /\ UNCHANGED <<now, lock, attempt, guesses>>

\* success(): the account's counters are those of the row that guards it now.
Succeeds(a) ==
  /\ attempt[a] # NoAttempt
  /\ ips' = [ips EXCEPT ![attempt[a].ip] = NoLock]
  /\ lock' = IF Charges(attempt[a].global) THEN [lock EXCEPT ![Guard] = Unlocked] ELSE lock
  /\ attempt' = [attempt EXCEPT ![a] = NoAttempt]
  /\ UNCHANGED <<now, guesses>>

\* Wrong, or right but not all: the attempt stays charged.
StaysCharged(a) ==
  /\ attempt[a] # NoAttempt /\ attempt' = [attempt EXCEPT ![a] = NoAttempt]
  /\ UNCHANGED <<now, ips, lock, guesses>>

(***************************************************************************)
(* The rows come and go: setPendingClaim() starts at zero, a claim deletes *)
(* the pending row and leaves an owner, a wipe leaves no owner.            *)
(***************************************************************************)
ClaimIssued ==
  /\ lock' = [lock EXCEPT !["pending"] = Unlocked] /\ UNCHANGED <<now, ips, attempt, guesses>>
ClaimDone ==
  /\ lock["pending"] # NoLock
  /\ lock' = [lock EXCEPT !["pending"] = NoLock, !["owner"] = IF @ = NoLock THEN Unlocked ELSE @]
  /\ UNCHANGED <<now, ips, attempt, guesses>>
OwnerGone ==
  /\ lock["owner"] # NoLock /\ lock' = [r \in LockRows |-> NoLock]
  /\ UNCHANGED <<now, ips, attempt, guesses>>

\* The process starts again: the addresses are forgotten, the rows are not.
ThrottleRestarts ==
  /\ ips' = [ip \in IPs |-> NoLock] /\ attempt' = [a \in Attempts |-> NoAttempt]
  /\ UNCHANGED <<now, lock, guesses>>

TimePasses == now < MaxTime /\ now' = now + 1 /\ UNCHANGED <<ips, lock, attempt, guesses>>

ThrottleNext ==
  \/ \E a \in Attempts : Succeeds(a) \/ StaysCharged(a) \/ \E ip \in IPs, g \in BOOLEAN : Begin(a, ip, g)
  \/ \E ip \in IPs, g \in BOOLEAN : Refused(ip, g)
  \/ ClaimIssued \/ ClaimDone \/ OwnerGone \/ ThrottleRestarts \/ TimePasses

ThrottleSpec == ThrottleInit /\ [][ThrottleNext]_throttleVars

(***************************************************************************)
(* However many attempts run at once and succeed in between, the guesses   *)
(* from one address, and those at one row, come at the pace of the locks   *)
(* once the threshold is passed; and no lock lasts longer than its maximum.*)
(***************************************************************************)
Paced(g, threshold, base) ==
  g.n > threshold + 1 => g.since + (g.n - threshold - 1) * base <= now
GuessesArePaced ==
  /\ \A ip \in IPs :
       /\ ips[ip] # NoLock => ips[ip].lockedUntil <= now + IP_MAX_MS
       /\ Paced(guesses[ip], IP_THRESHOLD, IP_BASE_MS)
  /\ \A r \in LockRows :
       /\ lock[r] # NoLock => lock[r].until <= now + GLOBAL_MAX_MS
       /\ Paced(guesses[r], GLOBAL_THRESHOLD, GLOBAL_BASE_MS)
=============================================================================
