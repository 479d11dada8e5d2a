---------------------------- MODULE Credentials ----------------------------
(***************************************************************************)
(* Proving who one is: the requests for one account that come before its   *)
(* sessions (Accounts) begin. Attempts to sign in are counted per address, *)
(* the account is locked for ten minutes after too many within one, and    *)
(* one-time tokens verify its email or reset its password.                 *)
(*                                                                         *)
(* A request takes a step per call it awaits, so requests overlap; one may *)
(* break off anywhere. Requests take far less than a minute. The captcha   *)
(* and the administrators' one-time codes, off by default, are left out,   *)
(* and the account is spelled one way.                                     *)
(***************************************************************************)
EXTENDS Naturals, FiniteSets

CONSTANTS
  Form,      \* requests that may run at once
  Ip,        \* addresses they come from
  Limit,     \* attempts that are free (5)
  Word,      \* passwords
  Absent,
  Token,     \* tokens ever made
  Breaks     \* bound: requests that break off

ASSUME CredentialsAssumption ==
  Limit \in Nat \ {0} /\ Breaks \in Nat /\ Absent \notin Word \cup Ip \cup Token

VARIABLES
  form,      \* the running requests
  attempts,  \* per address: login:<email>:<ip>, 0 if absent
  timed,     \* addresses whose counter has its TTL
  locked,    \* lock:<email>
  hash,      \* the account's password, Absent before it is registered
  verified,  \* emailVerifiedAt is set
  token,     \* verify:<token> and reset:<token>: their kind and whether they are kept
  breaks,    \* requests that may still break off
  early,     \* history: attempts per address since its counter, or a minute, began
  stuck,     \* history: addresses whose counter was left without a TTL
  missed,    \* history: addresses that earned a lock whose setting broke off
  used       \* history: tokens something was written with

counters == <<attempts, timed, locked, early>>
account  == <<hash, verified, used>>
formVars == <<form, counters, account, token, breaks, stuck, missed>>

Blank  == [at |-> "idle", ip |-> Absent, word |-> Absent, hash |-> Absent,
           earned |-> FALSE, token |-> Absent]
Unmade == [kind |-> "none", kept |-> FALSE]

FormInit ==
  /\ form = [f \in Form |-> Blank]
  /\ attempts = [i \in Ip |-> 0] /\ timed = {} /\ locked = FALSE
  /\ hash = Absent /\ verified = FALSE /\ token = [k \in Token |-> Unmade]
  /\ breaks = Breaks /\ early = [i \in Ip |-> 0] /\ stuck = {} /\ missed = {} /\ used = {}

AtStep(f, at) == form[f].at = at
GoTo(f, at) == form' = [form EXCEPT ![f].at = at]
Ended(f)   == form' = [form EXCEPT ![f] = Blank]
-----------------------------------------------------------------------------
(* Registering: the unique index refuses a second account.                 *)

Register(f) ==
  /\ AtStep(f, "idle") /\ hash = Absent
  /\ \E w \in Word : form' = [form EXCEPT ![f] = [Blank EXCEPT !.at = "create", !.word = w]]
  /\ UNCHANGED <<counters, account, token, breaks, stuck, missed>>

Create(f) ==
  /\ AtStep(f, "create") /\ Ended(f)
  /\ hash' = IF hash = Absent THEN form[f].word ELSE hash
  /\ UNCHANGED <<counters, verified, used, token, breaks, stuck, missed>>
-----------------------------------------------------------------------------
(* Signing in.                                                             *)

Attempt(f) ==
  /\ AtStep(f, "idle")
  /\ \E i \in Ip, w \in Word :
       form' = [form EXCEPT ![f] = [Blank EXCEPT !.at = "lock?", !.ip = i, !.word = w]]
  /\ UNCHANGED <<counters, account, token, breaks, stuck, missed>>

AskLock(f) ==
  /\ AtStep(f, "lock?") /\ IF locked THEN Ended(f) ELSE GoTo(f, "count")
  /\ UNCHANGED <<counters, account, token, breaks, stuck, missed>>

(* Past the limit all counts are alike.                                    *)
More(n) == IF n > Limit THEN n ELSE n + 1

(* INCR, and EXPIRE by the request that began the counter. "earned" is     *)
(* history: there were too many within the minute, or a stuck counter.     *)
Incr(f) ==
  LET i == form[f].ip
      n == More(attempts[i])
  IN  /\ AtStep(f, "count")
      /\ attempts' = [attempts EXCEPT ![i] = n] /\ early' = [early EXCEPT ![i] = More(@)]
      /\ form' = [form EXCEPT ![f].earned = early'[i] > Limit \/ i \in stuck,
           ![f].at = IF n = 1 THEN "expire" ELSE IF n > Limit THEN "lock" ELSE "find"]
      /\ UNCHANGED <<timed, locked, account, token, breaks, stuck, missed>>

SetTtlNever(f) ==   \* mutant: the counter has no TTL
  /\ AtStep(f, "expire") /\ GoTo(f, "find")
  /\ UNCHANGED <<counters, account, token, breaks, stuck, missed>>
SetTtl(f) ==
  /\ AtStep(f, "expire") /\ GoTo(f, "find")
  /\ timed' = IF attempts[form[f].ip] > 0 THEN timed \cup {form[f].ip} ELSE timed
  /\ UNCHANGED <<attempts, locked, early, account, token, breaks, stuck, missed>>

Lock(f) ==
  /\ AtStep(f, "lock") /\ Ended(f) /\ locked' = TRUE
  /\ UNCHANGED <<attempts, timed, early, account, token, breaks, stuck, missed>>

(* validateUser reads the hash, then compares.                             *)
FindUser(f) ==
  /\ AtStep(f, "find")
  /\ IF hash = Absent THEN Ended(f)
     ELSE form' = [form EXCEPT ![f].hash = hash, ![f].at = "compare"]
  /\ UNCHANGED <<counters, account, token, breaks, stuck, missed>>

(* The right password opens a session (Accounts).                          *)
Compare(f) ==
  /\ AtStep(f, "compare") /\ IF form[f].hash = form[f].word THEN GoTo(f, "clear") ELSE Ended(f)
  /\ UNCHANGED <<counters, account, token, breaks, stuck, missed>>

(* After that the address counts from none.                                *)
ClearCounter(i) ==
  /\ attempts' = [attempts EXCEPT ![i] = 0] /\ timed' = timed \ {i}
  /\ early' = [early EXCEPT ![i] = 0]
  /\ stuck' = stuck \ {i} /\ missed' = missed \ {i}

Clear(f) ==
  /\ AtStep(f, "clear") /\ Ended(f) /\ ClearCounter(form[f].ip)
  /\ UNCHANGED <<locked, account, token, breaks>>

(* A minute after its first attempt a counter with a TTL is gone.          *)
Minute(i) ==
  /\ early[i] > 0 /\ \A f \in Form : AtStep(f, "idle")
  /\ IF i \in timed THEN ClearCounter(i)
     ELSE early' = [early EXCEPT ![i] = 0] /\ UNCHANGED <<attempts, timed, stuck, missed>>
  /\ UNCHANGED <<form, locked, account, token, breaks>>

(* Ten minutes are longer than a counter lives, and than requests take.    *)
LockLapses ==
  /\ locked /\ timed = {} /\ \A f \in Form : AtStep(f, "idle")
  /\ locked' = FALSE
  /\ UNCHANGED <<form, attempts, timed, early, account, token, breaks, stuck, missed>>
-----------------------------------------------------------------------------
(* One-time tokens.                                                        *)

Ask(f, kind) ==
  /\ AtStep(f, "idle") /\ hash # Absent
  /\ \E k \in Token : token[k] = Unmade /\ token' = [token EXCEPT ![k] = [kind |-> kind, kept |-> TRUE]]
  /\ UNCHANGED <<form, counters, account, breaks, stuck, missed>>
RequestVerification(f) == Ask(f, "verify")
RequestReset(f)        == Ask(f, "reset")

Present(f, kind, word) ==
  /\ AtStep(f, "idle")
  /\ \E k \in Token : token[k].kind = kind /\
       form' = [form EXCEPT ![f] = [Blank EXCEPT !.at = "get", !.token = k, !.word = word]]
  /\ UNCHANGED <<counters, account, token, breaks, stuck, missed>>
VerifyEmail(f)   == Present(f, "verify", Absent)
ResetPassword(f) == \E w \in Word : Present(f, "reset", w)

(* Consuming one: read, and deleted by whoever read it.                    *)
GetToken(f) ==
  /\ AtStep(f, "get") /\ IF token[form[f].token].kept THEN GoTo(f, "del") ELSE Ended(f)
  /\ UNCHANGED <<counters, account, token, breaks, stuck, missed>>

DelTokenNot(f) ==   \* mutant: left to its TTL
  /\ AtStep(f, "del") /\ GoTo(f, "save")
  /\ UNCHANGED <<counters, account, token, breaks, stuck, missed>>
DelToken(f) ==
  /\ AtStep(f, "del") /\ GoTo(f, "save") /\ token' = [token EXCEPT ![form[f].token].kept = FALSE]
  /\ UNCHANGED <<counters, account, breaks, stuck, missed>>

WriteUser(f) ==
  /\ AtStep(f, "save") /\ Ended(f) /\ used' = used \cup {form[f].token}
  /\ IF token[form[f].token].kind = "verify" THEN verified' = TRUE /\ UNCHANGED hash
     ELSE hash' = form[f].word /\ UNCHANGED verified
  /\ UNCHANGED <<counters, token, breaks, stuck, missed>>

TokenLapses(k) ==
  /\ token[k].kept /\ token' = [token EXCEPT ![k].kept = FALSE]
  /\ UNCHANGED <<form, counters, account, breaks, stuck, missed>>
-----------------------------------------------------------------------------
Abort(f) ==
  /\ breaks > 0 /\ ~AtStep(f, "idle") /\ Ended(f) /\ breaks' = breaks - 1
  /\ stuck' = (IF AtStep(f, "expire") THEN stuck \cup {form[f].ip} ELSE stuck)
  /\ missed' = (IF AtStep(f, "lock") THEN missed \cup {form[f].ip} ELSE missed)
  /\ UNCHANGED <<counters, account, token>>

FormNext ==
  \/ \E f \in Form :
       \/ Register(f) \/ Create(f) \/ Abort(f)
       \/ Attempt(f) \/ AskLock(f) \/ Incr(f) \/ SetTtl(f) \/ Lock(f)
       \/ FindUser(f) \/ Compare(f) \/ Clear(f)
       \/ RequestVerification(f) \/ RequestReset(f) \/ VerifyEmail(f) \/ ResetPassword(f)
       \/ GetToken(f) \/ DelToken(f) \/ WriteUser(f)
  \/ \E i \in Ip : Minute(i)
  \/ LockLapses
  \/ \E k \in Token : TokenLapses(k)

FormSpec == FormInit /\ [][FormNext]_formVars
-----------------------------------------------------------------------------
(* An account is locked only for more than the free attempts from one      *)
(* address within a minute and since its last session, and for those       *)
(* always: the lock outlives the count that led to it.                     *)
(* Excepted are counters that INCR began and nothing gave a TTL, as a      *)
(* request broke off in between (they count for ever), and locks that a    *)
(* broken-off request did not set.                                         *)
LocksAgree ==
  /\ \A f \in Form : AtStep(f, "lock") => form[f].earned
  /\ \A i \in timed : attempts[i] > Limit =>
       locked \/ i \in missed \/ \E f \in Form : AtStep(f, "lock") /\ form[f].ip = i

(* Nothing is verified or reset with a token that can still be presented:  *)
(* requests that share one overlapped, whatever broke off.                 *)
UsedIsSpent == \A k \in used : ~token[k].kept
=============================================================================
