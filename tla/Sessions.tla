------------------------------- MODULE Sessions -------------------------------
(***************************************************************************)
(* Accounts and sessions: signup, verification by the code that was        *)
(* mailed, login with its two limits, one in the memory of the process by  *)
(* address and one in the row of the account, and the tokens.              *)
(*                                                                         *)
(* A request is suspended at every statement; others run in between.  What *)
(* it read before stays what it goes by.  That a statement fails, or its   *)
(* reply does, is the end of the request after what was executed.          *)
(***************************************************************************)
EXTENDS Naturals, FiniteSets

CONSTANTS
  Emails, Addresses,
  Requests,             \* bound: requests under way at a time
  Limit,                \* failures that lock, and logins of a window: 5
  MaxFailures,          \* bound: no login begins after as many failures
  KeysFromEnvironment   \* whether JWT_PRIVATE_KEY and JWT_PUBLIC_KEY are set

ASSUME SessionsAssumption ==
  /\ Limit \in Nat \ {0} /\ MaxFailures \in Nat
  /\ IsFiniteSet(Requests) /\ KeysFromEnvironment \in BOOLEAN

VARIABLES
  account,    \* email -> its row of users, with or without a code that is valid
  attempts,   \* email -> users.failed_login_attempts
  locked,     \* the emails whose users.locked_until is to come
  limiter,    \* address -> count of its entry in loginAttempts, 0 without one
  tokens,     \* emails a valid token was issued for
  request,    \* slot -> the request that has it
  begun,      \* history: logins let through since the window or a success
  failures,   \* history: failures recorded since the lock ended or a success
  spared      \* history: emails that a request did not get to lock since then

rowVars     == <<account, attempts, locked>>
historyVars == <<begun, failures, spared>>
vars == <<rowVars, limiter, tokens, request, historyVars>>

Idle == [op |-> "none"]

InFlight == {r \in Requests : request[r] # Idle}

At(r, op) == request[r] # Idle /\ request[r].op = op

TypeOK ==
  /\ account \in [Emails -> {"absent", "unverified", "expired", "verified"}]
  /\ attempts \in [Emails -> 0 .. MaxFailures + Cardinality(Requests)]
  /\ locked \subseteq Emails
  /\ limiter \in [Addresses -> 0 .. Limit]
  /\ tokens \subseteq Emails
  /\ request \in [Requests ->
       {Idle} \union [op : {"getUserByEmail", "createUser", "verifyUserEmail", "setVerified"},
                      email : Emails]
              \union [op : {"lookup", "compare", "fail", "lock", "reset"},
                      email : Emails, address : Addresses, verified : BOOLEAN]]

Init ==
  /\ account = [e \in Emails |-> "absent"]
  /\ attempts = [e \in Emails |-> 0]
  /\ locked = {} /\ tokens = {}
  /\ limiter = [a \in Addresses |-> 0]
  /\ request = [r \in Requests |-> Idle]
  /\ begun = [a \in Addresses |-> 0]
  /\ failures = [e \in Emails |-> 0]
  /\ spared = {}

Answered(r) == request' = [request EXCEPT ![r] = Idle]

Awaits(r, op) == request' = [request EXCEPT ![r].op = op]

-----------------------------------------------------------------------------
(* POST /api/auth/signup *)

Signup(r, e) ==
  /\ request[r] = Idle
  /\ request' = [request EXCEPT ![r] = [op |-> "getUserByEmail", email |-> e]]
  /\ UNCHANGED <<rowVars, limiter, tokens, historyVars>>

(* getUserByEmail; the password is hashed before createUser is sent. *)
SignupLookup(r) ==
  /\ At(r, "getUserByEmail")
  /\ IF account[request[r].email] = "absent" THEN Awaits(r, "createUser") ELSE Answered(r)
  /\ UNCHANGED <<rowVars, limiter, tokens, historyVars>>

(* Mutant: the row of the email is replaced. *)
CreateUserUpsert(r) ==
  /\ At(r, "createUser")
  /\ account' = [account EXCEPT ![request[r].email] = "unverified"]
  /\ Answered(r)
  /\ UNCHANGED <<attempts, locked, limiter, tokens, historyVars>>

(* users.email is unique: of two signups one is answered with the error. *)
CreateUser(r) ==
  LET e == request[r].email
  IN  /\ At(r, "createUser")
      /\ account' = IF account[e] = "absent" THEN [account EXCEPT ![e] = "unverified"]
                    ELSE account
      /\ Answered(r)
      /\ UNCHANGED <<attempts, locked, limiter, tokens, historyVars>>

-----------------------------------------------------------------------------
(* POST /api/auth/verify with the right code *)

Verify(r, e) ==
  /\ request[r] = Idle
  /\ request' = [request EXCEPT ![r] = [op |-> "verifyUserEmail", email |-> e]]
  /\ UNCHANGED <<rowVars, limiter, tokens, historyVars>>

VerifyLookup(r) ==
  /\ At(r, "verifyUserEmail")
  /\ IF account[request[r].email] = "unverified" THEN Awaits(r, "setVerified")
     ELSE Answered(r)
  /\ UNCHANGED <<rowVars, limiter, tokens, historyVars>>

(* The update names the row by its id alone; a token is the answer. *)
SetVerified(r) ==
  LET e == request[r].email
  IN  /\ At(r, "setVerified")
      /\ account' = [account EXCEPT ![e] = "verified"]
      /\ tokens' = tokens \union {e}
      /\ Answered(r)
      /\ UNCHANGED <<attempts, locked, limiter, historyVars>>

-----------------------------------------------------------------------------
(* POST /api/auth/login *)

(* isRateLimited and recordLoginAttempt in one stretch *)
Login(r, e, a) ==
  /\ request[r] = Idle
  /\ limiter[a] < Limit /\ attempts[e] < MaxFailures
  /\ limiter' = [limiter EXCEPT ![a] = @ + 1]
  /\ request' = [request EXCEPT ![r] =
       [op |-> "lookup", email |-> e, address |-> a, verified |-> FALSE]]
  /\ begun' = [begun EXCEPT ![a] = @ + 1]
  /\ UNCHANGED <<rowVars, tokens, failures, spared>>

(* getUserByEmail: what it returns is what the rest goes by. *)
LoginLookup(r) ==
  LET e == request[r].email
  IN  /\ At(r, "lookup")
      /\ IF account[e] = "absent" \/ e \in locked THEN Answered(r)
         ELSE request' = [request EXCEPT ![r].op = "compare",
                                         ![r].verified = account[e] = "verified"]
      /\ UNCHANGED <<rowVars, limiter, tokens, historyVars>>

(* The password is wrong, or right; an account that was not verified when  *)
(* it was read is refused.                                                 *)
ComparePassword(r) ==
  /\ At(r, "compare")
  /\ \/ Awaits(r, "fail")
     \/ IF request[r].verified THEN Awaits(r, "reset") ELSE Answered(r)
  /\ UNCHANGED <<rowVars, limiter, tokens, historyVars>>

(* The account has had n failures: lock it, or answer. *)
LockAfter(r, n) == IF n >= Limit THEN Awaits(r, "lock") ELSE Answered(r)

(* Mutant: of overlapping failures one is lost. *)
IncrementStale(r) ==
  LET e == request[r].email
      n == attempts[e] + (IF \E q \in Requests \ {r} : At(q, "fail") THEN 0 ELSE 1)
  IN  /\ At(r, "fail")
      /\ attempts' = [attempts EXCEPT ![e] = n]
      /\ LockAfter(r, n)
      /\ failures' = [failures EXCEPT ![e] = @ + 1]
      /\ UNCHANGED <<account, locked, limiter, tokens, begun, spared>>

(* incrementFailedLogin adds in the database and returns the sum. *)
IncrementFailedLogin(r) ==
  LET e == request[r].email
  IN  /\ At(r, "fail")
      /\ attempts' = [attempts EXCEPT ![e] = @ + 1]
      /\ LockAfter(r, attempts[e] + 1)
      /\ failures' = [failures EXCEPT ![e] = @ + 1]
      /\ UNCHANGED <<account, locked, limiter, tokens, begun, spared>>

LockUser(r) ==
  /\ At(r, "lock")
  /\ locked' = locked \union {request[r].email}
  /\ Answered(r)
  /\ UNCHANGED <<account, attempts, limiter, tokens, historyVars>>

(* resetFailedLogin opens an account that was locked meanwhile, too. *)
ResetFailedLogin(r) ==
  LET e == request[r].email
      a == request[r].address
  IN  /\ At(r, "reset")
      /\ attempts' = [attempts EXCEPT ![e] = 0]
      /\ locked' = locked \ {e}
      /\ limiter' = [limiter EXCEPT ![a] = 0]
      /\ tokens' = tokens \union {e}
      /\ Answered(r)
      /\ begun' = [begun EXCEPT ![a] = 0]
      /\ failures' = [failures EXCEPT ![e] = 0]
      /\ spared' = spared \ {e}
      /\ UNCHANGED account

-----------------------------------------------------------------------------
(* The database fails a request, and 500 is the answer. *)
Fail(r) ==
  /\ request[r] # Idle /\ Answered(r)
  /\ spared' = IF At(r, "lock") THEN spared \union {request[r].email} ELSE spared
  /\ UNCHANGED <<rowVars, limiter, tokens, begun, failures>>

(* The lock runs out; the number of failures stays. *)
LockEnds(e) ==
  /\ e \in locked
  /\ locked' = locked \ {e}
  /\ failures' = [failures EXCEPT ![e] = 0]
  /\ spared' = spared \ {e}
  /\ UNCHANGED <<account, attempts, limiter, tokens, request, begun>>

(* The window of an address is over: its entry goes, or is made anew. *)
WindowEnds(a) ==
  /\ limiter[a] > 0
  /\ limiter' = [limiter EXCEPT ![a] = 0]
  /\ begun' = [begun EXCEPT ![a] = 0]
  /\ UNCHANGED <<rowVars, tokens, request, failures, spared>>

(* A code that is never used expires; nothing makes another. *)
CodeExpires(e) ==
  /\ account[e] = "unverified"
  /\ account' = [account EXCEPT ![e] = "expired"]
  /\ UNCHANGED <<attempts, locked, limiter, tokens, request, historyVars>>

TokenExpires(e) ==
  /\ e \in tokens /\ tokens' = tokens \ {e}
  /\ UNCHANGED <<rowVars, limiter, request, historyVars>>

(* The process is started anew; generateNewKeys makes all tokens void. *)
Restart ==
  /\ request' = [r \in Requests |-> Idle]
  /\ limiter' = [a \in Addresses |-> 0]
  /\ begun' = [a \in Addresses |-> 0]
  /\ tokens' = IF KeysFromEnvironment THEN tokens ELSE {}
  /\ spared' = spared \union {request[r].email : r \in {q \in Requests : At(q, "lock")}}
  /\ UNCHANGED <<rowVars, failures>>

Next ==
  \/ \E r \in Requests :
       \/ \E e \in Emails : Signup(r, e) \/ Verify(r, e) \/ \E a \in Addresses : Login(r, e, a)
       \/ SignupLookup(r) \/ CreateUser(r) \/ VerifyLookup(r) \/ SetVerified(r)
       \/ LoginLookup(r) \/ ComparePassword(r) \/ IncrementFailedLogin(r)
       \/ LockUser(r) \/ ResetFailedLogin(r) \/ Fail(r)
  \/ \E e \in Emails : LockEnds(e) \/ CodeExpires(e) \/ TokenExpires(e)
  \/ \E a \in Addresses : WindowEnds(a)
  \/ Restart

Spec == Init /\ [][Next]_vars

-----------------------------------------------------------------------------
(* "Lock after 5 failed attempts" (auth.ts:189) holds with requests that   *)
(* overlap: as long as the statement that locks is executed, an account    *)
(* with that many failures is locked or about to be, and no more failures  *)
(* than requests under way get in on top.                                  *)
FailuresLock ==
  \A e \in Emails \ spared :
    /\ failures[e] < Limit + Cardinality(Requests)
    /\ failures[e] >= Limit =>
         e \in locked \/ \E r \in Requests : At(r, "lock") /\ request[r].email = e

(* Between two successes no more logins of an address are let through in a *)
(* window than the limit, however many overlap.                            *)
AddressesLimited == \A a \in Addresses : begun[a] <= Limit

LoginLimits == FailuresLock /\ AddressesLimited

(* A token is for an account that is verified, and stays so: nothing a     *)
(* late signup, verification or login does takes that back.                *)
SessionsVerified == \A e \in tokens : account[e] = "verified"
=============================================================================
