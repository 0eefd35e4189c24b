---------------------------- MODULE Sessions_proofs ----------------------------
(***************************************************************************)
(* Theorems about module Sessions, for any accounts, addresses and limits  *)
(* and any number of requests under way.                                   *)
(***************************************************************************)
EXTENDS Sessions, FiniteSetTheorems, TLAPS

Visits == [op : {"getUserByEmail", "createUser", "verifyUserEmail", "setVerified"},
           email : Emails]

Logins == [op : {"lookup", "compare", "fail", "lock", "reset"},
           email : Emails, address : Addresses, verified : BOOLEAN]

LoginOps == {"lookup", "compare", "fail", "lock", "reset"}

RequestsOK == request \in [Requests -> {Idle} \union Visits \union Logins]

RowsOK ==
  /\ account \in [Emails -> {"absent", "unverified", "expired", "verified"}]
  /\ attempts \in [Emails -> Nat]
  /\ locked \subseteq Emails
  /\ limiter \in [Addresses -> 0 .. Limit]
  /\ tokens \subseteq Emails
  /\ begun \in [Addresses -> Nat]
  /\ failures \in [Emails -> Nat]
  /\ spared \subseteq Emails

LEMMA RequestKinds ==
  ASSUME RequestsOK, NEW r \in Requests
  PROVE  /\ \A o \in LoginOps : At(r, o) => request[r] \in Logins
         /\ \A o \in {"getUserByEmail", "createUser", "verifyUserEmail", "setVerified"} :
              At(r, o) => request[r] \in Visits
  BY DEF RequestsOK, At, Idle, Visits, Logins, LoginOps

(* What a request that is not over becomes: the next step, or the answer   *)
LEMMA NextRequest ==
  ASSUME RequestsOK, NEW r \in Requests, request[r] # Idle
  PROVE  /\ request[r].email \in Emails
         /\ \A o : Awaits(r, o) =>
              \E q : /\ request' = [request EXCEPT ![r] = q]
                     /\ q.op = o /\ q.email = request[r].email
                     /\ request[r] \in Logins =>
                          q.address = request[r].address /\ q.verified = request[r].verified
                     /\ request[r] \in Logins /\ o \in LoginOps => q \in Logins
                     /\ /\ request[r] \in Visits
                        /\ o \in {"getUserByEmail", "createUser", "verifyUserEmail", "setVerified"}
                        => q \in Visits
<1>1. request[r] \in Visits \union Logins
  BY DEF RequestsOK
<1>2. request[r].email \in Emails
  BY <1>1 DEF Visits, Logins
<1>3. ASSUME NEW o, Awaits(r, o)
      PROVE  \E q : /\ request' = [request EXCEPT ![r] = q]
                    /\ q.op = o /\ q.email = request[r].email
                    /\ request[r] \in Logins =>
                         q.address = request[r].address /\ q.verified = request[r].verified
                    /\ request[r] \in Logins /\ o \in LoginOps => q \in Logins
                    /\ /\ request[r] \in Visits
                       /\ o \in {"getUserByEmail", "createUser", "verifyUserEmail", "setVerified"}
                       => q \in Visits
  <2> DEFINE q == [request[r] EXCEPT !.op = o]
  <2>1. request' = [request EXCEPT ![r] = q]
    BY <1>3 DEF Awaits
  <2>2. /\ q.op = o /\ q.email = request[r].email
        /\ request[r] \in Logins =>
             q.address = request[r].address /\ q.verified = request[r].verified
        /\ request[r] \in Logins /\ o \in LoginOps => q \in Logins
        /\ /\ request[r] \in Visits
           /\ o \in {"getUserByEmail", "createUser", "verifyUserEmail", "setVerified"}
           => q \in Visits
    BY <1>1 DEF Visits, Logins, LoginOps
  <2> HIDE DEF q
  <2>3. QED
    BY <2>1, <2>2
<1>4. QED
  BY <1>2, <1>3

LEMMA RequestAfter ==
  ASSUME RequestsOK, NEW r \in Requests, NEW q, request' = [request EXCEPT ![r] = q]
  PROVE  /\ \A s \in Requests : request'[s] = IF s = r THEN q ELSE request[s]
         /\ q \in {Idle} \union Visits \union Logins => RequestsOK'
  BY DEF RequestsOK

-----------------------------------------------------------------------------
(* How many requests stand at one of some steps for an account *)

Standing(ops, e) == {r \in Requests : request[r].op \in ops /\ request[r].email = e}

Number(ops, e) == Cardinality(Standing(ops, e))

Counts(q, ops, e) == IF q.op \in ops /\ q.email = e THEN 1 ELSE 0

LEMMA NumberType ==
  ASSUME NEW ops, NEW e
  PROVE  /\ Number(ops, e) \in Nat /\ Number(ops, e)' \in Nat
         /\ Number(ops, e) <= Cardinality(Requests) /\ Number(ops, e)' <= Cardinality(Requests)
         /\ Cardinality(Requests) \in Nat
         /\ Number(ops, e) # 0 =>
              \E r \in Requests : request[r].op \in ops /\ request[r].email = e
<1>1. /\ Standing(ops, e) \in SUBSET Requests /\ Standing(ops, e)' \in SUBSET Requests
      /\ IsFiniteSet(Requests)
  BY SessionsAssumption DEF Standing
<1>2. IsFiniteSet(Standing(ops, e)) /\ IsFiniteSet(Standing(ops, e)')
  BY <1>1, FS_Subset
<1>3. /\ Number(ops, e) \in Nat /\ Number(ops, e)' \in Nat /\ Cardinality(Requests) \in Nat
  BY <1>1, <1>2, FS_CardinalityType DEF Number
<1>4. Number(ops, e) <= Cardinality(Requests) /\ Number(ops, e)' <= Cardinality(Requests)
  BY <1>1, FS_Subset DEF Number
<1>5. Number(ops, e) = 0 <=> Standing(ops, e) = {}
  BY <1>2, FS_EmptySet DEF Number
<1>6. QED
  BY <1>3, <1>4, <1>5 DEF Standing

LEMMA NumberAfter ==
  ASSUME RequestsOK, NEW r \in Requests, NEW q, request' = [request EXCEPT ![r] = q],
         NEW ops, NEW e
  PROVE  Number(ops, e)' = Number(ops, e) - Counts(request[r], ops, e) + Counts(q, ops, e)
<1> DEFINE S == Standing(ops, e)
           T == S \ {r}
           U == Standing(ops, e)'
<1>1. \A s \in Requests : request'[s] = IF s = r THEN q ELSE request[s]
  BY RequestAfter
<1>2. U = IF Counts(q, ops, e) = 1 THEN T \union {r} ELSE T
  BY <1>1 DEF Standing, Counts
<1>3. IsFiniteSet(S) /\ Cardinality(S) \in Nat
  <2>1. S \in SUBSET Requests
    BY DEF Standing
  <2>2. QED
    BY <2>1, SessionsAssumption, FS_Subset, FS_CardinalityType
<1>4. /\ Counts(request[r], ops, e) = IF r \in S THEN 1 ELSE 0
      /\ Counts(q, ops, e) \in {0, 1}
  BY DEF Standing, Counts
<1>5. Number(ops, e) = Cardinality(S) /\ Number(ops, e)' = Cardinality(U)
  BY DEF Number
<1> HIDE DEF S, U
<1>6. IsFiniteSet(T) /\ Cardinality(T) = IF r \in S THEN Cardinality(S) - 1 ELSE Cardinality(S)
  BY <1>3, FS_RemoveElement
<1>7. r \notin T
  OBVIOUS
<1> HIDE DEF T
<1>8. Cardinality(T \union {r}) = Cardinality(T) + 1
  BY <1>6, <1>7, FS_AddElement
<1>9. Cardinality(T) \in Nat
  BY <1>6, FS_CardinalityType
<1>10. QED
  BY <1>2, <1>3, <1>4, <1>5, <1>6, <1>8, <1>9

-----------------------------------------------------------------------------
(* Types, but for the bound of attempts *)

TypeInv == RequestsOK /\ RowsOK

LEMMA AnsweredRequests ==
  ASSUME RequestsOK, NEW r \in Requests, Answered(r) PROVE RequestsOK'
  BY RequestAfter DEF Answered

LEMMA AwaitsRequests ==
  ASSUME RequestsOK, NEW r \in Requests, NEW o, Awaits(r, o),
         \/ request[r] \in Logins /\ o \in LoginOps
         \/ request[r] \in Visits
            /\ o \in {"getUserByEmail", "createUser", "verifyUserEmail", "setVerified"}
  PROVE  RequestsOK'
<1>1. request[r] # Idle
  BY DEF Visits, Logins, Idle
<1>2. PICK q : request' = [request EXCEPT ![r] = q] /\ q \in Visits \union Logins
  BY <1>1, NextRequest
<1>3. QED
  BY <1>2, RequestAfter

LEMMA NextRequests == TypeInv /\ [Next]_vars => RequestsOK'
<1> SUFFICES ASSUME RequestsOK, RowsOK, [Next]_vars PROVE RequestsOK'
  BY DEF TypeInv
<1>1. ASSUME NEW r \in Requests, NEW e \in Emails, Signup(r, e) \/ Verify(r, e) PROVE RequestsOK'
  <2>1. PICK o \in {"getUserByEmail", "verifyUserEmail"} :
          request' = [request EXCEPT ![r] = [op |-> o, email |-> e]]
    BY <1>1 DEF Signup, Verify
  <2>2. [op |-> o, email |-> e] \in Visits
    BY DEF Visits
  <2>3. QED
    BY <2>1, <2>2, RequestAfter
<1>2. ASSUME NEW r \in Requests, NEW e \in Emails, NEW a \in Addresses, Login(r, e, a)
      PROVE  RequestsOK'
  <2> DEFINE q == [op |-> "lookup", email |-> e, address |-> a, verified |-> FALSE]
  <2>1. request' = [request EXCEPT ![r] = q]
    BY <1>2 DEF Login
  <2>2. q \in Logins
    BY DEF Logins
  <2> HIDE DEF q
  <2>3. QED
    BY <2>1, <2>2, RequestAfter
<1>3. ASSUME NEW r \in Requests, SignupLookup(r) \/ VerifyLookup(r) PROVE RequestsOK'
  <2>1. request[r] \in Visits
    BY <1>3, RequestKinds DEF SignupLookup, VerifyLookup
  <2>2. Answered(r) \/ \E o \in {"createUser", "setVerified"} : Awaits(r, o)
    BY <1>3 DEF SignupLookup, VerifyLookup
  <2>3. QED
    BY <2>1, <2>2, AnsweredRequests, AwaitsRequests
<1>4. ASSUME NEW r \in Requests, LoginLookup(r) PROVE RequestsOK'
  <2>1. request[r] \in Logins
    BY <1>4, RequestKinds DEF LoginLookup, LoginOps
  <2>2. CASE Answered(r)
    BY <2>2, AnsweredRequests
  <2>3. CASE request' = [request EXCEPT ![r].op = "compare",
                           ![r].verified = account[request[r].email] = "verified"]
    <3> DEFINE q == [request[r] EXCEPT !.op = "compare",
                       !.verified = account[request[r].email] = "verified"]
    <3>1. request' = [request EXCEPT ![r] = q]
      BY <2>3 DEF RequestsOK
    <3>2. q \in Logins
      BY <2>1 DEF Logins
    <3> HIDE DEF q
    <3>3. QED
      BY <3>1, <3>2, RequestAfter
  <2>4. QED
    BY <1>4, <2>2, <2>3 DEF LoginLookup
<1>5. ASSUME NEW r \in Requests, ComparePassword(r) \/ IncrementFailedLogin(r)
      PROVE  RequestsOK'
  <2>1. request[r] \in Logins
    BY <1>5, RequestKinds DEF ComparePassword, IncrementFailedLogin, LoginOps
  <2>2. Answered(r) \/ \E o \in {"fail", "reset", "lock"} : Awaits(r, o)
    BY <1>5 DEF ComparePassword, IncrementFailedLogin, LockAfter
  <2>3. QED
    BY <2>1, <2>2, AnsweredRequests, AwaitsRequests DEF LoginOps
<1>6. ASSUME NEW r \in Requests, CreateUser(r) \/ SetVerified(r) \/ LockUser(r)
                                 \/ ResetFailedLogin(r) \/ Fail(r)
      PROVE  RequestsOK'
  <2>1. Answered(r)
    BY <1>6 DEF CreateUser, SetVerified, LockUser, ResetFailedLogin, Fail
  <2>2. QED
    BY <2>1, AnsweredRequests
<1>7. CASE UNCHANGED request
  BY <1>7 DEF RequestsOK
<1>8. ASSUME Restart PROVE RequestsOK'
  BY <1>8 DEF Restart, RequestsOK
<1>9. \/ UNCHANGED vars
      \/ \E e \in Emails : LockEnds(e) \/ CodeExpires(e) \/ TokenExpires(e)
      \/ \E a \in Addresses : WindowEnds(a)
      => UNCHANGED request
  BY DEF LockEnds, CodeExpires, TokenExpires, WindowEnds, vars
<1>10. QED
  BY <1>1, <1>2, <1>3, <1>4, <1>5, <1>6, <1>7, <1>8, <1>9 DEF Next

LEMMA NextRows == TypeInv /\ [Next]_vars => RowsOK'
<1> SUFFICES ASSUME RequestsOK, RowsOK, [Next]_vars PROVE RowsOK'
  BY DEF TypeInv
<1> USE SessionsAssumption DEF rowVars, historyVars
<1>1. ASSUME NEW r \in Requests, NEW e \in Emails, NEW a \in Addresses, Login(r, e, a)
      PROVE  RowsOK'
  BY <1>1 DEF Login, RowsOK
<1>2. ASSUME NEW r \in Requests, CreateUser(r) PROVE RowsOK'
  BY <1>2 DEF CreateUser, RowsOK
<1>3. ASSUME NEW r \in Requests, SetVerified(r) PROVE RowsOK'
  <2>1. request[r].email \in Emails
    BY <1>3, RequestKinds DEF SetVerified, Visits
  <2>2. QED
    BY <1>3, <2>1 DEF SetVerified, RowsOK
<1>4. ASSUME NEW r \in Requests, IncrementFailedLogin(r) PROVE RowsOK'
  <2> DEFINE e == request[r].email
  <2>1. /\ attempts' = [attempts EXCEPT ![e] = @ + 1]
        /\ failures' = [failures EXCEPT ![e] = @ + 1]
        /\ UNCHANGED <<account, locked, limiter, tokens, begun, spared>>
    BY <1>4 DEF IncrementFailedLogin
  <2>2. e \in Emails
    BY <1>4, RequestKinds DEF IncrementFailedLogin, Logins, LoginOps
  <2> HIDE DEF e
  <2>3. attempts' \in [Emails -> Nat]
    BY <2>1, <2>2 DEF RowsOK
  <2>4. failures' \in [Emails -> Nat]
    BY <2>1, <2>2 DEF RowsOK
  <2>5. QED
    BY <2>1, <2>3, <2>4 DEF RowsOK
<1>5. ASSUME NEW r \in Requests, LockUser(r) \/ ResetFailedLogin(r) PROVE RowsOK'
  <2>1. request[r].email \in Emails
    BY <1>5, RequestKinds DEF LockUser, ResetFailedLogin, Logins, LoginOps
  <2>2. CASE LockUser(r)
    BY <2>1, <2>2 DEF LockUser, RowsOK
  <2>3. CASE ResetFailedLogin(r)
    <3> DEFINE e == request[r].email
               a == request[r].address
    <3>1. /\ attempts' = [attempts EXCEPT ![e] = 0] /\ failures' = [failures EXCEPT ![e] = 0]
          /\ limiter' = [limiter EXCEPT ![a] = 0] /\ begun' = [begun EXCEPT ![a] = 0]
          /\ locked' = locked \ {e} /\ tokens' = tokens \union {e} /\ spared' = spared \ {e}
          /\ UNCHANGED account
      BY <2>3 DEF ResetFailedLogin
    <3>2. e \in Emails /\ a \in Addresses
      BY <2>1, <2>3, RequestKinds DEF ResetFailedLogin, Logins, LoginOps
    <3> HIDE DEF e, a
    <3>3. attempts' \in [Emails -> Nat] /\ failures' \in [Emails -> Nat]
      BY <3>1, <3>2 DEF RowsOK
    <3>4. limiter' \in [Addresses -> 0 .. Limit]
      BY <3>1, <3>2 DEF RowsOK
    <3>5. begun' \in [Addresses -> Nat]
      BY <3>1, <3>2 DEF RowsOK
    <3>6. QED
      BY <3>1, <3>2, <3>3, <3>4, <3>5 DEF RowsOK
  <2>4. QED
    BY <1>5, <2>2, <2>3
<1>6. ASSUME NEW r \in Requests, Fail(r) PROVE RowsOK'
  <2>1. At(r, "lock") => request[r].email \in Emails
    BY RequestKinds DEF Logins, LoginOps
  <2>2. QED
    BY <1>6, <2>1 DEF Fail, RowsOK
<1>7. ASSUME NEW e \in Emails, LockEnds(e) \/ CodeExpires(e) \/ TokenExpires(e) PROVE RowsOK'
  BY <1>7 DEF LockEnds, CodeExpires, TokenExpires, RowsOK
<1>8. ASSUME NEW a \in Addresses, WindowEnds(a) PROVE RowsOK'
  BY <1>8 DEF WindowEnds, RowsOK
<1>9. ASSUME Restart PROVE RowsOK'
  <2>1. \A r \in Requests : At(r, "lock") => request[r].email \in Emails
    BY RequestKinds DEF Logins, LoginOps
  <2>2. QED
    BY <1>9, <2>1 DEF Restart, RowsOK
<1>10. CASE UNCHANGED <<rowVars, limiter, tokens, historyVars>>
  BY <1>10 DEF RowsOK
<1>11. ASSUME NEW r \in Requests,
              \/ \E e \in Emails : Signup(r, e) \/ Verify(r, e)
              \/ SignupLookup(r) \/ VerifyLookup(r) \/ LoginLookup(r) \/ ComparePassword(r)
       PROVE  UNCHANGED <<rowVars, limiter, tokens, historyVars>>
  BY <1>11, Zenon DEF Signup, Verify, SignupLookup, VerifyLookup, LoginLookup, ComparePassword
<1>12. UNCHANGED vars => UNCHANGED <<rowVars, limiter, tokens, historyVars>>
  BY DEF vars
<1>13. QED
  BY <1>1, <1>2, <1>3, <1>4, <1>5, <1>6, <1>7, <1>8, <1>9, <1>10, <1>11, <1>12 DEF Next

LEMMA InitTypes == Init => TypeInv
  BY SessionsAssumption DEF Init, TypeInv, RequestsOK, RowsOK

LEMMA NextTypes == TypeInv /\ [Next]_vars => TypeInv'
  BY NextRequests, NextRows DEF TypeInv

-----------------------------------------------------------------------------
(* An account once verified stays so: a request that read it so may go by  *)
(* it whenever it is resumed.                                              *)
VerifiedInv ==
  /\ \A e \in tokens : account[e] = "verified"
  /\ \A r \in Requests :
       /\ request[r].op \in LoginOps /\ request[r].verified =>
            account[request[r].email] = "verified"
       /\ request[r].op = "reset" => request[r].verified

LEMMA OneVerified ==
  ASSUME RequestsOK, VerifiedInv, NEW r \in Requests, NEW q,
         request' = [request EXCEPT ![r] = q],
         q.op \in LoginOps /\ q.verified => account'[q.email] = "verified",
         q.op = "reset" => q.verified,
         \A e \in Emails : account[e] = "verified" => account'[e] = "verified",
         \A e \in tokens' : account'[e] = "verified"
  PROVE  VerifiedInv'
<1>1. \A s \in Requests : request'[s] = IF s = r THEN q ELSE request[s]
  BY RequestAfter
<1>2. \A s \in Requests : request[s].op \in LoginOps => request[s].email \in Emails
  BY DEF RequestsOK, Visits, Logins, Idle, LoginOps
<1>3. QED
  BY <1>1, <1>2 DEF VerifiedInv

LEMMA NextVerified == TypeInv /\ VerifiedInv /\ [Next]_vars => VerifiedInv'
<1> SUFFICES ASSUME RequestsOK, RowsOK, VerifiedInv, [Next]_vars PROVE VerifiedInv'
  BY DEF TypeInv
<1> USE DEF rowVars, historyVars
<1> DEFINE Stays == \A e \in Emails : account[e] = "verified" => account'[e] = "verified"
           TokensStay == \A e \in tokens' : account'[e] = "verified"
<1>0. UNCHANGED <<account, tokens>> => Stays /\ TokensStay
  BY DEF VerifiedInv
<1>1. ASSUME NEW r \in Requests, Stays, TokensStay, Answered(r) PROVE VerifiedInv'
  <2>1. Idle.op = "none"
    BY DEF Idle
  <2>2. QED
    BY <1>1, <2>1, OneVerified DEF Answered, LoginOps
<1>2. ASSUME NEW r \in Requests, Stays, TokensStay, NEW o, Awaits(r, o), request[r] # Idle,
             \/ request[r] \in Logins /\ (o = "reset" => request[r].verified)
             \/ request[r] \in Visits /\ o \notin LoginOps
      PROVE  VerifiedInv'
  <2>1. PICK q : /\ request' = [request EXCEPT ![r] = q]
                 /\ q.op = o /\ q.email = request[r].email
                 /\ request[r] \in Logins => q.verified = request[r].verified
    BY <1>2, NextRequest
  <2>2. request[r] \in Logins => /\ request[r].op \in LoginOps
                                 /\ request[r].email \in Emails
    BY DEF Logins, LoginOps
  <2>3. request[r] \in Logins /\ request[r].verified => account'[request[r].email] = "verified"
    BY <1>2, <2>2 DEF VerifiedInv
  <2>4. o \in LoginOps /\ q.verified => account'[q.email] = "verified"
    BY <1>2, <2>1, <2>3
  <2>5. o = "reset" => q.verified
    BY <1>2, <2>1 DEF LoginOps
  <2>6. QED
    BY <1>2, <2>1, <2>4, <2>5, OneVerified
<1>3. ASSUME NEW r \in Requests, NEW e \in Emails, Signup(r, e) \/ Verify(r, e)
      PROVE  VerifiedInv'
  <2>1. PICK o \in {"getUserByEmail", "verifyUserEmail"} :
          request' = [request EXCEPT ![r] = [op |-> o, email |-> e]]
    BY <1>3 DEF Signup, Verify
  <2>2. Stays /\ TokensStay
    BY <1>0, <1>3 DEF Signup, Verify
  <2> DEFINE q == [op |-> o, email |-> e]
  <2>3. q.op = o
    OBVIOUS
  <2> HIDE DEF q
  <2>4. q.op \notin LoginOps
    BY <2>3 DEF LoginOps
  <2>5. request' = [request EXCEPT ![r] = q]
    BY <2>1 DEF q
  <2>6. QED
    BY <2>2, <2>4, <2>5, OneVerified DEF LoginOps
<1>4. ASSUME NEW r \in Requests, NEW e \in Emails, NEW a \in Addresses, Login(r, e, a)
      PROVE  VerifiedInv'
  <2> DEFINE q == [op |-> "lookup", email |-> e, address |-> a, verified |-> FALSE]
  <2>1. request' = [request EXCEPT ![r] = q] /\ Stays /\ TokensStay
    BY <1>0, <1>4 DEF Login
  <2>2. ~q.verified /\ q.op # "reset"
    OBVIOUS
  <2> HIDE DEF q
  <2>3. QED
    BY <2>1, <2>2, OneVerified
<1>5. ASSUME NEW r \in Requests, SignupLookup(r) \/ VerifyLookup(r) PROVE VerifiedInv'
  <2>1. request[r] \in Visits /\ request[r] # Idle
    BY <1>5, RequestKinds DEF SignupLookup, VerifyLookup, At
  <2>2. Answered(r) \/ \E o \in {"createUser", "setVerified"} : Awaits(r, o)
    BY <1>5 DEF SignupLookup, VerifyLookup
  <2>3. Stays /\ TokensStay
    BY <1>0, <1>5 DEF SignupLookup, VerifyLookup
  <2>4. \A o \in {"createUser", "setVerified"} : o \notin LoginOps
    BY DEF LoginOps
  <2>5. QED
    BY <1>1, <1>2, <2>1, <2>2, <2>3, <2>4
<1>6. ASSUME NEW r \in Requests, CreateUser(r) PROVE VerifiedInv'
  <2>1. Stays /\ tokens' = tokens
    BY <1>6 DEF CreateUser, RowsOK
  <2>2. TokensStay
    BY <2>1 DEF VerifiedInv, RowsOK
  <2>3. QED
    BY <1>1, <1>6, <2>1, <2>2 DEF CreateUser
<1>7. ASSUME NEW r \in Requests, SetVerified(r) PROVE VerifiedInv'
  <2>1. request[r].email \in Emails
    BY <1>7, RequestKinds DEF SetVerified, Visits
  <2>2. Stays /\ account'[request[r].email] = "verified"
    BY <1>7, <2>1 DEF SetVerified, RowsOK
  <2>3. TokensStay
    BY <1>7, <2>2 DEF SetVerified, VerifiedInv, RowsOK
  <2>4. QED
    BY <1>1, <1>7, <2>2, <2>3 DEF SetVerified
<1>8. ASSUME NEW r \in Requests, LoginLookup(r) PROVE VerifiedInv'
  <2>1. request[r] \in Logins /\ Stays /\ TokensStay
    BY <1>0, <1>8, RequestKinds DEF LoginLookup, LoginOps
  <2>2. CASE Answered(r)
    BY <1>1, <2>1, <2>2
  <2>3. CASE request' = [request EXCEPT ![r].op = "compare",
                           ![r].verified = account[request[r].email] = "verified"]
    <3> DEFINE v == account[request[r].email] = "verified"
               q == [request[r] EXCEPT !.op = "compare", !.verified = v]
    <3>1. request' = [request EXCEPT ![r] = q]
      BY <2>3 DEF RequestsOK
    <3>2. /\ q.op = "compare" /\ q.email = request[r].email /\ request[r].email \in Emails
          /\ q.verified = v
      BY <2>1 DEF Logins
    <3> HIDE DEF q
    <3>3. q.verified => account'[q.email] = "verified"
      BY <2>1, <3>2
    <3>4. QED
      BY <2>1, <3>1, <3>2, <3>3, OneVerified
  <2>4. QED
    BY <1>8, <2>2, <2>3 DEF LoginLookup
<1>9. ASSUME NEW r \in Requests, ComparePassword(r) PROVE VerifiedInv'
  <2>1. request[r] \in Logins /\ request[r] # Idle
    BY <1>9, RequestKinds DEF ComparePassword, At, LoginOps
  <2>2. Stays /\ TokensStay
    BY <1>0, <1>9 DEF ComparePassword
  <2>3. \/ Awaits(r, "fail") \/ Answered(r)
        \/ request[r].verified /\ Awaits(r, "reset")
    BY <1>9 DEF ComparePassword
  <2>4. "fail" # "reset"
    OBVIOUS
  <2>5. QED
    BY <1>1, <1>2, <2>1, <2>2, <2>3, <2>4
<1>10. ASSUME NEW r \in Requests, IncrementFailedLogin(r) PROVE VerifiedInv'
  <2>1. request[r] \in Logins /\ request[r] # Idle
    BY <1>10, RequestKinds DEF IncrementFailedLogin, At, LoginOps
  <2>2. Stays /\ TokensStay
    BY <1>0, <1>10 DEF IncrementFailedLogin
  <2>3. Awaits(r, "lock") \/ Answered(r)
    BY <1>10 DEF IncrementFailedLogin, LockAfter
  <2>4. "lock" # "reset"
    OBVIOUS
  <2>5. QED
    BY <1>1, <1>2, <2>1, <2>2, <2>3, <2>4
<1>11. ASSUME NEW r \in Requests, LockUser(r) \/ Fail(r) PROVE VerifiedInv'
  <2>1. Answered(r) /\ Stays /\ TokensStay
    BY <1>0, <1>11 DEF LockUser, Fail
  <2>2. QED
    BY <1>1, <2>1
<1>12. ASSUME NEW r \in Requests, ResetFailedLogin(r) PROVE VerifiedInv'
  <2>1. account[request[r].email] = "verified"
    BY <1>12 DEF ResetFailedLogin, At, VerifiedInv, LoginOps
  <2>2. Answered(r) /\ UNCHANGED account /\ tokens' = tokens \union {request[r].email}
    BY <1>12 DEF ResetFailedLogin
  <2>3. Stays /\ TokensStay
    BY <2>1, <2>2 DEF VerifiedInv
  <2>4. QED
    BY <1>1, <2>2, <2>3
<1>13. ASSUME NEW e \in Emails, CodeExpires(e) PROVE VerifiedInv'
  <2>1. \A d \in Emails : account[d] = "verified" => account'[d] = "verified"
    BY <1>13 DEF CodeExpires, RowsOK
  <2>2. UNCHANGED <<tokens, request>>
    BY <1>13 DEF CodeExpires
  <2>3. \A s \in Requests : request[s].op \in LoginOps => request[s].email \in Emails
    BY DEF RequestsOK, Visits, Logins, Idle, LoginOps
  <2>4. tokens \subseteq Emails
    BY DEF RowsOK
  <2>5. QED
    BY <2>1, <2>2, <2>3, <2>4 DEF VerifiedInv
<1>14. ASSUME UNCHANGED <<account, request>>, tokens' \subseteq tokens PROVE VerifiedInv'
  BY <1>14 DEF VerifiedInv
<1>15. ASSUME Restart PROVE VerifiedInv'
  BY <1>15 DEF Restart, VerifiedInv, Idle, LoginOps
<1>16. \/ UNCHANGED vars
       \/ \E e \in Emails : LockEnds(e) \/ TokenExpires(e)
       \/ \E a \in Addresses : WindowEnds(a)
       => UNCHANGED <<account, request>> /\ tokens' \subseteq tokens
  BY DEF LockEnds, TokenExpires, WindowEnds, vars
<1>17. QED
  BY <1>3, <1>4, <1>5, <1>6, <1>7, <1>8, <1>9, <1>10, <1>11, <1>12, <1>13, <1>14,
     <1>15, <1>16
  DEF Next

(* No signup, verification or login that comes late takes a verification   *)
(* back from an account that a token was issued for.                       *)
THEOREM SessionsStayVerified == Spec => []SessionsVerified
<1>1. Init => TypeInv /\ VerifiedInv
  <2>1. Init => VerifiedInv
    BY DEF Init, VerifiedInv, Idle, LoginOps
  <2>2. QED
    BY <2>1, InitTypes
<1>2. VerifiedInv => SessionsVerified
  BY DEF VerifiedInv, SessionsVerified
<1>3. QED
  BY <1>1, <1>2, NextTypes, NextVerified, PTL DEF Spec

-----------------------------------------------------------------------------
(* The limit of an address: the entry counts at least what it let through. *)
AddressInv == \A a \in Addresses : begun[a] <= limiter[a]

LEMMA NextAddresses == TypeInv /\ AddressInv /\ [Next]_vars => AddressInv'
<1> SUFFICES ASSUME RowsOK, AddressInv, [Next]_vars PROVE AddressInv'
  BY DEF TypeInv
<1>1. ASSUME NEW a, limiter' = [limiter EXCEPT ![a] = 0], begun' = [begun EXCEPT ![a] = 0]
      PROVE  AddressInv'
  BY <1>1 DEF AddressInv, RowsOK
<1>2. ASSUME UNCHANGED <<limiter, begun>> PROVE AddressInv'
  BY <1>2 DEF AddressInv
<1>3. ASSUME NEW r \in Requests, NEW e \in Emails, NEW a \in Addresses, Login(r, e, a)
      PROVE  AddressInv'
  <2>1. limiter' = [limiter EXCEPT ![a] = @ + 1] /\ begun' = [begun EXCEPT ![a] = @ + 1]
    BY <1>3 DEF Login
  <2>2. QED
    BY <2>1, SessionsAssumption DEF AddressInv, RowsOK
<1>4. ASSUME NEW r \in Requests, ResetFailedLogin(r) PROVE AddressInv'
  BY <1>1, <1>4 DEF ResetFailedLogin
<1>5. ASSUME NEW a \in Addresses, WindowEnds(a) PROVE AddressInv'
  BY <1>1, <1>5 DEF WindowEnds
<1>6. ASSUME Restart PROVE AddressInv'
  BY <1>6 DEF Restart, AddressInv
<1>7. ASSUME NEW r \in Requests,
             \/ \E e \in Emails : Signup(r, e) \/ Verify(r, e)
             \/ SignupLookup(r) \/ CreateUser(r) \/ VerifyLookup(r) \/ SetVerified(r)
             \/ LoginLookup(r) \/ ComparePassword(r) \/ IncrementFailedLogin(r)
             \/ LockUser(r) \/ Fail(r)
      PROVE  UNCHANGED <<limiter, begun>>
  BY <1>7, Zenon DEF Signup, Verify, SignupLookup, CreateUser, VerifyLookup, SetVerified,
     LoginLookup, ComparePassword, IncrementFailedLogin, LockUser, Fail, historyVars
<1>8. \/ UNCHANGED vars
      \/ \E e \in Emails : LockEnds(e) \/ CodeExpires(e) \/ TokenExpires(e)
      => UNCHANGED <<limiter, begun>>
  BY DEF LockEnds, CodeExpires, TokenExpires, vars, historyVars
<1>9. QED
  BY <1>2, <1>3, <1>4, <1>5, <1>6, <1>7, <1>8 DEF Next

-----------------------------------------------------------------------------
(* The limit of an account.  Before it is locked, each failure past the    *)
(* limit has a request that is about to lock; from then on no request      *)
(* comes to compare a password, and those that were there are counted.     *)

Coming(e)    == Number({"lookup", "compare", "fail"}, e)
Comparing(e) == Number({"compare", "fail"}, e)
Locking(e)   == Number({"lock"}, e)

CountInv ==
  \A e \in Emails :
    /\ failures[e] <= attempts[e]
    /\ attempts[e] + Coming(e) <= MaxFailures + Cardinality(Requests)
    /\ e \notin spared /\ e \notin locked => failures[e] < Limit + Locking(e)
    /\ e \notin spared /\ e \in locked =>
         failures[e] + Comparing(e) < Limit + Cardinality(Requests)

LEMMA NumberTypes ==
  ASSUME NEW e
  PROVE  /\ Coming(e) \in Nat /\ Comparing(e) \in Nat /\ Locking(e) \in Nat
         /\ Coming(e)' \in Nat /\ Comparing(e)' \in Nat /\ Locking(e)' \in Nat
         /\ Cardinality(Requests) \in Nat
         /\ Coming(e)' <= Cardinality(Requests) /\ Locking(e)' <= Cardinality(Requests)
         /\ Locking(e) <= Cardinality(Requests)
  BY NumberType DEF Coming, Comparing, Locking

LEMMA NumbersAfter ==
  ASSUME RequestsOK, NEW r \in Requests, NEW q, request' = [request EXCEPT ![r] = q], NEW e
  PROVE  /\ Coming(e)' = Coming(e) - Counts(request[r], {"lookup", "compare", "fail"}, e)
                                   + Counts(q, {"lookup", "compare", "fail"}, e)
         /\ Comparing(e)' = Comparing(e) - Counts(request[r], {"compare", "fail"}, e)
                                         + Counts(q, {"compare", "fail"}, e)
         /\ Locking(e)' = Locking(e) - Counts(request[r], {"lock"}, e)
                                     + Counts(q, {"lock"}, e)
<1>1. \A ops : Number(ops, e)' = Number(ops, e) - Counts(request[r], ops, e) + Counts(q, ops, e)
  BY NumberAfter
<1>2. Coming(e)' = Coming(e) - Counts(request[r], {"lookup", "compare", "fail"}, e)
                             + Counts(q, {"lookup", "compare", "fail"}, e)
  BY <1>1, Zenon DEF Coming
<1>3. Comparing(e)' = Comparing(e) - Counts(request[r], {"compare", "fail"}, e)
                                   + Counts(q, {"compare", "fail"}, e)
  BY <1>1, Zenon DEF Comparing
<1>4. Locking(e)' = Locking(e) - Counts(request[r], {"lock"}, e) + Counts(q, {"lock"}, e)
  BY <1>1, Zenon DEF Locking
<1>5. QED
  BY <1>2, <1>3, <1>4

LEMMA NumbersAnswered ==
  ASSUME RequestsOK, NEW r \in Requests, Answered(r), NEW e
  PROVE  /\ Coming(e)' = Coming(e) - Counts(request[r], {"lookup", "compare", "fail"}, e)
         /\ Comparing(e)' = Comparing(e) - Counts(request[r], {"compare", "fail"}, e)
         /\ Locking(e)' = Locking(e) - Counts(request[r], {"lock"}, e)
<1>1. /\ Counts(Idle, {"lookup", "compare", "fail"}, e) = 0
      /\ Counts(Idle, {"compare", "fail"}, e) = 0 /\ Counts(Idle, {"lock"}, e) = 0
  BY DEF Idle, Counts
<1>2. \A ops : Counts(request[r], ops, e) \in Nat
  BY DEF Counts
<1>3. request' = [request EXCEPT ![r] = Idle]
  BY DEF Answered
<1>4. /\ Coming(e)' = Coming(e) - Counts(request[r], {"lookup", "compare", "fail"}, e)
                             + Counts(Idle, {"lookup", "compare", "fail"}, e)
      /\ Comparing(e)' = Comparing(e) - Counts(request[r], {"compare", "fail"}, e)
                                   + Counts(Idle, {"compare", "fail"}, e)
      /\ Locking(e)' = Locking(e) - Counts(request[r], {"lock"}, e) + Counts(Idle, {"lock"}, e)
  BY <1>3, NumbersAfter
<1>5. QED
  BY <1>1, <1>2, <1>4, NumberTypes

(* A step that makes no failure and locks or unlocks nothing               *)
LEMMA CountsUndisturbed ==
  ASSUME TypeInv, CountInv, UNCHANGED <<attempts, failures, locked>>, spared \subseteq spared',
         \A e \in Emails :
           /\ Coming(e)' <= Coming(e)
           /\ e \in locked => Comparing(e)' <= Comparing(e)
           /\ e \notin spared' => Locking(e)' >= Locking(e)
  PROVE  CountInv'
<1>1. ASSUME NEW e \in Emails
      PROVE  /\ failures'[e] <= attempts'[e]
             /\ attempts'[e] + Coming(e)' <= MaxFailures + Cardinality(Requests)
             /\ e \notin spared' /\ e \notin locked' => failures'[e] < Limit + Locking(e)'
             /\ e \notin spared' /\ e \in locked' =>
                  failures'[e] + Comparing(e)' < Limit + Cardinality(Requests)
  <2>1. failures[e] \in Nat /\ attempts[e] \in Nat /\ Limit \in Nat /\ MaxFailures \in Nat
    BY SessionsAssumption DEF TypeInv, RowsOK
  <2>2. QED
    BY <1>1, <2>1, NumberTypes DEF CountInv
<1>2. QED
  BY <1>1 DEF CountInv

LEMMA LoginCounted ==
  ASSUME TypeInv, CountInv, NEW r \in Requests, NEW d \in Emails, NEW a \in Addresses,
         Login(r, d, a)
  PROVE  CountInv'
<1> DEFINE q == [op |-> "lookup", email |-> d, address |-> a, verified |-> FALSE]
<1>1. request' = [request EXCEPT ![r] = q] /\ request[r].op = "none" /\ attempts[d] < MaxFailures
  BY DEF Login, Idle
<1>2. q.op = "lookup" /\ q.email = d
  OBVIOUS
<1> HIDE DEF q
<1>3. UNCHANGED <<attempts, failures, locked, spared>>
  BY DEF Login, rowVars
<1>4. ASSUME NEW e \in Emails
      PROVE  /\ e # d => Coming(e)' = Coming(e)
             /\ Comparing(e)' = Comparing(e) /\ Locking(e)' = Locking(e)
  <2>1. RequestsOK
    BY DEF TypeInv
  <2>2. /\ Coming(e)' = Coming(e) - Counts(request[r], {"lookup", "compare", "fail"}, e)
                             + Counts(q, {"lookup", "compare", "fail"}, e)
        /\ Comparing(e)' = Comparing(e) - Counts(request[r], {"compare", "fail"}, e)
                                   + Counts(q, {"compare", "fail"}, e)
        /\ Locking(e)' = Locking(e) - Counts(request[r], {"lock"}, e) + Counts(q, {"lock"}, e)
    BY <1>1, <2>1, NumbersAfter
  <2>3. QED
    BY <1>1, <1>2, <2>2, NumberTypes DEF Counts
<1>5. \A e \in Emails : failures[e] \in Nat /\ attempts[e] \in Nat
  BY DEF TypeInv, RowsOK
<1>6. attempts[d] + Coming(d)' <= MaxFailures + Cardinality(Requests)
  BY <1>1, <1>5, NumberTypes, SessionsAssumption
<1>7. \A e \in Emails : attempts[e] + Coming(e)' <= MaxFailures + Cardinality(Requests)
  BY <1>4, <1>6 DEF CountInv
<1>8. QED
  BY <1>3, <1>4, <1>7 DEF CountInv

LEMMA FailureCounted ==
  ASSUME TypeInv, CountInv, NEW r \in Requests, IncrementFailedLogin(r)
  PROVE  CountInv'
<1>1. RequestsOK /\ request[r] \in Logins /\ request[r].op = "fail" /\ request[r].email \in Emails
  BY RequestKinds DEF TypeInv, IncrementFailedLogin, At, LoginOps, Logins
<1>2. PICK d \in Emails : d = request[r].email
  BY <1>1
<1>3. /\ attempts' = [attempts EXCEPT ![d] = @ + 1] /\ failures' = [failures EXCEPT ![d] = @ + 1]
      /\ UNCHANGED <<locked, spared>>
      /\ LockAfter(r, attempts[d] + 1)
  BY <1>2 DEF IncrementFailedLogin
<1>4. attempts \in [Emails -> Nat] /\ failures \in [Emails -> Nat] /\ Limit \in Nat /\ MaxFailures \in Nat
  BY SessionsAssumption DEF TypeInv, RowsOK
<1>5. PICK q : /\ request' = [request EXCEPT ![r] = q]
               /\ q.op = "none" \/ (q.op = "lock" /\ q.email = d)
               /\ attempts[d] + 1 >= Limit => q.op = "lock"
  <2>1. CASE attempts[d] + 1 >= Limit
    <3>1. Awaits(r, "lock") /\ request[r] # Idle
      BY <1>1, <1>3, <2>1 DEF LockAfter, Idle
    <3>2. PICK q : request' = [request EXCEPT ![r] = q] /\ q.op = "lock" /\ q.email = d
      BY <1>1, <1>2, <3>1, NextRequest
    <3>3. QED
      BY <3>2
  <2>2. CASE ~(attempts[d] + 1 >= Limit)
    BY <1>3, <2>2 DEF LockAfter, Answered, Idle
  <2>3. QED
    BY <2>1, <2>2
<1>6. ASSUME NEW e \in Emails
      PROVE  /\ Coming(e)' = IF e = d THEN Coming(e) - 1 ELSE Coming(e)
             /\ Comparing(e)' = IF e = d THEN Comparing(e) - 1 ELSE Comparing(e)
             /\ Locking(e)' = IF e = d /\ q.op = "lock" THEN Locking(e) + 1 ELSE Locking(e)
  <2>1. /\ Coming(e)' = Coming(e) - Counts(request[r], {"lookup", "compare", "fail"}, e)
                             + Counts(q, {"lookup", "compare", "fail"}, e)
        /\ Comparing(e)' = Comparing(e) - Counts(request[r], {"compare", "fail"}, e)
                                   + Counts(q, {"compare", "fail"}, e)
        /\ Locking(e)' = Locking(e) - Counts(request[r], {"lock"}, e) + Counts(q, {"lock"}, e)
    BY <1>1, <1>5, NumbersAfter
  <2>2. QED
    BY <1>1, <1>2, <1>5, <2>1, NumberTypes DEF Counts
<1>7. ASSUME NEW e \in Emails
      PROVE  /\ failures'[e] <= attempts'[e]
             /\ attempts'[e] + Coming(e)' <= MaxFailures + Cardinality(Requests)
             /\ e \notin spared' /\ e \notin locked' => failures'[e] < Limit + Locking(e)'
             /\ e \notin spared' /\ e \in locked' =>
                  failures'[e] + Comparing(e)' < Limit + Cardinality(Requests)
  <2>1. /\ attempts'[e] = IF e = d THEN attempts[e] + 1 ELSE attempts[e]
        /\ failures'[e] = IF e = d THEN failures[e] + 1 ELSE failures[e]
        /\ attempts[e] \in Nat /\ failures[e] \in Nat
    BY <1>3, <1>4
  <2>2. QED
    BY <1>3, <1>4, <1>5, <1>6, <2>1, NumberTypes DEF CountInv
<1>8. QED
  BY <1>7 DEF CountInv

(* Of the requests under way for the account, those about to lock it are   *)
(* not those that may still fail.                                          *)
LEMMA LockCounted ==
  ASSUME TypeInv, CountInv, NEW r \in Requests, LockUser(r)
  PROVE  CountInv'
<1>1. RequestsOK /\ request[r].op = "lock" /\ Answered(r) /\ request[r].email \in Emails
  BY RequestKinds DEF TypeInv, LockUser, At, LoginOps, Logins
<1>2. PICK d \in Emails : d = request[r].email
  BY <1>1
<1>3. UNCHANGED <<attempts, failures, spared>> /\ locked' = locked \union {d}
  BY <1>2 DEF LockUser, historyVars
<1>4. ASSUME NEW e \in Emails
      PROVE  /\ Coming(e)' = Coming(e) /\ Comparing(e)' = Comparing(e)
             /\ e # d => Locking(e)' = Locking(e)
  BY <1>1, <1>2, NumbersAnswered, NumberTypes DEF Counts
<1>5. Locking(d) + Comparing(d) <= Cardinality(Requests)
  <2> DEFINE S == Standing({"lock"}, d)
             T == Standing({"compare", "fail"}, d)
  <2>1. S \in SUBSET Requests /\ T \in SUBSET Requests /\ S \union T \in SUBSET Requests
        /\ S \intersect T = {}
    BY DEF Standing
  <2>2. Locking(d) = Cardinality(S) /\ Comparing(d) = Cardinality(T)
    BY DEF Locking, Comparing, Number
  <2> HIDE DEF S, T
  <2>3. IsFiniteSet(S) /\ IsFiniteSet(T) /\ Cardinality(S \union T) <= Cardinality(Requests)
    BY <2>1, SessionsAssumption, FS_Subset
  <2>4. Cardinality(S \union T) = Cardinality(S) + Cardinality(T) - 0
    BY <2>1, <2>3, FS_Union, FS_EmptySet
  <2>5. QED
    BY <2>2, <2>3, <2>4, NumberTypes
<1>6. \A e \in Emails : failures[e] \in Nat /\ attempts[e] \in Nat
  BY DEF TypeInv, RowsOK
<1>7. d \notin spared => failures[d] + Comparing(d) < Limit + Cardinality(Requests)
  BY <1>5, <1>6, NumberTypes, SessionsAssumption DEF CountInv
<1>8. QED
  BY <1>3, <1>4, <1>7 DEF CountInv

LEMMA ResetCounted ==
  ASSUME TypeInv, CountInv, NEW r \in Requests, ResetFailedLogin(r)
  PROVE  CountInv'
<1>1. RequestsOK /\ request[r].op = "reset" /\ Answered(r) /\ request[r].email \in Emails
  BY RequestKinds DEF TypeInv, ResetFailedLogin, At, LoginOps, Logins
<1>2. PICK d \in Emails : d = request[r].email
  BY <1>1
<1>3. /\ attempts' = [attempts EXCEPT ![d] = 0] /\ failures' = [failures EXCEPT ![d] = 0]
      /\ spared' = spared \ {d} /\ locked' = locked \ {d}
  BY <1>2 DEF ResetFailedLogin
<1>4. ASSUME NEW e \in Emails
      PROVE  Coming(e)' = Coming(e) /\ Comparing(e)' = Comparing(e) /\ Locking(e)' = Locking(e)
  BY <1>1, <1>2, NumbersAnswered, NumberTypes DEF Counts
<1>5. /\ attempts \in [Emails -> Nat] /\ failures \in [Emails -> Nat]
      /\ Limit \in Nat \ {0} /\ MaxFailures \in Nat
  BY SessionsAssumption DEF TypeInv, RowsOK
<1>6. ASSUME NEW e \in Emails
      PROVE  /\ failures'[e] <= attempts'[e]
             /\ attempts'[e] + Coming(e)' <= MaxFailures + Cardinality(Requests)
             /\ e \notin spared' /\ e \notin locked' => failures'[e] < Limit + Locking(e)'
             /\ e \notin spared' /\ e \in locked' =>
                  failures'[e] + Comparing(e)' < Limit + Cardinality(Requests)
  <2>1. CASE e = d
    BY <1>3, <1>4, <1>5, <2>1, NumberTypes DEF CountInv
  <2>2. CASE e # d
    BY <1>3, <1>4, <1>5, <2>2 DEF CountInv
  <2>3. QED
    BY <2>1, <2>2
<1>7. QED
  BY <1>6 DEF CountInv

LEMMA LockEndCounted ==
  ASSUME TypeInv, CountInv, NEW d \in Emails, LockEnds(d)
  PROVE  CountInv'
<1>1. /\ failures' = [failures EXCEPT ![d] = 0] /\ spared' = spared \ {d}
      /\ locked' = locked \ {d} /\ UNCHANGED <<attempts, request>>
  BY DEF LockEnds
<1>2. \A e \in Emails : Coming(e)' = Coming(e) /\ Comparing(e)' = Comparing(e)
                         /\ Locking(e)' = Locking(e)
  BY <1>1 DEF Coming, Comparing, Locking, Number, Standing
<1>3. /\ attempts \in [Emails -> Nat] /\ failures \in [Emails -> Nat]
      /\ Limit \in Nat \ {0} /\ MaxFailures \in Nat
  BY SessionsAssumption DEF TypeInv, RowsOK
<1>4. ASSUME NEW e \in Emails
      PROVE  /\ failures'[e] <= attempts'[e]
             /\ e \notin spared' /\ e \notin locked' => failures'[e] < Limit + Locking(e)
             /\ e \notin spared' /\ e \in locked' =>
                  failures'[e] + Comparing(e) < Limit + Cardinality(Requests)
  <2>1. CASE e = d
    BY <1>1, <1>3, <2>1, NumberTypes
  <2>2. CASE e # d
    BY <1>1, <1>3, <2>2 DEF CountInv
  <2>3. QED
    BY <2>1, <2>2
<1>5. QED
  BY <1>1, <1>2, <1>4 DEF CountInv

(* A request that goes on to compare is one of an account that is not      *)
(* locked.                                                                 *)
LEMMA StepUndisturbed ==
  ASSUME TypeInv, CountInv, UNCHANGED <<attempts, failures, locked, spared>>,
         NEW r \in Requests, NEW q, request' = [request EXCEPT ![r] = q],
         request[r].op # "lock", q.op # "lookup",
         q.op \in {"compare", "fail"} =>
           /\ q.email = request[r].email
           /\ \/ request[r].op = "compare"
              \/ request[r].op = "lookup" /\ request[r].email \notin locked
  PROVE  CountInv'
<1>1. ASSUME NEW e \in Emails
      PROVE  /\ Coming(e)' <= Coming(e)
             /\ e \in locked => Comparing(e)' <= Comparing(e)
             /\ Locking(e)' >= Locking(e)
  <2>1. /\ Coming(e)' = Coming(e) - Counts(request[r], {"lookup", "compare", "fail"}, e)
                             + Counts(q, {"lookup", "compare", "fail"}, e)
        /\ Comparing(e)' = Comparing(e) - Counts(request[r], {"compare", "fail"}, e)
                                   + Counts(q, {"compare", "fail"}, e)
        /\ Locking(e)' = Locking(e) - Counts(request[r], {"lock"}, e) + Counts(q, {"lock"}, e)
    BY NumbersAfter DEF TypeInv
  <2>2. /\ Counts(q, {"lookup", "compare", "fail"}, e)
             <= Counts(request[r], {"lookup", "compare", "fail"}, e)
        /\ e \in locked =>
             Counts(q, {"compare", "fail"}, e) <= Counts(request[r], {"compare", "fail"}, e)
        /\ Counts(request[r], {"lock"}, e) = 0
    BY DEF Counts
  <2>3. \A ops : Counts(q, ops, e) \in Nat /\ Counts(request[r], ops, e) \in Nat
    BY DEF Counts
  <2>4. QED
    BY <2>1, <2>2, <2>3, NumberTypes
<1>2. QED
  BY <1>1, CountsUndisturbed

LEMMA AnswerUndisturbed ==
  ASSUME TypeInv, CountInv, UNCHANGED <<attempts, failures, locked, spared>>,
         NEW r \in Requests, Answered(r), request[r].op # "lock"
  PROVE  CountInv'
<1>1. request' = [request EXCEPT ![r] = Idle] /\ Idle.op = "none"
  BY DEF Answered, Idle
<1>2. QED
  BY <1>1, StepUndisturbed

LEMMA NextCounts == TypeInv /\ CountInv /\ [Next]_vars => CountInv'
<1> SUFFICES ASSUME TypeInv, CountInv, [Next]_vars PROVE CountInv'
  OBVIOUS
<1> USE DEF rowVars, historyVars
<1>0. RequestsOK
  BY DEF TypeInv
<1>1. ASSUME NEW r \in Requests, NEW e \in Emails, Signup(r, e) \/ Verify(r, e) PROVE CountInv'
  <2>1. PICK o \in {"getUserByEmail", "verifyUserEmail"} :
          request' = [request EXCEPT ![r] = [op |-> o, email |-> e]]
    BY <1>1 DEF Signup, Verify
  <2>2. request[r].op = "none" /\ UNCHANGED <<attempts, failures, locked, spared>>
    BY <1>1 DEF Signup, Verify, Idle
  <2> DEFINE q == [op |-> o, email |-> e]
  <2>3. q.op = o /\ request' = [request EXCEPT ![r] = q]
    BY <2>1
  <2> HIDE DEF q
  <2>4. QED
    BY <2>2, <2>3, StepUndisturbed
<1>2. ASSUME NEW r \in Requests, SignupLookup(r) \/ VerifyLookup(r) \/ ComparePassword(r)
      PROVE  CountInv'
  <2>1. /\ request[r] # Idle /\ UNCHANGED <<attempts, failures, locked, spared>>
        /\ request[r].op \in {"getUserByEmail", "verifyUserEmail", "compare"}
    BY <1>2 DEF SignupLookup, VerifyLookup, ComparePassword, At
  <2>2. CASE Answered(r)
    BY <2>1, <2>2, AnswerUndisturbed
  <2>3. ASSUME NEW o, Awaits(r, o), o \in {"createUser", "setVerified", "reset"}
                                   \/ (o = "fail" /\ request[r].op = "compare")
        PROVE  CountInv'
    <3>1. PICK q : /\ request' = [request EXCEPT ![r] = q]
                   /\ q.op = o /\ q.email = request[r].email
      BY <1>0, <2>1, <2>3, NextRequest
    <3>2. QED
      BY <2>1, <2>3, <3>1, StepUndisturbed
  <2>4. \/ Answered(r) \/ Awaits(r, "createUser") \/ Awaits(r, "setVerified")
        \/ Awaits(r, "reset") \/ (request[r].op = "compare" /\ Awaits(r, "fail"))
    BY <1>2 DEF SignupLookup, VerifyLookup, ComparePassword, At
  <2>5. QED
    BY <2>2, <2>3, <2>4
<1>3. ASSUME NEW r \in Requests, LoginLookup(r) PROVE CountInv'
  <2>1. /\ request[r].op = "lookup" /\ request[r] \in Logins
        /\ UNCHANGED <<attempts, failures, locked, spared>>
    BY <1>0, <1>3, RequestKinds DEF LoginLookup, At, LoginOps
  <2>2. CASE Answered(r)
    BY <2>1, <2>2, AnswerUndisturbed
  <2>3. CASE ~Answered(r)
    <3> DEFINE q == [request[r] EXCEPT !.op = "compare",
                       !.verified = account[request[r].email] = "verified"]
    <3>1. /\ request' = [request EXCEPT ![r] = q] /\ request[r].email \notin locked
      BY <1>0, <1>3, <2>3 DEF LoginLookup, RequestsOK
    <3>2. q.op = "compare" /\ q.email = request[r].email
      BY <2>1 DEF Logins
    <3> HIDE DEF q
    <3>3. QED
      BY <2>1, <3>1, <3>2, StepUndisturbed
  <2>4. QED
    BY <2>2, <2>3
<1>4. ASSUME NEW r \in Requests, CreateUser(r) \/ SetVerified(r) PROVE CountInv'
  <2>1. /\ Answered(r) /\ request[r].op # "lock"
        /\ UNCHANGED <<attempts, failures, locked, spared>>
    BY <1>4 DEF CreateUser, SetVerified, At
  <2>2. QED
    BY <2>1, AnswerUndisturbed
<1>5. ASSUME NEW r \in Requests, Fail(r) PROVE CountInv'
  <2>1. /\ Answered(r) /\ UNCHANGED <<attempts, failures, locked>> /\ spared \subseteq spared'
        /\ request[r].op = "lock" => request[r].email \in spared'
    BY <1>5 DEF Fail, At
  <2>2. ASSUME NEW e \in Emails
        PROVE  /\ Coming(e)' <= Coming(e) /\ Comparing(e)' <= Comparing(e)
               /\ e \notin spared' => Locking(e)' >= Locking(e)
    <3>1. /\ Coming(e)' = Coming(e) - Counts(request[r], {"lookup", "compare", "fail"}, e)
          /\ Comparing(e)' = Comparing(e) - Counts(request[r], {"compare", "fail"}, e)
          /\ Locking(e)' = Locking(e) - Counts(request[r], {"lock"}, e)
      BY <1>0, <2>1, NumbersAnswered
    <3>2. /\ \A ops : Counts(request[r], ops, e) \in Nat
          /\ e \notin spared' => Counts(request[r], {"lock"}, e) = 0
      BY <2>1 DEF Counts
    <3>3. QED
      BY <3>1, <3>2, NumberTypes
  <2>3. QED
    BY <2>1, <2>2, CountsUndisturbed
<1>6. ASSUME Restart PROVE CountInv'
  <2>1. /\ \A r \in Requests : request'[r].op = "none"
        /\ UNCHANGED <<attempts, failures, locked>> /\ spared \subseteq spared'
        /\ \A r \in Requests : request[r].op = "lock" => request[r].email \in spared'
    BY <1>6 DEF Restart, Idle, At
  <2>2. ASSUME NEW e \in Emails
        PROVE  /\ Coming(e)' <= Coming(e) /\ Comparing(e)' <= Comparing(e)
               /\ e \notin spared' => Locking(e)' >= Locking(e)
    <3>1. /\ Standing({"lookup", "compare", "fail"}, e)' = {}
          /\ Standing({"compare", "fail"}, e)' = {}
      BY <2>1 DEF Standing
    <3>2. Coming(e)' = 0 /\ Comparing(e)' = 0
      BY <3>1, FS_EmptySet DEF Coming, Comparing, Number
    <3>3. e \notin spared' => Standing({"lock"}, e) = {}
      BY <2>1 DEF Standing
    <3>4. e \notin spared' => Locking(e) = 0
      BY <3>3, FS_EmptySet DEF Locking, Number
    <3>5. QED
      BY <3>2, <3>4, NumberTypes
  <2>3. QED
    BY <2>1, <2>2, CountsUndisturbed
<1>7. ASSUME UNCHANGED <<attempts, failures, locked, spared, request>> PROVE CountInv'
  <2>1. \A e \in Emails : Coming(e)' = Coming(e) /\ Comparing(e)' = Comparing(e)
                           /\ Locking(e)' = Locking(e)
    BY <1>7 DEF Coming, Comparing, Locking, Number, Standing
  <2>2. QED
    BY <1>7, <2>1 DEF CountInv
<1>8. \/ UNCHANGED vars
      \/ \E e \in Emails : CodeExpires(e) \/ TokenExpires(e)
      \/ \E a \in Addresses : WindowEnds(a)
      => UNCHANGED <<attempts, failures, locked, spared, request>>
  BY DEF CodeExpires, TokenExpires, WindowEnds, vars
<1>9. QED
  BY <1>1, <1>2, <1>3, <1>4, <1>5, <1>6, <1>7, <1>8,
     LoginCounted, FailureCounted, LockCounted, ResetCounted, LockEndCounted
  DEF Next

LEMMA InitCounts == Init => AddressInv /\ CountInv
<1> SUFFICES ASSUME Init PROVE AddressInv /\ CountInv
  OBVIOUS
<1>1. AddressInv
  BY DEF Init, AddressInv
<1>2. ASSUME NEW e \in Emails PROVE Coming(e) = 0
  <2>1. Standing({"lookup", "compare", "fail"}, e) = {}
    BY DEF Init, Idle, Standing
  <2>2. QED
    BY <2>1, FS_EmptySet DEF Coming, Number
<1>3. CountInv
  BY <1>2, NumberTypes, SessionsAssumption DEF Init, CountInv
<1>4. QED
  BY <1>1, <1>3

(* The counters stay in their bounds: no failed login is recorded but for  *)
(* a request that was let in.                                              *)
THEOREM TypeCorrect == Spec => []TypeOK
<1>1. TypeInv /\ CountInv => TypeOK
  <2> SUFFICES ASSUME TypeInv, CountInv PROVE TypeOK
    OBVIOUS
  <2>1. \A e \in Emails : attempts[e] \in 0 .. MaxFailures + Cardinality(Requests)
    BY NumberTypes, SessionsAssumption DEF CountInv, TypeInv, RowsOK
  <2>2. attempts \in [Emails -> 0 .. MaxFailures + Cardinality(Requests)]
    BY <2>1 DEF TypeInv, RowsOK
  <2>3. QED
    BY <2>2 DEF TypeOK, TypeInv, RowsOK, RequestsOK, Visits, Logins
<1>2. QED
  BY <1>1, InitTypes, InitCounts, NextTypes, NextCounts, PTL DEF Spec

LEMMA CountedLimits == TypeInv /\ AddressInv /\ CountInv => LoginLimits
<1> SUFFICES ASSUME TypeInv, AddressInv, CountInv PROVE LoginLimits
  OBVIOUS
<1>1. ASSUME NEW e \in Emails \ spared
      PROVE  /\ failures[e] < Limit + Cardinality(Requests)
             /\ failures[e] >= Limit =>
                  e \in locked \/ \E r \in Requests : At(r, "lock") /\ request[r].email = e
  <2>1. failures[e] \in Nat /\ Limit \in Nat
    BY SessionsAssumption DEF TypeInv, RowsOK
  <2>2. failures[e] < Limit + Cardinality(Requests)
    BY <2>1, NumberTypes DEF CountInv
  <2>3. ASSUME failures[e] >= Limit, e \notin locked
        PROVE  \E r \in Requests : At(r, "lock") /\ request[r].email = e
    <3>1. Locking(e) # 0
      BY <1>1, <2>1, <2>3, NumberTypes DEF CountInv
    <3>2. QED
      BY <3>1, NumberType DEF Locking, At, Idle
  <2>4. QED
    BY <2>2, <2>3
<1>2. ASSUME NEW a \in Addresses PROVE begun[a] <= Limit
  BY SessionsAssumption DEF TypeInv, RowsOK, AddressInv
<1>3. QED
  BY <1>1, <1>2 DEF LoginLimits, FailuresLock, AddressesLimited

(* However many logins overlap, an account with as many failures as the    *)
(* limit is locked or about to be, no more get in on top than requests     *)
(* are under way, and an address gets no more than its share of a window.  *)
THEOREM LoginsAlwaysLimited == Spec => []LoginLimits
<1>1. QED
  BY InitTypes, InitCounts, NextTypes, NextAddresses, NextCounts, CountedLimits, PTL DEF Spec
=============================================================================
