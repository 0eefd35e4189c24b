-------------------------- MODULE Credentials_proofs --------------------------
(***************************************************************************)
(* Theorems about module Credentials, for any accounts, keys, codes and    *)
(* nodes and any number of requests under way.                             *)
(***************************************************************************)
EXTENDS Credentials, TLAPS

Authenticated == [step : {"lookup", "touch", "act", "link"}, op : Operations,
                  by : Users \union Keys, late : BOOLEAN, user : Users \union {NoUser}]

Registration == [step : {"isNodePaired", "getUnused", "createCode"}, node : Nodes]

(* The rows of the tables and the history, without the requests. *)
RowsTypeOK ==
  /\ keyOwner \in [Keys -> Users \union {NoUser}]
  /\ revoked \subseteq Keys
  /\ codeNode \in [Codes -> Nodes \union {NoNode}]
  /\ codeUser \in [Codes -> Users \union {NoUser}]
  /\ expired \subseteq Codes
  /\ link \in [Users -> Nodes \union {NoNode}]

(* TypeOK wants the user of a request in "act" and the code of one in      *)
(* "link", and so it takes the owner of the key, and the code, before: a   *)
(* request that began with a key has its row.                              *)
Sound(q, owners) ==
  /\ q.step = "lookup" /\ q.by \notin Users => owners[q.by] \in Users
  /\ q.step \in {"touch", "act", "link"} => q.user \in Users
  /\ q.step = "link" => q.op[2] \in Codes

RequestInv ==
  /\ request \in [Requests -> {Idle} \union Authenticated \union Registration]
  /\ \A r \in Requests : Sound(request[r], keyOwner)

TypeInv == RowsTypeOK /\ RequestInv

LEMMA TypeInvTypeOK == TypeInv => TypeOK
  BY DEF TypeInv, TypeOK, RowsTypeOK, RequestInv, Sound, At, Authenticated, Registration

(* The owner of a key never changes. *)
OwnersStay == \A k \in Keys : keyOwner[k] \in Users => keyOwner'[k] = keyOwner[k]

(* A request is of the kind its step says. *)
LEMMA RequestKinds ==
  ASSUME RequestInv, NEW r \in Requests
  PROVE  /\ \A s \in {"lookup", "touch", "act", "link"} :
              At(r, s) => request[r] \in Authenticated
         /\ \A s \in {"isNodePaired", "getUnused", "createCode"} :
              At(r, s) => request[r] \in Registration
  BY DEF RequestInv, At, Idle, Authenticated, Registration

LEMMA PairOperation ==
  ASSUME NEW op \in Operations
  PROVE  /\ op[1] = "pair" => op[2] \in Codes
         /\ op[1] = "revoke" => op[2] \in Keys
  BY DEF Operations

(* What becomes of the request of a slot, when the others keep theirs *)
LEMMA OneRequest ==
  ASSUME RequestInv, NEW r \in Requests,
         NEW q \in {Idle} \union Authenticated \union Registration,
         Sound(q, keyOwner'), OwnersStay,
         request' = [request EXCEPT ![r] = q]
  PROVE  RequestInv'
<1>1. request'[r] = q /\ \A s \in Requests \ {r} : request'[s] = request[s]
  BY DEF RequestInv
<1>2. request' \in [Requests -> {Idle} \union Authenticated \union Registration]
  BY DEF RequestInv
<1>3. ASSUME NEW s \in Requests PROVE Sound(request[s], keyOwner')
  <2>1. request[s].step = "lookup" => request[s].by \in Users \union Keys
    BY DEF RequestInv, Authenticated, Registration, Idle
  <2>2. QED
    BY <2>1 DEF OwnersStay, RequestInv, Sound
<1>4. QED
  BY <1>1, <1>2, <1>3 DEF RequestInv

LEMMA AnsweredType ==
  ASSUME RequestInv, NEW r \in Requests, Answered(r), OwnersStay PROVE RequestInv'
<1>1. Sound(Idle, keyOwner')
  BY DEF Idle, Sound
<1>2. QED
  BY <1>1, OneRequest DEF Answered

(* A request, the same but for its step *)
LEMMA AwaitsType ==
  ASSUME RequestInv, NEW r \in Requests, NEW step, Awaits(r, step), OwnersStay,
         \/ /\ request[r] \in Authenticated /\ request[r].user \in Users
            /\ step \in {"act", "link"} /\ (step = "link" => request[r].op[2] \in Codes)
         \/ request[r] \in Registration /\ step \in {"isNodePaired", "getUnused", "createCode"}
  PROVE  RequestInv'
<1> DEFINE q == [request[r] EXCEPT !.step = step]
<1>1. request' = [request EXCEPT ![r] = q]
  BY DEF Awaits
<1>2. CASE /\ request[r] \in Authenticated /\ request[r].user \in Users
           /\ step \in {"act", "link"} /\ (step = "link" => request[r].op[2] \in Codes)
  <2>1. q \in Authenticated /\ Sound(q, keyOwner')
    BY <1>2 DEF Authenticated, Sound
  <2> HIDE DEF q
  <2>2. QED
    BY <1>1, <2>1, OneRequest
<1>3. CASE request[r] \in Registration /\ step \in {"isNodePaired", "getUnused", "createCode"}
  <2>1. q \in Registration /\ Sound(q, keyOwner')
    BY <1>3 DEF Registration, Sound
  <2> HIDE DEF q
  <2>2. QED
    BY <1>1, <2>1, OneRequest
<1>4. QED
  BY <1>2, <1>3

(* EndShort leaves the rows alone and only ends requests. *)
LEMMA EndShortType ==
  ASSUME RequestInv, NEW R \in SUBSET Requests, EndShort(R) PROVE RequestInv'
<1>1. \A r \in Requests : request'[r] = IF r \in R THEN Idle ELSE request[r]
  BY DEF EndShort
<1>2. request' \in [Requests -> {Idle} \union Authenticated \union Registration]
  BY <1>1 DEF EndShort, RequestInv
<1>3. QED
  BY <1>1, <1>2 DEF RequestInv, Sound, Idle, EndShort, keyVars

LEMMA NextTypeInv == TypeInv /\ [Next]_vars => TypeInv'
<1> SUFFICES ASSUME RowsTypeOK, RequestInv, [Next]_vars PROVE RowsTypeOK' /\ RequestInv'
  BY DEF TypeInv
<1> USE DEF keyVars, codeVars, historyVars
<1>1. ASSUME NEW r \in Requests, NEW op \in Operations, NEW by \in Users \union Keys,
             Begin(r, op, by)
      PROVE  RowsTypeOK' /\ RequestInv'
  <2> DEFINE q == [step |-> "lookup", op |-> op, by |-> by,
                   late |-> by \in withdrawn, user |-> NoUser]
  <2>1. request' = [request EXCEPT ![r] = q]
    BY <1>1 DEF Begin
  <2>2. by \notin Users => keyOwner'[by] \in Users
    BY <1>1 DEF Begin, RowsTypeOK
  <2>3. q \in Authenticated /\ Sound(q, keyOwner')
    BY <2>2 DEF Authenticated, Sound
  <2> HIDE DEF q
  <2>4. OwnersStay
    BY <1>1 DEF Begin, OwnersStay
  <2>5. RequestInv'
    BY <2>1, <2>3, <2>4, OneRequest
  <2>6. QED
    BY <1>1, <2>5 DEF Begin, RowsTypeOK
<1>2. ASSUME NEW r \in Requests, NEW n \in Nodes, Register(r, n)
      PROVE  RowsTypeOK' /\ RequestInv'
  <2> DEFINE q == [step |-> "isNodePaired", node |-> n]
  <2>1. request' = [request EXCEPT ![r] = q]
    BY <1>2 DEF Register
  <2>2. q \in Registration /\ Sound(q, keyOwner')
    BY DEF Registration, Sound
  <2> HIDE DEF q
  <2>3. OwnersStay
    BY <1>2 DEF Register, OwnersStay
  <2>4. RequestInv'
    BY <2>1, <2>2, <2>3, OneRequest
  <2>5. QED
    BY <1>2, <2>4 DEF Register, RowsTypeOK
<1>3. ASSUME NEW r \in Requests, Lookup(r) PROVE RowsTypeOK' /\ RequestInv'
  <2>1. At(r, "lookup") /\ request[r] \in Authenticated /\ OwnersStay
    BY <1>3, RequestKinds DEF Lookup, OwnersStay
  <2>2. ASSUME NEW u \in Users, NEW step \in {"act", "touch"},
               request' = [request EXCEPT ![r].user = u, ![r].step = step]
        PROVE  RequestInv'
    <3> DEFINE q == [request[r] EXCEPT !.user = u, !.step = step]
    <3>1. request' = [request EXCEPT ![r] = q]
      BY <2>2 DEF RequestInv
    <3>2. q \in Authenticated /\ Sound(q, keyOwner')
      BY <2>1, <2>2 DEF Authenticated, Sound
    <3> HIDE DEF q
    <3>3. QED
      BY <2>1, <3>1, <3>2, OneRequest
  <2>3. CASE request[r].by \in Users
    BY <1>3, <2>2, <2>3 DEF Lookup, RowsTypeOK
  <2>4. CASE request[r].by \notin Users /\ request[r].by \in revoked
    BY <1>3, <2>1, <2>4, AnsweredType DEF Lookup, RowsTypeOK
  <2>5. CASE request[r].by \notin Users /\ request[r].by \notin revoked
    <3>1. keyOwner[request[r].by] \in Users
      BY <2>1, <2>5 DEF RequestInv, Sound, At
    <3>2. RequestInv'
      BY <1>3, <2>2, <2>5, <3>1 DEF Lookup
    <3>3. QED
      BY <1>3, <3>2 DEF Lookup, RowsTypeOK
  <2>6. QED
    BY <2>3, <2>4, <2>5
<1>4. ASSUME NEW r \in Requests, Touch(r) PROVE RowsTypeOK' /\ RequestInv'
  <2>1. /\ request[r] \in Authenticated /\ request[r].user \in Users
        /\ OwnersStay /\ Awaits(r, "act")
    BY <1>4, RequestKinds DEF Touch, OwnersStay, RequestInv, Sound, At
  <2>2. "act" \in {"act", "link"} /\ "act" # "link"
    OBVIOUS
  <2>3. RequestInv'
    BY <2>1, <2>2, AwaitsType
  <2>4. QED
    BY <1>4, <2>3 DEF Touch, RowsTypeOK
<1>5. ASSUME NEW r \in Requests, Submit(r) PROVE RowsTypeOK' /\ RequestInv'
  <2>1. OwnersStay
    BY <1>5 DEF Submit, OwnersStay
  <2>2. QED
    BY <1>5, <2>1, AnsweredType DEF Submit, RowsTypeOK
<1>6. ASSUME NEW r \in Requests, CreateApiKey(r) PROVE RowsTypeOK' /\ RequestInv'
  <2>1. PICK k \in Keys :
          keyOwner[k] = NoUser /\ keyOwner' = [keyOwner EXCEPT ![k] = request[r].user]
    BY <1>6 DEF CreateApiKey
  <2>2. OwnersStay
    BY <2>1, CredentialsAssumption DEF OwnersStay, RowsTypeOK
  <2>3. request[r].user \in Users
    BY <1>6 DEF CreateApiKey, Does, RequestInv, Sound, At
  <2>4. RequestInv'
    BY <1>6, <2>2, AnsweredType DEF CreateApiKey
  <2>5. QED
    BY <1>6, <2>1, <2>3, <2>4 DEF CreateApiKey, RowsTypeOK
<1>7. ASSUME NEW r \in Requests, RevokeApiKey(r) PROVE RowsTypeOK' /\ RequestInv'
  <2>1. request[r].op[2] \in Keys /\ OwnersStay
    BY <1>7, RequestKinds, PairOperation DEF RevokeApiKey, Does, Authenticated, OwnersStay
  <2>2. RequestInv'
    BY <1>7, <2>1, AnsweredType DEF RevokeApiKey
  <2>3. QED
    BY <1>7, <2>1, <2>2 DEF RevokeApiKey, RowsTypeOK
<1>8. ASSUME NEW r \in Requests, UsePairingCode(r) PROVE RowsTypeOK' /\ RequestInv'
  <2>1. /\ request[r] \in Authenticated /\ request[r].user \in Users
        /\ request[r].op[2] \in Codes /\ OwnersStay
    BY <1>8, RequestKinds, PairOperation
    DEF UsePairingCode, Does, Authenticated, OwnersStay, RequestInv, Sound, At
  <2>2. Awaits(r, "link") \/ Answered(r)
    BY <1>8 DEF UsePairingCode
  <2>3. RequestInv'
    BY <2>1, <2>2, AwaitsType, AnsweredType
  <2>4. QED
    BY <1>8, <2>1, <2>3 DEF UsePairingCode, RowsTypeOK
<1>9. ASSUME NEW r \in Requests, LinkNodeToUser(r) PROVE RowsTypeOK' /\ RequestInv'
  <2>1. /\ request[r] \in Authenticated /\ request[r].user \in Users
        /\ request[r].op[2] \in Codes /\ OwnersStay
    BY <1>9, RequestKinds DEF LinkNodeToUser, OwnersStay, RequestInv, Sound, At
  <2>2. RequestInv'
    BY <1>9, <2>1, AnsweredType DEF LinkNodeToUser
  <2>3. QED
    BY <1>9, <2>1, <2>2 DEF LinkNodeToUser, RowsTypeOK
<1>10. ASSUME NEW r \in Requests, IsNodePaired(r) PROVE RowsTypeOK' /\ RequestInv'
  <2>1. /\ request[r] \in Registration /\ OwnersStay
        /\ Answered(r) \/ Awaits(r, "getUnused")
    BY <1>10, RequestKinds DEF IsNodePaired, OwnersStay
  <2>2. RequestInv'
    BY <2>1, AwaitsType, AnsweredType
  <2>3. QED
    BY <1>10, <2>2 DEF IsNodePaired, RowsTypeOK
<1>11. ASSUME NEW r \in Requests, GetUnusedPairingCode(r) PROVE RowsTypeOK' /\ RequestInv'
  <2>1. /\ request[r] \in Registration /\ OwnersStay
        /\ Answered(r) \/ Awaits(r, "createCode")
    BY <1>11, RequestKinds DEF GetUnusedPairingCode, OwnersStay
  <2>2. RequestInv'
    BY <2>1, AwaitsType, AnsweredType
  <2>3. QED
    BY <1>11, <2>2 DEF GetUnusedPairingCode, RowsTypeOK
<1>12. ASSUME NEW r \in Requests, CreatePairingCode(r) PROVE RowsTypeOK' /\ RequestInv'
  <2>1. request[r].node \in Nodes /\ OwnersStay
    BY <1>12, RequestKinds DEF CreatePairingCode, Registration, OwnersStay
  <2>2. RequestInv'
    BY <1>12, <2>1, AnsweredType DEF CreatePairingCode
  <2>3. QED
    BY <1>12, <2>1, <2>2 DEF CreatePairingCode, RowsTypeOK
<1>13. ASSUME NEW R \in SUBSET Requests, EndShort(R) PROVE RowsTypeOK' /\ RequestInv'
  BY <1>13, EndShortType DEF EndShort, RowsTypeOK
<1>14. ASSUME NEW c \in Codes, CodeExpires(c) PROVE RowsTypeOK' /\ RequestInv'
  BY <1>14 DEF CodeExpires, RowsTypeOK, RequestInv
<1>15. CASE UNCHANGED vars
  BY <1>15 DEF vars, RowsTypeOK, RequestInv
<1>16. ASSUME NEW r \in Requests, Fail(r) PROVE RowsTypeOK' /\ RequestInv'
  BY <1>13, <1>16 DEF Fail
<1>17. ASSUME Restart PROVE RowsTypeOK' /\ RequestInv'
  BY <1>13, <1>17 DEF Restart
<1>18. QED
  BY <1>1, <1>2, <1>3, <1>4, <1>5, <1>6, <1>7, <1>8, <1>9, <1>10, <1>11, <1>12,
     <1>14, <1>15, <1>16, <1>17
  DEF Next

(* Every authenticated request acts for an account, whichever key or       *)
(* session it came with.                                                   *)
THEOREM TypeCorrect == Spec => []TypeOK
<1>1. Init => TypeInv
  BY DEF Init, TypeInv, RowsTypeOK, RequestInv, Sound, Idle
<1>2. QED
  BY <1>1, NextTypeInv, TypeInvTypeOK, PTL DEF Spec

-----------------------------------------------------------------------------
(* Revocation: a late request is one of a key out of use, and it may be in *)
(* "lookup", never further.                                                *)
Refused(q) ==
  /\ q.step = "lookup" /\ q.late => q.by \in withdrawn
  /\ q.step \in {"touch", "act", "link"} => ~q.late

RevocationInv ==
  /\ withdrawn \subseteq revoked
  /\ \A r \in Requests : Refused(request[r])

LEMMA OneRefused ==
  ASSUME RequestInv, RevocationInv, NEW r \in Requests, NEW q, Refused(q),
         request' = [request EXCEPT ![r] = q], UNCHANGED <<revoked, withdrawn>>
  PROVE  RevocationInv'
<1>1. \A s \in Requests : request'[s] = IF s = r THEN q ELSE request[s]
  BY DEF RequestInv
<1>2. QED
  BY <1>1 DEF RevocationInv, Refused

LEMMA AnsweredRefused ==
  ASSUME RequestInv, RevocationInv, NEW r \in Requests, Answered(r),
         UNCHANGED <<revoked, withdrawn>>
  PROVE  RevocationInv'
<1>1. Refused(Idle)
  BY DEF Refused, Idle
<1>2. QED
  BY <1>1, OneRefused DEF Answered

(* Past "lookup" a request stays as it is, but for its step. *)
LEMMA AwaitsRefused ==
  ASSUME RequestInv, RevocationInv, NEW r \in Requests, NEW step, Awaits(r, step),
         request[r].step \notin {"none", "lookup"}, step # "lookup",
         request[r] \in Registration => step \notin {"touch", "act", "link"},
         UNCHANGED <<revoked, withdrawn>>
  PROVE  RevocationInv'
<1> DEFINE q == [request[r] EXCEPT !.step = step]
<1>1. request' = [request EXCEPT ![r] = q]
  BY DEF Awaits
<1>2. Refused(q)
  <2>1. CASE request[r] \in Authenticated
    <3>1. request[r].step \in {"touch", "act", "link"}
      BY <2>1 DEF Authenticated
    <3>2. ~request[r].late
      BY <3>1 DEF RevocationInv, Refused
    <3>3. q.late = request[r].late /\ q.step # "lookup"
      BY <2>1 DEF Authenticated
    <3>4. QED
      BY <3>2, <3>3 DEF Refused
  <2>2. CASE request[r] \in Registration
    BY <2>2 DEF Refused, Registration
  <2>3. QED
    BY <2>1, <2>2 DEF RequestInv, Idle
<1> HIDE DEF q
<1>3. QED
  BY <1>1, <1>2, OneRefused

LEMMA NextRevocation == TypeInv /\ RevocationInv /\ [Next]_vars => RevocationInv'
<1> SUFFICES ASSUME RowsTypeOK, RequestInv, RevocationInv, [Next]_vars PROVE RevocationInv'
  BY DEF TypeInv
<1> USE DEF keyVars, historyVars
<1>1. ASSUME NEW r \in Requests, NEW op \in Operations, NEW by \in Users \union Keys,
             Begin(r, op, by)
      PROVE  RevocationInv'
  <2> DEFINE q == [step |-> "lookup", op |-> op, by |-> by,
                   late |-> by \in withdrawn, user |-> NoUser]
  <2>1. request' = [request EXCEPT ![r] = q] /\ UNCHANGED <<revoked, withdrawn>>
    BY <1>1 DEF Begin
  <2>2. Refused(q)
    BY DEF Refused
  <2> HIDE DEF q
  <2>3. QED
    BY <2>1, <2>2, OneRefused
<1>2. ASSUME NEW r \in Requests, NEW n \in Nodes, Register(r, n) PROVE RevocationInv'
  <2> DEFINE q == [step |-> "isNodePaired", node |-> n]
  <2>1. request' = [request EXCEPT ![r] = q] /\ UNCHANGED <<revoked, withdrawn>>
    BY <1>2 DEF Register
  <2>2. Refused(q)
    BY DEF Refused
  <2> HIDE DEF q
  <2>3. QED
    BY <2>1, <2>2, OneRefused
<1>3. ASSUME NEW r \in Requests, Lookup(r) PROVE RevocationInv'
  <2>1. /\ request[r] \in Authenticated /\ request[r].step = "lookup"
        /\ UNCHANGED <<revoked, withdrawn>>
    BY <1>3, RequestKinds DEF Lookup, At
  <2>2. ASSUME NEW u, NEW step \in {"act", "touch"}, request[r].by \notin revoked,
               request' = [request EXCEPT ![r].user = u, ![r].step = step]
        PROVE  RevocationInv'
    <3> DEFINE q == [request[r] EXCEPT !.user = u, !.step = step]
    <3>1. request' = [request EXCEPT ![r] = q]
      BY <2>2 DEF RequestInv
    <3>2. request[r].by \notin withdrawn
      BY <2>2 DEF RevocationInv
    <3>3. ~request[r].late
      BY <2>1, <3>2 DEF RevocationInv, Refused
    <3>4. Refused(q)
      BY <2>1, <3>3 DEF Authenticated, Refused
    <3> HIDE DEF q
    <3>5. QED
      BY <2>1, <3>1, <3>4, OneRefused
  <2>3. CASE request[r].by \in Users
    <3>1. request[r].by \notin revoked
      BY <2>3, CredentialsAssumption DEF RowsTypeOK
    <3>2. QED
      BY <1>3, <2>2, <2>3, <3>1 DEF Lookup
  <2>4. CASE request[r].by \notin Users /\ request[r].by \in revoked
    BY <1>3, <2>1, <2>4, AnsweredRefused DEF Lookup
  <2>5. CASE request[r].by \notin Users /\ request[r].by \notin revoked
    BY <1>3, <2>2, <2>5 DEF Lookup
  <2>6. QED
    BY <2>3, <2>4, <2>5
<1>4. ASSUME NEW r \in Requests, Touch(r) PROVE RevocationInv'
  <2>1. request[r].step = "touch" /\ request[r] \in Authenticated
    BY <1>4, RequestKinds DEF Touch, At
  <2>2. request[r] \notin Registration
    BY <2>1 DEF Registration
  <2>3. Awaits(r, "act") /\ UNCHANGED <<revoked, withdrawn>>
    BY <1>4 DEF Touch
  <2>4. QED
    BY <2>1, <2>2, <2>3, AwaitsRefused
<1>5. ASSUME NEW r \in Requests, Submit(r) \/ CreateApiKey(r) \/ LinkNodeToUser(r)
                                 \/ CreatePairingCode(r)
      PROVE  RevocationInv'
  <2>1. Answered(r) /\ UNCHANGED <<revoked, withdrawn>>
    BY <1>5 DEF Submit, CreateApiKey, LinkNodeToUser, CreatePairingCode
  <2>2. QED
    BY <2>1, AnsweredRefused
<1>6. ASSUME NEW r \in Requests, RevokeApiKey(r) PROVE RevocationInv'
  <2>1. PICK rows :
          /\ revoked' = revoked \union rows /\ withdrawn' = withdrawn \union rows
          /\ \A s \in Requests : request'[s] = request[s] \/ request'[s] = Idle
    BY <1>6 DEF RevokeApiKey, Answered, RequestInv
  <2>2. QED
    BY <2>1 DEF RevocationInv, Refused, Idle
<1>7. ASSUME NEW r \in Requests, UsePairingCode(r) PROVE RevocationInv'
  <2>1. request[r].step = "act" /\ UNCHANGED <<revoked, withdrawn>>
    BY <1>7 DEF UsePairingCode, Does, At
  <2>2. request[r] \notin Registration
    BY <2>1 DEF Registration
  <2>3. Awaits(r, "link") \/ Answered(r)
    BY <1>7 DEF UsePairingCode
  <2>4. QED
    BY <2>1, <2>2, <2>3, AwaitsRefused, AnsweredRefused
<1>8. ASSUME NEW r \in Requests, IsNodePaired(r) \/ GetUnusedPairingCode(r)
      PROVE  RevocationInv'
  <2>1. /\ request[r].step \in {"isNodePaired", "getUnused"}
        /\ Answered(r) \/ Awaits(r, "getUnused") \/ Awaits(r, "createCode")
        /\ UNCHANGED <<revoked, withdrawn>>
    BY <1>8 DEF IsNodePaired, GetUnusedPairingCode, At
  <2>2. QED
    BY <2>1, AwaitsRefused, AnsweredRefused
<1>9. ASSUME NEW R \in SUBSET Requests, EndShort(R) PROVE RevocationInv'
  BY <1>9 DEF EndShort, RevocationInv, Refused, Idle
<1>10. ASSUME UNCHANGED <<request, revoked, withdrawn>> PROVE RevocationInv'
  BY <1>10 DEF RevocationInv, Refused
<1>11. ASSUME NEW r \in Requests, Fail(r) PROVE RevocationInv'
  BY <1>9, <1>11 DEF Fail
<1>12. ASSUME Restart PROVE RevocationInv'
  BY <1>9, <1>12 DEF Restart
<1>13. (\E c \in Codes : CodeExpires(c)) \/ UNCHANGED vars
       => UNCHANGED <<request, revoked, withdrawn>>
  BY DEF CodeExpires, vars
<1>14. QED
  BY <1>1, <1>2, <1>3, <1>4, <1>5, <1>6, <1>7, <1>8, <1>10, <1>11, <1>12, <1>13 DEF Next

(* Revoked is revoked, for any number of requests with the key under way:  *)
(* whoever begins after the UPDATE reads it before anything is done.       *)
THEOREM RevocationAlwaysHolds == Spec => []RevocationHolds
<1>1. Init => TypeInv /\ RevocationInv
  BY DEF Init, TypeInv, RowsTypeOK, RequestInv, Sound, RevocationInv, Refused, Idle
<1>2. RevocationInv => RevocationHolds
  BY DEF RevocationInv, Refused, RevocationHolds, At
<1>3. QED
  BY <1>1, <1>2, NextTypeInv, NextRevocation, PTL DEF Spec

-----------------------------------------------------------------------------
(* Pairing: a used code is one of a node and stays its user's, and a user  *)
(* with a code and without a node has a request in "link", or had one that *)
(* was cut short.                                                          *)
Linking(u) == \E r \in Requests : request[r].step = "link" /\ request[r].user = u

CodesInv ==
  /\ \A c \in Codes : codeUser[c] # NoUser => codeNode[c] # NoNode
  /\ \A r \in Requests : request[r].step = "link" =>
       codeUser[request[r].op[2]] = request[r].user
  /\ \A p \in paired : p[1] \in Codes /\ p[2] \in Users /\ codeUser[p[1]] = p[2]

LinksInv ==
  \A u \in Users :
    /\ link[u] # NoNode => \E c \in Codes : codeUser[c] = u /\ codeNode[c] = link[u]
    /\ link[u] = NoNode =>
         /\ \A p \in paired : p[2] # u
         /\ \A c \in Codes : codeUser[c] = u => Linking(u) \/ u \in cutShort

PairingInv == CodesInv /\ LinksInv

(* A step of a request that is in "link" neither before nor after          *)
LEMMA PairingUndisturbed ==
  ASSUME RequestInv, PairingInv, NEW r \in Requests, NEW q,
         request[r].step # "link", q.step # "link",
         request' = [request EXCEPT ![r] = q],
         UNCHANGED <<codeNode, codeUser, link, paired, cutShort>>
  PROVE  PairingInv'
<1>1. \A s \in Requests : request'[s] = IF s = r THEN q ELSE request[s]
  BY DEF RequestInv
<1>2. CodesInv'
  BY <1>1 DEF PairingInv, CodesInv
<1>3. \A u \in Users : Linking(u) => Linking(u)'
  BY <1>1 DEF Linking
<1>4. LinksInv'
  BY <1>3 DEF PairingInv, LinksInv
<1>5. QED
  BY <1>2, <1>4 DEF PairingInv

LEMMA AnsweredPairing ==
  ASSUME RequestInv, PairingInv, NEW r \in Requests, request[r].step # "link", Answered(r),
         UNCHANGED <<codeNode, codeUser, link, paired, cutShort>>
  PROVE  PairingInv'
<1>1. Idle.step # "link"
  BY DEF Idle
<1>2. QED
  BY <1>1, PairingUndisturbed DEF Answered

(* The UPDATE that uses a code *)
LEMMA CodeUsed ==
  ASSUME RowsTypeOK, RequestInv, PairingInv, NEW r \in Requests, NEW c \in Codes,
         c = request[r].op[2], At(r, "act"), request[r] \in Authenticated, Usable(c),
         codeUser' = [codeUser EXCEPT ![c] = request[r].user], Awaits(r, "link"),
         UNCHANGED <<codeNode, link, paired, cutShort>>
  PROVE  PairingInv'
<1> DEFINE u == request[r].user
<1>1. u \in Users /\ codeUser[c] = NoUser /\ NoUser \notin Users
  BY CredentialsAssumption DEF RequestInv, Sound, At, Usable
<1>2. \A d \in Codes : codeUser'[d] = IF d = c THEN u ELSE codeUser[d]
  BY DEF RowsTypeOK
<1>3. /\ request'[r].step = "link" /\ request'[r].user = u /\ request'[r].op[2] = c
      /\ \A s \in Requests \ {r} : request'[s] = request[s]
  BY DEF Awaits, RequestInv, Authenticated
<1>4. \A d \in Codes : codeUser[d] \in Users => codeUser'[d] = codeUser[d]
  BY <1>1, <1>2
<1>5. CodesInv'
  <2>1. \A d \in Codes : codeUser'[d] # NoUser => codeNode'[d] # NoNode
    BY <1>2 DEF PairingInv, CodesInv, Usable
  <2>2. \A s \in Requests : request[s].step = "link" =>
          /\ request[s].op[2] \in Codes /\ request[s].user \in Users
          /\ codeUser[request[s].op[2]] = request[s].user
    BY DEF RequestInv, Sound, PairingInv, CodesInv
  <2>3. \A s \in Requests : request'[s].step = "link" =>
          codeUser'[request'[s].op[2]] = request'[s].user
    BY <1>2, <1>3, <1>4, <2>2
  <2>4. \A p \in paired : p[1] \in Codes /\ p[2] \in Users /\ codeUser'[p[1]] = p[2]
    BY <1>4 DEF PairingInv, CodesInv
  <2>5. QED
    BY <2>1, <2>3, <2>4 DEF CodesInv
<1>6. \A v \in Users : v = u \/ Linking(v) => Linking(v)'
  BY <1>3 DEF Linking, At
<1> HIDE DEF u
<1>7. ASSUME NEW v \in Users, link[v] # NoNode
      PROVE  \E d \in Codes : codeUser'[d] = v /\ codeNode'[d] = link[v]
  BY <1>4, <1>7 DEF PairingInv, LinksInv
<1>8. ASSUME NEW v \in Users, link[v] = NoNode, NEW d \in Codes, codeUser'[d] = v
      PROVE  Linking(v)' \/ v \in cutShort
  <2>1. CASE d = c
    BY <1>2, <1>6, <1>8, <2>1
  <2>2. CASE d # c
    BY <1>2, <1>6, <1>8, <2>2 DEF PairingInv, LinksInv
  <2>3. QED
    BY <2>1, <2>2
<1>9. LinksInv'
  BY <1>7, <1>8 DEF PairingInv, LinksInv
<1>10. QED
  BY <1>5, <1>9 DEF PairingInv

LEMMA NodeLinked ==
  ASSUME RowsTypeOK, RequestInv, PairingInv, NEW r \in Requests, LinkNodeToUser(r)
  PROVE  PairingInv'
<1> DEFINE u == request[r].user
           c == request[r].op[2]
<1>1. u \in Users /\ c \in Codes /\ codeUser[c] = u
  BY DEF LinkNodeToUser, At, RequestInv, Sound, PairingInv, CodesInv
<1>2. codeNode[c] # NoNode
  BY <1>1, CredentialsAssumption DEF PairingInv, CodesInv
<1>3. \A v \in Users : link'[v] = IF v = u THEN codeNode[c] ELSE link[v]
  BY DEF LinkNodeToUser, RowsTypeOK
<1>4. paired' = paired \union {<<c, u>>} /\ UNCHANGED <<codeNode, codeUser, cutShort>>
  BY DEF LinkNodeToUser, codeVars
<1>5. \A s \in Requests : request'[s] = IF s = r THEN Idle ELSE request[s]
  BY DEF LinkNodeToUser, Answered, RequestInv
<1>6. \A v \in Users : v # u /\ Linking(v) => Linking(v)'
  BY <1>5 DEF Linking
<1> HIDE DEF u, c
<1>7. CodesInv'
  BY <1>1, <1>4, <1>5 DEF PairingInv, CodesInv, Idle
<1>8. LinksInv'
  BY <1>1, <1>2, <1>3, <1>4, <1>6 DEF PairingInv, LinksInv
<1>9. QED
  BY <1>7, <1>8 DEF PairingInv

LEMMA RequestsEnded ==
  ASSUME RequestInv, PairingInv, NEW R \in SUBSET Requests, EndShort(R)
  PROVE  PairingInv'
<1>1. \A s \in Requests : request'[s] = IF s \in R THEN Idle ELSE request[s]
  BY DEF EndShort
<1>2. UNCHANGED <<codeNode, codeUser, link, paired>>
  BY DEF EndShort, codeVars
<1>3. CodesInv'
  BY <1>1, <1>2 DEF PairingInv, CodesInv, Idle
<1>4. \A s \in R : request[s].step = "link" => request[s].user \in cutShort'
  BY DEF EndShort, At
<1>5. cutShort \subseteq cutShort'
  BY DEF EndShort
<1>6. \A u \in Users : Linking(u) => Linking(u)' \/ u \in cutShort'
  BY <1>1, <1>4 DEF Linking
<1>7. LinksInv'
  BY <1>2, <1>5, <1>6 DEF PairingInv, LinksInv
<1>8. QED
  BY <1>3, <1>7 DEF PairingInv

LEMMA NextPairing == TypeInv /\ PairingInv /\ [Next]_vars => PairingInv'
<1> SUFFICES ASSUME RowsTypeOK, RequestInv, PairingInv, [Next]_vars PROVE PairingInv'
  BY DEF TypeInv
<1> USE DEF keyVars, codeVars, historyVars
<1>1. ASSUME NEW r \in Requests, NEW op \in Operations, NEW by \in Users \union Keys,
             Begin(r, op, by)
      PROVE  PairingInv'
  <2>1. PICK q : q.step # "link" /\ request' = [request EXCEPT ![r] = q]
    BY <1>1 DEF Begin
  <2>2. request[r].step # "link" /\ UNCHANGED <<codeNode, codeUser, link, paired, cutShort>>
    BY <1>1 DEF Begin, Idle
  <2>3. QED
    BY <2>1, <2>2, PairingUndisturbed
<1>2. ASSUME NEW r \in Requests, NEW n \in Nodes, Register(r, n) PROVE PairingInv'
  <2>1. PICK q : q.step # "link" /\ request' = [request EXCEPT ![r] = q]
    BY <1>2 DEF Register
  <2>2. request[r].step # "link" /\ UNCHANGED <<codeNode, codeUser, link, paired, cutShort>>
    BY <1>2 DEF Register, Idle
  <2>3. QED
    BY <2>1, <2>2, PairingUndisturbed
<1>3. ASSUME NEW r \in Requests, Lookup(r) PROVE PairingInv'
  <2>1. /\ request[r].step = "lookup" /\ request[r] \in Authenticated
        /\ UNCHANGED <<codeNode, codeUser, link, paired, cutShort>>
    BY <1>3, RequestKinds DEF Lookup, At
  <2>2. PICK q : q.step # "link" /\ request' = [request EXCEPT ![r] = q]
    <3>1. ASSUME NEW u, NEW step \in {"act", "touch"},
                 request' = [request EXCEPT ![r].user = u, ![r].step = step]
          PROVE  \E q : q.step # "link" /\ request' = [request EXCEPT ![r] = q]
      <4> DEFINE q == [request[r] EXCEPT !.user = u, !.step = step]
      <4>1. request' = [request EXCEPT ![r] = q]
        BY <3>1 DEF RequestInv
      <4>2. q.step # "link"
        BY <2>1 DEF Authenticated
      <4> HIDE DEF q
      <4>3. QED
        BY <4>1, <4>2
    <3>2. CASE Answered(r)
      <4>1. Idle.step # "link"
        BY DEF Idle
      <4>2. QED
        BY <3>2, <4>1 DEF Answered
    <3>3. QED
      BY <1>3, <3>1, <3>2 DEF Lookup
  <2>3. QED
    BY <2>1, <2>2, PairingUndisturbed
<1>4. ASSUME NEW r \in Requests, NEW step, Awaits(r, step), step # "link",
             request[r].step \notin {"none", "link"},
             UNCHANGED <<codeNode, codeUser, link, paired, cutShort>>
      PROVE  PairingInv'
  <2> DEFINE q == [request[r] EXCEPT !.step = step]
  <2>1. request' = [request EXCEPT ![r] = q]
    BY <1>4 DEF Awaits
  <2>2. request[r] \in Authenticated \union Registration
    BY <1>4 DEF RequestInv, Idle
  <2>3. q.step # "link"
    BY <1>4, <2>2 DEF Authenticated, Registration
  <2> HIDE DEF q
  <2>4. QED
    BY <1>4, <2>1, <2>3, PairingUndisturbed
<1>5. ASSUME NEW r \in Requests, Touch(r) PROVE PairingInv'
  <2>1. /\ request[r].step = "touch" /\ Awaits(r, "act")
        /\ UNCHANGED <<codeNode, codeUser, link, paired, cutShort>>
    BY <1>5 DEF Touch, At
  <2>2. "act" # "link" /\ request[r].step \notin {"none", "link"}
    BY <2>1
  <2>3. QED
    BY <1>4, <2>1, <2>2
<1>6. ASSUME NEW r \in Requests, Submit(r) \/ CreateApiKey(r) \/ RevokeApiKey(r)
      PROVE  PairingInv'
  <2>1. /\ request[r].step # "link" /\ Answered(r)
        /\ UNCHANGED <<codeNode, codeUser, link, paired, cutShort>>
    BY <1>6 DEF Submit, CreateApiKey, RevokeApiKey, Does, At
  <2>2. QED
    BY <2>1, AnsweredPairing
<1>7. ASSUME NEW r \in Requests, UsePairingCode(r) PROVE PairingInv'
  <2> DEFINE c == request[r].op[2]
  <2>1. At(r, "act") /\ request[r] \in Authenticated /\ c \in Codes
    BY <1>7, RequestKinds, PairOperation DEF UsePairingCode, Does, Authenticated
  <2>2. CASE request[r].user \in Providers /\ Usable(c)
    <3>1. /\ codeUser' = [codeUser EXCEPT ![c] = request[r].user] /\ Awaits(r, "link")
          /\ UNCHANGED <<codeNode, link, paired, cutShort>>
      BY <1>7, <2>2 DEF UsePairingCode
    <3>2. QED
      BY <2>1, <2>2, <3>1, CodeUsed
  <2>3. CASE ~(request[r].user \in Providers /\ Usable(c))
    <3>1. Answered(r) /\ UNCHANGED <<codeNode, codeUser, link, paired, cutShort>>
      BY <1>7, <2>3 DEF UsePairingCode
    <3>2. QED
      BY <2>1, <3>1, AnsweredPairing DEF At
  <2>4. QED
    BY <2>2, <2>3
<1>8. ASSUME NEW r \in Requests, LinkNodeToUser(r) PROVE PairingInv'
  BY <1>8, NodeLinked
<1>9. ASSUME NEW r \in Requests, IsNodePaired(r) \/ GetUnusedPairingCode(r)
      PROVE  PairingInv'
  <2>1. /\ request[r].step \in {"isNodePaired", "getUnused"}
        /\ Answered(r) \/ Awaits(r, "getUnused") \/ Awaits(r, "createCode")
        /\ UNCHANGED <<codeNode, codeUser, link, paired, cutShort>>
    BY <1>9 DEF IsNodePaired, GetUnusedPairingCode, At
  <2>2. /\ request[r].step \notin {"none", "link"}
        /\ "getUnused" # "link" /\ "createCode" # "link"
    BY <2>1
  <2>3. QED
    BY <1>4, <2>1, <2>2, AnsweredPairing
<1>10. ASSUME NEW r \in Requests, CreatePairingCode(r) PROVE PairingInv'
  <2>1. PICK c \in Codes :
          codeNode[c] = NoNode /\ codeNode' = [codeNode EXCEPT ![c] = request[r].node]
    BY <1>10 DEF CreatePairingCode
  <2>2. \A d \in Codes : codeNode[d] # NoNode => codeNode'[d] = codeNode[d]
    BY <2>1 DEF RowsTypeOK
  <2>3. request[r].step # "link" /\ UNCHANGED <<codeUser, link, paired, cutShort>>
    BY <1>10 DEF CreatePairingCode, At
  <2>4. \A s \in Requests : request'[s] = IF s = r THEN Idle ELSE request[s]
    BY <1>10 DEF CreatePairingCode, Answered, RequestInv
  <2>5. CodesInv'
    BY <2>2, <2>3, <2>4 DEF PairingInv, CodesInv, Idle
  <2>6. \A u \in Users : Linking(u) => Linking(u)'
    BY <2>3, <2>4 DEF Linking
  <2>7. LinksInv'
    BY <2>2, <2>3, <2>6 DEF PairingInv, LinksInv
  <2>8. QED
    BY <2>5, <2>7 DEF PairingInv
<1>11. ASSUME NEW r \in Requests, Fail(r) PROVE PairingInv'
  BY <1>11, RequestsEnded DEF Fail
<1>12. ASSUME Restart PROVE PairingInv'
  BY <1>12, RequestsEnded DEF Restart
<1>13. CASE (\E c \in Codes : CodeExpires(c)) \/ UNCHANGED vars
  <2>1. UNCHANGED <<codeNode, codeUser, link, request, paired, cutShort>>
    BY <1>13 DEF CodeExpires, vars
  <2>2. QED
    BY <2>1 DEF PairingInv, CodesInv, LinksInv, Linking
<1>14. QED
  BY <1>1, <1>2, <1>3, <1>5, <1>6, <1>7, <1>8, <1>9, <1>10, <1>11, <1>12, <1>13 DEF Next

LEMMA PairingInvKept ==
  ASSUME PairingInv PROVE PairingKept
<1>1. \A p, q \in paired : p[1] = q[1] => p[2] = q[2]
  BY DEF PairingInv, CodesInv
<1>2. ASSUME NEW u \in Users, link[u] # NoNode
      PROVE  link[u] \in {codeNode[c] : c \in {d \in Codes : codeUser[d] = u}}
  BY <1>2 DEF PairingInv, LinksInv
<1>3. ASSUME NEW u \in Users, link[u] = NoNode
      PROVE  /\ \A p \in paired : p[2] # u
             /\ {codeNode[c] : c \in {d \in Codes : codeUser[d] = u}} # {} =>
                  \/ \E r \in Requests : At(r, "link") /\ request[r].user = u
                  \/ u \in cutShort
  <2>1. Linking(u) => \E r \in Requests : At(r, "link") /\ request[r].user = u
    BY DEF Linking, At, Idle
  <2>2. QED
    BY <1>3, <2>1 DEF PairingInv, LinksInv
<1>4. QED
  BY <1>1, <1>2, <1>3 DEF PairingKept

(* One statement decides whose a code is, and the other only ever follows  *)
(* it: a link without its code, or a pairing answered without its link, no *)
(* interleaving of requests, registrations and ends can bring about.       *)
THEOREM PairingAlwaysKept == Spec => []PairingKept
<1>1. Init => TypeInv /\ PairingInv
  BY CredentialsAssumption
  DEF Init, TypeInv, RowsTypeOK, RequestInv, Sound, Idle, PairingInv, CodesInv, LinksInv
<1>2. QED
  BY <1>1, NextTypeInv, NextPairing, PairingInvKept, PTL DEF Spec
=============================================================================
