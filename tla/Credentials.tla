----------------------------- MODULE Credentials -----------------------------
(***************************************************************************)
(* API keys and the pairing of nodes: requests authenticated by a session  *)
(* or a key, the keys they make and revoke, the codes that registrations   *)
(* of a node leave behind and the accounts that use them.                  *)
(*                                                                         *)
(* A request is suspended at every statement; others run in between, and   *)
(* it may end, with an error or the process, at any of them.               *)
(***************************************************************************)
EXTENDS Naturals

CONSTANTS
  Users,      \* accounts with a valid session, see module Sessions
  Providers,  \* those of role NODE_PROVIDER or ADMIN
  Keys,       \* bound: API keys ever made
  Nodes,
  Codes,      \* bound: pairing codes ever made, all different
  Requests,   \* bound: requests and registrations under way at a time
  NoUser, NoNode

ASSUME CredentialsAssumption ==
  /\ Providers \subseteq Users /\ NoUser \notin Users /\ NoNode \notin Nodes
  /\ Users \intersect Keys = {}

VARIABLES
  keyOwner,   \* key -> api_keys.user_id, NoUser without a row
  revoked,    \* the keys with is_revoked
  codeNode,   \* code -> pairing_codes.node_id, NoNode without a row
  codeUser,   \* code -> pairing_codes.user_id, NoUser while it is not used
  expired,    \* the codes whose 24 hours are over
  link,       \* user -> users.linked_node_id
  request,    \* slot -> the request that has it
  withdrawn,  \* history: keys whose revocation was executed
  paired,     \* history: pairings answered with success, code and user
  cutShort    \* history: users whose pairing ended between its statements

keyVars     == <<keyOwner, revoked>>
codeVars    == <<codeNode, codeUser, expired>>
historyVars == <<withdrawn, paired, cutShort>>
vars == <<keyVars, codeVars, link, request, historyVars>>

Idle == [step |-> "none"]

At(r, step) == request[r] # Idle /\ request[r].step = step

Operations == {<<"submit", 0>>, <<"create", 0>>}
           \union {<<"revoke", k>> : k \in Keys} \union {<<"pair", c>> : c \in Codes}

(* late: the key had been revoked before the request began. *)
TypeOK ==
  /\ keyOwner \in [Keys -> Users \union {NoUser}]
  /\ revoked \subseteq Keys
  /\ codeNode \in [Codes -> Nodes \union {NoNode}]
  /\ codeUser \in [Codes -> Users \union {NoUser}]
  /\ expired \subseteq Codes
  /\ link \in [Users -> Nodes \union {NoNode}]
  /\ request \in [Requests ->
       {Idle} \union [step : {"lookup", "touch", "act", "link"}, op : Operations,
                      by : Users \union Keys, late : BOOLEAN, user : Users \union {NoUser}]
              \union [step : {"isNodePaired", "getUnused", "createCode"}, node : Nodes]]
  /\ \A r \in Requests : At(r, "act") \/ At(r, "link") => request[r].user \in Users

Init ==
  /\ keyOwner = [k \in Keys |-> NoUser] /\ revoked = {}
  /\ codeNode = [c \in Codes |-> NoNode] /\ codeUser = [c \in Codes |-> NoUser]
  /\ expired = {}
  /\ link = [u \in Users |-> NoNode]
  /\ request = [r \in Requests |-> Idle]
  /\ withdrawn = {} /\ paired = {} /\ cutShort = {}

Answered(r) == request' = [request EXCEPT ![r] = Idle]

Awaits(r, step) == request' = [request EXCEPT ![r].step = step]

-----------------------------------------------------------------------------
(* authenticateRequest *)

(* A request with the session of a user, or with a key *)
Begin(r, op, by) ==
  /\ request[r] = Idle
  /\ by \in Keys => keyOwner[by] # NoUser
  /\ request' = [request EXCEPT ![r] =
       [step |-> "lookup", op |-> op, by |-> by,
        late |-> by \in withdrawn, user |-> NoUser]]
  /\ UNCHANGED <<keyVars, codeVars, link, historyVars>>

(* getUserById, or the first statement of getApiKeyByHash; keys have no    *)
(* expires_at.                                                             *)
Lookup(r) ==
  LET by == request[r].by
      as(u, step) == request' = [request EXCEPT ![r].user = u, ![r].step = step]
  IN  /\ At(r, "lookup")
      /\ IF by \in Users THEN as(by, "act")
         ELSE IF by \in revoked THEN Answered(r)
         ELSE as(keyOwner[by], "touch")
      /\ UNCHANGED <<keyVars, codeVars, link, historyVars>>

(* Mutant: the record that was read is written back. *)
TouchRecord(r) ==
  /\ At(r, "touch")
  /\ Awaits(r, "act")
  /\ revoked' = revoked \ {request[r].by}
  /\ UNCHANGED <<keyOwner, codeVars, link, historyVars>>

(* last_used_at, which nothing decides by *)
Touch(r) ==
  /\ At(r, "touch")
  /\ Awaits(r, "act")
  /\ UNCHANGED <<keyVars, codeVars, link, historyVars>>

Does(r, op) == At(r, "act") /\ request[r].op[1] = op

(* Whatever an authenticated request does elsewhere, POST /api/task e.g. *)
Submit(r) ==
  /\ Does(r, "submit")
  /\ Answered(r)
  /\ UNCHANGED <<keyVars, codeVars, link, historyVars>>

-----------------------------------------------------------------------------
(* API keys *)

(* The key is new, whatever happened to the one the request came with. *)
CreateApiKey(r) ==
  /\ Does(r, "create")
  /\ \E k \in Keys :
       keyOwner[k] = NoUser /\ keyOwner' = [keyOwner EXCEPT ![k] = request[r].user]
  /\ Answered(r)
  /\ UNCHANGED <<revoked, codeVars, link, historyVars>>

(* One UPDATE, of the key of that user only: else 404. *)
RevokeApiKey(r) ==
  LET k    == request[r].op[2]
      rows == IF keyOwner[k] = request[r].user THEN {k} ELSE {}
  IN  /\ Does(r, "revoke")
      /\ revoked' = revoked \union rows
      /\ withdrawn' = withdrawn \union rows
      /\ Answered(r)
      /\ UNCHANGED <<keyOwner, codeVars, link, paired, cutShort>>

-----------------------------------------------------------------------------
(* POST /api/auth/pair-node *)

Usable(c) == codeNode[c] # NoNode /\ codeUser[c] = NoUser /\ c \notin expired

(* Mutant: whether the code is used is not part of the UPDATE. *)
UsePairingCodeAgain(r) ==
  LET c == request[r].op[2]
  IN  /\ Does(r, "pair")
      /\ IF request[r].user \in Providers /\ codeNode[c] # NoNode /\ c \notin expired
         THEN codeUser' = [codeUser EXCEPT ![c] = request[r].user] /\ Awaits(r, "link")
         ELSE UNCHANGED codeUser /\ Answered(r)
      /\ UNCHANGED <<keyVars, codeNode, expired, link, historyVars>>

(* One UPDATE decides whose the code is: else 403, or 400. *)
UsePairingCode(r) ==
  LET c == request[r].op[2]
  IN  /\ Does(r, "pair")
      /\ IF request[r].user \in Providers /\ Usable(c)
         THEN codeUser' = [codeUser EXCEPT ![c] = request[r].user] /\ Awaits(r, "link")
         ELSE UNCHANGED codeUser /\ Answered(r)
      /\ UNCHANGED <<keyVars, codeNode, expired, link, historyVars>>

(* linkNodeToUser: the last node to be linked is the one that stays. *)
LinkNodeToUser(r) ==
  LET c == request[r].op[2]
      u == request[r].user
  IN  /\ At(r, "link")
      /\ link' = [link EXCEPT ![u] = codeNode[c]]
      /\ paired' = paired \union {<<c, u>>}
      /\ Answered(r)
      /\ UNCHANGED <<keyVars, codeVars, withdrawn, cutShort>>

-----------------------------------------------------------------------------
(* The end of handleNodeRegister: a node that is not paired is told a code *)

Register(r, n) ==
  /\ request[r] = Idle
  /\ request' = [request EXCEPT ![r] = [step |-> "isNodePaired", node |-> n]]
  /\ UNCHANGED <<keyVars, codeVars, link, historyVars>>

IsNodePaired(r) ==
  /\ At(r, "isNodePaired")
  /\ IF \E c \in Codes : codeNode[c] = request[r].node /\ codeUser[c] # NoUser
     THEN Answered(r) ELSE Awaits(r, "getUnused")
  /\ UNCHANGED <<keyVars, codeVars, link, historyVars>>

GetUnusedPairingCode(r) ==
  /\ At(r, "getUnused")
  /\ IF \E c \in Codes : codeNode[c] = request[r].node /\ Usable(c)
     THEN Answered(r) ELSE Awaits(r, "createCode")
  /\ UNCHANGED <<keyVars, codeVars, link, historyVars>>

CreatePairingCode(r) ==
  /\ At(r, "createCode")
  /\ \E c \in Codes :
       codeNode[c] = NoNode /\ codeNode' = [codeNode EXCEPT ![c] = request[r].node]
  /\ Answered(r)
  /\ UNCHANGED <<keyVars, codeUser, expired, link, historyVars>>

CodeExpires(c) ==
  /\ Usable(c) /\ expired' = expired \union {c}
  /\ UNCHANGED <<keyVars, codeNode, codeUser, link, request, historyVars>>

-----------------------------------------------------------------------------
(* A statement fails, or the process ends, and with it what it waited for. *)
EndShort(R) ==
  /\ R # {} /\ \A r \in R : request[r] # Idle
  /\ request' = [r \in Requests |-> IF r \in R THEN Idle ELSE request[r]]
  /\ cutShort' = cutShort \union {request[r].user : r \in {q \in R : At(q, "link")}}
  /\ UNCHANGED <<keyVars, codeVars, link, withdrawn, paired>>

Fail(r) == EndShort({r})

Restart == EndShort({r \in Requests : request[r] # Idle})

Next ==
  \/ \E r \in Requests :
       \/ \E op \in Operations, by \in Users \union Keys : Begin(r, op, by)
       \/ \E n \in Nodes : Register(r, n)
       \/ Lookup(r) \/ Touch(r) \/ Submit(r) \/ CreateApiKey(r) \/ RevokeApiKey(r)
       \/ UsePairingCode(r) \/ LinkNodeToUser(r)
       \/ IsNodePaired(r) \/ GetUnusedPairingCode(r) \/ CreatePairingCode(r)
       \/ Fail(r)
  \/ \E c \in Codes : CodeExpires(c)
  \/ Restart

Spec == Init /\ [][Next]_vars

-----------------------------------------------------------------------------
(* Once a revocation was executed, no request that begins with the key is  *)
(* authenticated, whatever requests with the key are still under way       *)
(* (middleware.ts:171, queries.ts:708).                                    *)
RevocationHolds ==
  \A r \in Requests : At(r, "touch") \/ At(r, "act") \/ At(r, "link") =>
    ~request[r].late

(* A code pairs one user, and a user with the code of a node has a node: a *)
(* link is always the node of one of the user's codes, and it is there     *)
(* when a pairing was answered with success, or all of them went through   *)
(* both of their statements (auth.ts:465).                                 *)
PairingKept ==
  /\ \A p, q \in paired : p[1] = q[1] => p[2] = q[2]
  /\ \A u \in Users :
       LET nodes == {codeNode[c] : c \in {d \in Codes : codeUser[d] = u}}
           linking == \E r \in Requests : At(r, "link") /\ request[r].user = u
       IN  /\ link[u] # NoNode => link[u] \in nodes
           /\ link[u] = NoNode =>
                /\ \A p \in paired : p[2] # u
                /\ nodes # {} => linking \/ u \in cutShort
=============================================================================
