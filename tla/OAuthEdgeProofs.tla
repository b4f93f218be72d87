--------------------------- MODULE OAuthEdgeProofs ---------------------------
(***************************************************************************)
(* Proofs of OAuthEdge's properties for every set of clients, subjects,    *)
(* codes and tokens, and every life time of them.                          *)
(***************************************************************************)
EXTENDS OAuthEdge, TLAPS

\* A step, action by action.
StepCases ==
    \/ \E c \in Client, uris \in SUBSET Redirect : RegisterClient(c, uris)
    \/ \E k \in Code, c \in Client, uri \in Redirect, v \in Verifier, sub \in Sub :
          Authorize(k, c, uri, v, sub)
    \/ \E k \in Code, c \in Client, uri \in Redirect, v \in Verifier :
          ExchangeCode(k, c, uri, v)
    \/ \E r \in Refresh, c \in Client : RotateRefresh(r, c)
    \/ DenySubject
    \/ \E t \in Access : IssueAccess(t)
    \/ \E r \in Refresh : IssueRefresh(r)
    \/ \E t \in Access : RevokeAccess(t)
    \/ \E r \in Refresh : RevokeRefresh(r)
    \/ \E t \in Access : Admit(t)
    \/ Respond
    \/ \E sub \in Sub, b \in Bearer : AddClient(sub, b)
    \/ \E sub \in Sub : RevokeClient(sub)
    \/ EdgeCrash
    \/ Second
    \/ UNCHANGED edgeVars

\* A step is one of a few kinds, each of one handler or of the surroundings.
LEMMA Cases == [EdgeNext]_edgeVars => StepCases
BY Zenon DEF EdgeNext, StepCases

\* Rows keep their types through every action.
LEMMA TypeStep ==
    ASSUME EdgeTypeOK, [EdgeNext]_edgeVars
    PROVE  EdgeTypeOK'
<1> USE TtlAssumption, LastTickAssumption DEF EdgeTypeOK
<1>1. ASSUME NEW c \in Client, NEW uris \in SUBSET Redirect, RegisterClient(c, uris)
      PROVE  EdgeTypeOK'
  BY <1>1 DEF RegisterClient
<1>2. ASSUME NEW k \in Code, NEW c \in Client, NEW uri \in Redirect, NEW v \in Verifier,
             NEW sub \in Sub, Authorize(k, c, uri, v, sub)
      PROVE  EdgeTypeOK'
  <2>1. [client |-> c, sub |-> sub, redirect |-> uri, challenge |-> v,
         expires |-> time + CodeTtl, used |-> FALSE] \in CodeRow
    BY DEF CodeRow
  <2> QED BY <1>2, <2>1 DEF Authorize
<1>3. ASSUME NEW k \in Code, NEW c \in Client, NEW uri \in Redirect, NEW v \in Verifier,
             ExchangeCode(k, c, uri, v)
      PROVE  EdgeTypeOK'
  <2>1. codes[k] \in CodeRow BY <1>3 DEF ExchangeCode, Redeemable
  <2>2. [codes[k] EXCEPT !.used = TRUE] \in CodeRow BY <2>1 DEF CodeRow
  <2>3. [client |-> c, sub |-> codes[k].sub, root |-> k, next |-> "access"] \in Grant
    BY <2>1 DEF CodeRow, Grant
  <2> QED BY <1>3, <2>2, <2>3 DEF ExchangeCode
<1>4. ASSUME NEW r \in Refresh, NEW c \in Client, RotateRefresh(r, c)
      PROVE  EdgeTypeOK'
  <2>1. refresh[r] \in TokenRow BY <1>4 DEF RotateRefresh, Rotatable, Live
  <2>2. [refresh[r] EXCEPT !.revoked = TRUE] \in TokenRow BY <2>1 DEF TokenRow
  <2>3. [client |-> c, sub |-> refresh[r].sub, root |-> refresh[r].root,
         next |-> "access"] \in Grant
    BY <2>1 DEF TokenRow, Grant
  <2> QED BY <1>4, <2>2, <2>3 DEF RotateRefresh
<1>5. ASSUME DenySubject PROVE EdgeTypeOK'
  BY <1>5 DEF DenySubject
<1>6. ASSUME NEW t \in Access, IssueAccess(t) PROVE EdgeTypeOK'
  <2>1. busy \in Grant BY <1>6 DEF IssueAccess
  <2>2. Token(busy, AccessTtl) \in TokenRow BY <2>1 DEF Token, TokenRow, Grant
  <2>3. [busy EXCEPT !.next = "refresh"] \in Grant BY <2>1 DEF Grant
  <2> QED BY <1>6, <2>2, <2>3 DEF IssueAccess
<1>7. ASSUME NEW r \in Refresh, IssueRefresh(r) PROVE EdgeTypeOK'
  <2>1. busy \in Grant BY <1>7 DEF IssueRefresh
  <2>2. Token(busy, RefreshTtl) \in TokenRow BY <2>1 DEF Token, TokenRow, Grant
  <2> QED BY <1>7, <2>2 DEF IssueRefresh
<1>8. ASSUME NEW t \in Access, RevokeAccess(t) PROVE EdgeTypeOK'
  <2>1. access[t] \in TokenRow BY <1>8 DEF RevokeAccess
  <2>2. [access[t] EXCEPT !.revoked = TRUE] \in TokenRow BY <2>1 DEF TokenRow
  <2> QED BY <1>8, <2>2 DEF RevokeAccess
<1>9. ASSUME NEW r \in Refresh, RevokeRefresh(r) PROVE EdgeTypeOK'
  <2>1. refresh[r] \in TokenRow BY <1>9 DEF RevokeRefresh
  <2>2. /\ [refresh[r] EXCEPT !.revoked = TRUE] \in TokenRow
        /\ refresh[r].root \in Code
    BY <2>1 DEF TokenRow
  <2> QED BY <1>9, <2>2 DEF RevokeRefresh
<1>10. ASSUME NEW t \in Access, Admit(t) PROVE EdgeTypeOK'
  <2>1. access[t].sub \in Sub BY <1>10 DEF Admit, Valid, TokenRow
  <2> QED BY <1>10, <2>1 DEF Admit
<1>11. ASSUME Respond PROVE EdgeTypeOK'
  BY <1>11 DEF Respond
<1>12. ASSUME NEW sub \in Sub, NEW b \in Bearer, AddClient(sub, b) PROVE EdgeTypeOK'
  BY <1>12 DEF AddClient
<1>13. ASSUME NEW sub \in Sub, RevokeClient(sub) PROVE EdgeTypeOK'
  BY <1>13 DEF RevokeClient
<1>14. ASSUME EdgeCrash PROVE EdgeTypeOK'
  BY <1>14 DEF EdgeCrash
<1>15. ASSUME Second PROVE EdgeTypeOK'
  BY <1>15 DEF Second
<1>16. ASSUME UNCHANGED edgeVars PROVE EdgeTypeOK'
  BY <1>16 DEF edgeVars
<1> QED
  BY Cases, <1>1, <1>2, <1>3, <1>4, <1>5, <1>6, <1>7, <1>8, <1>9, <1>10, <1>11, <1>12,
     <1>13, <1>14, <1>15, <1>16 DEF StepCases

\* The edge's rows are well typed for ever.
THEOREM EdgeTypeCorrect == EdgeSpec => []EdgeTypeOK
<1>1. EdgeInit => EdgeTypeOK
  BY LastTickAssumption DEF EdgeInit, EdgeTypeOK
<1>2. EdgeTypeOK /\ [EdgeNext]_edgeVars => EdgeTypeOK'
  BY TypeStep
<1> QED BY <1>1, <1>2, PTL DEF EdgeSpec

-----------------------------------------------------------------------------
(* Tokens stay with the client and subject of their code.  The request     *)
(* that has consumed one and not yet issued the next carries them across.  *)

RequestApproved == busy # Idle => Approved(busy)
Kept == EdgeTypeOK /\ TokensStayWithTheirClient /\ RequestApproved

\* A code row, once written, keeps its client and subject.
LEMMA CodesKeep ==
    ASSUME EdgeTypeOK, [EdgeNext]_edgeVars, NEW k \in Code, codes[k] # NoRow
    PROVE  /\ codes'[k] = codes[k] \/ codes'[k] = [codes[k] EXCEPT !.used = TRUE]
           /\ codes[k] \in CodeRow
<1>1. codes[k] \in CodeRow
  BY DEF EdgeTypeOK
<1>2. codes \in [Code -> CodeRow \cup {NoRow}]
  BY DEF EdgeTypeOK
<1>3. StepCases
  BY Cases
<1> QED
  BY <1>1, <1>2, <1>3
  DEF StepCases, RegisterClient, Authorize, ExchangeCode, RotateRefresh, DenySubject,
      IssueAccess, IssueRefresh, RevokeAccess, RevokeRefresh, Admit, Respond, AddClient,
      RevokeClient, EdgeCrash, Second, edgeVars

\* What is approved stays so: a row with the client, subject and root of an
\* approved one is approved after any step.
LEMMA ApprovalKeeps ==
    ASSUME EdgeTypeOK, [EdgeNext]_edgeVars,
           NEW old, NEW new,
           old.root \in Code, Approved(old),
           new.root = old.root, new.client = old.client, new.sub = old.sub
    PROVE  /\ codes'[new.root] # NoRow
           /\ new.client = codes'[new.root].client
           /\ new.sub = codes'[new.root].sub
<1>1. codes[old.root] # NoRow BY DEF Approved
<1>2. /\ codes[old.root] \in CodeRow
      /\ \/ codes'[old.root] = codes[old.root]
         \/ codes'[old.root] = [codes[old.root] EXCEPT !.used = TRUE]
  BY <1>1, CodesKeep
<1>3. codes'[old.root] \in CodeRow /\ codes'[old.root].client = codes[old.root].client
      /\ codes'[old.root].sub = codes[old.root].sub
  BY <1>2 DEF CodeRow
<1> QED BY <1>1, <1>3, RowAssumption DEF Approved

\* Where the tokens and the request of the next state come from: each has the
\* client, subject and root of a row or a request of this state, or is the
\* request that has just redeemed its code.
SameGrant(x, y) == x.root = y.root /\ x.client = y.client /\ x.sub = y.sub

\* A new access token belongs to the grant of the request between its commits.
LEMMA AccessOrigin ==
    ASSUME EdgeTypeOK, [EdgeNext]_edgeVars, NEW t \in Access, access'[t] # NoRow
    PROVE  \/ access[t] # NoRow /\ SameGrant(access'[t], access[t])
           \/ busy # Idle /\ SameGrant(access'[t], busy)
<1>1. StepCases BY Cases
<1>2. CASE \E u \in Access : IssueAccess(u)
  BY <1>2 DEF IssueAccess, Token, SameGrant, EdgeTypeOK
<1>3. CASE \E u \in Access : RevokeAccess(u)
  <2>1. access[t] # NoRow BY <1>3 DEF RevokeAccess, EdgeTypeOK
  <2>2. access[t] \in TokenRow BY <2>1 DEF EdgeTypeOK
  <2> QED BY <1>3, <2>1, <2>2 DEF RevokeAccess, SameGrant, EdgeTypeOK, TokenRow
<1>4. CASE access' = access
  BY <1>4 DEF SameGrant
<1> QED
  BY <1>1, <1>2, <1>3, <1>4
  DEF StepCases, RegisterClient, Authorize, ExchangeCode, RotateRefresh, DenySubject,
      IssueRefresh, RevokeRefresh, Admit, Respond, AddClient,
      RevokeClient, EdgeCrash, Second, edgeVars

\* A new refresh token belongs to the grant of the request between its commits.
LEMMA RefreshOrigin ==
    ASSUME EdgeTypeOK, [EdgeNext]_edgeVars, NEW r \in Refresh, refresh'[r] # NoRow
    PROVE  \/ refresh[r] # NoRow /\ SameGrant(refresh'[r], refresh[r])
           \/ busy # Idle /\ SameGrant(refresh'[r], busy)
<1>1. StepCases BY Cases
<1>2. CASE \E q \in Refresh : IssueRefresh(q)
  BY <1>2 DEF IssueRefresh, Token, SameGrant, EdgeTypeOK
<1>3. CASE \/ \E q \in Refresh : RevokeRefresh(q)
           \/ \E q \in Refresh, c \in Client : RotateRefresh(q, c)
  <2>1. refresh[r] # NoRow
    BY <1>3 DEF RevokeRefresh, RotateRefresh, Rotatable, Live, EdgeTypeOK
  <2>2. refresh[r] \in TokenRow BY <2>1 DEF EdgeTypeOK
  <2> QED
    BY <1>3, <2>1, <2>2 DEF RevokeRefresh, RotateRefresh, SameGrant, EdgeTypeOK, TokenRow
<1>4. CASE refresh' = refresh
  BY <1>4 DEF SameGrant
<1> QED
  BY <1>1, <1>2, <1>3, <1>4
  DEF StepCases, RegisterClient, Authorize, ExchangeCode, DenySubject,
      IssueAccess, RevokeAccess, Admit, Respond, AddClient,
      RevokeClient, EdgeCrash, Second, edgeVars

\* A request between its commits consumed a code or a refresh token.
LEMMA RequestOrigin ==
    ASSUME EdgeTypeOK, [EdgeNext]_edgeVars, busy' # Idle
    PROVE  \/ busy # Idle /\ SameGrant(busy', busy)
           \/ \E r \in Refresh : refresh[r] # NoRow /\ SameGrant(busy', refresh[r])
           \/ \E k \in Code : /\ codes[k] # NoRow
                             /\ busy'.root = k
                             /\ busy'.client = codes[k].client
                             /\ busy'.sub = codes[k].sub
<1>1. StepCases BY Cases
<1>2. CASE \E k \in Code, c \in Client, uri \in Redirect, v \in Verifier :
              ExchangeCode(k, c, uri, v)
  BY <1>2 DEF ExchangeCode, Redeemable
<1>3. CASE \E r \in Refresh, c \in Client : RotateRefresh(r, c)
  BY <1>3 DEF RotateRefresh, Rotatable, Live, SameGrant
<1>4. CASE \E t \in Access : IssueAccess(t)
  <2>1. busy \in Grant BY <1>4 DEF IssueAccess, EdgeTypeOK
  <2> QED BY <1>4, <2>1 DEF IssueAccess, SameGrant, Grant
<1>5. CASE busy' = busy \/ busy' = Idle
  BY <1>5 DEF SameGrant
<1> QED
  BY <1>1, <1>2, <1>3, <1>4, <1>5
  DEF StepCases, RegisterClient, Authorize, DenySubject,
      IssueRefresh, RevokeAccess, RevokeRefresh, Admit, Respond, AddClient,
      RevokeClient, EdgeCrash, Second, edgeVars

\* No step separates a token from the client and subject of its code.
LEMMA KeptStep ==
    ASSUME Kept, [EdgeNext]_edgeVars
    PROVE  Kept'
<1> USE DEF Kept
<1>1. EdgeTypeOK' BY TypeStep
<1>2. ASSUME NEW t \in Access, access'[t] # NoRow
      PROVE  Approved(access[t])'
  <2>1. CASE access[t] # NoRow /\ SameGrant(access'[t], access[t])
    <3>1. Approved(access[t]) BY <2>1 DEF TokensStayWithTheirClient
    <3>2. access[t].root \in Code BY <2>1 DEF EdgeTypeOK, TokenRow
    <3> QED BY <2>1, <3>1, <3>2, ApprovalKeeps DEF SameGrant, Approved
  <2>2. CASE busy # Idle /\ SameGrant(access'[t], busy)
    <3>1. Approved(busy) BY <2>2 DEF RequestApproved
    <3>2. busy.root \in Code BY <2>2 DEF EdgeTypeOK, Grant
    <3> QED BY <2>2, <3>1, <3>2, ApprovalKeeps DEF SameGrant, Approved
  <2> QED BY <1>2, <2>1, <2>2, AccessOrigin
<1>3. ASSUME NEW r \in Refresh, refresh'[r] # NoRow
      PROVE  Approved(refresh[r])'
  <2>1. CASE refresh[r] # NoRow /\ SameGrant(refresh'[r], refresh[r])
    <3>1. Approved(refresh[r]) BY <2>1 DEF TokensStayWithTheirClient
    <3>2. refresh[r].root \in Code BY <2>1 DEF EdgeTypeOK, TokenRow
    <3> QED BY <2>1, <3>1, <3>2, ApprovalKeeps DEF SameGrant, Approved
  <2>2. CASE busy # Idle /\ SameGrant(refresh'[r], busy)
    <3>1. Approved(busy) BY <2>2 DEF RequestApproved
    <3>2. busy.root \in Code BY <2>2 DEF EdgeTypeOK, Grant
    <3> QED BY <2>2, <3>1, <3>2, ApprovalKeeps DEF SameGrant, Approved
  <2> QED BY <1>3, <2>1, <2>2, RefreshOrigin
<1>4. ASSUME busy' # Idle
      PROVE  Approved(busy)'
  <2>1. CASE busy # Idle /\ SameGrant(busy', busy)
    <3>1. Approved(busy) BY <2>1 DEF RequestApproved
    <3>2. busy.root \in Code BY <2>1 DEF EdgeTypeOK, Grant
    <3> QED BY <2>1, <3>1, <3>2, ApprovalKeeps DEF SameGrant, Approved
  <2>2. ASSUME NEW r \in Refresh, refresh[r] # NoRow, SameGrant(busy', refresh[r])
        PROVE  Approved(busy)'
    <3>1. Approved(refresh[r]) BY <2>2 DEF TokensStayWithTheirClient
    <3>2. refresh[r].root \in Code BY <2>2 DEF EdgeTypeOK, TokenRow
    <3> QED BY <2>2, <3>1, <3>2, ApprovalKeeps DEF SameGrant, Approved
  <2>3. ASSUME NEW k \in Code, codes[k] # NoRow, busy'.root = k,
               busy'.client = codes[k].client, busy'.sub = codes[k].sub
        PROVE  Approved(busy)'
    <3>1. Approved(busy') BY <2>3 DEF Approved
    <3> QED BY <2>3, <3>1, ApprovalKeeps DEF Approved
  <2> QED BY <1>4, <2>1, <2>2, <2>3, RequestOrigin
<1> QED BY <1>1, <1>2, <1>3, <1>4 DEF TokensStayWithTheirClient, RequestApproved

\* No exchange or rotation hands a grant to another client or subject.
THEOREM TokensAreBound == EdgeSpec => []TokensStayWithTheirClient
<1>1. EdgeInit => Kept
  BY LastTickAssumption
  DEF EdgeInit, Kept, EdgeTypeOK, TokensStayWithTheirClient, RequestApproved
<1>2. Kept /\ [EdgeNext]_edgeVars => Kept'
  BY KeptStep
<1>3. Kept => TokensStayWithTheirClient
  BY DEF Kept
<1> QED BY <1>1, <1>2, <1>3, PTL DEF EdgeSpec

-----------------------------------------------------------------------------
(* A grant never forks, and revoking its live token ends it.  The argument *)
(* follows what counts for a grant k: Authorize gives it the code, and     *)
(* nothing had its root before (Kept); every other action at most moves it *)
(* from code to request, request to token, token to request.               *)

CutWasApproved == \A k \in cut : codes[k] # NoRow
Linear == Kept /\ GrantNeverForks /\ CutWasApproved /\ RevocationEndsGrant

\* Nothing counts for a code that was not drawn yet.
LEMMA NothingBefore ==
    ASSUME Kept, CutWasApproved, NEW k \in Code, codes[k] = NoRow
    PROVE  /\ ~RequestCounts(k)
           /\ \A r \in Refresh : ~RefreshCounts(k, r)
           /\ k \notin cut
BY DEF Kept, TokensStayWithTheirClient, RequestApproved, Approved, RequestCounts,
       RefreshCounts, Live, CutWasApproved

\* How what counts for a grant moves in a step.
CodeStays(k) == CodeCounts(k)' => CodeCounts(k)
RequestStays(k) == RequestCounts(k)' => RequestCounts(k)
RefreshStays(k) == \A r \in Refresh : RefreshCounts(k, r)' => RefreshCounts(k, r)
CutStays(k) == k \in cut' => k \in cut

Moves(k) ==
    \/ CodeStays(k) /\ RequestStays(k) /\ RefreshStays(k) /\ CutStays(k)
    \/ /\ codes[k] = NoRow
       /\ RequestStays(k) /\ RefreshStays(k) /\ CutStays(k)
    \/ /\ CodeCounts(k) /\ ~CodeCounts(k)'
       /\ RefreshStays(k) /\ CutStays(k)
    \/ /\ CodeStays(k) /\ CutStays(k) /\ RefreshStays(k)
       /\ \E r \in Refresh : RefreshCounts(k, r) /\ ~RefreshCounts(k, r)'
    \/ /\ CodeStays(k) /\ CutStays(k)
       /\ RequestCounts(k) /\ ~RequestCounts(k)'
       /\ \E r \in Refresh : \A q \in Refresh \ {r} : RefreshCounts(k, q)' => RefreshCounts(k, q)
    \/ /\ CodeStays(k) /\ RequestStays(k) /\ RefreshStays(k)
       /\ \E r \in Refresh : RefreshCounts(k, r) /\ ~RefreshCounts(k, r)'

\* What counts for a grant moves on or disappears; it is never copied.
LEMMA MovesStep ==
    ASSUME Kept, [EdgeNext]_edgeVars, NEW k \in Code
    PROVE  Moves(k)
<1> USE DEF CodeStays, RequestStays, RefreshStays, CutStays, CodeCounts, RequestCounts,
            RefreshCounts, Live
<1>0. EdgeTypeOK BY DEF Kept
<1>1. StepCases BY Cases
<1>2. CASE \E j \in Code, c \in Client, uri \in Redirect, v \in Verifier, sub \in Sub :
              Authorize(j, c, uri, v, sub)
  <2>1. PICK j \in Code, c \in Client, uri \in Redirect, v \in Verifier, sub \in Sub :
             Authorize(j, c, uri, v, sub)
    BY <1>2
  <2>2. j # k => codes'[k] = codes[k]
    BY <1>0, <2>1 DEF Authorize, EdgeTypeOK
  <2> QED BY <2>1, <2>2 DEF Authorize, Moves
<1>3. CASE \E j \in Code, c \in Client, uri \in Redirect, v \in Verifier :
              ExchangeCode(j, c, uri, v)
  <2>1. PICK j \in Code, c \in Client, uri \in Redirect, v \in Verifier :
             ExchangeCode(j, c, uri, v)
    BY <1>3
  <2>2. codes[j] \in CodeRow
    BY <1>0, <2>1 DEF ExchangeCode, Redeemable, EdgeTypeOK
  <2>3. codes'[j].used
    BY <1>0, <2>1, <2>2 DEF ExchangeCode, EdgeTypeOK, CodeRow
  <2>4. j # k => codes'[k] = codes[k]
    BY <1>0, <2>1 DEF ExchangeCode, EdgeTypeOK
  <2>5. busy' # Idle => busy'.root = j
    BY <2>1 DEF ExchangeCode
  <2> QED BY <2>1, <2>3, <2>4, <2>5 DEF ExchangeCode, Redeemable, Moves
<1>4. CASE \E q \in Refresh, c \in Client : RotateRefresh(q, c)
  <2>1. PICK q \in Refresh, c \in Client : RotateRefresh(q, c)
    BY <1>4
  <2>2. refresh[q] \in TokenRow
    BY <1>0, <2>1 DEF RotateRefresh, Rotatable, EdgeTypeOK
  <2>3. refresh'[q].revoked
    BY <1>0, <2>1, <2>2 DEF RotateRefresh, EdgeTypeOK, TokenRow
  <2>4. \A r \in Refresh : r # q => refresh'[r] = refresh[r]
    BY <1>0, <2>1 DEF RotateRefresh, EdgeTypeOK
  <2>5. busy' # Idle => busy'.root = refresh[q].root
    BY <2>1 DEF RotateRefresh
  <2> QED BY <2>1, <2>3, <2>4, <2>5 DEF RotateRefresh, Rotatable, Moves
<1>5. CASE \E t \in Access : IssueAccess(t)
  <2>1. busy \in Grant BY <1>0, <1>5 DEF IssueAccess, EdgeTypeOK
  <2>2. busy'.root = busy.root BY <1>5, <2>1 DEF IssueAccess, Grant
  <2> QED BY <1>5, <2>2 DEF IssueAccess, Moves
<1>6. CASE \E q \in Refresh : IssueRefresh(q)
  <2>1. PICK q \in Refresh : IssueRefresh(q)
    BY <1>6
  <2>2. refresh'[q].root = busy.root
    BY <1>0, <2>1 DEF IssueRefresh, EdgeTypeOK, Token
  <2>3. \A r \in Refresh : r # q => refresh'[r] = refresh[r]
    BY <1>0, <2>1 DEF IssueRefresh, EdgeTypeOK
  <2> QED BY <2>1, <2>2, <2>3 DEF IssueRefresh, Moves
<1>7. CASE \E q \in Refresh : RevokeRefresh(q)
  <2>1. PICK q \in Refresh : RevokeRefresh(q)
    BY <1>7
  <2>2. refresh[q] \in TokenRow
    BY <1>0, <2>1 DEF RevokeRefresh, EdgeTypeOK
  <2>3. refresh'[q].revoked
    BY <1>0, <2>1, <2>2 DEF RevokeRefresh, EdgeTypeOK, TokenRow
  <2>4. \A r \in Refresh : r # q => refresh'[r] = refresh[r]
    BY <1>0, <2>1 DEF RevokeRefresh, EdgeTypeOK
  <2> QED BY <2>1, <2>3, <2>4 DEF RevokeRefresh, Moves
<1>8. CASE UNCHANGED <<codes, refresh, cut>> /\ (busy' = busy \/ busy' = Idle)
  BY <1>8 DEF Moves
<1> QED
  BY <1>1, <1>2, <1>3, <1>4, <1>5, <1>6, <1>7, <1>8
  DEF StepCases, RegisterClient, DenySubject, RevokeAccess, Admit, Respond, AddClient,
      RevokeClient, EdgeCrash, Second, edgeVars

\* What Moves allows keeps a grant linear and a revoked one ended.
LEMMA LinearStep ==
    ASSUME Linear, [EdgeNext]_edgeVars
    PROVE  Linear'
<1> USE DEF Linear
<1>1. Kept' BY KeptStep
<1>2. CutWasApproved'
  <2> SUFFICES ASSUME NEW k \in cut' PROVE codes'[k] # NoRow
    BY DEF CutWasApproved
  <2>1. k \in Code BY <1>1 DEF Kept, EdgeTypeOK
  <2>2. k \in cut \/ \E r \in Refresh : RefreshCounts(k, r)
    BY <2>1, MovesStep DEF Moves, CutStays
  <2>3. codes[k] # NoRow
    BY <2>1, <2>2, NothingBefore
  <2>4. EdgeTypeOK BY DEF Kept
  <2>5. /\ codes[k] \in CodeRow
        /\ codes'[k] = codes[k] \/ codes'[k] = [codes[k] EXCEPT !.used = TRUE]
    BY <2>1, <2>3, <2>4, CodesKeep
  <2>6. codes'[k] \in CodeRow BY <2>5 DEF CodeRow
  <2> QED BY <2>6, RowAssumption
<1>3. ASSUME NEW k \in Code
      PROVE  /\ CodeCounts(k)' => ~RequestCounts(k)'
             /\ \A r \in Refresh :
                   RefreshCounts(k, r)' => /\ ~CodeCounts(k)' /\ ~RequestCounts(k)'
                                          /\ \A q \in Refresh : RefreshCounts(k, q)' => q = r
             /\ k \in cut' => /\ ~CodeCounts(k)' /\ ~RequestCounts(k)'
                              /\ \A r \in Refresh : ~RefreshCounts(k, r)'
  <2>1. Moves(k) BY MovesStep
  <2>2. codes[k] = NoRow => /\ ~RequestCounts(k)
                            /\ \A r \in Refresh : ~RefreshCounts(k, r)
                            /\ k \notin cut
    BY NothingBefore
  <2>3. /\ CodeCounts(k) => ~RequestCounts(k)
        /\ \A r \in Refresh :
              RefreshCounts(k, r) => /\ ~CodeCounts(k) /\ ~RequestCounts(k)
                                     /\ \A q \in Refresh : RefreshCounts(k, q) => q = r
    BY DEF GrantNeverForks
  <2>4. k \in cut => /\ ~CodeCounts(k) /\ ~RequestCounts(k)
                     /\ \A r \in Refresh : ~RefreshCounts(k, r)
    BY DEF RevocationEndsGrant
  <2> QED
    BY <2>1, <2>2, <2>3, <2>4 DEF Moves, CodeStays, RequestStays, RefreshStays, CutStays
<1>4. GrantNeverForks' BY <1>3 DEF GrantNeverForks
<1>5. cut' \subseteq Code BY <1>1 DEF Kept, EdgeTypeOK
<1>6. RevocationEndsGrant' BY <1>3, <1>5 DEF RevocationEndsGrant
<1> QED BY <1>1, <1>2, <1>4, <1>6

\* Before the first code nothing counts for any grant.
LEMMA LinearInit == EdgeInit => Linear
BY LastTickAssumption
DEF EdgeInit, Linear, Kept, EdgeTypeOK, TokensStayWithTheirClient, RequestApproved,
    GrantNeverForks, RevocationEndsGrant, CutWasApproved, CodeCounts, RequestCounts,
    RefreshCounts, Live

\* A code buys one chain of refresh tokens, each spent at most once.
THEOREM GrantsAreLinear == EdgeSpec => []GrantNeverForks
<1>1. Linear => GrantNeverForks
  BY DEF Linear
<1> QED BY <1>1, LinearInit, LinearStep, PTL DEF EdgeSpec

\* A grant whose live refresh token was revoked never yields another.
THEOREM RevocationIsFinal == EdgeSpec => []RevocationEndsGrant
<1>1. Linear => RevocationEndsGrant
  BY DEF Linear
<1> QED BY <1>1, LinearInit, LinearStep, PTL DEF EdgeSpec

\* Every admission uses the bearer the allowlist has for the approved subject.
THEOREM AdmissionFollowsAllowlist == EdgeSpec => AdmittedAsApproved
<1>1. ASSUME Kept, [EdgeNext]_edgeVars, serving' # serving, serving' # NoRequest
      PROVE  serving'.bearer = allowlist[codes[access[serving'.token].root].sub]
  <2>1. StepCases BY <1>1, Cases
  <2>2. \E t \in Access : Admit(t)
    BY <1>1, <2>1
    DEF StepCases, RegisterClient, Authorize, ExchangeCode, RotateRefresh, DenySubject,
        IssueAccess, IssueRefresh, RevokeAccess, RevokeRefresh, Respond, AddClient,
        RevokeClient, EdgeCrash, Second, edgeVars
  <2> QED
    BY <1>1, <2>2 DEF Admit, Valid, Kept, TokensStayWithTheirClient, Approved
<1>2. Kept /\ [EdgeNext]_edgeVars
      => [serving' # serving /\ serving' # NoRequest =>
            serving'.bearer = allowlist[codes[access[serving'.token].root].sub]]_edgeVars
  BY <1>1
<1>3. EdgeInit => Kept
  BY LinearInit DEF Linear
<1>4. Kept /\ [EdgeNext]_edgeVars => Kept'
  BY KeptStep
<1> QED BY <1>2, <1>3, <1>4, PTL DEF EdgeSpec, AdmittedAsApproved

-----------------------------------------------------------------------------
(* The edge implements the life cycle of a grant.  Since a grant is linear *)
(* there is at most one way to go on with it, and an action changes the    *)
(* way of one grant at most.                                               *)

WaysAre ==
    \A k \in Code :
        /\ CodeCounts(k) => Ways(k) = {WayOf("code", codes[k])}
        /\ RequestCounts(k) => Ways(k) = {WayOf("request", busy)}
        /\ \A r \in Refresh : RefreshCounts(k, r) => Ways(k) = {WayOf(r, refresh[r])}
        /\ \/ CodeCounts(k) \/ RequestCounts(k) \/ \E r \in Refresh : RefreshCounts(k, r)
           \/ Ways(k) = {}

LEMMA WaysAreSingle == Linear => WaysAre
<1> SUFFICES ASSUME Linear, NEW k \in Code
             PROVE  /\ CodeCounts(k) => Ways(k) = {WayOf("code", codes[k])}
                    /\ RequestCounts(k) => Ways(k) = {WayOf("request", busy)}
                    /\ \A r \in Refresh : RefreshCounts(k, r) => Ways(k) = {WayOf(r, refresh[r])}
                    /\ \/ CodeCounts(k) \/ RequestCounts(k) \/ \E r \in Refresh : RefreshCounts(k, r)
                       \/ Ways(k) = {}
  BY DEF WaysAre
<1>1. /\ CodeCounts(k) => ~RequestCounts(k)
      /\ \A r \in Refresh :
            RefreshCounts(k, r) => /\ ~CodeCounts(k) /\ ~RequestCounts(k)
                                   /\ \A q \in Refresh : RefreshCounts(k, q) => q = r
  BY DEF Linear, GrantNeverForks
<1>2. ASSUME CodeCounts(k) PROVE Ways(k) = {WayOf("code", codes[k])}
  BY <1>1, <1>2 DEF Ways
<1>3. ASSUME RequestCounts(k) PROVE Ways(k) = {WayOf("request", busy)}
  BY <1>1, <1>3 DEF Ways
<1>4. ASSUME NEW r \in Refresh, RefreshCounts(k, r) PROVE Ways(k) = {WayOf(r, refresh[r])}
  <2>1. {q \in Refresh : RefreshCounts(k, q)} = {r}
    BY <1>1, <1>4
  <2> QED BY <1>1, <1>4, <2>1 DEF Ways
<1>5. ASSUME ~CodeCounts(k), ~RequestCounts(k), \A r \in Refresh : ~RefreshCounts(k, r)
      PROVE  Ways(k) = {}
  BY <1>5 DEF Ways
<1> QED BY <1>2, <1>3, <1>4, <1>5

\* What counts for a grant, and for whom, is not touched.
Untouched(k) ==
    /\ CodeCounts(k)' = CodeCounts(k) /\ codes'[k] = codes[k]
    /\ RequestCounts(k)' = RequestCounts(k)
    /\ RequestCounts(k) => busy'.client = busy.client /\ busy'.sub = busy.sub
    /\ \A r \in Refresh :
          /\ RefreshCounts(k, r)' = RefreshCounts(k, r)
          /\ RefreshCounts(k, r) => refresh'[r] = refresh[r]

LEMMA UntouchedStays ==
    ASSUME WaysAre, WaysAre', NEW k \in Code, Untouched(k)
    PROVE  Ways(k)' = Ways(k)
<1>1. CASE CodeCounts(k)
  <2>1. Ways(k) = {WayOf("code", codes[k])}
    BY <1>1 DEF WaysAre
  <2>2. Ways(k)' = {WayOf("code", codes[k])'}
    BY <1>1 DEF WaysAre, Untouched
  <2>3. WayOf("code", codes[k])' = WayOf("code", codes[k])
    BY DEF WayOf, Untouched
  <2> QED BY <2>1, <2>2, <2>3
<1>2. CASE RequestCounts(k)
  <2>1. Ways(k) = {WayOf("request", busy)}
    BY <1>2 DEF WaysAre
  <2>2. Ways(k)' = {WayOf("request", busy)'}
    BY <1>2 DEF WaysAre, Untouched
  <2>3. WayOf("request", busy)' = WayOf("request", busy)
    BY <1>2 DEF WayOf, Untouched
  <2> QED BY <2>1, <2>2, <2>3
<1>3. ASSUME NEW r \in Refresh, RefreshCounts(k, r) PROVE Ways(k)' = Ways(k)
  <2>1. Ways(k) = {WayOf(r, refresh[r])}
    BY <1>3 DEF WaysAre
  <2>2. Ways(k)' = {WayOf(r, refresh[r])'}
    BY <1>3 DEF WaysAre, Untouched
  <2>3. WayOf(r, refresh[r])' = WayOf(r, refresh[r])
    BY <1>3 DEF WayOf, Untouched
  <2> QED BY <2>1, <2>2, <2>3
<1>4. CASE ~CodeCounts(k) /\ ~RequestCounts(k) /\ \A r \in Refresh : ~RefreshCounts(k, r)
  BY <1>4 DEF WaysAre, Untouched
<1> QED BY <1>1, <1>2, <1>3, <1>4

\* How the abstract state changes when one grant, or none, is touched.
LEMMA OneWayChanges ==
    ASSUME WaysAre, WaysAre', NEW k \in Code, \A j \in Code \ {k} : Untouched(j)
    PROVE  [j \in Code |-> Ways(j)]' = [[j \in Code |-> Ways(j)] EXCEPT ![k] = Ways(k)']
<1>1. \A j \in Code \ {k} : Ways(j)' = Ways(j)
  BY UntouchedStays
<1> QED BY <1>1

LEMMA NoWayChanges ==
    ASSUME WaysAre, WaysAre', \A j \in Code : Untouched(j)
    PROVE  [j \in Code |-> Ways(j)]' = [j \in Code |-> Ways(j)]
<1>1. \A j \in Code : Ways(j)' = Ways(j)
  BY UntouchedStays
<1> QED BY <1>1

\* A code row is never removed, and only Authorize writes a new one.
LEMMA ApprovedStays ==
    ASSUME Linear, [EdgeNext]_edgeVars,
           ~\E k \in Code, c \in Client, uri \in Redirect, v \in Verifier, sub \in Sub :
                 Authorize(k, c, uri, v, sub)
    PROVE  {k \in Code : codes[k] # NoRow}' = {k \in Code : codes[k] # NoRow}
<1>1. EdgeTypeOK
  BY DEF Linear, Kept
<1>2. ASSUME NEW k \in Code, codes[k] # NoRow PROVE codes'[k] # NoRow
  <2>1. /\ codes[k] \in CodeRow
        /\ codes'[k] = codes[k] \/ codes'[k] = [codes[k] EXCEPT !.used = TRUE]
    BY <1>1, <1>2, CodesKeep
  <2>2. codes'[k] \in CodeRow BY <2>1 DEF CodeRow
  <2> QED BY <2>2, RowAssumption
<1>3. ASSUME NEW k \in Code, codes[k] = NoRow PROVE codes'[k] = NoRow
  <2>1. StepCases
    BY Cases
  <2>2. ASSUME NEW j \in Code, NEW c \in Client, NEW uri \in Redirect, NEW v \in Verifier,
               ExchangeCode(j, c, uri, v)
        PROVE  codes'[k] = NoRow
    BY <1>1, <1>3, <2>2 DEF ExchangeCode, Redeemable, EdgeTypeOK
  <2>3. (\E r \in Refresh, c \in Client : RotateRefresh(r, c)) \/ (\E r \in Refresh : IssueRefresh(r))
        \/ (\E r \in Refresh : RevokeRefresh(r))
        => UNCHANGED codes
    BY DEF RotateRefresh, IssueRefresh, RevokeRefresh
  <2>4. (\E t \in Access : IssueAccess(t)) \/ (\E t \in Access : RevokeAccess(t))
        \/ (\E t \in Access : Admit(t))
        => UNCHANGED codes
    BY DEF IssueAccess, RevokeAccess, Admit
  <2>5. (\E c \in Client, uris \in SUBSET Redirect : RegisterClient(c, uris))
        \/ (\E sub \in Sub, b \in Bearer : AddClient(sub, b)) \/ (\E sub \in Sub : RevokeClient(sub))
        => UNCHANGED codes
    BY DEF RegisterClient, AddClient, RevokeClient
  <2>6. DenySubject \/ Respond \/ EdgeCrash \/ Second \/ UNCHANGED edgeVars => UNCHANGED codes
    BY DEF DenySubject, Respond, EdgeCrash, Second, edgeVars
  <2> QED
    BY <1>3, <2>1, <2>2, <2>3, <2>4, <2>5, <2>6 DEF StepCases
<1> QED BY <1>2, <1>3

\* The operator's approval, and nothing else, begins a grant.
LEMMA AuthorizeApproves ==
    ASSUME Linear, WaysAre, WaysAre', NEW k \in Code, NEW c \in Client, NEW uri \in Redirect,
           NEW v \in Verifier, NEW sub \in Sub, Authorize(k, c, uri, v, sub)
    PROVE  Grants!Approve(k)
<1>1. EdgeTypeOK /\ codes[k] = NoRow
  BY DEF Linear, Kept, Authorize
<1>2. /\ codes'[k].client = c /\ codes'[k].sub = sub /\ ~codes'[k].used
      /\ codes'[k] \in CodeRow
      /\ \A j \in Code \ {k} : codes'[j] = codes[j]
  BY <1>1, TtlAssumption, LastTickAssumption DEF Authorize, EdgeTypeOK, CodeRow
<1>3. codes'[k] # NoRow
  BY <1>2, RowAssumption
<1>4. Ways(k) = {}
  BY <1>1, NothingBefore DEF Linear, WaysAre, CodeCounts
<1>5. Ways(k)' = {Grants!Way("code", c, sub)}
  BY <1>2, <1>3 DEF WaysAre, CodeCounts, WayOf, Grants!Way
<1>6. \A j \in Code \ {k} : Untouched(j)
  BY <1>2 DEF Authorize, Untouched, CodeCounts, RequestCounts, RefreshCounts, Live
<1>7. {j \in Code : codes[j] # NoRow}' = {j \in Code : codes[j] # NoRow} \cup {k}
  BY <1>2, <1>3
<1>8. [j \in Code |-> Ways(j)]' = [[j \in Code |-> Ways(j)] EXCEPT ![k] = {Grants!Way("code", c, sub)}]
  BY <1>5, <1>6, OneWayChanges
<1> QED BY <1>1, <1>4, <1>7, <1>8 DEF Grants!Approve

\* The way of the one grant that is touched is passed on ...
LEMMA PassedOn ==
    ASSUME WaysAre, WaysAre', NEW k \in Code, NEW from, NEW to,
           \A j \in Code \ {k} : Untouched(j),
           {j \in Code : codes[j] # NoRow}' = {j \in Code : codes[j] # NoRow},
           \E c \in Client, s \in Sub :
               Ways(k) = {Grants!Way(from, c, s)} /\ Ways(k)' = {Grants!Way(to, c, s)}
    PROVE  Grants!Pass(k, from, to)
<1>1. PICK c \in Client, s \in Sub :
        Ways(k) = {Grants!Way(from, c, s)} /\ Ways(k)' = {Grants!Way(to, c, s)}
  OBVIOUS
<1>2. [j \in Code |-> Ways(j)]' = [[j \in Code |-> Ways(j)] EXCEPT ![k] = {Grants!Way(to, c, s)}]
  BY <1>1, OneWayChanges
<1> QED BY <1>1, <1>2 DEF Grants!Pass, Grants!Way

\* ... or ends.
LEMMA Finished ==
    ASSUME WaysAre, WaysAre', NEW k \in Code,
           \A j \in Code \ {k} : Untouched(j),
           {j \in Code : codes[j] # NoRow}' = {j \in Code : codes[j] # NoRow},
           Ways(k) # {}, Ways(k)' = {}
    PROVE  Grants!Finish(k)
<1>1. [j \in Code |-> Ways(j)]' = [[j \in Code |-> Ways(j)] EXCEPT ![k] = {}]
  BY OneWayChanges
<1> QED BY <1>1 DEF Grants!Finish

LEMMA NothingTouched ==
    ASSUME WaysAre, WaysAre', \A j \in Code : Untouched(j),
           {j \in Code : codes[j] # NoRow}' = {j \in Code : codes[j] # NoRow}
    PROVE  UNCHANGED Grants!grantVars
BY NoWayChanges DEF Grants!grantVars

\* The step of a grant that an action of the edge is.
StepOfGrant(k) ==
    \/ Grants!Approve(k) \/ Grants!Exchange(k) \/ Grants!Finish(k)
    \/ \E r \in Refresh : Grants!Issue(k, r) \/ Grants!Rotate(k, r)

\* Consuming the code turns it into the request, or burns it.
LEMMA ExchangeIsStep ==
    ASSUME Linear, Linear', WaysAre, WaysAre', NEW k \in Code, NEW c \in Client,
           NEW uri \in Redirect, NEW v \in Verifier, ExchangeCode(k, c, uri, v),
           {j \in Code : codes[j] # NoRow}' = {j \in Code : codes[j] # NoRow}
    PROVE  StepOfGrant(k)
<1>1. EdgeTypeOK
  BY DEF Linear, Kept
<1>2. CodeCounts(k) /\ codes[k] \in CodeRow
  BY <1>1 DEF ExchangeCode, Redeemable, CodeCounts, EdgeTypeOK
<1>3. /\ codes'[k].used
      /\ \A j \in Code \ {k} : codes'[j] = codes[j]
  BY <1>1, <1>2 DEF ExchangeCode, EdgeTypeOK, CodeRow
<1>4. \A j \in Code \ {k} : Untouched(j)
  <2>1. busy' # Idle => busy'.root = k
    BY DEF ExchangeCode
  <2> QED
    BY <1>3, <2>1 DEF ExchangeCode, Untouched, CodeCounts, RequestCounts, RefreshCounts, Live
<1>5. Ways(k) = {Grants!Way("code", codes[k].client, codes[k].sub)}
  BY <1>2 DEF WaysAre, WayOf, Grants!Way
<1>6. CASE codes[k].client = c /\ codes[k].redirect = uri /\ codes[k].challenge = v
  <2>1. busy' = [client |-> c, sub |-> codes[k].sub, root |-> k, next |-> "access"]
    BY <1>6 DEF ExchangeCode
  <2>2. RequestCounts(k)'
    BY <2>1, RowAssumption, <1>2 DEF RequestCounts, Grant, CodeRow
  <2>3. Ways(k)' = {Grants!Way("request", codes[k].client, codes[k].sub)}
    BY <1>6, <2>1, <2>2 DEF WaysAre, WayOf, Grants!Way
  <2>4. codes[k].client \in Client /\ codes[k].sub \in Sub
    BY <1>2 DEF CodeRow
  <2>5. Grants!Pass(k, "code", "request")
    BY <1>4, <1>5, <2>3, <2>4, PassedOn
  <2> QED BY <2>5 DEF StepOfGrant, Grants!Exchange
<1>7. CASE ~(codes[k].client = c /\ codes[k].redirect = uri /\ codes[k].challenge = v)
  <2>1. busy' = Idle /\ refresh' = refresh
    BY <1>7 DEF ExchangeCode
  <2>2. ~CodeCounts(k)' /\ ~RequestCounts(k)' /\ \A r \in Refresh : ~RefreshCounts(k, r)'
    <3>1. \A r \in Refresh : ~RefreshCounts(k, r)
      BY <1>2 DEF Linear, GrantNeverForks
    <3> QED BY <1>3, <2>1, <3>1 DEF CodeCounts, RequestCounts, RefreshCounts, Live
  <2>3. Ways(k)' = {}
    BY <2>2 DEF WaysAre
  <2> QED BY <1>4, <1>5, <2>3, Finished DEF StepOfGrant
<1> QED BY <1>6, <1>7

\* Consuming a refresh token turns it into the request, or burns it.
LEMMA RotationIsStep ==
    ASSUME Linear, Linear', WaysAre, WaysAre', NEW r \in Refresh, NEW c \in Client,
           RotateRefresh(r, c),
           {j \in Code : codes[j] # NoRow}' = {j \in Code : codes[j] # NoRow}
    PROVE  \E k \in Code : StepOfGrant(k)
<1>1. EdgeTypeOK
  BY DEF Linear, Kept
<1>2. refresh[r] \in TokenRow /\ refresh[r].root \in Code
  BY <1>1 DEF RotateRefresh, Rotatable, Live, EdgeTypeOK, TokenRow
<1>3. PICK k \in Code : k = refresh[r].root
  BY <1>2
<1>4. RefreshCounts(k, r)
  BY <1>3 DEF RotateRefresh, Rotatable, RefreshCounts
<1>5. /\ refresh'[r].revoked
      /\ \A q \in Refresh \ {r} : refresh'[q] = refresh[q]
  BY <1>1, <1>2 DEF RotateRefresh, EdgeTypeOK, TokenRow
<1>6. \A j \in Code \ {k} : Untouched(j)
  <2>1. busy' # Idle => busy'.root = k
    BY <1>3 DEF RotateRefresh
  <2> QED
    BY <1>3, <1>5, <2>1
    DEF RotateRefresh, Untouched, CodeCounts, RequestCounts, RefreshCounts, Live
<1>7. Ways(k) = {Grants!Way(r, refresh[r].client, refresh[r].sub)}
  BY <1>4 DEF WaysAre, WayOf, Grants!Way
<1>8. CASE refresh[r].client = c
  <2>1. busy' = [client |-> c, sub |-> refresh[r].sub, root |-> k, next |-> "access"]
    BY <1>3, <1>8 DEF RotateRefresh
  <2>2. RequestCounts(k)'
    BY <2>1, RowAssumption, <1>2 DEF RequestCounts, Grant, TokenRow
  <2>3. Ways(k)' = {Grants!Way("request", refresh[r].client, refresh[r].sub)}
    BY <1>8, <2>1, <2>2 DEF WaysAre, WayOf, Grants!Way
  <2>4. refresh[r].client \in Client /\ refresh[r].sub \in Sub
    BY <1>2 DEF TokenRow
  <2>5. Grants!Pass(k, r, "request")
    BY <1>6, <1>7, <2>3, <2>4, PassedOn
  <2> QED BY <2>5 DEF StepOfGrant, Grants!Rotate
<1>9. CASE refresh[r].client # c
  <2>1. busy' = Idle /\ codes' = codes
    BY <1>9 DEF RotateRefresh
  <2>2. ~CodeCounts(k)' /\ ~RequestCounts(k)' /\ \A q \in Refresh : ~RefreshCounts(k, q)'
    <3>1. ~CodeCounts(k) /\ \A q \in Refresh \ {r} : ~RefreshCounts(k, q)
      BY <1>4 DEF Linear, GrantNeverForks
    <3> QED BY <1>5, <2>1, <3>1 DEF CodeCounts, RequestCounts, RefreshCounts, Live
  <2>3. Ways(k)' = {}
    BY <2>2 DEF WaysAre
  <2> QED BY <1>6, <1>7, <2>3, Finished DEF StepOfGrant
<1> QED BY <1>8, <1>9

\* The request ends with the refresh token it was to issue.
LEMMA IssueIsStep ==
    ASSUME Linear, Linear', WaysAre, WaysAre', NEW r \in Refresh, IssueRefresh(r),
           {j \in Code : codes[j] # NoRow}' = {j \in Code : codes[j] # NoRow}
    PROVE  \E k \in Code : StepOfGrant(k)
<1>1. EdgeTypeOK
  BY DEF Linear, Kept
<1>2. busy \in Grant
  BY <1>1 DEF IssueRefresh, EdgeTypeOK
<1>3. PICK k \in Code : k = busy.root
  BY <1>2 DEF Grant
<1>4. RequestCounts(k)
  BY <1>3 DEF IssueRefresh, RequestCounts
<1>5. /\ refresh'[r].root = k /\ ~refresh'[r].revoked
      /\ refresh'[r].client = busy.client /\ refresh'[r].sub = busy.sub
      /\ \A q \in Refresh \ {r} : refresh'[q] = refresh[q]
  BY <1>1, <1>3 DEF IssueRefresh, EdgeTypeOK, Token
<1>6. refresh'[r] # NoRow
  <2>1. refresh'[r] = Token(busy, RefreshTtl)
    BY <1>1 DEF IssueRefresh, EdgeTypeOK
  <2>2. refresh'[r] \in TokenRow
    BY <1>1, <1>2, <2>1, TtlAssumption, LastTickAssumption DEF Token, Grant, TokenRow, EdgeTypeOK
  <2> QED BY <2>2, RowAssumption
<1>7. \A j \in Code \ {k} : Untouched(j)
  BY <1>3, <1>5 DEF IssueRefresh, Untouched, CodeCounts, RequestCounts, RefreshCounts, Live
<1>8. Ways(k) = {Grants!Way("request", busy.client, busy.sub)}
  BY <1>4 DEF WaysAre, WayOf, Grants!Way
<1>9. Ways(k)' = {Grants!Way(r, busy.client, busy.sub)}
  <2>1. RefreshCounts(k, r)'
    BY <1>5, <1>6 DEF RefreshCounts, Live
  <2> QED BY <1>5, <2>1 DEF WaysAre, WayOf, Grants!Way
<1>10. busy.client \in Client /\ busy.sub \in Sub
  BY <1>2 DEF Grant
<1>11. Grants!Pass(k, "request", r)
  BY <1>7, <1>8, <1>9, <1>10, PassedOn
<1> QED BY <1>11 DEF StepOfGrant, Grants!Issue

\* Revoking the live refresh token ends the grant.
LEMMA RevocationIsStep ==
    ASSUME Linear, Linear', WaysAre, WaysAre', NEW r \in Refresh, RevokeRefresh(r),
           {j \in Code : codes[j] # NoRow}' = {j \in Code : codes[j] # NoRow}
    PROVE  (\E k \in Code : StepOfGrant(k)) \/ UNCHANGED Grants!grantVars
<1>1. EdgeTypeOK
  BY DEF Linear, Kept
<1>2. refresh[r] \in TokenRow
  BY <1>1 DEF RevokeRefresh, EdgeTypeOK
<1>3. /\ refresh'[r] = [refresh[r] EXCEPT !.revoked = TRUE]
      /\ \A q \in Refresh \ {r} : refresh'[q] = refresh[q]
  BY <1>1 DEF RevokeRefresh, EdgeTypeOK
<1>4. refresh'[r].revoked
  BY <1>2, <1>3 DEF TokenRow
<1>5. CASE ~Live(r)
  <2>1. \A j \in Code : Untouched(j)
    BY <1>3, <1>4, <1>5
    DEF RevokeRefresh, Untouched, CodeCounts, RequestCounts, RefreshCounts, Live
  <2> QED BY <2>1, NothingTouched
<1>6. CASE Live(r)
  <2>1. PICK k \in Code : k = refresh[r].root
    BY <1>2 DEF TokenRow
  <2>2. RefreshCounts(k, r)
    BY <1>6, <2>1 DEF RefreshCounts
  <2>3. \A j \in Code \ {k} : Untouched(j)
    BY <1>3, <1>4, <2>1
    DEF RevokeRefresh, Untouched, CodeCounts, RequestCounts, RefreshCounts, Live
  <2>4. Ways(k) # {}
    BY <2>2 DEF WaysAre
  <2>5. ~CodeCounts(k) /\ ~RequestCounts(k) /\ \A q \in Refresh \ {r} : ~RefreshCounts(k, q)
    BY <2>2 DEF Linear, GrantNeverForks
  <2>6. ~CodeCounts(k)' /\ ~RequestCounts(k)' /\ \A q \in Refresh : ~RefreshCounts(k, q)'
    BY <1>3, <1>4, <2>5 DEF RevokeRefresh, CodeCounts, RequestCounts, RefreshCounts, Live
  <2>7. Ways(k)' = {}
    BY <2>6 DEF WaysAre
  <2> QED BY <2>3, <2>4, <2>7, Finished DEF StepOfGrant
<1> QED BY <1>5, <1>6

\* A request that is denied, or dies with the server, ends its grant.
LEMMA DropIsStep ==
    ASSUME Linear, Linear', WaysAre, WaysAre', UNCHANGED <<codes, refresh>>, busy' = Idle,
           {j \in Code : codes[j] # NoRow}' = {j \in Code : codes[j] # NoRow}
    PROVE  (\E k \in Code : StepOfGrant(k)) \/ UNCHANGED Grants!grantVars
<1>1. CASE busy = Idle
  <2>1. \A j \in Code : Untouched(j)
    BY <1>1 DEF Untouched, CodeCounts, RequestCounts, RefreshCounts, Live
  <2> QED BY <2>1, NothingTouched
<1>2. CASE busy # Idle
  <2>1. busy \in Grant
    BY <1>2 DEF Linear, Kept, EdgeTypeOK
  <2>2. PICK k \in Code : k = busy.root
    BY <2>1 DEF Grant
  <2>3. RequestCounts(k)
    BY <1>2, <2>2 DEF RequestCounts
  <2>4. \A j \in Code \ {k} : Untouched(j)
    BY <2>2 DEF Untouched, CodeCounts, RequestCounts, RefreshCounts, Live
  <2>5. Ways(k) # {}
    BY <2>3 DEF WaysAre
  <2>6. ~CodeCounts(k) /\ \A q \in Refresh : ~RefreshCounts(k, q)
    BY <2>3 DEF Linear, GrantNeverForks
  <2>7. ~CodeCounts(k)' /\ ~RequestCounts(k)' /\ \A q \in Refresh : ~RefreshCounts(k, q)'
    BY <2>6 DEF CodeCounts, RequestCounts, RefreshCounts, Live
  <2>8. Ways(k)' = {}
    BY <2>7 DEF WaysAre
  <2> QED BY <2>4, <2>5, <2>8, Finished DEF StepOfGrant
<1> QED BY <1>1, <1>2

\* Every step of the edge is a step of one grant or none.
LEMMA StepOfGrants ==
    ASSUME Linear, Linear', WaysAre, WaysAre', [EdgeNext]_edgeVars
    PROVE  [Grants!GNext]_(Grants!grantVars)
<1> SUFFICES (\E k \in Code : StepOfGrant(k)) \/ UNCHANGED Grants!grantVars
  BY DEF Grants!GNext, StepOfGrant
<1>1. CASE \E k \in Code, c \in Client, uri \in Redirect, v \in Verifier, sub \in Sub :
              Authorize(k, c, uri, v, sub)
  BY <1>1, AuthorizeApproves DEF StepOfGrant
<1>2. CASE ~\E k \in Code, c \in Client, uri \in Redirect, v \in Verifier, sub \in Sub :
              Authorize(k, c, uri, v, sub)
  <2>0. {j \in Code : codes[j] # NoRow}' = {j \in Code : codes[j] # NoRow}
    BY <1>2, ApprovedStays
  <2>1. StepCases
    BY Cases
  <2>2. CASE UNCHANGED <<codes, refresh>> /\ busy' = Idle
    BY <2>0, <2>2, DropIsStep
  <2>3. CASE UNCHANGED <<codes, refresh, busy>>
    <3>1. \A j \in Code : Untouched(j)
      BY <2>3 DEF Untouched, CodeCounts, RequestCounts, RefreshCounts, Live
    <3> QED BY <2>0, <3>1, NothingTouched
  <2>4. ASSUME NEW t \in Access, IssueAccess(t)
        PROVE  UNCHANGED Grants!grantVars
    <3>1. busy \in Grant
      BY <2>4 DEF IssueAccess, Linear, Kept, EdgeTypeOK
    <3>2. busy' \in Grant /\ busy'.root = busy.root
          /\ busy'.client = busy.client /\ busy'.sub = busy.sub
      BY <2>4, <3>1 DEF IssueAccess, Grant
    <3>3. busy # Idle /\ busy' # Idle
      BY <2>4, <3>2, RowAssumption DEF IssueAccess
    <3>4. \A j \in Code : Untouched(j)
      BY <2>4, <3>2, <3>3
      DEF IssueAccess, Untouched, CodeCounts, RequestCounts, RefreshCounts, Live
    <3> QED BY <2>0, <3>4, NothingTouched
  <2>5. CASE \E k \in Code, c \in Client, uri \in Redirect, v \in Verifier : ExchangeCode(k, c, uri, v)
    BY <2>0, <2>5, ExchangeIsStep
  <2>6. CASE \E r \in Refresh, c \in Client : RotateRefresh(r, c)
    BY <2>0, <2>6, RotationIsStep
  <2>7. CASE \E r \in Refresh : IssueRefresh(r)
    BY <2>0, <2>7, IssueIsStep
  <2>8. CASE \E r \in Refresh : RevokeRefresh(r)
    BY <2>0, <2>8, RevocationIsStep
  <2>9. DenySubject \/ EdgeCrash => UNCHANGED <<codes, refresh>> /\ busy' = Idle
    BY DEF DenySubject, EdgeCrash
  <2>10. \/ \E c \in Client, uris \in SUBSET Redirect : RegisterClient(c, uris)
         \/ \E t \in Access : RevokeAccess(t) \/ Admit(t)
         \/ Respond \/ Second \/ UNCHANGED edgeVars
         \/ \E sub \in Sub : RevokeClient(sub) \/ \E b \in Bearer : AddClient(sub, b)
         => UNCHANGED <<codes, refresh, busy>>
    BY DEF RegisterClient, RevokeAccess, Admit, Respond, Second, edgeVars, RevokeClient, AddClient
  <2> QED
    BY <1>2, <2>1, <2>2, <2>3, <2>4, <2>5, <2>6, <2>7, <2>8, <2>9, <2>10 DEF StepCases
<1> QED BY <1>1, <1>2

\* The edge implements the abstract life cycle of a grant: one approval, one
\* way to go on at a time, bound to one client and subject, and an end for
\* good, through refusals, burnt codes, revocations and deaths.
THEOREM EdgeImplementsGrants == EdgeSpec => ImplementsGrant
<1>1. EdgeInit => Grants!GInit
  BY DEF EdgeInit, Grants!GInit, Ways, CodeCounts, RequestCounts, RefreshCounts, Live
<1>2. Linear => WaysAre
  BY WaysAreSingle
<1>3. Linear /\ Linear' /\ WaysAre /\ WaysAre' /\ [EdgeNext]_edgeVars
      => [Grants!GNext]_(Grants!grantVars)
  BY StepOfGrants
<1> QED
  BY <1>1, <1>2, <1>3, LinearInit, LinearStep, PTL DEF EdgeSpec, ImplementsGrant, Grants!GSpec
=============================================================================
