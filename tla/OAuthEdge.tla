------------------------------ MODULE OAuthEdge ------------------------------
(***************************************************************************)
(* The OAuth 2.1 edge, adapters/mcp/oauth.py: clients register, an         *)
(* operator approves a subject, a code is exchanged for an access and a    *)
(* refresh token, refresh tokens rotate, and /mcp requests are admitted    *)
(* under the bearer that the allowlist has for the token's subject.        *)
(*                                                                         *)
(* Handlers of the server run on one event loop and do not await between   *)
(* reading their form and replying, so they exclude each other; but the    *)
(* token handler commits three times, the allowlist is written by another  *)
(* process (the CLI), and the server can die between two commits.          *)
(*                                                                         *)
(* A grant is named by its code: the tokens of an exchange, and those that *)
(* rotation makes of them, carry it as `root' (history, not a column).     *)
(***************************************************************************)
EXTENDS Integers, FiniteSets

CONSTANTS
    Client,      \* client ids that registration can draw
    Redirect,    \* redirect URIs
    Verifier,    \* PKCE verifiers; a challenge stands for its one verifier
    Sub,         \* subjects the operator may name
    Bearer,      \* Controller client tokens of the allowlist
    Code, Access, Refresh,      \* the values _secure_token can draw
    CodeTtl, AccessTtl, RefreshTtl,
    LastTick,    \* bound: the clock stops here
    NoEntry, NoRow, Idle, NoRequest

ASSUME TtlAssumption == CodeTtl \in Nat /\ AccessTtl \in Nat /\ RefreshTtl \in Nat
ASSUME LastTickAssumption == LastTick \in Nat
ASSUME AbsenceAssumption == NoEntry \notin Bearer

VARIABLES
    time,       \* int(time.time())
    clients,    \* clients.redirect_uris; {} for an unknown client id
    allowlist,  \* allowlist.relayme_token by subject
    codes,      \* auth_codes
    access,     \* access_tokens
    refresh,    \* refresh_tokens
    busy,       \* the token request between two of its commits
    serving,    \* the /mcp request in progress; bound: one at a time
    cut         \* history: grants whose live refresh token was revoked

edgeVars == <<time, clients, allowlist, codes, access, refresh, busy, serving, cut>>

CodeRow == [client: Client, sub: Sub, redirect: Redirect, challenge: Verifier,
            expires: Nat, used: BOOLEAN]
TokenRow == [client: Client, sub: Sub, expires: Nat, revoked: BOOLEAN, root: Code]
Grant == [client: Client, sub: Sub, root: Code, next: {"access", "refresh"}]

ASSUME RowAssumption == NoRow \notin CodeRow /\ NoRow \notin TokenRow /\ Idle \notin Grant

Token(grant, ttl) == [client |-> grant.client, sub |-> grant.sub, expires |-> time + ttl,
                      revoked |-> FALSE, root |-> grant.root]

EdgeInit ==
    /\ time = 0
    /\ clients = [c \in Client |-> {}]
    /\ allowlist = [s \in Sub |-> NoEntry]
    /\ codes = [k \in Code |-> NoRow]
    /\ access = [t \in Access |-> NoRow]
    /\ refresh = [t \in Refresh |-> NoRow]
    /\ busy = Idle
    /\ serving = NoRequest
    /\ cut = {}

-----------------------------------------------------------------------------
(* /register and /authorize                                                *)

RegisterClient(c, uris) ==
    /\ busy = Idle
    /\ clients[c] = {} /\ uris # {}
    /\ clients' = [clients EXCEPT ![c] = uris]
    /\ UNCHANGED <<time, allowlist, codes, access, refresh, busy, serving, cut>>

\* The request names its client, redirect URI and S256 challenge, the
\* operator (or dev_auto_approve_sub) the subject.
Authorize(k, c, uri, challenge, sub) ==
    /\ busy = Idle
    /\ uri \in clients[c]
    /\ allowlist[sub] # NoEntry
    /\ codes[k] = NoRow
    /\ codes' = [codes EXCEPT ![k] =
           [client |-> c, sub |-> sub, redirect |-> uri, challenge |-> challenge,
            expires |-> time + CodeTtl, used |-> FALSE]]
    /\ UNCHANGED <<time, clients, allowlist, access, refresh, busy, serving, cut>>

-----------------------------------------------------------------------------
(* /token.  The code, or the refresh token, is consumed before the request *)
(* is compared with it: a request that does not match burns it.            *)

Known(c) == clients[c] # {}
Redeemable(k) == codes[k] # NoRow /\ ~codes[k].used /\ codes[k].expires >= time
Live(r) == refresh[r] # NoRow /\ ~refresh[r].revoked
Rotatable(r) == Live(r) /\ refresh[r].expires >= time

\* Slip: the code is looked up, and marked used only by the cleanup of codes.
ExchangeUnmarked(k, c, uri, verifier) ==
    /\ busy = Idle
    /\ Known(c) /\ Redeemable(k)
    /\ busy' = IF codes[k].client = c /\ codes[k].redirect = uri /\ codes[k].challenge = verifier
               THEN [client |-> c, sub |-> codes[k].sub, root |-> k, next |-> "access"]
               ELSE Idle
    /\ UNCHANGED <<time, clients, allowlist, codes, access, refresh, serving, cut>>

ExchangeCode(k, c, uri, verifier) ==
    /\ busy = Idle
    /\ Known(c) /\ Redeemable(k)
    /\ codes' = [codes EXCEPT ![k].used = TRUE]
    /\ busy' = IF codes[k].client = c /\ codes[k].redirect = uri /\ codes[k].challenge = verifier
               THEN [client |-> c, sub |-> codes[k].sub, root |-> k, next |-> "access"]
               ELSE Idle
    /\ UNCHANGED <<time, clients, allowlist, access, refresh, serving, cut>>

\* Slip: the client of the request is not compared.
RotateForAnyone(r, c) ==
    /\ busy = Idle
    /\ Known(c) /\ Rotatable(r)
    /\ refresh' = [refresh EXCEPT ![r].revoked = TRUE]
    /\ busy' = [client |-> c, sub |-> refresh[r].sub, root |-> refresh[r].root, next |-> "access"]
    /\ UNCHANGED <<time, clients, allowlist, codes, access, serving, cut>>

RotateRefresh(r, c) ==
    /\ busy = Idle
    /\ Known(c) /\ Rotatable(r)
    /\ refresh' = [refresh EXCEPT ![r].revoked = TRUE]
    /\ busy' = IF refresh[r].client = c
               THEN [client |-> c, sub |-> refresh[r].sub, root |-> refresh[r].root,
                     next |-> "access"]
               ELSE Idle
    /\ UNCHANGED <<time, clients, allowlist, codes, access, serving, cut>>

\* Slip: a request that is denied gives its code back.
DenyGivingBack ==
    /\ busy # Idle /\ busy.next = "access"
    /\ allowlist[busy.sub] = NoEntry
    /\ codes' = [codes EXCEPT ![busy.root].used = FALSE]
    /\ busy' = Idle
    /\ UNCHANGED <<time, clients, allowlist, access, refresh, serving, cut>>

\* The allowlist is read after the consumption was committed.
DenySubject ==
    /\ busy # Idle /\ busy.next = "access"
    /\ allowlist[busy.sub] = NoEntry
    /\ busy' = Idle
    /\ UNCHANGED <<time, clients, allowlist, codes, access, refresh, serving, cut>>

IssueAccess(t) ==
    /\ busy # Idle /\ busy.next = "access"
    /\ allowlist[busy.sub] # NoEntry
    /\ access[t] = NoRow
    /\ access' = [access EXCEPT ![t] = Token(busy, AccessTtl)]
    /\ busy' = [busy EXCEPT !.next = "refresh"]
    /\ UNCHANGED <<time, clients, allowlist, codes, refresh, serving, cut>>

IssueRefresh(r) ==
    /\ busy # Idle /\ busy.next = "refresh"
    /\ refresh[r] = NoRow
    /\ refresh' = [refresh EXCEPT ![r] = Token(busy, RefreshTtl)]
    /\ busy' = Idle
    /\ UNCHANGED <<time, clients, allowlist, codes, access, serving, cut>>

-----------------------------------------------------------------------------
(* /revoke                                                                 *)

RevokeAccess(t) ==
    /\ busy = Idle
    /\ access[t] # NoRow
    /\ access' = [access EXCEPT ![t].revoked = TRUE]
    /\ UNCHANGED <<time, clients, allowlist, codes, refresh, busy, serving, cut>>

\* Slip: revoke_token only updates access_tokens.
RevokeRefreshNot(r) ==
    /\ busy = Idle
    /\ refresh[r] # NoRow
    /\ cut' = IF Live(r) THEN cut \cup {refresh[r].root} ELSE cut
    /\ UNCHANGED <<time, clients, allowlist, codes, access, refresh, busy, serving>>

RevokeRefresh(r) ==
    /\ busy = Idle
    /\ refresh[r] # NoRow
    /\ refresh' = [refresh EXCEPT ![r].revoked = TRUE]
    /\ cut' = IF Live(r) THEN cut \cup {refresh[r].root} ELSE cut
    /\ UNCHANGED <<time, clients, allowlist, codes, access, busy, serving>>

-----------------------------------------------------------------------------
(* /mcp: the middleware resolves the token when a request comes in, and    *)
(* sets the bearer for it.  What runs under that bearer (a tool call of a  *)
(* session that is open already, say) is the SDK's doing and left out.     *)

Valid(t) == access[t] # NoRow /\ access[t].expires >= time /\ ~access[t].revoked

\* Slip: the bearer is one of the edge's own.
AdmitDefault(t) ==
    /\ busy = Idle /\ serving = NoRequest
    /\ Valid(t)
    /\ \E b \in Bearer : serving' = [token |-> t, bearer |-> b]
    /\ UNCHANGED <<time, clients, allowlist, codes, access, refresh, busy, cut>>

Admit(t) ==
    /\ busy = Idle /\ serving = NoRequest
    /\ Valid(t)
    /\ allowlist[access[t].sub] # NoEntry
    /\ serving' = [token |-> t, bearer |-> allowlist[access[t].sub]]
    /\ UNCHANGED <<time, clients, allowlist, codes, access, refresh, busy, cut>>

Respond ==
    /\ serving # NoRequest
    /\ serving' = NoRequest
    /\ UNCHANGED <<time, clients, allowlist, codes, access, refresh, busy, cut>>

-----------------------------------------------------------------------------
(* The CLI, in a process of its own, and the death of the server           *)

AddClient(sub, bearer) ==      \* INSERT OR REPLACE
    /\ allowlist' = [allowlist EXCEPT ![sub] = bearer]
    /\ UNCHANGED <<time, clients, codes, access, refresh, busy, serving, cut>>

RevokeClient(sub) ==
    /\ allowlist' = [allowlist EXCEPT ![sub] = NoEntry]
    /\ UNCHANGED <<time, clients, codes, access, refresh, busy, serving, cut>>

EdgeCrash ==
    /\ busy' = Idle
    /\ serving' = NoRequest
    /\ UNCHANGED <<time, clients, allowlist, codes, access, refresh, cut>>

Second ==
    /\ time < LastTick
    /\ time' = time + 1
    /\ UNCHANGED <<clients, allowlist, codes, access, refresh, busy, serving, cut>>

EdgeNext ==
    \/ \E c \in Client, uris \in SUBSET Redirect : RegisterClient(c, uris)
    \/ \E k \in Code, c \in Client, uri \in Redirect, v \in Verifier :
          ExchangeCode(k, c, uri, v) \/ \E sub \in Sub : Authorize(k, c, uri, v, sub)
    \/ \E r \in Refresh :
          RevokeRefresh(r) \/ IssueRefresh(r) \/ \E c \in Client : RotateRefresh(r, c)
    \/ \E t \in Access : IssueAccess(t) \/ RevokeAccess(t) \/ Admit(t)
    \/ \E sub \in Sub : RevokeClient(sub) \/ \E b \in Bearer : AddClient(sub, b)
    \/ DenySubject \/ Respond \/ EdgeCrash \/ Second

EdgeSpec == EdgeInit /\ [][EdgeNext]_edgeVars
-----------------------------------------------------------------------------
(* Properties                                                              *)

EdgeTypeOK ==
    /\ time \in 0 .. LastTick
    /\ clients \in [Client -> SUBSET Redirect]
    /\ allowlist \in [Sub -> Bearer \cup {NoEntry}]
    /\ codes \in [Code -> CodeRow \cup {NoRow}]
    /\ access \in [Access -> TokenRow \cup {NoRow}]
    /\ refresh \in [Refresh -> TokenRow \cup {NoRow}]
    /\ busy \in Grant \cup {Idle}
    /\ serving \in [token: Access, bearer: Bearer] \cup {NoRequest}
    /\ cut \subseteq Code

\* What a grant is worth: its code while unused, the request that consumed
\* code or token and has not issued the next yet, a refresh token that is
\* neither spent nor revoked.
CodeCounts(k) == codes[k] # NoRow /\ ~codes[k].used
RequestCounts(k) == busy # Idle /\ busy.root = k
RefreshCounts(k, r) == Live(r) /\ refresh[r].root = k

\* A grant never forks: whatever is replayed, refused, lost in a crash or
\* revoked, there is at most one way to go on with it, so a code buys one
\* chain of refresh tokens and each of them one successor ("auth codes are
\* single-use", "refresh tokens are single-use with rotation").
GrantNeverForks ==
    \A k \in Code :
        /\ CodeCounts(k) => ~RequestCounts(k)
        /\ \A r \in Refresh :
              RefreshCounts(k, r) => /\ ~CodeCounts(k) /\ ~RequestCounts(k)
                                     /\ \A q \in Refresh : RefreshCounts(k, q) => q = r

\* Revoking the live refresh token of a grant ends it for good: no request in
\* progress, earlier token or retry brings a refresh token of it back.
RevocationEndsGrant ==
    \A k \in cut :
        ~CodeCounts(k) /\ ~RequestCounts(k) /\ \A r \in Refresh : ~RefreshCounts(k, r)

\* Tokens stay with the client and the subject that the operator approved the
\* code for, through the exchange and every rotation.
Approved(token) ==
    /\ codes[token.root] # NoRow
    /\ token.client = codes[token.root].client
    /\ token.sub = codes[token.root].sub
TokensStayWithTheirClient ==
    /\ \A t \in Access : access[t] # NoRow => Approved(access[t])
    /\ \A r \in Refresh : refresh[r] # NoRow => Approved(refresh[r])

\* A request is admitted only under the bearer that the allowlist has, then,
\* for the subject its grant was approved for: removing a subject cuts off
\* every token it holds, or still gets from a request in progress, and a
\* replaced bearer is used at once.
AdmittedAsApproved ==
    [][serving' # serving /\ serving' # NoRequest =>
          serving'.bearer = allowlist[codes[access[serving'.token].root].sub]]_edgeVars

\* The edge implements the abstract life cycle of a grant: what can still be
\* done with one is passed on with its client and subject, never copied, and
\* a grant that is over, however it ended, stays over.
WayOf(by, row) == [by |-> by, client |-> row.client, sub |-> row.sub]
Ways(k) ==
    {WayOf("code", codes[j]) : j \in {i \in {k} : CodeCounts(i)}}
    \cup {WayOf("request", busy) : j \in {i \in {k} : RequestCounts(i)}}
    \cup {WayOf(r, refresh[r]) : r \in {q \in Refresh : RefreshCounts(k, q)}}

Grants == INSTANCE GrantLifecycle
          WITH approved <- {k \in Code : codes[k] # NoRow},
               way <- [k \in Code |-> Ways(k)]
ImplementsGrant == Grants!GSpec
=============================================================================
