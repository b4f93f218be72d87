--------------------------- MODULE GrantLifecycle ---------------------------
(***************************************************************************)
(* What the OAuth edge promises about one grant, without clocks, commits,  *)
(* allowlists or deaths: an operator approves it once, for a client and a  *)
(* subject; from then on there is at most one way to go on with it, the    *)
(* code, a token request in progress or a refresh token, and that way      *)
(* stays with its client and subject; once there is none, it is over for   *)
(* good.                                                                   *)
(***************************************************************************)
CONSTANTS Code, Refresh, Client, Sub

VARIABLES
    approved,   \* the grants, by their codes
    way         \* the ways to go on with each

grantVars == <<approved, way>>

\* `by' is "code", "request" or a refresh token.
Way(by, client, sub) == [by |-> by, client |-> client, sub |-> sub]

GInit ==
    /\ approved = {}
    /\ way = [k \in Code |-> {}]

Approve(k) ==
    /\ k \notin approved /\ way[k] = {}
    /\ approved' = approved \cup {k}
    /\ \E c \in Client, s \in Sub : way' = [way EXCEPT ![k] = {Way("code", c, s)}]

Pass(k, from, to) ==
    /\ \E w \in way[k] :
          /\ way[k] = {w} /\ w.by = from
          /\ way' = [way EXCEPT ![k] = {Way(to, w.client, w.sub)}]
    /\ UNCHANGED approved

Exchange(k) == Pass(k, "code", "request")
Issue(k, r) == Pass(k, "request", r)
Rotate(k, r) == Pass(k, r, "request")

Finish(k) ==      \* burnt, denied, revoked, lost in a death
    /\ way[k] # {}
    /\ way' = [way EXCEPT ![k] = {}]
    /\ UNCHANGED approved

GNext ==
    \E k \in Code :
        \/ Approve(k) \/ Exchange(k) \/ Finish(k)
        \/ \E r \in Refresh : Issue(k, r) \/ Rotate(k, r)

GSpec == GInit /\ [][GNext]_grantVars
=============================================================================
