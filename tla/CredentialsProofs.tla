------------------------- MODULE CredentialsProofs -------------------------
(***************************************************************************)
(* Proofs about Credentials, for any accounts, roles, passwords and        *)
(* workers and any finite set of reset links.                              *)
(***************************************************************************)
EXTENDS Credentials, FiniteSetTheorems, TLAPS

USE CredentialsAssumption DEF CredentialsAssumption

Creators(u) == {w \in Workers : At(w, "create") /\ req[w].user = u}

\* A login that no change of the role has overtaken carries the present role.
FreshLogins ==
    \A w \in Workers : At(w, "login") /\ req[w].fresh => req[w].role = role[req[w].user]

\* A link that has set a password is not valid, and whoever still holds it shares it.
UsedLinks ==
    /\ \A l \in Links : uses[l] > 0 => link[l].state \in {"used", "void"}
    /\ \A w \in Workers : At(w, "reset") /\ uses[req[w].link] > 0 => req[w].link \in shared

\* Unless two were issued at once: one valid link, or one request about to insert it.
LinkIssue ==
    \A u \in Users \ raced :
       /\ \A l, m \in LiveLinks(u) : l = m
       /\ \A v, w \in Creators(u) : v = w
       /\ Creators(u) # {} => LiveLinks(u) = {}

TokensInv == FreshTokensCurrent /\ FreshLogins
LinksInv  == LinkUsedOnce /\ UsedLinks /\ LinkIssue

(***************************************************************************)
(* The shapes of the requests.                                             *)
(***************************************************************************)
LEMMA RequestFacts ==
    ASSUME NEW r \in Request
    PROVE  /\ r.pc = "login" => r.user \in Users /\ r.role \in Roles /\ r.fresh \in BOOLEAN
           /\ r.pc = "change" => r.user \in Users /\ r.verified \in Passwords
           /\ r.pc \in {"clear", "create", "set", "void"} => r.user \in Users
           /\ r.pc = "reset" => r.link \in Links
<1>1. r.pc = "login" => r \in [pc : {"login"}, user : Users, role : Roles, fresh : BOOLEAN]
  BY DEF Request, Idle
<1>2. r.pc = "change" => r \in [pc : {"change"}, user : Users, verified : Passwords]
  BY DEF Request, Idle
<1>3. r.pc \in {"clear", "create", "set", "void"} =>
         r \in [pc : {"clear", "create", "set", "void"}, user : Users]
  BY DEF Request, Idle
<1>4. r.pc = "reset" => r \in [pc : {"reset"}, link : Links]
  BY DEF Request, Idle
<1> QED
  BY <1>1, <1>2, <1>3, <1>4

(***************************************************************************)
(* The steps of a request on an account keep the account.                  *)
(***************************************************************************)
LEMMA RequestMoves ==
    ASSUME NEW r \in Request, r.pc \in {"set", "clear"}, NEW pc \in {"void", "create"}
    PROVE  /\ [r EXCEPT !.pc = pc] \in Request
           /\ [r EXCEPT !.pc = pc].pc = pc /\ [r EXCEPT !.pc = pc].user = r.user
<1>1. r \in [pc : {"clear", "create", "set", "void"}, user : Users]
  BY DEF Request, Idle
<1> QED
  BY <1>1 DEF Request

(***************************************************************************)
(* A change of the role leaves a login a login.                            *)
(***************************************************************************)
LEMMA LoginStale ==
    ASSUME NEW r \in Request, r.pc = "login"
    PROVE  /\ [r EXCEPT !.fresh = FALSE] \in Request
           /\ [r EXCEPT !.fresh = FALSE].pc = "login"
           /\ [r EXCEPT !.fresh = FALSE].fresh = FALSE
<1>1. r \in [pc : {"login"}, user : Users, role : Roles, fresh : BOOLEAN]
  BY DEF Request, Idle
<1> QED
  BY <1>1 DEF Request

(***************************************************************************)
(* An idle worker's request is one.                                        *)
(***************************************************************************)
LEMMA IdleFacts == Idle \in Request /\ Idle.pc = "idle"
BY DEF Request, Idle

(***************************************************************************)
(* A deletion of unused links makes valid links void and changes nothing   *)
(* else.                                                                   *)
(***************************************************************************)
LEMMA DeleteUnusedFacts ==
    ASSUME TypeOK, NEW u \in Users
    PROVE  /\ DeleteUnused(u) \in [Links -> [state : LinkState, user : Users]]
           /\ \A l \in Links :
                 /\ DeleteUnused(u)[l].user = link[l].user
                 /\ DeleteUnused(u)[l].state =
                       IF l \in LiveLinks(u) THEN "void" ELSE link[l].state
BY DEF TypeOK, DeleteUnused, LiveLinks, LinkState

(***************************************************************************)
(* Marking one link.                                                       *)
(***************************************************************************)
LEMMA MarkTyped ==
    ASSUME NEW f \in [Links -> [state : LinkState, user : Users]],
           NEW l \in Links, NEW m \in LinkState
    PROVE  [f EXCEPT ![l].state = m] \in [Links -> [state : LinkState, user : Users]]
<1>1. [f[l] EXCEPT !.state = m] \in [state : LinkState, user : Users]
  OBVIOUS
<1> QED
  BY <1>1

-----------------------------------------------------------------------------
(***************************************************************************)
(* Type correctness.                                                       *)
(***************************************************************************)
LEMMA InitTyped == Init => TypeOK
<1> SUFFICES ASSUME Init PROVE TypeOK
  OBVIOUS
<1>1. link \in [Links -> [state : LinkState, user : Users]]
  BY DEF Init, LinkState
<1>2. req \in [Workers -> Request]
  BY IdleFacts DEF Init
<1> QED
  BY <1>1, <1>2 DEF Init, TypeOK

(***************************************************************************)
(* Every step keeps the types.                                             *)
(***************************************************************************)
LEMMA NextTyped == TypeOK /\ [Next]_vars => TypeOK'
<1> SUFFICES ASSUME TypeOK, [Next]_vars PROVE TypeOK'
  OBVIOUS
<1> DEFINE Tokens == [user : Users, kind : Kinds, role : Roles, fresh : BOOLEAN]
<1> USE RequestFacts, IdleFacts
<1> USE DEF TypeOK, tables, past
<1>1. ASSUME NEW w \in Workers, IsUserLocked(w) PROVE TypeOK'
  <2>1. req[w].user \in Users /\ req[w].role \in Roles /\ req[w].fresh \in BOOLEAN
    BY <1>1 DEF IsUserLocked, At
  <2>2. tokens' \subseteq [user : Users, kind : Kinds, role : Roles, fresh : BOOLEAN]
    BY <1>1, <2>1 DEF IsUserLocked, issueTokens, Token, Kinds
  <2> QED
    BY <1>1, <2>2 DEF IsUserLocked, Finish
<1>2. ASSUME NEW w \in Workers, UpdateUserPassword(w) PROVE TypeOK'
  <2>1. password' \in [Users -> Passwords]
    BY <1>2 DEF UpdateUserPassword
  <2> QED
    BY <1>2, <2>1 DEF UpdateUserPassword, Finish
<1>3. ASSUME NEW w \in Workers, SetPassword(w) PROVE TypeOK'
  <2>1. password' \in [Users -> Passwords]
    BY <1>3 DEF SetPassword
  <2>2. req' \in [Workers -> Request]
    BY <1>3, RequestMoves DEF SetPassword, At, Step
  <2> QED
    BY <1>3, <2>1, <2>2 DEF SetPassword
<1>4. ASSUME NEW w \in Workers, VoidLinks(w) PROVE TypeOK'
  <2>1. req[w].user \in Users
    BY <1>4 DEF VoidLinks, At
  <2> QED
    BY <1>4, <2>1, DeleteUnusedFacts DEF VoidLinks, Finish
<1>5. ASSUME NEW w \in Workers, ClearUnused(w) PROVE TypeOK'
  <2>1. req[w].user \in Users
    BY <1>5 DEF ClearUnused, At
  <2>2. req' \in [Workers -> Request]
    BY <1>5, RequestMoves DEF ClearUnused, At, Step
  <2> QED
    BY <1>5, <2>1, <2>2, DeleteUnusedFacts DEF ClearUnused
<1>6. ASSUME NEW w \in Workers, CreateLink(w) PROVE TypeOK'
  <2>1. req[w].user \in Users
    BY <1>6 DEF CreateLink, At
  <2> QED
    BY <1>6, <2>1 DEF CreateLink, Finish, LinkState
<1>7. ASSUME NEW w \in Workers, CommitReset(w) PROVE TypeOK'
  <2> DEFINE l == req[w].link
  <2>1. l \in Links /\ link[l].user \in Users
    BY <1>7 DEF CommitReset, At
  <2> DEFINE m == IF link[l].state = "void" THEN "void" ELSE "used"
             d == DeleteUnused(link[l].user)
  <2>2. d \in [Links -> [state : LinkState, user : Users]]
    BY <2>1, DeleteUnusedFacts
  <2>3. link' = [d EXCEPT ![l].state = m] /\ m \in LinkState
    BY <1>7 DEF CommitReset, LinkState
  <2>4. link' \in [Links -> [state : LinkState, user : Users]]
    BY <2>1, <2>2, <2>3, MarkTyped
  <2>5. uses' \in [Links -> 0..2] /\ shared' \subseteq Links
    BY <1>7, <2>1 DEF CommitReset, Used
  <2> QED
    BY <1>7, <2>4, <2>5 DEF CommitReset, Finish
<1>8. ASSUME NEW w \in Workers, Abort(w) PROVE TypeOK'
  BY <1>8 DEF Abort, Finish
<1>9. ASSUME NEW w \in Workers, NEW u \in Users,
             \/ Login(w, u) \/ ChangePassword(w, u)
             \/ AdminSetNewPassword(w, u) \/ RequestReset(w, u)
      PROVE  TypeOK'
  <2>1. /\ [pc |-> "login", user |-> u, role |-> role[u], fresh |-> TRUE] \in Request
        /\ [pc |-> "change", user |-> u, verified |-> password[u]] \in Request
        /\ [pc |-> "set", user |-> u] \in Request /\ [pc |-> "clear", user |-> u] \in Request
    BY DEF Request
  <2> QED
    BY <1>9, <2>1 DEF Login, ChangePassword, AdminSetNewPassword, RequestReset
<1>10. ASSUME NEW w \in Workers, NEW l \in Links, ResetPassword(w, l) PROVE TypeOK'
  BY <1>10 DEF ResetPassword, Request
<1>11. CASE Refresh
  <2>1. PICK t \in tokens :
            tokens' = tokens \cup {Token(t.user, k, role[t.user], TRUE) : k \in Kinds}
    BY <1>11 DEF Refresh, issueTokens
  <2>2. \A k \in Kinds : Token(t.user, k, role[t.user], TRUE) \in Tokens
    BY DEF Token
  <2> QED
    BY <1>11, <2>1, <2>2 DEF Refresh
<1>12. CASE ExpireToken
  BY <1>12 DEF ExpireToken
<1>13. CASE ExpireLink
  BY <1>13 DEF ExpireLink, LinkState
<1>14. ASSUME NEW u \in Users, UpdateUserRole(u) PROVE TypeOK'
  <2>1. \A t \in Tokens : [t EXCEPT !.fresh = FALSE] \in Tokens
    OBVIOUS
  <2>3. tokens' \subseteq Tokens
    BY <1>14, <2>1 DEF UpdateUserRole
  <2>2. req' \in [Workers -> Request]
    BY <1>14, LoginStale DEF UpdateUserRole, At
  <2> QED
    BY <1>14, <2>2, <2>3 DEF UpdateUserRole
<1>15. ASSUME NEW u \in Users, LockUser(u) \/ UnlockUser(u) PROVE TypeOK'
  BY <1>15 DEF LockUser, UnlockUser
<1>16. CASE UNCHANGED vars
  BY <1>16 DEF vars
<1> QED
  BY <1>1, <1>2, <1>3, <1>4, <1>5, <1>6, <1>7, <1>8, <1>9, <1>10, <1>11, <1>12, <1>13,
     <1>14, <1>15, <1>16 DEF Next

(***************************************************************************)
(* Accounts, tokens, links and requests keep the shape that the model      *)
(* gives them.                                                             *)
(***************************************************************************)
THEOREM Typed == Spec => []TypeOK
<1> QED
  BY InitTyped, NextTyped, PTL DEF Spec

-----------------------------------------------------------------------------
(***************************************************************************)
(* Tokens: every step keeps TokensInv.                                     *)
(***************************************************************************)
LEMMA TokensStep == TypeOK /\ TokensInv /\ [Next]_vars => TokensInv'
<1> SUFFICES ASSUME TypeOK, TokensInv, [Next]_vars PROVE TokensInv'
  OBVIOUS
<1> USE DEF TokensInv, FreshTokensCurrent, FreshLogins, At
<1>1. ASSUME UNCHANGED <<role, tokens>>, NEW w \in Workers, NEW r \in Request,
             req' = [req EXCEPT ![w] = r], r.pc # "login"
      PROVE  TokensInv'
  BY <1>1 DEF TypeOK
<1>2. ASSUME NEW w \in Workers, IsUserLocked(w) PROVE TokensInv'
  <2>1. \A t \in tokens' : \/ t \in tokens
                           \/ /\ t.user = req[w].user /\ t.role = req[w].role
                              /\ t.fresh = req[w].fresh
    BY <1>2 DEF IsUserLocked, issueTokens, Token
  <2>2. FreshTokensCurrent'
    BY <1>2, <2>1 DEF IsUserLocked, tables
  <2>3. FreshLogins'
    BY <1>2, IdleFacts DEF IsUserLocked, Finish, tables, TypeOK
  <2> QED
    BY <2>2, <2>3
<1>3. ASSUME NEW w \in Workers,
             UpdateUserPassword(w) \/ VoidLinks(w) \/ CreateLink(w) \/ CommitReset(w) \/ Abort(w)
      PROVE  TokensInv'
  <2>1. UNCHANGED <<role, tokens>> /\ req' = [req EXCEPT ![w] = Idle]
    BY <1>3 DEF UpdateUserPassword, VoidLinks, CreateLink, CommitReset, Abort, Finish, tables
  <2> QED
    BY <2>1, <1>1, IdleFacts
<1>4. ASSUME NEW w \in Workers, SetPassword(w) \/ ClearUnused(w) PROVE TokensInv'
  <2> DEFINE r == IF At(w, "set") THEN [req[w] EXCEPT !.pc = "void"]
                                  ELSE [req[w] EXCEPT !.pc = "create"]
  <2>1. req[w] \in Request /\ req[w].pc \in {"set", "clear"}
    BY <1>4 DEF SetPassword, ClearUnused, TypeOK
  <2>2. UNCHANGED <<role, tokens>> /\ req' = [req EXCEPT ![w] = r]
    BY <1>4 DEF SetPassword, ClearUnused, Step, TypeOK
  <2>3. r \in Request /\ r.pc # "login"
    BY <2>1, RequestMoves
  <2> QED
    BY <2>2, <2>3, <1>1
<1>5. ASSUME NEW w \in Workers, NEW u \in Users,
             ChangePassword(w, u) \/ AdminSetNewPassword(w, u) \/ RequestReset(w, u)
      PROVE  TokensInv'
  <2>1. /\ [pc |-> "change", user |-> u, verified |-> password[u]] \in Request
        /\ [pc |-> "set", user |-> u] \in Request /\ [pc |-> "clear", user |-> u] \in Request
    BY DEF Request, TypeOK
  <2> QED
    BY <1>5, <1>1, <2>1 DEF ChangePassword, AdminSetNewPassword, RequestReset, tables
<1>6. ASSUME NEW w \in Workers, NEW l \in Links, ResetPassword(w, l) PROVE TokensInv'
  <2>1. [pc |-> "reset", link |-> l] \in Request
    BY DEF Request
  <2> QED
    BY <1>6, <1>1, <2>1 DEF ResetPassword, tables
<1>7. ASSUME NEW w \in Workers, NEW u \in Users, Login(w, u) PROVE TokensInv'
  BY <1>7 DEF Login, tables, TypeOK
<1>8. CASE Refresh
  <2>1. \A t \in tokens' : t \in tokens \/ t.role = role[t.user]
    BY <1>8 DEF Refresh, issueTokens, Token
  <2> QED
    BY <1>8, <2>1 DEF Refresh, tables
<1>9. CASE ExpireToken
  BY <1>9 DEF ExpireToken, tables
<1>10. CASE ExpireLink
  BY <1>10 DEF ExpireLink
<1>11. ASSUME NEW u \in Users, UpdateUserRole(u) PROVE TokensInv'
  <2>1. \A v \in Users \ {u} : role'[v] = role[v]
    BY <1>11 DEF UpdateUserRole, TypeOK
  <2>2. \A t \in tokens' : t.fresh => t \in tokens /\ t.user \in Users \ {u}
    BY <1>11 DEF UpdateUserRole, TypeOK
  <2>3. ASSUME NEW w \in Workers, req'[w].pc = "login", req'[w].fresh
        PROVE  req'[w] = req[w] /\ req[w].user \in Users \ {u}
    <3>1. req[w] \in Request
      BY DEF TypeOK
    <3>2. CASE req[w].pc = "login" /\ req[w].user = u
      <4>1. req'[w].fresh = FALSE
        BY <1>11, <3>1, <3>2, LoginStale DEF UpdateUserRole
      <4> QED
        BY <2>3, <4>1
    <3>3. CASE ~(req[w].pc = "login" /\ req[w].user = u)
      <4>1. req'[w] = req[w]
        BY <1>11, <3>3 DEF UpdateUserRole
      <4> QED
        BY <2>3, <3>1, <3>3, <4>1, RequestFacts
    <3> QED
      BY <3>2, <3>3
  <2>4. FreshTokensCurrent'
    BY <2>1, <2>2
  <2>5. FreshLogins'
    BY <2>1, <2>3
  <2> QED
    BY <2>4, <2>5
<1>12. ASSUME NEW u \in Users, LockUser(u) \/ UnlockUser(u) PROVE TokensInv'
  BY <1>12 DEF LockUser, UnlockUser
<1>13. CASE UNCHANGED vars
  BY <1>13 DEF vars, tables
<1> QED
  BY <1>2, <1>3, <1>4, <1>5, <1>6, <1>7, <1>8, <1>9, <1>10, <1>11, <1>12, <1>13 DEF Next

(***************************************************************************)
(* A token that no change of the role has overtaken carries the present    *)
(* role of its account, however logins, refreshes and changes of the role  *)
(* interleave.                                                             *)
(***************************************************************************)
THEOREM TokensFollowRoles == Spec => []FreshTokensCurrent
<1>1. Init => TokensInv
  BY DEF Init, TokensInv, FreshTokensCurrent, FreshLogins, At, Idle
<1>2. TokensInv => FreshTokensCurrent
  BY DEF TokensInv
<1> QED
  BY <1>1, <1>2, TokensStep, Typed, PTL DEF Spec

-----------------------------------------------------------------------------
(***************************************************************************)
(* Valid links and requests about to insert one do not increase, and       *)
(* nobody is added to or taken from raced.                                 *)
(***************************************************************************)
LEMMA IssueShrinks ==
    ASSUME LinkIssue, raced' = raced,
           \A u \in Users : LiveLinks(u)' \subseteq LiveLinks(u),
           \A u \in Users : Creators(u)' \subseteq Creators(u)
    PROVE  LinkIssue'
<1> SUFFICES ASSUME NEW u \in Users \ raced
             PROVE  /\ \A l, m \in LiveLinks(u)' : l = m
                    /\ \A v, w \in Creators(u)' : v = w
                    /\ Creators(u)' # {} => LiveLinks(u)' = {}
  BY DEF LinkIssue
<1> QED
  BY DEF LinkIssue

(***************************************************************************)
(* A worker that does not go to "create" or "reset" changes neither the    *)
(* issue of links nor who holds one.                                       *)
(***************************************************************************)
LEMMA OtherRequest ==
    ASSUME TypeOK, NEW w \in Workers, NEW r \in Request, r.pc \notin {"create", "reset"},
           req' = [req EXCEPT ![w] = r]
    PROVE  /\ \A u \in Users : Creators(u)' \subseteq Creators(u)
           /\ \A v \in Workers : req'[v].pc = "reset" => v # w /\ req'[v] = req[v]
<1>1. \A v \in Workers : req'[v] = IF v = w THEN r ELSE req[v]
  BY DEF TypeOK
<1> QED
  BY <1>1 DEF Creators, At

(***************************************************************************)
(* A step that makes links at most less valid, and uses none, keeps the    *)
(* invariants of the links.                                                *)
(***************************************************************************)
LEMMA LinksShrink ==
    ASSUME TypeOK, LinksInv, UNCHANGED past,
           \A l \in Links : \/ link'[l] = link[l]
                            \/ link[l].state = "live" /\ link'[l].state = "void"
                                                      /\ link'[l].user = link[l].user,
           \A u \in Users : Creators(u)' \subseteq Creators(u),
           \A v \in Workers : req'[v].pc = "reset" =>
                 req'[v] = req[v] \/ link[req'[v].link].state = "live",
           TypeOK'
    PROVE  LinksInv'
<1>1. uses' = uses /\ shared' = shared /\ raced' = raced
  BY DEF past
<1>2. LinkUsedOnce'
  BY <1>1 DEF LinksInv, LinkUsedOnce
<1>3. \A u \in Users : LiveLinks(u)' \subseteq LiveLinks(u)
  BY DEF LiveLinks
<1>4. LinkIssue'
  BY <1>1, <1>3, IssueShrinks DEF LinksInv
<1>5. \A l \in Links : uses'[l] > 0 => link'[l].state \in {"used", "void"}
  BY <1>1 DEF LinksInv, UsedLinks
<1>6. ASSUME NEW v \in Workers, req'[v].pc = "reset", uses[req'[v].link] > 0
      PROVE  req'[v].link \in shared
  <2>1. req'[v].link \in Links
    BY <1>6, RequestFacts DEF TypeOK
  <2>2. req'[v] = req[v]
    BY <1>6, <2>1 DEF LinksInv, UsedLinks
  <2> QED
    BY <1>6, <2>2 DEF LinksInv, UsedLinks, At
<1>7. UsedLinks'
  BY <1>1, <1>5, <1>6 DEF UsedLinks, At
<1> QED
  BY <1>2, <1>4, <1>7 DEF LinksInv

(***************************************************************************)
(* RequestReset first deletes the unused links: raced records whether      *)
(* another request has done so and has not inserted yet.                   *)
(***************************************************************************)
LEMMA ClearStep ==
    ASSUME TypeOK, LinksInv, NEW w \in Workers, ClearUnused(w)
    PROVE  LinksInv'
<1>0. req[w] \in Request /\ req[w].pc = "clear" /\ req[w].user \in Users
  BY RequestFacts DEF ClearUnused, At, TypeOK
<1>1. PICK u \in Users : u = req[w].user
  BY <1>0
<1>2. \A v \in Workers : /\ v # w => req'[v] = req[v]
                         /\ req'[w].pc = "create" /\ req'[w].user = u
  <2>1. /\ [req[w] EXCEPT !.pc = "create"].pc = "create"
        /\ [req[w] EXCEPT !.pc = "create"].user = u
    BY <1>0, <1>1, RequestMoves
  <2> QED
    BY <2>1 DEF ClearUnused, Step, TypeOK
<1>3. UNCHANGED <<uses, shared>>
  BY DEF ClearUnused
<1>4. \A l \in Links : /\ link'[l].user = link[l].user
                       /\ link'[l].state = IF l \in LiveLinks(u) THEN "void" ELSE link[l].state
  BY <1>1, DeleteUnusedFacts DEF ClearUnused
<1>5. /\ LiveLinks(u)' = {}
      /\ \A x \in Users : LiveLinks(x)' \subseteq LiveLinks(x)
  BY <1>4 DEF LiveLinks
<1>6. \A x \in Users \ {u} : Creators(x)' = Creators(x)
  BY <1>0, <1>1, <1>2 DEF Creators, At
<1>7. Creators(u)' \subseteq Creators(u) \cup {w}
  BY <1>2 DEF Creators, At
<1>8. u \notin raced' => Creators(u)' \subseteq {w}
  BY <1>1, <1>7 DEF ClearUnused, Creating, Creators
<1>9. \A x \in Users \ {u} : x \notin raced' => x \notin raced
  BY <1>1 DEF ClearUnused
<1>10. ASSUME NEW x \in Users \ raced'
       PROVE  /\ \A l, m \in LiveLinks(x)' : l = m
              /\ \A v1, v2 \in Creators(x)' : v1 = v2
              /\ Creators(x)' # {} => LiveLinks(x)' = {}
  <2>1. CASE x = u
    BY <2>1, <1>5, <1>8
  <2>2. CASE x # u
    BY <2>2, <1>5, <1>6, <1>9 DEF LinksInv, LinkIssue
  <2> QED
    BY <2>1, <2>2
<1>11. LinkIssue'
  BY <1>10 DEF LinkIssue
<1>12. LinkUsedOnce' /\ UsedLinks'
  BY <1>2, <1>3, <1>4 DEF LinksInv, LinkUsedOnce, UsedLinks, At
<1> QED
  BY <1>11, <1>12 DEF LinksInv

(***************************************************************************)
(* The insertion: unless the account is in raced, it has no valid link.    *)
(***************************************************************************)
LEMMA CreateStep ==
    ASSUME TypeOK, LinksInv, NEW w \in Workers, CreateLink(w)
    PROVE  LinksInv'
<1>0. PICK u \in Users : u = req[w].user
  BY RequestFacts DEF CreateLink, At, TypeOK
<1>1. PICK k \in Links : /\ link[k].state = "none"
                         /\ link' = [link EXCEPT ![k] = [state |-> "live", user |-> u]]
  BY <1>0 DEF CreateLink
<1>2. /\ req[w].pc = "create" /\ req' = [req EXCEPT ![w] = Idle]
      /\ uses' = uses /\ shared' = shared /\ raced' = raced
  BY RequestFacts DEF CreateLink, At, TypeOK, Finish, past
<1>3. \A v \in Workers : req'[v] = IF v = w THEN Idle ELSE req[v]
  BY <1>2 DEF TypeOK
<1>4. \A l \in Links : l # k => link'[l] = link[l]
  BY <1>1 DEF TypeOK
<1>5. link'[k].state = "live" /\ link'[k].user = u
  BY <1>1 DEF TypeOK
<1>6. \A x \in Users : Creators(x)' = Creators(x) \ {w}
  BY <1>3, IdleFacts DEF Creators, At
<1>7. w \in Creators(u)
  BY <1>0, <1>2 DEF Creators, At
<1>8. ASSUME NEW x \in Users \ raced'
      PROVE  /\ \A l, m \in LiveLinks(x)' : l = m
             /\ \A v1, v2 \in Creators(x)' : v1 = v2
             /\ Creators(x)' # {} => LiveLinks(x)' = {}
  <2>1. CASE x = u
    <3>1. LiveLinks(u) = {} /\ Creators(u) = {w}
      BY <2>1, <1>2, <1>7 DEF LinksInv, LinkIssue
    <3>2. LiveLinks(u)' \subseteq {k}
      BY <3>1, <1>4 DEF LiveLinks
    <3> QED
      BY <2>1, <3>1, <3>2, <1>6
  <2>2. CASE x # u
    <3>1. LiveLinks(x)' \subseteq LiveLinks(x)
      BY <2>2, <1>4, <1>5 DEF LiveLinks
    <3> QED
      BY <3>1, <1>2, <1>6 DEF LinksInv, LinkIssue
  <2> QED
    BY <2>1, <2>2
<1>9. LinkIssue'
  BY <1>8 DEF LinkIssue
<1>10. uses[k] = 0
  BY <1>1 DEF LinksInv, UsedLinks, TypeOK
<1>11. LinkUsedOnce' /\ UsedLinks'
  BY <1>2, <1>3, <1>4, <1>10, IdleFacts DEF LinksInv, LinkUsedOnce, UsedLinks, At
<1> QED
  BY <1>9, <1>11 DEF LinksInv

(***************************************************************************)
(* The reset: a link that has been used before is shared, because whoever  *)
(* used it saw that this worker held it.                                   *)
(***************************************************************************)
LEMMA CommitStep ==
    ASSUME TypeOK, LinksInv, NEW w \in Workers, CommitReset(w)
    PROVE  LinksInv'
<1> DEFINE k == req[w].link
           m == IF link[k].state = "void" THEN "void" ELSE "used"
           d == DeleteUnused(link[k].user)
<1>1. /\ req[w].pc = "reset" /\ k \in Links /\ link[k].user \in Users
      /\ req' = [req EXCEPT ![w] = Idle] /\ raced' = raced
      /\ uses' = [uses EXCEPT ![k] = IF @ = 0 THEN 1 ELSE 2]
      /\ shared' = IF Accepted(w, k) THEN shared \cup {k} ELSE shared
  BY RequestFacts DEF CommitReset, At, TypeOK, Finish, Used
<1>2. \A v \in Workers : req'[v] = IF v = w THEN Idle ELSE req[v]
  BY <1>1 DEF TypeOK
<1>3. /\ d \in [Links -> [state : LinkState, user : Users]]
      /\ \A l \in Links : /\ d[l].user = link[l].user
                          /\ d[l].state \in {"void", link[l].state}
  BY <1>1, DeleteUnusedFacts
<1>4. link' = [d EXCEPT ![k].state = m]
  BY DEF CommitReset
<1>5. /\ \A l \in Links \ {k} : link'[l] = d[l]
      /\ link'[k] = [d[k] EXCEPT !.state = m]
  BY <1>1, <1>3, <1>4
<1>6. link'[k].state = m /\ link'[k].user = link[k].user
  BY <1>1, <1>3, <1>5
<1>7. \A x \in Users : LiveLinks(x)' \subseteq LiveLinks(x) /\ Creators(x)' \subseteq Creators(x)
  <2>1. \A l \in Links : link'[l].state = "live" =>
             link[l].state = "live" /\ link'[l].user = link[l].user
    BY <1>3, <1>5, <1>6
  <2> QED
    BY <2>1, <1>2, IdleFacts DEF LiveLinks, Creators, At
<1>8. LinkIssue'
  BY <1>1, <1>7, IssueShrinks DEF LinksInv
<1>9. shared \subseteq shared' /\ \A l \in Links \ {k} : uses'[l] = uses[l]
  BY <1>1 DEF TypeOK
<1>10. uses[k] \in 0..2 /\ (uses'[k] = IF uses[k] = 0 THEN 1 ELSE 2)
  BY <1>1 DEF TypeOK
<1>11. uses[k] > 0 => k \in shared
  BY <1>1 DEF LinksInv, UsedLinks, At
<1>12. LinkUsedOnce'
  BY <1>9, <1>10, <1>11 DEF LinksInv, LinkUsedOnce
<1>13. \A l \in Links : uses'[l] > 0 => link'[l].state \in {"used", "void"}
  BY <1>3, <1>5, <1>6, <1>9 DEF LinksInv, UsedLinks
<1>14. ASSUME NEW v \in Workers, req'[v].pc = "reset", uses'[req'[v].link] > 0
       PROVE  req'[v].link \in shared'
  <2>1. v # w /\ req'[v] = req[v] /\ req[v].link \in Links
    BY <1>2, <1>14, IdleFacts, RequestFacts DEF TypeOK
  <2>2. CASE req[v].link = k
    BY <1>1, <1>14, <2>1, <2>2 DEF Accepted, At
  <2>3. CASE req[v].link # k
    BY <1>9, <1>14, <2>1, <2>3 DEF LinksInv, UsedLinks, At
  <2> QED
    BY <2>2, <2>3
<1>15. UsedLinks'
  BY <1>13, <1>14 DEF UsedLinks, At
<1> QED
  BY <1>8, <1>12, <1>15 DEF LinksInv

(***************************************************************************)
(* Every step keeps the invariants of the links.                           *)
(***************************************************************************)
LEMMA LinksStep == TypeOK /\ LinksInv /\ [Next]_vars => LinksInv'
<1> SUFFICES ASSUME TypeOK, LinksInv, [Next]_vars PROVE LinksInv'
  OBVIOUS
<1>0. TypeOK'
  BY NextTyped
<1>1. ASSUME UNCHANGED <<link, past, req>> PROVE LinksInv'
  BY <1>1 DEF past, LinksInv, LinkUsedOnce, UsedLinks, LinkIssue, LiveLinks, Creators, At
<1>2. ASSUME UNCHANGED <<link, past>>, NEW w \in Workers, NEW r \in Request,
             r.pc \notin {"create", "reset"}, req' = [req EXCEPT ![w] = r]
      PROVE  LinksInv'
  BY <1>0, <1>2, OtherRequest, LinksShrink
<1>3. ASSUME NEW w \in Workers, IsUserLocked(w) \/ UpdateUserPassword(w) \/ Abort(w)
      PROVE  LinksInv'
  <2>1. UNCHANGED <<link, past>> /\ req' = [req EXCEPT ![w] = Idle]
    BY <1>3 DEF IsUserLocked, UpdateUserPassword, Abort, Finish, tables
  <2> QED
    BY <2>1, <1>2, IdleFacts
<1>4. ASSUME NEW w \in Workers, SetPassword(w) PROVE LinksInv'
  <2>1. req[w] \in Request /\ req[w].pc = "set"
    BY <1>4 DEF SetPassword, At, TypeOK
  <2>2. [req[w] EXCEPT !.pc = "void"] \in Request /\ [req[w] EXCEPT !.pc = "void"].pc = "void"
    BY <2>1, RequestMoves
  <2>3. UNCHANGED <<link, past>> /\ req' = [req EXCEPT ![w] = [req[w] EXCEPT !.pc = "void"]]
    BY <1>4 DEF SetPassword, Step, TypeOK
  <2> QED
    BY <2>2, <2>3, <1>2
<1>5. ASSUME NEW w \in Workers, VoidLinks(w) PROVE LinksInv'
  <2>1. req[w].user \in Users /\ req' = [req EXCEPT ![w] = Idle] /\ UNCHANGED past
    BY <1>5, RequestFacts DEF VoidLinks, At, TypeOK, Finish
  <2>2. \A l \in Links : \/ link'[l] = link[l]
                         \/ link[l].state = "live" /\ link'[l].state = "void"
                                                   /\ link'[l].user = link[l].user
    BY <1>5, <2>1, DeleteUnusedFacts DEF VoidLinks, LiveLinks, DeleteUnused, TypeOK
  <2> QED
    BY <1>0, <2>1, <2>2, OtherRequest, LinksShrink, IdleFacts
<1>6. ASSUME NEW w \in Workers, NEW u \in Users,
             \/ Login(w, u) \/ ChangePassword(w, u)
             \/ AdminSetNewPassword(w, u) \/ RequestReset(w, u)
      PROVE  LinksInv'
  <2>1. /\ [pc |-> "login", user |-> u, role |-> role[u], fresh |-> TRUE] \in Request
        /\ [pc |-> "change", user |-> u, verified |-> password[u]] \in Request
        /\ [pc |-> "set", user |-> u] \in Request /\ [pc |-> "clear", user |-> u] \in Request
    BY DEF Request, TypeOK
  <2>2. UNCHANGED <<link, past>>
    BY <1>6 DEF Login, ChangePassword, AdminSetNewPassword, RequestReset, tables
  <2> QED
    BY <1>6, <2>1, <2>2, <1>2 DEF Login, ChangePassword, AdminSetNewPassword, RequestReset
<1>7. ASSUME NEW w \in Workers, NEW l \in Links, ResetPassword(w, l) PROVE LinksInv'
  <2>1. /\ UNCHANGED <<link, past>> /\ link[l].state = "live"
        /\ \A v \in Workers : req'[v] = IF v = w THEN [pc |-> "reset", link |-> l] ELSE req[v]
    BY <1>7 DEF ResetPassword, tables, TypeOK
  <2>2. \A u \in Users : Creators(u)' \subseteq Creators(u)
    BY <2>1 DEF Creators, At
  <2> QED
    BY <1>0, <2>1, <2>2, LinksShrink
<1>8. ASSUME ExpireLink PROVE LinksInv'
  <2>1. \A l \in Links : \/ link'[l] = link[l]
                         \/ link[l].state = "live" /\ link'[l].state = "void"
                                                   /\ link'[l].user = link[l].user
    BY <1>8 DEF ExpireLink, TypeOK
  <2>2. UNCHANGED <<past, req>>
    BY <1>8 DEF ExpireLink
  <2>3. \A u \in Users : Creators(u)' \subseteq Creators(u)
    BY <2>2 DEF Creators, At
  <2> QED
    BY <1>0, <2>1, <2>2, <2>3, LinksShrink
<1>9. CASE Refresh \/ ExpireToken
  BY <1>1, <1>9 DEF Refresh, ExpireToken, tables
<1>10. ASSUME NEW u \in Users, LockUser(u) \/ UnlockUser(u) PROVE LinksInv'
  BY <1>1, <1>10 DEF LockUser, UnlockUser
<1>11. ASSUME NEW u \in Users, UpdateUserRole(u) PROVE LinksInv'
  <2>1. \A v \in Workers : req'[v].pc = req[v].pc
                           /\ (req[v].pc # "login" => req'[v] = req[v])
    <3> SUFFICES ASSUME NEW v \in Workers
                 PROVE  req'[v].pc = req[v].pc /\ (req[v].pc # "login" => req'[v] = req[v])
      OBVIOUS
    <3>1. req[v] \in Request
      BY DEF TypeOK
    <3> QED
      BY <1>11, <3>1, LoginStale DEF UpdateUserRole, At
  <2>2. UNCHANGED <<link, past>>
    BY <1>11 DEF UpdateUserRole
  <2>3. \A x \in Users : Creators(x)' \subseteq Creators(x)
    BY <2>1 DEF Creators, At
  <2> QED
    BY <1>0, <2>1, <2>2, <2>3, LinksShrink
<1>12. CASE UNCHANGED vars
  BY <1>1, <1>12 DEF vars, tables, past
<1> QED
  BY <1>3, <1>4, <1>5, <1>6, <1>7, <1>8, <1>9, <1>10, <1>11, <1>12,
     ClearStep, CreateStep, CommitStep DEF Next

(***************************************************************************)
(* No link has been issued at first.                                       *)
(***************************************************************************)
LEMMA LinksInit == Init => LinksInv
<1> SUFFICES ASSUME Init PROVE LinksInv
  OBVIOUS
<1>1. \A u \in Users : LiveLinks(u) = {} /\ Creators(u) = {}
  BY DEF Init, LiveLinks, Creators, At, Idle
<1> QED
  BY <1>1 DEF Init, LinksInv, LinkUsedOnce, UsedLinks, LinkIssue, At, Idle

(***************************************************************************)
(* A link sets a password twice only if two resets had accepted it before  *)
(* either of them committed.                                               *)
(***************************************************************************)
THEOREM LinksUsedOnce == Spec => []LinkUsedOnce
<1>1. LinksInv => LinkUsedOnce
  BY DEF LinksInv
<1> QED
  BY <1>1, LinksInit, LinksStep, Typed, PTL DEF Spec

(***************************************************************************)
(* An account has two valid links only while two of its requests for a     *)
(* link have overlapped and no later one has repaired it.                  *)
(***************************************************************************)
THEOREM LinksOneLive == Spec => []OneLiveLink
<1>1. TypeOK /\ LinksInv => OneLiveLink
  <2> SUFFICES ASSUME LinksInv, NEW u \in Users, u \notin raced
               PROVE  ~(Cardinality(LiveLinks(u)) > 1)
    BY DEF OneLiveLink
  <2>1. \A l, m \in LiveLinks(u) : l = m
    BY DEF LinksInv, LinkIssue
  <2>2. CASE LiveLinks(u) = {}
    BY <2>2, FS_EmptySet
  <2>3. ASSUME NEW l \in LiveLinks(u) PROVE ~(Cardinality(LiveLinks(u)) > 1)
    <3>1. LiveLinks(u) = {l}
      BY <2>1, <2>3
    <3>2. Cardinality({l}) = 1
      BY FS_Singleton
    <3> QED
      BY <3>1, <3>2
  <2> QED
    BY <2>2, <2>3
<1> QED
  BY <1>1, LinksInit, LinksStep, Typed, PTL DEF Spec
=============================================================================
