---------------------------- MODULE Credentials ----------------------------
(***************************************************************************)
(* How an account proves who it is: the tokens of Login and Refresh and    *)
(* the change of a password in service/identity.go, the reset links and    *)
(* the administrator's new password in service/password_reset.go.  Tokens  *)
(* are stored nowhere: a role they carry is only corrected when they       *)
(* expire or are refreshed.  A worker is one HTTP request; each step is    *)
(* one statement, or one transaction where nothing is read before it       *)
(* writes.  Roles change by AdminSetRole and by the approval of an         *)
(* affiliate (module Accounts).                                            *)
(***************************************************************************)
EXTENDS Naturals, FiniteSets

CONSTANTS Users, Roles, Passwords, Links, Workers

ASSUME CredentialsAssumption == IsFiniteSet(Links)

VARIABLES role,      \* users.role
          password,  \* users.password_hash
          locked,    \* locked_users
          tokens,    \* tokens in the clients' hands; fresh: no role change since theirs was read
          link,      \* password_reset_tokens: state and user_id
          uses,      \* history: how often a link has set a password: never, once (1), again (2)
          shared,    \* history: links that two resets had accepted before either committed
          raced,     \* history: accounts for which two links were issued at the same time
          req        \* what each worker is doing

tables == <<role, password, locked, link>>
past   == <<uses, shared, raced>>
vars   == <<tables, tokens, past, req>>

Kinds     == {"access", "refresh"}
LinkState == {"none", "live", "used", "void"}
Idle      == [pc |-> "idle"]
Request   == {Idle} \cup [pc : {"login"}, user : Users, role : Roles, fresh : BOOLEAN]
                    \cup [pc : {"change"}, user : Users, verified : Passwords]
                    \cup [pc : {"clear", "create", "set", "void"}, user : Users]
                    \cup [pc : {"reset"}, link : Links]

Token(u, k, r, f) == [user |-> u, kind |-> k, role |-> r, fresh |-> f]
At(w, pc)   == req[w].pc = pc
Finish(w)   == req' = [req EXCEPT ![w] = Idle]
Step(w, pc) == req' = [req EXCEPT ![w].pc = pc]
LiveLinks(u) == {l \in Links : link[l].state = "live" /\ link[l].user = u}

TypeOK ==
    /\ role \in [Users -> Roles] /\ password \in [Users -> Passwords]
    /\ locked \subseteq Users
    /\ tokens \subseteq [user : Users, kind : Kinds, role : Roles, fresh : BOOLEAN]
    /\ link \in [Links -> [state : LinkState, user : Users]]
    /\ uses \in [Links -> 0..2] /\ shared \subseteq Links /\ raced \subseteq Users
    /\ req \in [Workers -> Request]

Init ==
    /\ role \in [Users -> Roles] /\ password \in [Users -> Passwords]
    /\ locked = {} /\ tokens = {}
    /\ link \in [Links -> [state : {"none"}, user : Users]]
    /\ uses = [l \in Links |-> 0] /\ shared = {} /\ raced = {}
    /\ req = [w \in Workers |-> Idle]

-----------------------------------------------------------------------------
(***************************************************************************)
(* Tokens.  Login reads the account and compares the password, then asks   *)
(* whether the account is locked (an error of that query counts as no),    *)
(* then issues both tokens with the role it has read.  Refresh asks only   *)
(* for the account.                                                        *)
(***************************************************************************)
issueTokens(u, r, fresh) ==
    tokens' = tokens \cup {Token(u, k, r, fresh) : k \in Kinds}

Login(w, u) ==
    /\ At(w, "idle")
    /\ req' = [req EXCEPT ![w] = [pc |-> "login", user |-> u, role |-> role[u], fresh |-> TRUE]]
    /\ UNCHANGED <<tables, tokens, past>>

IsUserLocked(w) ==
    /\ At(w, "login")
    /\ \/ issueTokens(req[w].user, req[w].role, req[w].fresh)
       \/ req[w].user \in locked /\ UNCHANGED tokens
    /\ Finish(w)
    /\ UNCHANGED <<tables, past>>

\* mutant: the new tokens carry the role of the old one
RefreshClaims ==
    /\ \E t \in tokens :
          t.kind = "refresh" /\ issueTokens(t.user, t.role, TRUE)
    /\ UNCHANGED <<tables, past, req>>

Refresh ==
    /\ \E t \in tokens :
          t.kind = "refresh" /\ issueTokens(t.user, role[t.user], TRUE)
    /\ UNCHANGED <<tables, past, req>>

ExpireToken ==
    /\ \E t \in tokens : tokens' = tokens \ {t}
    /\ UNCHANGED <<tables, past, req>>

\* A change of the role makes the tokens, and the logins that have read it, stale.
UpdateUserRole(u) ==
    /\ \E r \in Roles \ {role[u]} : role' = [role EXCEPT ![u] = r]
    /\ tokens' = {IF t.user = u THEN [t EXCEPT !.fresh = FALSE] ELSE t : t \in tokens}
    /\ req' = [w \in Workers |-> IF At(w, "login") /\ req[w].user = u
                                 THEN [req[w] EXCEPT !.fresh = FALSE] ELSE req[w]]
    /\ UNCHANGED <<password, locked, link, past>>

LockUser(u) ==
    /\ locked' = locked \cup {u}
    /\ UNCHANGED <<role, password, link, tokens, past, req>>
UnlockUser(u) ==
    /\ locked' = locked \ {u}
    /\ UNCHANGED <<role, password, link, tokens, past, req>>

-----------------------------------------------------------------------------
(***************************************************************************)
(* ChangePassword compares the current password, then updates the row.     *)
(***************************************************************************)
Authenticated(u) == \E t \in tokens : t.user = u /\ t.kind = "access"

ChangePassword(w, u) ==
    /\ At(w, "idle")
    /\ Authenticated(u)
    /\ req' = [req EXCEPT ![w] = [pc |-> "change", user |-> u, verified |-> password[u]]]
    /\ UNCHANGED <<tables, tokens, past>>

UpdateUserPassword(w) ==
    /\ At(w, "change")
    /\ \E p \in Passwords \ {req[w].verified} : password' = [password EXCEPT ![req[w].user] = p]
    /\ Finish(w)
    /\ UNCHANGED <<role, locked, link, tokens, past>>

(***************************************************************************)
(* AdminSetNewPassword: three statements of their own; an error of the one *)
(* that deletes the links is ignored.                                      *)
(***************************************************************************)
AdminSetNewPassword(w, u) ==
    /\ At(w, "idle")
    /\ req' = [req EXCEPT ![w] = [pc |-> "set", user |-> u]]
    /\ UNCHANGED <<tables, tokens, past>>

SetPassword(w) ==
    /\ At(w, "set")
    /\ \E p \in Passwords : password' = [password EXCEPT ![req[w].user] = p]
    /\ Step(w, "void")
    /\ UNCHANGED <<role, locked, link, tokens, past>>

DeleteUnused(u) == [l \in Links |-> IF l \in LiveLinks(u) THEN [link[l] EXCEPT !.state = "void"]
                                                          ELSE link[l]]

VoidLinks(w) ==
    /\ At(w, "void")
    /\ link' \in {DeleteUnused(req[w].user), link}
    /\ Finish(w)
    /\ UNCHANGED <<role, password, locked, tokens, past>>

-----------------------------------------------------------------------------
(***************************************************************************)
(* RequestReset: the unused links of the account are deleted, then a new   *)
(* one is inserted and sent.  Two requests may both delete before either   *)
(* inserts.                                                                *)
(***************************************************************************)
RequestReset(w, u) ==
    /\ At(w, "idle")
    /\ req' = [req EXCEPT ![w] = [pc |-> "clear", user |-> u]]
    /\ UNCHANGED <<tables, tokens, past>>

Creating(w, u) == \E v \in Workers \ {w} : At(v, "create") /\ req[v].user = u

\* mutant: a new link leaves the older ones valid
KeepUnused(w) ==
    LET u == req[w].user IN
    /\ At(w, "clear")
    /\ raced' = IF Creating(w, u) THEN raced \cup {u} ELSE raced \ {u}
    /\ Step(w, "create")
    /\ UNCHANGED <<tables, tokens, uses, shared>>

ClearUnused(w) ==
    LET u == req[w].user IN
    /\ At(w, "clear")
    /\ link' = DeleteUnused(u)
    /\ raced' = IF Creating(w, u) THEN raced \cup {u} ELSE raced \ {u}
    /\ Step(w, "create")
    /\ UNCHANGED <<role, password, locked, tokens, uses, shared>>

CreateLink(w) ==
    /\ At(w, "create")
    /\ \E l \in Links :
          /\ link[l].state = "none"
          /\ link' = [link EXCEPT ![l] = [state |-> "live", user |-> req[w].user]]
    /\ Finish(w)
    /\ UNCHANGED <<role, password, locked, tokens, past>>

\* A link past its time is refused like one that was deleted.
ExpireLink ==
    /\ \E l \in Links : /\ link[l].state = "live"
                        /\ link' = [link EXCEPT ![l].state = "void"]
    /\ UNCHANGED <<role, password, locked, tokens, past, req>>

(***************************************************************************)
(* ResetPassword: the link is checked first; the transaction then sets the *)
(* password, marks the link (whatever its state is by now, if its row is   *)
(* still there) and deletes the other unused links of the account.         *)
(***************************************************************************)
ResetPassword(w, l) ==
    /\ At(w, "idle")
    /\ link[l].state = "live"
    /\ req' = [req EXCEPT ![w] = [pc |-> "reset", link |-> l]]
    /\ UNCHANGED <<tables, tokens, past>>

Used(l) == uses' = [uses EXCEPT ![l] = IF @ = 0 THEN 1 ELSE 2]
Accepted(w, l) == \E v \in Workers \ {w} : At(v, "reset") /\ req[v].link = l

\* mutant: the link is not marked, and kept by the deletion of the others
CommitUnmarked(w) ==
    LET l == req[w].link IN
    /\ At(w, "reset")
    /\ \E p \in Passwords : password' = [password EXCEPT ![link[l].user] = p]
    /\ link' = [DeleteUnused(link[l].user) EXCEPT ![l] = link[l]]
    /\ Used(l)
    /\ shared' = IF Accepted(w, l) THEN shared \cup {l} ELSE shared
    /\ Finish(w)
    /\ UNCHANGED <<role, locked, tokens, raced>>

CommitReset(w) ==
    LET l == req[w].link
        marked == IF link[l].state = "void" THEN "void" ELSE "used" IN
    /\ At(w, "reset")
    /\ \E p \in Passwords : password' = [password EXCEPT ![link[l].user] = p]
    /\ link' = [DeleteUnused(link[l].user) EXCEPT ![l].state = marked]
    /\ Used(l)
    /\ shared' = IF Accepted(w, l) THEN shared \cup {l} ELSE shared
    /\ Finish(w)
    /\ UNCHANGED <<role, locked, tokens, raced>>

\* A crash, a lost connection or an error between two steps.
Abort(w) == ~At(w, "idle") /\ Finish(w) /\ UNCHANGED <<tables, tokens, past>>

Next ==
    \/ \E w \in Workers :
          \/ IsUserLocked(w) \/ UpdateUserPassword(w) \/ SetPassword(w) \/ VoidLinks(w)
          \/ ClearUnused(w) \/ CreateLink(w) \/ CommitReset(w) \/ Abort(w)
          \/ \E u \in Users : \/ Login(w, u) \/ ChangePassword(w, u)
                              \/ AdminSetNewPassword(w, u) \/ RequestReset(w, u)
          \/ \E l \in Links : ResetPassword(w, l)
    \/ Refresh \/ ExpireToken \/ ExpireLink
    \/ \E u \in Users : UpdateUserRole(u) \/ LockUser(u) \/ UnlockUser(u)

Spec == Init /\ [][Next]_vars

-----------------------------------------------------------------------------
(***************************************************************************)
(* A token says what its account may do: only a token, or a login, older   *)
(* than the last change of the role may carry another role, so after the   *)
(* lifetime of the tokens a changed role is in force, also for clients who *)
(* have refreshed all the time.                                            *)
(***************************************************************************)
FreshTokensCurrent == \A t \in tokens : t.fresh => t.role = role[t.user]

(***************************************************************************)
(* A link sets a password once ("dung 1 lan"), unless a second request had *)
(* already been accepted when the first one committed.                     *)
(***************************************************************************)
LinkUsedOnce == \A l \in Links : uses[l] = 2 => l \in shared

(***************************************************************************)
(* An account has one valid link at most, the last one sent, unless two    *)
(* were issued at the same time; the next issue repairs that.              *)
(***************************************************************************)
OneLiveLink == \A u \in Users : Cardinality(LiveLinks(u)) > 1 => u \in raced

-----------------------------------------------------------------------------
(***************************************************************************)
(* What the comments say and the code does not keep: TLC finds a           *)
(* counterexample when one of these is named in the configuration.         *)
(***************************************************************************)
(***************************************************************************)
(* "re-verifying the current one": what ChangePassword replaces is the     *)
(* password it has verified.                                               *)
(***************************************************************************)
ReplacesVerified ==
    [][\A w \in Workers : At(w, "change") /\ UpdateUserPassword(w)
                             => password[req[w].user] = req[w].verified]_vars

(***************************************************************************)
(* "dung 1 lan": a link is used once.                                      *)
(***************************************************************************)
SingleUseLink == \A l \in Links : uses[l] <= 1
=============================================================================
