------------------------------- MODULE Accounts -------------------------------
(***************************************************************************)
(* Accounts and the tokens that stand for their sessions: UserService,     *)
(* AuthService and their repositories, run by several request sessions     *)
(* over one database.                                                      *)
(*                                                                         *)
(* A request reads first and holds the write lock from its first flush to  *)
(* the commit, as in module Reservations: one action for each read that a  *)
(* decision rests on, one from the flush to the commit.  A column that is  *)
(* assigned the value it was loaded with is not written (Written).         *)
(*                                                                         *)
(* An administrator may always be found (module Routing has roles and      *)
(* groups), names are abstracted to the id of the row, a password to the   *)
(* number of times it was set, and a clock to tokens that expire.          *)
(***************************************************************************)
EXTENDS Naturals, Sequences

CONSTANTS
    Users,       \* ids of the users table
    Founders,    \* those that create_admin.py has made
    Sessions,    \* request sessions
    MaxWrites    \* bound: tokens, links and passwords of one user

ASSUME AccountConstantsOK ==
    /\ Founders \subseteq Users
    /\ MaxWrites \in Nat

VARIABLES
    account,  \* users.status and users.is_active
    pw,       \* users.password_hash: which of the passwords set, in order
    tokens,   \* the refresh_tokens table
    links,    \* the password_reset_tokens table
    access,   \* the users who were issued an access token
    proc,     \* what each session has read and is about to write
    resets,   \* history: the resets completed
    crossed   \* history: two requests have run at the same time

tables == <<account, pw, tokens, links>>
vars == <<tables, access, proc, resets, crossed>>

UserStatus == {"PENDING", "APPROVED", "REJECTED", "DISABLED"}

\* The row does not exist yet, or was deleted for good.
NoRow == {[status |-> "ABSENT", active |-> FALSE],
          [status |-> "GONE", active |-> FALSE]}

AccountRow == [status : UserStatus, active : BOOLEAN]

\* History: parent, the token exchanged for this one, or 0; line, the token
\* of the login it descends from; proof, the password verified then; born, the
\* password when it was inserted; seen, the tokens there were when parent was
\* read; open, whether the account was in good standing when it was inserted.
TokenRow == [user : Users, revoked : BOOLEAN, expired : BOOLEAN,
             parent : Nat, line : Nat, proof : Nat, born : Nat, seen : Nat,
             open : BOOLEAN]

LinkRow == [user : Users, used : BOOLEAN, expired : BOOLEAN]

Idle == [pc |-> "idle"]

\* The columns of an account that a request will write.
Changes == {[c \in S |-> row[c]] :
                S \in SUBSET {"status", "active"}, row \in AccountRow}

Ops == {"enable", "disable", "delete", "reactivate", "approve", "reject"}

ProcState ==
    {Idle}
    \union [pc : {"manage"}, user : Users, set : Changes]
    \union [pc : {"login"}, user : Users, proof : Nat]
    \union [pc : {"refresh"}, token : Nat, seen : Nat]
    \union [pc : {"change", "link"}, user : Users]
    \union [pc : {"check", "reset"}, link : Nat, seen : Nat]

Exists(u) == account[u] \notin NoRow

\* The bound on what is inserted for u.
Room(u) == Len(tokens) + Len(links) + pw[u] < MaxWrites

-----------------------------------------------------------------------------
(* Near misses: plausible wrong versions of definitions below, named by    *)
(* the mutants of the project and used by no action.                       *)

\* A revocation that reaches only the sessions opened by a password.
RevokesLogins(u) ==
    [i \in DOMAIN tokens |-> IF tokens[i].user = u /\ tokens[i].parent = 0
                             THEN [tokens[i] EXCEPT !.revoked = TRUE]
                             ELSE tokens[i]]

\* A token is exchanged and stays; a used link stays open.
Unspent(t) == tokens
Unused(l) == links

\* Good standing by the flag alone, as get_current_user asks.
IsActive(row) == row.active

\* The database does not enforce its foreign keys.
DeletesReferenced(u) ==
    /\ Exists(u)
    /\ account' = [account EXCEPT ![u] = [status |-> "GONE", active |-> FALSE]]
    /\ UNCHANGED <<pw, tokens, links, access, proc, resets, crossed>>

-----------------------------------------------------------------------------
(* Repositories and pure parts of the services                              *)

\* RefreshTokenRepository.revoke
Revoke(t) == [tokens EXCEPT ![t].revoked = TRUE]

\* RefreshTokenRepository.revoke_all_for_user: one UPDATE
RevokeAll(u) ==
    [i \in DOMAIN tokens |-> IF tokens[i].user = u
                             THEN [tokens[i] EXCEPT !.revoked = TRUE]
                             ELSE tokens[i]]

\* PasswordResetRepository.mark_used
MarkUsed(l) == [links EXCEPT ![l].used = TRUE]

\* PasswordResetRepository.invalidate_all_for_user: one UPDATE
Invalidated(u) ==
    [i \in DOMAIN links |-> IF links[i].user = u
                            THEN [links[i] EXCEPT !.used = TRUE]
                            ELSE links[i]]

\* UserService.update with is_active: enabling lifts DISABLED, and only that.
Updated(active, row) ==
    [status |-> IF active /\ row.status = "DISABLED" THEN "APPROVED"
                ELSE row.status,
     active |-> active]

\* UserService.delete, which keeps the row.
Deleted(row) == [status |-> "DISABLED", active |-> FALSE]

Reactivated(row) == [status |-> "APPROVED", active |-> TRUE]

\* process_approval: an approval does not touch the flag.
Decided(approve, row) ==
    IF approve THEN [row EXCEPT !.status = "APPROVED"]
    ELSE [status |-> "REJECTED", active |-> FALSE]

Outcome(op, row) ==
    CASE op = "enable" -> Updated(TRUE, row)
      [] op = "disable" -> Updated(FALSE, row)
      [] op = "delete" -> Deleted(row)
      [] op = "reactivate" -> Reactivated(row)
      [] op \in {"approve", "reject"} -> Decided(op = "approve", row)

\* The ORM flushes the columns that differ from what was loaded.
Dirty(seen, new) == [c \in {d \in DOMAIN seen : new[d] # seen[d]} |-> new[c]]

Written(row, set) ==
    [c \in DOMAIN row |-> IF c \in DOMAIN set THEN set[c] ELSE row[c]]

\* What refresh, request_password_reset and reset_password ask of a user.
InGoodStanding(row) == row.active /\ row.status = "APPROVED"

\* authenticate, after the password; PENDING is refused before the rest.
MayLogin(row) ==
    /\ row.status # "PENDING"
    /\ row.status \notin {"REJECTED", "DISABLED"}
    /\ row.active

\* process_approval decides on PENDING accounts only.
Decidable(op, row) ==
    op \in {"approve", "reject"} => row.status = "PENDING"

-----------------------------------------------------------------------------

Init ==
    /\ account = [u \in Users |-> IF u \in Founders
                    THEN [status |-> "APPROVED", active |-> TRUE]
                    ELSE [status |-> "ABSENT", active |-> FALSE]]
    /\ pw = [u \in Users |-> 0]
    /\ tokens = <<>>
    /\ links = <<>>
    /\ access = {}
    /\ proc = [s \in Sessions |-> Idle]
    /\ resets = <<>>
    /\ crossed = FALSE

\* A request begins; history notes whether another one is running.
Begins(s, next) ==
    /\ proc[s] = Idle
    /\ proc' = [proc EXCEPT ![s] = next]
    /\ crossed' = (crossed \/ \E r \in Sessions \ {s} : proc[r] # Idle)

\* The same for a request that is one action.
Passes ==
    /\ crossed' = (crossed \/ \E s \in Sessions : proc[s] # Idle)
    /\ UNCHANGED proc

Goes(s, next) ==
    /\ proc' = [proc EXCEPT ![s] = next]
    /\ UNCHANGED crossed

Ends(s) == Goes(s, Idle)

-----------------------------------------------------------------------------
(* UserService                                                              *)

\* AuthService.register; username and email are unique in the table, so a
\* second insert for the same row fails whatever the checks have read.
Register(u) ==
    /\ account[u].status = "ABSENT"
    /\ account' = [account EXCEPT ![u] = [status |-> "PENDING", active |-> TRUE]]
    /\ Passes
    /\ UNCHANGED <<pw, tokens, links, access, resets>>

\* UserService.create: an administrator makes an approved account.
Create(u) ==
    /\ account[u].status = "ABSENT"
    /\ account' = [account EXCEPT ![u] = [status |-> "APPROVED", active |-> TRUE]]
    /\ Passes
    /\ UNCHANGED <<pw, tokens, links, access, resets>>

\* update, delete, reactivate and process_approval load the row ...
ManageRead(s) ==
    /\ \E op \in Ops, u \in Users :
        /\ Exists(u)
        /\ Decidable(op, account[u])
        /\ Begins(s, [pc |-> "manage", user |-> u,
                      set |-> Dirty(account[u], Outcome(op, account[u]))])
    /\ UNCHANGED <<tables, access, resets>>

\* ... and write what they changed of it.
ManageCommit(s) ==
    LET u == proc[s].user IN
    /\ proc[s].pc = "manage"
    /\ Exists(u)
    /\ account' = [account EXCEPT ![u] = Written(@, proc[s].set)]
    /\ Ends(s)
    /\ UNCHANGED <<pw, tokens, links, access, resets>>

\* hard_delete: the foreign keys refuse it while a row refers to the account.
HardDelete(u) ==
    /\ Exists(u)
    /\ \A i \in DOMAIN tokens : tokens[i].user # u
    /\ \A i \in DOMAIN links : links[i].user # u
    /\ account' = [account EXCEPT ![u] = [status |-> "GONE", active |-> FALSE]]
    /\ Passes
    /\ UNCHANGED <<pw, tokens, links, access, resets>>

-----------------------------------------------------------------------------
(* AuthService: login, refresh, logout                                      *)

\* _issue_token_pair
Issue(table, u, parent, line, proof, seen) ==
    Append(table,
        [user |-> u, revoked |-> FALSE, expired |-> FALSE,
         parent |-> parent, line |-> line, proof |-> proof, born |-> pw[u],
         seen |-> seen, open |-> MayLogin(account[u])])

\* authenticate: the user row is read once, with hash, status and flag.
LoginRead(s) ==
    /\ \E u \in Users :
        /\ Exists(u)
        /\ MayLogin(account[u])
        /\ Begins(s, [pc |-> "login", user |-> u, proof |-> pw[u]])
    /\ UNCHANGED <<tables, access, resets>>

LoginCommit(s) ==
    LET u == proc[s].user IN
    /\ proc[s].pc = "login"
    /\ Exists(u)
    /\ Room(u)
    /\ tokens' = Issue(tokens, u, 0, Len(tokens) + 1, proc[s].proof, 0)
    /\ access' = access \union {u}
    /\ Ends(s)
    /\ UNCHANGED <<account, pw, links, resets>>

\* refresh: the token ...
RefreshRead(s) ==
    /\ \E t \in DOMAIN tokens :
        /\ ~tokens[t].revoked
        /\ ~tokens[t].expired
        /\ Begins(s, [pc |-> "refresh", token |-> t, seen |-> Len(tokens)])
    /\ UNCHANGED <<tables, access, resets>>

\* ... is revoked, and the user is read under the lock that this takes.
RefreshCommit(s) ==
    LET t == proc[s].token
        u == tokens[t].user IN
    /\ proc[s].pc = "refresh"
    /\ InGoodStanding(account[u])
    /\ Room(u)
    /\ tokens' = Issue(Revoke(t), u, t, tokens[t].line, tokens[t].proof,
                     proc[s].seen)
    /\ access' = access \union {u}
    /\ Ends(s)
    /\ UNCHANGED <<account, pw, links, resets>>

\* The account is not in good standing: the error rolls the revocation back.
RefreshRefused(s) ==
    /\ proc[s].pc = "refresh"
    /\ ~InGoodStanding(account[tokens[proc[s].token].user])
    /\ Ends(s)
    /\ UNCHANGED <<tables, access, resets>>

\* logout through the API.  The page only deletes its cookies.
Logout(t) ==
    /\ ~tokens[t].expired
    /\ tokens' = Revoke(t)
    /\ Passes
    /\ UNCHANGED <<account, pw, links, access, resets>>

-----------------------------------------------------------------------------
(* AuthService: passwords                                                   *)

\* change_password: get_current_user asks for the flag and not the status, and
\* the present password is verified on the row it has loaded.  An access token
\* that has expired is one that nobody presents any more.
ChangeRead(s) ==
    /\ \E u \in access :
        /\ account[u].active
        /\ Begins(s, [pc |-> "change", user |-> u])
    /\ UNCHANGED <<tables, access, resets>>

SetPassword(u) ==
    /\ Room(u)
    /\ pw' = [pw EXCEPT ![u] = @ + 1]
    /\ tokens' = RevokeAll(u)

ChangeCommit(s) ==
    /\ proc[s].pc = "change"
    /\ Exists(proc[s].user)
    /\ SetPassword(proc[s].user)
    /\ Ends(s)
    /\ UNCHANGED <<account, links, access, resets>>

\* request_password_reset
LinkRead(s) ==
    /\ \E u \in Users :
        /\ InGoodStanding(account[u])
        /\ Begins(s, [pc |-> "link", user |-> u])
    /\ UNCHANGED <<tables, access, resets>>

LinkCommit(s) ==
    LET u == proc[s].user IN
    /\ proc[s].pc = "link"
    /\ Exists(u)
    /\ Room(u)
    /\ links' = Append(Invalidated(u),
                       [user |-> u, used |-> FALSE, expired |-> FALSE])
    /\ Ends(s)
    /\ UNCHANGED <<account, pw, tokens, access, resets>>

\* reset_password: the link, then its user, then the writes.
ResetRead(s) ==
    /\ \E l \in DOMAIN links :
        /\ ~links[l].used
        /\ ~links[l].expired
        /\ Begins(s, [pc |-> "check", link |-> l, seen |-> Len(resets)])
    /\ UNCHANGED <<tables, access, resets>>

ResetCheck(s) ==
    /\ proc[s].pc = "check"
    /\ IF InGoodStanding(account[links[proc[s].link].user])
       THEN Goes(s, [proc[s] EXCEPT !.pc = "reset"])
       ELSE Ends(s)
    /\ UNCHANGED <<tables, access, resets>>

ResetCommit(s) ==
    LET l == proc[s].link IN
    /\ proc[s].pc = "reset"
    /\ SetPassword(links[l].user)
    /\ links' = MarkUsed(l)
    /\ resets' = Append(resets, [link |-> l, seen |-> proc[s].seen])
    /\ Ends(s)
    /\ UNCHANGED <<account, access>>

-----------------------------------------------------------------------------
(* Time, and requests that fail; of a token that is revoked, and of a link *)
(* that is used, nothing asks whether it has expired.                       *)

TokenExpires(t) ==
    /\ ~tokens[t].revoked
    /\ tokens' = [tokens EXCEPT ![t].expired = TRUE]
    /\ UNCHANGED <<account, pw, links, access, proc, resets, crossed>>

LinkExpires(l) ==
    /\ ~links[l].used
    /\ links' = [links EXCEPT ![l].expired = TRUE]
    /\ UNCHANGED <<account, pw, tokens, access, proc, resets, crossed>>

\* An exception, of the mail server for one: all is rolled back.
Abort(s) ==
    /\ proc[s] # Idle
    /\ Ends(s)
    /\ UNCHANGED <<tables, access, resets>>

\* The commit comes after the response.  When it fails, whoever logged in
\* has an access token and a refresh token that no row knows.
CommitLost(s) ==
    /\ proc[s].pc = "login"
    /\ access' = access \union {proc[s].user}
    /\ Ends(s)
    /\ UNCHANGED <<tables, resets>>

-----------------------------------------------------------------------------

Serve(s) ==
    \/ ManageRead(s) \/ ManageCommit(s)
    \/ LoginRead(s) \/ LoginCommit(s)
    \/ RefreshRead(s) \/ RefreshCommit(s) \/ RefreshRefused(s)
    \/ ChangeRead(s) \/ ChangeCommit(s)
    \/ LinkRead(s) \/ LinkCommit(s)
    \/ ResetRead(s) \/ ResetCheck(s) \/ ResetCommit(s)
    \/ Abort(s) \/ CommitLost(s)

Next ==
    \/ \E u \in Users : Register(u) \/ Create(u) \/ HardDelete(u)
    \/ \E t \in DOMAIN tokens : Logout(t) \/ TokenExpires(t)
    \/ \E l \in DOMAIN links : LinkExpires(l)
    \/ \E s \in Sessions : Serve(s)

Spec == Init /\ [][Next]_vars
=============================================================================
