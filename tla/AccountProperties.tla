-------------------------- MODULE AccountProperties --------------------------
(* What Accounts has to satisfy, and how it implements Keyring.            *)
EXTENDS Accounts

-----------------------------------------------------------------------------
(* Invariants                                                               *)

\* Every variable has its type; a token and a link name an account that is
\* still in the table (the foreign keys of the two token tables).
TypeOK ==
    /\ account \in [Users -> AccountRow \union NoRow]
    /\ pw \in [Users -> Nat]
    /\ tokens \in Seq(TokenRow)
    /\ links \in Seq(LinkRow)
    /\ access \subseteq Users
    /\ proc \in [Sessions -> ProcState]
    /\ resets \in Seq([link : Nat, seen : Nat])
    /\ crossed \in BOOLEAN
    /\ \A i \in DOMAIN tokens : Exists(tokens[i].user)
    /\ \A i \in DOMAIN links : Exists(links[i].user)

\* "Revoking all sessions": a token that is not revoked was inserted after
\* the last change or reset of its owner's password, whatever ran meanwhile.
LiveSinceChange ==
    \A i \in DOMAIN tokens :
        ~tokens[i].revoked => tokens[i].born = pw[tokens[i].user]

\* Single-use rotation: when a token was exchanged twice, the request of the
\* second exchange had read it before the first one was committed.
ReuseNeedsRace ==
    \A i, j \in DOMAIN tokens :
        i < j /\ tokens[i].parent # 0 /\ tokens[i].parent = tokens[j].parent
            => tokens[j].seen < i

\* The same of reset links: the second reset had read the link before the
\* first one marked it used.
LinkReuseNeedsRace ==
    \A i, j \in DOMAIN resets :
        i < j /\ resets[i].link = resets[j].link => resets[j].seen < i

\* What may be used once is used twice by a race only, token or link.
SingleUse == ReuseNeedsRace /\ LinkReuseNeedsRace

\* Requesting a new reset invalidates the earlier ones: one link is open.
OneOpenLink ==
    \A i, j \in DOMAIN links :
        links[i].user = links[j].user /\ ~links[i].used /\ ~links[j].used
            => i = j

\* A token got by exchange was issued to an account that was active and
\* approved at that moment: the row is read under the lock.
ExchangedInGoodStanding ==
    \A i \in DOMAIN tokens : tokens[i].parent # 0 => tokens[i].open

-----------------------------------------------------------------------------
(* Invariants as long as no two requests have crossed                       *)

\* Status and flag agree: who is DISABLED is not active, so get_current_user,
\* which asks for the flag only, and authenticate refuse the same accounts.
DisabledIsInactive ==
    crossed \/ \A u \in Users :
        account[u].status = "DISABLED" => ~account[u].active

\* An account that awaits its approval, or was refused it, never had a token.
NeverApprovedNeverIn ==
    crossed \/ \A u \in Users :
        account[u].status \in {"PENDING", "REJECTED"} =>
            /\ u \notin access
            /\ \A i \in DOMAIN tokens : tokens[i].user # u

\* Whoever is DISABLED is not active, though a refresh token may not be revoked
\* and an access token may last; who was refused or is not approved has neither.
NoWayIn == DisabledIsInactive /\ NeverApprovedNeverIn

\* Whom get_current_user lets pass: it asks for the flag and not the status.
Admitted(u) == u \in access /\ account[u].active

\* Hence it lets nobody pass who is disabled, refused or not yet approved.
OthersNotAdmitted ==
    crossed \/ \A u \in Users :
        account[u].status \in {"DISABLED", "PENDING", "REJECTED"} => ~Admitted(u)

-----------------------------------------------------------------------------
(* Refinement                                                               *)

\* Whose account is in good standing.
Open == {u \in Users : InGoodStanding(account[u])}

\* A token as its owner's key, and those that are in use.
Key(i) == [id |-> i, line |-> tokens[i].line, owner |-> tokens[i].user,
           fits |-> tokens[i].proof]
Keys == {Key(i) : i \in {j \in DOMAIN tokens : ~tokens[j].revoked}}

Abstract == INSTANCE Keyring WITH
    Owners <- Users, Ids <- 1..MaxWrites, open <- Open, lock <- pw, keys <- Keys

\* Requests that do not cross keep what Keyring promises.
AccountsKeepKeys == [][~crossed' => [Abstract!Next]_Abstract!keyring]_vars
=============================================================================
