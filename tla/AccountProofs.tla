---------------------------- MODULE AccountProofs ----------------------------
(***************************************************************************)
(* Theorems about Accounts for every number of users and sessions.  What   *)
(* any step does to the tables of tokens, links and resets is put in one   *)
(* lemma each; the invariants that hold whatever crosses are read off      *)
(* them, with what a session that is about to commit knows of the tables   *)
(* it has read.  As long as no two requests have crossed, a session that   *)
(* runs alone writes over what it has read, so that nobody who is          *)
(* disabled, refused or not yet approved has a way in, and tokens are the  *)
(* keys of Keyring.                                                        *)
(***************************************************************************)
EXTENDS AccountProperties, Tables

-----------------------------------------------------------------------------
(* What sessions know, whatever runs beside them.                          *)

RefreshKnows(w) ==
    /\ w.token \in DOMAIN tokens
    /\ w.seen <= Len(tokens)
    /\ \A i \in DOMAIN tokens : tokens[i].parent = w.token => w.seen < i

ResetKnows(w) ==
    /\ w.link \in DOMAIN links
    /\ w.seen <= Len(resets)
    /\ \A i \in DOMAIN resets : resets[i].link = w.link => w.seen < i

Knows(w) ==
    /\ w.pc = "refresh" => RefreshKnows(w)
    /\ w.pc \in {"check", "reset"} => ResetKnows(w)

\* A token that was exchanged is revoked, a link that was followed is used.
Spent ==
    /\ \A i \in DOMAIN tokens : tokens[i].parent # 0 =>
        /\ tokens[i].parent \in DOMAIN tokens
        /\ tokens[tokens[i].parent].revoked
    /\ \A i \in DOMAIN resets :
        /\ resets[i].link \in DOMAIN links
        /\ links[resets[i].link].used

AccountInv ==
    /\ TypeOK
    /\ \A s \in Sessions : Knows(proc[s])
    /\ Spent
    /\ LiveSinceChange
    /\ ReuseNeedsRace
    /\ LinkReuseNeedsRace
    /\ OneOpenLink
    /\ ExchangedInGoodStanding

LEMMA TablesAre ==
    ASSUME TypeOK
    PROVE  /\ Len(tokens) \in Nat /\ DOMAIN tokens = 1..Len(tokens)
           /\ Len(links) \in Nat /\ DOMAIN links = 1..Len(links)
           /\ Len(resets) \in Nat /\ DOMAIN resets = 1..Len(resets)
           /\ \A i \in DOMAIN tokens :
                /\ tokens[i] \in TokenRow
                /\ tokens[i].user \in Users
                /\ Exists(tokens[i].user)
           /\ \A i \in DOMAIN links :
                /\ links[i] \in LinkRow
                /\ links[i].user \in Users
                /\ Exists(links[i].user)
           /\ \A i \in DOMAIN resets : resets[i] \in [link : Nat, seen : Nat]
<1>1. /\ Len(tokens) \in Nat /\ DOMAIN tokens = 1..Len(tokens)
      /\ Len(links) \in Nat /\ DOMAIN links = 1..Len(links)
      /\ Len(resets) \in Nat /\ DOMAIN resets = 1..Len(resets)
  BY LenProperties DEF TypeOK
<1>2. /\ \A i \in DOMAIN tokens : tokens[i] \in TokenRow
      /\ \A i \in DOMAIN links : links[i] \in LinkRow
      /\ \A i \in DOMAIN resets : resets[i] \in [link : Nat, seen : Nat]
  BY <1>1, ElementOfSeq DEF TypeOK
<1> QED
  BY <1>1, <1>2 DEF TypeOK, TokenRow, LinkRow

LEMMA ExistsIs ==
    ASSUME TypeOK, NEW u \in Users
    PROVE  /\ Exists(u) <=> account[u] \in AccountRow
           /\ Exists(u) <=> account[u].status \in UserStatus
           /\ InGoodStanding(account[u]) => Exists(u)
<1>1. account[u] \in AccountRow \/ account[u] \in NoRow
  BY DEF TypeOK
<1>2. CASE account[u] \in AccountRow
  <2>1. account[u].status \in {"PENDING", "APPROVED", "REJECTED", "DISABLED"}
    BY <1>2 DEF AccountRow, UserStatus
  <2>2. account[u] \notin NoRow
    BY <2>1 DEF NoRow
  <2> QED
    BY <1>2, <2>1, <2>2 DEF Exists, UserStatus
<1>3. CASE account[u] \in NoRow
  <2>1. account[u].status \in {"ABSENT", "GONE"} /\ account[u].active = FALSE
    BY <1>3 DEF NoRow
  <2>2. account[u] \notin AccountRow
    BY <2>1 DEF AccountRow, UserStatus
  <2> QED
    BY <1>3, <2>1, <2>2 DEF Exists, UserStatus, InGoodStanding
<1> QED
  BY <1>1, <1>2, <1>3

LEMMA ProcFields ==
    ASSUME TypeOK, NEW s \in Sessions
    PROVE  /\ proc[s] \in ProcState
           /\ proc[s].pc = "manage" =>
                proc[s].user \in Users /\ proc[s].set \in Changes
           /\ proc[s].pc = "login" =>
                proc[s].user \in Users /\ proc[s].proof \in Nat
           /\ proc[s].pc = "refresh" =>
                proc[s].token \in Nat /\ proc[s].seen \in Nat
           /\ proc[s].pc \in {"change", "link"} => proc[s].user \in Users
           /\ proc[s].pc \in {"check", "reset"} =>
                proc[s].link \in Nat /\ proc[s].seen \in Nat
BY DEF TypeOK, ProcState, Idle

-----------------------------------------------------------------------------
(* Tokens.                                                                 *)

\* q is the token r, perhaps revoked or expired meanwhile.
Aged(r, q) ==
    /\ q \in TokenRow
    /\ q.user = r.user /\ q.parent = r.parent /\ q.line = r.line
    /\ q.proof = r.proof /\ q.born = r.born /\ q.seen = r.seen
    /\ q.open = r.open
    /\ r.revoked => q.revoked

AgedTable(T) ==
    /\ T \in Seq(TokenRow)
    /\ DOMAIN T = DOMAIN tokens
    /\ Len(T) = Len(tokens)
    /\ \A i \in DOMAIN tokens : Aged(tokens[i], T[i])

LEMMA AgedBy ==
    ASSUME TypeOK, NEW f, f \in [DOMAIN tokens -> TokenRow],
           \A i \in DOMAIN tokens : Aged(tokens[i], f[i])
    PROVE  AgedTable(f)
BY TablesAre, TableIsSeq DEF AgedTable

LEMMA SameAged == ASSUME TypeOK PROVE AgedTable(tokens)
BY TablesAre DEF AgedTable, Aged, TypeOK

LEMMA RevokeAges ==
    ASSUME TypeOK, NEW t \in DOMAIN tokens
    PROVE  AgedTable(Revoke(t)) /\ Revoke(t)[t].revoked
           /\ \A i \in DOMAIN tokens : i # t => Revoke(t)[i] = tokens[i]
<1>1. tokens \in [DOMAIN tokens -> TokenRow]
  BY TablesAre, LenProperties DEF TypeOK
<1>2. [tokens[t] EXCEPT !.revoked = TRUE] \in TokenRow
      /\ Aged(tokens[t], [tokens[t] EXCEPT !.revoked = TRUE])
      /\ [tokens[t] EXCEPT !.revoked = TRUE].revoked
  BY TablesAre DEF TokenRow, Aged
<1> DEFINE row == [tokens[t] EXCEPT !.revoked = TRUE]
<1> HIDE DEF row
<1>3. Revoke(t) = [tokens EXCEPT ![t] = row]
  BY DEF Revoke, row
<1>4. /\ Revoke(t) \in [DOMAIN tokens -> TokenRow]
      /\ Revoke(t)[t] = row
      /\ \A i \in DOMAIN tokens : i # t => Revoke(t)[i] = tokens[i]
  BY <1>1, <1>2, <1>3 DEF row
<1>5. \A i \in DOMAIN tokens : Aged(tokens[i], tokens[i])
  BY SameAged DEF AgedTable
<1>6. \A i \in DOMAIN tokens : Aged(tokens[i], Revoke(t)[i])
  BY <1>2, <1>4, <1>5 DEF row
<1>7. AgedTable(Revoke(t))
  BY <1>4, <1>6, AgedBy
<1> QED
  BY <1>2, <1>4, <1>7 DEF row

LEMMA RevokeAllAges ==
    ASSUME TypeOK, NEW u
    PROVE  /\ AgedTable(RevokeAll(u))
           /\ \A i \in DOMAIN tokens :
                IF tokens[i].user = u THEN RevokeAll(u)[i].revoked
                ELSE RevokeAll(u)[i] = tokens[i]
<1>1. \A i \in DOMAIN tokens :
        /\ [tokens[i] EXCEPT !.revoked = TRUE] \in TokenRow
        /\ Aged(tokens[i], [tokens[i] EXCEPT !.revoked = TRUE])
        /\ [tokens[i] EXCEPT !.revoked = TRUE].revoked
        /\ Aged(tokens[i], tokens[i])
        /\ tokens[i] \in TokenRow
  BY TablesAre DEF TokenRow, Aged
<1>2. RevokeAll(u) \in [DOMAIN tokens -> TokenRow]
  BY <1>1 DEF RevokeAll
<1>3. \A i \in DOMAIN tokens : Aged(tokens[i], RevokeAll(u)[i])
  BY <1>1 DEF RevokeAll
<1>4. \A i \in DOMAIN tokens :
        IF tokens[i].user = u THEN RevokeAll(u)[i].revoked
        ELSE RevokeAll(u)[i] = tokens[i]
  BY <1>1 DEF RevokeAll
<1> QED
  BY <1>2, <1>3, <1>4, AgedBy

LEMMA ExpireAges ==
    ASSUME TypeOK, NEW t \in DOMAIN tokens
    PROVE  AgedTable([tokens EXCEPT ![t].expired = TRUE])
<1>1. tokens \in [DOMAIN tokens -> TokenRow]
  BY TablesAre, LenProperties DEF TypeOK
<1>2. [tokens[t] EXCEPT !.expired = TRUE] \in TokenRow
      /\ Aged(tokens[t], [tokens[t] EXCEPT !.expired = TRUE])
  BY TablesAre DEF TokenRow, Aged
<1>3. \A i \in DOMAIN tokens : Aged(tokens[i], tokens[i])
  BY SameAged DEF AgedTable
<1>4. \A i \in DOMAIN tokens :
        Aged(tokens[i], [tokens EXCEPT ![t].expired = TRUE][i])
  BY <1>2, <1>3
<1>5. [tokens EXCEPT ![t].expired = TRUE] \in [DOMAIN tokens -> TokenRow]
  BY <1>1, <1>2
<1> QED
  BY <1>4, <1>5, AgedBy

\* What a step may do to tokens: they age, and at most one is added, for who
\* has logged in or by an exchange.
NewToken(i) ==
    LET q == tokens'[i] IN
    /\ i = Len(tokens) + 1
    /\ UNCHANGED <<account, pw>>
    /\ Exists(q.user)
    /\ q.born = pw[q.user]
    /\ q.parent # 0 => \E s \in Sessions :
        /\ proc[s].pc = "refresh"
        /\ q.parent = proc[s].token
        /\ q.seen = proc[s].seen
        /\ tokens'[q.parent].revoked
        /\ q.open

PasswordSet(u) ==
    /\ pw'[u] = pw[u] + 1
    /\ \A i \in DOMAIN tokens' : tokens'[i].user = u => tokens'[i].revoked

TokenStep ==
    /\ tokens' \in Seq(TokenRow)
    /\ DOMAIN tokens \subseteq DOMAIN tokens'
    /\ \A i \in DOMAIN tokens : Aged(tokens[i], tokens'[i])
    /\ \A i \in DOMAIN tokens' \ DOMAIN tokens : NewToken(i)
    /\ pw' \in [Users -> Nat]
    /\ \A u \in Users : pw'[u] = pw[u] \/ PasswordSet(u)

LEMMA AgedStep ==
    ASSUME TypeOK, AgedTable(tokens'), UNCHANGED pw
    PROVE  TokenStep
BY DEF TokenStep, AgedTable, TypeOK

\* table is T with one more token, for u.
Added(table, T, u, parent, seen) ==
    LET q == table[Len(tokens) + 1] IN
    /\ table \in Seq(TokenRow)
    /\ DOMAIN table = 1..(Len(tokens) + 1)
    /\ \A i \in DOMAIN tokens : table[i] = T[i] /\ Aged(tokens[i], table[i])
    /\ q.user = u /\ q.parent = parent /\ q.seen = seen /\ q.born = pw[u]
    /\ ~q.revoked
    /\ MayLogin(account[u]) => q.open

LEMMA IssueAdds ==
    ASSUME TypeOK, NEW T, AgedTable(T), NEW u \in Users, NEW parent \in Nat,
           NEW line \in Nat, NEW proof \in Nat, NEW seen \in Nat
    PROVE  Added(Issue(T, u, parent, line, proof, seen), T, u, parent, seen)
<1> DEFINE row == [user |-> u, revoked |-> FALSE, expired |-> FALSE,
                   parent |-> parent, line |-> line, proof |-> proof,
                   born |-> pw[u], seen |-> seen, open |-> MayLogin(account[u])]
<1>1. MayLogin(account[u]) \in BOOLEAN
  BY Zenon DEF MayLogin
<1>2. row \in TokenRow
  BY <1>1 DEF TokenRow, TypeOK
<1>3. /\ row.user = u /\ row.parent = parent
      /\ row.seen = seen /\ row.born = pw[u]
      /\ ~row.revoked /\ (MayLogin(account[u]) => row.open)
  OBVIOUS
<1>4. Issue(T, u, parent, line, proof, seen) = Append(T, row)
  BY DEF Issue
<1> HIDE DEF row
<1>5. T \in Seq(TokenRow) /\ Len(T) = Len(tokens) /\ DOMAIN tokens = 1..Len(tokens)
      /\ \A i \in DOMAIN tokens : Aged(tokens[i], T[i])
  BY TablesAre DEF AgedTable
<1> QED
  BY <1>2, <1>3, <1>4, <1>5, AppendRow DEF Added

LEMMA PasswordStep ==
    ASSUME TypeOK, NEW u \in Users, SetPassword(u)
    PROVE  TokenStep
<1>1. /\ pw' = [pw EXCEPT ![u] = @ + 1]
      /\ tokens' = RevokeAll(u)
  BY DEF SetPassword
<1>2. /\ AgedTable(tokens')
      /\ \A i \in DOMAIN tokens : tokens[i].user = u => tokens'[i].revoked
  BY <1>1, RevokeAllAges
<1>3. /\ pw' \in [Users -> Nat]
      /\ pw'[u] = pw[u] + 1
      /\ \A v \in Users : v # u => pw'[v] = pw[v]
  BY <1>1 DEF TypeOK
<1>4. PasswordSet(u)
  BY <1>2, <1>3 DEF PasswordSet, AgedTable, Aged
<1> QED
  BY <1>2, <1>3, <1>4 DEF TokenStep, AgedTable

LEMMA TokenSteps ==
    ASSUME AccountInv, [Next]_vars
    PROVE  TokenStep
<1>0. TypeOK
  BY DEF AccountInv
<1>1. ASSUME UNCHANGED <<tokens, pw>> PROVE TokenStep
  BY <1>0, <1>1, AgedStep, SameAged
<1>2. ASSUME NEW t \in DOMAIN tokens, Logout(t) \/ TokenExpires(t) PROVE TokenStep
  <2>1. UNCHANGED pw /\ (\/ tokens' = Revoke(t)
                         \/ tokens' = [tokens EXCEPT ![t].expired = TRUE])
    BY <1>2 DEF Logout, TokenExpires
  <2> QED
    BY <1>0, <2>1, RevokeAges, ExpireAges, AgedStep
<1>3. ASSUME NEW s \in Sessions, LoginCommit(s) PROVE TokenStep
  <2> DEFINE u == proc[s].user
  <2>1. /\ tokens' = Issue(tokens, u, 0, Len(tokens) + 1, proc[s].proof, 0)
        /\ UNCHANGED <<account, pw>>
        /\ Exists(u) /\ proc[s].pc = "login"
    BY <1>3 DEF LoginCommit
  <2>2. u \in Users /\ proc[s].proof \in Nat /\ Len(tokens) + 1 \in Nat
    BY <1>0, <2>1, ProcFields, TablesAre
  <2>3. Added(tokens', tokens, u, 0, 0)
    BY <1>0, <2>1, <2>2, SameAged, IssueAdds
  <2> HIDE DEF u
  <2>4. DOMAIN tokens = 1..Len(tokens) /\ Len(tokens) \in Nat
    BY <1>0, TablesAre
  <2>5. \A i \in DOMAIN tokens' \ DOMAIN tokens : NewToken(i)
    BY <2>1, <2>3, <2>4 DEF NewToken, Added
  <2>6. pw' \in [Users -> Nat]
    BY <1>0, <2>1 DEF TypeOK
  <2> QED
    BY <2>1, <2>3, <2>4, <2>5, <2>6 DEF TokenStep, Added
<1>4. ASSUME NEW s \in Sessions, RefreshCommit(s) PROVE TokenStep
  <2>1. proc[s].pc = "refresh"
    BY <1>4 DEF RefreshCommit
  <2>2. PICK t \in DOMAIN tokens : t = proc[s].token
    BY <1>0, <2>1, ProcFields DEF AccountInv, Knows, RefreshKnows
  <2>3. PICK u \in Users : u = tokens[t].user /\ Exists(u)
    BY <1>0, TablesAre
  <2>4. PICK T : T = Revoke(t)
    OBVIOUS
  <2>5. /\ tokens' = Issue(T, u, t, tokens[t].line, tokens[t].proof, proc[s].seen)
        /\ UNCHANGED <<account, pw>>
        /\ InGoodStanding(account[u])
    BY <1>4, <2>2, <2>3, <2>4 DEF RefreshCommit
  <2>6. /\ t \in Nat /\ tokens[t].line \in Nat /\ tokens[t].proof \in Nat
        /\ proc[s].seen \in Nat
        /\ DOMAIN tokens = 1..Len(tokens) /\ Len(tokens) \in Nat
    BY <1>0, <2>1, TablesAre, ProcFields DEF TokenRow
  <2>7. MayLogin(account[u])
    BY <2>5 DEF InGoodStanding, MayLogin
  <2>8. AgedTable(T) /\ T[t].revoked
    BY <1>0, <2>4, RevokeAges
  <2>9. Added(tokens', T, u, t, proc[s].seen)
    BY <1>0, <2>5, <2>6, <2>8, IssueAdds
  <2>10. tokens'[t].revoked
    BY <2>8, <2>9 DEF Added
  <2>11. \A i \in DOMAIN tokens' \ DOMAIN tokens : i = Len(tokens) + 1
    BY <2>6, <2>9 DEF Added
  <2>12. NewToken(Len(tokens) + 1)
    BY <2>1, <2>2, <2>3, <2>5, <2>7, <2>9, <2>10 DEF NewToken, Added
  <2>13. pw' \in [Users -> Nat]
    BY <1>0, <2>5 DEF TypeOK
  <2> QED
    BY <2>5, <2>6, <2>9, <2>11, <2>12, <2>13 DEF TokenStep, Added
<1>5. ASSUME NEW s \in Sessions, ChangeCommit(s) PROVE TokenStep
  BY <1>0, <1>5, ProcFields, PasswordStep DEF ChangeCommit
<1>6. ASSUME NEW s \in Sessions, ResetCommit(s) PROVE TokenStep
  <2>1. proc[s].link \in DOMAIN links
    BY <1>6 DEF ResetCommit, AccountInv, Knows, ResetKnows
  <2>2. links[proc[s].link].user \in Users
    BY <1>0, <2>1, TablesAre
  <2> QED
    BY <1>0, <1>6, <2>2, PasswordStep DEF ResetCommit
<1>7. ASSUME NEW u \in Users, Register(u) \/ Create(u) \/ HardDelete(u)
      PROVE  TokenStep
  BY <1>1, <1>7 DEF Register, Create, HardDelete
<1>8. ASSUME NEW s \in Sessions, Serve(s) PROVE TokenStep
  BY <1>1, <1>3, <1>4, <1>5, <1>6, <1>8
  DEF Serve, ManageRead, ManageCommit, LoginRead, RefreshRead, RefreshRefused,
      ChangeRead, LinkRead, LinkCommit, ResetRead, ResetCheck, Abort, CommitLost,
      tables
<1> QED
  BY <1>1, <1>2, <1>7, <1>8 DEF Next, LinkExpires, vars, tables

-----------------------------------------------------------------------------
(* Links and resets.                                                       *)

Kept(r, q) == q \in LinkRow /\ q.user = r.user /\ (r.used => q.used)

KeptTable(L) ==
    /\ L \in Seq(LinkRow)
    /\ DOMAIN L = DOMAIN links
    /\ Len(L) = Len(links)
    /\ \A i \in DOMAIN links : Kept(links[i], L[i])

LEMMA SameKept == ASSUME TypeOK PROVE KeptTable(links)
BY TablesAre DEF KeptTable, Kept, TypeOK

LEMMA WriteKeeps ==
    ASSUME TypeOK, NEW l \in DOMAIN links, NEW row \in LinkRow, Kept(links[l], row)
    PROVE  /\ KeptTable([links EXCEPT ![l] = row])
           /\ [links EXCEPT ![l] = row][l] = row
<1>1. links \in Seq(LinkRow) /\ l \in 1..Len(links) /\ DOMAIN links = 1..Len(links)
  BY TablesAre DEF TypeOK
<1>2. PICK L : L = [links EXCEPT ![l] = row]
  OBVIOUS
<1>3. /\ L \in Seq(LinkRow) /\ Len(L) = Len(links) /\ DOMAIN L = 1..Len(links)
      /\ \A j \in 1..Len(links) : L[j] = IF j = l THEN row ELSE links[j]
  BY <1>1, <1>2, WriteEntry
<1>4. \A i \in DOMAIN links : Kept(links[i], links[i])
  BY SameKept DEF KeptTable
<1> QED
  BY <1>1, <1>2, <1>3, <1>4 DEF KeptTable

LEMMA MarkKeeps ==
    ASSUME TypeOK, NEW l \in DOMAIN links
    PROVE  KeptTable(MarkUsed(l)) /\ MarkUsed(l)[l].used
<1>1. PICK row : row = [links[l] EXCEPT !.used = TRUE]
  OBVIOUS
<1>2. row \in LinkRow /\ Kept(links[l], row) /\ row.used
  BY <1>1, TablesAre DEF LinkRow, Kept
<1>3. MarkUsed(l) = [links EXCEPT ![l] = row]
  BY <1>1 DEF MarkUsed
<1> QED
  BY <1>2, <1>3, WriteKeeps

LEMMA ExpireKeeps ==
    ASSUME TypeOK, NEW l \in DOMAIN links
    PROVE  KeptTable([links EXCEPT ![l].expired = TRUE])
<1>1. PICK row : row = [links[l] EXCEPT !.expired = TRUE]
  OBVIOUS
<1>2. row \in LinkRow /\ Kept(links[l], row)
  BY <1>1, TablesAre DEF LinkRow, Kept
<1>3. [links EXCEPT ![l].expired = TRUE] = [links EXCEPT ![l] = row]
  BY <1>1
<1> QED
  BY <1>2, <1>3, WriteKeeps

LEMMA InvalidatedKeeps ==
    ASSUME TypeOK, NEW u
    PROVE  /\ KeptTable(Invalidated(u))
           /\ \A i \in DOMAIN links : links[i].user = u => Invalidated(u)[i].used
<1>1. \A i \in DOMAIN links :
        /\ [links[i] EXCEPT !.used = TRUE] \in LinkRow
        /\ Kept(links[i], [links[i] EXCEPT !.used = TRUE])
        /\ [links[i] EXCEPT !.used = TRUE].used
        /\ Kept(links[i], links[i])
        /\ links[i] \in LinkRow
  BY TablesAre DEF LinkRow, Kept
<1>2. Invalidated(u) \in [DOMAIN links -> LinkRow]
  BY <1>1 DEF Invalidated
<1>3. \A i \in DOMAIN links : Kept(links[i], Invalidated(u)[i])
  BY <1>1 DEF Invalidated
<1>4. \A i \in DOMAIN links : links[i].user = u => Invalidated(u)[i].used
  BY <1>1 DEF Invalidated
<1>5. DOMAIN links = 1..Len(links) /\ Len(links) \in Nat
  BY TablesAre
<1> QED
  BY <1>2, <1>3, <1>4, <1>5, TableIsSeq DEF KeptTable

\* What a step may do to links: they are used, and at most one is added, for
\* an account whose other links are then used.
NewLink(i) ==
    /\ i = Len(links) + 1
    /\ UNCHANGED account
    /\ Exists(links'[i].user)
    /\ \A j \in DOMAIN links : links[j].user = links'[i].user => links'[j].used

NewReset ==
    \E s \in Sessions :
        /\ proc[s].pc = "reset"
        /\ resets' = Append(resets, [link |-> proc[s].link, seen |-> proc[s].seen])
        /\ links'[proc[s].link].used

LinkStep ==
    /\ links' \in Seq(LinkRow)
    /\ DOMAIN links \subseteq DOMAIN links'
    /\ \A i \in DOMAIN links : Kept(links[i], links'[i])
    /\ \A i \in DOMAIN links' \ DOMAIN links : NewLink(i)
    /\ UNCHANGED resets \/ NewReset

LEMMA KeptStep ==
    ASSUME TypeOK, KeptTable(links'), UNCHANGED resets
    PROVE  LinkStep
BY DEF LinkStep, KeptTable

LEMMA LinkSteps ==
    ASSUME AccountInv, [Next]_vars
    PROVE  LinkStep
<1>0. TypeOK
  BY DEF AccountInv
<1>1. ASSUME UNCHANGED <<links, resets>> PROVE LinkStep
  BY <1>0, <1>1, KeptStep, SameKept
<1>2. ASSUME NEW l \in DOMAIN links, LinkExpires(l) PROVE LinkStep
  BY <1>0, <1>2, ExpireKeeps, KeptStep DEF LinkExpires
<1>3. ASSUME NEW s \in Sessions, LinkCommit(s) PROVE LinkStep
  <2>1. PICK u \in Users : u = proc[s].user
    BY <1>0, <1>3, ProcFields DEF LinkCommit
  <2>2. PICK row : row = [user |-> u, used |-> FALSE, expired |-> FALSE]
    OBVIOUS
  <2>3. /\ links' = Append(Invalidated(u), row)
        /\ Exists(u) /\ UNCHANGED <<account, resets>>
    BY <1>3, <2>1, <2>2 DEF LinkCommit
  <2>4. row \in LinkRow /\ row.user = u
    BY <2>2 DEF LinkRow
  <2>5. /\ KeptTable(Invalidated(u))
        /\ \A i \in DOMAIN links : links[i].user = u => Invalidated(u)[i].used
        /\ DOMAIN links = 1..Len(links) /\ Len(links) \in Nat
    BY <1>0, InvalidatedKeeps, TablesAre
  <2>6. /\ links' \in Seq(LinkRow)
        /\ DOMAIN links' = 1..(Len(links) + 1)
        /\ \A i \in DOMAIN links : links'[i] = Invalidated(u)[i]
        /\ links'[Len(links) + 1] = row
    BY <2>3, <2>4, <2>5, AppendRow DEF KeptTable
  <2>7. \A i \in DOMAIN links' \ DOMAIN links : NewLink(i)
    BY <2>3, <2>4, <2>5, <2>6 DEF NewLink
  <2> QED
    BY <2>3, <2>5, <2>6, <2>7 DEF LinkStep, KeptTable
<1>4. ASSUME NEW s \in Sessions, ResetCommit(s) PROVE LinkStep
  <2>1. PICK l \in DOMAIN links : l = proc[s].link
    BY <1>4 DEF ResetCommit, AccountInv, Knows, ResetKnows
  <2>2. /\ links' = MarkUsed(l)
        /\ resets' = Append(resets, [link |-> l, seen |-> proc[s].seen])
        /\ proc[s].pc = "reset"
    BY <1>4, <2>1 DEF ResetCommit
  <2>3. KeptTable(links') /\ links'[l].used
    BY <1>0, <2>2, MarkKeeps
  <2>4. NewReset
    BY <2>1, <2>2, <2>3 DEF NewReset
  <2> QED
    BY <2>3, <2>4 DEF LinkStep, KeptTable
<1>5. ASSUME NEW s \in Sessions, Serve(s) PROVE LinkStep
  BY <1>1, <1>3, <1>4, <1>5
  DEF Serve, ManageRead, ManageCommit, LoginRead, LoginCommit, RefreshRead,
      RefreshCommit, RefreshRefused, ChangeRead, ChangeCommit, LinkRead, ResetRead,
      ResetCheck, Abort, CommitLost, tables
<1> QED
  BY <1>1, <1>2, <1>5
  DEF Next, Register, Create, HardDelete, Logout, TokenExpires, vars, tables

-----------------------------------------------------------------------------
(* Accounts and sessions.                                                  *)

\* What an account may become; one that tokens or links refer to stays.
AccountStep ==
    /\ account' \in [Users -> AccountRow \union NoRow]
    /\ \A i \in DOMAIN tokens : account'[tokens[i].user] \notin NoRow
    /\ \A i \in DOMAIN links : account'[links[i].user] \notin NoRow
    /\ access' \subseteq Users
    /\ crossed' \in BOOLEAN

LEMMA WrittenIsRow ==
    ASSUME NEW row \in AccountRow, NEW set \in Changes
    PROVE  Written(row, set) \in AccountRow
<1>1. PICK S \in SUBSET {"status", "active"}, new \in AccountRow :
            set = [c \in S |-> new[c]]
  BY DEF Changes
<1>2. DOMAIN row = {"status", "active"} /\ DOMAIN set = S
  BY <1>1 DEF AccountRow
<1>3. /\ row.status \in UserStatus /\ row.active \in BOOLEAN
      /\ new.status \in UserStatus /\ new.active \in BOOLEAN
  BY DEF AccountRow
<1> DEFINE w == Written(row, set)
<1>4. w = [c \in {"status", "active"} |-> IF c \in S THEN new[c] ELSE row[c]]
  BY <1>1, <1>2 DEF Written
<1>5. w["status"] \in UserStatus /\ w["active"] \in BOOLEAN
  BY <1>3, <1>4
<1>6. w = [status |-> w["status"], active |-> w["active"]]
  BY <1>4
<1> QED
  BY <1>5, <1>6 DEF AccountRow

LEMMA DirtyIsChange ==
    ASSUME NEW seen \in AccountRow, NEW new \in AccountRow
    PROVE  Dirty(seen, new) \in Changes
<1>1. DOMAIN seen = {"status", "active"}
  BY DEF AccountRow
<1>2. PICK S : S = {d \in DOMAIN seen : new[d] # seen[d]}
  OBVIOUS
<1>3. S \in SUBSET {"status", "active"}
  BY <1>1, <1>2
<1>4. Dirty(seen, new) = [c \in S |-> new[c]]
  BY <1>2 DEF Dirty
<1> QED
  BY <1>3, <1>4 DEF Changes

LEMMA OutcomeIsRow ==
    ASSUME NEW row \in AccountRow, NEW op \in Ops
    PROVE  Outcome(op, row) \in AccountRow
<1>1. row.status \in UserStatus /\ row.active \in BOOLEAN
  BY DEF AccountRow
<1>2. Updated(TRUE, row) \in AccountRow /\ Updated(FALSE, row) \in AccountRow
  BY <1>1 DEF Updated, AccountRow, UserStatus
<1>3. Deleted(row) \in AccountRow /\ Reactivated(row) \in AccountRow
  BY DEF Deleted, Reactivated, AccountRow, UserStatus
<1>4. Decided(TRUE, row) \in AccountRow /\ Decided(FALSE, row) \in AccountRow
  BY <1>1 DEF Decided, AccountRow, UserStatus
<1> QED
  BY <1>2, <1>3, <1>4 DEF Outcome, Ops

LEMMA AccountWritten ==
    ASSUME TypeOK, NEW u \in Users, NEW row \in AccountRow,
           account' = [account EXCEPT ![u] = row],
           UNCHANGED <<tokens, links, access>>, crossed' \in BOOLEAN
    PROVE  AccountStep
<1>1. account' \in [Users -> AccountRow \union NoRow]
  BY DEF TypeOK
<1>2. row \notin NoRow
  BY DEF AccountRow, NoRow, UserStatus
<1>3. \A v \in Users : Exists(v) => account'[v] \notin NoRow
  BY <1>2 DEF Exists, TypeOK
<1> QED
  BY <1>1, <1>3, TablesAre DEF AccountStep, Exists, TypeOK

LEMMA AccountKept ==
    ASSUME TypeOK, UNCHANGED account, access' \subseteq Users, crossed' \in BOOLEAN
    PROVE  AccountStep
BY TablesAre DEF AccountStep, Exists, TypeOK

LEMMA AccountSteps ==
    ASSUME AccountInv, [Next]_vars
    PROVE  AccountStep
<1>0. TypeOK
  BY DEF AccountInv
<1>1. crossed \in BOOLEAN /\ access \subseteq Users
  BY <1>0 DEF TypeOK
<1>2. \A s \in Sessions : \A next : Goes(s, next) \/ Begins(s, next) => crossed' \in BOOLEAN
  BY <1>1 DEF Goes, Begins
<1>3. Passes => crossed' \in BOOLEAN
  BY <1>1 DEF Passes
<1>4. ASSUME UNCHANGED <<account, access>>, crossed' \in BOOLEAN PROVE AccountStep
  BY <1>0, <1>1, <1>4, AccountKept
<1>5. ASSUME NEW u \in Users, Register(u) \/ Create(u) PROVE AccountStep
  <2>1. /\ [status |-> "PENDING", active |-> TRUE] \in AccountRow
        /\ [status |-> "APPROVED", active |-> TRUE] \in AccountRow
    BY DEF AccountRow, UserStatus
  <2> QED
    BY <1>0, <1>3, <1>5, <2>1, AccountWritten DEF Register, Create
<1>6. ASSUME NEW u \in Users, HardDelete(u) PROVE AccountStep
  <2>1. PICK row : row = [status |-> "GONE", active |-> FALSE]
    OBVIOUS
  <2>2. row \in NoRow
    BY <2>1 DEF NoRow
  <2>3. /\ account' = [account EXCEPT ![u] = row]
        /\ \A i \in DOMAIN tokens : tokens[i].user # u
        /\ \A i \in DOMAIN links : links[i].user # u
        /\ UNCHANGED access /\ Passes
    BY <1>6, <2>1 DEF HardDelete
  <2>4. account' \in [Users -> AccountRow \union NoRow]
    BY <1>0, <2>2, <2>3 DEF TypeOK
  <2>5. \A v \in Users : v # u => account'[v] = account[v]
    BY <1>0, <2>3 DEF TypeOK
  <2>6. /\ \A i \in DOMAIN tokens : account'[tokens[i].user] \notin NoRow
        /\ \A i \in DOMAIN links : account'[links[i].user] \notin NoRow
    BY <1>0, <2>3, <2>5, TablesAre DEF Exists
  <2>7. UNCHANGED <<tokens, links>>
    BY <1>6 DEF HardDelete
  <2> QED
    BY <1>1, <1>3, <2>3, <2>4, <2>6, <2>7 DEF AccountStep, Exists
<1>7. ASSUME NEW s \in Sessions, ManageCommit(s) PROVE AccountStep
  <2>1. PICK u \in Users : u = proc[s].user /\ Exists(u)
    BY <1>0, <1>7, ProcFields DEF ManageCommit
  <2>2. PICK row : row = Written(account[u], proc[s].set)
    OBVIOUS
  <2>3. proc[s].set \in Changes /\ account[u] \in AccountRow
    BY <1>0, <1>7, <2>1, ProcFields, ExistsIs DEF ManageCommit
  <2>4. row \in AccountRow
    BY <2>2, <2>3, WrittenIsRow
  <2>5. account' = [account EXCEPT ![u] = row]
    BY <1>7, <2>1, <2>2 DEF ManageCommit
  <2>6. UNCHANGED <<tokens, links, access>> /\ crossed' \in BOOLEAN
    BY <1>2, <1>7 DEF ManageCommit, Ends
  <2> QED
    BY <1>0, <2>4, <2>5, <2>6, AccountWritten
<1>8. ASSUME NEW s \in Sessions, LoginCommit(s) \/ CommitLost(s) PROVE AccountStep
  <2>1. access' = access \union {proc[s].user} /\ UNCHANGED account
        /\ crossed' \in BOOLEAN
    BY <1>2, <1>8 DEF LoginCommit, CommitLost, Ends, tables
  <2>2. proc[s].user \in Users
    BY <1>0, <1>8, ProcFields DEF LoginCommit, CommitLost
  <2> QED
    BY <1>0, <1>1, <2>1, <2>2, AccountKept
<1>9. ASSUME NEW s \in Sessions, RefreshCommit(s) PROVE AccountStep
  <2>1. /\ access' = access \union {tokens[proc[s].token].user}
        /\ UNCHANGED account /\ crossed' \in BOOLEAN
    BY <1>2, <1>9 DEF RefreshCommit, Ends
  <2>2. tokens[proc[s].token].user \in Users
    BY <1>0, <1>9, TablesAre DEF RefreshCommit, AccountInv, Knows, RefreshKnows
  <2> QED
    BY <1>0, <1>1, <2>1, <2>2, AccountKept
<1>10. ASSUME NEW s \in Sessions, Serve(s) PROVE AccountStep
  BY <1>2, <1>4, <1>7, <1>8, <1>9, <1>10
  DEF Serve, ManageRead, LoginRead, RefreshRead, RefreshRefused, ChangeRead,
      ChangeCommit, LinkRead, LinkCommit, ResetRead, ResetCheck, ResetCommit, Abort,
      Ends, tables
<1>11. ASSUME NEW t \in DOMAIN tokens, Logout(t) \/ TokenExpires(t) PROVE AccountStep
  BY <1>1, <1>3, <1>4, <1>11 DEF Logout, TokenExpires
<1>12. ASSUME NEW l \in DOMAIN links, LinkExpires(l) PROVE AccountStep
  BY <1>1, <1>4, <1>12 DEF LinkExpires
<1> QED
  BY <1>1, <1>4, <1>5, <1>6, <1>10, <1>11, <1>12 DEF Next, vars, tables

-----------------------------------------------------------------------------
(* The invariant.                                                          *)

LEMMA RowsStep ==
    ASSUME AccountInv, TokenStep, LinkStep, AccountStep
    PROVE  /\ (\A i \in DOMAIN tokens : Exists(tokens[i].user))'
           /\ (\A i \in DOMAIN links : Exists(links[i].user))'
<1>1. TypeOK
  BY DEF AccountInv
<1>2. \A i \in DOMAIN tokens' : account'[tokens'[i].user] \notin NoRow
  BY DEF TokenStep, AccountStep, Aged, NewToken, Exists
<1>3. \A i \in DOMAIN links' : account'[links'[i].user] \notin NoRow
  BY DEF LinkStep, AccountStep, Kept, NewLink, Exists
<1> QED
  BY <1>2, <1>3 DEF Exists

LEMMA SpentStep == ASSUME AccountInv, TokenStep, LinkStep PROVE Spent'
<1>1. ASSUME NEW i \in DOMAIN tokens', tokens'[i].parent # 0
      PROVE  /\ tokens'[i].parent \in DOMAIN tokens'
             /\ tokens'[tokens'[i].parent].revoked
  <2>1. CASE i \in DOMAIN tokens
    <3>1. PICK p : p = tokens[i].parent
      OBVIOUS
    <3>2. p = tokens'[i].parent /\ p \in DOMAIN tokens /\ tokens[p].revoked
      BY <1>1, <2>1, <3>1 DEF TokenStep, Aged, AccountInv, Spent
    <3> QED
      BY <3>2 DEF TokenStep, Aged
  <2>2. CASE i \notin DOMAIN tokens
    <3>1. NewToken(i)
      BY <2>2 DEF TokenStep
    <3> QED
      BY <1>1, <3>1 DEF NewToken, AccountInv, Knows, RefreshKnows, TokenStep
  <2> QED
    BY <2>1, <2>2
<1>2. ASSUME NEW i \in DOMAIN resets'
      PROVE  resets'[i].link \in DOMAIN links' /\ links'[resets'[i].link].used
  <2>1. ASSUME NEW r, r \in DOMAIN resets, resets'[i] = resets[r]
        PROVE  resets'[i].link \in DOMAIN links' /\ links'[resets'[i].link].used
    <3>1. PICK l : l = resets[r].link
      OBVIOUS
    <3>2. l \in DOMAIN links /\ links[l].used
      BY <2>1, <3>1 DEF AccountInv, Spent
    <3> QED
      BY <2>1, <3>1, <3>2 DEF LinkStep, Kept
  <2>2. CASE UNCHANGED resets
    BY <2>1, <2>2
  <2>3. CASE NewReset
    <3>1. PICK s \in Sessions :
            /\ proc[s].pc = "reset"
            /\ resets' = Append(resets, [link |-> proc[s].link, seen |-> proc[s].seen])
            /\ links'[proc[s].link].used
      BY <2>3 DEF NewReset
    <3>2. /\ proc[s].link \in DOMAIN links /\ TypeOK
          /\ proc[s].link \in Nat /\ proc[s].seen \in Nat
      BY <3>1, ProcFields DEF AccountInv, Knows, ResetKnows
    <3>3. PICK row : row = [link |-> proc[s].link, seen |-> proc[s].seen]
      OBVIOUS
    <3>4. /\ row \in [link : Nat, seen : Nat]
          /\ resets \in Seq([link : Nat, seen : Nat])
      BY <3>2, <3>3 DEF TypeOK
    <3>5. /\ DOMAIN resets' = 1..(Len(resets) + 1)
          /\ \A j \in 1..Len(resets) : resets'[j] = resets[j]
          /\ resets'[Len(resets) + 1] = row
          /\ DOMAIN resets = 1..Len(resets) /\ Len(resets) \in Nat
      BY <3>1, <3>2, <3>3, <3>4, AppendRow, TablesAre
    <3>6. CASE i = Len(resets) + 1
      <4>1. PICK l \in DOMAIN links : l = proc[s].link
        BY <3>2
      <4>2. resets'[i].link = l
        BY <3>3, <3>5, <3>6, <4>1
      <4> QED
        BY <3>1, <4>1, <4>2 DEF LinkStep
    <3>7. CASE i \in DOMAIN resets
      BY <2>1, <3>5, <3>7
    <3> QED
      BY <3>5, <3>6, <3>7
  <2> QED
    BY <2>2, <2>3 DEF LinkStep
<1> QED
  BY <1>1, <1>2 DEF Spent

LEMMA LiveStep == ASSUME AccountInv, TokenStep PROVE LiveSinceChange'
<1>1. ASSUME NEW i \in DOMAIN tokens', ~tokens'[i].revoked
      PROVE  tokens'[i].born = pw'[tokens'[i].user]
  <2>1. CASE i \in DOMAIN tokens
    <3>1. PICK u \in Users : u = tokens[i].user
      BY <2>1, TablesAre DEF AccountInv
    <3>2. /\ tokens'[i].user = u
          /\ tokens'[i].born = pw[u]
      BY <1>1, <2>1, <3>1 DEF TokenStep, Aged, AccountInv, LiveSinceChange
    <3>3. pw'[u] = pw[u]
      BY <1>1, <3>2 DEF TokenStep, PasswordSet
    <3> QED
      BY <3>2, <3>3
  <2>2. CASE i \notin DOMAIN tokens
    BY <2>2 DEF TokenStep, NewToken
  <2> QED
    BY <2>1, <2>2
<1> QED
  BY <1>1 DEF LiveSinceChange

LEMMA ReuseStep == ASSUME AccountInv, TokenStep PROVE ReuseNeedsRace'
<1>1. ASSUME NEW i \in DOMAIN tokens', NEW j \in DOMAIN tokens',
             i < j, tokens'[i].parent # 0, tokens'[i].parent = tokens'[j].parent
      PROVE  tokens'[j].seen < i
  <2>0. /\ DOMAIN tokens = 1..Len(tokens) /\ Len(tokens) \in Nat
        /\ DOMAIN tokens' = 1..Len(tokens') /\ Len(tokens') \in Nat
    BY TablesAre, LenProperties DEF AccountInv, TokenStep
  <2>1. i \in DOMAIN tokens
    BY <1>1, <2>0 DEF TokenStep, NewToken
  <2>2. CASE j \in DOMAIN tokens
    BY <1>1, <2>1, <2>2 DEF TokenStep, Aged, AccountInv, ReuseNeedsRace
  <2>3. CASE j \notin DOMAIN tokens
    <3>1. NewToken(j)
      BY <2>3 DEF TokenStep
    <3>2. PICK s \in Sessions : /\ proc[s].pc = "refresh"
                                /\ tokens'[j].parent = proc[s].token
                                /\ tokens'[j].seen = proc[s].seen
      BY <1>1, <3>1 DEF NewToken
    <3>3. tokens[i].parent = proc[s].token
      BY <1>1, <2>1, <3>2 DEF TokenStep, Aged
    <3> QED
      BY <2>1, <3>2, <3>3 DEF AccountInv, Knows, RefreshKnows
  <2> QED
    BY <2>2, <2>3
<1> QED
  BY <1>1 DEF ReuseNeedsRace

ResetsGrow ==
    /\ resets' \in Seq([link : Nat, seen : Nat])
    /\ Len(resets) <= Len(resets')
    /\ \A i \in DOMAIN resets : resets'[i] = resets[i]
    /\ \A i \in DOMAIN resets' \ DOMAIN resets : i = Len(resets) + 1

LEMMA LinkReuseStep ==
    ASSUME AccountInv, LinkStep
    PROVE  ResetsGrow /\ LinkReuseNeedsRace'
<1>1. /\ TypeOK /\ LinkReuseNeedsRace
      /\ DOMAIN resets = 1..Len(resets) /\ Len(resets) \in Nat
  BY TablesAre DEF AccountInv
<1>2. CASE UNCHANGED resets
  BY <1>1, <1>2 DEF TypeOK, LinkReuseNeedsRace, ResetsGrow
<1>3. CASE NewReset
  <2>1. PICK s \in Sessions :
          /\ proc[s].pc = "reset"
          /\ resets' = Append(resets, [link |-> proc[s].link, seen |-> proc[s].seen])
    BY <1>3 DEF NewReset
  <2>2. PICK row : row = [link |-> proc[s].link, seen |-> proc[s].seen]
    OBVIOUS
  <2>3. row \in [link : Nat, seen : Nat] /\ resets \in Seq([link : Nat, seen : Nat])
    BY <1>1, <2>1, <2>2, ProcFields DEF TypeOK
  <2>4. /\ resets' \in Seq([link : Nat, seen : Nat])
        /\ DOMAIN resets' = 1..(Len(resets) + 1)
        /\ Len(resets') = Len(resets) + 1
        /\ \A j \in 1..Len(resets) : resets'[j] = resets[j]
        /\ resets'[Len(resets) + 1] = row
    BY <2>1, <2>2, <2>3, AppendRow
  <2>5. \A i \in DOMAIN resets : resets[i].link = row.link => row.seen < i
    BY <2>1, <2>2 DEF AccountInv, Knows, ResetKnows
  <2>6. LinkReuseNeedsRace'
    <3>1. ASSUME NEW i \in DOMAIN resets', NEW j \in DOMAIN resets', i < j,
                 resets'[i].link = resets'[j].link
          PROVE  resets'[j].seen < i
      <4>1. i \in DOMAIN resets /\ resets'[i] = resets[i]
        BY <1>1, <2>4, <3>1
      <4>2. CASE j \in DOMAIN resets
        BY <1>1, <2>4, <3>1, <4>1, <4>2 DEF LinkReuseNeedsRace
      <4>3. CASE j = Len(resets) + 1
        <5>1. resets[i].link = row.link
          BY <2>4, <3>1, <4>1, <4>3
        <5> QED
          BY <2>4, <2>5, <4>1, <4>3, <5>1
      <4> QED
        BY <1>1, <2>4, <4>2, <4>3
    <3> QED
      BY <3>1 DEF LinkReuseNeedsRace
  <2> QED
    BY <1>1, <2>4, <2>6 DEF ResetsGrow
<1> QED
  BY <1>2, <1>3 DEF LinkStep

LEMMA OneLinkStep == ASSUME AccountInv, LinkStep PROVE OneOpenLink'
<1>1. ASSUME NEW i \in DOMAIN links', NEW j \in DOMAIN links',
             links'[i].user = links'[j].user, ~links'[i].used, ~links'[j].used
      PROVE  i = j
  <2>1. CASE i \in DOMAIN links /\ j \in DOMAIN links
    BY <1>1, <2>1 DEF LinkStep, Kept, AccountInv, OneOpenLink
  <2>2. CASE i \in DOMAIN links /\ j \notin DOMAIN links
    BY <1>1, <2>2 DEF LinkStep, Kept, NewLink
  <2>3. CASE i \notin DOMAIN links /\ j \in DOMAIN links
    BY <1>1, <2>3 DEF LinkStep, Kept, NewLink
  <2>4. CASE i \notin DOMAIN links /\ j \notin DOMAIN links
    BY <2>4 DEF LinkStep, NewLink
  <2> QED
    BY <2>1, <2>2, <2>3, <2>4
<1> QED
  BY <1>1 DEF OneOpenLink

LEMMA ExchangedStep == ASSUME AccountInv, TokenStep PROVE ExchangedInGoodStanding'
<1>1. ASSUME NEW i \in DOMAIN tokens', tokens'[i].parent # 0
      PROVE  tokens'[i].open
  <2>1. CASE i \in DOMAIN tokens
    BY <1>1, <2>1 DEF TokenStep, Aged, AccountInv, ExchangedInGoodStanding
  <2>2. CASE i \notin DOMAIN tokens
    BY <1>1, <2>2 DEF TokenStep, NewToken
  <2> QED
    BY <2>1, <2>2
<1> QED
  BY <1>1 DEF ExchangedInGoodStanding

\* What a session knows outlasts the steps of the others.
LEMMA KnowsLasts ==
    ASSUME AccountInv, TokenStep, LinkStep, NEW w \in ProcState, Knows(w)
    PROVE  Knows(w)'
<1>0. /\ DOMAIN tokens = 1..Len(tokens) /\ Len(tokens) \in Nat
      /\ DOMAIN tokens' = 1..Len(tokens') /\ Len(tokens') \in Nat
      /\ DOMAIN resets = 1..Len(resets) /\ Len(resets) \in Nat
  BY TablesAre, LenProperties DEF AccountInv, TokenStep
<1>1. ASSUME w.pc = "refresh", RefreshKnows(w) PROVE RefreshKnows(w)'
  <2>0. w.seen \in Nat
    BY <1>1 DEF ProcState, Idle
  <2>1. Len(tokens) <= Len(tokens')
    <3>1. Len(tokens) = 0 \/ Len(tokens) \in 1..Len(tokens')
      BY <1>0 DEF TokenStep
    <3> QED
      BY <1>0, <3>1
  <2>2. w.token \in DOMAIN tokens' /\ w.seen <= Len(tokens')
    <3>1. w.token \in DOMAIN tokens /\ w.seen <= Len(tokens)
      BY <1>1 DEF RefreshKnows
    <3>2. w.token \in DOMAIN tokens'
      BY <3>1 DEF TokenStep
    <3> QED
      BY <1>0, <2>0, <2>1, <3>1, <3>2
  <2>3. ASSUME NEW i \in DOMAIN tokens', tokens'[i].parent = w.token
        PROVE  w.seen < i
    <3>1. CASE i \in DOMAIN tokens
      BY <1>1, <2>3, <3>1 DEF TokenStep, Aged, RefreshKnows
    <3>2. CASE i = Len(tokens) + 1
      BY <1>0, <1>1, <2>0, <3>2 DEF RefreshKnows
    <3> QED
      BY <3>1, <3>2 DEF TokenStep, NewToken
  <2> QED
    BY <2>2, <2>3 DEF RefreshKnows
<1>2. ASSUME w.pc \in {"check", "reset"}, ResetKnows(w) PROVE ResetKnows(w)'
  <2>1. w.seen \in Nat
    BY <1>2 DEF ProcState, Idle
  <2>2. /\ Len(resets) <= Len(resets') /\ Len(resets') \in Nat
        /\ \A i \in DOMAIN resets : resets'[i] = resets[i]
        /\ \A i \in DOMAIN resets' \ DOMAIN resets : i = Len(resets) + 1
    <3>1. ResetsGrow
      BY LinkReuseStep
    <3>2. Len(resets') \in Nat
      BY <3>1, LenProperties DEF ResetsGrow
    <3> QED
      BY <3>1, <3>2 DEF ResetsGrow
  <2>3. w.link \in DOMAIN links' /\ w.seen <= Len(resets')
    BY <1>0, <1>2, <2>1, <2>2 DEF ResetKnows, LinkStep
  <2>4. ASSUME NEW i \in DOMAIN resets', resets'[i].link = w.link
        PROVE  w.seen < i
    <3>1. CASE i \in DOMAIN resets
      BY <1>2, <2>2, <2>4, <3>1 DEF ResetKnows
    <3>2. CASE i = Len(resets) + 1
      BY <1>0, <1>2, <2>1, <3>2 DEF ResetKnows
    <3> QED
      BY <2>2, <3>1, <3>2
  <2> QED
    BY <2>3, <2>4 DEF ResetKnows
<1> QED
  BY <1>1, <1>2 DEF Knows

\* A session that moves on knows what it should, and so do the others still.
LEMMA ProcMoves ==
    ASSUME AccountInv, TokenStep, LinkStep,
           NEW s \in Sessions, NEW next \in ProcState,
           proc' = [proc EXCEPT ![s] = next],
           Knows(next) \/ next.pc \notin {"refresh", "check", "reset"}
    PROVE  proc' \in [Sessions -> ProcState] /\ \A r \in Sessions : Knows(proc[r])'
<1>1. proc \in [Sessions -> ProcState]
  BY DEF AccountInv, TypeOK
<1>2. proc' \in [Sessions -> ProcState]
  BY <1>1
<1>3. Knows(next)
  BY DEF Knows
<1>4. ASSUME NEW r \in Sessions PROVE Knows(proc[r])'
  <2>1. PICK w \in ProcState : w = proc'[r] /\ Knows(w)
    BY <1>1, <1>2, <1>3 DEF AccountInv
  <2>2. Knows(w)'
    BY <2>1, KnowsLasts
  <2> QED
    BY <2>1, <2>2 DEF Knows, RefreshKnows, ResetKnows
<1> QED
  BY <1>2, <1>4

LEMMA ProcSteps ==
    ASSUME AccountInv, [Next]_vars
    PROVE  proc' \in [Sessions -> ProcState] /\ \A r \in Sessions : Knows(proc[r])'
<1> DEFINE Goal == /\ proc' \in [Sessions -> ProcState]
                   /\ \A r \in Sessions : Knows(proc[r])'
<1>0. TypeOK /\ TokenStep /\ LinkStep /\ proc \in [Sessions -> ProcState]
  BY TokenSteps, LinkSteps DEF AccountInv, TypeOK
<1>1. ASSUME UNCHANGED proc PROVE Goal
  <2>1. ASSUME NEW r \in Sessions PROVE Knows(proc[r])'
    <3>1. PICK w \in ProcState : w = proc'[r] /\ Knows(w)
      BY <1>0, <1>1 DEF AccountInv
    <3>2. Knows(w)'
      BY <1>0, <3>1, KnowsLasts
    <3> QED
      BY <3>1, <3>2 DEF Knows, RefreshKnows, ResetKnows
  <2> QED
    BY <1>0, <1>1, <2>1
<1>2. ASSUME NEW s \in Sessions, NEW next, Begins(s, next) \/ Goes(s, next),
             next \in ProcState,
             Knows(next) \/ next.pc \notin {"refresh", "check", "reset"}
      PROVE  Goal
  <2>1. proc' = [proc EXCEPT ![s] = next]
    BY <1>2 DEF Begins, Goes
  <2> QED
    BY <1>0, <1>2, <2>1, ProcMoves
<1> HIDE DEF Goal
<1>3. ASSUME NEW s \in Sessions, Ends(s) PROVE Goal
  <2>1. Idle \in ProcState /\ Idle.pc \notin {"refresh", "check", "reset"}
    BY DEF ProcState, Idle
  <2> QED
    BY <1>2, <1>3, <2>1 DEF Ends
<1>4. ASSUME NEW s \in Sessions, ManageRead(s) PROVE Goal
  <2>1. PICK op \in Ops, u \in Users :
          /\ Exists(u)
          /\ Begins(s, [pc |-> "manage", user |-> u,
                        set |-> Dirty(account[u], Outcome(op, account[u]))])
    BY <1>4 DEF ManageRead
  <2>2. Dirty(account[u], Outcome(op, account[u])) \in Changes
    BY <1>0, <2>1, ExistsIs, OutcomeIsRow, DirtyIsChange
  <2>3. PICK set \in Changes : set = Dirty(account[u], Outcome(op, account[u]))
    BY <2>2
  <2>4. PICK next : next = [pc |-> "manage", user |-> u, set |-> set]
    OBVIOUS
  <2>5. next \in ProcState /\ next.pc \notin {"refresh", "check", "reset"}
    BY <2>4 DEF ProcState
  <2> QED
    BY <1>2, <2>1, <2>3, <2>4, <2>5
<1>5. ASSUME NEW s \in Sessions, LoginRead(s) PROVE Goal
  <2>1. PICK u \in Users : Begins(s, [pc |-> "login", user |-> u, proof |-> pw[u]])
    BY <1>5 DEF LoginRead
  <2>2. pw[u] \in Nat
    BY <1>0 DEF TypeOK
  <2>3. PICK next : next = [pc |-> "login", user |-> u, proof |-> pw[u]]
    OBVIOUS
  <2>4. next \in ProcState /\ next.pc \notin {"refresh", "check", "reset"}
    BY <2>2, <2>3 DEF ProcState
  <2> QED
    BY <1>2, <2>1, <2>3, <2>4
<1>6. ASSUME NEW s \in Sessions, RefreshRead(s) PROVE Goal
  <2>1. PICK t \in DOMAIN tokens :
          /\ ~tokens[t].revoked
          /\ Begins(s, [pc |-> "refresh", token |-> t, seen |-> Len(tokens)])
    BY <1>6 DEF RefreshRead
  <2>2. PICK next : next = [pc |-> "refresh", token |-> t, seen |-> Len(tokens)]
    OBVIOUS
  <2>3. DOMAIN tokens = 1..Len(tokens) /\ Len(tokens) \in Nat
    BY <1>0, TablesAre
  <2>4. next \in ProcState /\ next.token = t /\ next.seen = Len(tokens)
        /\ next.pc = "refresh"
    BY <2>2, <2>3 DEF ProcState
  <2>5. \A i \in DOMAIN tokens : tokens[i].parent # t
    BY <2>1, <2>3 DEF AccountInv, Spent
  <2>6. Knows(next)
    BY <2>3, <2>4, <2>5 DEF Knows, RefreshKnows
  <2> QED
    BY <1>2, <2>1, <2>2, <2>4, <2>6
<1>7. ASSUME NEW s \in Sessions, ChangeRead(s) \/ LinkRead(s) PROVE Goal
  <2>1. PICK u \in Users, pc \in {"change", "link"} :
            Begins(s, [pc |-> pc, user |-> u])
    BY <1>0, <1>7 DEF ChangeRead, LinkRead, TypeOK
  <2>2. PICK next : next = [pc |-> pc, user |-> u]
    OBVIOUS
  <2>3. next \in ProcState /\ next.pc \notin {"refresh", "check", "reset"}
    BY <2>2 DEF ProcState
  <2> QED
    BY <1>2, <2>1, <2>2, <2>3
<1>8. ASSUME NEW s \in Sessions, ResetRead(s) PROVE Goal
  <2>1. PICK l \in DOMAIN links :
          /\ ~links[l].used
          /\ Begins(s, [pc |-> "check", link |-> l, seen |-> Len(resets)])
    BY <1>8 DEF ResetRead
  <2>2. PICK next : next = [pc |-> "check", link |-> l, seen |-> Len(resets)]
    OBVIOUS
  <2>3. DOMAIN links = 1..Len(links) /\ Len(resets) \in Nat /\ Len(links) \in Nat
        /\ DOMAIN resets = 1..Len(resets)
    BY <1>0, TablesAre
  <2>4. next \in ProcState /\ next.link = l /\ next.seen = Len(resets)
        /\ next.pc = "check"
    BY <2>2, <2>3 DEF ProcState
  <2>5. \A i \in DOMAIN resets : resets[i].link # l
    BY <2>1 DEF AccountInv, Spent
  <2>6. Knows(next)
    BY <2>3, <2>4, <2>5 DEF Knows, ResetKnows
  <2> QED
    BY <1>2, <2>1, <2>2, <2>4, <2>6
<1>9. ASSUME NEW s \in Sessions, ResetCheck(s) PROVE Goal
  <2>1. CASE Ends(s)
    BY <1>3, <2>1
  <2>2. CASE Goes(s, [proc[s] EXCEPT !.pc = "reset"])
    <3>1. proc[s].pc = "check" /\ proc[s] \in ProcState
      BY <1>0, <1>9 DEF ResetCheck
    <3>2. proc[s] \in [pc : {"check", "reset"}, link : Nat, seen : Nat]
      BY <3>1 DEF ProcState, Idle
    <3>3. PICK next : next = [proc[s] EXCEPT !.pc = "reset"]
      OBVIOUS
    <3>4. /\ next \in [pc : {"check", "reset"}, link : Nat, seen : Nat]
          /\ next.pc = "reset" /\ next.link = proc[s].link
          /\ next.seen = proc[s].seen
      BY <3>2, <3>3
    <3>5. next \in ProcState
      BY <3>4 DEF ProcState
    <3>6. Knows(next)
      BY <3>1, <3>4 DEF AccountInv, Knows, ResetKnows
    <3> QED
      BY <1>2, <2>2, <3>3, <3>5, <3>6
  <2> QED
    BY <1>9, <2>1, <2>2 DEF ResetCheck
<1>10. ASSUME NEW s \in Sessions, Serve(s) PROVE Goal
  BY <1>3, <1>4, <1>5, <1>6, <1>7, <1>8, <1>9, <1>10
  DEF Serve, ManageCommit, LoginCommit, RefreshCommit, RefreshRefused,
      ChangeCommit, LinkCommit, ResetCommit, Abort, CommitLost
<1>11. Goal
  BY <1>1, <1>10
  DEF Next, Register, Create, HardDelete, Passes, Logout, TokenExpires, LinkExpires,
      vars
<1> QED
  BY <1>11 DEF Goal

-----------------------------------------------------------------------------
(* Theorems.                                                               *)

LEMMA InvInit == Init => AccountInv
<1> SUFFICES ASSUME Init PROVE AccountInv
  OBVIOUS
<1>1. /\ tokens = <<>> /\ links = <<>> /\ resets = <<>> /\ access = {}
      /\ DOMAIN tokens = {} /\ DOMAIN links = {} /\ DOMAIN resets = {}
  BY DEF Init
<1>2. account \in [Users -> AccountRow \union NoRow]
  BY DEF Init, AccountRow, UserStatus, NoRow
<1>3. pw \in [Users -> Nat] /\ crossed \in BOOLEAN
  BY DEF Init
<1>4. proc \in [Sessions -> ProcState] /\ \A s \in Sessions : proc[s].pc = "idle"
  BY DEF Init, ProcState, Idle
<1>5. /\ tokens \in Seq(TokenRow) /\ links \in Seq(LinkRow)
      /\ resets \in Seq([link : Nat, seen : Nat])
  BY <1>1
<1>6. TypeOK
  BY <1>1, <1>2, <1>3, <1>4, <1>5 DEF TypeOK
<1>7. \A s \in Sessions : Knows(proc[s])
  BY <1>4 DEF Knows
<1> QED
  BY <1>1, <1>6, <1>7
  DEF AccountInv, Spent, LiveSinceChange, ReuseNeedsRace, LinkReuseNeedsRace,
      OneOpenLink, ExchangedInGoodStanding

LEMMA InvNext == AccountInv /\ [Next]_vars => AccountInv'
<1> SUFFICES ASSUME AccountInv, [Next]_vars PROVE AccountInv'
  OBVIOUS
<1>1. TokenStep /\ LinkStep /\ AccountStep
  BY TokenSteps, LinkSteps, AccountSteps
<1>2. proc' \in [Sessions -> ProcState] /\ \A r \in Sessions : Knows(proc[r])'
  BY ProcSteps
<1>3. /\ (\A i \in DOMAIN tokens : Exists(tokens[i].user))'
      /\ (\A i \in DOMAIN links : Exists(links[i].user))'
  BY <1>1, RowsStep
<1>4. Spent' /\ LiveSinceChange' /\ ReuseNeedsRace' /\ LinkReuseNeedsRace'
      /\ OneOpenLink' /\ ExchangedInGoodStanding'
      /\ resets' \in Seq([link : Nat, seen : Nat])
  BY <1>1, SpentStep, LiveStep, ReuseStep, LinkReuseStep, OneLinkStep, ExchangedStep
  DEF ResetsGrow
<1>5. /\ account' \in [Users -> AccountRow \union NoRow]
      /\ pw' \in [Users -> Nat] /\ tokens' \in Seq(TokenRow)
      /\ links' \in Seq(LinkRow) /\ access' \subseteq Users /\ crossed' \in BOOLEAN
  BY <1>1 DEF TokenStep, LinkStep, AccountStep
<1>6. TypeOK'
  BY <1>2, <1>3, <1>4, <1>5 DEF TypeOK
<1> QED
  BY <1>2, <1>4, <1>6 DEF AccountInv

LEMMA AccountInvariant == Spec => []AccountInv
<1>1. Init => AccountInv
  BY InvInit
<1>2. AccountInv /\ [Next]_vars => AccountInv'
  BY InvNext
<1> QED
  BY <1>1, <1>2, PTL DEF Spec

\* Every variable has its type, and the accounts that tokens and links name
\* are in the table: hard_delete cannot leave one behind.
THEOREM TypeCorrect == Spec => []TypeOK
<1>1. AccountInv => TypeOK
  BY DEF AccountInv
<1> QED
  BY <1>1, AccountInvariant, PTL

\* A change or a reset of a password ends every session there was, whatever
\* logins and exchanges run beside it: a token that lives was inserted since.
THEOREM ChangeEndsSessions == Spec => []LiveSinceChange
<1>1. AccountInv => LiveSinceChange
  BY DEF AccountInv
<1> QED
  BY <1>1, AccountInvariant, PTL

\* A refresh token is exchanged twice only by requests that overlap: each
\* has read it before the other's revocation was committed.
THEOREM RotationIsSingleUse == Spec => []ReuseNeedsRace
<1>1. AccountInv => ReuseNeedsRace
  BY DEF AccountInv
<1> QED
  BY <1>1, AccountInvariant, PTL

\* A reset link sets a password twice only by requests that overlap.
THEOREM LinksAreSingleUse == Spec => []LinkReuseNeedsRace
<1>1. AccountInv => LinkReuseNeedsRace
  BY DEF AccountInv
<1> QED
  BY <1>1, AccountInvariant, PTL

\* Neither credential is used twice without a race.
THEOREM CredentialsAreSingleUse == Spec => []SingleUse
<1>1. ReuseNeedsRace /\ LinkReuseNeedsRace => SingleUse
  BY DEF SingleUse
<1> QED
  BY <1>1, RotationIsSingleUse, LinksAreSingleUse, PTL

\* request_password_reset leaves one open link of an account, whatever runs.
THEOREM OneLinkIsOpen == Spec => []OneOpenLink
<1>1. AccountInv => OneOpenLink
  BY DEF AccountInv
<1> QED
  BY <1>1, AccountInvariant, PTL

\* refresh issues nothing to an account that is disabled or unapproved.
THEOREM ExchangeAsksStanding == Spec => []ExchangedInGoodStanding
<1>1. AccountInv => ExchangedInGoodStanding
  BY DEF AccountInv
<1> QED
  BY <1>1, AccountInvariant, PTL

-----------------------------------------------------------------------------
(* The invariant.                                                          *)

\* What w has read is still so.
UpToDate(w) ==
    /\ w.pc = "manage" =>
        /\ account[w.user] \in AccountRow
        /\ \E op \in Ops :
            /\ Decidable(op, account[w.user])
            /\ w.set = Dirty(account[w.user], Outcome(op, account[w.user]))
    /\ w.pc = "login" => MayLogin(account[w.user]) /\ w.proof = pw[w.user]
    /\ w.pc = "refresh" => ~tokens[w.token].revoked

Lone == \A r, s \in Sessions : proc[r] # Idle /\ proc[s] # Idle => r = s

\* A live token descends from a login with the present password.
Fits ==
    \A i \in DOMAIN tokens :
        ~tokens[i].revoked => tokens[i].proof = pw[tokens[i].user]

FlagFollows == \A u \in Users : account[u].status = "DISABLED" => ~account[u].active

Outside(u) == u \notin access /\ \A i \in DOMAIN tokens : tokens[i].user # u

KeptOut ==
    \A u \in Users :
        account[u].status \in {"PENDING", "REJECTED", "ABSENT"} => Outside(u)

Standing == Fits /\ FlagFollows /\ KeptOut

AloneInv ==
    /\ AccountInv
    /\ ~crossed => /\ Lone
                   /\ \A s \in Sessions : UpToDate(proc[s])
                   /\ Standing

-----------------------------------------------------------------------------
(* Sessions.                                                               *)

\* Only a step that is not a crossing itself leaves crossed as it was.
LEMMA NotCrossedYet == ASSUME AccountInv, [Next]_vars, ~crossed' PROVE ~crossed
<1>1. ASSUME NEW s \in Sessions, NEW next, Goes(s, next) \/ Begins(s, next)
      PROVE  ~crossed
  BY <1>1 DEF Goes, Begins
<1>2. Passes => ~crossed
  BY DEF Passes
<1>3. UNCHANGED crossed => ~crossed
  OBVIOUS
<1>4. ASSUME NEW s \in Sessions, Serve(s) PROVE ~crossed
  BY <1>1, <1>4
  DEF Serve, ManageRead, ManageCommit, LoginRead, LoginCommit, RefreshRead,
      RefreshCommit, RefreshRefused, ChangeRead, ChangeCommit, LinkRead,
      LinkCommit, ResetRead, ResetCheck, ResetCommit, Abort, CommitLost, Ends
<1> QED
  BY <1>2, <1>3, <1>4
  DEF Next, Register, Create, HardDelete, Logout, TokenExpires, LinkExpires, vars

\* After a step of s, whoever is not idle is s.
LEMMA OthersIdle ==
    ASSUME TypeOK, Lone, ~crossed', NEW s \in Sessions, NEW next,
           \/ Begins(s, next)
           \/ proc[s] # Idle /\ Goes(s, next)
    PROVE  /\ Lone'
           /\ proc'[s] = next
           /\ \A r \in Sessions : r # s => proc'[r] = Idle
<1>1. /\ proc'[s] = next
      /\ \A r \in Sessions : r # s => proc'[r] = proc[r]
  BY DEF Begins, Goes, TypeOK
<1>2. \A r \in Sessions : r # s => proc[r] = Idle
  BY DEF Begins, Lone
<1> QED
  BY <1>1, <1>2 DEF Lone

LEMMA IdleIsUpToDate == ASSUME NEW w, w = Idle PROVE UpToDate(w)'
BY DEF UpToDate, Idle

\* Who reads while nobody else runs is up to date, and commits so.
LEMMA AloneAfter ==
    ASSUME TypeOK, Lone, ~crossed', NEW s \in Sessions, NEW next,
           \/ Begins(s, next)
           \/ proc[s] # Idle /\ Goes(s, next),
           UpToDate(next)'
    PROVE  Lone' /\ \A r \in Sessions : UpToDate(proc[r])'
BY OthersIdle, IdleIsUpToDate DEF UpToDate

LEMMA EndsAlone ==
    ASSUME TypeOK, Lone, ~crossed', NEW s \in Sessions, proc[s].pc # "idle", Ends(s)
    PROVE  Lone' /\ \A r \in Sessions : UpToDate(proc[r])'
BY AloneAfter, IdleIsUpToDate DEF Ends, Idle

\* A request of one action runs while all sessions are idle.
LEMMA PassesAlone ==
    ASSUME TypeOK, Lone, ~crossed', Passes
    PROVE  Lone' /\ \A r \in Sessions : UpToDate(proc[r])'
<1>1. \A r \in Sessions : proc[r] = Idle /\ proc'[r] = Idle
  BY DEF Passes
<1> QED
  BY <1>1, IdleIsUpToDate DEF Lone, UpToDate

-----------------------------------------------------------------------------
(* What is written over an account that has not changed since it was read. *)

LEMMA OutcomeIsWritten ==
    ASSUME NEW row \in AccountRow, NEW new \in AccountRow
    PROVE  Written(row, Dirty(row, new)) = new
<1>1. /\ DOMAIN row = {"status", "active"}
      /\ new = [c \in {"status", "active"} |-> new[c]]
  BY DEF AccountRow
<1>2. PICK set : set = Dirty(row, new)
  OBVIOUS
<1>3. /\ DOMAIN set = {c \in {"status", "active"} : new[c] # row[c]}
      /\ \A c \in DOMAIN set : set[c] = new[c]
  BY <1>1, <1>2 DEF Dirty
<1>4. Written(row, set) =
        [c \in {"status", "active"} |-> IF c \in DOMAIN set THEN set[c] ELSE row[c]]
  BY <1>1 DEF Written
<1>5. \A c \in {"status", "active"} :
        (IF c \in DOMAIN set THEN set[c] ELSE row[c]) = new[c]
  BY <1>3
<1> QED
  BY <1>1, <1>2, <1>4, <1>5

\* An operation lets nobody stay active who becomes DISABLED, and makes
\* REJECTED only who was PENDING.
LEMMA OutcomeStands ==
    ASSUME NEW row \in AccountRow, NEW op \in Ops, Decidable(op, row),
           row.status = "DISABLED" => ~row.active,
           NEW new, new = Outcome(op, row)
    PROVE  /\ new.status = "DISABLED" => ~new.active
           /\ new.status \in {"PENDING", "REJECTED", "ABSENT"} =>
                row.status \in {"PENDING", "REJECTED"}
<1>1. row.status \in UserStatus /\ row.active \in BOOLEAN
  BY DEF AccountRow
<1>2. op \in {"approve", "reject"} => row.status = "PENDING"
  BY DEF Decidable
<1>3. CASE op \in {"enable", "disable"}
  BY <1>1, <1>3 DEF Outcome, Updated, UserStatus
<1>4. CASE op \in {"delete", "reactivate"}
  BY <1>4 DEF Outcome, Deleted, Reactivated
<1>5. CASE op = "approve"
  <2>1. new = [row EXCEPT !.status = "APPROVED"]
    BY <1>5 DEF Outcome, Decided
  <2>2. new.status = "APPROVED"
    BY <2>1 DEF AccountRow
  <2> QED
    BY <2>2
<1>6. CASE op = "reject"
  BY <1>2, <1>6 DEF Outcome, Decided
<1> QED
  BY <1>3, <1>4, <1>5, <1>6 DEF Ops

\* Who may log in is approved; there is no third way to be in good standing.
LEMMA MayLoginIs ==
    ASSUME TypeOK, NEW u \in Users
    PROVE  /\ MayLogin(account[u]) <=> InGoodStanding(account[u])
           /\ MayLogin(account[u]) => account[u].status = "APPROVED"
<1>1. account[u] \in AccountRow \/ account[u] \in NoRow
  BY DEF TypeOK
<1>2. CASE account[u] \in AccountRow
  BY <1>2 DEF AccountRow, UserStatus, MayLogin, InGoodStanding
<1>3. CASE account[u] \in NoRow
  BY <1>3 DEF NoRow, MayLogin, InGoodStanding
<1> QED
  BY <1>1, <1>2, <1>3

\* What a step that writes one account leaves true of all of them.
LEMMA RowWritten ==
    ASSUME TypeOK, FlagFollows, KeptOut, NEW u \in Users, NEW row,
           account' = [account EXCEPT ![u] = row],
           row.status = "DISABLED" => ~row.active,
           row.status \in {"PENDING", "REJECTED", "ABSENT"} => Outside(u),
           UNCHANGED <<tokens, access>>
    PROVE  FlagFollows' /\ KeptOut'
<1>1. /\ account'[u] = row
      /\ \A v \in Users : v # u => account'[v] = account[v]
  BY DEF TypeOK
<1> QED
  BY <1>1 DEF FlagFollows, KeptOut, Outside

LEMMA FitsKept == ASSUME Fits, UNCHANGED <<tokens, pw>> PROVE Fits'
BY DEF Fits

\* Accounts that do not exist have no tokens and were given no access.
LEMMA AbsentIsOutside ==
    ASSUME KeptOut, NEW u \in Users, account[u].status = "ABSENT"
    PROVE  Outside(u)
BY DEF KeptOut

LEMMA AdministratorsAlone ==
    ASSUME TypeOK, Standing, NEW u \in Users, Register(u) \/ Create(u) \/ HardDelete(u)
    PROVE  Standing'
<1>1. /\ UNCHANGED <<tokens, pw, access>>
      /\ \/ /\ account[u].status = "ABSENT"
            /\ account' = [account EXCEPT ![u] = [status |-> "PENDING", active |-> TRUE]]
         \/ account' = [account EXCEPT ![u] = [status |-> "APPROVED", active |-> TRUE]]
         \/ account' = [account EXCEPT ![u] = [status |-> "GONE", active |-> FALSE]]
  BY DEF Register, Create, HardDelete
<1> QED
  BY <1>1, RowWritten, FitsKept, AbsentIsOutside DEF Standing

LEMMA ManageAlone ==
    ASSUME TypeOK, Standing, NEW s \in Sessions, UpToDate(proc[s]), ManageCommit(s)
    PROVE  Standing'
<1>1. PICK u \in Users : u = proc[s].user
  BY ProcFields DEF ManageCommit
<1>2. PICK op \in Ops :
        /\ account[u] \in AccountRow
        /\ Decidable(op, account[u])
        /\ proc[s].set = Dirty(account[u], Outcome(op, account[u]))
  BY <1>1 DEF UpToDate, ManageCommit
<1>3. PICK row : row = Outcome(op, account[u])
  OBVIOUS
<1>4. Written(account[u], proc[s].set) = row
  BY <1>2, <1>3, OutcomeIsRow, OutcomeIsWritten
<1>5. /\ account' = [account EXCEPT ![u] = row]
      /\ UNCHANGED <<tokens, pw, access>>
  BY <1>1, <1>4 DEF ManageCommit
<1>6. /\ row.status = "DISABLED" => ~row.active
      /\ row.status \in {"PENDING", "REJECTED", "ABSENT"} =>
            account[u].status \in {"PENDING", "REJECTED"}
  BY <1>2, <1>3, OutcomeStands DEF Standing, FlagFollows
<1>7. row.status \in {"PENDING", "REJECTED", "ABSENT"} => Outside(u)
  BY <1>6 DEF Standing, KeptOut
<1> QED
  BY <1>5, <1>6, <1>7, RowWritten, FitsKept DEF Standing

-----------------------------------------------------------------------------
(* What the steps do to the live tokens, and so to the keys in use.        *)

Live == {i \in DOMAIN tokens : ~tokens[i].revoked}

Lasting == \A i \in DOMAIN tokens : Aged(tokens[i], tokens'[i])

\* Some tokens are revoked, and none is added.
Fewer(gone) ==
    /\ DOMAIN tokens' = DOMAIN tokens
    /\ Lasting
    /\ Live' = Live \ gone

\* The live token gone is exchanged for a new one, or nothing is, and somebody
\* logs in.
Renewed(gone, u, line) ==
    LET n == Len(tokens) + 1 IN
    /\ n \in 1..MaxWrites
    /\ u \in Open
    /\ DOMAIN tokens' = 1..n
    /\ Lasting
    /\ Live' = (Live \ gone) \union {n}
    /\ tokens'[n].user = u /\ tokens'[n].line = line /\ tokens'[n].proof = pw[u]
    /\ UNCHANGED <<account, pw>>

LEMMA RevokeFewer ==
    ASSUME TypeOK, NEW t \in DOMAIN tokens, tokens' = Revoke(t)
    PROVE  Fewer({t})
<1>1. /\ AgedTable(tokens') /\ tokens'[t].revoked
      /\ \A i \in DOMAIN tokens : i # t => tokens'[i] = tokens[i]
  BY RevokeAges
<1> QED
  BY <1>1 DEF Fewer, Lasting, AgedTable, Live

LEMMA ExpireFewer ==
    ASSUME TypeOK, NEW t \in DOMAIN tokens, tokens' = [tokens EXCEPT ![t].expired = TRUE]
    PROVE  Fewer({})
<1>1. AgedTable(tokens')
  BY ExpireAges
<1>2. \A i \in DOMAIN tokens : tokens'[i].revoked = tokens[i].revoked
  BY TablesAre DEF TokenRow
<1> QED
  BY <1>1, <1>2 DEF Fewer, Lasting, AgedTable, Live

LEMMA SetPasswordFewer ==
    ASSUME TypeOK, NEW u \in Users, SetPassword(u)
    PROVE  Fewer({i \in DOMAIN tokens : tokens[i].user = u})
<1>1. /\ AgedTable(tokens')
      /\ \A i \in DOMAIN tokens :
            IF tokens[i].user = u THEN tokens'[i].revoked ELSE tokens'[i] = tokens[i]
  BY RevokeAllAges DEF SetPassword
<1> QED
  BY <1>1 DEF Fewer, Lasting, AgedTable, Live

\* One token more at the end of table T, which has aged.
LEMMA IssueRenews ==
    ASSUME TypeOK, NEW T, AgedTable(T), NEW u \in Users, NEW parent \in Nat,
           NEW line \in Nat, NEW seen \in Nat, NEW gone,
           {i \in DOMAIN tokens : ~T[i].revoked} = Live \ gone,
           u \in Open, Room(u),
           tokens' = Issue(T, u, parent, line, pw[u], seen),
           UNCHANGED <<account, pw>>
    PROVE  Renewed(gone, u, line)
<1> DEFINE row == [user |-> u, revoked |-> FALSE, expired |-> FALSE,
                   parent |-> parent, line |-> line, proof |-> pw[u],
                   born |-> pw[u], seen |-> seen, open |-> MayLogin(account[u])]
           n == Len(tokens) + 1
<1>1. /\ row \in TokenRow /\ ~row.revoked
      /\ row.user = u /\ row.line = line /\ row.proof = pw[u]
  <2>1. MayLogin(account[u]) \in BOOLEAN
    BY Zenon DEF MayLogin
  <2> QED
    BY <2>1 DEF TokenRow, TypeOK
<1>2. tokens' = Append(T, row)
  BY DEF Issue
<1> HIDE DEF row
<1>3. T \in Seq(TokenRow) /\ Len(T) = Len(tokens) /\ DOMAIN tokens = 1..Len(tokens)
      /\ Len(tokens) \in Nat /\ \A i \in DOMAIN tokens : Aged(tokens[i], T[i])
  BY TablesAre DEF AgedTable
<1>4. /\ DOMAIN tokens' = 1..n
      /\ tokens'[n] = row
      /\ \A i \in DOMAIN tokens : tokens'[i] = T[i]
  BY <1>1, <1>2, <1>3, AppendRow
<1>5. n \in 1..MaxWrites
  BY <1>3, AccountConstantsOK, TablesAre DEF Room, TypeOK
<1>6. Live' = (Live \ gone) \union {n}
  BY <1>1, <1>3, <1>4 DEF Live
<1> QED
  BY <1>1, <1>3, <1>4, <1>5, <1>6 DEF Renewed, Lasting

LEMMA LoginRenews ==
    ASSUME TypeOK, NEW s \in Sessions, UpToDate(proc[s]), LoginCommit(s)
    PROVE  /\ proc[s].user \in Users
           /\ Renewed({}, proc[s].user, Len(tokens) + 1)
           /\ access' = access \union {proc[s].user}
<1>1. PICK u \in Users : u = proc[s].user /\ MayLogin(account[u]) /\ proc[s].proof = pw[u]
  BY ProcFields DEF LoginCommit, UpToDate
<1>2. u \in Open
  BY <1>1, MayLoginIs DEF Open
<1>3. AgedTable(tokens) /\ Len(tokens) \in Nat
  BY SameAged, TablesAre
<1>4. /\ Room(u) /\ tokens' = Issue(tokens, u, 0, Len(tokens) + 1, pw[u], 0)
      /\ UNCHANGED <<account, pw>> /\ access' = access \union {u}
  BY <1>1 DEF LoginCommit
<1>5. {i \in DOMAIN tokens : ~tokens[i].revoked} = Live \ {}
  BY DEF Live
<1>6. 0 \in Nat /\ Len(tokens) + 1 \in Nat
  BY <1>3
<1>7. Renewed({}, u, Len(tokens) + 1)
  BY <1>2, <1>3, <1>4, <1>5, <1>6, IssueRenews
<1> QED
  BY <1>1, <1>4, <1>7

LEMMA RefreshRenews ==
    ASSUME AccountInv, Fits, NEW s \in Sessions, UpToDate(proc[s]), RefreshCommit(s)
    PROVE  LET t == proc[s].token IN
           /\ t \in Live
           /\ Renewed({t}, tokens[t].user, tokens[t].line)
           /\ access' = access \union {tokens[t].user}
<1>0. TypeOK
  BY DEF AccountInv
<1>1. PICK t \in DOMAIN tokens : t = proc[s].token /\ t \in Live
  BY DEF AccountInv, Knows, RefreshKnows, RefreshCommit, UpToDate, Live
<1>2. PICK u \in Users : u = tokens[t].user
  BY <1>0, TablesAre
<1>3. u \in Open /\ tokens[t].proof = pw[u]
  BY <1>1, <1>2 DEF Open, RefreshCommit, Fits, Live
<1>4. AgedTable(Revoke(t)) /\ {i \in DOMAIN tokens : ~Revoke(t)[i].revoked} = Live \ {t}
  BY <1>0, RevokeAges DEF Live
<1>5. /\ t \in Nat /\ tokens[t].line \in Nat /\ proc[s].seen \in Nat
  BY <1>0, TablesAre, ProcFields DEF TokenRow, RefreshCommit
<1>6. /\ Room(u)
      /\ tokens' = Issue(Revoke(t), u, t, tokens[t].line, pw[u], proc[s].seen)
      /\ UNCHANGED <<account, pw>> /\ access' = access \union {u}
  BY <1>1, <1>2, <1>3 DEF RefreshCommit
<1> QED
  BY <1>0, <1>1, <1>2, <1>3, <1>4, <1>5, <1>6, IssueRenews

-----------------------------------------------------------------------------
(* The keys of Keyring.                                                    *)

KeyStep == [Abstract!Next]_Abstract!keyring

LEMMA KeysAre == Keys = {Key(i) : i \in Live}
BY DEF Keys, Live

LEMMA NextKeysAre == Keys' = {Key(i)' : i \in Live'}
BY DEF Keys, Live

LEMMA SameKey ==
    ASSUME NEW i, Aged(tokens[i], tokens'[i])
    PROVE  Key(i)' = Key(i)
BY DEF Aged, Key

LEMMA KeyFields ==
    ASSUME NEW i
    PROVE  /\ Key(i).id = i /\ Key(i).line = tokens[i].line
           /\ Key(i).owner = tokens[i].user /\ Key(i).fits = tokens[i].proof
BY DEF Key

LEMMA FewerKeys ==
    ASSUME TypeOK, NEW gone, Fewer(gone)
    PROVE  Keys' = {k \in Keys : k.id \notin gone}
<1>1. Live' \subseteq Live /\ \A i \in Live : i \in Live' <=> i \notin gone
  BY DEF Fewer
<1>2. \A i \in Live : Key(i)' = Key(i)
  BY SameKey DEF Fewer, Lasting, Live
<1>3. Keys' = {Key(i)' : i \in Live'}
  BY NextKeysAre
<1>4. Keys' = {Key(i) : i \in Live'}
  BY <1>1, <1>2, <1>3
<1> QED
  BY <1>1, <1>4, KeysAre, KeyFields

LEMMA RenewedKeys ==
    ASSUME TypeOK, NEW gone, NEW u, NEW line, Renewed(gone, u, line)
    PROVE  /\ Keys' = {k \in Keys : k.id \notin gone}
                        \union {Abstract!Cut(u, Len(tokens) + 1, line)}
           /\ Abstract!Fresh(Len(tokens) + 1)
<1>0. PICK n : n = Len(tokens) + 1
  OBVIOUS
<1>1. /\ n \notin DOMAIN tokens
      /\ \A i \in DOMAIN tokens : i < n
  BY <1>0, TablesAre
<1>2. Live' = (Live \ gone) \union {n}
  BY <1>0 DEF Renewed
<1>3. \A i \in Live : Key(i)' = Key(i)
  BY SameKey DEF Renewed, Lasting, Live
<1>4. Key(n)' = Abstract!Cut(u, n, line)
  BY <1>0 DEF Renewed, Key, Abstract!Cut
<1>5. Keys' = {Key(i)' : i \in Live'}
  BY NextKeysAre
<1>6. Keys' = {Key(i)' : i \in Live \ gone} \union {Key(n)'}
  BY <1>2, <1>5
<1>7. {Key(i)' : i \in Live \ gone} = {Key(i) : i \in Live \ gone}
  BY <1>3
<1>8. {Key(i) : i \in Live \ gone} = {k \in Keys : k.id \notin gone}
  BY KeysAre, KeyFields
<1>9. Abstract!Fresh(n)
  BY <1>1, KeysAre, KeyFields DEF Abstract!Fresh, Live
<1> QED
  BY <1>0, <1>4, <1>6, <1>7, <1>8, <1>9

\* Revoking one token drops its key, if it has one in use.
LEMMA RevokeDrops ==
    ASSUME TypeOK, NEW t, Fewer({t}), UNCHANGED <<account, pw>>
    PROVE  KeyStep
<1>1. Keys' = {k \in Keys : k.id # t}
  BY FewerKeys
<1>2. UNCHANGED <<Open, pw>>
  BY DEF Open
<1>3. CASE t \in Live
  <2>1. Key(t) \in Keys
    BY <1>3, KeysAre
  <2>2. Keys' = Keys \ {Key(t)}
    BY <1>1, KeysAre, KeyFields
  <2>3. Abstract!Drop(Key(t))
    BY <1>2, <2>2 DEF Abstract!Drop
  <2> QED
    BY <2>1, <2>3 DEF KeyStep, Abstract!Next
<1>4. CASE t \notin Live
  <2>1. Keys' = Keys
    BY <1>1, <1>4, KeysAre, KeyFields
  <2> QED
    BY <1>2, <2>1 DEF KeyStep, Abstract!keyring
<1> QED
  BY <1>3, <1>4

LEMMA ExpireDropsNone ==
    ASSUME TypeOK, Fewer({}), UNCHANGED <<account, pw>>
    PROVE  KeyStep
BY FewerKeys DEF KeyStep, Abstract!keyring, Open

LEMMA SetPasswordChanges ==
    ASSUME TypeOK, NEW u \in Users, SetPassword(u), UNCHANGED account
    PROVE  KeyStep
<1>1. Keys' = {k \in Keys : k.id \notin {i \in DOMAIN tokens : tokens[i].user = u}}
  BY SetPasswordFewer, FewerKeys
<1>2. Keys' = {k \in Keys : k.owner # u}
  BY <1>1, KeysAre, KeyFields DEF Live
<1>3. Abstract!ChangeLock(u)
  BY <1>2 DEF Abstract!ChangeLock, SetPassword, Open
<1> QED
  BY <1>3 DEF KeyStep, Abstract!Next

LEMMA LoginEnters ==
    ASSUME TypeOK, NEW s \in Sessions, UpToDate(proc[s]), LoginCommit(s)
    PROVE  KeyStep
<1> DEFINE u == proc[s].user
           n == Len(tokens) + 1
<1>1. u \in Users /\ Renewed({}, u, n)
  BY LoginRenews
<1>2. Keys' = Keys \union {Abstract!Cut(u, n, n)} /\ Abstract!Fresh(n)
  BY <1>1, RenewedKeys
<1>3. u \in Open /\ n \in 1..MaxWrites /\ UNCHANGED <<Open, pw>>
  BY <1>1 DEF Renewed, Open
<1>4. Abstract!Enter(u)
  BY <1>2, <1>3 DEF Abstract!Enter
<1> QED
  BY <1>1, <1>4 DEF KeyStep, Abstract!Next

LEMMA RefreshExchanges ==
    ASSUME AccountInv, Fits, NEW s \in Sessions, UpToDate(proc[s]), RefreshCommit(s)
    PROVE  KeyStep
<1> DEFINE t == proc[s].token
           u == tokens[t].user
           n == Len(tokens) + 1
<1>1. t \in Live /\ Renewed({t}, u, tokens[t].line)
  BY RefreshRenews
<1>2. /\ Keys' = {k \in Keys : k.id # t} \union {Abstract!Cut(u, n, tokens[t].line)}
      /\ Abstract!Fresh(n)
  BY <1>1, RenewedKeys DEF AccountInv
<1>3. Key(t) \in Keys /\ {k \in Keys : k.id # t} = Keys \ {Key(t)}
  BY <1>1, KeysAre, KeyFields
<1>4. u \in Open /\ n \in 1..MaxWrites /\ UNCHANGED <<Open, pw>>
  BY <1>1 DEF Renewed, Open
<1>5. Key(t).owner = u /\ Key(t).line = tokens[t].line
  BY KeyFields
<1>6. Abstract!Exchange(Key(t))
  BY <1>2, <1>3, <1>4, <1>5 DEF Abstract!Exchange
<1> QED
  BY <1>3, <1>6 DEF KeyStep, Abstract!Next

LEMMA DoorMoves == ASSUME UNCHANGED <<tokens, pw>> PROVE KeyStep
<1>1. Open' \subseteq Users
  BY DEF Open
<1>2. Keys' = Keys
  BY DEF Keys, Key
<1> QED
  BY <1>1, <1>2 DEF KeyStep, Abstract!Next, Abstract!Door

-----------------------------------------------------------------------------
(* Tokens of who is in good standing, with the present password.           *)

LEMMA FewerStand ==
    ASSUME TypeOK, Standing, NEW gone, Fewer(gone), UNCHANGED <<account, access>>,
           pw' \in [Users -> Nat],
           \A i \in Live' : pw'[tokens[i].user] = pw[tokens[i].user]
    PROVE  Standing'
<1>1. Fits'
  BY DEF Standing, Fits, Fewer, Lasting, Live, Aged
<1>2. FlagFollows' /\ KeptOut'
  BY DEF Standing, FlagFollows, KeptOut, Outside, Fewer, Lasting, Aged
<1> QED
  BY <1>1, <1>2 DEF Standing

LEMMA SetPasswordStands ==
    ASSUME TypeOK, Standing, NEW u \in Users, SetPassword(u),
           UNCHANGED <<account, access>>
    PROVE  Standing'
<1>1. Fewer({i \in DOMAIN tokens : tokens[i].user = u})
  BY SetPasswordFewer
<1>2. /\ pw' \in [Users -> Nat]
      /\ \A v \in Users : v # u => pw'[v] = pw[v]
  BY DEF SetPassword, TypeOK
<1>3. \A i \in Live' : tokens[i].user \in Users /\ tokens[i].user # u
  BY <1>1, TablesAre DEF Fewer, Live
<1> QED
  BY <1>1, <1>2, <1>3, FewerStand

LEMMA RenewedStands ==
    ASSUME TypeOK, Standing, NEW gone, NEW u, NEW line, Renewed(gone, u, line),
           access' = access \union {u}
    PROVE  Standing'
<1>0. PICK n : n = Len(tokens) + 1
  OBVIOUS
<1>1. /\ u \in Open /\ DOMAIN tokens' = 1..n /\ Lasting
      /\ Live' = (Live \ gone) \union {n}
      /\ tokens'[n].user = u /\ tokens'[n].proof = pw[u]
      /\ UNCHANGED <<account, pw>>
  BY <1>0 DEF Renewed
<1>2. \A i \in DOMAIN tokens' : i \in DOMAIN tokens \/ i = n
  BY <1>0, <1>1, TablesAre
<1>3. Fits'
  BY <1>1, <1>2 DEF Standing, Fits, Lasting, Live, Aged
<1>4. account[u].status = "APPROVED"
  BY <1>1 DEF Open, InGoodStanding
<1>5. FlagFollows' /\ KeptOut'
  BY <1>1, <1>2, <1>4 DEF Standing, FlagFollows, KeptOut, Outside, Lasting, Aged
<1> QED
  BY <1>3, <1>5 DEF Standing

\* Whoever logged in has access, also when the commit of the token is lost.
LEMMA LostStands ==
    ASSUME TypeOK, Standing, NEW s \in Sessions, UpToDate(proc[s]), CommitLost(s)
    PROVE  Standing'
<1>1. PICK u \in Users : u = proc[s].user /\ account[u].status = "APPROVED"
  BY ProcFields, MayLoginIs DEF CommitLost, UpToDate
<1>2. UNCHANGED tables /\ access' = access \union {u}
  BY <1>1 DEF CommitLost
<1> QED
  BY <1>1, <1>2 DEF Standing, Fits, FlagFollows, KeptOut, Outside, tables

LEMMA NothingStands == ASSUME Standing, UNCHANGED <<tables, access>> PROVE Standing'
BY DEF Standing, Fits, FlagFollows, KeptOut, Outside, tables

LEMMA CommitsAlone ==
    ASSUME AccountInv, Standing, NEW s \in Sessions, UpToDate(proc[s]),
           \/ ManageCommit(s) \/ LoginCommit(s) \/ RefreshCommit(s)
           \/ ChangeCommit(s) \/ LinkCommit(s) \/ ResetCommit(s) \/ CommitLost(s)
    PROVE  Standing' /\ KeyStep
<1>0. TypeOK
  BY DEF AccountInv
<1>1. CASE ManageCommit(s)
  BY <1>0, <1>1, ManageAlone, DoorMoves DEF ManageCommit
<1>2. CASE LoginCommit(s)
  BY <1>0, <1>2, LoginRenews, RenewedStands, LoginEnters
<1>3. CASE RefreshCommit(s)
  BY <1>0, <1>3, RefreshRenews, RenewedStands, RefreshExchanges DEF Standing
<1>4. CASE ChangeCommit(s)
  <2>1. proc[s].user \in Users
    BY <1>0, <1>4, ProcFields DEF ChangeCommit
  <2> QED
    BY <1>0, <1>4, <2>1, SetPasswordStands, SetPasswordChanges DEF ChangeCommit
<1>5. CASE LinkCommit(s)
  <2>1. UNCHANGED <<account, pw, tokens, access>>
    BY <1>5 DEF LinkCommit
  <2>2. Standing'
    BY <2>1 DEF Standing, Fits, FlagFollows, KeptOut, Outside
  <2> QED
    BY <2>1, <2>2, DoorMoves
<1>6. CASE ResetCommit(s)
  <2>1. links[proc[s].link].user \in Users
    BY <1>0, <1>6, TablesAre DEF AccountInv, Knows, ResetKnows, ResetCommit
  <2> QED
    BY <1>0, <1>6, <2>1, SetPasswordStands, SetPasswordChanges DEF ResetCommit
<1>7. CASE CommitLost(s)
  BY <1>0, <1>7, LostStands, DoorMoves DEF CommitLost, tables
<1> QED
  BY <1>1, <1>2, <1>3, <1>4, <1>5, <1>6, <1>7

-----------------------------------------------------------------------------
(* Steps of a session that runs alone.                                     *)

Goal ==
    /\ Lone'
    /\ \A r \in Sessions : UpToDate(proc[r])'
    /\ Standing'
    /\ KeyStep

LEMMA ReadsAlone ==
    ASSUME AccountInv, Lone, Standing, ~crossed', NEW s \in Sessions, NEW next,
           \/ Begins(s, next)
           \/ proc[s] # Idle /\ Goes(s, next),
           UNCHANGED <<tables, access>>, UpToDate(next)
    PROVE  Goal
<1>1. UpToDate(next)'
  BY DEF UpToDate, Decidable, tables
<1>2. Lone' /\ \A r \in Sessions : UpToDate(proc[r])'
  BY <1>1, AloneAfter DEF AccountInv
<1>3. KeyStep
  BY DoorMoves DEF tables
<1> QED
  BY <1>2, <1>3, NothingStands DEF Goal

LEMMA ServeAlone ==
    ASSUME AloneInv, ~crossed, ~crossed', NEW s \in Sessions, Serve(s)
    PROVE  Goal
<1>0. /\ AccountInv /\ TypeOK /\ Lone /\ Standing /\ UpToDate(proc[s])
  BY DEF AloneInv, AccountInv
<1>1. CASE ManageRead(s)
  <2>1. PICK op \in Ops, u \in Users :
          /\ Exists(u)
          /\ Decidable(op, account[u])
          /\ Begins(s, [pc |-> "manage", user |-> u,
                        set |-> Dirty(account[u], Outcome(op, account[u]))])
    BY <1>1 DEF ManageRead
  <2>2. account[u] \in AccountRow
    BY <1>0, <2>1, ExistsIs
  <2>3. UpToDate([pc |-> "manage", user |-> u,
                  set |-> Dirty(account[u], Outcome(op, account[u]))])
    BY <2>1, <2>2 DEF UpToDate
  <2> QED
    BY <1>0, <1>1, <2>1, <2>3, ReadsAlone DEF ManageRead
<1>2. CASE LoginRead(s)
  <2>1. PICK u \in Users :
          /\ MayLogin(account[u])
          /\ Begins(s, [pc |-> "login", user |-> u, proof |-> pw[u]])
    BY <1>2 DEF LoginRead
  <2>2. UpToDate([pc |-> "login", user |-> u, proof |-> pw[u]])
    BY <2>1 DEF UpToDate
  <2> QED
    BY <1>0, <1>2, <2>1, <2>2, ReadsAlone DEF LoginRead
<1>3. CASE RefreshRead(s)
  <2>1. PICK t \in DOMAIN tokens :
          /\ ~tokens[t].revoked
          /\ Begins(s, [pc |-> "refresh", token |-> t, seen |-> Len(tokens)])
    BY <1>3 DEF RefreshRead
  <2>2. UpToDate([pc |-> "refresh", token |-> t, seen |-> Len(tokens)])
    BY <2>1 DEF UpToDate
  <2> QED
    BY <1>0, <1>3, <2>1, <2>2, ReadsAlone DEF RefreshRead
<1>4. CASE ChangeRead(s)
  <2>1. PICK u : Begins(s, [pc |-> "change", user |-> u])
    BY <1>4 DEF ChangeRead
  <2>2. UpToDate([pc |-> "change", user |-> u])
    BY DEF UpToDate
  <2> QED
    BY <1>0, <1>4, <2>1, <2>2, ReadsAlone DEF ChangeRead
<1>5. CASE LinkRead(s)
  <2>1. PICK u : Begins(s, [pc |-> "link", user |-> u])
    BY <1>5 DEF LinkRead
  <2>2. UpToDate([pc |-> "link", user |-> u])
    BY DEF UpToDate
  <2> QED
    BY <1>0, <1>5, <2>1, <2>2, ReadsAlone DEF LinkRead
<1>6. CASE ResetRead(s)
  <2>1. PICK l : Begins(s, [pc |-> "check", link |-> l, seen |-> Len(resets)])
    BY <1>6 DEF ResetRead
  <2>2. UpToDate([pc |-> "check", link |-> l, seen |-> Len(resets)])
    BY DEF UpToDate
  <2> QED
    BY <1>0, <1>6, <2>1, <2>2, ReadsAlone DEF ResetRead
<1>7. CASE RefreshRefused(s) \/ Abort(s)
  <2>1. proc[s] # Idle /\ Goes(s, Idle) /\ UNCHANGED <<tables, access>>
    BY <1>7 DEF RefreshRefused, Abort, Ends, Idle
  <2>2. UpToDate(Idle)
    BY DEF UpToDate, Idle
  <2> QED
    BY <1>0, <2>1, <2>2, ReadsAlone
<1>8. CASE ResetCheck(s)
  <2>1. PICK next : Goes(s, next) /\ (next = Idle \/ next = [proc[s] EXCEPT !.pc = "reset"])
    BY <1>8 DEF ResetCheck, Ends
  <2>2. proc[s] # Idle /\ UNCHANGED <<tables, access>>
    BY <1>8 DEF ResetCheck, Idle
  <2>3. next.pc \in {"idle", "reset"}
    <3>1. proc[s] \in [pc : {"check", "reset"}, link : Nat, seen : Nat]
      BY <1>0, <1>8, ProcFields DEF ResetCheck, ProcState, Idle
    <3> QED
      BY <2>1, <3>1 DEF Idle
  <2>4. UpToDate(next)
    BY <2>3 DEF UpToDate
  <2> QED
    BY <1>0, <2>1, <2>2, <2>4, ReadsAlone
<1>9. CASE \/ ManageCommit(s) \/ LoginCommit(s) \/ RefreshCommit(s)
           \/ ChangeCommit(s) \/ LinkCommit(s) \/ ResetCommit(s) \/ CommitLost(s)
  <2>1. proc[s].pc # "idle" /\ Ends(s)
    BY <1>9
    DEF ManageCommit, LoginCommit, RefreshCommit, ChangeCommit, LinkCommit,
        ResetCommit, CommitLost
  <2> QED
    BY <1>0, <1>9, <2>1, CommitsAlone, EndsAlone DEF Goal
<1> QED
  BY <1>1, <1>2, <1>3, <1>4, <1>6, <1>7, <1>8, <1>9, <1>5 DEF Serve

\* Time passes beside any request.
LEMMA ExpiryAlone ==
    ASSUME AloneInv, ~crossed, UNCHANGED <<account, pw, access, proc>>,
           \/ \E t \in DOMAIN tokens : TokenExpires(t)
           \/ UNCHANGED tokens
    PROVE  Goal
<1>0. /\ AccountInv /\ TypeOK /\ Lone /\ Standing
      /\ \A r \in Sessions : UpToDate(proc[r])
  BY DEF AloneInv, AccountInv
<1>1. Fewer({}) /\ \A i \in DOMAIN tokens : tokens'[i].revoked = tokens[i].revoked
  <2>1. CASE UNCHANGED tokens
    BY <1>0, <2>1, SameAged DEF Fewer, Lasting, AgedTable, Live
  <2>2. ASSUME NEW t \in DOMAIN tokens, TokenExpires(t)
        PROVE  Fewer({}) /\ \A i \in DOMAIN tokens : tokens'[i].revoked = tokens[i].revoked
    <3>1. tokens' = [tokens EXCEPT ![t].expired = TRUE]
      BY <2>2 DEF TokenExpires
    <3>2. \A i \in DOMAIN tokens : tokens'[i].revoked = tokens[i].revoked
      BY <1>0, <3>1, TablesAre DEF TokenRow
    <3> QED
      BY <1>0, <3>1, <3>2, ExpireFewer
  <2> QED
    BY <2>1, <2>2
<1>2. Lone'
  BY <1>0 DEF Lone
<1>3. ASSUME NEW r \in Sessions PROVE UpToDate(proc[r])'
  <2>1. proc[r].pc = "refresh" => proc[r].token \in DOMAIN tokens
    BY <1>0 DEF AccountInv, Knows, RefreshKnows
  <2> QED
    BY <1>0, <1>1, <2>1 DEF UpToDate, Decidable
<1>4. Standing'
  BY <1>0, <1>1, FewerStand DEF TypeOK
<1>5. KeyStep
  BY <1>0, <1>1, ExpireDropsNone
<1> QED
  BY <1>2, <1>3, <1>4, <1>5 DEF Goal

LEMMA StepAlone == ASSUME AloneInv, [Next]_vars, ~crossed' PROVE Goal
<1>0. /\ ~crossed /\ AccountInv /\ TypeOK /\ Lone /\ Standing
  BY NotCrossedYet DEF AloneInv, AccountInv
<1>1. ASSUME NEW u \in Users, Register(u) \/ Create(u) \/ HardDelete(u) PROVE Goal
  <2>1. Passes /\ UNCHANGED <<tokens, pw>>
    BY <1>1 DEF Register, Create, HardDelete
  <2> QED
    BY <1>0, <1>1, <2>1, AdministratorsAlone, PassesAlone, DoorMoves DEF Goal
<1>2. ASSUME NEW t \in DOMAIN tokens, Logout(t) PROVE Goal
  <2>1. /\ Fewer({t}) /\ Passes /\ UNCHANGED <<account, pw, access>>
    BY <1>0, <1>2, RevokeFewer DEF Logout
  <2>2. Standing'
    BY <1>0, <2>1, FewerStand DEF TypeOK
  <2> QED
    BY <1>0, <2>1, <2>2, PassesAlone, RevokeDrops DEF Goal
<1>3. ASSUME NEW t \in DOMAIN tokens, TokenExpires(t) PROVE Goal
  BY <1>0, <1>3, ExpiryAlone DEF TokenExpires
<1>4. ASSUME NEW l \in DOMAIN links, LinkExpires(l) PROVE Goal
  BY <1>0, <1>4, ExpiryAlone DEF LinkExpires
<1>5. CASE UNCHANGED vars
  BY <1>0, <1>5, ExpiryAlone DEF vars, tables
<1>6. ASSUME NEW s \in Sessions, Serve(s) PROVE Goal
  BY <1>0, <1>6, ServeAlone
<1> QED
  BY <1>1, <1>2, <1>3, <1>4, <1>5, <1>6 DEF Next

-----------------------------------------------------------------------------
(* Theorems.                                                               *)

LEMMA AloneInvariant == Spec => []AloneInv
<1>1. Init => AloneInv
  <2> SUFFICES ASSUME Init PROVE AloneInv
    OBVIOUS
  <2>1. /\ tokens = <<>> /\ DOMAIN tokens = {} /\ access = {}
        /\ \A s \in Sessions : proc[s] = Idle
        /\ \A u \in Users : account[u].status \in {"APPROVED", "ABSENT"}
    BY DEF Init
  <2>2. Lone /\ \A s \in Sessions : UpToDate(proc[s])
    BY <2>1 DEF Lone, UpToDate, Idle
  <2>3. Standing
    BY <2>1 DEF Standing, Fits, FlagFollows, KeptOut, Outside
  <2> QED
    BY <2>2, <2>3, InvInit DEF AloneInv
<1>2. AloneInv /\ [Next]_vars => AloneInv'
  <2> SUFFICES ASSUME AloneInv, [Next]_vars PROVE AloneInv'
    OBVIOUS
  <2>1. AccountInv'
    BY InvNext DEF AloneInv
  <2>2. ~crossed' => Goal
    BY StepAlone
  <2> QED
    BY <2>1, <2>2 DEF AloneInv, Goal
<1> QED
  BY <1>1, <1>2, PTL DEF Spec

\* As long as no two requests cross, who is DISABLED is not active, and who was
\* refused or is not approved yet was never issued a token: the columns that an
\* administrator's request writes are those it has read.  Hence get_current_user
\* lets none of them pass, whatever tokens the disabled still hold.
THEOREM NobodyElseGetsIn == Spec => [](NoWayIn /\ OthersNotAdmitted)
<1>1. AloneInv => NoWayIn
  BY DEF AloneInv, Standing, FlagFollows, KeptOut, Outside, NoWayIn,
         DisabledIsInactive, NeverApprovedNeverIn
<1>2. NoWayIn => OthersNotAdmitted
  BY DEF NoWayIn, DisabledIsInactive, NeverApprovedNeverIn, OthersNotAdmitted,
         Admitted
<1> QED
  BY <1>1, <1>2, AloneInvariant, PTL

\* As long as no two requests cross, the tokens that are not revoked are the
\* keys of Keyring: one for each login, cut for the present password by who is
\* in good standing, exchanged for one other, and gone with the password.
THEOREM AccountsImplementKeyring == Spec => AccountsKeepKeys
<1>1. AloneInv /\ [Next]_vars => (~crossed' => [Abstract!Next]_Abstract!keyring)
  BY StepAlone DEF Goal, KeyStep
<1>2. AloneInv /\ [Next]_vars => [~crossed' => [Abstract!Next]_Abstract!keyring]_vars
  BY <1>1
<1> QED
  BY <1>2, AloneInvariant, PTL DEF Spec, AccountsKeepKeys
=============================================================================
