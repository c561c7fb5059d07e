--------------------------- MODULE UserDataProofs ---------------------------
(***************************************************************************)
(* Theorems about accounts and refresh tokens (Accounts), for all          *)
(* addresses and any number of calls and token pairs, and about what a     *)
(* runtime task is given: its key (ProviderConfigs) and the approved       *)
(* memories of its prompt (MemoryReview), for all providers, keys,         *)
(* candidates and texts and any number of overlapping requests.            *)
(***************************************************************************)
EXTENDS Accounts, ProviderConfigs, MemoryReview, FiniteSetTheorems, TLAPS

-----------------------------------------------------------------------------
(* Accounts.                                                               *)

(* What the token rows t say of a call in state n.                         *)
Fits(n, t) ==
  /\ n.pc \in {"read", "user", "revoke"} => n.token # 0
  /\ n.pair # 0 => n.pc = "issued"
  /\ n.token # 0 =>
       /\ t[n.token].issued
       /\ n.dead => t[n.token].revoked \/ t[n.token].expired
       /\ n.pc \in {"user", "revoke"} => ~n.dead
       /\ n.pc \in {"issue", "issued"} => ~n.dead /\ t[n.token].revoked

AccountsInv ==
  /\ AccountsTypeOK
  /\ \A c \in Calls : Fits(call[c], token)

(* An issued token stays what it is, and once dead it stays dead.          *)
Grows(t, u) ==
  \A n \in Pairs : t[n].issued =>
    /\ u[n].issued
    /\ t[n].revoked => u[n].revoked
    /\ t[n].expired => u[n].expired

LEMMA NoPairIsZero == 0 \notin Pairs
BY DEF Pairs

LEMMA FitsGrow ==
  ASSUME NEW n \in Call, NEW t \in [Pairs -> Token], NEW u \in [Pairs -> Token],
         Grows(t, u), Fits(n, t)
  PROVE  Fits(n, u)
<1>1. CASE n.token = 0
  BY <1>1 DEF Fits
<1>2. CASE n.token # 0
  <2>1. n.token \in Pairs
    BY <1>2 DEF Call
  <2>2. QED
    BY <1>2, <2>1 DEF Fits, Grows
<1>3. QED
  BY <1>1, <1>2

LEMMA MoveKeeps ==
  ASSUME AccountsInv, NEW c \in Calls, NEW n \in Call, call' = [call EXCEPT ![c] = n],
         account' \in [Emails -> {"absent", "active", "disabled"}],
         token' \in [Pairs -> Token], Grows(token, token'), Fits(n, token')
  PROVE  AccountsInv'
<1>1. /\ token \in [Pairs -> Token] /\ call \in [Calls -> Call]
      /\ call'[c] = n /\ \A d \in Calls : d # c => call'[d] = call[d]
  BY DEF AccountsInv, AccountsTypeOK
<1>2. AccountsTypeOK'
  BY <1>1 DEF AccountsTypeOK
<1>3. \A d \in Calls : Fits(call'[d], token')
  <2>1. ASSUME NEW d \in Calls, d # c PROVE Fits(call'[d], token')
    <3>1. call[d] \in Call /\ call'[d] = call[d] /\ Fits(call[d], token)
      BY <1>1, <2>1 DEF AccountsInv
    <3>2. QED
      BY <1>1, <3>1, FitsGrow
  <2>2. QED
    BY <1>1, <2>1
<1>4. QED
  BY <1>2, <1>3 DEF AccountsInv

(* Calls that stay where they are, while a token or an account changes.    *)
LEMMA AroundKeeps ==
  ASSUME AccountsInv, UNCHANGED call,
         account' \in [Emails -> {"absent", "active", "disabled"}],
         token' \in [Pairs -> Token], Grows(token, token')
  PROVE  AccountsInv'
<1>1. token \in [Pairs -> Token] /\ call \in [Calls -> Call] /\ call' = call
  BY DEF AccountsInv, AccountsTypeOK
<1>2. \A d \in Calls : Fits(call'[d], token')
  BY <1>1, FitsGrow DEF AccountsInv
<1>3. QED
  BY <1>1, <1>2 DEF AccountsInv, AccountsTypeOK

(* What is known before any step.                                          *)
LEMMA Before ==
  ASSUME AccountsInv
  PROVE  /\ account \in [Emails -> {"absent", "active", "disabled"}]
         /\ token \in [Pairs -> Token] /\ call \in [Calls -> Call]
         /\ Grows(token, token)
         /\ \A c \in Calls : Fits(call[c], token)
BY DEF AccountsInv, AccountsTypeOK, Grows

-----------------------------------------------------------------------------
LEMMA AccountsInit == InitAccounts => AccountsInv
<1>1. SUFFICES ASSUME InitAccounts PROVE AccountsInv
  OBVIOUS
<1> DEFINE row == [issued |-> FALSE, email |-> RootEmail, revoked |-> FALSE,
                   expired |-> FALSE, from |-> 0]
<1>2. row \in Token /\ IdleCall \in Call
  BY AccountsAssumption DEF Token, IdleCall, Call, CallPc
<1>3. token = [n \in Pairs |-> row] /\ call = [c \in Calls |-> IdleCall]
  BY <1>1 DEF InitAccounts
<1> HIDE DEF row
<1>4. Fits(IdleCall, token)
  BY DEF Fits, IdleCall
<1>5. account \in [Emails -> {"absent", "active", "disabled"}]
  BY <1>1 DEF InitAccounts
<1>6. QED
  BY <1>2, <1>3, <1>4, <1>5 DEF AccountsInv, AccountsTypeOK

(* A call that has read nothing.                                           *)
LEMMA IdleFits ==
  ASSUME NEW e \in Emails, NEW t
  PROVE  /\ [IdleCall EXCEPT !.pc = "issue", !.email = e] \in Call
         /\ Fits([IdleCall EXCEPT !.pc = "issue", !.email = e], t)
BY AccountsAssumption DEF IdleCall, Call, CallPc, Fits

(* A step that only moves the counter of a call.                           *)
LEMMA GotoKeeps ==
  ASSUME AccountsInv, NEW c \in Calls, NEW pc \in CallPc, Goto(c, pc), call[c].pc # "issued",
         account' \in [Emails -> {"absent", "active", "disabled"}],
         token' \in [Pairs -> Token], Grows(token, token'),
         pc \in {"read", "user", "revoke"} => call[c].token # 0,
         call[c].token # 0 =>
           /\ pc \in {"user", "revoke"} => ~call[c].dead
           /\ pc \in {"issue", "issued"} => ~call[c].dead /\ token'[call[c].token].revoked
  PROVE  AccountsInv'
<1> DEFINE n == [call[c] EXCEPT !.pc = pc]
<1>1. token \in [Pairs -> Token] /\ call[c] \in Call /\ Fits(call[c], token)
  BY Before
<1>2. Fits(call[c], token')
  BY <1>1, FitsGrow
<1>3. /\ n \in Call /\ n.pc = pc /\ n.token = call[c].token /\ n.dead = call[c].dead
      /\ n.pair = call[c].pair /\ call' = [call EXCEPT ![c] = n]
  BY <1>1 DEF Call, Goto
<1>4. n.pair = 0
  BY <1>1, <1>3 DEF Fits
<1> HIDE DEF n
<1>5. Fits(n, token')
  BY <1>2, <1>3, <1>4 DEF Fits
<1>6. QED
  BY <1>3, <1>5, MoveKeeps

(* One token row changes, and only for the worse.                          *)
LEMMA TokenMoves ==
  ASSUME AccountsInv, NEW n \in Pairs, NEW row \in Token,
         token' = [token EXCEPT ![n] = row],
         token[n].issued =>
           /\ row.issued
           /\ token[n].revoked => row.revoked
           /\ token[n].expired => row.expired
  PROVE  token' \in [Pairs -> Token] /\ token'[n] = row /\ Grows(token, token')
BY Before DEF Grows

LEMMA Revoke ==
  ASSUME AccountsInv, NEW n \in Pairs, token' = [token EXCEPT ![n].revoked = TRUE]
  PROVE  token' \in [Pairs -> Token] /\ token'[n].revoked /\ Grows(token, token')
<1> DEFINE row == [token[n] EXCEPT !.revoked = TRUE]
<1>1. token[n] \in Token
  BY Before
<1>2. row \in Token /\ row.issued = token[n].issued /\ row.revoked /\ row.expired = token[n].expired
  BY <1>1 DEF Token
<1>3. token' = [token EXCEPT ![n] = row]
  OBVIOUS
<1> HIDE DEF row
<1>4. QED
  BY <1>2, <1>3, TokenMoves

-----------------------------------------------------------------------------
LEMMA RegisterKeeps ==
  ASSUME AccountsInv, NEW c \in Calls, NEW e \in Emails, RegisterUser(c, e)
  PROVE  AccountsInv'
<1>1. token' \in [Pairs -> Token] /\ Grows(token, token')
  BY Before DEF RegisterUser
<1>2. account' \in [Emails -> {"absent", "active", "disabled"}]
  BY Before DEF RegisterUser
<1>3. CASE account[e] = "absent"
  BY <1>1, <1>2, <1>3, IdleFits, MoveKeeps DEF RegisterUser
<1>4. CASE account[e] # "absent"
  BY <1>1, <1>2, <1>4, GotoKeeps DEF RegisterUser, CallPc
<1>5. QED
  BY <1>3, <1>4

LEMMA LoginKeeps ==
  ASSUME AccountsInv, NEW c \in Calls, NEW e \in Emails, Login(c, e)
  PROVE  AccountsInv'
<1>1. /\ token' \in [Pairs -> Token] /\ Grows(token, token')
      /\ account' \in [Emails -> {"absent", "active", "disabled"}]
  BY Before DEF Login
<1>2. CASE Goto(c, "ended")
  BY <1>1, <1>2, GotoKeeps DEF Login, CallPc
<1>3. CASE call' = [call EXCEPT ![c] = [IdleCall EXCEPT !.pc = "issue", !.email = e]]
  BY <1>1, <1>3, IdleFits, MoveKeeps
<1>4. QED
  BY <1>2, <1>3 DEF Login

LEMMA VerifyKeeps ==
  ASSUME AccountsInv, NEW c \in Calls, NEW n \in Pairs, VerifyRefreshToken(c, n)
  PROVE  AccountsInv'
<1> DEFINE next == [IdleCall EXCEPT
                      !.pc = IF token[n].expired THEN "ended" ELSE "read",
                      !.token = n,
                      !.email = token[n].email,
                      !.dead = token[n].revoked \/ token[n].expired]
<1>1. token[n] \in Token /\ token' = token /\ token[n].issued
  BY Before DEF VerifyRefreshToken
<1>2. (token[n].revoked \/ token[n].expired) \in BOOLEAN
  OBVIOUS
<1>3. next \in Call
  BY <1>1, <1>2, AccountsAssumption DEF IdleCall, Call, CallPc, Token
<1>4. /\ next.pc \in {"ended", "read"} /\ next.token = n /\ next.pair = 0
      /\ next.dead = (token[n].revoked \/ token[n].expired)
  BY DEF IdleCall
<1>5. call' = [call EXCEPT ![c] = next]
  BY DEF VerifyRefreshToken
<1> HIDE DEF next
<1>6. Fits(next, token')
  BY <1>1, <1>4, NoPairIsZero DEF Fits
<1>7. QED
  BY <1>1, <1>3, <1>5, <1>6, Before, MoveKeeps DEF VerifyRefreshToken

LEMMA GetTokenKeeps ==
  ASSUME AccountsInv, NEW c \in Calls, GetRefreshTokenByHash(c)
  PROVE  AccountsInv'
<1>1. call[c].pc = "read" /\ call[c].token # 0 /\ Fits(call[c], token) /\ UNCHANGED <<account, token>>
  BY Before DEF GetRefreshTokenByHash, Fits
<1>2. CASE token[call[c].token].revoked \/ token[call[c].token].expired
  <2>1. Goto(c, "ended")
    BY <1>2 DEF GetRefreshTokenByHash
  <2>2. QED
    BY <1>1, <2>1, Before, GotoKeeps DEF CallPc
<1>3. CASE ~(token[call[c].token].revoked \/ token[call[c].token].expired)
  <2>1. Goto(c, "user")
    BY <1>3 DEF GetRefreshTokenByHash
  <2>2. ~call[c].dead
    BY <1>1, <1>3 DEF Fits
  <2>3. QED
    BY <1>1, <2>1, <2>2, Before, GotoKeeps DEF CallPc
<1>4. QED
  BY <1>2, <1>3

LEMMA GetUserKeeps ==
  ASSUME AccountsInv, NEW c \in Calls, GetUserByID(c)
  PROVE  AccountsInv'
<1>1. PICK pc \in {"revoke", "ended"} : Goto(c, pc)
  BY DEF GetUserByID
<1>2. /\ call[c].pc = "user" /\ call[c].token # 0 /\ ~call[c].dead
      /\ UNCHANGED <<account, token>>
  BY Before DEF GetUserByID, Fits
<1>3. QED
  BY <1>1, <1>2, Before, GotoKeeps DEF CallPc

LEMMA RevokeKeeps ==
  ASSUME AccountsInv, NEW c \in Calls, RevokeRefreshTokenSession(c)
  PROVE  AccountsInv'
<1>1. call[c] \in Call /\ call[c].pc = "revoke" /\ call[c].token # 0 /\ ~call[c].dead
  BY Before DEF RevokeRefreshTokenSession, Fits
<1>2. call[c].token \in Pairs
  BY <1>1 DEF Call
<1>3. /\ token' \in [Pairs -> Token] /\ token'[call[c].token].revoked /\ Grows(token, token')
  BY <1>2, Revoke DEF RevokeRefreshTokenSession
<1>4. account' \in [Emails -> {"absent", "active", "disabled"}] /\ Goto(c, "issue")
  BY Before DEF RevokeRefreshTokenSession
<1>5. QED
  BY <1>1, <1>3, <1>4, GotoKeeps DEF CallPc

LEMMA IssueKeeps ==
  ASSUME AccountsInv, NEW c \in Calls, issuePair(c)
  PROVE  AccountsInv'
<1>1. PICK n \in Pairs :
        /\ ~token[n].issued
        /\ token' = [token EXCEPT ![n] = [issued |-> TRUE, email |-> call[c].email,
                       revoked |-> FALSE, expired |-> FALSE, from |-> call[c].token]]
        /\ call' = [call EXCEPT ![c].pc = "issued", ![c].pair = n]
  BY DEF issuePair
<1> DEFINE row == [issued |-> TRUE, email |-> call[c].email,
                   revoked |-> FALSE, expired |-> FALSE, from |-> call[c].token]
           next == [call[c] EXCEPT !.pc = "issued", !.pair = n]
<1>2. call[c] \in Call /\ Fits(call[c], token) /\ call[c].pc = "issue" /\ token \in [Pairs -> Token]
  BY Before DEF issuePair
<1>3. row \in Token
  BY <1>2 DEF Call, Token
<1>4. token' \in [Pairs -> Token] /\ Grows(token, token')
  <2> HIDE DEF row
  <2>1. token' = [token EXCEPT ![n] = row]
    BY <1>1 DEF row
  <2>2. QED
    BY <1>1, <1>3, <2>1, TokenMoves
<1>5. /\ next \in Call /\ next.pc = "issued" /\ next.pair = n
      /\ next.token = call[c].token /\ next.dead = call[c].dead
  BY <1>2 DEF Call, CallPc
<1>6. call' = [call EXCEPT ![c] = next]
  BY <1>1, Before
<1> HIDE DEF next
<1>7. Fits(call[c], token')
  BY <1>2, <1>4, FitsGrow
<1>8. Fits(next, token')
  BY <1>2, <1>5, <1>7 DEF Fits
<1>9. QED
  BY <1>4, <1>5, <1>6, <1>8, Before, MoveKeeps DEF issuePair

LEMMA LogoutKeeps ==
  ASSUME AccountsInv, NEW c \in Calls, NEW n \in Pairs, Logout(c, n)
  PROVE  AccountsInv'
<1>1. token' \in [Pairs -> Token] /\ Grows(token, token')
  BY Revoke DEF Logout
<1>2. account' \in [Emails -> {"absent", "active", "disabled"}] /\ Goto(c, "ended") /\ call[c].pc = "idle"
  BY Before DEF Logout
<1>3. QED
  BY <1>1, <1>2, GotoKeeps DEF CallPc

LEMMA ExpireKeeps ==
  ASSUME AccountsInv, NEW n \in Pairs, TokenExpires(n)
  PROVE  AccountsInv'
<1> DEFINE row == [token[n] EXCEPT !.expired = TRUE]
<1>1. token[n] \in Token
  BY Before
<1>2. row \in Token /\ row.issued = token[n].issued /\ row.revoked = token[n].revoked /\ row.expired
  BY <1>1 DEF Token
<1>3. token' = [token EXCEPT ![n] = row]
  BY DEF TokenExpires
<1> HIDE DEF row
<1>4. token' \in [Pairs -> Token] /\ Grows(token, token')
  BY <1>2, <1>3, TokenMoves
<1>5. QED
  BY <1>4, Before, AroundKeeps DEF TokenExpires

-----------------------------------------------------------------------------
LEMMA AccountsStep == AccountsInv /\ [NextAccounts]_accountsVars => AccountsInv'
<1>1. SUFFICES ASSUME AccountsInv, [NextAccounts]_accountsVars PROVE AccountsInv'
  OBVIOUS
<1>2. ASSUME NEW c \in Calls, NEW e \in Emails, RegisterUser(c, e) PROVE AccountsInv'
  BY <1>1, <1>2, RegisterKeeps
<1>3. ASSUME NEW c \in Calls, NEW e \in Emails, Login(c, e) PROVE AccountsInv'
  BY <1>1, <1>3, LoginKeeps
<1>4. ASSUME NEW c \in Calls, NEW n \in Pairs, VerifyRefreshToken(c, n) PROVE AccountsInv'
  BY <1>1, <1>4, VerifyKeeps
<1>5. ASSUME NEW c \in Calls, NEW n \in Pairs, Logout(c, n) PROVE AccountsInv'
  BY <1>1, <1>5, LogoutKeeps
<1>6. ASSUME NEW c \in Calls, GetRefreshTokenByHash(c) PROVE AccountsInv'
  BY <1>1, <1>6, GetTokenKeeps
<1>7. ASSUME NEW c \in Calls, GetUserByID(c) PROVE AccountsInv'
  BY <1>1, <1>7, GetUserKeeps
<1>8. ASSUME NEW c \in Calls, RevokeRefreshTokenSession(c) PROVE AccountsInv'
  BY <1>1, <1>8, RevokeKeeps
<1>9. ASSUME NEW c \in Calls, issuePair(c) PROVE AccountsInv'
  BY <1>1, <1>9, IssueKeeps
<1>10. ASSUME NEW c \in Calls, CallFails(c) PROVE AccountsInv'
  BY <1>1, <1>10, Before, GotoKeeps DEF CallFails, CallPc
<1>11. ASSUME NEW n \in Pairs, TokenExpires(n) PROVE AccountsInv'
  BY <1>1, <1>11, ExpireKeeps
<1>12. ASSUME NEW e \in Emails, DisableUser(e) PROVE AccountsInv'
  BY <1>1, <1>12, Before, AroundKeeps DEF DisableUser
<1>13. CASE EnsureRootUser
  BY <1>1, <1>13, Before, AroundKeeps DEF EnsureRootUser
<1>14. CASE UNCHANGED accountsVars
  BY <1>1, <1>14, Before, AroundKeeps DEF accountsVars
<1>15. QED
  BY <1>1, <1>2, <1>3, <1>4, <1>5, <1>6, <1>7, <1>8, <1>9, <1>10, <1>11, <1>12, <1>13, <1>14
     DEF NextAccounts, CallStep

(* The invariant of accounts and tokens holds at all times.                *)
(* (auth/service.go:128 Refresh)                                           *)
THEOREM AccountsAlwaysFit == AccountsSpec => []AccountsInv
BY AccountsInit, AccountsStep, PTL DEF AccountsSpec

(* Accounts, tokens and calls keep their types.  (auth/service.go:128      *)
(* Refresh)                                                                *)
THEOREM AccountsTypes == AccountsSpec => []AccountsTypeOK
<1>1. AccountsInv => AccountsTypeOK
  BY DEF AccountsInv
<1>2. QED
  BY <1>1, AccountsAlwaysFit, PTL

(* A pair is only issued for a token that was good when it was presented,  *)
(* and that token is spent by then.  (auth/service.go:128 Refresh)         *)
THEOREM RefreshesSpend == AccountsSpec => []RefreshSpendsItsToken
<1>1. AccountsInv => RefreshSpendsItsToken
  BY DEF AccountsInv, RefreshSpendsItsToken, Fits
<1>2. QED
  BY <1>1, AccountsAlwaysFit, PTL

-----------------------------------------------------------------------------
(* Provider keys.                                                          *)

(* A stored key has what its source needs, and nothing of another's.       *)
KeyFits(key) ==
  /\ key \in KeyState
  /\ key.source = "none" => key.ref = "" /\ key.ciphertext = ""
  /\ key.source = "env_ref" => key.ref # "" /\ key.ciphertext = ""
  /\ key.source = "db_encrypted" => key.ciphertext # ""

(* The key an administrator would have to ask for to get it.               *)
Means(key) ==
  [source |-> key.source, value |-> IF key.source = "env_ref" THEN key.ref ELSE key.ciphertext]

(* A save knows the key as it is, or was overtaken.                        *)
SaveFits(s) ==
  save[s].pc = "write" =>
    /\ KeyFits(save[s].read)
    /\ ~save[s].overtaken => save[s].read = provider[save[s].id].key

KeysInv ==
  /\ ProviderTypeOK
  /\ \A p \in Providers : KeyFits(provider[p].key)
  /\ \A s \in Saves : SaveFits(s)
  /\ \A p \in Providers : ~lost[p] => Means(provider[p].key) = asked[p]

-----------------------------------------------------------------------------
(* What is written                                                         *)

LEMMA NoKeyFits == KeyFits(NoKeyState) /\ Means(NoKeyState) = NoKey
BY DEF KeyFits, KeyState, NoKeyState, Means, NoKey

LEMMA SeededKeyFits ==
  /\ KeyFits(SeededKeyState)
  /\ Means(SeededKeyState) = [source |-> "env_ref", value |-> DefaultVar]
BY ProviderAssumption DEF KeyFits, KeyState, SeededKeyState, Means

LEMMA SeededRowFits == SeededRow \in ProviderRow /\ SeededRow.key = SeededKeyState
<1>1. (DefaultVar \in SetVars) \in BOOLEAN
  OBVIOUS
<1>2. SeededKeyState \in KeyState
  BY SeededKeyFits DEF KeyFits
<1>3. QED
  BY <1>1, <1>2, Zenon DEF SeededRow, ProviderRow

(* Keeping a key keeps it as it was read.                                  *)
LEMMA KeptKey ==
  ASSUME NEW read, KeyFits(read)
  PROVE  StoredKey(NextKeyState(read, Keep)) = read
BY DEF KeyFits, KeyState, StoredKey, NextKeyState, Keep

(* Asking for a key stores just that one, whatever was read.               *)
LEMMA AskedKey ==
  ASSUME NEW read, KeyFits(read), NEW want \in Keys
  PROVE  /\ KeyFits(StoredKey(NextKeyState(read, want)))
         /\ Means(StoredKey(NextKeyState(read, want))) = want
<1>1. CASE want = NoKey
  <2>1. StoredKey(NextKeyState(read, want)) = NoKeyState
    BY <1>1 DEF StoredKey, NextKeyState, NoKey, NoKeyState
  <2>2. QED
    BY <1>1, <2>1, NoKeyFits
<1>2. CASE want \in [source: {"env_ref"}, value: EnvVars]
  <2> DEFINE stored == StoredKey(NextKeyState(read, want))
             ref == want.value
  <2>1. stored = [source |-> "env_ref", ref |-> ref, ciphertext |-> ""]
    BY <1>2 DEF StoredKey, NextKeyState
  <2>2. want = [source |-> "env_ref", value |-> ref] /\ ref \in EnvVars
    BY <1>2
  <2> HIDE DEF stored, ref
  <2>3. KeyFits(stored)
    BY <2>1, <2>2, ProviderAssumption DEF KeyFits, KeyState
  <2>4. Means(stored) = want
    BY <2>1, <2>2 DEF Means
  <2>5. QED
    BY <2>3, <2>4 DEF stored
<1>3. CASE want \in [source: {"db_encrypted"}, value: ApiKeys]
  <2>1. StoredKey(NextKeyState(read, want)) = [read EXCEPT !.source = "db_encrypted", !.ciphertext = want.value]
    BY <1>3 DEF StoredKey, NextKeyState, KeyFits, KeyState
  <2>2. want = [source |-> "db_encrypted", value |-> want.value] /\ want.value \in ApiKeys
    BY <1>3
  <2>3. QED
    BY <2>1, <2>2, ProviderAssumption DEF KeyFits, KeyState, Means
<1>4. QED
  BY <1>1, <1>2, <1>3 DEF Keys

-----------------------------------------------------------------------------
(* A provider's row is written: the other saves of it are overtaken, and   *)
(* its key is the one asked for unless it was lost.                        *)
Written(p, row) ==
  /\ KeyFits(row.key)
  /\ provider' = [provider EXCEPT ![p] = row]
  /\ route' = route /\ secret' \in BOOLEAN
  /\ save' \in [Saves -> Save]
  /\ \A s \in Saves : save'[s].pc = "write" => save'[s] = Overtake(p, row.key, Saves)[s]
  /\ asked' \in [Providers -> Keys] /\ lost' \in [Providers -> BOOLEAN]
  /\ \A q \in Providers : q # p => asked'[q] = asked[q] /\ lost'[q] = lost[q]
  /\ ~lost'[p] => Means(row.key) = asked'[p]

LEMMA WriteKeeps ==
  ASSUME KeysInv, NEW p \in Providers, NEW row \in ProviderRow, Written(p, row)
  PROVE  KeysInv'
<1>1. /\ provider \in [Providers -> ProviderRow]
      /\ provider'[p] = row
      /\ \A q \in Providers : q # p => provider'[q] = provider[q]
  BY DEF KeysInv, ProviderTypeOK, Written
<1>2. ProviderTypeOK'
  BY <1>1 DEF KeysInv, ProviderTypeOK, Written
<1>3. \A q \in Providers : KeyFits(provider[q].key)'
  BY <1>1 DEF KeysInv, KeyFits, Written
<1>4. \A s \in Saves : SaveFits(s)'
  <2>1. SUFFICES ASSUME NEW s \in Saves, save'[s].pc = "write"
                 PROVE  /\ KeyFits(save'[s].read)
                        /\ ~save'[s].overtaken => save'[s].read = provider'[save'[s].id].key
    BY DEF SaveFits, KeyFits
  <2>2. save'[s] = Overtake(p, row.key, Saves)[s]
    BY <2>1 DEF Written
  <2>3. save[s] \in Save /\ SaveFits(s)
    BY DEF KeysInv, ProviderTypeOK
  <2>4. CASE save[s].pc = "write" /\ save[s].id = p /\ provider[p].key # row.key
    <3>1. save'[s] = [save[s] EXCEPT !.overtaken = TRUE]
      BY <2>2, <2>4 DEF Overtake
    <3>2. QED
      BY <3>1, <2>3, <2>4 DEF Save, SaveFits
  <2>5. CASE ~(save[s].pc = "write" /\ save[s].id = p /\ provider[p].key # row.key)
    <3>1. save'[s] = save[s]
      BY <2>2, <2>5 DEF Overtake
    <3>2. save[s].id \in Providers
      BY <2>3 DEF Save
    <3>3. QED
      BY <1>1, <3>1, <3>2, <2>1, <2>3, <2>5 DEF SaveFits
  <2>6. QED
    BY <2>4, <2>5
<1>5. \A q \in Providers : ~lost'[q] => Means(provider'[q].key) = asked'[q]
  BY <1>1 DEF KeysInv, Written
<1>6. QED
  BY <1>2, <1>3, <1>4, <1>5 DEF KeysInv, Means

LEMMA OvertakeType ==
  ASSUME ProviderTypeOK, NEW p \in Providers, NEW key, NEW others \in SUBSET Saves
  PROVE  Overtake(p, key, others) \in [Saves -> Save]
BY DEF ProviderTypeOK, Overtake, Save

-----------------------------------------------------------------------------
LEMMA KeysInit == InitProviders => KeysInv
<1>1. SUFFICES ASSUME InitProviders PROVE KeysInv
  OBVIOUS
<1>2. NoRow \in ProviderRow /\ [SeededRow EXCEPT !.enabled = TRUE] \in ProviderRow
  BY SeededRowFits, NoKeyFits DEF NoRow, ProviderRow, KeyFits
<1>3. IdleSave \in Save /\ IdleSave.pc = "idle"
  BY NoKeyFits, ProviderAssumption DEF IdleSave, Save, KeyFits
<1>4. NoKey \in Keys /\ [source |-> "env_ref", value |-> DefaultVar] \in Keys
  BY ProviderAssumption DEF Keys
<1>5. ProviderTypeOK
  BY <1>1, <1>2, <1>3, <1>4, ProviderAssumption DEF InitProviders, ProviderTypeOK
<1>6. \A p \in Providers : /\ KeyFits(provider[p].key)
                           /\ Means(provider[p].key) = asked[p]
  BY <1>1, NoKeyFits, SeededKeyFits DEF InitProviders, NoRow, SeededRow
<1>7. \A s \in Saves : SaveFits(s)
  BY <1>1, <1>3 DEF InitProviders, SaveFits
<1>8. QED
  BY <1>5, <1>6, <1>7 DEF KeysInv

(* Steps that leave every row as it is.                                    *)
LEMMA RowsStayKeeps ==
  ASSUME KeysInv, UNCHANGED <<provider, asked, lost>>, route' \in [TaskTypes -> Providers],
         secret' \in BOOLEAN, save' \in [Saves -> Save], \A s \in Saves : SaveFits(s)'
  PROVE  KeysInv'
BY DEF KeysInv, ProviderTypeOK, KeyFits, Means

LEMMA ReadKeeps ==
  ASSUME KeysInv, NEW s \in Saves, NEW p \in Providers, providerKeyState(s, p)
  PROVE  KeysInv'
<1>1. PICK want \in Keys \cup {Keep}, enabled \in BOOLEAN :
        save' = [save EXCEPT ![s] = [pc |-> "write", id |-> p, want |-> want, enabled |-> enabled,
                                     read |-> provider[p].key, overtaken |-> FALSE]]
  BY DEF providerKeyState
<1> DEFINE now == [pc |-> "write", id |-> p, want |-> want, enabled |-> enabled,
                   read |-> provider[p].key, overtaken |-> FALSE]
<1>2. save \in [Saves -> Save] /\ KeyFits(provider[p].key) /\ provider' = provider
  BY DEF KeysInv, ProviderTypeOK, providerKeyState
<1>3. now \in Save
  BY <1>2 DEF Save, KeyFits
<1>4. save' \in [Saves -> Save]
  BY <1>1, <1>2, <1>3
<1>5. \A t \in Saves : SaveFits(t)'
  <2>1. SaveFits(s)'
    BY <1>1, <1>2 DEF SaveFits, KeyFits
  <2>2. \A t \in Saves : t # s => SaveFits(t)'
    BY <1>1, <1>2 DEF KeysInv, SaveFits, KeyFits
  <2>3. QED
    BY <2>1, <2>2
<1>6. QED
  BY <1>4, <1>5, RowsStayKeeps DEF providerKeyState, KeysInv, ProviderTypeOK

LEMMA SaveProviderKeeps ==
  ASSUME KeysInv, NEW s \in Saves, SaveProvider(s)
  PROVE  KeysInv'
<1> DEFINE p == save[s].id
           want == save[s].want
           key == StoredKey(NextKeyState(save[s].read, want))
           row == [there |-> TRUE, enabled |-> save[s].enabled, key |-> key]
           idle == [IdleSave EXCEPT !.pc = "ended"]
           fate == [Overtake(p, key, Saves \ {s}) EXCEPT ![s] = idle]
<1>1. ProviderTypeOK /\ save[s] \in Save /\ save[s].pc = "write" /\ SaveFits(s)
  BY DEF KeysInv, ProviderTypeOK, SaveProvider
<1>2. /\ p \in Providers /\ want \in Keys \cup {Keep} /\ save[s].enabled \in BOOLEAN
      /\ KeyFits(save[s].read)
      /\ ~save[s].overtaken => save[s].read = provider[p].key
  BY <1>1 DEF Save, SaveFits
<1>3. KeyFits(key)
  BY <1>2, KeptKey, AskedKey
<1>4. row \in ProviderRow /\ row.key = key
  BY <1>2, <1>3 DEF ProviderRow, KeyFits
<1>5. idle \in Save /\ idle.pc = "ended"
  BY NoKeyFits, ProviderAssumption DEF IdleSave, Save, KeyFits
<1>6. /\ fate \in [Saves -> Save]
      /\ fate[s] = idle
      /\ \A t \in Saves : t # s => fate[t] = Overtake(p, key, Saves \ {s})[t]
  BY <1>1, <1>2, <1>5, OvertakeType
<1>7. /\ provider' = [provider EXCEPT ![p] = row] /\ save' = fate /\ UNCHANGED <<route, secret>>
      /\ asked' = IF want = Keep THEN asked ELSE [asked EXCEPT ![p] = want]
      /\ lost' = IF want = Keep THEN [lost EXCEPT ![p] = @ \/ save[s].overtaken]
                 ELSE [lost EXCEPT ![p] = FALSE]
  BY DEF SaveProvider
<1>8. asked \in [Providers -> Keys] /\ lost \in [Providers -> BOOLEAN] /\ secret \in BOOLEAN
  BY <1>1 DEF ProviderTypeOK
<1>9. /\ asked' \in [Providers -> Keys] /\ lost' \in [Providers -> BOOLEAN]
      /\ \A q \in Providers : q # p => asked'[q] = asked[q] /\ lost'[q] = lost[q]
  <2>1. CASE want = Keep
    <3>1. save[s].overtaken \in BOOLEAN
      BY <1>1 DEF Save
    <3>2. QED
      BY <2>1, <3>1, <1>2, <1>7, <1>8
  <2>2. CASE want # Keep
    BY <2>2, <1>2, <1>7, <1>8
  <2>3. QED
    BY <2>1, <2>2
<1>10. ~lost'[p] => Means(key) = asked'[p]
  <2>1. CASE want = Keep
    <3>1. key = save[s].read
      BY <2>1, <1>2, KeptKey
    <3>2. ~lost'[p] => ~lost[p] /\ ~save[s].overtaken
      BY <2>1, <1>2, <1>7, <1>8
    <3>3. ~lost[p] => Means(provider[p].key) = asked[p]
      BY <1>2 DEF KeysInv
    <3>4. asked'[p] = asked[p]
      BY <2>1, <1>7
    <3>5. QED
      BY <3>1, <3>2, <3>3, <3>4, <1>2
  <2>2. CASE want # Keep
    <3>1. Means(key) = want
      BY <2>2, <1>2, AskedKey
    <3>2. QED
      BY <2>2, <3>1, <1>2, <1>7, <1>8
  <2>3. QED
    BY <2>1, <2>2
<1>11. \A t \in Saves : fate[t].pc = "write" => fate[t] = Overtake(p, key, Saves)[t]
  <2>1. \A t \in Saves : t # s => Overtake(p, key, Saves \ {s})[t] = Overtake(p, key, Saves)[t]
    BY DEF Overtake
  <2>2. QED
    BY <2>1, <1>5, <1>6
<1> HIDE DEF p, want, key, fate, idle
<1>12. Written(p, row)
  BY <1>3, <1>4, <1>6, <1>7, <1>8, <1>9, <1>10, <1>11 DEF Written
<1>13. QED
  BY <1>2, <1>4, <1>12, WriteKeeps

LEMMA SaveFailsKeeps ==
  ASSUME KeysInv, NEW s \in Saves, SaveFails(s)
  PROVE  KeysInv'
<1> DEFINE idle == [IdleSave EXCEPT !.pc = "ended"]
<1>1. save \in [Saves -> Save] /\ save' = [save EXCEPT ![s] = idle] /\ provider' = provider
  BY DEF KeysInv, ProviderTypeOK, SaveFails
<1>2. idle \in Save /\ idle.pc = "ended"
  BY NoKeyFits, ProviderAssumption DEF IdleSave, Save, KeyFits
<1> HIDE DEF idle
<1>3. save' \in [Saves -> Save] /\ save'[s].pc = "ended" /\ \A t \in Saves : t # s => save'[t] = save[t]
  BY <1>1, <1>2
<1>4. \A t \in Saves : SaveFits(t)'
  BY <1>1, <1>3 DEF KeysInv, SaveFits, KeyFits
<1>5. QED
  BY <1>3, <1>4, RowsStayKeeps DEF SaveFails, KeysInv, ProviderTypeOK

LEMMA DeleteKeeps ==
  ASSUME KeysInv, NEW p \in Providers, DeleteProvider(p)
  PROVE  KeysInv'
<1>1. NoRow \in ProviderRow /\ NoRow.key = NoKeyState /\ KeyFits(NoRow.key)
  BY NoKeyFits DEF NoRow, ProviderRow, KeyFits
<1>2. Overtake(p, NoRow.key, Saves) \in [Saves -> Save]
  BY OvertakeType DEF KeysInv
<1>3. asked \in [Providers -> Keys] /\ lost \in [Providers -> BOOLEAN] /\ secret \in BOOLEAN
  BY DEF KeysInv, ProviderTypeOK
<1>4. /\ provider' = [provider EXCEPT ![p] = NoRow]
      /\ save' = Overtake(p, NoRow.key, Saves)
      /\ asked' = [asked EXCEPT ![p] = NoKey] /\ lost' = [lost EXCEPT ![p] = FALSE]
      /\ UNCHANGED <<route, secret>>
  BY <1>1 DEF DeleteProvider
<1>5. NoKey \in Keys
  BY DEF Keys
<1>6. /\ asked' \in [Providers -> Keys] /\ lost' \in [Providers -> BOOLEAN]
      /\ \A q \in Providers : q # p => asked'[q] = asked[q] /\ lost'[q] = lost[q]
      /\ asked'[p] = NoKey
  BY <1>3, <1>4, <1>5
<1>7. Written(p, NoRow)
  BY <1>1, <1>2, <1>3, <1>4, <1>6, NoKeyFits DEF Written
<1>8. QED
  BY <1>1, <1>7, WriteKeeps

LEMMA SeedKeeps ==
  ASSUME KeysInv, SeedProviderConfigs
  PROVE  KeysInv'
<1> DEFINE p == DefaultProvider
           idle == [IdleSave EXCEPT !.pc = "ended"]
           fate == [s \in Saves |-> IF save[s].pc = "write" THEN idle ELSE save[s]]
<1>1. idle \in Save /\ idle.pc = "ended"
  BY NoKeyFits, ProviderAssumption DEF IdleSave, Save, KeyFits
<1>2. save \in [Saves -> Save] /\ save' = fate
  BY DEF KeysInv, ProviderTypeOK, SeedProviderConfigs
<1> HIDE DEF idle
<1>3. fate \in [Saves -> Save] /\ \A s \in Saves : fate[s].pc # "write"
  BY <1>1, <1>2
<1>4. asked \in [Providers -> Keys] /\ lost \in [Providers -> BOOLEAN] /\ route \in [TaskTypes -> Providers]
  BY DEF KeysInv, ProviderTypeOK
<1>5. secret' \in BOOLEAN /\ route' = route
  BY DEF SeedProviderConfigs
<1>6. CASE ~provider[p].there
  <2>1. /\ provider' = [provider EXCEPT ![p] = SeededRow]
        /\ asked' = [asked EXCEPT ![p] = [source |-> "env_ref", value |-> DefaultVar]]
        /\ lost' = [lost EXCEPT ![p] = FALSE]
    BY <1>6 DEF SeedProviderConfigs
  <2>2. SeededRow \in ProviderRow /\ KeyFits(SeededRow.key) /\ SeededRow.key = SeededKeyState
    BY SeededKeyFits, SeededRowFits DEF KeyFits
  <2>3. [source |-> "env_ref", value |-> DefaultVar] \in Keys /\ p \in Providers
    BY ProviderAssumption DEF Keys
  <2>4. /\ asked' \in [Providers -> Keys] /\ lost' \in [Providers -> BOOLEAN]
        /\ \A q \in Providers : q # p => asked'[q] = asked[q] /\ lost'[q] = lost[q]
        /\ asked'[p] = [source |-> "env_ref", value |-> DefaultVar]
    BY <1>4, <2>1, <2>3
  <2>5. Means(SeededRow.key) = asked'[p]
    BY <2>2, <2>4, SeededKeyFits
  <2> HIDE DEF p, fate
  <2>6. Written(p, SeededRow)
    BY <1>2, <1>3, <1>5, <2>1, <2>2, <2>4, <2>5 DEF Written
  <2>7. QED
    BY <2>2, <2>3, <2>6, WriteKeeps
<1>7. CASE provider[p].there
  <2>1. UNCHANGED <<provider, asked, lost>>
    BY <1>7 DEF SeedProviderConfigs
  <2>2. \A s \in Saves : SaveFits(s)'
    BY <1>2, <1>3 DEF SaveFits
  <2>3. QED
    BY <1>2, <1>3, <1>4, <1>5, <2>1, <2>2, RowsStayKeeps
<1>8. QED
  BY <1>6, <1>7

LEMMA KeysStep == KeysInv /\ [NextProviders]_providerVars => KeysInv'
<1>1. SUFFICES ASSUME KeysInv, [NextProviders]_providerVars PROVE KeysInv'
  OBVIOUS
<1>2. ASSUME NEW s \in Saves, NEW p \in Providers, providerKeyState(s, p) PROVE KeysInv'
  BY <1>1, <1>2, ReadKeeps
<1>3. ASSUME NEW s \in Saves, SaveProvider(s) PROVE KeysInv'
  BY <1>1, <1>3, SaveProviderKeeps
<1>4. ASSUME NEW s \in Saves, SaveFails(s) PROVE KeysInv'
  BY <1>1, <1>4, SaveFailsKeeps
<1>5. ASSUME NEW p \in Providers, DeleteProvider(p) PROVE KeysInv'
  BY <1>1, <1>5, DeleteKeeps
<1>6. ASSUME NEW t \in TaskTypes, NEW p \in Providers, SaveProviderRoute(t, p) PROVE KeysInv'
  <2>1. route' \in [TaskTypes -> Providers]
    BY <1>1, <1>6 DEF KeysInv, ProviderTypeOK, SaveProviderRoute
  <2>2. \A s \in Saves : SaveFits(s)'
    BY <1>1, <1>6 DEF KeysInv, SaveFits, SaveProviderRoute, KeyFits
  <2>3. QED
    BY <1>1, <1>6, <2>1, <2>2, RowsStayKeeps DEF SaveProviderRoute, KeysInv, ProviderTypeOK
<1>7. CASE SeedProviderConfigs
  BY <1>1, <1>7, SeedKeeps
<1>8. CASE UNCHANGED providerVars
  <2>1. UNCHANGED <<provider, route, secret, save, asked, lost>>
    BY <1>8 DEF providerVars
  <2>2. QED
    BY <1>1, <2>1 DEF KeysInv, ProviderTypeOK, SaveFits, KeyFits, Means
<1>9. QED
  BY <1>1, <1>2, <1>3, <1>4, <1>5, <1>6, <1>7, <1>8 DEF NextProviders

(* The invariant of the providers holds at all times.  (store.go:118       *)
(* SaveProvider)                                                           *)
THEOREM KeysAlwaysFit == ProviderSpec => []KeysInv
BY KeysInit, KeysStep, PTL DEF ProviderSpec

(* Rows, routes and saves keep their types.  (store.go:118 SaveProvider)   *)
THEOREM ProviderTypes == ProviderSpec => []ProviderTypeOK
<1>1. KeysInv => ProviderTypeOK
  BY DEF KeysInv
<1>2. QED
  BY <1>1, KeysAlwaysFit, PTL

(* A task is sent with the key last asked for its provider, unless a save  *)
(* that had read an older one put that back.  (store.go:118 SaveProvider,  *)
(* :374 RuntimeProviderForTask)                                            *)
THEOREM TasksGetTheirKey == ProviderSpec => []TaskGetsTheKeyAskedFor
<1>1. KeysInv => TaskGetsTheKeyAskedFor
  <2>1. SUFFICES ASSUME KeysInv, NEW t \in TaskTypes,
                        RuntimeProviderForTask(t) # NoProvider, ~lost[route[t]]
                 PROVE  RuntimeProviderForTask(t) = KeyAskedFor(asked[route[t]])
    BY DEF TaskGetsTheKeyAskedFor
  <2> DEFINE key == provider[route[t]].key
  <2>2. route[t] \in Providers
    BY <2>1 DEF KeysInv, ProviderTypeOK
  <2>3. KeyFits(key) /\ Means(key) = asked[route[t]]
    BY <2>1, <2>2 DEF KeysInv
  <2>4. RuntimeProviderForTask(t) = resolveAPIKey(key) /\ resolveAPIKey(key) # Unreadable
    BY <2>1 DEF RuntimeProviderForTask
  <2> HIDE DEF key
  <2>5. resolveAPIKey(key) = KeyAskedFor(Means(key))
    BY <2>3, <2>4 DEF resolveAPIKey, KeyAskedFor, Means, KeyFits, KeyState
  <2>6. QED
    BY <2>3, <2>4, <2>5
<1>2. QED
  BY <1>1, KeysAlwaysFit, PTL

(* A provider shows a key just when a task would get one, or one that      *)
(* cannot be read.  (store.go:398 resolveAPIKey, :418                      *)
(* scanProviderWithCiphertext)                                             *)
THEOREM ShownKeysResolve == ProviderSpec => []ConfiguredKeyResolves
<1>1. KeysInv => ConfiguredKeyResolves
  <2>1. SUFFICES ASSUME NEW key, KeyFits(key)
                 PROVE  APIKeyConfigured(key) <=> resolveAPIKey(key) # ""
    BY DEF KeysInv, ConfiguredKeyResolves
  <2>2. "" \notin SetVars /\ Unreadable # ""
    BY ProviderAssumption DEF Unreadable
  <2>3. QED
    BY <2>1, <2>2 DEF APIKeyConfigured, resolveAPIKey, KeyFits, KeyState
<1>2. QED
  BY <1>1, KeysAlwaysFit, PTL

-----------------------------------------------------------------------------
(* Reviewed memory                                                         *)

Projected == Saying(Newest(Approved, ListLimit))

(* A review that was let through is of a candidate that is there, and what *)
(* is approved stands approved in the same words; between two writes of a  *)
(* handler the profile may be behind.                                      *)
MemoryInv ==
  /\ MemoryTypeOK
  /\ \A m \in Memories :
       /\ candidate[m].status # "absent" => candidate[m].text \in Texts
       /\ candidate[m].status = "approved" => stands[m] = candidate[m].text
  /\ \A c \in MemoryCalls : memoryCall[c].pc = "checked" => candidate[memoryCall[c].on].status # "absent"
  /\ handler.pc # "profile" /\ ~stale => profile = Projected

LEMMA WritesBound == MaxWrites \in Nat
BY Zenon, MemoryAssumption

LEMMA NowType == Now \in Nat
<1>1. IsFiniteSet(1 .. MaxWrites)
  <2>1. MaxWrites \in Int
    BY WritesBound
  <2>2. QED
    BY <2>1, FS_Interval
<1>2. {t \in 1 .. MaxWrites : \E m \in Memories : candidate[m].at >= t} \in SUBSET (1 .. MaxWrites)
  OBVIOUS
<1>3. IsFiniteSet({t \in 1 .. MaxWrites : \E m \in Memories : candidate[m].at >= t})
  BY <1>1, <1>2, FS_Subset
<1>4. QED
  BY <1>3, FS_CardinalityType DEF Now

LEMMA NowFits == Now <= MaxWrites => Now \in 0 .. MaxWrites
BY NowType, WritesBound

LEMMA NewestAreSome ==
  ASSUME NEW ms, NEW limit
  PROVE  Newest(ms, limit) \subseteq ms
BY DEF Newest

(* What a set of approved candidates says.                                 *)
LEMMA ApprovedSay ==
  ASSUME MemoryInv, NEW ms \in SUBSET Approved
  PROVE  /\ Saying(ms) \subseteq Memories \X Texts
         /\ \A m \in Memories, text \in Texts : <<m, text>> \in Saying(ms) => stands[m] = text
<1>1. \A m \in ms : m \in Memories /\ candidate[m].text \in Texts /\ stands[m] = candidate[m].text
  BY DEF MemoryInv, Approved
<1>2. QED
  BY <1>1 DEF Saying

(* The approved candidates stay as they are.                               *)
LEMMA ProjectedStays ==
  ASSUME Approved' = Approved, \A m \in Approved : candidate'[m] = candidate[m]
  PROVE  Projected' = Projected
<1>1. Newest(Approved, ListLimit)' = Newest(Approved, ListLimit)
  BY DEF Newest
<1>2. Newest(Approved, ListLimit) \subseteq Approved
  BY NewestAreSome
<1>3. QED
  BY <1>1, <1>2 DEF Projected, Saying

LEMMA MemoryInit == InitMemory => MemoryInv
<1>1. SUFFICES ASSUME InitMemory PROVE MemoryInv
  OBVIOUS
<1>2. MemoryTypeOK
  <2> DEFINE any == CHOOSE m \in Memories : TRUE
  <2>1. any \in Memories
    BY MemoryAssumption
  <2>2. 0 \in 0 .. MaxWrites
    BY WritesBound
  <2>3. [status |-> "absent", text |-> "", at |-> 0] \in Candidate
    BY <2>2 DEF Candidate
  <2> HIDE DEF any
  <2>4. /\ memoryCall = [c \in MemoryCalls |-> [pc |-> "idle", on |-> any, op |-> "approve"]]
        /\ handler = [pc |-> "idle", on |-> any, op |-> "approve"]
    BY <1>1 DEF InitMemory, any
  <2>5. candidate \in [Memories -> Candidate]
    BY <1>1, <2>3 DEF InitMemory
  <2>6. /\ memoryCall \in [MemoryCalls -> [pc: {"idle", "checked", "ended"}, on: Memories, op: Operations]]
        /\ handler \in [pc: {"idle", "profile", "task"}, on: Memories, op: Operations]
    BY <2>1, <2>4 DEF Operations
  <2>7. /\ profile \subseteq Memories \X Texts /\ prompt \subseteq Memories \X Texts
        /\ reviewTask \in [Memories -> Texts \cup {""}] /\ stands \in [Memories -> Texts \cup {""}]
        /\ stale \in BOOLEAN
    BY <1>1 DEF InitMemory
  <2>8. QED
    BY <2>5, <2>6, <2>7 DEF MemoryTypeOK
<1>3. Approved = {}
  BY <1>1 DEF InitMemory, Approved
<1>4. Projected = {}
  BY <1>3, NewestAreSome DEF Projected, Saying
<1>5. QED
  BY <1>1, <1>2, <1>4, MemoryAssumption DEF InitMemory, MemoryInv

(* The candidates stay as they are, and no new review is let through.      *)
LEMMA CandidatesStay ==
  ASSUME MemoryInv, UNCHANGED <<candidate, stands>>, MemoryTypeOK',
         \A c \in MemoryCalls : memoryCall'[c].pc = "checked" =>
           candidate[memoryCall'[c].on].status # "absent",
         handler'.pc # "profile" /\ ~stale' => profile' = Projected
  PROVE  MemoryInv'
<1>1. Projected' = Projected
  BY DEF Projected, Saying, Newest, Approved
<1>2. QED
  BY <1>1 DEF MemoryInv

LEMMA CreateCandidateKeeps ==
  ASSUME MemoryInv, NEW m \in Memories, NEW text \in Texts, create_candidate(m, text)
  PROVE  MemoryInv'
<1> DEFINE new == [status |-> "pending", text |-> text, at |-> Now]
<1>1. new \in Candidate /\ new.status = "pending" /\ new.text = text
  BY NowFits DEF create_candidate, Candidate
<1>2. candidate' = [candidate EXCEPT ![m] = new]
  BY DEF create_candidate
<1> HIDE DEF new
<1>3. /\ candidate \in [Memories -> Candidate] /\ candidate[m].status = "absent"
      /\ UNCHANGED <<profile, reviewTask, memoryCall, handler, prompt, stands, stale>>
  BY DEF MemoryInv, MemoryTypeOK, create_candidate
<1>4. /\ candidate' \in [Memories -> Candidate] /\ candidate'[m] = new
      /\ \A n \in Memories : n # m => candidate'[n] = candidate[n]
  BY <1>1, <1>2, <1>3
<1>5. Projected' = Projected
  BY <1>1, <1>3, <1>4, ProjectedStays DEF Approved
<1>6. MemoryTypeOK'
  BY <1>3, <1>4 DEF MemoryInv, MemoryTypeOK
<1>7. \A c \in MemoryCalls : memoryCall'[c].pc = "checked" =>
        candidate'[memoryCall'[c].on].status # "absent"
  BY <1>1, <1>3, <1>4 DEF MemoryInv, MemoryTypeOK
<1>8. \A n \in Memories :
       /\ candidate'[n].status # "absent" => candidate'[n].text \in Texts
       /\ candidate'[n].status = "approved" => stands'[n] = candidate'[n].text
  BY <1>1, <1>3, <1>4 DEF MemoryInv
<1>9. handler'.pc # "profile" /\ ~stale' => profile' = Projected'
  BY <1>3, <1>5 DEF MemoryInv
<1>10. QED
  BY <1>6, <1>7, <1>8, <1>9 DEF MemoryInv

LEMMA AccessKeeps ==
  ASSUME MemoryInv, NEW c \in MemoryCalls, NEW m \in Memories, NEW op \in Operations,
         ensureMemoryCandidateAccess(c, m, op)
  PROVE  MemoryInv'
<1> DEFINE pc == IF m \in Newest(Known, ListLimit) THEN "checked" ELSE "ended"
           given == [pc |-> pc, on |-> m, op |-> op]
<1>1. /\ pc \in {"checked", "ended"}
      /\ given \in [pc: {"idle", "checked", "ended"}, on: Memories, op: Operations]
      /\ given.on = m
  OBVIOUS
<1>2. memoryCall' = [memoryCall EXCEPT ![c] = given]
  BY DEF ensureMemoryCandidateAccess
<1> HIDE DEF given, pc
<1>3. UNCHANGED <<candidate, profile, reviewTask, handler, prompt, stands, stale>>
  BY DEF ensureMemoryCandidateAccess
<1>4. MemoryTypeOK'
  BY <1>1, <1>2, <1>3 DEF MemoryInv, MemoryTypeOK
<1>5. candidate[m].status # "absent"
  BY DEF ensureMemoryCandidateAccess, Known
<1>6. \A d \in MemoryCalls : memoryCall'[d].pc = "checked" =>
        candidate[memoryCall'[d].on].status # "absent"
  BY <1>1, <1>2, <1>5 DEF MemoryInv, MemoryTypeOK
<1>7. QED
  BY <1>3, <1>4, <1>6, CandidatesStay DEF MemoryInv

LEMMA StartReviewKeeps ==
  ASSUME MemoryInv, NEW c \in MemoryCalls, NEW status \in {"approved", "rejected", "edited"},
         NEW text, StartReview(c, status, text),
         text \in Texts \/ text = candidate[memoryCall[c].on].text,
         status = "approved" => memoryCall[c].op = "approve"
  PROVE  MemoryInv'
<1> DEFINE m == memoryCall[c].on
           new == [status |-> status, text |-> text, at |-> Now]
           stand == IF memoryCall[c].op = "approve" THEN text ELSE ""
<1>1. /\ memoryCall[c] \in [pc: {"idle", "checked", "ended"}, on: Memories, op: Operations]
      /\ m \in Memories /\ memoryCall[c].op \in Operations /\ memoryCall[c].pc = "checked"
      /\ candidate \in [Memories -> Candidate] /\ stands \in [Memories -> Texts \cup {""}]
      /\ memoryCall \in [MemoryCalls -> [pc: {"idle", "checked", "ended"}, on: Memories, op: Operations]]
  BY DEF MemoryInv, MemoryTypeOK, StartReview
<1>2. text \in Texts
  BY <1>1 DEF MemoryInv
<1>3. new \in Candidate /\ new.status = status /\ new.text = text
  BY <1>2, NowFits DEF StartReview, Candidate
<1>4. /\ stand \in Texts \cup {""}
      /\ status = "approved" => stand = text
  BY <1>2
<1>5. /\ candidate' = [candidate EXCEPT ![m] = new]
      /\ memoryCall' = [memoryCall EXCEPT ![c].pc = "ended"]
      /\ handler' = [pc |-> "profile", on |-> m, op |-> memoryCall[c].op]
      /\ stands' = [stands EXCEPT ![m] = stand]
      /\ UNCHANGED <<profile, reviewTask, prompt, stale>>
  BY DEF StartReview
<1> HIDE DEF new, stand, m
<1>6. /\ candidate' \in [Memories -> Candidate] /\ candidate'[m] = new
      /\ \A n \in Memories : n # m => candidate'[n] = candidate[n]
      /\ stands' \in [Memories -> Texts \cup {""}] /\ stands'[m] = stand
      /\ \A n \in Memories : n # m => stands'[n] = stands[n]
  BY <1>1, <1>3, <1>4, <1>5
<1>7. /\ memoryCall' \in [MemoryCalls -> [pc: {"idle", "checked", "ended"}, on: Memories, op: Operations]]
      /\ \A d \in MemoryCalls : memoryCall'[d].pc = "checked" => memoryCall'[d] = memoryCall[d]
  BY <1>1, <1>5
<1>8. handler' \in [pc: {"idle", "profile", "task"}, on: Memories, op: Operations] /\ handler'.pc = "profile"
  BY <1>1, <1>5
<1>9. MemoryTypeOK'
  BY <1>5, <1>6, <1>7, <1>8 DEF MemoryInv, MemoryTypeOK
<1>10. \A n \in Memories :
        /\ candidate'[n].status # "absent" => candidate'[n].text \in Texts
        /\ candidate'[n].status = "approved" => stands'[n] = candidate'[n].text
  BY <1>2, <1>3, <1>4, <1>6 DEF MemoryInv
<1>11. \A d \in MemoryCalls : memoryCall'[d].pc = "checked" =>
         candidate'[memoryCall'[d].on].status # "absent"
  <2>1. ASSUME NEW d \in MemoryCalls, memoryCall'[d].pc = "checked"
        PROVE  candidate'[memoryCall'[d].on].status # "absent"
    <3>1. memoryCall'[d] = memoryCall[d] /\ memoryCall[d].pc = "checked" /\ memoryCall[d].on \in Memories
      BY <1>1, <1>7, <2>1
    <3>2. candidate[memoryCall[d].on].status # "absent"
      BY <3>1 DEF MemoryInv
    <3>3. QED
      BY <1>3, <1>6, <3>1, <3>2
  <2>2. QED
    BY <2>1
<1>12. QED
  BY <1>8, <1>9, <1>10, <1>11 DEF MemoryInv

LEMMA RebuildProfileKeeps ==
  ASSUME MemoryInv, _rebuild_profile
  PROVE  MemoryInv'
<1>1. profile' = Projected /\ Projected \subseteq Memories \X Texts
  BY NewestAreSome, ApprovedSay DEF _rebuild_profile, Projected
<1>2. /\ handler' \in [pc: {"idle", "profile", "task"}, on: Memories, op: Operations]
      /\ stale' \in BOOLEAN
      /\ UNCHANGED <<candidate, reviewTask, memoryCall, prompt, stands>>
  BY DEF MemoryInv, MemoryTypeOK, _rebuild_profile
<1>3. MemoryTypeOK'
  BY <1>1, <1>2 DEF MemoryInv, MemoryTypeOK
<1>4. QED
  BY <1>1, <1>2, <1>3, CandidatesStay DEF MemoryInv

LEMMA ReviewTaskKeeps ==
  ASSUME MemoryInv, _ensure_review_task
  PROVE  MemoryInv'
<1>1. /\ reviewTask' \in [Memories -> Texts \cup {""}]
      /\ handler' \in [pc: {"idle", "profile", "task"}, on: Memories, op: Operations]
      /\ handler.pc # "profile"
      /\ UNCHANGED <<candidate, profile, memoryCall, prompt, stands, stale>>
  BY DEF MemoryInv, MemoryTypeOK, _ensure_review_task, Candidate
<1>2. MemoryTypeOK'
  BY <1>1 DEF MemoryInv, MemoryTypeOK
<1>3. QED
  BY <1>1, <1>2, CandidatesStay DEF MemoryInv

LEMMA HandlerCutKeeps ==
  ASSUME MemoryInv, HandlerCut
  PROVE  MemoryInv'
<1>1. /\ handler' \in [pc: {"idle", "profile", "task"}, on: Memories, op: Operations]
      /\ UNCHANGED <<candidate, profile, reviewTask, memoryCall, prompt, stands>>
  BY DEF MemoryInv, MemoryTypeOK, HandlerCut
<1>2. stale' \in BOOLEAN /\ (~stale' => ~stale /\ handler.pc # "profile")
  BY DEF HandlerCut
<1>3. MemoryTypeOK'
  BY <1>1, <1>2 DEF MemoryInv, MemoryTypeOK
<1>4. QED
  BY <1>1, <1>2, <1>3, CandidatesStay DEF MemoryInv

LEMMA SearchKeeps ==
  ASSUME MemoryInv, search
  PROVE  /\ MemoryInv'
         /\ \A m \in Memories, text \in Texts : <<m, text>> \in prompt' => stands[m] = text
<1>1. PICK matching \in SUBSET Approved : prompt' = Saying(Newest(matching, PromptLimit))
  BY DEF search
<1>2. /\ prompt' \subseteq Memories \X Texts
      /\ \A m \in Memories, text \in Texts : <<m, text>> \in prompt' => stands[m] = text
  BY <1>1, NewestAreSome, ApprovedSay
<1>3. UNCHANGED <<candidate, profile, reviewTask, memoryCall, handler, stands, stale>>
  BY DEF search
<1>4. MemoryTypeOK'
  BY <1>2, <1>3 DEF MemoryInv, MemoryTypeOK
<1>5. QED
  BY <1>2, <1>3, <1>4, CandidatesStay DEF MemoryInv

LEMMA ReviewFailsKeeps ==
  ASSUME MemoryInv, NEW c \in MemoryCalls, ReviewFails(c)
  PROVE  MemoryInv'
<1>1. /\ memoryCall' \in [MemoryCalls -> [pc: {"idle", "checked", "ended"}, on: Memories, op: Operations]]
      /\ \A d \in MemoryCalls : memoryCall'[d].pc = "checked" => memoryCall'[d] = memoryCall[d]
      /\ UNCHANGED <<candidate, profile, reviewTask, handler, prompt, stands, stale>>
  BY DEF MemoryInv, MemoryTypeOK, ReviewFails
<1>2. MemoryTypeOK'
  BY <1>1 DEF MemoryInv, MemoryTypeOK
<1>3. QED
  BY <1>1, <1>2, CandidatesStay DEF MemoryInv

LEMMA MemoryStep == MemoryInv /\ [NextMemory]_memoryVars => MemoryInv'
<1>1. SUFFICES ASSUME MemoryInv, [NextMemory]_memoryVars PROVE MemoryInv'
  OBVIOUS
<1>2. ASSUME NEW c \in MemoryCalls, approve(c) PROVE MemoryInv'
  BY <1>1, <1>2, StartReviewKeeps DEF approve
<1>3. ASSUME NEW c \in MemoryCalls, reject(c) PROVE MemoryInv'
  BY <1>1, <1>3, StartReviewKeeps DEF reject
<1>4. ASSUME NEW c \in MemoryCalls, NEW text \in Texts, edit(c, text) PROVE MemoryInv'
  BY <1>1, <1>4, StartReviewKeeps DEF edit
<1>5. CASE UNCHANGED memoryVars
  <2>1. MemoryTypeOK' /\ UNCHANGED <<candidate, stands, memoryCall, handler, stale, profile>>
    BY <1>1, <1>5 DEF MemoryInv, MemoryTypeOK, memoryVars
  <2>2. QED
    BY <1>1, <2>1, CandidatesStay DEF MemoryInv
<1>6. QED
  BY <1>1, <1>2, <1>3, <1>4, <1>5, CreateCandidateKeeps, AccessKeeps, ReviewFailsKeeps,
     RebuildProfileKeeps, ReviewTaskKeeps, HandlerCutKeeps, SearchKeeps DEF NextMemory

(* The inductive invariant: a review let through is of a candidate that is *)
(* there, an approved candidate stands approved in its own words, and the  *)
(* profile is behind only while a handler is between two writes or after   *)
(* one was cut off.  (memory.py:187 approve, :194 reject, :199 edit)       *)
THEOREM MemoryAlwaysFits == MemorySpec => []MemoryInv
<1>1. InitMemory => MemoryInv
  BY MemoryInit
<1>2. MemoryInv /\ [NextMemory]_memoryVars => MemoryInv'
  BY MemoryStep
<1>3. QED
  BY <1>1, <1>2, PTL DEF MemorySpec

(* Candidates, profile, tasks, requests and prompts have the values they   *)
(* may have.                                                               *)
THEOREM MemoryTypes == MemorySpec => []MemoryTypeOK
<1>1. MemoryInv => MemoryTypeOK
  BY DEF MemoryInv
<1>2. QED
  BY <1>1, MemoryAlwaysFits, PTL

(* Unless a review was cut off, the profile projects the newest approved   *)
(* memories in their words of today.  (memory.py:313 _rebuild_profile)     *)
THEOREM ProfilesMatch == MemorySpec => []ProfileMatchesUnlessCut
<1>1. MemoryInv => ProfileMatchesUnlessCut
  BY DEF MemoryInv, ProfileMatchesUnlessCut, Free, Projected
<1>2. QED
  BY <1>1, MemoryAlwaysFits, PTL

(* A prompt takes only what stands approved, in the words approved.        *)
(* (memory.py:255 search, :199 edit)                                       *)
THEOREM PromptsAreApproved == MemorySpec => PromptsTakeWhatStandsApproved
<1>1. ASSUME MemoryInv, [NextMemory]_memoryVars, prompt' # prompt
      PROVE  \A m \in Memories, text \in Texts : <<m, text>> \in prompt' => stands[m] = text
  <2>1. search
    BY <1>1 DEF NextMemory, memoryVars, create_candidate, ensureMemoryCandidateAccess, approve,
                reject, edit, StartReview, ReviewFails, _rebuild_profile, _ensure_review_task, HandlerCut
  <2>2. QED
    BY <1>1, <2>1, SearchKeeps
<1>2. MemoryInv /\ [NextMemory]_memoryVars =>
        [ prompt' # prompt => \A m \in Memories, text \in Texts :
                                <<m, text>> \in prompt' => stands[m] = text ]_memoryVars
  BY <1>1
<1>3. QED
  BY <1>2, MemoryAlwaysFits, PTL DEF MemorySpec, PromptsTakeWhatStandsApproved
=============================================================================
