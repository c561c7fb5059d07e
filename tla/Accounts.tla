------------------------------ MODULE Accounts ------------------------------
(***************************************************************************)
(* Accounts and refresh tokens: internal/auth/service.go over the tables   *)
(* app_users and auth_refresh_tokens (internal/store/auth.go), called by   *)
(* the handlers of internal/httpapi/auth.go.                               *)
(*                                                                         *)
(* Every call is a sequence of SQL statements with no transaction around   *)
(* them, and any number of calls run at once; a step of the model is one   *)
(* statement with the decisions around it.  Left out: passwords (a login   *)
(* with a wrong one ends as a failed call), bcrypt, the access tokens,     *)
(* which are stateless and expire on their own, last_login_at, and the     *)
(* views requireAuth and Me build from the user row.                       *)
(***************************************************************************)
EXTENDS Integers, FiniteSets

CONSTANTS
  Emails,    \* addresses, normalised to lower case
  RootEmail, \* the address of the root account (config.RootEmail)
  Calls,     \* API requests, each made at most once
  MaxPairs   \* bound on the token pairs issued

ASSUME AccountsAssumption == RootEmail \in Emails /\ MaxPairs \in Nat

(* Refresh tokens in the order they are issued; 0 stands for none.  The id *)
(* of a token's row is random, so no two pairs share a row.                *)
Pairs == 1 .. MaxPairs

VARIABLES
  account,   \* status of the app_users row of each address, or "absent"
  token,     \* the auth_refresh_tokens rows, and the clock's effect on them
  call       \* each API request: what it does and what it has read

accountsVars == <<account, token, call>>

Token == [issued: BOOLEAN, email: Emails, revoked: BOOLEAN, expired: BOOLEAN, from: {0} \cup Pairs]

CallPc == {"idle", "read", "user", "revoke", "issue", "issued", "ended"}

(* dead: a ghost, whether the token presented was revoked or expired when  *)
(* the request arrived.  pair: the pair the call returned.                 *)
Call == [pc: CallPc, email: Emails, token: {0} \cup Pairs, dead: BOOLEAN, pair: {0} \cup Pairs]

IdleCall == [pc |-> "idle", email |-> RootEmail, token |-> 0, dead |-> FALSE, pair |-> 0]

AccountsTypeOK ==
  /\ account \in [Emails -> {"absent", "active", "disabled"}]
  /\ token \in [Pairs -> Token]
  /\ call \in [Calls -> Call]

(* BootstrapRoot has run before the first request.                         *)
InitAccounts ==
  /\ account = [e \in Emails |-> IF e = RootEmail THEN "active" ELSE "absent"]
  /\ token = [n \in Pairs |-> [issued |-> FALSE, email |-> RootEmail, revoked |-> FALSE,
                               expired |-> FALSE, from |-> 0]]
  /\ call = [c \in Calls |-> IdleCall]

Goto(c, pc) == call' = [call EXCEPT ![c].pc = pc]

(* Register: the row is inserted by a statement of its own; the unique     *)
(* index on the address refuses a second one.                              *)
RegisterUser(c, e) ==
  /\ call[c].pc = "idle"
  /\ IF account[e] = "absent"
     THEN /\ account' = [account EXCEPT ![e] = "active"]
          /\ call' = [call EXCEPT ![c] = [IdleCall EXCEPT !.pc = "issue", !.email = e]]
     ELSE /\ UNCHANGED account
          /\ Goto(c, "ended")
  /\ UNCHANGED token

(* Login: the row is read once, and the pair is issued from what was read. *)
Login(c, e) ==
  /\ call[c].pc = "idle"
  /\ \/ /\ account[e] = "active"
        /\ call' = [call EXCEPT ![c] = [IdleCall EXCEPT !.pc = "issue", !.email = e]]
     \/ Goto(c, "ended")
  /\ UNCHANGED <<account, token>>

(* Refresh, first the token itself: signature, issuer and expiry.          *)
VerifyRefreshToken(c, n) ==
  /\ call[c].pc = "idle"
  /\ token[n].issued
  /\ call' = [call EXCEPT ![c] = [IdleCall EXCEPT
                !.pc = IF token[n].expired THEN "ended" ELSE "read",
                !.token = n,
                !.email = token[n].email,
                !.dead = token[n].revoked \/ token[n].expired]]
  /\ UNCHANGED <<account, token>>

(* Variant: the query leaves out revoked_at.                               *)
GetRefreshTokenEvenRevoked(c) ==
  /\ call[c].pc = "read"
  /\ Goto(c, IF token[call[c].token].expired THEN "ended" ELSE "user")
  /\ UNCHANGED <<account, token>>

(* The row of the token: unrevoked and unexpired, or the call ends.        *)
GetRefreshTokenByHash(c) ==
  /\ call[c].pc = "read"
  /\ LET row == token[call[c].token]
     IN Goto(c, IF row.revoked \/ row.expired THEN "ended" ELSE "user")
  /\ UNCHANGED <<account, token>>

GetUserByID(c) ==
  /\ call[c].pc = "user"
  /\ Goto(c, IF account[call[c].email] = "active" THEN "revoke" ELSE "ended")
  /\ UNCHANGED <<account, token>>

RevokeRefreshTokenSession(c) ==
  /\ call[c].pc = "revoke"
  /\ token' = [token EXCEPT ![call[c].token].revoked = TRUE]
  /\ Goto(c, "issue")
  /\ UNCHANGED account

(* issuePair and SaveRefreshToken: a row of its own for the new token.     *)
issuePair(c) ==
  /\ call[c].pc = "issue"
  /\ \E n \in Pairs :
       /\ ~token[n].issued
       /\ \A m \in Pairs : m < n => token[m].issued
       /\ token' = [token EXCEPT ![n] = [issued |-> TRUE, email |-> call[c].email,
                      revoked |-> FALSE, expired |-> FALSE, from |-> call[c].token]]
       /\ call' = [call EXCEPT ![c].pc = "issued", ![c].pair = n]
  /\ UNCHANGED account

(* Logout revokes by the hash of what it is given, verified or not.        *)
Logout(c, n) ==
  /\ call[c].pc = "idle"
  /\ token[n].issued
  /\ token' = [token EXCEPT ![n].revoked = TRUE]
  /\ Goto(c, "ended")
  /\ UNCHANGED account

(* A statement fails, the client hangs up or the process dies: what the    *)
(* call has written stays written.                                         *)
CallFails(c) ==
  /\ call[c].pc \notin {"idle", "issued", "ended"}
  /\ Goto(c, "ended")
  /\ UNCHANGED <<account, token>>

TokenExpires(n) ==
  /\ token[n].issued
  /\ ~token[n].expired
  /\ token' = [token EXCEPT ![n].expired = TRUE]
  /\ UNCHANGED <<account, call>>

(* No code disables an account: the column is set by hand.                 *)
DisableUser(e) ==
  /\ account[e] = "active"
  /\ account' = [account EXCEPT ![e] = "disabled"]
  /\ UNCHANGED <<token, call>>

(* Every start of the API makes the root account active again.             *)
EnsureRootUser ==
  /\ account[RootEmail] = "disabled"
  /\ account' = [account EXCEPT ![RootEmail] = "active"]
  /\ UNCHANGED <<token, call>>

CallStep(c) ==
  \/ \E e \in Emails : RegisterUser(c, e) \/ Login(c, e)
  \/ \E n \in Pairs : VerifyRefreshToken(c, n) \/ Logout(c, n)
  \/ GetRefreshTokenByHash(c)
  \/ GetUserByID(c)
  \/ RevokeRefreshTokenSession(c)
  \/ issuePair(c)
  \/ CallFails(c)

NextAccounts ==
  \/ \E c \in Calls : CallStep(c)
  \/ \E n \in Pairs : TokenExpires(n)
  \/ \E e \in Emails : DisableUser(e)
  \/ EnsureRootUser

AccountsSpec == InitAccounts /\ [][NextAccounts]_accountsVars

-----------------------------------------------------------------------------
(* A refresh spends its token: a pair is only ever issued for a token that *)
(* was still good when the request arrived, and by the time the pair       *)
(* exists that token is revoked for good.  So what logout or an earlier    *)
(* refresh has revoked yields nothing to a request made afterwards, and    *)
(* two pairs come from one token only when their requests overlapped.      *)
(* (auth/service.go:128, the three statements of Refresh)                  *)
RefreshSpendsItsToken ==
  \A c \in Calls :
    call[c].pair # 0 /\ call[c].token # 0 =>
      /\ ~call[c].dead
      /\ token[call[c].token].revoked
=============================================================================
