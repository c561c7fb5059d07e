-------------------------- MODULE ProviderConfigs --------------------------
(***************************************************************************)
(* Model providers and the routes of the task types to them: the tables    *)
(* provider_configs and provider_task_routes, written by the handlers of   *)
(* internal/httpapi/router.go and by the seeding at every start, and read  *)
(* whenever a task is sent to the runtime (internal/store/store.go,        *)
(* internal/provider/provider.go).                                         *)
(*                                                                         *)
(* SaveProvider reads the stored key in one statement and writes the row   *)
(* in another, with no transaction around the two; every other operation   *)
(* is one statement.  A row is its key and whether it is enabled.  An      *)
(* environment variable that is set holds a key named after it.  Left out: *)
(* the endpoint and model fields, which are stored as they come, and the   *)
(* connectivity test, which changes nothing.                               *)
(***************************************************************************)

CONSTANTS
  Providers,       \* provider ids
  DefaultProvider, \* the one seeded at start-up
  EnvVars,         \* names of environment variables
  DefaultVar,      \* the one the seeded row refers to
  SetVars,         \* those that are set
  ApiKeys,         \* keys typed in by an administrator
  TaskTypes,       \* task types with a route
  Saves            \* SaveProvider requests, each made at most once

ASSUME ProviderAssumption ==
  /\ DefaultProvider \in Providers
  /\ DefaultVar \in EnvVars
  /\ SetVars \subseteq EnvVars
  /\ "" \notin EnvVars \cup ApiKeys
  /\ EnvVars \cap ApiKeys = {}

VARIABLES
  provider, \* provider_configs
  route,    \* provider_task_routes: the provider of each task type
  secret,   \* PROVIDER_KEY_ENCRYPTION_SECRET is set, the same as ever
  save,     \* each SaveProvider request and the key it has read
  asked,    \* a ghost: the key of each provider last asked for
  lost      \* a ghost: a save that had read an older key has put it back

providerVars == <<provider, route, secret, save, asked, lost>>

(* A key as an administrator thinks of it: none, a variable to read it     *)
(* from, or the key itself.  keep: the request says nothing of the key.    *)
NoKey == [source |-> "none", value |-> ""]
Keys == {NoKey} \cup [source: {"env_ref"}, value: EnvVars] \cup [source: {"db_encrypted"}, value: ApiKeys]
Keep == [source |-> "keep", value |-> ""]

KeyState == [source: {"none", "env_ref", "db_encrypted"}, ref: EnvVars \cup {""},
             ciphertext: ApiKeys \cup {""}]
NoKeyState == [source |-> "none", ref |-> "", ciphertext |-> ""]
SeededKeyState == [source |-> "env_ref", ref |-> DefaultVar, ciphertext |-> ""]

ProviderRow == [there: BOOLEAN, enabled: BOOLEAN, key: KeyState]
NoRow == [there |-> FALSE, enabled |-> FALSE, key |-> NoKeyState]
SeededRow == [there |-> TRUE, enabled |-> DefaultVar \in SetVars, key |-> SeededKeyState]

(* overtaken: a ghost, the provider's key was changed after it was read.   *)
Save == [pc: {"idle", "write", "ended"}, id: Providers, want: Keys \cup {Keep},
         enabled: BOOLEAN, read: KeyState, overtaken: BOOLEAN]
IdleSave == [pc |-> "idle", id |-> DefaultProvider, want |-> Keep, enabled |-> FALSE,
             read |-> NoKeyState, overtaken |-> FALSE]

ProviderTypeOK ==
  /\ provider \in [Providers -> ProviderRow]
  /\ route \in [TaskTypes -> Providers]
  /\ secret \in BOOLEAN
  /\ save \in [Saves -> Save]
  /\ asked \in [Providers -> Keys]
  /\ lost \in [Providers -> BOOLEAN]

(* The migrations seed the default provider, enabled, and its routes.      *)
InitProviders ==
  /\ provider = [p \in Providers |-> IF p = DefaultProvider THEN [SeededRow EXCEPT !.enabled = TRUE]
                                     ELSE NoRow]
  /\ route = [t \in TaskTypes |-> DefaultProvider]
  /\ secret \in BOOLEAN
  /\ save = [s \in Saves |-> IdleSave]
  /\ asked = [p \in Providers |-> IF p = DefaultProvider THEN [source |-> "env_ref", value |-> DefaultVar]
                                  ELSE NoKey]
  /\ lost = [p \in Providers |-> FALSE]

-----------------------------------------------------------------------------
(* Reading a row                                                           *)

(* What a stored key stands for; a ciphertext cannot be read without the   *)
(* secret it was made with.                                                *)
Unreadable == "unreadable"
resolveAPIKey(key) ==
  CASE key.source = "db_encrypted" -> IF secret THEN key.ciphertext ELSE Unreadable
    [] key.source = "none"         -> ""
    [] key.source = "env_ref"      -> IF key.ref \in SetVars THEN key.ref ELSE ""

(* scanProviderWithCiphertext: what the administrator is shown.            *)
APIKeyConfigured(key) == key.ciphertext # "" \/ key.ref \in SetVars

(* The key a task's request to the runtime carries; with no enabled row,   *)
(* or a key that cannot be read, it carries no provider at all.            *)
NoProvider == "no provider"
RuntimeProviderForTask(t) ==
  LET row == provider[route[t]]
      key == resolveAPIKey(row.key)
  IN IF row.there /\ row.enabled /\ key # Unreadable THEN key ELSE NoProvider

-----------------------------------------------------------------------------
(* Writing one                                                             *)

(* SaveProvider, first statement: the key stored now.                      *)
providerKeyState(s, p) ==
  /\ save[s].pc = "idle"
  /\ \E want \in Keys \cup {Keep}, enabled \in BOOLEAN :
       save' = [save EXCEPT ![s] = [pc |-> "write", id |-> p, want |-> want, enabled |-> enabled,
                                    read |-> provider[p].key, overtaken |-> FALSE]]
  /\ UNCHANGED <<provider, route, secret, asked, lost>>

(* Variant: a save that says nothing of the key drops it.                  *)
NextKeyStateDropped(read, want) ==
  CASE want.source = "none"         -> NoKeyState
    [] want.source = "db_encrypted" -> [read EXCEPT !.source = "db_encrypted", !.ciphertext = want.value]
    [] want.source = "env_ref"      -> [source |-> "env_ref", ref |-> want.value, ciphertext |-> ""]
    [] want.source = "keep"         -> [read EXCEPT !.ciphertext = ""]

(* The key to store, from what was read and what is wanted.  A key typed   *)
(* in leaves the reference as it was.                                      *)
NextKeyState(read, want) ==
  CASE want.source = "none"         -> NoKeyState
    [] want.source = "db_encrypted" -> [read EXCEPT !.source = "db_encrypted", !.ciphertext = want.value]
    [] want.source = "env_ref"      -> [source |-> "env_ref", ref |-> want.value, ciphertext |-> ""]
    [] want.source = "keep"         -> read

(* The upsert keeps a ciphertext only next to the source that goes with it.*)
StoredKey(key) == IF key.source = "db_encrypted" THEN key ELSE [key EXCEPT !.ciphertext = ""]

(* A row's key is written while other saves of the provider are between    *)
(* their two statements.                                                   *)
Overtake(p, key, others) ==
  [t \in Saves |-> IF t \in others /\ save[t].pc = "write" /\ save[t].id = p /\ provider[p].key # key
                   THEN [save[t] EXCEPT !.overtaken = TRUE]
                   ELSE save[t]]

SaveProvider(s) ==
  LET p == save[s].id
      want == save[s].want
      key == StoredKey(NextKeyState(save[s].read, want))
  IN /\ save[s].pc = "write"
     /\ want.source = "db_encrypted" => secret
     /\ provider' = [provider EXCEPT ![p] = [there |-> TRUE, enabled |-> save[s].enabled, key |-> key]]
     /\ save' = [Overtake(p, key, Saves \ {s}) EXCEPT ![s] = [IdleSave EXCEPT !.pc = "ended"]]
     /\ asked' = IF want = Keep THEN asked ELSE [asked EXCEPT ![p] = want]
     /\ lost' = IF want = Keep THEN [lost EXCEPT ![p] = @ \/ save[s].overtaken]
                ELSE [lost EXCEPT ![p] = FALSE]
     /\ UNCHANGED <<route, secret>>

(* Without a secret a key cannot be encrypted; a statement can fail.       *)
SaveFails(s) ==
  /\ save[s].pc = "write"
  /\ save' = [save EXCEPT ![s] = [IdleSave EXCEPT !.pc = "ended"]]
  /\ UNCHANGED <<provider, route, secret, asked, lost>>

(* The foreign key refuses to delete a provider that a task is routed to.  *)
DeleteProvider(p) ==
  /\ provider[p].there
  /\ \A t \in TaskTypes : route[t] # p
  /\ provider' = [provider EXCEPT ![p] = NoRow]
  /\ save' = Overtake(p, NoKeyState, Saves)
  /\ asked' = [asked EXCEPT ![p] = NoKey]
  /\ lost' = [lost EXCEPT ![p] = FALSE]
  /\ UNCHANGED <<route, secret>>

(* ... and refuses a route to a provider that is not there.                *)
SaveProviderRoute(t, p) ==
  /\ provider[p].there
  /\ route' = [route EXCEPT ![t] = p]
  /\ UNCHANGED <<provider, secret, save, asked, lost>>

(* A process starts, with the secret or without: the API's requests are    *)
(* gone with the process before it, and a row already there is kept.       *)
SeedProviderConfigs ==
  LET p == DefaultProvider
  IN /\ secret' \in BOOLEAN
     /\ save' = [s \in Saves |-> IF save[s].pc = "write" THEN [IdleSave EXCEPT !.pc = "ended"] ELSE save[s]]
     /\ \/ /\ ~provider[p].there
           /\ provider' = [provider EXCEPT ![p] = SeededRow]
           /\ asked' = [asked EXCEPT ![p] = [source |-> "env_ref", value |-> DefaultVar]]
           /\ lost' = [lost EXCEPT ![p] = FALSE]
        \/ /\ provider[p].there
           /\ UNCHANGED <<provider, asked, lost>>
     /\ UNCHANGED route

NextProviders ==
  \/ \E s \in Saves : \/ \E p \in Providers : providerKeyState(s, p)
                      \/ SaveProvider(s)
                      \/ SaveFails(s)
  \/ \E p \in Providers : DeleteProvider(p)
  \/ \E t \in TaskTypes, p \in Providers : SaveProviderRoute(t, p)
  \/ SeedProviderConfigs

ProviderSpec == InitProviders /\ [][NextProviders]_providerVars

-----------------------------------------------------------------------------
(* The key a task is sent with is the one last asked for the provider it   *)
(* is routed to, through any sequence of saves that leave the key out,     *)
(* deletions and restarts; the exception is a save that had read the key   *)
(* before it was changed and wrote it back afterwards, which the code does *)
(* not prevent.  (store.go:118 SaveProvider, :374 RuntimeProviderForTask)  *)
KeyAskedFor(key) ==
  IF key.source = "env_ref" /\ key.value \notin SetVars THEN "" ELSE key.value

TaskGetsTheKeyAskedFor ==
  \A t \in TaskTypes :
    RuntimeProviderForTask(t) # NoProvider /\ ~lost[route[t]] =>
      RuntimeProviderForTask(t) = KeyAskedFor(asked[route[t]])

(* A provider shown as having a key has one when a task needs it, or one   *)
(* that the missing secret keeps from being read; one shown as having none *)
(* has none.  The two are computed from different columns.  (store.go:398  *)
(* resolveAPIKey, :438 scanProviderWithCiphertext)                         *)
ConfiguredKeyResolves ==
  \A p \in Providers : APIKeyConfigured(provider[p].key) <=> resolveAPIKey(provider[p].key) # ""
=============================================================================
