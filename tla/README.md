# Verification of cocktail-recipes-mcp

TLA+ models, TLC runs and TLAPS proofs for the MCP server in `src/` (the Python
package `src/src/cocktail_recipes_mcp`).  The server lets an MCP client, such as
Claude, call tools that read and change recipes, ingredients and tools of a
cocktail application (the *backend*, another repository) through its REST API,
and protects its HTTP endpoint with an OAuth 2.1 server of its own.

`PROJECT.json` lists the runs, the theorems, the hazards, and for every
definition the lines of code it models.

## 1. The system

| Component | State | Operations | Interacts with |
|---|---|---|---|
| backend API client (`client.py`) | `_authenticated`, httpx's cookie jar | `login`, `request` | called by the service; calls the backend |
| service (`service.py`) | none between calls | 18 operations, `_assert_apply_executed`, `_find_recipe_references`, `_merge_recipe_update_payload` | called by the tools; calls the client, some operations several times |
| tool layer (`tool_registry.py`, `errors.py`, `models.py`) | none between calls | 20 tools, `_run` | called by FastMCP; calls the service, writes the log |
| operation log (`operation_log.py`) | a bounded deque in memory | `add`, `recent` | written by `_run` |
| OAuth endpoints (`oauth_app.py`) | none between requests | `/register`, `/authorize`, `/token`, `/oauth/login`, `/oauth/consent`, metadata | MCP clients and the owner's browser |
| OAuth provider (`oauth_provider.py`) | none between requests | registration, authorization, code exchange, refresh | called by the endpoints; calls the storage and the signer |
| OAuth storage (`oauth_storage.py`) | four JSON files | get, save, delete, expiry | the only state that survives a restart, with the key |
| tokens (`oauth_tokens.py`) | the RSA key file | sign, verify, create the key | provider, bearer check |
| bearer check (`OAuthProtectedMCPApp`) | none | one verification for each request | in front of the MCP app |
| settings and wiring (`config.py`, `server.py`, `main.py`) | settings | start-up | everything |

Behaviours that are hard to get right, and to test:

* *Unclear outcomes.*  A request that times out may have been executed, may be
  executed later, or never.  The tools promise that an apply is not repeated
  blindly, that failures are told apart, and that dry runs change nothing.
* *Logins inside requests.*  A session may expire at any time; the 401 is answered
  by a login and a repetition, inside a retry loop that has its own rules.
* *Several writes.*  A consent stores a code and then deletes its flow; a token
  request deletes a credential and then stores its successor.  The process may
  crash in between, and replies may be lost, so that clients repeat requests.
* *Expiry.*  Flows, codes and tokens expire against a clock that moves between
  the requests of one authorization.
* *Reads before writes.*  `update_recipe` merges over what it fetched, the deletes
  scan for references first; the backend has other editors.
* *A bounded log* in which a call can leave two entries.

What makes each component correct:

* client: an apply takes effect at most once; a failure that says "nothing was
  done" is true and stays true; the cost of a call is bounded; calls end;
* tools and service: a dry run changes nothing; refusals are final; an apply the
  backend denies is not reported as done; the log has the latest calls;
* OAuth: one credential for each grant; one code for each flow; no credential is worth
  more than the consent; nothing is redeemed after its time;
* recipe update: a write of somebody else is lost only to a race, and nothing is cleared
  that nobody asked to clear;
* reference scan: what is deleted without `force` was in no recipe the scan could
  have seen, and the scan ends;
* storage files: operations are atomic and durable, and none hangs;
* signing key: tokens outlive restarts, and the server comes up again.

Concurrency in the code is limited.  The tools are plain functions, which FastMCP
calls on its event loop, and the client blocks: tool calls follow one another.
The OAuth handlers are coroutines, but from the moment their form is read they
wait for nothing, so each runs alone.  The storage's lock therefore orders nothing
that could run in parallel today; `OAuthStorage` models what the class promises by
having a lock, which is atomicity for any number of threads.  What does run beside the program is the
backend, the network, the clock, the owner's browser and the clients.

## 2. Modules

| Module | What it is |
|---|---|
| `CallContract` | abstract: what `request()` promises its callers about outcomes and effects |
| `ApiClient` | `client.py`, with the backend and the network as environment |
| `ApiClientProofs` | its safety and `ApiClient => CallContract`, proved |
| `ToolPromises` | abstract: what the tools promise whoever calls them |
| `ToolCalls` | `tool_registry.py`, `service.py`, `operation_log.py` over `CallContract` |
| `ToolCallsProofs` | its safety and `ToolCalls => ToolPromises`, proved |
| `GrantLifecycle` | abstract: the life of one grant's credential |
| `OAuthGrants` | `oauth_app.py`, `oauth_provider.py` over `oauth_storage.py` |
| `OAuthGrantsProofs` | its safety and `OAuthGrants => GrantLifecycle`, proved |
| `RecipeUpdate` | `update_recipe` in `service.py` over `CallContract`, with other editors of the recipe |
| `RecipeUpdateProofs` | its safety, proved |
| `DeleteGuard` | `delete_ingredient`, `delete_tool` and their scan in `service.py` over `CallContract`, with other editors of the recipes |
| `DeleteGuardProofs` | its safety, proved |
| `StoredMaps` | abstract: what the provider may expect of one of the storage's maps |
| `OAuthStorage` | `oauth_storage.py`: one map's file, its temporary file and the lock |
| `OAuthStorageProofs` | its safety and `OAuthStorage => StoredMaps`, proved |
| `SigningKey` | `oauth_tokens.py` and the bearer check of `oauth_app.py`, with restarts |
| `SigningKeyProofs` | its safety, proved |
| `MC...` | the constants and symmetry of the TLC runs |

The modules compose through contracts.  `ApiClient` models every login, attempt
and timeout and is shown to implement `CallContract`, which relates only the outcome
of a call to the number of times the backend executed it.  `ToolCalls` uses
instances of `CallContract`'s actions for its applies, so that what is shown of the tools
holds over any client that keeps the contract, and its state space has no
logins and retries in it.  It is shown in turn to implement `ToolPromises`, which knows neither
requests nor replies: what a call is for, how often it took effect, and which of three
things its caller was told.  `RecipeUpdate` and `DeleteGuard` look inside two of the steps
of `ToolCalls` (`FetchReturns`, `PrecheckReturns`) and use the same contract for
the write that follows.  `OAuthGrants` takes each save, delete and lookup as one step;
`OAuthStorage` is shown to implement `StoredMaps`, which says that this is what they are.
`SigningKey` has the part of a restart that `OAuthGrants` leaves out.

### ApiClient

`stage` is the place in `request()`: the login before the first request (line
51), the send in the try block (61), the wait for it, the login after a 401 (78),
the second send (79) and its wait.  `attempt` is the loop counter.  `wire` is the
exchange under way: a request, or the class of the reply's status that `request()`
tells apart (success, 401, 404, another status below 500, 500 and above).  The client's
actions are named for what happens at the line they model; `Finish` is a return or a raise, and
the outcome it stores is `"ok"` or the error the caller sees: `auth_failed`,
`not_implemented` (any 404), `client_error` and `server_error` (an `api_error`
by its status), `network_error` (an exception the loop catches, when no attempt is left) and
`transport_error` (an httpx exception that `request()` does not catch).

The environment expires the session, executes or declines a request, loses replies and keeps *orphans*:
copies of a request the client has given up on and which the backend may execute
at any later time.  `Restart` is a crash of the process at any point, after which
the calls made before stay as they are and later ones use a new client.

Taken from how the code uses it: the backend does nothing for a request it
answers with a 401, a 404 or another status below 500; a status from 500 on
leaves open whether it did.  Not modelled: `time.sleep` of the backoff, which no property depends on, and payloads.

### ToolCalls

A call has a tool, a `dryRun` and a `force` flag.  The twenty tools fall into
groups by what they send (see `ReadTools`, `WriteTools`): reads; the capability probe; the log;
`create_recipe`, which has no apply guard; creates, updates and `delete_recipe`, which answer
a dry run themselves; `update_recipe`, which fetches before it writes; the deletes that scan
for references whatever the flags are; and the bulk tools, whose dry run is a request to the backend.
`FirstStage` is where a call goes first, `SendApply` the request with
`idempotent=False`, and `RefutesApply` is `_assert_apply_executed` on a
reply of which only the `dry_run` flag, the applied flags, and the sets of
counts and of list lengths (zero or more than zero) are kept.  `Answer` and `Entries` are
`_run`: every outcome becomes an answer and one log entry, or two when the
result of a read is neither an object nor a list.

The backend executes an apply when `CallContract` allows it, which may be long after
its call has failed; an apply may have nothing to change.  `Truthful` is what an
honest backend says of an apply.  An idempotent request has no effect: this
module takes the backend's word that a bulk request with `dry_run: true` changes nothing.

`Promises` is the refinement mapping: a read or a dry run is a *look* and any other call a
*change*; its effects are the executions of its apply; and the answers fall into `applied`,
those that say nothing was done (also the `ok` of a read or a dry run), and the rest, which is unclear:
`apply_not_executed` is among them, as an apply that did something can be answered so (see `merge_unused`, section 5).

### OAuthGrants

The four maps are the four files.  Each stored entry carries what the handlers
later read.  `"flow"` of a code and `"grant"` of a refresh token are history, as
are `requested` and `granted`: they say which authorization request and which
consent a credential goes back to.  Guards look at them only to keep identifiers
fresh (`secrets.token_urlsafe`).  `delivered`, `held` and `access`
are what reached a client.

A handler that writes twice has two actions: `Approve` and `CloseFlow`,
`ExchangeCode` or `ExchangeRefreshToken` and `IssueTokens`.  While `closing` or
`issuing` is set no other handler runs (`Idle`), but the clock may move, and
`Crash` may end it; what is stored stays.  A reply may be lost: then the credential is
stored and the client does not have it.  Clients may present anything they ever
received, any number of times.  Looking up a code or token deletes every expired entry first
(`KeepCodes`, `KeepTokens`), also in a request that is then rejected.

The checks of the mcp package's own handlers (`AuthorizationHandler`,
`TokenHandler`: the client owns the credential, requested scopes are within those registered or
granted) are modelled from how the code relies on them and are external.

### RecipeUpdate

One recipe is a function from fields to values, and a value is the write it comes from, so
that a lost write can be told.  `Carried` are the fields that
`_normalize_recipe_for_update()` copies, `Uncarried` the others of the backend's schema.
A call is invoked with a payload for some fields, fetches (`FetchReturns` sends the PUT
at once, as nothing happens in between that another actor could see), and waits for the PUT, which the backend may execute
at any later time, and once (`CallContract`).  `Extracted` is what `_extract_recipe()` can return:
the recipe, or an object that is no recipe (a page that `_safe_json()` wraps as `raw`, or any object without the
known fields), which is merged all the same.  A field that the PUT omits may be kept or
cleared by the backend: the code does not say which, so both happen.  `Edit` is any other
writer.  `blind`, `touched` and `meant` are history: which updates had read no recipe,
what changed between a fetch and the execution of its PUT, and the recipe had every writer
changed only what it named.

### DeleteGuard

The recipes are a sequence, the order in which the backend lists them; each mentions the ingredient or
tool in the list that the scan looks at, in its garnishes (ingredients only), or not.
`PageReturns` is one turn of the loop of `_find_recipe_references()`: the locals `offset`,
`scanned` and `matched` (a count: the sample is left out), the break inside a page at the limit, the end after a short page.  `Windows`
are the pages a backend may return: a backend may ignore the offset, and return fewer or more
recipes than asked for.  Between any two pages, and between the scan and the delete, recipes are added
anywhere, removed and rewritten.  `newer` and `doubts` are history: what changed since a
call began, and why its scan may have been wrong.

### OAuthStorage

An operation is called, enters the lock (reads the file and changes the map in memory),
opens the temporary file (which empties it), fills it, renames it, and leaves the lock.  A
lookup that finds nothing expired has nothing to write.  Opening, writing and
renaming may each raise (`WriteFails`), which leaves the temporary file as it is; `Crash` ends all
operations at any step, and the files stay.  The refinement mapping takes the contents of the file as the map
and the rename as the moment at which an operation takes effect.

### SigningKey

The start either loads the key from its file or generates one, opens the file in place, and
writes it.  `Crash` may come at any step, and `StartFails` is a start that raises; with a torn
file every start does, until somebody deletes it (`Repair`).  A token is the key it was
signed with, its audience and its expiry; `IssueForCode` signs for the resource of the
authorization request, `IssueForRefresh` for the server itself.  `Verified` is the
check in front of the MCP app.

## 3. Runs

Every passing run checks a type invariant; only the deeper properties are described.

| Run | Shows |
|---|---|
| `api_client` | `AppliedAtMostOnce`: no apply takes effect twice, through logins, repetitions, late requests and restarts. `NoEffectFailuresAreFinal`: an apply that failed with a refused login or a status below 500 has no effect and never will. `RetryBudget`: at most two requests for each attempt. `EveryStepCounts`: each step of a call brings it nearer to its end. `ImplementsContract`: refinement. `CallsReturn`: every call ends. |
| `oauth_grants` | `SingleCredential`, `OneCodePerFlow`, `WithinConsent`, `TimelyRedemption`, and `ImplementsLifecycle`: refinement. |
| `tool_calls` | `DryRunsChangeNothing`, `RefusalsAreFinal`, `DeniedAppliesAreErrors`, `LatestCallsAreLogged`. `GuardErrsOnlyOnUnclearReplies`: given a truthful backend, the apply guard takes a no-op for an apply only when the reply counts nothing, and an apply for a no-op only when it counts nothing of one kind and something of the other. `ImplementsPromises`: refinement. |
| `recipe_update` | `LostWritesRaced`: a field that differs from what its writers meant was overwritten by an update that had fetched before it changed, or had fetched no recipe. `ClearedOnlyBlindly`: a carried field is cleared unasked only by an update of the second kind. `UpdatesDoAsAsked`: a PUT, however late, writes what was asked and leaves what nobody touched since its fetch. |
| `delete_guard` | `UnforcedDeletesWereUnused`: after a scan that got its pages, every recipe that lists the deleted thing was changed since the call began, also when additions shift recipes between pages. `QuietScansCount`: an undisturbed scan counts exactly. `ScanAdvances`: each page is asked for further on and below the limit. `ScanEnds`: the scan ends, even when the backend ignores offset and limit. |
| `oauth_storage` | `AlwaysReadable`: no crash and no failed write leaves a file that cannot be read. `LockIsGivenUp`: only an operation under way holds the lock, and it releases it when it ends (see section 1: today nothing contends for it). `ImplementsMaps`: refinement, so that no save is lost to another and what returned survives a crash. `OperationsEnd`: no failure leaves the lock held. |
| `signing_key` | `TokensSurviveRestarts`: a server that is up accepts every unexpired token for it that it ever issued. `TornOnlyBeforeFirstToken`: a torn key file can be deleted safely. `KeyFixedByFirstToken`: once a token was issued, no start changes the key. `RestartsRecover`: once a token was issued, the server comes up again by itself. |
| `resend_retry`, `create_recipe_guard`, `merge_unused`, `full_payload`, `garnish_references` | one divergence each, see Findings. |

Bounds, and why they are enough:

* `api_client`: three calls, two of them applies, two attempts for the read.  Calls follow one another and share only
  the session, so that two show whether one disturbs the next, and a third whether
  an orphan of an earlier one does.  Two attempts are the fewest that have a first
  and a last one.  `sent` stops counting at one more than is allowed; everything else is bounded by the
  budget itself.
* `oauth_grants`: two of everything, so that clients, flows, codes and tokens can be
  confused, a flow can be approved twice, and a refresh token is rotated while the one
  before it is still in its client's hands.  (The proofs cover longer chains.)
  Lifetimes of one tick and a clock that stops at three (`Horizon`) let each
  credential be live, be at its limit and be expired, one after the other.
* `tool_calls`: two calls, one in progress while an apply of the other is late, and
  a log of two entries that one call can fill.
* `recipe_update`: two updates, of which a late one may meet the next, and two values of other
  editors, who may write any number of times; one field of each kind, as the merge treats
  fields one by one.
* `delete_guard`: one delete, pages of two and a limit of four, so that there are full, short and
  overlong pages, a second page, and the limit in the middle of a page; three recipes, so that one can
  move between the pages.  A second delete would share only the recipes with the first.
* `oauth_storage`: three operations, so that two wait for one or two write between two steps
  of the third, and two keys.
* `signing_key`: two keys, one after the other; a lifetime of two ticks and a clock that stops
  at four, so that tokens of different ages outlive a restart.  Crashes are not bounded.

The proofs remove these bounds for the safety properties.

Fairness is assumed of the program's own steps only:

* `api_client`, `CallsReturn`: `WF_vars(Client)`, whoever called `request()` keeps running it.  httpx is given a timeout
  (`client.py:16`), which is for each read from the connection, so a wait ends with a reply or an exception
  unless the backend sends its reply in pieces for ever; the corresponding actions (`NetworkFailure`, `TransportFailure`,
  `LoginFails`) are enabled whenever the client waits.
* `delete_guard`, `ScanEnds`: `WF_vars(Scan)`, for the same reason; `ScanFails` is always enabled in a scan, and the
  backend chooses the pages.
* `oauth_storage`, `OperationsEnd`: `WF_vars(Step(o))` for each thread, which the operating system schedules.  The
  lock is fair to nobody in particular; as operations are finite in number, everybody gets it.
* `signing_key`, `RestartsRecover`: `WF_vars(Start)`.  `docker-compose.yml` has
  `restart: unless-stopped`, and a start that could work is taken to succeed at last.
  Crashes may go on for ever.

Deadlock is checked in every run.

## 4. Proofs

All theorems hold for every value of the constants, under the named assumptions: `CallsAssumption`,
`RetriesAssumption` (any integer setting of `COCKTAIL_API_MAX_RETRIES`), `ScopesAssumption`,
`TimeAssumption` (any integer lifetimes, negative ones too), `LogAssumption`, and that the value for
"no entry" is no entry.  Each module of proofs has one inductive invariant `IInv`, and most properties follow from it; a few need
a small one on top of it (`LogInv`, `Judged`, `Behind`, `Held`), so that `IInv` says no more than the others
need.  All of them were checked with TLC before they were proved.

* `ApiClientProofs`.  `AppliedAtMostOnce` alone is not inductive: a step that executes an orphan
  must know that no other copy was executed.  `OneCopy` counts executed, orphaned and
  sent copies of an apply together; `NoTrace` says in which stages there can
  be none of them (before the send, after a reply that says so, after such a failure);
  `RequestsCounted` ties the number of requests to attempt and stage.
  `CallsCountDown` has the measure of termination, `Remaining`: six for each attempt to come and the
  place within the present one.  It starts at six times the attempts at most, is positive until the call ends, and every
  step of the client takes from it, so a call of any number of retries ends after that many steps.
  `Refinement` is `Spec => Contract!Spec`, step by step.
* `OAuthGrantsProofs`.  `Credentials` is `SingleCredential` by pairs of places.  It is not
  inductive alone: a fresh code must not meet a token of its own grant, which follows
  from `Consents` (whatever stands for a grant, also while it is being issued, is covered by a consent).
  `Origins` ties flows and codes to the request they come from: a stored flow was created when
  it was requested, a code expires early enough for `TimelyRedemption`, and a delivered code has closed
  its flow, from which `OneCodePerFlow` follows.
  `Refinement` is `Spec => Lifecycle!Spec` under the mapping `Phase`, `Authority`; `ConsentShrinks` is what
  a reader wants of it: scopes given up in a rotation never come back, and an ended grant stays ended.
* `ToolCallsProofs`.  `SentApplies` says for which calls an apply can have been sent and that
  only these are executed; `Answers` relates an answer to whether the apply was sent and to
  the outcome of `request()`.

  `LogInv` is a second invariant on top of it: the i-th latest answer is found among the first
  2i entries, because a call adds two at most; `TypeCorrect` and `LogKeepsLatest` follow.

  `Judged` is a third: an apply is executed once at most, which makes a reply to it stay true (a second
  execution could change rows after the reply), and a judgement of the guard is about such a reply.  From it follow `GuardErrs` and, with `IInv`,
  `Refinement`, which is `Spec => Promises!Spec`.  `StepsSeen` sorts the actions by what a caller sees of them, once for both.
* `RecipeUpdateProofs`.  `Bodies` says that a PUT holds what was asked, and, unless it was merged over no
  recipe, every carried field; `Fresh` that what it holds beyond that is still what
  the recipe has, except where the recipe was touched since the fetch.  Executing a PUT therefore changes only
  what was asked, what was touched, or what a blind update omits (`PutWrites`); `UpdatesDo` says it of
  each execution, `LostWrites` and `ClearedFields` of the recipe that is left.
* `DeleteGuardProofs`.  `Scanning` is the loop invariant: while no page was wrong and nothing was removed, all
  recipes before the offset that list the thing are counted or newer than the call.  Additions
  shift recipes towards the pages still to come and keep it.  `Scanned` carries it to the report and beyond.
  `ScansAdvance` needs `Behind` (the offset never passes the recipes counted), as the limit is on these
  and not on the offset.
* `OAuthStorageProofs`.  `Holding` is the mutual exclusion; `Current` says that the map in
  the holder's memory is still the one it would make of the file, which is what makes the rename an
  atomic step.  `Refinement` is `Spec => Atomic!Spec`, step by step, and
  `NoLostUpdates` what it is for.  `LocksAreGivenUp` needs the converse of `Holding`: whoever has
  the lock is under way (`Held`).
* `SigningKeyProofs`.  `Persisted` and `OnDisk`: memory, file and tokens agree on the key, and
  a start that has yet to write its key finds no tokens (`NoTokensYet`).  `KeyStays` follows, as a start
  that finds a key writes nothing.

The assumptions of these are `FieldsAssumption`, `ValuesAssumption`, `MentionsAssumption`, `SizesAssumption`
(any positive page size and limit), `FilesAssumption`, `KeysAssumption`, `TimeAssumption` and
`OwnAssumption`: values that stand for nothing differ from those that stand for something.

Only model-checked, as the prover handles neither `ENABLED` nor fairness: the liveness properties `CallsReturn`, `ScanEnds`,
`OperationsEnd` and `RestartsRecover`.  For the first three the safety half is proved for all
constants: `CallsCountDown` and `ScansAdvance` bound the steps of a call and of a scan, and `LocksAreGivenUp` excludes a lock
that is never free again; what TLC adds is that a step is always possible.

## 5. Findings

* `resend_retry`: the request repeated after a 401 is outside the try block
  (`client.py:79`); a read whose repeated request is lost fails without a retry, with an
  exception that is no `ApiError`.
* `create_recipe_guard`: `create_recipe` never asserts that its apply was executed
  (`service.py:35`), which the README promises for every tool.
* `merge_unused`: counts and id lists are judged apart (`service.py:637`): a merge of
  an ingredient that no recipe uses removes it and is answered with `apply_not_executed`.
* `full_payload`: the list of fields in `_normalize_recipe_for_update()` (`service.py:498`) lacks
  `glassware`, which the backend's schema has for reads and updates; the PUT is not the "full update payload" of the README.
* `garnish_references`: the scan before `delete_ingredient` looks at the ingredients of a recipe
  (`service.py:462`) and not at its garnishes, which refer to ingredients too, so that a referenced ingredient
  is deleted without `force`.

## 6. Not modelled

* HTML pages, metadata documents and the key set: no state, and no property is about their text.
* RSA, JWT, PKCE and the random identifiers: cryptography, taken as ideal (keys and identifiers are fresh, a token
  verifies with the key that signed it).
* The validation of settings (`config.py:31`) and of models (`models.py`): each decides once on its input,
  before any state changes.  What the settings allow appears as assumptions on the constants.
* `revoke_token()`: no route reaches it.
* The items of a recipe's lists: the normalisers keep their order and number, up to
  items that are no objects.
* A power failure: nothing is flushed to the disk before a rename (`oauth_storage.py:145`), and what a file system then
  leaves is not a matter of this code's steps.  A crash in the modules is the end of the process.
* A change of `PUBLIC_BASE_URL` between restarts, which invalidates all access tokens.
* The text of errors and log entries, packaging, and the schemas of the backend under `contracts/`.
