# Verification of mcp-auth-proxy

mcp-auth-proxy is a local HTTP proxy for MCP servers. Clients send JSON-RPC requests to
`/<server>/...` (or `/<profile>/<server>/...`); the proxy adds the credential the server needs and
forwards the request, over HTTP or to a child process over stdio. It obtains credentials itself (static
secrets, or OAuth with dynamic registration, a browser login and refresh tokens), keeps what must
survive a restart in an encrypted file or the keychain, and has a settings API to add, change and delete
servers and profiles while it runs.

This directory holds TLA+ models of its parts, translated from the source; TLC checks small instances,
and TLAPS proves the most important properties for every value of the constants.

Source paths below are relative to the crate's directory `src/` (so `proxy/mod.rs` is `src/proxy/mod.rs`
of the crate); `PROJECT.json` maps every definition to its lines.

## 1. Inventory

| Component | State it keeps | Operations | Talks to |
|---|---|---|---|
| stdio bridge, `proxy/stdio_upstream.rs` | the child process behind a mutex, the id counter, one table of pending requests per process | `ensure_process`, `forward`, the reader task of each process, the guard that cancels a dropped stream, `Drop` | HTTP handlers (channels), the child (pipes) |
| tool discovery, same file, `proxy/http_upstream.rs`, `mcp_protocol.rs` | none of its own | `send_jsonrpc`, `fetch_tools`: modern protocol, else the legacy handshake | the child or server |
| OAuth strategy, `auth/oauth.rs` | `OAuthState` behind a read-write lock: metadata, client, tokens, expiry | `get_auth_headers` (`ensure_token` with `discover`), `handle_unauthorized` | authorization server, browser, token storage |
| static token and composite, `auth/static_token.rs`, `auth/mod.rs` | a cached credential with its age | the same two | credential providers |
| token storage, `storage/` | a map in one encrypted file, its copy in memory | `get`, `set`, `delete` | the file system, the keychain |
| server registry, `proxy/mod.rs`, `settings.rs`, `main.rs` | the map of upstreams behind a read-write lock, the store of added servers, `servers.json` | `create_server`, `update_server`, `delete_server`, the restoring at the start, the lookup of `root_handler` | all strategies and transports |
| profiles and tool filter, `proxy/mod.rs`, `settings.rs` | the store of profiles, `profiles.json` | create, update, delete, lookup, filtering of `tools/list`, refusal of `tools/call` | registry |
| tool cache, `tool_cache.rs` | the tools last seen of each upstream | `refresh_upstream`, `set_tools`, what `tools/list` answers store | registry, discovery |
| HTTP upstream, `proxy/http_upstream.rs` | none between requests | `forward` | the server |
| configuration, `config.rs` | the upstreams of the file | `load`, `validate` | registry |
| credential providers, `credential/` | none | `resolve` | command line tools, a database file, a cloud service |
| logging, settings page, command line | none | | |

**How they interact.** A request passes `root_handler`, which looks its upstream up and keeps the read
guard of the map while it forwards; `proxy_with_filter` and `do_proxy`, which ask the strategy for headers;
then a transport; on the way back a 401 goes to `handle_unauthorized`, and answers to `tools/list` go to
the tool cache and the profile's filter. All handlers are tokio tasks: they interleave at awaits, and each
is dropped at an await when its client disconnects. Settings handlers share the map of upstreams with
them, upstreams share the token storage, and the handlers of one upstream share its strategy's state and,
for stdio, one child process.

**What is hard.**

* Multiplexing: ids chosen by independent clients on one channel; answers that are late, doubled or
  missing; a child that exits, stops talking or calls back; replacement of the child while the reader of
  the old one still runs.
* Dropped futures: a handler can vanish at any await, in the middle of a line to the child, under the
  write lock of the OAuth state, between a change of the map and of the store, in front of a blocking
  write that goes on without it.
* Crashes between two steps that belong together: registering a client and storing it, rotating a refresh
  token and storing it, emptying a file and filling it.
* Separate locks for one logical change: check and registration of a name; copying, changing and saving
  the map of tokens.
* Waiting: one fetch of a token with everybody queued behind it; a fair lock whose readers hold it as
  long as a server takes to answer; time limits that exist for plain stdio requests only.

**What makes each part correct.**

* stdio bridge: a client is only given what the child printed for its own request, once, under its own
  id; who waits for a running child has been heard by it or will be; nobody waits for a process that is
  gone; a cancellation hits the request it names; every exchange ends.
* OAuth: one fetch at a time and none without need; refresh tokens stay with their client and are not
  lost; an exchanged code belongs to the flow that waits; the lock is released on every way out.
* token storage: what is stored stays, in memory, in the file and over restarts.
* registry: map, store and file agree; a request keeps the server it was routed to; nothing blocks.
* static tokens: each header's credential is a cache of its own with the same promise; a value the server
  rejected is in no cache any more, whichever header carried it.
* profiles and filter: a request that came through a profile calls and shows only what that profile
  allows for that upstream, whatever is edited meanwhile; the list and the calls agree.
* tool cache: what it holds is what the present server listed, whole, not what one profile shows.
* tool discovery: one version per session, the newest both sides have; the older protocol's session is
  initialized before tools are asked for; a late answer is not taken for another one; it ends.
* OAuth discovery: the metadata are those of this upstream and of the configured server, and the
  challenge that points to them is read as it was written.
* configuration: every upstream it accepts can be reached, under a name of its own (not modelled).

`PROJECT.json` lists the hazards one by one, with the line where each bites and the properties that would
notice it.

## 2. Modules

| Module | Models |
|---|---|
| `StdioUpstream` | the stdio bridge, its handlers, guards, readers, and the child as environment |
| `RequestExchange` | the promise of such a bridge to each client (abstract) |
| `StdioUpstreamProofs`, `MCStdioUpstream` | proofs, instances |
| `OAuthAuth` | the OAuth strategy of one upstream with server, user, storage and clients around it |
| `CredentialCache` | what a strategy promises the requests of its upstream (abstract) |
| `OAuthDiscovery`, `OAuthDiscoveryProofs` | how the metadata behind the strategy are found: URLs, challenge, the walk (operators); proofs |
| `OAuthAuthProofs`, `MCOAuthAuth` | proofs, instances |
| `StaticToken` | resolved credentials, one or several headers to an upstream |
| `TokenStore` | the encrypted file and its copy in memory |
| `TokenStoreProofs`, `MCTokenStore` | proofs, instances |
| `Registry` | the map of upstreams, the server store, its file, edits, requests and restarts |
| `RegistryProofs`, `MCRegistry` | proofs, instances |
| `Serving` | the way of a request through profile, upstream, cache and filter, with edits and refreshes |
| `ServingProofs`, `MCServing` | proofs, instance |
| `ToolDiscovery`, `ToolDiscoveryProofs` | `fetch_tools` over HTTP and stdio; proofs |
| `Handshake` | what a fetch promises the MCP server (abstract) |
| `ToolRefresh`, `ToolRefreshProofs`, `MCToolRefresh` | an upstream with `StaticToken` credentials, its requests and the refreshes of its tools by `ToolDiscovery`; proofs about it and about `StaticToken`; instance |

How they compose: `OAuthAuth` extends `OAuthDiscovery` and both it and `StaticToken` implement
`CredentialCache`; `ToolRefresh` extends `StaticToken` and instantiates `ToolDiscovery`, whose fetches each
implement `Handshake`; `StdioUpstream` implements `RequestExchange`. `Serving` and `Registry` share the map of
upstreams: `Registry` has its lock, its store and its file, `Serving` what is done with it between lookup
and answer.

Operators with a mistake in their name (`RemoveForgotten` beside `Remove`) are used by no specification.
Each shows that a property notices a plausible bug in the code: put in the place of the right operator, it
makes TLC find the property violated (`mutants` in `PROJECT.json`).

### StdioUpstream

An actor is one HTTP exchange, a request (plain, or answered by an event stream) or the posting of a
`notifications/cancelled`. A process that replaces another is a new generation, and tables, pipes and
readers belong to generations because in the code they live on in `Arc`s when `process` is replaced.

| State | Code |
|---|---|
| `pc`, `outcome` | the handler's place in `forward`, how it ended |
| `uid`, `nextId` | the remapped id, `next_request_id` |
| `lock`, `proc` | the mutex around `process`, its content |
| `pending[g]` | the table of process `g` |
| `chan` | the channel from the reader to the handler |
| `reader`, `child`, `stdin`, `torn`, `stdout`, `seen`, `said` | the reader task and the process with its pipes |
| `live` | whether the upstream is still registered |

`Ensure...` is `ensure_process`, `Number` to `Write` the first half of `forward`, `Receive...`, `Timeout`,
`ChannelClosed`, `Closed` the waiting, `Disconnect...` the dropping of the future at each kind of await
(`DisconnectWriting` may leave a half line), `CancelLock` and `CancelWrite` the task of the guard, `Reader...`
the reader task, `DropUpstream` the `Drop`. `Child...` is the external server; it may exit, or close its stdin and
go on (`"deaf"`), which makes writes fail while `ensure_process` still finds it running. Whatever the code does
without an await is one step, except that a full pipe makes a writer wait with the mutex held.

### OAuthAuth

Requests queue for the write lock of the state (`pc = "queued"`); the one that has it goes through the
stages of `ensure_token` in the order of the code: cached token, metadata, client (memory, configuration,
storage, registration), stored refresh token, refresh, fallback to the browser with its one listener,
exchange, storing. Then it forwards, perhaps gets a 401, and evicts the token. Clients and grants of the
server are numbers; grant `n` is access token `n` and, if the server hands one out, refresh token `n`.
`faults`, fixed at the start, says whether calls may fail or lose their answers (also that of a refresh or an
exchange the server has granted: `Issue` without a `reply`), clients leave at any
await and the proxy crash anywhere; where it is FALSE only restarts between requests, revocations,
rotations and expiry happen.
Calls of the storage are one step each, which may or may not have taken effect when the caller is dropped.
A request to the server is one step as well; a crash or a drop falls before or after the server has handled it.

`Discover` succeeds if the metadata are in memory or some world lets them be discovered; `OAuthDiscovery`
says when that is.

### OAuthDiscovery

No state: a discovery sends requests and returns metadata or an error, so it is an operator of the
*world*, the challenge of the probe and the answer at each location. `Places` and `ResourceFound` are
`validate_resource_metadata` (a missing document leads to the next place, anything else decides),
`IssuerFound` the rest of `discover` (there errors lead to the next place as well), `Covers` is
`resource_is_same_or_parent`, `Cuts`, `Segments`, `Heard` and `Challenge` the parser of the challenge, written as
the loops of the code: what is known after each character, and after each segment. Paths and header
values are sequences of characters, since commas, quotes, escapes and prefixes are what the properties are
about; a host stands for scheme, host and port, and a word such as a scheme's name for one character.
`DiscoveryRight` compares the walk with a definition of its own: `OurDocument` speaks of paths as trees
(`Ancestors`), and `IssuerRight` of the three kinds of location an issuer may have, the last one only with a path,
none of which has a document before the one that is taken. `ChallengesRight` writes challenges as a server does and
compares what is read with what was written. Both are about operators and the sets `World` and `Challenges` alone.
The run checks them where they matter: `MetadataOurs` and `ChallengeRead` say them of every state in which the strategy
has metadata. What the strategy keeps of a discovery is that it succeeded, not in which world; `Discover` allows each.

### StaticToken and ToolRefresh

`at[h]` is the header that a handler is at: `CompositeAuth` collects the headers in order and evicts them in
order. `Read` is the check under the read lock, `Enter` the one under the write lock, `Resolve` the call of the
provider, under that lock. `Age` lets a value reach `DEFAULT_CACHE_TTL`. Values are numbered by the calls of
the provider. In `ToolRefresh` a request forwards with its headers and handles a 401; a refresh fetches
tools and does not look at a 401.

### ToolDiscovery

`stage[f]` follows `fetch_tools`: `server/discover`, then the modern `tools/list`, or `initialize`, `initialized`
and `tools/list` of the older protocol. `HttpChoice` and `StdioChoice` are the two decisions after the first
answer, from the class of its status, its error and its versions: the two transports differ, e.g. any
failed `server/discover` over stdio falls back to the older protocol. `seen[f]` is what the server's session or
the child was sent, `owed[f]` the requests it has not answered: over stdio the answer to `server/discover`
may come after its time was up, when another answer is awaited. A child that has died is replaced before
the next message.

### TokenStore

A call loads (reading the file once per run of the proxy), changes its copy, starts the blocking task that
empties and fills the file, waits for it and puts the copy in memory. The task (`task`) goes on when its
caller is dropped. Two tasks that overlap may leave a file that cannot be decrypted, since the longer map
leaves its end behind the shorter one. `Serial` says that a call begins when those before it are over,
the writing tasks of dropped callers included.

### Registry

`queue` is the fair lock of the map: first come, first served. `root_handler` looks up its upstream in
the condition of an `if let`, whose guard lives as long as its body, so a forwarding request (`pc =
"forward"`) keeps writers out. The steps of an edit are those between its awaits, in the order of the
code: check and registration of a creation are two locks, an update removes the old upstream before it
makes the new one, a deletion empties the store first. The store writes its file under its own lock.
`Opens` and `Closes` are `persist_json`: until it is over, the file is what it was or cut off (`Torn`), and a failure
leaves it so, is logged, and the edit goes on as a success. `Restart` rebuilds the map from the configuration and
the file, with the stored servers on top; a file that cannot be read or does not parse counts as empty. The history
variable `synced` says whether the last write or read of the file ended well, which the code does not remember.

### Serving

`Arrive` is the first half of `root_handler`: profiles are looked up before upstreams, and the request keeps
a copy (`via`) of the profile. `Lookup` refuses a call the profile does not allow, or takes the upstream
with the read lock; `Respond` is its answer, `CacheTools` what `proxy_with_filter` does with a page of
`tools/list`, first for the cache and then for the client. `PutProfile`, `DeleteProfile` and `SetServer` are the
settings API. A refresh (`job`) takes the upstream out of the map at its start and writes the cache at its
end, holding no lock between. A server stands for its configuration, and its tools are its pages.

## 3. Runs

| Run | Expected | What it shows |
|---|---|---|
| `stdio_core` | pass | Under the most hostile surroundings (clients sharing one id and leaving anywhere, half lines, a child that closes its stdin, answers twice, late or never, dies, is replaced and sends requests of its own, a reader that stops early): types, isolation, one answer, exclusive writing, clean tables, entries that leave for a reason, and nobody who waits for a running child without his line being on its way, unless a client that left inside a long line spoiled it. |
| `stdio_well_behaved` | pass | With clients that count like the proxy does and a child that keeps to the protocol: no orphans, the child is told to cancel only what the cancellation named, every exchange ends, and the bridge implements `RequestExchange`. |
| `stdio_orphan` | violation | A reader that stops while its child runs (closed stdout, or a line that is not UTF-8) leaves a deaf process: a request that registers afterwards is never woken. |
| `stdio_shared_ids` | violation | Two clients that both count from 1: the cancellation of one takes out the request of the other. |
| `oauth_core` | pass | Three requests, with every failure or with none: the lock is released on every way out, every request ends, refresh tokens stay with their client, codes with their flow, and the strategy implements `CredentialCache`; without failures the authorization is never lost and the user is asked only when the server accepts no token. Whatever is served to a discovery, the metadata it takes are the upstream's, and challenges are read as written. |
| `oauth_stale_refresh` | violation | A refresh that fails for any reason deletes a refresh token that the server still accepts. |
| `tokens_serial` | pass | Calls that do not overlap, with failing reads and writes, dropped callers and restarts anywhere: what is stored stays, and file and memory keep together. |
| `tokens_overlap` | violation | Two upstreams that store at once: the second saves a copy made before the first one's value was in it, and a stored token is gone. |
| `registry_core` | pass | Three edits of two names, one of them configured, with a request, clients that leave, writes and reads of the file that fail, and restarts: map and store agree in the end, requests keep their server, what is stored changes by its own edits or by a restart after a failed or interrupted write or read of the file only, everything ends. |
| `serving` | pass | Two requests, a refresh and edits of two names that may be upstreams, profiles or both: a profile confines what is called and shown, list and calls agree, the cache gets whole pages, and only a refresh that an edit overtook leaves stale tools. |
| `tool_refresh` | pass | A refresh and a request share two headers, over HTTP or stdio: each header implements `CredentialCache`, rejected values are gone, a fetch implements `Handshake` with a server that answers anything, late or never, and over stdio it ends. |
| `registry_config` | violation | A PUT on the name of a configured upstream replaces it, although such upstreams are documented as not editable. |

The five violations are findings: what a comment promises and what the code does are quoted in
`PROJECT.json`.

**Bounds, and why they are enough.**

* stdio: one plain request, one stream, one canceller, two processes, two ids, a pipe of one line, up to
  two lines of the children. Each property is about two exchanges and one replacement of the process: a
  second process is what a late reader or guard can hit, a second line what a second answer needs, and a
  pipe of one line makes writers wait. The proofs remove all these bounds for the safety properties.
  `MaxSpawn`, `MaxId` and `MaxSay` bound counters in guards; `StatusMayFail` (a failing `try_wait`) is FALSE in
  the runs and free in the proofs. In `stdio_core` the line of one request exceeds the stdin buffer (`Large`), so
  that a client may tear it. Its requests share one client id that no upstream id equals, which is the hardest case
  for isolation; `stdio_well_behaved` has the ids 1 and 2, which are also upstream ids, perhaps another request's:
  the hardest case for `CancelsNamed`.
* OAuth: three requests, one that fetches, one queued behind it, one whose 401 or disconnection comes in
  between. Every request calls `ensure_token` once, so nothing else bounds the numbers of clients, grants
  and flows. `oauth_stale_refresh` needs two requests, with a configured client.
* Tokens: three calls about two entries; a third call saves after a dropped or failed one. Two suffice
  for the lost update.
* Registry: three edits make a sequence of creation, change and deletion of one name, or two of one and one
  of the other. One request suffices to keep the lock, to be queued behind a writer and to be before it;
  with two, the run is too long to be repeated often. `Serial` is TRUE in the run: the edits of one
  *name* do not overlap, those of different names do. With FALSE, two creations of one name pass
  the check together and map and store end with different ones (`Agree` fails): the code has this race,
  but nothing in the repository says that it has not, so it is listed as a hazard and not as a finding.

* OAuth discovery: the upstream's path has two segments, the second of two equal characters, and documents
  declare every path of up to four characters over `/`, `a` and `b`: all ways to be equal, above, below, beside
  or alike only in the beginning. The issuer has a path, so that all three of its locations are tried, each
  with every answer. Challenges are one or two with two parameters, with values of up to two characters
  among a letter, space, comma, quote and backslash.
* Serving: one server with two pages and one with one page, so that pages are told from whole lists; one
  name that starts as an upstream and one that does not, both free to become profiles; one version of a
  profile at a time besides its deletion, with a tool for one upstream and none for the other. Nothing is
  counted, so there is no bound besides the sets.
* Tool refresh: two headers are what order and independence of evictions need; a refresh and a request
  are what races for them. Two older versions make a newest one, and one death of the child (`MaxDeaths`)
  can hit every stage.

Deadlock is checked in every run but `tool_refresh`, where everybody simply ends; elsewhere, where all
actors have ended, `Finished` stutters (in `serving` nothing ends).

**Fairness.** All of it is weak fairness of what the runtime or the stated environment does, never of what
a client or a fault may do.

* `StdioUpstream!FairSpec`: tokio polls every handler, guard and reader that can go on, the timer of plain
  requests fires, and the child reads its stdin. Nothing makes a child answer, exit or a client leave.
* `OAuthAuth!FairSpec`: some handler goes on while one can, server and storage answer (perhaps with an
  error), and the user finishes the browser tabs. The last is the assumption `RequestsEnd` depends on: the listener has no
  timeout in the code.
* `Registry!FairSpec`: handlers go on, and every forwarded request is answered or given up by its client.
  `AllEnd` fails without it, because the request keeps the lock.
* `ToolRefresh!FairSpec`: handlers go on, credential providers answer or fail (a command that hangs is not
  in the model), and the timers of stdio requests fire. Neither an HTTP server nor a child is relied on, so
  `RefreshEnds` is stated for stdio: the HTTP client has no timeout, and a fetch over it may wait for ever.
* `Serving` states no fairness: its properties are about safety, and `Registry` has the waiting.

## 4. Proofs

**StdioUpstreamProofs** (for any requests, cancellers, ids, processes, pipe sizes). The inductive
invariant is built in stages, each proved from those before it: `Typed` (types, the mutex, which stage
has an id and a process), `Distinct` (no two requests have one upstream id: the counter only grows),
`Filed` (an entry is under its request's id in its process's table), `Counted`, `Piped` (what a process
has read and prints belongs to its own requests), `Routed` (what is in a channel belongs to the request
behind it, and an answer is last), `Cleaned`. None of the properties is inductive by itself: that an answer
goes to the right client needs that its id was taken once, filed under that client, and read by that
process. Theorems: `TypeCorrect`, `ExclusiveWriting`, `Isolation`, `SingleAnswer`, `CleanEnd`,
`LeavesForAReason`; `EveryWaiterWoken`, under the assumption that readers end only after their process
(`~ReaderMayStop`), where `Attended` joins the invariant; and `Refinement`, the implementation of
`RequestExchange`, under the assumption that the child sends no requests of its own (`~ServerCalls`).
Two more assume nothing. `CancelsTheNamed`, whatever ids clients choose: the upstream id a canceller has taken
belongs to a request with the client id it named, and stays that request's, since the counter gives out none twice,
whatever ends or registers before the line is written; an id that is passed on untranslated is the one that was
named. That this is all one can say, and that the request may be another client's, is what the run
`stdio_shared_ids` shows. `WaitersHeard`: `Unsent` says that the line of a request still writing is in no pipe, and
`TornBy` that a pipe ends in a half line only if a client left inside a line that is too long for the
buffer; with `WaitersWereSent` they are inductive over failed writes, a deaf or exited child and restarts.

**OAuthAuthProofs** (any requests, with or without failures and a configured client). `Inv` adds to the
types `Registered` (every grant the server issued belongs to one client, the configured or the stored one,
because a client is stored before it is used), `Staged` (what `ensure_token` has established at each
stage), `Answered` (a new grant is newer than every token in use) and `OwnCode`. Theorems: `TypeCorrect`,
`RefreshTokensOfClient`, `CodesOfOwnFlow`, and `ImplementsCache`, the refinement of `CredentialCache`.
Without failures (`~faults`) there is more: `Kept` says where the one refresh token is that the server may
still accept, at each stage: in the answer that is about to be stored, else in the storage, and also in
memory once it was loaded; and that the server accepts none when the user is asked. `NoLoss` and
`AskedOnlyIfNeeded` follow (`AuthorizationKept`, `UserAskedOnlyIfNeeded`); neither is inductive, since both
look at the storage only while no request is between a grant and its storing.

**OAuthDiscoveryProofs** (every world, paths and headers of every length). `FindsOurs`: the code's cutting of
slashes, its prefix test with the slash that must follow, and its walk through the locations find what
`OurDocument` says, with paths as trees, and nothing else; `IssuerFoundRight` says of the walk through the
issuer's locations that it finds what `IssuerRight` says. `TrimEndIs`, `BeginsIs`, `CanonicalTrimmed`,
`ParentIsAncestor` and `CoversIs` relate the two views of a path; `LeastIs` and `GreatestIs` rest on the
well-foundedness of `<` on the natural numbers. `UrlAssumption` says that the resource of a document is a URL
(what does not parse is an error of the world) and that the path of an absolute URL begins with a slash.

`ChallengesAsWritten`: whatever challenges a server writes, the code hears the location and the scopes that
their Bearer challenges give last. The argument follows the parser.
* A written header is 2n parts with commas between them, two of each of n challenges (`WrittenParts`; `Bounds` has
  the commas' places).
* The scan for commas is outside quotes at the end of each part, because quotes and backslashes are in values
  only, where they are escaped (`ValueScanned`, `PartScanned`, `WrittenScanned`). So the segments are the parts
  (`WrittenSegments`).
* A part, trimmed, is heard as its key and its value, with the scheme if it has one (`PartTrimmed`,
  `HeardSegment`). An escaped value comes back: `Marks` says where in the text each of its characters ends,
  and that the loop that reads it is never in the middle of an escape there (`UnescapedBack`).
* Part by part, what is heard is what the parameters so far say (`Told`, `ToldStep`).

The loops are recursive functions, written over the length of their input. `Recursion` shows that the function of
such an equation exists, and `UpTo` is induction up to a bound over a set of numbers; the library's theorems
take an operator instead and cannot be used. `ChallengesAssumption` says that the words of challenges have none of
the characters that separate them, as RFC 7235 tokens have none, and that no character is what stands
for an absent value.

**TokenStoreProofs**. `TypeCorrect` for any calls. For calls that do not overlap (`Serial`), the invariant
adds `Alone`, `Based` (the map a call writes is the one in memory but for its own entry), `Linked` (where
file and memory differ, the file holds the map of a call whose caller left, or which is about to save)
and `Excused` (a cut file has its call). Theorems: `CacheKept` and `Persistence`.

**ToolRefreshProofs**, on `StaticToken` (any handlers, any number of headers). `RejectedGone` is not inductive: it needs to
know that headers already evicted hold none of the values the handler was sent with while it is at the
next (`Gone`), which values a handler has at each stage (`Has`), and that what is resolved later is newer than
every value before, so that none comes back. Theorems: `TypeCorrect` with the locks, `RejectedValuesGone`,
and `ImplementsCaches`, the refinement of one `CredentialCache` for each header.

**ToolDiscoveryProofs** (any fetches, versions and number of children that die). `ChoiceRight` says what the
decision after the first answer may be, for every answer over either transport. `Agreed` is the version
at each stage, and `InSession` what the present session or child has been sent and what it may still answer:
after `initialize` nothing comes before its answer, which takes that from `owed`, and only a death gives a shorter
history. Theorems: `TypeCorrect`, `ListedOnlyInSession`, `ImplementsHandshake`.

**ToolRefreshProofs**, on `ToolRefresh`. Every step of the composition is a step, or none, of `StaticToken` (`StepOfTokens`) and of
`ToolDiscovery` (`StepOfFetches`), so it implements both, and their theorems hold of it: `RefreshRejectedGone`,
`RefreshIsCache`, `RefreshIsHandshake`, `RefreshListedInSession`. `RefreshTypeCorrect` adds what only the composition
has: a fetch is under way only for a refresh that has its headers.

**RegistryProofs** (any names, edits and requests; clients that leave and restarts anywhere). `Lined` says that the
queue of the lock holds exactly those who wait, each once; `ServedWhileLive` is inductive with it and with
`Placed` (who can be where): while a request forwards it is first in the queue's order, so no writer
gets by. `FileKept` says that the file holds the store whenever `synced` says so. Theorems: `TypeCorrect`,
`NoServerGoesUnderARequest`, `AddedServersStay`; and `MapAgreesWithStore`, for edits of a name that follow
each other (`Serial`). Its `SerialInv` has `Alone` (one edit of a name at a time) and, for each name none of whose
edits was cut short, `Matched`: how map and store may differ at each step of the edit under way. That a
restart in the middle of another name's edit repairs the map, and that a dropped handler leaves its name out
of the promise, is what makes it longer than the others.

**ServingProofs** (any names, servers, profiles, requests and refreshes). `Inv` has, for each request, `Targeted`,
`Admitted` (a request past `Lookup` was let through by the copy of the profile it still has, whatever became
of the profile) and `Answered` (its page is one its server has, and what it shows is what the copy leaves of
it), and that the cache has pages (`CachedListed`). Theorems: `TypeCorrect`, `ProfilesConfine`,
`ListsAgreeWithCalls`, `CacheIsWhole` and the action property `StaleByLateRefresh`, which needs that the server
of a request stays in the map. `ServingAssumption` says that a server lists at least one page, perhaps
empty, as an answer to `tools/list` is.

The invariants were checked by TLC before they were proved. The assumptions are those of the ASSUMEs
of the modules (disjoint sets, types of the constants), which every run evaluates. `DiscoveryAssumption`
says besides that a set of versions of the older protocol has its newest among them, as finite sets of
numbers do; and that no version, nor set of versions, is the value `Unknown`.

`FindsOurs` and `ChallengesAsWritten` are about the operators, with no behaviour in them; `MetadataOurs` and
`ChallengeRead` follow from them in every state, so they are not stated again as theorems of the strategy.

**Only model-checked**: liveness (`CallsEnd`, `StreamsEnd`, `RequestsEnd`, `AllEnd`, `RefreshEnds`), since temporal
reasoning under fairness is out of the prover's reach.

## 5. What is not modelled, and why

* Contents: JSON-RPC payloads, headers, HTTP status codes beyond 401, cryptography and PKCE. The models keep
  who gets which message and which token, not what is in it.
* stdio: stderr, the framing of events, and notifications of the child that name neither a subscription
  nor a progress token of a pending request, which the reader drops. A plain notification of a client
  behaves like a canceller whose target is not pending. The reader's lookups for notifications
  (`stdio_upstream.rs:212` and `220`) are written without taking the lock of the table; they are modelled
  as one read of it.
* OAuth: the server keeps the clients it has registered. An answer has one `WWW-Authenticate` header, and the
  case of scheme names and keys, which the code ignores, is fixed. A world stays as it is during one
  discovery.
* Static tokens: that a provider returns the same secret again after an eviction is not told from a new
  one. A 401 that a refresh of the tools gets evicts nothing, in the code and in the model.
* Tool discovery: the tools themselves, and the pages after the first, which the code does not ask for. A server
  may answer `initialize` with any older version or with one the proxy does not know (`Unknown`); that it names the
  modern one there is left out. The
  child of a fetch is taken to be its own; `StdioUpstream` has what happens when exchanges share one.
* Serving: the filter and the refusal look into single JSON-RPC messages in JSON or event streams. A batch,
  or an answer of another type, passes unfiltered, and `Confined` says nothing of it. The cache holds one
  page, the last one seen; `CachedWhole` allows that. A refresh that a deletion overtakes leaves tools of a
  server that is gone, until its name is refreshed again; `StaleOnlyByLateRefresh` says that this is the only
  way.
* HTTP upstream: of `forward` only the kinds of outcome; the copying of headers and bodies keeps no state.
* Configuration: `load` and `validate` run before anything else; `Registry` and `Serving` start from a map of
  names. That some prefixes pass `validate` and are never routed to is listed as a hazard only.
* OAuth over TokenStore: OAuthAuth takes a storage whose calls are atomic. TokenStore shows what that
  stands on, and where that is more than the code has. `Persistence` holds for calls that begin when those before
  them are over, the blocking writes of dropped callers included (`Serial`). Within one upstream the write lock
  makes the calls of the strategy follow each other, but it is released when a caller is dropped while its
  blocking write goes on, so the next call may overlap that write; a dropped caller's value may become visible
  only after a restart (in OAuthAuth it is visible at once or never); and the calls of different upstreams do overlap, which
  `tokens_overlap` is about.
* Registry: the clients of stored servers are taken to be made at a restart as they were when they were added
  (`main.rs:192` logs a failure and leaves the server out). The file of the profiles is written by the same code and not modelled again.
* Credential providers, the keychain, logging, the settings page and the command line: input and output
  without state of their own.

**Hazards that no property covers.** Some properties hold under an assumption that sets a hazard aside; the
hazard is then listed without them, and nothing in the repository promises that it cannot bite.

* `Agree`: the edits of a name are made one after the other, and it says nothing of a name whose last edit was
  cut short.
* `AllEnd`: every forwarded request is answered or given up; an HTTP forward has no time limit of its own.
* `RefreshEnds`: over stdio only, for the same reason.
* `KeepsPromise`: the child sends no requests. One with the id of a pending request is taken for its answer.
* `NoLoss`: no call fails and nobody leaves. Between a rotation and its storing a crash loses the new token.
* `NoEntryLeft`: requests that were answered or cancelled. A time-out, a disconnection or a failed write leaves
  the entry in the table until its process ends.

## 6. Plan

1. The registry as one atomic map, which `Registry` implements where edits of a name follow each other.
2. `Routing`: which prefixes `validate` accepts although no request can be routed to them, as operators over
   bounded inputs, beside `Serving`.
