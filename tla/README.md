# cloud-file-server in TLA+

A verification project for the Go server in `apps/ftp`: FTP and SFTP access to
a Tencent COS bucket, with accounts in PostgreSQL, an audit trail, and an admin
HTTP API. Each module is a translation of the source at the lines
`PROJECT.json` names ("map"); TLC checks the modules on small instances, TLAPS
proves the main safety results for every value of the constants. Paths below
are relative to `apps/ftp/internal` unless they start with `cmd/` or `docs/`.

## 1. Inventory

| Part | State | Operations | Interacts with | What makes it correct |
|---|---|---|---|---|
| Audit log, `audit/audit.go` | closed flag, channel of 1024, the writer's batch, its transaction | `Log`, `run`, `writeBatch`, `Close` | called by every other part; writes `audit_events` | order per caller; nothing lost without a report; whole batches; `Close` waits for what was accepted; the writer never stops early |
| Lockout, `auth/auth.go` | per name: times of recent failures | `Allow`, `RecordFailure`, `Reset` | one instance shared by FTP and SFTP | guesses are bounded although check and record are separate calls; lockouts end; only the password forgives |
| Authentication, `core/authenticator.go` | none of its own | `Authenticate` | lockout, `ftp_users`, audit | every password attempt ends in one verdict and leaves an event |
| FTP server, `ftpserver/server.go` | per connection: identity, driver; one TLS configuration for all | `AuthUser`, `ClientDisconnected`, `GetTLSConfig`, `Start`, `Stop` | authenticator, storage, audit; driven by ftpserverlib | a session only for an entitled account; LOGOUT only after a LOGIN; intermediates in order, the whole chain if the file is in order, the same for every connection |
| SFTP server, `sftpserver/server.go` | per connection: user name, channels | password and key callbacks, `handleConn`, `serveSFTP`, `Stop` | authenticator, `LookupUser`, storage, audit; driven by x/crypto/ssh and pkg/sftp | the same |
| Accounts, `db/queries.go` | table `ftp_users` | one statement each | authentication, admin API | a deleted or disabled account is never let in; a name has one row for ever |
| Credential chain, `cos/creds.go` | cached credentials, expiry, mutex | `Get`, `Invalidate`, `OnRefresh` | STS, environment, audit | one resolution at a time; nothing expired is handed out |
| COS client, `cos/client.go`, `cos/fs.go` | SDK handle, the credentials it signs with | `refresh`, `do`, six object operations | chain, COS; shared by all sessions and the admin API | no request through a nil handle or with an expired session; every operation ends |
| File layer, `fsdriver/cos.go`, `fsdriver/audit.go`, `fsdriver/sftp_handlers.go` | per upload: buffer; per handle: byte count | open, list, upload, remove, rename, mkdir | COS client, audit | uploads arrive in place or not at all; a rename loses nothing; events tell the truth |
| Admin user API, `admin/users_api.go` | none | create, update, reset, delete, set key | `ftp_users`, COS, audit | an acknowledged value stays until it is asked for again; no false event; a deletion is final; no account without its folder |
| Admin sessions, `admin/middleware.go`, `oidc_api.go`, `account_api.go` | token table; in the browser two cookies | `Issue`, `Authenticate` (sliding expiry), `Revoke`, OIDC callback | identity provider, audit | a revoked or expired token never works again; an idle one expires; the role is the one granted |
| Admin queries, `admin/files.go`, `folders_api.go`, `audit_api.go`, `api.go` | none | downloads, listings, SELECTs | storage, database, audit | a listing is what one moment held, each entry once; paging neither skips nor repeats; a download is logged exactly when it was served |
| Process, `cmd/ftp-server/main.go` | the servers, listeners, accept loops, pool | start, signal, shutdown, deferred calls | everything | the audit writer has its pool; what was accepted is settled at the exit; nobody gets in late; a signal always ends the process |

### What is hard here

- **Interleavings.** A connection is a goroutine. `Log` reads a flag and then
  sends; `Allow` and `RecordFailure` surround a query and a bcrypt comparison;
  `refresh` releases the client's mutex before the request is signed; the SFTP
  library calls `WriteAt` from several workers; the statements of two admin
  requests on one row alternate; sessions run on while `run` unwinds.
- **Stale reads.** The account row is read once per login, and once per update.
  The SDK handle may be replaced between an operation's refresh and its request,
  an object between `Stat` and `Open`, the certificate file at any time.
- **Partial failure.** A batch of inserts, a copy and delete, an upload sent at
  the very end, a folder and then a row, an update and then a second read: each
  step can fail, or be done and reported failed.
- **Time.** Lockout windows, session expiry that every request pushes on,
  tickers, the deadlines of `Close` and of the shutdown.
- **Limits.** The channel of the audit log, the failures kept per name, the
  1000 keys of a listing, the pages it is handed over in.

`PROJECT.json` lists these as hazards, each at its line, with the properties
that would catch it, or the reason why none does.

## 2. Modules

| Module | Models | Role |
|---|---|---|
| `AuditTrail` | what the audit log promises: accepted events leave in order, in batches stored whole or lost whole | abstract specification |
| `AuditLogger` | `audit.Logger` | implements `AuditTrail` by the mapping `pending = buf \o ch`, `table = rows`, `up = alive` |
| `AuditLogger_proofs` | | theorems, refinement included |
| `Lockout` | the lockout's three operations on one name's list of failures | operators |
| `Login` | authentication and the life of a session on both servers, with the admin API's statements running in between | extends `Lockout` |
| `Login_proofs` | | theorems |
| `CosClient` | the credential chain and the shared COS client | state machine |
| `CosClient_proofs` | | theorems |
| `FileStore` | what the file driver promises: an operation's effects on the store come in order, each once, before its answer, and all of them before an ok | abstract specification |
| `CosFS` | file operations of one user's sessions on the bucket | implements `FileStore` by the mapping `store = objects`, `marks = folders`, `task =` the operation and what its place leaves to do, `answer = told` |
| `CosFS_proofs` | | theorems, refinement included |
| `TlsConfig` | the certificate chain: `GetTLSConfig`, `loadCertChain`, `orderChain` | state machine |
| `TlsConfig_proofs` | | theorems |
| `AdminSession` | what a session of the admin API promises: granted once, live, ended for good; requests admitted on a live token of the right role | abstract specification |
| `AdminSessions` | cookies, the OIDC flow, the token table, the middleware | implements `AdminSession` |
| `AdminUsers` | the five handlers that change accounts, statement by statement | state machine |
| `AdminUsers_proofs` | | theorems |
| `Lifecycle` | `run`, from start to exit, with the accept loops, the sessions and the audit writer | state machine, composes the parts |
| `Lifecycle_proofs` | | theorems |
| `Browse` | listings and downloads of a bucket that changes meanwhile | state machine |
| `Admin_proofs` | | theorems of `AdminSessions`, refinement included, and of `Browse` |
| `MC...` | small instances for TLC | |

`Login` composes the authenticator, both servers, the lockout and the account
table, because none of them has a property worth stating alone. `Lifecycle`
composes the listeners, the sessions, the logger and the pool at the level at
which they start and stop each other. Elsewhere the audit log is composed with
the others through their events only: `Login`, `CosFS`, `AdminUsers` and
`Browse` say what is handed to `Log`, `AuditLogger` what becomes of it.
`AdminSessions` says which requests get to the handlers of `AdminUsers`, whose
statements `Login` runs between the steps of an authentication.

### AuditLogger

One action per atomic piece of the code: `LogCheck` is the read of the closed
flag, `LogSend`, `LogDrop` and `LogPanic` are the outcomes of the `select`
(sent, dropped because full, send on a closed channel); `Receive`, `Tick` and
`Drained` are the cases of the writer's `select`; `Begin`, `Exec`, `Commit` and
`WriteFails` are the transaction; `CommitUnacknowledged` is a commit the
database has done and the driver reports as failed; `CloseSwap`,
`CloseChannel`, `CloseReturns`, `CloseExpires` are `Close`. A panic in a
handler of net/http is recovered and kills only its goroutine, elsewhere it
ends the process (`Crash` also covers a kill). An event is `<<caller, n>>`.

### Login and Lockout

`pc` names the place of a connection's goroutine: `allow`, `lookup`, `verify`,
`lastlogin` inside `Authenticate`; `authenticated` when the servers take over;
`marked` for an FTP connection that has an identity and no driver; `pubkey`,
`offered`, `handshaken` for SSH; `session`. Between any two of them the admin
API may execute a statement on the row (`MaxEdits` bounds how many). A failure
is its age in ticks, up to the window, where it stops counting. `said` is the
set of audit events of the attempt and its session. `okSeen` is a history
variable: the attempt would have been right at some moment since it began.
Two facts of the libraries are taken from how the code relies on them: a
failed `AuthUser` ends the FTP connection, and x/crypto/ssh asks the key
callback before the client has proved that it owns the key. A second login on
an FTP connection that already has a session is left out.

### CosClient

An operation is `get` (`Chain.Get` under the chain's mutex; `resolving` is the
part that keeps the mutex while the sources are asked), `notify`, `seed`
(`refresh` under the client's mutex), `call` (the request, signed with whatever
the client holds then), and for a refused first attempt `invalidate` and once
more. Credentials are numbers: 0 the static pair, n the n-th STS session. `Tick`
is the clock. A request that carries a body may have it drained before it is
refused. The client's SDK pointer is read without a lock; Go reads a pointer
whole, so that is a read of the old or the new handle, and the model's `call`
step makes the same choice by its place in the interleaving.

### CosFS

`objects` and `folders` are the keys `root/name` and `root/name/`. An object is
a sequence of pieces `<<operation, chunk>>`. A request that changes the bucket
is one step that is done and reported, done and not reported, or not done
(`Request`). FTP writes go through `auditFile.Write` one after the other; SFTP
write requests are dispatched to `Workers` workers of the library, and each
`WriteAt` checks the offset and reserves the place (`WriteAt`) before the bytes
are copied (`CopyChunk`). Nothing in the code orders the copy with another
worker's growth of the same `bytes.Buffer`; the model lets the chunk be lost in
exactly that case. `Put` may store the empty object, as `CosClient` shows.
`base` and `alone` are history: the object when the operation began, and
whether another session has changed the operation's names since. Which calls
the two libraries make (SFTP reads with `Open`, FTP with `OpenFile`; `REST`
becomes `Seek`; a lost connection closes its handles after the writes in
progress) is external. Not in the model: folders with contents, the text of a
listing, the placeholder each `Mount` puts at the root.

### TlsConfig

Connections call `GetTLSConfig`; one `Enter`s the `sync.Once`, the others wait
at `pc = "once"` and are answered with what it left. The load is `Read`,
`Start` (where `orderChain`'s walk begins), one `Emit` per round of its loop,
`WalkEnds`, `Key`. A certificate is its subject, its issuer and whether it
parses. When nothing that parses follows the leaf, `parsed[start]` is out of
range and `StartPanics`: the `Once` counts as done with neither a configuration
nor an error, so every later call returns both nil; whether the connection
survives depends on the library. `Rotate` replaces the file.

### AdminSession and AdminSessions

One person at one browser: tabs that start logins and overwrite each other's
state cookie, which also expires of itself after its `MaxAge` of 300 s
(`StateExpires`), requests that carry whatever the jar holds when they are sent.
`Authorize`, `Callback`, `ExchangeFails`, `Issue`, `LoggedIn` are the OIDC flow
and its answers; the groups in the ID token are any. `Authenticate` is the
locked section (look up, extend); `Permitted` is the table of routes with their
middleware; `Logout` stands before no middleware. A session's `left` is its
expiry minus now, in ticks: `Alive` tests it, `Tick` counts it down, an expired
entry stays in the table as in the code. The refinement maps a token to
unissued, live or ended, and a request between middleware and answer to one
that is served: `Tick` may end several tokens at once, which is `End(ts)`.

### AdminUsers

A request is `put` and `insert` (create) or `read` and `write`, and `reread`
where the handler reads the row again before it answers. A statement may fail
before or after it took effect (`ExecFails`). `cosClient` is chosen in `Init`:
with local storage there is none, and a create goes on without a folder
(`NoPut`); `FolderFirst` speaks of a server that has one. `flag` stands for `ftp_enabled` and
`sftp_enabled`, which a body may leave out. `did` says whether the request's
statement changed its row, `ok` that it was answered with success and its event
logged. For `AcknowledgedKept` one column is watched (`col`, any of them, chosen
in `Init`): `legit` are the values that requests in flight may still give it,
one only once a request that was alone at it has been acknowledged.

### Lifecycle

`stage` is the next line of `run`; a failing step returns, and `Unwind` says
which deferred call is next. A touchpoint's listener and its accept loop are two
things (`listener`, `loop`), and so is a connection taken by `Accept` and not
yet started (`taken`). The admin listener's goroutine may not have listened yet
when the shutdown begins, may fail at any time and reports to `adminErr`. A
session is one connection, uses the pool now and then and logs one event, in
the same two steps as in `AuditLogger`. A panic in `Log` ends the process unless
the handler's library recovers it. The seed, the migrations and the storage's
`Init` are steps that succeed or fail.

### Browse

The bucket is one folder: below a name there may be an object, a placeholder
(`name/`) and deeper keys. COS answers a listing with any sound mix of prefixes
and contents (`Due` is the least), cut after `MaxKeys`; `List` is the loop of
`Client.List`. `Readdir`, `ListAt` and `Encode` hand a listing to an FTP, an SFTP
and an admin client, in pages of any size. A download is `Stat`, `Open`, a
`Copy` per chunk and its end. `Change` is everybody else.

## 3. Runs

| Run | Instance | Shows |
|---|---|---|
| `audit_logger` | 2 callers (one recovering), 2 closers (one with a deadline), channel 2, batch 2, 2 events each | no event dropped or lost without a report, the channel closed once, `Close` waits for what was accepted and ends, and the logger implements `AuditTrail`, liveness included: order, whole batches and eventual settlement are that module's |
| `login` | 1 FTP and 1 SFTP connection, 1 account, 2 passwords, 2 keys, limit 2, window 2, 1 edit | lockout bound, no stale login, faithful events, forgiveness only by the password, end of every lockout |
| `cos_client` | 2 operations at a time, TTL 3, margin 2, slack 1, 2 STS sessions, 1 refusal, all four boot configurations | no nil client, no expired signature, single flight, every operation ends |
| `cos_fs` | 1 FTP and 1 SFTP session, 2 names, 2 workers, 2 chunks, 2 operations | chunks in place, renames lose nothing, events that agree with what the client was told, refinement of `FileStore`, every operation whose handle is closed ends |
| `tls_config` | 2 connections, 90 files of up to three certificates after the leaf, 1 replacement | what is emitted after the leaf is linked, a file in order is served whole, one configuration for all, every call returns |
| `admin_sessions` | 1 tab, 2 tokens, 2 requests, TTL 2 | a revoked token stays revoked, an idle session ends, refinement of `AdminSession` |
| `admin_users` | 2 requests at a time, 1 name, 6 bodies, with and without a COS client | acknowledged values stay, no false event, deletion is final, folder before account |
| `lifecycle` | 2 sessions, any of the 3 listeners, touchpoints on or off | the writer has its pool, everything settled at the exit, nobody late, a signal ends the process |
| `browse` | 1 reader, 2 names, 7 kinds of children, 2 contents, 5 keys per answer, pages of up to 2 | downloads logged exactly when served, listings complete and without repetition, pages whole |

The other runs each check one sentence of the documentation or a comment that
the code does not keep:

| Run | Sentence | What TLC shows |
|---|---|---|
| `login_deleted_user` | FR-UI-05, `docs/spec.md:78` | commands of a session run after its account is deleted |
| `cos_flushed_whole` | comment, `fsdriver/cos.go:222` | a retried upload stores an empty object and reports success |
| `cos_fs_upload_audited` | FR-AUD-03, `docs/spec.md:91` | a failed upload is logged as a success |

### Bounds, and why they are enough

* A channel and a batch of 2 have the empty, partial and full cases, and 4
  events from 2 callers overfill both. Two closers race for the swap, and only
  one has a deadline, as `main`'s `Close(context.Background())` has none.
- A limit of 2 lets two concurrent attempts overshoot it; a window of 2 lets
  failures of different ages be forgotten one by one. One edit suffices: every
  property relates an attempt to one change of the row, and proofs cover more.
- TTL 3 over margin 2 leaves one tick of use, then the critical part of a
  session's life; two sessions are an old and a new one.
- Two operations interleave in every way; more would only repeat them in other
  places. Two names are a source and a target; two chunks can overtake each
  other; two workers can meet in the buffer.
- Three certificates after the leaf are enough for a loop, a repetition, a
  wrong order and a root in any place. A file replaced once differs from what
  was loaded.
- Two tokens are an old and a new login. With a TTL of 2 a session may be used
  when it is half over, so an extension really pushes its end on, and expiry,
  extension and revocation come in every order. One tab: the cookie of its login
  may expire, and tabs that overwrite each other's are left to the proofs, which
  are for any number of tabs.
- Two requests on one row alternate in every way, and any number of them follow
  each other: nothing bounds `admin_users` but the number at a time.
- Two sessions are one the shutdown waits for and one it does not, or one on
  each side of the closing of the channel.
- Up to six keys with 5 per answer are listings that are and are not cut short;
  pages of 1 and 2 end before, at and after the last entry. Readers share
  nothing but the bucket, which `Change` changes at any time.

`CHECK_DEADLOCK FALSE` is set where an instance stops legitimately: events are
logged, the logger is closed or the process is gone, the bounded edits,
operations and logins are used up, every connection has ended. `admin_users`
and `browse` never stop, and are checked for deadlock.

### Fairness

* `AuditLogger`: weak fairness of the writer (a goroutine, its ticker, and a
  database call that returns one way or another) and of the steps of a started
  `Close`. Callers are under no fairness.
- `Login`: weak fairness of the clock and of the steps inside `Authenticate`,
  whose query has a deadline of 3 s. Clients are under none.
- `CosClient`: weak fairness of an operation's local steps and of the answers
  of STS and COS (the COS client times out after 60 s; the STS call relies on
  the transport's own limits, as `http.DefaultClient` has no timeout: if it
  never returned, `OperationsEnd` would fail for everybody, since the mutex is
  held). Strong fairness of taking the chain's mutex: Go's mutex hands itself
  to a starved waiter.
- `TlsConfig`: weak fairness of the goroutine inside of `GetTLSConfig`, which
  waits for local files and the `Once` only. Nobody has to call.
- `AdminSessions`: weak fairness of the clock and of each request's handler.
  Nobody has to send, to log in or to log out.
- `Lifecycle`: weak fairness of `run`'s calls, of an accept loop that holds a
  connection or has a closed listener, of the audit writer, and of queries that
  end (the pool's connections are closed by their contexts' deadlines or the
  database's answer). Sessions are under none: they may stay for ever.
- `AdminUsers` and `Browse` are safety only.
- `CosFS`: weak fairness of the steps the server does of itself once it was
  asked: requests to COS, which time out after 60 s, the workers, the event.
  Nobody has to write on or to close a handle: FTP connections have an
  `IdleTimeout` (`ftpserver/server.go:110-112`), but `sftpserver/server.go:141-225`
  sets no deadline, keepalive or idle timeout, so an SFTP handle may stay open for
  ever. `OperationsEnd` therefore has the closing of handles as its hypothesis.

## 4. Proofs

All are for any values of the constants that satisfy the ASSUMEs of the module.

| Theorem | Property | Rests on |
|---|---|---|
| `AuditLogger_proofs!Invariance` | `IInv` | three facts: Init, every action, consequences |
| `LossReported`, `CloseSettles`, `NoDoubleClose` | `NoSilentLoss`, `CloseMeansSettled`, `ClosedOnce`, the invariants of run `audit_logger` | `Invariance` |
| `TypeCorrect`, `OrderKept`, `BatchesWhole` | `TypeOK`, `PerCallerOrder`, `WholeBatches` | `Invariance` |
| `RefinesTrail` | `Trail!SafeSpec` | each action is a step of `AuditTrail` or a stutter |
| `Login_proofs!LockoutBounded`, `TypeCorrect`, `EntitledLogin` | `LockoutBound`, `TypeOK`, `NoStaleLogin` | `Typed` |
| `Login_proofs!EventsFaithful` | `AuditFaithful` | `Typed`, `Entitled` |
| `Login_proofs!ProofForgives` | `ForgivenByProof` | `Typed`, and a lemma on `Pruned` |
| `CosFS_proofs!TypeCorrect`, `PlacesKept` | `TypeOK`, `OffsetsKept` | `Typed` |
| `CosFS_proofs!RefinesStore` | `ImplementsStore` | `Typed`; each action is a step of `FileStore` or a stutter |
| `CosFS_proofs!RenameSafe`, `EventTrue` | `RenameKeeps`, `EventAgrees` | `Typed`, `Renamed`, `Logged` |
| `CosClient_proofs!TypeCorrect`, `OneFlight`, `ClientReady`, `SignedInTime` | the invariants of run `cos_client` | `Invariance` |
| `TlsConfig_proofs!Linked`, `ServedWhole`, `SameForAll` | `ChainLinked`, `WholeChainServed`, `OneConfig` | `Invariance` |
| `Admin_proofs!LogoutFinal` | `LogoutSticks` | `SessionsInvariance` |
| `Admin_proofs!RefinesSession` | `ImplementsSession` | each action is a step of `AdminSession` or a stutter |
| `AdminUsers_proofs!KeptForGood`, `EventsAreTrue`, `DeletedForGood`, `FolderBefore` | `AcknowledgedKept`, `EventsTrue`, `DeletedIsFinal`, `FolderFirst` | `Invariance` |
| `Admin_proofs!BrowseTypeCorrect`, `DownloadsLogged`, `ListingsTrue`, `PagesTrue` | the four invariants of run `browse` | `BrowseInv`, and lemmas on what `Arranged` returns |
| `Lifecycle_proofs!PoolOutlives`, `ExitSettled`, `NothingLate` | `WriterHasPool`, `SettledAtExit`, `NoLateSession` | `Invariance` |

The type invariants of `AuditLogger`, `CosFS`, `TlsConfig`, `AdminSessions`, `AdminUsers` and
`Lifecycle` are proved and not checked by a run of their own.

*Audit log.* The properties are not inductive. `IInv` adds: where the writer is
decides what is in the batch and the transaction (`WriterInv`: `tx` is a prefix
of `buf`); at most one closer has won the swap, and the channel is open until
that one closes it (`CloserInv`); everything of a caller in the table precedes
what it has in the batch, and that what it has in the channel, and all of it
the next event (`OrderInv`); every accepted event is in one of those places or
reported (`FateInv`); and while the flag is not set every event handed to a
finished call of `Log` was accepted or its drop reported, as a call panics only
after it is set (`HeardInv`). The refinement follows: only `LogSend` adds to
`buf \o ch`, only the end of a flush takes from its front.

*Login.* Counting is what makes the bound inductive: failures on record plus
connections in flight only grows by an `Allow` that saw fewer than the limit,
and the passing connection was not in flight before. The lists stay ordered by
age, so what `Allow` drops is a prefix and the rest are the recent ones.
`Entitled` strengthens `NoStaleLogin`: what a connection remembers of the row
was true at some moment of the attempt, or the attempt is right now.
`AuditFaithful` adds that the success is on record as soon as the password or
the key was accepted (`Audited`); that a key attempt is no password attempt,
which `Entitled` knows, covers the path that logs nothing. `ForgivenByProof`
comes down to `PrunedCounts`: what `Allow` drops of an ordered list is exactly
what no longer counts.

*COS client.* `CallsUnexpired` needs to know how old the credentials in hand
may be: the chain gives them out with more than `Margin` left, at most `Slack`
passes before the client gets them, and another operation's request follows
within `Slack` again; hence `2 * Slack <= Margin`. In the code the margin is 12
minutes and the steps in between are a log call and a mutex, so the assumption
is generous. It also assumes that STS issues sessions longer than the margin:
the code asks for none in particular, and checks none.

*File operations.* `TypeInv` says more than the types: place `i` of a buffer
holds chunk `i` of the handle's own operation or is lost, which every `WriteAt`
and every copy keeps, and which the object inherits when the buffer is put.
`Renamed` says where the file of a rename is at each of its stages, for a
session nobody interferes with; the others' requests clear `alone` in the very
step that changes one of its names. `Logged` says that nothing is logged or told
before an operation's last step.

For `RefinesStore`, `Task` reads off a session's place which effects are still
to come: a lookup until the object has been fetched, a put until the handle is
closed, a copy and a drop, then the drop alone. The requests, the dispatching of
chunks and the workers' copying are stutters; a request that was done and
reported failed is `Fail` with its effect, one that was not done is `Fail`
without. That a put leaves nothing but the upload's own chunks (`Of`) is where
`TypeInv` is needed. `FileStore` lets an upload lose chunks, because the code
does; it never lets one operation's chunks into another's file, an effect happen
twice or out of order, or an ok come before the last one.

*Certificates.* The invariant of the walk: what was emitted is used, nothing is
emitted twice, and what `at` stands on is the issuer of the last one emitted.
For `WholeChainServed` it adds that in a file in order the walk has emitted
positions 2, 3, ... without a gap: no two subjects are equal there, so `Nexts`
has one element at most, and the only position without an issuer in the file
does not exist, so the walk starts at the first. `OneConfig` holds because
`config` is written once, by the goroutine that holds the `Once`.

*Admin sessions.* A request that has passed `Authenticate` remembers the role
its token was granted, and so does every entry of the table; a revoked token's
entry is empty, was issued, and `NewToken` never gives an issued token again.
That is all the refinement needs: `Admit` is `Authenticate` of a request that
`RequireRole` lets through; the others are admitted by nobody.

*Admin users.* The invariant relates three things: a request at `write` or
`reread` has read or written a row that is there; a request that is still
`alone` at the watched column knows that `legit` holds nothing but its own wish
and the values before it; and once its statement is done, the column has
exactly that wish. The flags are exempt from `AcknowledgedKept`, as the code does
lose updates of them (section 5).

*Listings and downloads.* The order of a listing comes from `Arranged`, which
puts at place `k` the member with `k - 1` members before it. For a total order
on a finite set (`KeyOrders` and `PlaceOrders` show that both orders are) the
members before form growing sets, so no two members have the same number of
them, and by counting every place is taken: `ArrangedLists` says that the result
holds each member once. An entry of the loop of `Client.List` comes from one
key, except that a folder may come from its prefix and from its placeholder, of
which the loop keeps the first (`ListOnceEach`). With at most two keys per
entry, `2 * Cardinality(Shown) <= MaxKeys` means that no key was cut. The
invariants need two more parts: nothing is listed before `ReadDir` and nothing
shown before there is a listing (`Unlisted`), and a body is only open in a
download that is being copied or over (`Opened`); TLC checked both. `PagesWhole`
is arithmetic of `SubSeq`: the page appended at `offset` makes the shown part the
longer prefix, and `io.EOF` comes only with or after the last entry.

*Lifecycle.* For each stage the invariant says what has been opened and what
still is: the pool is open from `OpenPool` to `ClosePool`, the writer runs from
`NewAudit` until the channel is closed and empty, a touchpoint's loop is done
once `run` has waited for it. `NothingLate` follows as a loop that is done holds
no connection, and a `taken` connection is held by exactly one loop.

What TLAPS does not cover and TLC does: the liveness properties, the liveness
part of `ImplementsTrail`. Every invariant and every other action property that a
passing run checks is proved.

## 5. Observations

Met while reading and modelling; where a sentence of the documentation or a
comment is concerned, it is quoted.

- FR-AUD-01 (`docs/spec.md:89`) has every attempt logged; `publicKeyCallback`
  returns without an event (and without a lockout failure) for a name without a
  live row (`sftpserver/server.go:101-103`).
- FR-PID-02 (`docs/spec.md:120`) lets requests go on with the previous
  credentials when a refresh fails; `Chain.Get` fails the operation although the
  cached session is still good (`cos/creds.go:148-157`).
- FR-FTP-13 (`docs/spec.md:68`) resumes uploads with `REST`; the handle's `Seek`
  does nothing, and the object is replaced by what was sent after the offset
  (`fsdriver/cos.go:109-118, 242-244`).
- `cos/client.go:87-89` retries "with fresh credentials"; another operation may
  have put the refused ones back, and `Invalidate` forgets whatever the chain
  holds, so two operations refused at once resolve twice.
- Two workers in `memWriteFile.WriteAt` race in one `bytes.Buffer`, and a chunk
  may be lost; a chunk whose worker runs before its predecessor's is refused
  (`fsdriver/cos.go:235-240`).
- `fsdriver/cos.go:40-42` says MKD and RMD are no-ops; `Mkdir` puts a
  placeholder, and `RemoveAll` deletes the key without its slash, so the folder
  stays and the client is told that it is gone.
- FR-COS-07 (`docs/spec.md:110`) has both calls of a rename audited:
  "`CopyObject` then `DeleteObject` source. Both calls audited." The code logs one
  event, RENAME, for both, after the second or the one that failed
  (`fsdriver/audit.go:117-121`, `fsdriver/cos.go:125-131`). `EventAgrees` is no
  judgement on this: it holds for one event and for two, and asks only that an
  operation's events agree with what the client was told.
- FR-COS-03 (`docs/spec.md:106`) never buffers a full object; an upload is held
  whole in `memWriteFile` until it is closed (`fsdriver/cos.go:214-251`).
- Nothing closes the handle or the session of an SFTP client that falls silent
  without closing its connection (`sftpserver/server.go:141-225`).
- A connection whose `Mount` failed after the identity was kept gets its LOGOUT
  event without ever having had a session (`ftpserver/server.go:195-196`).
- An attempt with the right password on a protocol that the account may not use
  leaves a LOGIN success (`core/authenticator.go:78-81`) and then a failure
  (`ftpserver/server.go:184-191`, `sftpserver/server.go:84-90`).
- A session goes on when its account is disabled, as it does when the account is
  deleted (run `login_deleted_user`).
- A rename of a name to itself copies the object onto itself and deletes it;
  two sessions that rename a to b and b to a can delete both.
- A certificate file without a readable intermediate makes `orderChain` index
  an empty slice (`ftpserver/server.go:302`); the panic happens inside the
  `Once`, and from then on `GetTLSConfig` returns `(nil, nil)`, which its own
  comment (200-204) says must not happen.
- A file whose root is not included and whose intermediates are two or more is
  served incomplete: the walk starts at the top one and ends there.
- The chain is linked "starting from leaf" (`ftpserver/server.go:264-267`), says
  the comment of `orderChain`, which never looks at the leaf (280-284). Of the
  run's files, `<<Leaf, CrossB, A>>` is served with `b` after a leaf that `a`
  issued, and `<<Leaf, Root, A, B>>` as the leaf alone although 222-229 promises
  leaf and intermediates. `ChainLinked` therefore speaks of the emitted
  certificates only, and `WholeChainServed`, which has the leaf, of files in order.
- `updateUser` writes back the flags the body left out as it read them: of two
  concurrent edits of different flags one is lost (`admin/users_api.go:131-139`).
- When the row cannot be read again, `createUser` and `updateUser` answer 500
  and log no event although the change is made; a second create gets 409.
- `logout` stands outside of `Authenticate`, so its event has no username
  (`admin/api.go:65`, `account_api.go:30`).
- `Client.List` never asks for what follows the first 1000 keys.
- `dirFile.Readdirnames` drops the last page, which `Readdir` returns together
  with `io.EOF` (`fsdriver/audit.go:169-170, 212-222`).
- `downloadFile` answers any failure of `Stat` with 404, and an object replaced
  between `Stat` and `Open` is sent under the old one's length.
- A failure of the admin listener is noticed at shutdown only, and then
  returns before the other servers are stopped (`cmd/ftp-server/main.go:226`).
- The SFTP accept loop serves "until Stop is called" (`sftpserver/server.go:132`)
  and ends at any error of `Accept` (`LoopBreaks`).
- Sessions outlive `Stop`; one that logs while the channel is being closed
  panics, and in an SFTP session that ends the process before `Close` is done.
- `audit/retention.go` drops one partition, not every older one, and nothing
  calls it or creates partitions; `docs/runbook.md` speaks of a ticker.

## 6. Not modelled

- The session registry (`ftpserver/sessions.go`) and audit retention have no
  caller in the program.
- Configuration, metrics, host key loading: read or written once, or never read
  back; what they decide is a constant or an initial choice of a model.
- Migrations and seeds are steps of `Lifecycle` without their statements.
- The local-disk driver forwards to the operating system.
- The user, folder and audit queries are one statement or one listing each.
- Password hashing and policy, path cleaning, error texts, MIME types: data
  without control.
- The browser front end keeps no server state.
- Inside the libraries: passive ports, the proxy protocol, SSH and TLS
  handshakes, pgx, the COS SDK. What the code relies on is stated as external
  definitions.

What the project would gain most from next: abstract specifications of a login
and of the process's life that `Login` and `Lifecycle` implement.
