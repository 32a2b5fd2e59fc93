# A verification development for logify

logify collects logs: SDKs and a host agent send them to an ingest API, Kafka
carries them to consumers, the consumers write them to ClickHouse and Postgres,
and a web application searches them; a second one administers tenants. This
directory models the parts of it where steps of several actors interleave, fail,
get lost or arrive late; it checks small instances with TLC and proves the central
safety properties for every instance with TLAPS.

Paths below are relative to `src/`; `B/` stands for `apps/backend/`, `A/` for
`apps/agent/`, `W/` for `apps/web/` and `AD/` for `apps/admin/src/`.

## 1. The system

```
 application                          host log files
     | Send / send                        | append, rotate, truncate
     v                                    v
 Go SDK, Python SDK  <--- client ---  agent: file input -> pipeline
     |                                    |        \
     | POST /v1/logs                      |         offset registry (JSON file)
     v
 ingest API --> Kafka topic "logs" (1 partition) --> log-processor    --> ClickHouse
                                                \--> embedding-worker --> Ollama, Postgres
 domain services --> outbox_events (Postgres) --> outbox relay --> Kafka

 web application, in every tab                     HTTP
   AuthProvider > ProjectStore > LogsStore, LogsData ----> auth, projects, search API
   AssistStore, DashboardsStore, per route
        \--- localStorage, shared by the tabs: session, project id, chats, dashboards
 admin application: tables over mock data
```

The outbox relay, its publisher and its admin endpoint are complete packages that
the current server container does not start (`B/internal/di/server_container.go`
registers the auth, ingest, search and project routes). They are modelled as
written.

### Inventory

| Component | State it keeps | Operations | What is hard | What makes it correct | Module |
|---|---|---|---|---|---|
| Transactional outbox, `B/internal/outbox` | rows of `outbox_events`; per relay a context and a batch | Publish, Start, Stop, poll, FetchPending, publish, MarkCompleted/MarkFailed, clean-up, RetryFailed | several relays, `SKIP LOCKED`, crash after a claim, lost acknowledgements, Stop in the middle of a batch | one relay per event; no stale write-back; nothing settled unpublished; nothing acknowledged published again; bounded retries | `Outbox`, `DeliveryLedger` |
| Go SDK client, `sdks/go/client.go` | closed flag under an RWMutex, channel, workers | Send, TrySend, Close, worker | senders block while they hold the read lock; Close closes the channel | no send on a closed channel; no accepted entry lost or doubled; Send and Close return, Close drained | `GoClient` |
| Python SDK client, `sdks/python/logify/client.py` | `_closed` without a lock, `queue.Queue`, threads | send, try_send, close, `_worker` | check-then-act on `_closed`; sentinels in a bounded queue | what was queued before close is posted; close returns | `PyClient` |
| Agent file input, `A/internal/input/file.go` | handle, inode, committed offset, stashed partial line | discover, open, read, reopen, rewind | half-written lines, rotation between Stat and Open, truncation, restart | no torn or repeated records; checkpoints never ahead of the emitted lines | `FileTail` |
| Agent offset registry, `A/internal/registry` | map, dirty flag, file and temporary file | Open, Set, Flush | crash or error in the middle of a flush; inputs, flush loop and Run flush at once | a flush that overlaps no other leaves a whole snapshot, never an older one, whatever went before | `Registry` |
| Agent pipeline, `A/internal/agent` | event channel, consumers, SDK client | Run, consume, flushLoop | five second send timeout; order of the shutdown | nothing checkpointed and then dropped | partly, in `FileTail` |
| Log consumers, `B/internal/processor`, `B/internal/embedder` | group offset, rows | Consume (fetch, handle, commit), start, SIGTERM | rebalance during a handler, late commits, failed inserts | the committed offset skips nothing unhandled; duplicates only across assignments | `LogConsumer` |
| Ingest API, `B/internal/ingest` | none | Produce | request path needs a Bearer token (`B/internal/server/http/middleware/auth.go`), SDK and agent send `X-API-Key` | an accepted log is in the topic | partly: `LogConsumer!Produce` |
| Kafka producer and topics, `B/pkg/messaging`, `B/internal/di/kafka_topics.go` | none | Publish | the writer sends again within one call; a message arrives after its call failed | | inside `Outbox` and `LogConsumer` |
| Web sessions, `W/lib/auth-store.tsx`, `W/lib/api`, `W/components/auth` | the session in localStorage; per tab its copy, a status, forms, requests | sign in, up and out, hydrate, storage event, 401, the two guards | tabs hear of each other late; answers and refusals meet another session; forms are unmounted with a request out | a tab shows the stored session; the guards settle; signing out reaches all tabs | `WebSession` |
| Web projects, `W/lib/project-store.tsx`, `W/components/project` | list, active project, saved id, dialog | mount, refresh, setProject, createProject | lists and created projects arrive in any order, also after the shell has gone; other tabs store their project | the active project is listed and is the saved one; one create at a time | `ProjectStore`, `Workspace` |
| Web log views, `W/lib/logs-store.tsx`, `W/lib/logs-data-context.tsx`, logs page, query bar, log table, dashboard view | the filter of the query bar and the one that was run, logs shown, a context and its cache | type, pick a range, run, page, enter and leave a context, switch project, effects | answers are applied in the order they come; callbacks of an earlier rendering; effects against clicks | what is shown at rest answers the last search; a context keeps the search; the spinner stops | `Workspace` |
| Web Assist, `W/lib/assist` | conversations, a timer | load, store, ask, reply, select, new | reply after a switch; the store is overwritten while it loads | replies follow their questions; questions survive | `SavedState`, `Assist`, `SavedViews` |
| Web dashboards, `W/lib/dashboards`, `W/components/dashboards` | widgets of each dashboard, edit mode, selection | load, store, add, copy, remove, create | the same store protocol; arithmetic of the grid | widgets survive and fit the grid | `SavedState`, `Dashboards`, `SavedViews` |
| Admin console tables, `AD/pages`, `AD/store` | rows, filters, page number | filter, page, invite, suspend, remove, change plan | filters outlive a page, the page number does not follow the rows | matching rows are shown; Next leads back | `AdminConsole` |
| Multiline buffer, `A/internal/input/file.go:315-386` | pending lines, last time | push, flushIfIdle, join | pending lines lie behind the committed offset | a record is emitted once, whole | planned |
| Auth, users, `B/internal/auth`, `B/internal/user` | users, sessions, refresh tokens | Register, Login, Refresh, Logout | Register makes three independent writes | an address is either free or usable | planned |
| Projects, `B/internal/project` | rows | create, update, delete | read-modify-write without a version | no lost update | planned |
| Roles, `B/internal/role` | rows | create, AssignPermissions, delete | checks outside the transaction, READ COMMITTED | a system role never changes | planned |
| HTTP server, `B/pkg/httpserver` | listener, state | Run, Shutdown | Shutdown before Serve | Run returns after Shutdown | planned |
| Search, stdin and journald inputs, parser, CLI, config, migrations, Ollama client, logging handler | none, or outside the program | | conversions and I/O | | not modelled |
| Notification, dashboard and tenant packages, Node SDK, `services/*` | stubs and predecessors | | | | not modelled |
| Other pages of the web and admin applications, UI kit, marketing | local state of one component | | presentation | | not modelled, see section 6 |

`PROJECT.json` holds the same list with the source files, a list of hazards (what
can go wrong, at which line, and which property would notice), and the map from
every definition to the lines it stands for.

## 2. How the modules correspond to the code

Each module's header says what an action is; the common conventions are these.

* A database call, a lock-protected section, a channel operation or a system
  call is one action, at the moment it takes effect. Where the code does two of
  them in a row, another actor may act in between.
* In the browser a handler or an effect runs without interruption, so each is one
  action, split where it awaits. React runs the effects of a rendering before it
  handles the next click; answers, timers and other tabs may come in between.
* A call that can fail may have taken effect or not, as the caller cannot tell.
* Everything the environment may do at will (crashes, faults, SIGTERM, rotations,
  rebalances, reloads, clicks) draws on a budget, in `left` or in a counter of its
  own; `MaxTroubles` bounds all kinds together. These and the numbers of calls,
  logs, lines, requests and sets are all that bounds the models. Retries are not cut
  off, and crashes and write errors of the registry not even counted.
* Some definitions stand in pairs, such as `CanRetryOffByOne` and `CanRetry`. The
  first one is a slip that a maintainer could make; nothing uses it. Putting it in
  the place of the second shows that the property named under "mutants" in
  `PROJECT.json` notices. Every property has such a pair.
* `CHECK_DEADLOCK FALSE` is set wherever the system comes to rest: when all calls
  have returned, all entries are posted and the budgets are spent, nothing is left
  to do. What must not stop too early is stated as a liveness property instead.
  Only the admin tables never come to rest, and there deadlock is checked.

**Outbox** (`outbox_relay.go`, `outbox_publisher.go`, `outbox_event.go`,
`outbox_repository.go`, `handler.go`). `status` and `retries` are columns of the
table, `batch[r]`, `seen[r]` and `pc[r]` the local state of `processBatch` of relay
`r`. `FetchPending` is `FetchSelect` (the SELECT with its row locks), then
`FetchCommit` or `FetchFail`; rows selected by an uncommitted transaction are
`LockedRows`. `publishEvent` is `PublishOk` or `PublishErr`, and then `MarkCompleted`
or `MarkFailed` write the outcome; an error of either is only logged, and the loop
moves on (`Advance`). `Stop` cancels the context these calls use. The Kafka writer is
not idempotent and sends up to five times within one call
(`B/pkg/messaging/kafka.go:26`), so one call can leave several messages whether it
returns nil or an error. `topic` therefore says of which events Kafka holds messages,
not how many; `acked` of which a call has returned nil; and a message of a call that
failed, or that a crash cut short (`unsure`), may arrive at any later time
(`ArrivesUnacknowledged`). The age limit of the clean-up is left open: it may delete
any completed row.

**DeliveryLedger** is what an outbox promises, without rows, relays or retries: an
accepted event is open until it is delivered and settled, or parked; only open events
are delivered, or parked ones late; settled ones are never touched again.
`Outbox!Ledger` maps the table and the broker to it.

**GoClient** (`client.go`). One call of `Send`/`TrySend` per entry. A caller holds
the read lock exactly while its call is `"send"` or `"try"`, and a closer that is
`"locking"` is the waiting writer, which keeps new readers out as in
`sync.RWMutex`. Contexts may be done at any moment (`ContextDone`). An entry that
cannot be posted goes to the error handler and is dropped, as in `worker`.

**PyClient** (`client.py`). The same for threads; the test of `_closed` and the
`put`, and in `close` the test, the assignment and each sentinel, are steps of
their own. `early` is a history variable: the entries queued before the flag.

**FileTail** (`file.go`, with `registry.go` and `agent.go`). One tailed path. A line
is written in one piece or in two, of which the second holds the newline, so a poll
can see half a line, and an offset of one file can be within a line of another. `Poll`
is the Stat and what follows from it, `Reopen`, `ReadLine` and `ReadEOF` are `reopen`
and the loop in `read`. `emitted` is what went into the event channel, `inflight` what
the pipeline still holds in memory, `delivered` what the backend has. Left out: the
read-ahead of `bufio.Reader` when the file is truncated within one `read`, errors that
`scan` ignores, several paths in one input, and the multiline buffer. The drain at a
stop is taken to succeed.

**Registry** (`registry.go`). The map is a version number. `Flush` is the
critical section (`FlushSnapshot`), then open-with-truncate, write and rename of
`path.tmp`; a crash or an error may fall between any two of them. Those who flush are
the goroutines of the agent that do: the flush loop at its ticks (`agent.go:191`),
every file input as it stops (`file.go:247`), and `Run` when all the others have
returned (`agent.go:164`); `stage` and `tailing` are the life of `Run` as far as it
decides who may. Files are inodes with names, so that two flushers writing and
renaming the same temporary file do what the file system would do. Three history
variables name the flushes of which something can be promised: `alone` (the flush in
progress, or the last, overlapped no other), `trusted` (no overlapped flush has come
to its rename since one that was alone did) and `failed` (the last one ended in an
error).

**LogConsumer** (both `infrastructure/kafka/consumer.go`, the services they call,
the containers and `main.go`). `Fetch`, `HandleOk`/`HandleErr`, `Commit`/`CommitErr`
are the loop; `Assign`, the committed offset and its use as the start of an
assignment are Kafka's, hence external. Both services are members of one group,
because both containers name the same group id. A log is one message of the topic;
one request whose message the writer sent twice counts as two.

**BrowserTabs** names the tabs of one browser, for `WebSession` and `SavedState`.

**WebSession** (`auth-store.tsx`, `http.ts`, the auth and logs API clients,
`require-auth.tsx`, `redirect-if-authed.tsx`, the two forms, `app-bar.tsx`). A token
is a user and the number of the login that obtained it. `stored` is the item in
localStorage, which a tab writes at once (`Persist`) and the other tabs hear of
later (`notice`, `Storage`); `group` is the group of routes a tab shows, and
`session`, `status` and `submitting` are React state.
An API call takes the token from the storage (`Call`); a 401 signs out whoever is
signed in when it arrives (`Refused`). Whether localStorage works at all is chosen
in `Init`, since every access to it swallows its errors.

**ProjectStore** (`project-store.tsx`, `create-project-dialog.tsx`, the projects
API client). The shell with its provider is mounted and goes; `listing`, `answer`
and `creates` are its requests. The server answers in two steps, computing and
arriving, so a list computed before a project was created can arrive after it.
localStorage and the tenant are shared with the other tabs of the browser, which
create projects (`CreatedElsewhere`) and store the id of theirs (`SavedElsewhere`) at
any time; nothing in the code listens to that key. `early`, `elsewhere` and `reopened`
are history variables that name the orders in which a promise does not hold.

**Workspace** (`logs-store.tsx`, `logs-data-context.tsx`, the logs page, the query
bar, the log table, the dashboard view and its toolbar) extends ProjectStore. A
filter is a query and a time range; `draft` is what the query bar holds and
`applied` what was run, and only `Run` takes the one over from the other
(`BoardRange` sets the range of both). What is shown is told apart by the request
it answers. `Refetch` and `SendAsk` are `refetch` up to its await, `Arrives` and
`Fails` what follows; `EnterContext` and `ExitContext` are `setContextLog`, whose
closure keeps the project of the rendering that made it (`rowsProject`). `ranFor`
and `boardFor` are the dependencies the two effects ran for last, as React keeps
them. `raced` says that two different requests were out at the same time, or that
something was changed under a request or inside a context.

**SavedState, Assist, Dashboards, SavedViews** (`assist-store.tsx`, the Assist header
and composer; `dashboards-store.tsx`, the dashboard view, canvas, sheet and dialog).
`SavedState` is the protocol the two providers share: effects of the first rendering
read the storage and then store the initial state over it, and a later rendering
stores what was read. `Assist` and `Dashboards` are the two providers with what the
user does, and `SavedViews` composes them (`ViewsSpec`): a tab shows one or the other,
and each is mounted anew. What a dashboard holds is a set of widgets, since each says
where it is drawn; conversations and messages are sequences. Replies come by a timer.
A dashboard made by the user has no page in the static export (`W/next.config.ts`,
`static-params.ts`, `nginx.conf`), so `CreateDashboard` ends outside the application.

**AdminConsole** (`users-page.tsx`, `organizations-page.tsx`, `projects-page.tsx`
and their stores; `AdminSpec`). Rows and filters live in stores for the life of the
document, the page number in the page that is shown. A list is a set of rows, each
with its place in the list: an invited user has a place before all others, and a
page shows the rows of certain ranks (`Rank`). Every filter, every change of a row and
the pagers are actions; the three pagers differ in the code and in the model.

## 3. What is checked

Twelve runs. Ten pass:

| Run | Instance | What it shows |
|---|---|---|
| `outbox` | 2 relays, 2 events, batches of 2, 2 retries; any 2 of one crash, fault, Stop and reset | exclusive claims, nothing acknowledged published again, the retry budget; that the outbox implements the ledger; that a queued event settles, is parked, or is orphaned |
| `go_pool` | 2 calls, 2 closers, 2 workers, a channel of 1 | no send meets the closed channel, what failed is not posted, what was accepted is, before a drained Close returns; Send and Close return |
| `py_pool` | 2 calls, 2 closers, 2 workers, a queue of 2 | what was queued before the flag is posted, also before a joining close returns; a close no other one races with returns |
| `tail` | 2 lines, 2 files, any 2 of two rotations, a truncation, a crash, a Stop and a read error | no torn records, checkpoints covered, lines in order and once in one life of the agent, lines emitted |
| `registry_flush` | 2 inputs, the flush loop and Run, 4 inodes, 3 sets, any number of crashes and write errors | a flush that overlaps no other leaves a whole file and never an older one, whatever overlapping ones left behind; a clean map then equals the file |
| `consumer_group` | 2 members, 2 logs (one unparsable), one failure, SIGTERM, crash and rebalance | commits skip nothing, duplicates come from assignments, every log is handled |
| `web_session` | 2 tabs, 2 users, 2 logins, 1 reload, with and without a usable localStorage | tabs follow the stored session, the guards settle, signing out reaches every tab, the submit button comes back |
| `workspace` | 2 projects, 2 queries, 2 ranges, 3 log requests, 2 mounts, 4 clicks here or in other tabs | the active project is listed and, until others store theirs, saved, one create at a time, a context keeps its search, what is shown at rest is current, the spinner stops |
| `saved_views` | 2 tabs, 2 dashboards, 3 mounts, 3 edits | replies follow questions; questions and widgets survive the store protocol; widgets fit the grid |
| `admin_tables` | 3 users, 3 organizations, 3 projects, 2 to a page, 2 changes | matching rows are shown, Next on the users page leads back |

Two show a disagreement between the code and a statement about it; TLC finds
the counterexample:

| Run | The statement | What the code does |
|---|---|---|
| `tail_drop` | `A/README.md:20-21` "file offsets are checkpointed so restarts don't duplicate or drop" | the checkpoint covers lines that are still in memory; a crash drops them |
| `consumer_shared_group` | `B/Makefile:31,36` each service is to store the logs | both join `log-embedder-group` (`log_processor_container.go:36`), so each log reaches only one store |

The runs list one question each. The type invariants and `FileTail!OffsetOnBoundary`
are not among their properties: they are theorems (section 4), and hold on the same
instances when they are added to a cfg.

### Bounds

Two relays, closers, workers, members or tabs are the least number for every race in
these protocols, which are all between two actors of a kind or two kinds: two claims
of a row, two Closes, a late commit of the old owner against the new one, a sign-out
against a sign-in. A channel or a batch of one is full at once, so blocking and
`ErrBufferFull` happen; the Python queue of two is filled by two entries, and by four
sentinels all the more, and still lets an entry stand in front of a sentinel; batches
of two show an event waiting behind another in the same batch. Two retries give the
first failure, the last one and the comparison between them. Two lines of one or two
pieces give a stash, a boundary and a line after it, and two files a rotation to a new
file and one after which the path stays missing. The outbox and the file input combine
any two troubles of their four and five kinds, since every branch of the code handles
one and the second may fall into its handling.

In `workspace` three requests give two that race and one after them, and four clicks
suffice to type, run, turn the page and enter a context, or to enter a context,
another one inside it, and leave. Two mounts of the shell let a project that was
created under the first one be saved under the second. In `registry_flush` three sets
are a snapshot, a newer one that overtakes it, and a Set during the last flush; with
the temporary file, the registry file and one inode for each of two writers whose file
was renamed away or replaced, four inodes are never short. Two logins in
`web_session` are two users in two tabs or one after the other. In `saved_views`
three mounts are two tabs and one return to a route; of its two dashboards one holds
a widget at the right edge, whose copies meet the border, and one is empty. A table of
three rows with two to a page has a last page that one removal empties.
`saved_views` uses symmetry, of tabs, and `registry_flush` of inputs and of inodes;
neither checks liveness.

### Fairness

Fairness is weak and per actor: a goroutine or thread that can run does, the
tickers of a running relay or agent fire, and a process that went down is started
again (systemd or the container runtime). Nothing is assumed about the
environment: a broker may fail every publish, applications need not call Close,
contexts need not expire, the flush loop and the shipping of lines are under no
fairness, and neither is the clean-up. In `LogConsumer` the coordinator assigns a
partition nobody owns. In the SDKs posting an entry terminates, since both
clients put a timeout on the request.

In the browser React runs the effects and the redirects of what it has rendered and
storage events are delivered. A sign-in or a request for logs is answered or fails,
since `fetch` rejects when the connection breaks; the client sets no timeout of its
own, so a server that keeps a connection open for ever keeps the spinner too. The
user, expiring tokens and other API requests are under no fairness.

## 4. What is proved

`tlapm` checks eight modules of proofs. The assumptions are the `ASSUME`s of the
modules only (sizes positive, events numbered, `None` not an entry, a project or a
filter); the budgets may be any natural numbers.

**Outbox.** `ExclusiveClaim` is not inductive: that a pending row is nobody's
follows from what relays know of their rows. `ClaimInv` joins it with

* `ClaimIsCurrent`: a claimed row is pending while its transaction is open and
  processing after it, with the retry count that the relay read;
* `IdleHoldsNothing`: an idle or stopped relay has an empty batch;
* `OpenHasRetries`: rows that are not parked have retries left, which bounds the
  counter that `MarkFailed` increments.

`ClaimInv` is inductive (`ClaimInvNext`, one lemma per action) and gives
`TypeCorrect`, `ClaimsAreExclusive`, `ClaimsAreCurrent` and `RetriesAreBudgeted`.
`PublishInv` is inductive relative to it: Kafka holds what it has acknowledged and was
only sent what has a row (`SentHasRow`), an event about to be completed, or completed,
has been acknowledged (`CompletingWasAcknowledged`, `CompletedWasAcknowledged`), and an
acknowledged one is beyond the reach of every query that leads to a publish. It gives
`CompletedIsPublished` and `NoResendAfterAck`: only a call that failed is ever followed
by another one for the same event. With
both, `LedgerNext` maps every step to a step of `DeliveryLedger` or a stutter
(`OutboxImplementsLedger`), and `CompletedStaysFinal` is the action property.

**Go client.** `SendersNeverMeetClose` is inductive with the types: the channel is
closed only when no reader is inside. `PlaceInv` says that a call that has not been
accepted has left no trace, that an accepted entry is in the channel, with a worker or
posted, and no two of these; it gives `AcceptedOnce`, which no run repeats, and
`ErrorsAreNotPosted`. `ExitInv` says that a worker leaves only when the channel is
closed and empty, and that nobody fills it afterwards; hence `DrainedIsPosted`.

**Python client.** `TypeInv` adds to the types that a close that is putting has a
sentinel left. `EarlyInv` is the argument of the shutdown: the flag is set before
the first sentinel is put (`ClosedFirst`), so nothing early is put behind one, and no
early entry stands behind a sentinel or remains once a worker has left
(`EarlyBeforeSentinel`); early entries are queued, with a worker or posted
(`EarlyKept`). It gives `JoinedIsPosted`, for any number of racing closes.
`PlaceInv` (`PendingOnce` and `NothingLost`) gives `AcceptedOnce` and
`ErrorsAreNotPosted`, which no run repeats.

**Registry.** All is proved for any number of inputs that flush together with the flush
loop and `Run`. `FlushInv` adds to the types that nothing saved, or about to be, is
newer than the map (`NoneIsNewer`), that a flush which is alone has the temporary file
to itself and its own snapshot in it (`AloneOwnsTmp`), that a file put in place by such
a flush is whole and open to nobody (`TrustedIsWhole`), and where a clean map is saved
(`CleanIsSafe`). Hence `FlushAloneIsWhole`, `CleanIsSaved` and `FlushAloneAdvances`.
They say of overlapping flushes that what these leave behind, a broken file or
temporary file included, does not spoil the next flush that is alone; section 5 says
what happens until then.

**File input.** `TypeInv` adds to the types what files hold (`FilesInv`: lines in the
order they were written, each whole or in two pieces that follow each other, and only
the newest without its end) and what the input knows in each step (`StepsInv`: for
instance that between a Stat and the Open after it the inode is still the one at the
path, unless a rotation fell between them). `OrderInv` is the argument for
`RecordsInOrder`: as long as the agent was started once, all that can still be emitted
comes after what was, and everything in the file that is open comes before everything
in the one at the path. It needs no other condition. `PlaceInv` is the argument for
`NoTornRecords`, `CheckpointsCovered` and `OffsetsOnBoundary`: the committed offset is
on a line boundary of the open file, the stash is the piece before the position, and
every checkpoint of the file at the path covers lines that were emitted. It holds until
a truncation, if files are read from their beginning and inode numbers are not used
again. The two conditions are part of the theorems because each is needed: with
`FromBeginning = FALSE` or `ReuseInodes = TRUE` TLC finds the records that are missing
or torn (section 5).

**Log consumers.** `TypeInv` adds to the types that the owner is running.
`SettledInv` is what makes the committed offset safe: everything below a member's
position except the message in its hands is settled, and so is what it is about
to commit. It holds for a former owner too, which is why a late commit can repeat
work but not skip any (`CommitsSkipNothing`). `OnceInv` bounds the rows of a member
by its assignments (`StoredOncePerAssignment`).

**Web sessions.** `TabsFollowStorage` is inductive with the types, for any number of
tabs and users: whoever writes the storage announces it to every open tab, and a tab
that opens hydrates first (`TabsAgree`). `SessionTypes` are its types.

**Web workspace.** `CreateInv` (a request of this dialog keeps its flag set, unless
the dialog was reopened) gives `CreatesOne`. `ContextInv` adds to `ContextKeepsSearch`
that until answers race a context is neither shown nor asked for outside one, which is
what entering a second context inside the first relies on (`SearchIsKept`). For the
projects, `ListInv` says that an id is given out once and that a project still being
created is in no list, `ActiveInv` what a shell's own list can hold, and `SavedInv`
what is saved as long as nobody else stored an id; together with `CreateInv` they are
inductive and give `ActiveProjectIsListed` and `SavedProjectIsActive`, in whatever
order lists and created projects arrive and whatever the other tabs do.
`CalmViewsAreCurrent` speaks of a view at rest; `ViewInv` says what holds on the way
there: until answers race, requests that are out ask for what the view should show,
and what is shown without a request out was asked with the filter that was run and for
a project one of the two effects has seen (`Anchored`). `WorkspaceTypes` needs
`ProjectsInv` for the active project and one fact more: a request that is sent gets a
number, because no more are out than were sent (`TypeInv`), so that one of the numbers
is free (`FreeNumber`) and one of these comes first (`FirstNumber`).

**Assist and dashboards.** Each store has an invariant of the same shape. `OnlyStore`
says what a step of a tab leaves alone; one lemma for each way a route is shown, left
or kept (`Mounting`, `Unmounting`, `Going`, `Staying`) gives it for every action. A
store that nothing disturbed is shown by one tab at most, and where its contents are
depends on the phase of that tab: in the storage, in what was read, or in what is
shown (`Safe`, `BoardsSafe`). `QuestionsAreKept` and `WidgetsAreKept` follow.
`AssistInv` further says that a reply on its way is the only one and that the
conversation it goes to ends with its question (`Awaited`), hence `RepliesFollow`;
`BoardsInv` that every widget fits the grid and has a number of its own among those
given out (`GoodBoards`), without which removing one could remove another. It is
inductive relative to `AssistInv`, since a reply that came after its tab had gone on
to a dashboard would disturb that. With both, `ViewsTypes`. The row of a new widget
is a maximum; that a finite set of numbers has one is proved from the
well-foundedness of strict inclusion (`MaxFound`).

**Admin tables.** `AdminInv` says that rows have places of their own, that a user
invited next comes before all (`u.at + changes > 0`), and that the page number is
within the pages there are while no row left the filtered list. A page within them
shows something because every rank has a row (`RowOfRank`: ranks are an injection into
as many numbers, hence a surjection) and by the arithmetic of rounding up
(`PageBounds`, `MorePages`). This gives `MatchesShown` and the action property
`NextLeadsBack`, for any rows and page sizes.

Every safety property the passing runs check is a theorem. Only model-checked are the
liveness properties, and that the model takes the steps the code takes: fairness and
`ENABLED` are out of reach of the installed provers. So are theorems by induction over
data with the induction rules of the library, whose parameters are operators; where a
proof needs a least or a greatest element it takes one from a well-founded relation
instead. None of the modules declares a `RECURSIVE` operator.

## 5. Known gaps between code and documents

Met while modelling, reproducible with the constants or formulas named, and not
among the runs above:

* **Outbox, crash after a claim.** `FetchPending` selects pending rows only and
  nothing resets processing ones, so an event whose relay died is never relayed,
  although `outbox_event.go:20-21` says events are "asynchronously relayed".
  `QueuedSettles` names the state: `Orphaned`. Check
  `\A e \in Events : status[e] = "processing" ~> status[e] # "processing"` in the
  run `outbox`.
* **Outbox, Stop.** `outbox_relay.go:73` "waits for in-flight work to finish";
  Stop cancels the context the bookkeeping uses, so it ends in the same state
  (`MaxStops = 1` and no other trouble).
* **Outbox, several messages.** One Publish may leave several messages of its event
  (`B/pkg/messaging/kafka.go:26`, up to five attempts of a producer that is not
  idempotent), and a call that failed may have left some too, so consumers must expect
  an event more than once even if nothing else goes wrong.
* **Go Close.** `client.go:173-174` "returns when the buffer is empty or ctx is
  done. Safe to call multiple times": a second Close returns nil while the first
  one drains (`closing[c] = "alreadyClosed"`), and the context is not looked at
  before the lock is taken. `CloseReturns` holds, without a bound on the time.
* **Go zero timeout.** `client.go:247` takes `httpClient.Timeout` 0, which
  net/http reads as "no timeout", for a deadline in the past; every entry is
  dropped (`ClientTimeout = 0`).
* **Python close.** `client.py:214-215` "Safe to call multiple times": two closes
  that both find `_closed` false put twice the sentinels, and one may block for
  ever on a full queue, outside its timeout. `LoneCloseReturns` excepts them.
* **Python late send.** A `send` that tested `_closed` before `close` set it may
  queue its entry behind the last sentinel; nobody posts it and nobody is told
  (`client.py:149`, against `:138-139` "it enqueues the entry ... and returns;
  delivery happens in the background"). Check `\A e \in Entries : call[e] = "accepted"
  ~> outcome[e] # "none"` in `py_pool`.
* **Error handlers.** The handler of either SDK runs in a worker; one that calls Send
  on a full channel, or Close, waits for its own worker (`client.go:251`).
* **Agent pipeline.** While the backend is slow, Send gives up after five seconds and
  the event is dropped, although its offset was committed (`agent.go:175`).
* **File input.** A stop while `read` hands lines over repeats them at the next
  start (`file.go:211` against `A/README.md:20-21`). With `from_beginning` unset a
  known path with a new inode is opened at its end, where `file.go:123-125` says
  the start (`FromBeginning = FALSE`). A truncated file that grew past the
  committed offset is continued in the middle (`file.go:174-175`;
  `MaxTruncations = 1` and `Torn` in `emitted`). A reused inode number is taken
  for the old file (`file.go:134`; `ReuseInodes = TRUE`). A rotation between the
  Stat and the Open of `reopen` makes the input read a file twice (`file.go:171`;
  the exception `raced` of `InOrderOnce`). Lines appended to the old file after the
  last poll before a rotation are never read (`file.go:171`), and lines held in the
  multiline buffer are covered by the committed offset (`file.go:206`).
* **Registry.** After a failed write the next Flush of an unchanged map writes
  nothing, since `dirty` was cleared first (`registry.go:78` against `:66-67`; the
  exception `failed` of `CleanMeansSaved`).
* **Registry, overlapping flushes.** `registry.go:21` says "safe for concurrent use" and
  `:66` "atomically", but flushes share `path.tmp` outside the lock (`:91-94`). When two
  inputs stop, or one and the flush loop tick, one may rename what the other has just
  truncated, and a crash then leaves an empty file, which the next start takes for no
  offsets at all, or a broken one, with which it does not start: check `Saved >= 0` in
  `registry_flush`. Or the older snapshot is renamed last; nothing failed, the map is
  clean, so that `Run`, which "flushes offsets before returning" (`agent.go:108-109`),
  has nothing to flush and the older offsets stay: check `stage = "final" /\ AllIdle /\
  ~dirty /\ ~failed => Saved = mem`.
* **Consumers.** A log whose insert failed is skipped for good by the commit of
  the next one (`consumer.go:37`). `EveryLogIsTried` promises an attempt only.
* **Web log views.** `logs-data-context.tsx:291` reloads "whenever the route or the
  active project changes", but an answer to the former project that comes last is
  shown all the same, since no answer is compared with what is asked by then
  (`:151-158`; `CalmViewIsCurrent` without `~raced`). `setContextLog` does not depend
  on the project (`:278-288`), so a context may be asked for in the former one.
  Facets choose a `selection` that `refetch` is given and ignores (`:174-177`), and
  `appliedSelection` is used by nothing.
* **Web projects.** A project created while the list is on its way may be listed
  twice or vanish until the next load (`project-store.tsx:83`; the exception
  `early`). Every tab stores its project under one key of localStorage, so a reload
  opens the project that any tab chose last, not the one that was shown (`:13`, `:42-49`,
  `:102`; `elsewhere`). Closing the dialog by Escape and opening it again while its request is
  out allows a second one, and the answer to the first closes the dialog opened anew
  (`create-project-dialog.tsx:36`; `reopened`).
* **Assist and dashboards.** The effect that stores runs before what was read is
  rendered: a second tab, or closing the tab at that moment, loses everything that
  was kept (`assist-store.tsx:109`, `dashboards-store.tsx:64`; the exception
  `disturbed`).
* **New dashboards.** The dialog leads to the page of the new dashboard
  (`create-dashboard-dialog.tsx:57`), which the static export does not have, so the
  server answers 404 (`W/nginx.conf:53-67`).
* **Admin tables.** The page number does not follow the rows: after the last row of
  the last page has gone, the organizations page says "No organizations match these
  filters." (`organizations-page.tsx:208`) although others do (`shrunk`), and Next is
  enabled there.
* **Project routes.** `W/app/(app)/[project]/layout.tsx:14-48` looks for a `slug`
  that the projects of the store do not have.
* **Logs page.** Seen while reading, not modelled: the zoom of the histogram cannot be
  reached, since `buildHistogram` sets no bucket bounds, which
  `timeseries-chart.tsx:104-107` asks for; a draft of columns that outlives its
  columns can leave the table without any (`log-columns-picker.tsx:128-135`); Enter
  inserts a saved suggestion where a click replaces the query (`query-bar.tsx:213`
  against `:301-306`).

## 6. Not modelled, and why

The TypeScript of `apps/web` and `apps/admin` is nearly all of the repository by
lines. The stores, API clients, guards, forms and pages whose state outlives a
click or is shared are modelled, and the map covers about nine percent of the lines. What
remains is not the kind of code that has a state to check:

* the UI kit (`components/ui` of both applications), charts, icons and themes:
  generated wrappers of a component library; with the marketing pages
  they are about half of the lines;
* pages of fixed or mock data: overview, AI insights, the ingestion set-up dialog,
  log detail, and in the admin application overview, billing, audit logs, system,
  settings and organization detail; `mock-data.ts` itself, three times;
* layout, wording and styles inside the modelled components;
* state of one component that nothing else reads: the open list of suggestions, the
  selected row, columns, facets, side bars, tabs of a dialog.

A definition for such lines would say that a click sets a variable, and no
property of the system would depend on it.

Left out of the modelled components: titles, and with them the renaming of a
conversation (`assist-header.tsx:43`), the context and the welcome card of Assist,
names, favourites and the contents of widgets; operations that exist but that no
component calls (deleting a conversation, `updateWidget`, `duplicateDashboard`); in
the admin tables the filters on names, roles, environments and retention, which behave
as the modelled ones do. Storing never fails in `SavedState`; in `WebSession` and
`ProjectStore` it may.

On the server side: conversions and read-only queries (parser, search, entries),
one-shot commands and start-up code, stubs, and the earlier microservices.

## 7. Plan

Done: `DeliveryLedger`, `Outbox`, `GoClient`, `PyClient`, `FileTail`, `Registry`,
`LogConsumer`, `BrowserTabs`, `WebSession`, `ProjectStore`, `Workspace`, `SavedState`,
`Assist`, `Dashboards`, `SavedViews`, `AdminConsole`; proofs of the safety properties
of all of them.

Next, in this order:

1. `AgentRun`: the shutdown of `Agent.Run` and the five second send timeout,
   composing the pipeline with `GoClient`; then `FileTail` with it, where now
   `inflight` stands for both. Hazard: an event dropped at a full client whose
   offset is saved. Bounds: 2 inputs, 2 consumers, channel and client of 1.
2. `Multiline`: `push` and `flushIfIdle` over `FileTail`'s lines; a record is
   emitted whole and once, and what a restart loses. Bounds: 3 lines, 2 timeouts.
3. `RoleStore`: transactions at READ COMMITTED with their checks outside;
   abstract specification: a role with a set of permissions. Bounds: 2 callers,
   2 permissions.
4. `Registration` (auth and users: three writes, unique e-mail) and `ProjectRows`
   (read-modify-write). Bounds: 2 callers, 1 address or row, 1 fault.
5. `HttpServer` (Run against Shutdown) and `Ingest` (the request path).
6. The columns of the logs page, with the draft in their picker.

Theorems to come, in this order: `Mailbox`, an abstract specification (accepted,
posted, dropped) that both SDK clients implement; a specification of a saved document
(what was kept, and by whom last) that the two providers implement while nothing
disturbs them.

## 8. Running it

```
tlc -config MCOutbox_relays.cfg MCOutbox     # likewise for every other cfg
tlapm OutboxProofs.tla                       # likewise for the seven others
```

Each cfg is named after the MC module it belongs to; `PROJECT.json` names its run.
