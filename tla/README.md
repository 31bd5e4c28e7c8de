# Log monitoring system: specifications and proofs

TLA+ modules for the agent and its file followers, the ingestion endpoint, the alert rules, the life
of alerts, the start of the backend, the accounts and the dashboard of the log monitoring system, the TLC configurations that check them, and the TLAPS proofs of their main invariants.
Paths are relative to the repository.

## The system

| Part | Code | State | Operations | Modelled by |
|---|---|---|---|---|
| Monitoring agent | `monitoring-agent/agent.py` | `agent_state.json`, `buffered_logs.jsonl`, `send_queue`, offset in each followed file | register, reload the buffer, follow, send, heartbeat, buffer, clear and save the state | `Agent`, `LogForwarding` |
| Ingestion | `main.py` 689-757, `notification/service.py` | tables `logs`, `ai_log_analysis`, `alerts` | store, analyze, evaluate, assign, notify, commit; backfill at startup | `Ingest` |
| Alert rules | `alerts/engine.py`, `ai_engine/severity_predictor.py`, `classify_severity` | none | `evaluate_alert` | `AlertEngine`, `AlertDecisions` |
| AI models | `ai_engine/`, `training/` | pickled models | classify, detect anomalies | inputs of the above, not modelled |
| Registration, authorization, heartbeats | `main.py` 545-574, 652-686, 760-784 | `agents`, `agent_heartbeats` | issue a token, accept or reject it | inside `Agent` (tokens only) |
| Alert lifecycle | `main.py` 883-910, 944-994 | `status`, `acknowledged`, `resolved` | list, update, acknowledge, resolve | `AlertPanel` |
| Alerts panel | `AlertsPanel.jsx` | the list it shows, requests under way | poll, acknowledge, resolve | `AlertPanel` |
| File followers | `agent.py` 216-244, `log_shipper.py` 51-93 | offset and read buffer of an open file | open, read, hand on, look for a truncation | `Follower`, `LineFollowing` |
| Schema | `main.py` 180-365 | columns, the default organization, rows without organization | create, add columns, insert, backfill | `Startup`; the backfill also in `Ingest` |
| Accounts | `main.py` 211-220, 577-608, 652-686 | `organizations`, `users`, `agents` | signup, register an agent | `Accounts` |
| Dashboard | `useLogs.js`, `App.jsx`, `main.py` 787-859 | list and counts it shows, token and session in `localStorage` | log in and out, reload, refresh | `Dashboard` |
| Read API | `main.py` 787-941, 1011-1204 | none | SELECTs | those a browser model uses |
| Legacy server | `backend/server.py` | rows of `logs` without organization | store | `WriteUnowned` of `Startup` |

How they interact: applications append lines to files; a follower thread of the agent puts a
payload for each into an in-memory queue; the sender posts them to `/logs` with the token of the
agent; the backend looks the token up in one transaction and stores, analyzes and alerts in a
second one; the dashboard polls. The agent's threads share the queue and `agent_state.json`; the
backend's requests, and the processes of a backend that start and stop, share the database only; the
tabs of a browser share `localStorage`.

What is hard here: three agent threads test, read, remove and rewrite one file without a lock;
the process may stop between any two of these steps; a request may be carried out without its
answer arriving; exceptions in the middle of a transaction are swallowed and the transaction is
committed; concurrent transactions do not see each other's rows; developers are notified before
the commit; browsers act on lists whose answers overtake each other; a file is read while its writer
is in the middle of a line, truncates or renames it; two processes that start at once both find a
column or the default organization missing; two signups with one email both find it free; a refresh
outlives the session it was sent for. `PROJECT.json` lists each hazard at its line.

What makes each part correct:

- agent: no detected line is lost but by a halt or the death of the sender; order per file is
  kept; a line is stored twice only after a lost answer; tokens fit the configuration; the state
  file can be read by the next start;
- ingestion: an answer of 201 means the line is stored; an alert has its analysis, its
  organization and, if notified, a row that can be found; a burst is noticed;
- alert rules: severity, type, mail and reasons agree; more evidence never lowers a severity;
- alert lifecycle: an answered click is done and stays done; a resolution is final once nothing
  behind it is under way; panels catch up with the table; an open alert is resolved in the end once no
  newer ones come and users resolve what is listed (while newer ones keep coming, the LIMIT may keep it
  off every panel for ever);
- followers: nothing is skipped or repeated on a growing file; lines written whole are handed on
  whole; no line is handed on twice; every line that is not truncated away is handed on;
- schema: a process that serves finds every column and one default organization, and no old row is
  left without one; processes that race do not bring each other down;
- accounts: an answered signup has its account, an email has one, no organization is without its
  user, and a key that somebody was given leads to its organization;
- dashboard: it shows rows of the session's organization only, with counts that are not smaller than
  the list; it ends up showing what there is.

## Modules

- `LogForwarding`: the abstract specification of the agent. Four variables (memory, disk,
  delivered, status) and one action per thing that may happen to a line.
- `Agent`: the agent and the answers of the backend. `pc[t]` is where thread `t` is in
  `start_agent`, `retry_worker` or `heartbeat_worker`; `stateFile` is `agent_state.json` (absent,
  empty or the index of a registration); one action for every stretch of code that another thread
  or a halt can see, so `exists`, `open` and `unlink` are separate steps and so are the truncation
  and the write of `save_state`. `hand` is the payload `retry_worker` took from the queue. The
  backend is `rows` (every registration), `valid` (those it accepts) and `stored`.
  `failed`, `rejected` and `lostAcks` are history variables. `ForwardingSpec` states that `Agent`
  implements `LogForwarding`: memory is `hand` and the queue, disk the buffer file, status is
  "up" when the workers run and "stuck" when the sender has died.
- `AlertEngine`: `evaluate_alert` and the two functions that prepare its inputs, as operators on a
  record of evidence. What the models answer is part of that record.
- `AlertDecisions`: one analyzed line and the decision about it, for every combination of declared
  level, words, category, confidence, keyword, anomaly and counts.
- `Ingest`: `add_log` for concurrent requests. `pc[r]` is where the handler of `r` is; the rows it
  has written are in `analysis`, `alert` and `alertOrg`, visible to others once `r` is in `logs`.
  `snapshot[r]` is what its SELECTs see (InnoDB's REPEATABLE READ: fixed by the first SELECT, own
  rows added). `AnalysisFails` and `AlertFails` are the two `except Exception` branches;
  `CommitFails` is a connection lost before the commit, `ReplyLost` one lost after it, a 500 for
  what is stored; `Crash` and `Startup` the end of the process and `init_schema`. `Decision` uses `AlertEngine`.
- `AlertPanel`: the columns `acknowledged` and `resolved` as sets of alerts, `status` as a
  function, and for each browser the list it shows and what each of its connections does: a GET
  under way, a GET answered with a list that was current then, a POST under way or answered.
  `Post` is `update_alert`, whose single UPDATE locks its row; `Return` is what the handler does
  after its `await`; `Fail` a rejected promise. `IsNewest` is the ORDER BY and LIMIT, ties within a
  second in any order; `created_at` need not follow the order of the commits. `Patch` is another
  client of the API. The alerts are those of one organization: the `organization_id` in the
  WHERE clauses keeps those of another one apart, and is left out.
- `LineFollowing`: the abstract specification of a follower whose writer only appends whole lines.
- `Follower`: `follow_file` of the agent and of the shipper, chosen by `program`. A file is a sequence
  of pieces; a line is an opening and an ending, and the ending has the newline. `offset` is how far
  the system has read the file, `buffer` what `readline` has read and not returned: `ReadChunk` fills
  it, `TakeLine` returns its first line, `TakeRest` what there is at the end of the file. The agent waits
  for the path with `exists` and calls `open` in a step of its own (`Exists`, `Open`): a rename between the
  two ends its thread with `FileNotFoundError` (`OpenFails`), as one before its `open` ends the shipper.
  `AtEnd` and `Check` are the shipper's comparison of its position with `getsize`, which looks at the
  path and not at the open file. The writer may pause in a line, truncate the file, or rename it and
  create a new one (`habits`), between any two of these steps. `FollowsLines` states that with a
  writer that does none of this both loops implement `LineFollowing`.
- `Startup`: `init_schema` of any number of processes that start on one database. `pc[s]` is the
  statement start `s` is at; an ALTER TABLE commits by itself, the organization and the backfill are
  one transaction (`org`, `claimed`). The SELECT of the organization may see the database as of the
  last implicit commit (`saw`) or newer. `gone` are processes that ended: their last statement may
  still be carried out, what is not committed is rolled back. The database may be new or one an earlier
  version made, with any of the columns that are added later.
- `Accounts` EXTENDS `Startup`: signups (`at[r]` is where the handler is) on the processes that
  serve, and `register_agent`. `signup` has no `try`: any of its statements may raise (`Raises`), a value
  too long for its column, a lost connection, a deadlock or a failing commit, and the answer is a 500; raised
  by the commit it may stand for an account that is stored. A process that ends loses its requests,
  before or after the commit.
- `Dashboard`: one tab. `call[c]` is a refresh: it asks for the list, then, with the token of that
  moment, for the counts. `mounts` tells a dashboard from the one before a logout or a reload, whose
  setters do nothing any more (`Current`). Another tab may change the token and the session that is
  stored, but not the session that is rendered.
- `MCAgent`, `MCIngest`, `MCAlertPanel`, `MCFollower`, `MCAccounts`, `MCDashboard`: instances for TLC.
- `AgentProofs`, `AlertEngineProofs`, `AlertDecisionsProofs`, `IngestProofs`, `AlertPanelProofs`,
  `FollowerProofs`, `AccountsProofs`, `DashboardProofs`: the theorems.

Operators marked "mutant" in a comment are alternatives to the definition that follows them: what
the code would do with a small mistake in it. `PROJECT.json` pairs each property with one; TLC
finds the property violated when the definition is replaced.

## Runs

| Run | Instance | Question |
|---|---|---|
| `agent_safety` | one file of 2 lines, the second blank, 2 configurations, 3 registrations, pipeline of 3, 2 stored copies, following from the end | do order, copies, tokens, thread deaths and the state file stay right, and does the agent implement `LogForwarding`? Yes |
| `agent_liveness` | one configuration, 2 registrations, pipeline of 2, following from the start | does a detected line always leave memory? Yes |
| `agent_failed_sends` | as above | is a failed send always kept for retry, as the README of the agent says? No |
| `agent_retry` | as above | is a buffered line sent again while the agent runs? No |
| `alert_decisions` | counts 0..4 around the threshold 3 | do the cascades of `evaluate_alert` agree? Yes |
| `ingest_safety` | 3 requests, 2 organizations, rows age once | are logs, analyses and alerts consistent, and bursts noticed? Yes |
| `alerts_safety` | 2 users, 2 requests each, 1 alert, 2 kinds of PATCH | do clicks on stale lists leave the columns in agreement and every answered click done? Yes |
| `alerts_converge` | 1 panel, 2 requests, 2 alerts, a list of 1, no PATCH | does a panel end up with the current list, and is an alert beyond the LIMIT resolved in the end if users respond and newer ones stop? Yes |
| `follower` | 3 lines, the second blank, reads of 3 pieces, 2 truncations or renames, 2 rewinds, both programs and every habit of the writer | is every line handed on, once, whole, and do both loops implement `LineFollowing`? Yes, each under its conditions |
| `accounts` | 2 starts, 2 columns, 1 row, 2 signups with 2 emails, 1 agent | is a process ready when it serves, are accounts whole, and does one of the racing starts serve? Yes |
| `dashboard` | 2 refreshes, 2 rows of one organization, a page of 1, 2 mounts | does the dashboard show its own organization's rows and end up with all there is? Yes |
| `alerts_not_found` | 2 users, 1 request each, 1 alert | does 404 mean that there is no such alert? No |

Bounds. Three registrations allow a 401 and a new registration by each worker after the one of
the start. Two lines suffice to be out of order, and a pipeline of three leaves room for one
line on disk, one in hand and one queued; two copies allow one lost answer and a resend. Three
requests are the smallest number that makes a burst and allow every overlap of two with a third
in sequence. `MaxAge = 1` lets rows leave the five-minute window; the ten-minute window only
chooses between alert types. Ingest is symmetric in the requests and checked with symmetry
(safety properties only). Deadlock is checked for the agent, and not in `alert_decisions` and
`ingest_safety`, where everything has been decided or answered in the end.

Two connections of a browser (it has six) are the smallest number for which answers overtake each
other; a LIMIT of one with two alerts is the ten of the code with eleven. An alert's columns depend on no other alert, so one alert is
enough for the safety of `AlertPanel`, and panels meet only in the table, which the PATCH changes
as another panel would, so one panel is enough for its liveness. No history grows without bound.

A read of three pieces cuts the lines of two pieces in every way a buffer can; three lines are one that
is cut, one that is blank and one after it; two turns let a file be truncated twice, or truncated and
renamed. The rewinds are bounded because the shipper never stops going back: after a rename it compares
its position in the old file with the size of the new one. Two starts race for a column, for the
organization and for the rows, and the second of two columns is one the other start may have added;
two signups of one email or two are the smallest race, of which one may be rolled back by the end of
its process. Two refreshes overtake each other; one row more than a page makes counts and list differ;
another tab acts once. Deadlock is not checked where a bounded writer, a finished start or the last mount
leaves nothing to do (`follower`, `accounts`, `dashboard`).

What the new runs show of the code besides their properties: after a rename the agent keeps reading
the old file and never opens the new one, and the shipper sends the old file again as often as the new
one is shorter, or ends with `FileNotFoundError` if it looks before the new one exists; a truncated
file that has outgrown the old position is read from the middle. `LinesArePassed` names these as
its exceptions. Of two starts that race for the ALTER TABLE or for the default organization one may end
(`Fails`), but never both (`OneStartServes`). A second tab that logs in to another organization changes
what the first one shows below its old name, which is why `ShownAgrees` excludes it.

Some properties name a case as their exception, because the code does not exclude it; they say
how far the damage goes and not that there is none:

- `CopiesExplained` leaves out `FROM_START`, under which every start sends the file again;
- `NoDeathWithoutRejection` allows any death after a 401, and `LogForwarding` the losses of a halt and
  of a dead sender: `FailedSendsKept` shows one of these;
- `BurstIsAlerted` leaves out errors whose transactions overlapped, which do not count each other;
- `StatusAgrees` allows ACKNOWLEDGED with `resolved`, which an acknowledgement that comes after the
  resolution leaves, and anything a PATCH has set;
- `NothingSkipped`, `PassedOnce` and `LinesArePassed` leave out the shipper after a rename, and the last
  one also a dead reader and a truncation that was outgrown unseen;
- `DashboardConverges` is about the rows the tab's token may see, which are not those of the session it
  renders once another tab has logged in.

What the three violations show.

- `FailedSendsKept`: the heartbeat thread gets a 401 and removes `agent_state.json`; the sender,
  answered 401 too or about to build its headers, finds no file, `auth_headers` raises
  `RuntimeError`, which `retry_worker` does not catch, and the thread ends. Its payload is
  nowhere, and the lines queued after it are never sent, while the heartbeat goes on.
- `BufferedLogsAreRetried`: the buffer is reloaded by `start_agent` only. Once buffered, a line
  waits for the next start of the agent, whatever the backend answers meanwhile.
- `NotFoundMeansAbsent`: `update_alert` answers 404 "Alert not found" when `rowcount` is zero, and
  MySQL counts the rows an UPDATE changes. Acknowledging what a colleague has acknowledged, or what
  a first try acknowledged whose answer was lost, gets 404 for an alert that exists. It is harmless
  to the alert, as `AnsweredMeansDone` shows, but the panel throws and does not fetch.

Fairness (`FairSpec` of `Agent`): every thread that can take a step eventually takes one, which
is what the operating system gives to threads that never wait for each other; each HTTP request
has a timeout, so it ends in one way or another. Nothing is assumed about starts, halts, lines
written, the configuration, or which answer a request gets.

Fairness (`PollsArrive` of `AlertPanel`): every request ends in some way, the interval goes off
again and again (`setInterval` never stops while the panel is mounted), and not every GET of a
panel fails; nothing is assumed about clicks. `BacklogDrains` assumes in addition (`UsersRespond`)
that a user resolves what stays listed and that not every such POST fails: it says what the users
get for it. It is about an alert above which no more come (`NewerOnesStop`): under a steady
stream of newer ones `ORDER BY created_at DESC LIMIT 10` may never list it. Both are antecedents of the
property and not part of the specification; the instance has finitely many alerts, so that newer ones
stop there in every behaviour.

Fairness of `Follower`: the loop of the reader runs; it waits for nothing but `sleep`. Nothing is
assumed about the writer. Fairness of `Accounts`: each start takes its next statement if it can, since
`init_schema` is sequential code and the database ends every statement, a wait for a lock
with the transaction that holds it. Nothing is assumed about boots, ends or requests. Fairness of
`Dashboard`: `setInterval` goes off as long as the dashboard is mounted and every request is answered or
fails. `Ingest` and `AlertDecisions` state no liveness.

Modelled from how the code uses them, and not from code of the repository: the writer of a log file,
which opens it to append; InnoDB's snapshots, its unique keys (an INSERT waits for an uncommitted row of
the same key and fails on a committed one), its locks (the UPDATEs of the backfill keep others out
of the rows until the commit; a wait that is a deadlock or too long is one of the exceptions of
`Raises`, and for a start one of its ends, `Dies`) and the rollback of a connection that is gone; a wait for a metadata lock is a
delay and no step.

## Proofs

All theorems hold for any constants that satisfy the named assumptions `AgentConstants`,
`CountsAreNumbers`, `IngestConstants`, `PanelConstants`, `FollowerConstants`, `StartupConstants`,
`AccountsConstants` and `DashboardConstants`, and hence without the bounds above. Every invariant a run
checks is a theorem, and so are the action properties and the refinements of abstract specifications but
for fairness; the inductive invariants were checked with TLC before they were proved.

- `AgentProofs`: `TypeCorrect`, then `ConfigSafe`, `DeathNeedsRejection` and `TornIsBeingWritten`
  from an inductive invariant of three parts, and `TornIsPermanent` from it. `Phases` says which
  thread may be at which label (the workers run only while the main thread is up, the main thread
  is alone before). `Registrations` says which registration may be in the state file or in a
  thread's hands at each label: a registration that passed `StateMatchesConfig` can only be
  replaced by one obtained under the running configuration, which is what makes
  `TokenOfRunningConfig` inductive. `Healthy` says that without a 401 the state file stays
  readable and no worker leaves the send loop.
- `AgentProofs`, second part: `OrderSafe` and `CopiesSafe`. `Tracked` relates the three parts of the
  pipeline, the followers' positions and the stored copies: payloads are in order, no line beyond a
  follower's position is in the pipeline, and a line in the pipeline has been stored only as often
  as an answer was lost. Most steps keep the pipeline or remove from it (`EndShrinks`,
  `RaiseShrinks`, ...), and an order survives removals (`MiddleRemoved`).
- `AgentProofs`, third part: `AgentForwards` is the refinement `ForwardingSpec`, one lemma per kind of
  step. What a step does to the four variables of `LogForwarding` depends on where the threads are, so the
  lemmas use `Phases`: outside the main loop the agent is down and holds nothing (`DownIsEmpty`), a reload
  moves the whole buffer into the queue, and the sender alone ends with a payload in hand. Everything
  else, the heartbeat and the registrations in particular, stutters. `LinesAreKept` draws from it what
  `LogForwarding` promises of every line (`Kept`, `Final`).
- `AlertEngineProofs`, `AlertDecisionsProofs`: `CascadesSafe`, `MailSafe`, `NeverLowers` and
  `TypesHaveReasons`, for any bounds on the counts, from the case analysis of the rules (`RulesAgree`,
  `StrongerKeeps`).
- `IngestProofs`: `TypeCorrect`, `AnswersHold`, `AlertsExplained`, `NotifiedFound`,
  `OrganizationsKept`, for any number of concurrent requests. `Stage(r)` says which rows the handler
  of `r` has written at each point of it; `AnsweredMeansStored` alone is not inductive because
  nothing in it ties the answer to the commit. A step of another request leaves `Stage(r)` alone
  (`OthersSame`), a crash or a startup changes each request by itself.
- `IngestProofs`, bursts: `BurstsAreOwn` and `BurstsAreAlerted`. Of three errors that make a burst the last
  one to begin has to see the other two, but the property speaks of rows that are committed. `BurstInv`
  carries the fact from the snapshot to the commit: snapshots hold committed rows only (`Snapshots`), two
  transactions of an organization under way together are recorded (`OverlapsSeen`), a snapshot has every
  committed row of a transaction it did not overlap with (`Seen`), and a request that completes any set of
  rows to a burst has its alert before it commits (`LastAlerts`). A step commits at most one request
  (`OneCommits`). `CommittedStays`: no crash, failing commit or later request changes what is committed
  for a line; only a start does, of an alert without organization.
- `AlertPanelProofs`: `TypeCorrect`, `ClicksAreDone`, `ColumnsAgree` and `ResolutionIsFinal`, for any
  number of users and requests. `AnsweredMeansDone` is inductive only together with the fact that
  lists and requests name rows of the table (`NamesRows`): otherwise a 404 could mean an absent row.
  `Settled` is inductive by itself: a list read now cannot contain a resolved alert.

- `FollowerProofs`: `TypeCorrect`, `NoPieceSkipped`, `WholeLines` and `NoLineTwice`, for any buffer, any
  number of lines and turns. `Basics` adds to the types that no position is past what was written and
  that without renames the path names the open file. `Contiguous` is `NothingSkipped` with the order of
  the positions. `EndingsOnce` relates three places of a line: what is unread, what is in the buffer
  and what was handed on share no piece, where all of a truncated file counts as unread once it is
  shorter than the position; a rewind then repeats nothing. `Aligned` says that with a writer of whole
  lines the buffer begins where a line begins, so that the first newline in it ends that line.
- `FollowerProofs`, refinement: `FollowerIsInOrder` is `FollowsLines` without its fairness. `TextsAreLines`
  does not say which line a text is; `Numbered` does: the open file holds the lines from 1 in order, unless
  the shipper is dead, whose file another one may have replaced. With `Contiguous` and `Aligned` the number
  of lines returned and skipped is half the distance from the beginning of the file to that of the buffer
  (`CursorIsOffset`), so `TakeLine` is the abstract `Pass`, and a read or a look at the size a stutter.
  `NoGaps` says what that comes to: from where it began to where it is, the reader has handed on every line
  once, in order, and none in between is left out but the blank ones.
- `AccountsProofs`: first the starts. `ColumnsAdded` gives for each statement the columns that are
  there; `OneDefault` says that organizations of the default key, committed or not, are one, and that a
  start past its SELECT has it or is about to commit it; `RowsOwned` that the start that is about to
  commit has claimed every row without organization. They yield `StartsAreReady`. `StartsAreAlone` shows
  that `Accounts` implements `StartupSpec`, so that its steps leave these facts alone. Then the accounts:
  `OneOfAnEmail` (of two signups with one email only one is inserted or committed) makes
  `NoHalfAccounts` inductive, `UsersCommitted` ties where a handler is to what it has committed; a handler
  past its commit may end in a 500 or in nothing, but its account stays. `AnswersAreTrue` says nothing of
  a 500: the account may be there or not, and the next try finds out.
- `DashboardProofs`: `ShownIsOwn`, for any number of rows, organizations, refreshes and mounts. A refresh
  of the mounted dashboard asks for what its session may see (`Asks`); one of an earlier dashboard may hold
  the list of one organization and the counts of another, and the invariant says nothing of it but that
  its mount is an old one. That needs the agreement of token, stored and rendered session of a tab that is
  alone (`SessionAgrees`), which a token checked by `fetchMe` must not break, and that a dashboard which
  still waits for `fetchMe` shows and asks nothing (`WaitingIsEmpty`). That counts taken later are not
  smaller than the list is `MoreRowsCountMore`, for rows of any cardinality. `PagesAreWhole` is about the
  LIMIT: a page is never longer (`PageIsShort`, all rows of it but the oldest are above that one), and if it
  leaves a row out it is full (`PageIsFull`, from the newest row left out, which has the page above it). The
  least element they need comes from the well-founded order of the naturals (`LeastNatural`).

Model-checked only: `MemoryDrains`, `LinesArePassed`, `OneStartServes`, `PanelsConverge`,
`BacklogDrains`, `DashboardConverges` and the `WF` of `FollowsLines` (liveness under fairness and `ENABLED` are
beyond the prover), and the three violations, which TLC refutes.

## Not modelled

- Vendored packages: `backend/.pythonlibs` holds some 190 000 of the repository's 195 000 lines of code.
  They are third-party code the system only calls; of the system's own 4 000 lines the modules map most
  of those that change state.
- In `Agent`, the followers read complete lines of files that grow; what they do otherwise is in
  `Follower`, by itself.
- A torn last line of `buffered_logs.jsonl` (a hazard listed without a property): whether a crash of the
  machine tears it is up to the file system.
- Two agents in one directory; a read of `agent_state.json` that ends in the middle of a write (a
  write of a few hundred bytes is one call, so the file is empty or complete).
- Lines with a timestamp of their own, which the agent does not send; all lines of `Ingest` name
  one service, the case in which organizations could be mixed up.
- Login and `get_current_user`, which read only; the column `last_seen`, token hashes, passwords,
  signatures of tokens, texts of messages and insights.
- The deliveries of SMTP and webhook: both failures are caught, so either may or may not happen.
- Components that fetch once and show (`HealthStatus`, trends, issues), rendering, styling, training.

## Plan

1. Composition of `Agent` with `Ingest`: resent lines counted towards a burst.
2. Proofs: the pages of `get_alerts` as those of `get_logs`; action properties of
   `Accounts`; the columns of an alert as a refinement of its status.
