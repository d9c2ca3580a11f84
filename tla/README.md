# A TLA+ model of crit

crit reviews an agent's work in the browser.  A daemon per review keeps the
comments in memory, serves the browser over HTTP and saves to a folder whose
`review.json` other processes (`crit comment`, `crit push`, `crit pull`,
`crit cleanup`) read and write at the same time.  Around that file stand the
rounds in which an agent waits for a verdict and answers it, the working tree
that changes under the comments, the language servers, the pull request that is
kept in step, and commands that each read and rewrite files of their own.

The project has three kinds of modules:

* seven state machines of the daemon and the processes around it, each with its
  own runs, three of them with an abstract specification they implement:
  `ReviewSync`, `ReviewLock`, `DaemonRegistry`, `ReviewCycle`, `LspManager`,
  `PushSync` and `FocusSync`;
* sixteen smaller modules of parts that work on their own: six state machines
  (`ReviewFolders`, `ProjectTrust`, `Plans`, `Story`, `LspWorkspace`, `Timeline`)
  that `Tools` composes, two that `MCTools` adds, and pure algorithms checked
  against a definition of what they are for; one run checks them together;
* proofs, for every value of the constants, about the seven state machines and
  about the six of `Tools`.

## Inventory

| Part | State | Operations | What must hold |
|---|---|---|---|
| Session comments (`session.go`) | `Files[*].Comments`, `reviewComments`, tombstones, deleted replies, resolved marks, queue of GitHub deletes | add, delete, resolve, reply, delete reply, clear, signal a round | a reviewer's change is never lost or undone |
| Persistence (`session_write.go`) | `pendingWrite`, `writeSeq`, `writeGen`, timer, `lastCritJSONMtime`, `diskHasUnloadedComments` | schedule, save, acknowledge, merge replies, reload, wipe | a save acknowledges exactly what it wrote, and writes over nobody's work |
| Watcher and rounds (`watch.go`) | round number, previous comments, signal channel | poll, reload, load, carry forward, restore, persist | rounds keep every comment; the browser shows the file |
| Review write lock (`review_write_lock.go`, `review_load.go`) | lock file inside a folder that may be removed | lock, clear the folder | mutual exclusion |
| Daemon registry (`daemon.go`, `daemon_cli.go`, `cli_serve.go`) | session file, lock file and process per key | find, start, register, stop, approve, clean up | one daemon per key; nothing is removed under a successor |
| HTTP server (`server.go`) | first-review flag, subscribers, shutdown | finish, round-complete, review-cycle, wait-for-event, events, shutdown | each cycle gets its own finish, or hears of the shutdown |
| Working tree sync (`snapshot_sync.go`) | content version, line positions, pending round | collect, read, apply, save | positions belong to the content shown |
| Focus (`session_focus.go`) | focus, file list | flush, swap, reload, persist, roll back | a switch keeps every comment; the file list belongs to one focus |
| Round snapshots (`round_snapshot.go`, `watch.go`) | a sidecar with the text of each round | capture, carry forward, save, load | a captured round shows what was reviewed |
| Language servers (`lsp/`) | server per language, open documents, idle timer | request, sync, crash, drop, shut down | no use of a dropped server; documents match the disk |
| Their workspace (`lsp_handlers.go`, `vcs/worktree.go`) | a worktree of the reviewed head | check out, touch, drop, remove | answers come from the head under review; no worktree is left |
| GitHub sync (`github.go`, `push_cli.go`) | ids and hashes in the file, remote comments | post, reply, patch, delete, merge | no ghost and no duplicate on the pull request |
| Diff (`diff.go`), positions (`watch.go`) | none | diff, hunks, line mapping, remap | a comment stays with its text |
| Version control (`vcs/`) | the working tree, the index, commits | list changes by layer and scope, read contents | every change is listed once, in its layer |
| Review files (`review_migrate.go`, `cleanup`, `review_file.go`, `review/`) | flat files, folders, temporary folders | migrate, list, clean up, choose one | no review is lost; commands mean the same review |
| Command line comments (`comment`, `bulk`) | none: reads, changes and writes reviews | add, reply, batch | a batch is written whole or not at all |
| Resume (`resume`, `session_reconnect.go`, `status`) | session files, reviews | list, filter, reopen | what is listed can be reopened |
| Plans (`plan`, `plan_hook`) | versions by slug, pins by agent | save, look up, pin | no version is written over; an agent keeps its slug |
| Story (`story/`, `cli_handlers_story.go`) | story in the file and in memory | ingest, post, clear, backfill | a story belongs to the change it tells |
| Configuration (`config/`) | two files | load, merge, resolve, save | a project has its say only with consent |
| Prompts and trust (`prompt/`, `trust/`, `hooks/`) | store of approved hashes | evaluate, ask, approve | nothing runs that was not approved |
| Installs (`cli_install.go`, `integrations.go`) | files of five agents | install, check | an install settles; the user's settings stay |
| Merging saves (`review_merge.go`) | none | three-way merge | both sides' work is kept |
| Everything else | | proxy, picker, dispatch, attachments, web | rendering or stateless |

They meet in four places: `review.json` with its write lock; the session's
locks `s.mu` (memory) and `s.writeMu` (saves, round signals, clearing, focus);
the event channels from the session to browsers and waiting agents; and the
session file by which clients find the daemon.

## Modules

| Module | Models |
|---|---|
| `ReviewData` | comments as functions from ids, and the pure merges of `session_write.go` and `watch.go` |
| `ReviewSync` | daemon memory, timers, the writer, the watcher, rounds, other processes, crashes |
| `SharedReview` | what `review.json` promises to those who share it: abstract |
| `ReviewLock` | the write lock over a lock file that clearing the review removes |
| `AtomicReview` | what the lock is for, transactions that happen at one moment: abstract |
| `DaemonRegistry` | the session file and lock of a key, its daemons, the clients that find, start and stop them |
| `ReviewCycle` | agents that wait for a verdict, tabs that give it, events, the life and the end of the daemon |
| `ReviewVerdict` | what a review cycle promises to the agent: abstract |
| `LspManager` | requests, servers, documents, idle timers and shutdown |
| `PushSync` | a push and a pull against a daemon and a GitHub that fails |
| `FocusSync` | working tree, syncs, rounds, focus switches and saves of one session |
| `LineDiff`, `Positions` | diffs, hunks, line maps; where comments go by them and by their anchors |
| `ReviewMerge` | the three-way merge of a review |
| `Settings`, `ProjectTrust` | layered settings; the trust store, prompts and hooks |
| `Install` | installs into agents and the check for stale files |
| `WorkTree` | changed files by layer and scope, the text shown of them |
| `ReviewPath`, `Resume`, `ReviewFolders` | which review a command acts on; what can be reopened; migration and cleanup |
| `CommentBatch` | comments and replies from the command line |
| `Plans`, `Story` | saved plans and their pins; stories in file and memory |
| `Timeline` | the snapshots of the rounds of a review of files |
| `LspWorkspace`, `Peek` | where language servers look; the lines shown beside a location |
| `Tools` | the six of these that are state machines and share no state, as one: `ReviewFolders`, `ProjectTrust`, `Plans`, `Story`, `LspWorkspace`, `Timeline` |
| `MCReviewSync`, `MCReviewLock`, `MCDaemonRegistry`, `MCReviewCycle`, `MCLspManager`, `MCPushSync`, `MCFocusSync`, `MCTools` | instances for TLC |
| `ReviewSyncProofs`, `ReviewLockProofs`, `DaemonRegistryProofs`, `ReviewCycleProofs`, `LspManagerProofs`, `FocusSyncProofs`, `PushSyncProofs`, `ToolsProofs` | lemmas and theorems |

How they compose: `ReviewSync` takes the write lock as exclusive, which
`ReviewLock` justifies; `ReviewLock` takes nothing for granted but `flock`.
`FocusSync` takes up the session where `ReviewSync` leaves off: there, positions
and the file list are left out; here, merges with the file are.  `PushSync` has
the merge of `ReviewData` in the form it takes for comments on GitHub.
`ReviewCycle` has the rounds only as far as finishing sees them: the comments
are away between a signal and their return.  `ReviewSync`, `ReviewLock` and
`ReviewCycle` each implement an abstract specification, by an `INSTANCE` with a
refinement mapping that the run checks as a property and TLAPS proves.

### ReviewSync and the code

One action is one critical section of `s.mu`, or one file operation between
two of them.  `writer` is the holder of `s.writeMu` and how far it is:

    free -> check -> merge -> snapshot -> save -> ack | ackEmpty -> free
                 \-> wipe (file removed from outside)        clear (ClearAllComments)

`check` is the first `handleExternalDeletion` of `writeFilesErr`; from `merge`
on the writer holds the review write lock (`FlockHeld`), so no other process
writes, though `rm` may still remove the file.  `watch` is the watcher's single
goroutine:

    idle -> compare -> read -> merge | wipe -> idle                    (poll)
    idle -> load -> carry -> restore -> advance -> persist -> saving -> idle  (round)

Reading and merging are separate steps because `mergeExternalCritJSON` and
`loadResolvedComments` let `s.mu` go in between.  `timer` is the generation an
armed debounce timer captured and `fired` the callbacks waiting for
`s.writeMu`: `Stop` does not reach them, `writeGen` does.

What is abstracted, and why the properties do not see it:

* A comment is its resolved flag, its replies and whether it is on GitHub.
  Bodies, anchors and authors are carried along by every merge unread.  A
  GitHub id is the id of its comment; replies have none.  Review-level comments
  (`ReviewLevel`) go through their own code paths and keep their differences:
  a round signal does not clear them, a round takes them from the file, the
  last tombstone pass does not look at them, deleting one queues nothing.
* One file of the review has comments, has content from the previous round and
  stays listed, so carrying forward takes the path of `carryForwardComments`.
* Modification times are drawn from a finite set; the code only compares them
  for equality.  A new time differs from those the daemon or the watcher
  remember (`NewMtime`).
* Consecutive read-locks of one function with nothing between them that others
  could react to are one step (the three reads of `WatchCompares`; `memRound`
  with the merge; the stat with the decision in `handleExternalDeletion`).
* A command-line process holds the write lock from its read to its rename, so
  its whole transaction is one action; `ReviewLock` shows that this is sound.
* A missing folder with nothing to save skips the lock in the code; here that
  save goes through the same steps to the same end.

`hist` records what happened for the properties alone: ids made and deleted,
replies of agents, comments never saved (`unsaved`), whether the file was
removed from outside or by clearing (`removed`), whether a save failed
(`failed`), and `raced`: a reload or a wipe ran although memory or the file had
moved on since the watcher looked.  That race is real (`ReloadDropsUnsaved`
exhibits it) and would end every other property too, so they are stated up to
it: they say that it is the only way.  `Disturbed`, `Revived` and
`FileOfEarlierRound` name the other exceptions: a failed save nobody retries, a
deleted comment a round has carried forward, and a file the watcher refuses
because it is of an earlier round (an agent's comment that creates the file
stamps round 1; nothing makes it catch up before the next save).

### ReviewLock and the code

The variables are the file system's and the kernel's: whether the folder
exists, which file (inode) is at the lock path, who has the flock of each file,
which file each process has open.  A process is one transaction of
`WithReviewWriteLock` or one `ClearReviewFolder`:

    (stat ->) folder -> open -> lock -> check -> read -> save -> unlock            a writer
                 ^------------------------|  \-> entries -> lockfile -> rmdir -> unlock
                                                  -> lockfile again -> rmdir again  a clearer

One action is one system call, so that any two can come between any two others.
`lock` waits until the flock is free.  A process may fail under the lock
(`Fails`, the error paths of a transaction and of `RemoveAll`) and die anywhere
(`Dies`; the kernel closes its files).  `review` is the set of writers whose
changes the file holds, so that a lost change shows.  On Windows a file that is
open is not removed (`Removable`).  Left out: the other files in the folder and
the temporary files of an atomic write, which are removed or renamed under the
same lock; errors of `stat`, `mkdir` and `open`, after which a process has
nothing; review files of earlier versions that `ensureReviewFolder` moves
(`ReviewFolders` has those).

### DaemonRegistry and the code

One session key.  A daemon's `life` follows `runServe`:

    unborn -> starting -> init -> serving -> stopping -> leaving -> draining -> dead
                            \-> doomed ---------^          (SIGTERM while initialising)
                            \-> failing                    (initialisation failed; entry kept)

It is in the session file from `init` until it removes that file when it stops
(`Unregister`), and may die anywhere (`Exit`).  A starter is one `crit`
invocation with the stop that follows an approval or an interrupt; a stopper
is one `crit stop`:

    find -> probe -> remove -> lock -> find again -> probe again -> remove again -> spawn
              \-> joined       \-> connected <- release <-/            await <------/
    joined, connected -> request -> unanswered -> terminate -> wait
    connected -> interrupt -> terminate and exit
    wait -> lock to clean -> check -> clean up -> give up      (approval)
    wait -> owned -> remove own                                (crit stop)

A client that joined a daemon at once leaves it alone when it is interrupted; one
that went through `startDaemon` stops the daemon it was given, its own or one that
another had started meanwhile.  `Locked` is the part under the session lock.  `find`
and `remove` are steps of their own because `FindAliveSession` and `StopDaemon` read
and remove the file without it.  `RemoveEntry` removes whatever the file holds.
Mapped once where two callers share it: `ReadEntry`, `Probe` and `RemoveEntry` stand
for `FindAliveSession` and for the beginning of `StopDaemon`; `Unanswered` for the
switch in `stopDaemonOnApproval` and the test in `StopDaemon`.

Abstracted: a PID names one daemon (the code guards against reuse by asking
the daemon for its PID, which `AcceptsShutdown` keeps); ports matter only when
configured, then all daemons share one (`fixedPort`).  A probe and a request
may always go unanswered: both have a timeout of seconds.  The session file is
written in one step (`WriteSessionFile` renames).  The session lock is taken as
exclusive although its holder removes the lock file; `acquireSessionLock` then
looks again as `lockReview` does, which `ReviewLock` shows to suffice there.
The purge of stale reviews, which removes session files too, and
`CleanOrphanedSessions` are left out.

The history variable `orphaned` has the daemons that lost their registration to
a step outside the lock (a removal after a failed probe, or one for an old
entry: two clients find the entry of a dead daemon, and the slower removes the
entry of the daemon the faster has started), and those whose starter died
before they had one: the kernel then frees the lock, and the daemon may
register beside another.  The properties except them and nothing else.
`CleanupIsAlone` speaks of daemons that are there while the review is removed;
a successor that came and went between the approval and the cleanup has no
entry to be noticed by, and its comments go with the review.

### ReviewCycle and the code

An agent is a client process that runs `RunReviewClient` against
`handleReviewCycle`; its `call` goes

    idle -> poll -> post -> subscribed -> waiting -> replying -> answered -> stopping -> done
              \---------------\------------> denied

`handleReviewCycle` subscribes before it signals the round, which is what keeps
a finish that comes at once.  A `Waiter` is a request to `/api/wait-for-event`,
which does not leave for a shutdown.  A tab's finish (`handleFinish`) is saved,
counted, answered (`writeJSONComplete`) and only then notified, each a step of
its own; it may end before any of them (`FinishFails`: prompts of the project that
nobody was asked about, or a save that fails).  A round's signal empties the comments
until the watcher brings them back from the file (`RoundHandled`).  An agent started
from a comment replies whenever it is done.  The daemon is

    loading -> ready -> stopping -> told -> draining -> waiting -> saving -> dead
           \-> failed -> dead

after `runServe`: `httpServer.Shutdown` waits two seconds for handlers,
`WaitBackground` thirty for agents, so either step may also come with some of
them still at work.  A subscriber's channel holds `Slots` events; `notify` drops
one it has no room for, and `overran` records that a finish was.

`ReviewVerdict` is the promise: what an agent takes for the reviewer's verdict is
one that was given while that agent was asking, and everything else that can end
the call denies.

Fairness: the daemon's own steps (initialisation ends, the shutdown is told, the
listener closes, the two waits end, the final save) and each client's steps that
need nobody else (find the daemon ready or failed, enter the cycle, receive,
reply).  Nobody has to click, call again, give up or ask for a stop:
`FinishEndsWait` starts from a finish, `StopEnds` from a stop.

### LspManager and the code

A request runs `withClient`:

    lookup -> lock -> ensure -> stat -> send -> list -> review -> call -> idle
      again <-/          ^        ^-------------------/    |
                         \--- restart once, ask again twice /

`ServerFor` and the droppers (the idle timer's callback, `Shutdown`) need the
manager's lock; a dropper waits for each server's lock while it holds it, which
is the deadlock to look for.  A state of the manager's map is a language and a
number; it may be dropped while a request that remembers it waits for its lock,
and the request then looks again.  Files have a content and the time they
changed, which is what `unchangedOnDisk` compares; reading comes after the stat
(`ReadFileStat`: what is read was there then or was written since).  A server
may crash between any two steps.  The framing of messages is one step, a call is
answered, fails or is asked again.  One assumption about time is in
`TimerFires`: the idle timeout is longer than a request takes from its lookup to
its turn at the lock.  Fairness: each request and dropper moves on and an armed
timer fires; nothing has to crash or change.

### PushSync and the code

A push is one process that reads `review.json` once and then goes

    off -> post -> replies -> ids -> edits -> hashes -> deletes -> drain -> off

with network calls over its copy and short updates of the file under the write
lock (`ids`, `hashes`, `drain`).  Each call may be answered, refused (`auth`),
fail (`down`), or take effect on GitHub and lose the answer (`lost`), and the
push may die anywhere.  An update of the file that fails is a warning, and the
push goes on (`UpdateFails`).  What was posted is found in the file again as the
code does it: a comment by its file and end line (`PlaceOf`), so that all at one
place get the number of one; a reply by the number of its parent and the text that
was sent, which need not be the text it has (`Alike`).  Beside it the daemon edits,
resolves and deletes comments, saves with the merge of `BuildComments` and
reloads; a save that finds no comment removes the file, and the queue of deletes
with it (`markEmptyWritten`).  A pull fetches and merges comments and the replies of
each, which it knows by their number or else by author, place and text.  What is
known to break the promises is recorded and excepted by name: `lost` answers and
numbers, `drift` (bodies changed under a push, or recorded by it and saved over), and
`slipped` (deleted while a save was writing, deleted again while memory still
counts the number as loaded from the queue, or queued when the last comment of the
review went).  `wanted` has the numbers of the pushed comments the reviewer deleted.

Fairness: the daemon saves and reloads, a started push takes its next step, GitHub
recovers, and somebody runs `crit push` again; `DeletesDrain` says what follows
from that and no more.

### FocusSync and the code

The text of a file is a version.  Four processes share `s.mu` and partly
`s.writeMu`: the working-tree sync (collects what to read, reads without the
lock, applies, saves under `writeMu`), the watcher's round handler (from
`Receive` to `FinishRound`), `SetFocus` (flush, build, swap, load, persist, roll
back) and the debounced save.  A comment is the version its lines are for and
the focus it was made in, so that "is on its text" is an equation.  What is known
to set a comment beside its text or lose it is recorded: `astray` (made on a text
the browser had kept, moved with the text of the other focus, or with new lines
that were not saved), `hurried` (made where no save sees it: during a switch, or
too late for the save before a round), `torn` (a round puts back the file list of
the focus that a switch left) and `double` (two signals before the watcher looks
at the first).
A sync and a round that began before a switch go on with the files they hold:
`of` says whether those are the session's, the ones put aside, or nowhere any more
(`Replaced`, `PutBack`).
Fairness: timers fire, a started sync, round or switch goes on.

### The parts checked together

In `Tools` a variable `tool` has the name of a part, whose machine runs on the
variables it declares; those of the others are `None`.  The parts share no state
in the code either.  An initial state is one of any part, so one property of the
run is the conjunction of what it says of each.  `MCTools` extends it with what
only TLC judges: `CommentBatch` and `Install`, and the pure algorithms, which are
given every small input and whose results the invariants compare with a
reference.

* `LineDiff`, `Positions`: `lineDiff` with its table of common subsequences,
  hunks, `MapOldLineToNew`, then `remapLines` with the quote and anchor searches,
  the edit distance and its cut-off.  Folds and functions instead of loops; the
  reference is a largest common subsequence found by enumeration.
* `WorkTree`: a file is its content in HEAD, index and working tree and in the
  merge base, with renames as equal contents; listing, scopes and texts as `vcs`
  computes them.
* `Settings`: each key present, absent, null or ill-typed in either file and on
  the command line.  `ProjectTrust`: daemons that ask, approve and save under the
  store's lock, and finish: each of a finish's three evaluations hashes what the
  project brings along (`ContentHash`), judges it by the settings (`EvaluateTrust`,
  `EvaluateFails`), and what it allowed is read again (`Use`); the project's files may
  change between any two of these (`edited`).  A daemon has one finish at a time here,
  and the preview of a prompt, which is not sent to anybody, is left out.
* `Install`: agents' folders as files and settings entries, over sequences of
  installs, checks and edits by the user.
* `ReviewPath`, `Resume`: worlds of live and dead sessions and reviews, and for
  each the review that every command chooses.
* `CommentBatch`: a batch of comments and replies over several reviews with
  another writer in between.  `ReviewFolders`: two processes that migrate or
  clean up, one rename or removal at a time, killed anywhere.
* `Plans`: two runs of `crit plan` or its hook, file by file; a run is the `own`
  one of its daemon if it started it, otherwise it found one alive, whose reviewer
  may be answering an earlier version.  A write that fails may leave its file cut
  off, and the plan then counts as `torn`.  `Story`: commands,
  a daemon's requests, saves and restarts around the story in file and memory;
  and the extraction of a story from an agent's transcript.
* `Timeline`: `Poll` is a tick of `watchFileMtimes`; a round is
  `SignalRoundComplete`, then `LoadsResolvedComments`, `CarriesForward`,
  `CommitsRound`, `SavesSnapshots`, `PersistAfterRoundComplete`
  (`handleRoundCompleteFiles`); the others are `Edit`, `ClearAllComments`,
  `RemovesReview` and `Restart`, between any two of these steps, and `AddComment` and
  `DeleteComment` (with their save), while no round is completed.  A clear takes back
  neither the `review.json` that a round has read (`mem.cj`) nor the snapshots it has
  copied to write (`mem.sf`): both come back.  A file's text and the lines of a
  comment are versions.
* `LspWorkspace`: two requests, the idle callback, focus switches and the
  daemon's end around the worktree of the reviewed head.  `Peek`: the lines sent
  with a location.

## Runs

Every run is exhaustive within its bounds.

| Run | Question | Properties |
|---|---|---|
| `ReviewSaves` | Do saves acknowledge only what they wrote, and is everything saved and shown in the end? | `TypeOK`, `SettledMeansEqual`, `DeletedStaysDeleted`, `TombstonesOutliveSaves`, `CommentsGetSaved`, `CommentsGetShown` |
| `ReviewReplies` | Are replies and resolved flags merged, never overwritten? | `AgentReplyKept`, `ResolvedMarksOutliveSaves` |
| `ReviewDisruptions` | Rounds, failing saves, clearing, cleanup, `rm`, restarts: what is still known to be unsaved, and what does the file still promise? | `UnsavedIsPending`, `PendingIsScheduled`, `ImplementsSharedReview` |
| `ReviewLock` | Does the lock exclude although its file is removed under those who wait, on Unix and Windows, with failures and deaths anywhere? (deadlock checked) | `TypeOK`, `MutualExclusion`, `RetriesNeedClears`, `ImplementsAtomicReview`, `EveryoneFinishes` |
| `DaemonRegistry` | Clients find, start, stop, approve and die, daemons serve, fail, stop and crash: is one registered, and is nothing cleaned up under it? (deadlock checked) | `TypeOK`, `LiveIsRegistered`, `ToldItsOwn`, `CleanupIsAlone`, `OnlyNamedStops` |
| `ReviewCycle` | Does whoever waits for a verdict get it, once it was shown, and does a stop end everything? | `WaitersAreServed`, `ImplementsReviewVerdict`, `StopEnds`, `FinishEndsWait` |
| `LspManager` | Is a server ever stopped under a request, left behind or asked about old files, and does every request end? | `ServersAreSound`, `RequestsEnd`, `IdleServersStop` |
| `PushSync` | Does the pull request get every comment once and every deletion, whatever GitHub, the daemon and a crash do? | `RemoteInStep`, `StepsAreSound`, `DeletesDrain` |
| `FocusSync` | Do comments stay on their text and in their focus through edits, rounds and switches? | `ReviewInStep`, `RoundsEnd`, `CommentsGetSaved` |
| `Tools` | Are the sixteen smaller parts right on all small inputs and histories? | `ResultsAreRight`, `NoWorkIsLost`, `TrustIsKept`, `WorkIsDone`, `StepsTakeNothing`, `OnlyWhatWasAsked` |
| `RoundWindowApproves` | counterexample | `ApprovalMeansResolved` |
| `ReloadDropsUnsaved` | counterexample | `ReloadKeepsUnsaved` |

Some properties gather parts that a module states one by one, each with its own
comment there:

| Property | Parts |
|---|---|
| `WaitersAreServed` | `TypeOK`, `FinishReachesClient`, `VerdictWasShown`, `ReplyIsPersisted` |
| `ServersAreSound` | `TypeOK`, `NoTransportYanked`, `NoOrphanServer`, `AnswersFromCurrentFiles` |
| `RemoteInStep` | `TypeOK`, `PushIsIdempotent`, `InSync`, `DeleteNotLost` |
| `StepsAreSound` | `DrainedStaysDrained`, `RefusedPushStops`, `PullKeepsOurs` |
| `ReviewInStep` | `TypeOK`, `CommentsFollowText`, `CommentsSurvive`, `FocusIsConsistent` |
| `NoWorkIsLost` (`Tools`) | `ReviewSurvives`, `VersionsKept`, `StoryInStep`, `TimelineIsTrue`, `RoundsGoOn`, `CommentsStayInPlace` |
| `TrustIsKept` (`Tools`) | `AnswersStay`, `UsedAsAnswered`, `AllowedWasApproved`, `WorkspaceIsHead`, `AnswersFromHead`, `NothingAbandoned` |
| `StepsTakeNothing` (`Tools`) | of steps: `OthersKeysStay`, `CleanupSparesTheLive`, `PinsStay`, `ForeignStays` |
| `ResultsAreRight` (`MCTools`) | of algorithms: `TextIsFollowed` (diffs, remaps, selectors, edit distance, carrying, extraction, `PlanIsOfTurn`, `PeekShowsTarget`), `NothingMissing` (merges, ingesting, listings of the tree), `LayersInOrder` (settings, prompts, commands that agree on one review) |
| `WorkIsDone` (`MCTools`) | `InstallSettles`, `BatchIsWhole`, `ListIsComplete` |
| `OnlyWhatWasAsked` (`MCTools`) | of steps: `CommandsOnlyAdd`, `UserWorkSurvives`, `RefusedForCause` |

### Bounds

`MaxOps` and `MaxActs` bound what the environment does (reviewer, agents,
failures, removals, restarts), never timers, saves, watchers or handlers, which
run whenever they have something to do.  `CHECK_DEADLOCK FALSE` stands where an
idle system with a used-up environment stops.

* `ReviewSync`: two comments are enough for one to be in the snapshot and one
  made after it, or one in memory and one only on disk; four operations let a
  change fall into each gap of a save and of a reload at once.
* `ReviewLock`: two writers and a clearer are what it takes for one to hold the
  lock on a removed file while another locks the file at the path; there is a
  lock file to spare for each process, and three attempts are enough for a
  clearer to cost a process both of the retries it can.  `RetriesNeedClears`
  bounds the retries by two per clear, so ten attempts (`lockReviewAttempts`)
  are lost only to five clears of one review while one process waits.
* `DaemonRegistry`: two starters and a stopper are what it takes for one client
  to remove, stop or clean up what a second is starting while a third acts on an
  old entry; three daemons are one that was there, its successor and the
  successor of that.  Clients of a kind and daemons are symmetric.
* `ReviewCycle`: two agents, a waiter, a tab, one comment, five acts, and
  channels of one slot, so that a full channel happens (four in the code, used in
  `RoundWindowApproves`).
* `LspManager`: one language, two files, two requests, two server states and
  three acts, so that both requests, an edit and a crash meet a dropper.
* `PushSync`: two comments at one place, a reply and a comment that a pull brings,
  three numbers on GitHub, three acts (1,467,186 states).  Two comments are what
  shares a number, and what a review can lose one by one until its file is removed;
  three acts let a deletion meet an edit and a failure, and a comment of somebody
  else come, be pulled and be deleted.  With four numbers `RemoteInStep` passes too.
* `FocusSync`: two comments, three versions, three acts.  The invariants also
  pass with four (5.7 million states).
* `Tools`: texts of three lines, words of four characters, trees of three files,
  two processes, commands or agents per machine, two to five acts.  A longer
  history was tried for those that are close to it: three acts for the workspace,
  six for the rounds.

Where a history is too short for an exception the module says so; where an
exception was needed, the history variable that names it is set by the code's
steps, and the property holds for everything else.

### Fairness

`ReviewLock`: every process runs and the kernel gives a free flock to a waiter,
by weak fairness of each process's steps; nobody has to fail or to die.
`ReviewSync` (only `ReviewSaves`): an armed timer fires (the runtime's), the
holder of `s.writeMu` moves on (it blocks on nothing but the file lock, whose
other holders are single transactions), and the watcher's loop polls every
second.  `RoundReads` is strongly fair because Go's `select` picks at random
among the ready tick and the ready signal.  The others are given with their
modules above.  Reviewers, agents and failures are under no fairness, but for
GitHub's recovery and the next `crit push`, without which no deletion has to
arrive.

## Disagreements between code and text

Two runs end in a counterexample to what the repository says; each is the
shortest behaviour TLC found.

| Run | What happens |
|---|---|
| `ReloadDropsUnsaved` | a comment added while the watcher reads the file is dropped by its merge |
| `RoundWindowApproves` | a finish between a round's signal, which empties the comments, and their return is an approval although comments are unresolved |

The other disagreements are exceptions in the properties, named by a history
variable or by the property's comment.  By module:

* `ReviewSync`.  A round that completes before a deletion is saved carries the
  comment forward again (`watch.go:912`).  A save between a round's read and its
  carry-forward lets the round's own save write over a reply (`watch.go:894`).
  Deleting the last comment removes the file and the queued GitHub deletes
  with it (`session_write.go:450`; `PushSync` has what follows).  After `rm` during a
  pending write the watcher never loads again until the next edit
  (`session_write.go:126`).  The daemon's own
  removal of an empty file is taken for an external one (`session_write.go:394`).
* `DaemonRegistry`.  `FindAliveSession` removes an entry without the lock
  (`daemon.go:314`), which may be a successor's.
* `ReviewCycle`.  A subscriber whose channel is full misses the finish
  (`session.go:2674`).  `/api/wait-for-event` does not leave for a shutdown.
* `LspManager`.  A file asked about once and then deleted stays open in its
  server.  A dropper that waits for one language holds up all (`manager.go:157`).
* `PushSync`.  The daemon takes neither GitHub ids nor pushed-body hashes from
  the file for comments it holds (`session_write.go:192`), so that its next save
  writes over what a push has recorded.  A pushed comment deleted while a save writes
  loses its queued delete (`session_write.go:422`).  So does one that was deleted
  before: a push drains the first deletion because GitHub refused it
  (`push_cli.go:437`), a pull brings the comment back, and until its next save the
  daemon has the number queued and loaded, so that the second deletion is ignored
  (`session.go:1751`) and the save drops it (`session_write.go:256`).
  `updateCritJSONWithGitHubIDs` stamps the hash of the text it finds, not of the one
  that was sent (`github.go:1400`); it gives all comments that end on one line the
  number of one of them (`github.go:1373`), and finds a reply by the text that was
  sent, so that one that was rewritten for GitHub gets no number and is posted again
  (`github.go:1405`).  The queue goes with the review's last comment, whose save
  removes the file (`session_write.go:389`) and empties the daemon's queue
  (`session_write.go:450`), although the comment on `DeleteComment` says that the next
  push deletes (`session.go:1690`); a push then stops for want of a file
  (`push_cli.go:219`).  The replies of a deleted comment are not queued with it.  Not
  modelled: two pushes at once, which duplicate.
* `FocusSync`.  A comment added between the flush and the reload of a focus switch
  is lost (`session_focus.go:219-278`, against the comment at 213-217).
  `RefreshFileList` may put back the list of the old focus (`watch.go:84-150`).
  Comments are not anchored again on the way back to a focus, those of one focus
  move with the text of the other, and those made during a round do not move.  Two
  signals before the watcher reads `roundSignalSeq` end the pending window early
  (`watch.go:620`).
* `LineDiff`, `Positions`.  `MapOldLineToNew` maps removed lines at the end of a
  file to 0, and `remapLines` then keeps the old number, clamped.
* `Settings`.  A project file with a type error still gives its other fields to
  `LoadConfig`, but neither its prompts nor its hooks.  A flag that is present
  with `null` or the wrong type goes back to its default.
* `ProjectTrust`.  Approving hashes the project's prompt as it is at the time of
  the request.  A finish reads templates and scripts again after it has hashed them
  (`prompt/render.go:28-76`, `hooks/resolve.go:112-173`), so that what was edited in
  between is used although nobody was asked: `UsedAsAnswered` excepts just that.
  A project prompt that
  cannot be loaded falls through to the next layer; a hook that cannot runs nothing.
* `Install`.  `latestCacheDir` compares versions as strings
  (`integrations.go:27`).  Files of the codex plugin are written over without
  `--force` (`cli_install.go:488`), and broken settings fail an install whose
  files are already written.
* `WorkTree`.  The first listing and a refresh may pair renames differently;
  `git rm --cached` shows a file as deleted; ignore patterns see only the new
  name of a rename; the branch scope shows a staged rename as a new file.
* `ReviewPath`, `Resume`.  From the root of a repository `crit comment` does not
  look for sessions of its subdirectories, although the comment on
  `ResolveReviewPathFromDaemon` says so; `crit status` does.  The redirect for a
  pull request works for flat reviews only (`review/redirect.go:48`).  `crit
  comment --output` and `crit push --output` may name different reviews
  (`run.go:182`, `review_file.go:170`).  A live or preview review cannot be
  resumed once its daemon is gone: `daemonArgsFromCliArgs`
  (`session_reconnect.go:65`) passes `live <origin>` to `_serve`, which knows only
  `--live-origin` (`daemon_cli.go:104`), against `README.md:162`.  A review of a
  pull request or a range resumes as one of the working tree.
* `CommentBatch`.  A single reply that is not found in the file it names is
  looked for in other reviews; a line range may end before it starts.
* `ReviewFolders`.  A migration killed between its two renames leaves the
  review only under `.crit-migrate.tmp`, and two at once may remove each other's
  (`review_migrate.go`, which calls itself crash-tolerant).  A cleanup removes
  what it found stale without looking again.
* `Plans`.  Versions are saved and pins looked up without a lock; two agents with
  the same heading on one day share a review, and an approval releases both; pins
  end seven days after they were made.  A run that finds the plan's daemon alive
  waits for the next finish, and a reviewer who has not seen the new version yet may
  approve an earlier one with it: `AllowedWasApproved` promises the very version
  only to a run that started its daemon.  A version or `current.md` whose write
  fails is left cut off (`plans.go:61`).
* `Story`.  A story that a daemon refused or was not told of is written over by its
  next save (`session_write.go:177`), although the comment on `postIngest` says
  that it is picked up.  A daemon refuses the stubs of `--skip-llm`.  A story in
  memory outlives the removal of `review.json`.
* `Timeline`.  An edit that was not polled when the round completes is captured in
  its old text (`round_snapshot.go:7-9` says otherwise).  A review without comments
  has no `review.json` and starts again at round 1 beside an old sidecar, whose
  captures are never written over (the comment at `watch.go:839` calls that
  benign).  A clear between a round's copy of the snapshots and its write brings them
  back (`watch.go:828-849`), and one after the round has read `review.json` the
  comments (`watch.go:912`).  The text that comments are carried from is kept only at
  the first edited tick of a round (`watch.go:442`), so comments on a file first
  edited in a later tick are not carried by a diff; and it is not dropped after a
  round, so that a quiet round carries them again.  Edits made while the daemon was
  down move no comment.
* `LspWorkspace`.  `ShutdownLSP` runs after the daemon's context was cancelled
  (`cli_serve.go:316`), with which `RemoveWorktree` cannot run git
  (`lsp_handlers.go:246`), so the worktree stays until the next daemon
  (against `lsp_handlers_test.go:339`).  If its folder is removed meanwhile every later
  checkout fails until `git worktree prune`.  `syncLSPRoot` reads `sess.Focus` three times
  without its lock, so a switch in between records a head that was not checked out.

## Proofs

`tlapm` checks, for every choice of the constants that meets their assumptions
(for `ReviewSync`: `ReviewLevelAssumption`, `MtimeAssumption`: a new time always exists,
`PreloadedAssumption`, `MaxOpsAssumption`):

* `TypeCorrect`: `Spec => []TypeOK`.  One lemma per action.  `TypeOK` is
  inductive as it stands because it also bounds the generations of timers and
  the sequence numbers of snapshots and marks by the counters they came from.
* `SharedReviewImplemented`: `Spec => ImplementsSharedReview`, the refinement.
  It needs `Provenance`: every comment anywhere (memory, file, snapshot, the
  watcher's copy) was made by somebody, and every tombstone, in memory or in a
  snapshot, is of a deleted comment.  With it a save of `BuildComments` is a
  `Save` of the abstract specification: what it drops from the file was
  tombstoned, so deleted, and what it adds was made.  `StepRefines` goes through
  the actions; those that leave the file and the two histories alone stutter.

* `LockTypes`, `LockExcludes`, `LockImplementsAtomicReview`: for any sets of
  writers and clearers, files and attempts and either platform, `ReviewLock`
  excludes and refines `AtomicReview`.  `MutualExclusion` is not inductive; the
  invariant `LockInv` adds that who is inside a transaction holds the flock of
  the file *at the path* (`InsideOK`), that a flock is held through an open
  handle (`HandlesOK`, `TypeOK`), so that on Windows the file under a holder is
  not removed, and that what a writer has read is still what the file holds
  (`SeenOK`).  A clearer's removal of the lock file ends its own claim, and
  removing the folder needs it to be empty, so without a lock file in it.

* `RegistryTypes`, `OneDaemonPerKey`, `StarterIsToldItsOwn`,
  `ApprovalCleansAlone`, `StopsAreNamed`: for any numbers of clients and daemons
  of a key (`RegistryAssumption`).  The invariant `RegistryInv` says who may be
  about to change what: a daemon that starts and is no orphan has its starter
  waiting under the lock (`StarterWaits`); who is about to spawn knows that no
  registered daemon is left but orphans, and who waits that the file holds its
  own daemon's entry, an orphan's or none (`StartOK`); who comes to clean up has
  seen its daemon dead (`CleanOK`).  Steps that bring no daemon up (`Quiet`)
  keep what it says of everybody else (`Others`, `Daemons`), so for each it is
  enough to look at the one that moves; `Spawn` and `Register`, which do bring
  one up, are under the lock or by an orphan.

* `CycleServes`, `VerdictImplemented`: `ReviewCycle` keeps `WaitersAreServed` and
  implements `ReviewVerdict`, for any numbers of agents, waiters, tabs and
  comments and for channels of any size.  The property is not inductive: that a
  waiter was offered a finish says nothing of the events still in its channel.
  `CycleInv` adds that an event waits only for who has subscribed (`ChannelsOK`);
  that a client is subscribed exactly while it is in its handler, was offered
  every finish in its channel, and replies with one it was offered
  (`ConversationOK`); that nobody knows a tab's verdict before the tab has its
  answer or is finishing (`ShownOK`); and that an accepted reply is in memory or
  in the file unless the review was removed (`RepliesOK`).  Each step changes the
  channels (`Notified`), one client, or neither.  In the refinement a client has
  the verdict its handler took from the channel; one that is denied has none.

* `ServersStaySound`: `LspManager` keeps `ServersAreSound`, for any numbers of
  languages, files, requests, edits and crashes (`LspAssumption`: at least as
  many numbers of states as requests, so that a new server always gets one that no
  request remembers, `SomeUnknown`).  `LocksOK` says that who has looked up a
  state has one the manager still finds or one that is marked as dropped, and that
  a holder's is found; `DropsOK` that one drops servers at a time, and only those
  there are.  That answers come from current files needs three more: a stat that
  still holds vouches for what was read after it (`Past`), a server that is up has
  what was sent to it (`DocumentsOK`), and whatever a request has been through is
  in step with the disk or changed after the request began (`RequestsOK`).  A step
  of who holds a state's lock leaves the other requests alone (`OthersKeepUp`).

* `UnsavedStaysPending`, `PendingStaysScheduled`: `ReviewSync` keeps
  `UnsavedIsPending` and `PendingIsScheduled`, for any numbers of comments,
  rounds, agents' writes, failed saves and restarts.  The invariant, `SavesOK`,
  stands on `TypeCorrect` and on `Provenance` of the refinement.  `UnsavedOK` says
  that an unsaved comment is in no copy of the file, not even the watcher's, so
  that no reload takes it for one that was deleted elsewhere; `SaveHasAll` that a
  save that would end the pending write has every unsaved comment in its snapshot;
  `RoundsOK` that from a round signal to the loading of the file only comments of
  the review as a whole wait without a pending write, and that the file's round
  lags memory's afterwards; `WrittenIsThere` that a file just written is still
  there unless it was removed.  One lemma per group of steps; a handler's
  (`HandlerSchedules`) shows that no save under way can have its change.

* `TombstonesStay`, `MarksStay`, `DeletedStay`, `AgentRepliesStay`,
  `SettledAgrees`: `ReviewSync` keeps `TombstonesOutliveSaves`,
  `ResolvedMarksOutliveSaves`, `DeletedStaysDeleted`, `AgentReplyKept` and
  `SettledMeansEqual` while no round is completed (`NoRounds`), the last three
  also only while nobody removes or clears the review (`NoRemovals`); for any
  numbers of comments, replies, saves, failed saves, agents' writes and
  restarts.  `TombsOK`: a comment with a tombstone is not in memory, and the
  file a save wrote has none of its snapshot's.  `PendingTombs` and
  `DeletedMarked`: a tombstone is pending until a save has it, and wherever a
  deleted comment still is, a tombstone keeps it from memory.  `OwnersOK`: a
  reply belongs to one comment, so that a merge does not take one for another's.
  `RepliesMerged`: memory has the agents' replies of its comments whenever it
  knows the file, and a save from its merge on.  `MarksFresh`: a mark that a save
  would acknowledge is of a flag that is as in the snapshot.  `Written`: a save
  past its snapshot has memory as it is or leaves something pending, and what the
  file had before the watcher loads it the agents only added to.  The runs
  that check these properties meet both assumptions; the theorems add failed
  saves, `rm` and clears (the first two), restarts and every size.  They are
  there because a round takes a deleted comment of the review as a whole back
  from the file, and a wipe after a removal forgets tombstones with everything
  else: with them `TombsOK` and `DeletedMarked` are not invariants.

* `RetriesAreCleared`: `ReviewLock` keeps `RetriesNeedClears`, for any numbers of
  writers, clearers, lock files and attempts.  A process that is bound to start
  again (`Doomed`: its file is off the path, or the folder it made is gone) owes
  the attempt (`Debt`).  `RetriesInv` is a balance: no process that is under way
  owes more than `Paid`, its `First` and the `Second` removals.  Every clearer
  pays twice, with the lock file or folder it removes under the lock and, where
  it is let go before, with its second try; those who wait for the file it locked
  are paid at once.  `PaidStep` adds up: a debt grows by one at most, and then
  somebody has paid; most steps pay and owe nothing (`QuietStep`).

* `ReviewStaysInStep`: `FocusSync` keeps `ReviewInStep`, for any comments, versions
  of the text and numbers of rounds, switches and failures.  The property speaks
  of the session's copy; a comment's lines are also in `review.json`, with the
  comments of the last round and in the copy that a switch has put aside, from
  where they come back.  `Turns` says what each process has done when it is at a
  step and which exclude each other; `Focused` that the copy put aside, what a
  switch has built and what a sync has read are of the right focus; `Kept` that a
  comment is in memory or in the file, and from the flush of a switch on in the
  file; `Texts` that each of the four copies is on the text it will be moved from,
  but for the steps in which it is known to be behind, and that memory has all of
  the file's comments when a sync moves lines.

* `RemoteStaysInStep`, `SyncStepsAreSound`: `PushSync` keeps `RemoteInStep` and
  does only what `StepsAreSound` allows, for any comments, replies, imports,
  numbers on GitHub and acts (`PushAssumption`: finitely many roots, and room on
  GitHub for them; the kinds of items are apart).  The property relates the file
  to GitHub, and a push writes to each from a copy of its own.  `SameNumber`:
  memory and a save have the file's number of an item or none, so that a save
  loses a number only where that is counted.  `PostedIsNoted`, `PostedOnce`: what
  is on GitHub is there once and noted, by the push until it writes the number
  and then in the file and in whatever is about to be saved over it; `ToPost`:
  what a push is about to post is not there.  `TextPosted`, `TextSent`,
  `TextKnown`: the text posted or sent is the push's until it is recorded, and
  what is recorded is GitHub's.  `Queue`: the file's deletes are among those that
  memory has loaded and has queued, a save's among the file's and the new ones,
  and what a push drains is gone, another's or excepted; what a save forgets with the
  last comment is excepted too (`slipped`).  Nothing is assumed of where comments are
  (`PlaceOf`) or which texts are rewritten (`Alike`): a number that is looked up
  for an item is one that this push was given, for it or for one that looks the same
  (`FoundIsPosted`).  One
  lemma per conjunct looks at every step (`PostShape`, `PatchShape`, `DeleteShape` say
  what the network calls do, `FailShape` what an update that fails leaves,
  `MergeShape` and `MergeKeeps` what a pull merges).

* `NothingIsLost`, `TrustStays`, `NothingIsTaken`: `Tools` keeps `NoWorkIsLost` and
  `TrustIsKept` and does only what `StepsTakeNothing` allows, for any numbers of
  processes, projects, jobs, agents, commands, requests, commits, files, versions,
  rounds and acts (`ToolsAssumption`: `None` is none of the values it stands
  beside, and there is a round).  `ToolsInvariant` has one invariant per part.
  - `TrustInv`: who writes the settings holds their lock alone, and what it has
    read under the lock is what is there; what a finish has hashed is what the project
    has until an edit is noted (`TrustJudged`), and what it took is what it judged
    and the user answered for, unless it was edited in between (`TrustTaken`).
  - `StoryInv`: `StoryInStep` is inductive once the forms that a command and a
    daemon take are known; each step either brings the two together or names the
    exception under which they part.
  - `FoldersInv`: until two migrations overlap, every comment is under exactly one
    of the three names (`AllIsHeld`), a flat review has no migration past its wipe
    (`FlatIsAlone`), a wipe removes nothing (`WipesNothing`), and what lies half
    way belongs to a migration under way or broken off (`LeftoversAreOwned`).
    What a cleanup has found stale is old still, unless a save raced it, and a live
    session's review is not among it (`FoldersClean`).
  - `PlansInv`: versions are numbered without a gap; where no two runs saved the
    plan at once and no write broke off (`torn`) a run under way is the only one
    (`PlansAlone`) and has the last number (`PlansOwned`), `current.md` follows
    (`PlansCurrent`), and the daemon shows a version that is there.
  - `RootInv`: a request that builds the worktree holds the lock, meanwhile the
    server has no root and no request is steady (`RootHeld`); step by step the
    directory has nothing, the checkout, the stamped checkout (`RootBuilds`); what
    a server was given is that checkout unless it was torn or cleared from outside
    (`RootServes`), a checkout that nobody holds is the server's unless a
    shutdown left it (`RootLeft`), and a request during which no switch came looks
    where the focus is (`RootSees`).
  - `TimesInv`: a captured text is what was there or was an edit nobody had polled
    (`TimesTrue`); sidecar and memory agree up to the round that is being
    committed, unless a failed write is known (`TimesSide`, `TimesSaved`), and so do
    memory and the copy a round is about to write, unless the review was cleared since
    (`TimesCopy`); the
    handler's steps and the signal exclude each other (`TimesWhen`); and a comment
    has the lines of the text shown, or, while an edit waits to be carried, of the
    one before (`TimesPlaced`), wherever it is at the moment (`TimesGiven`: memory,
    the file between a signal and its round, or what the round has read of it).

  The stricter claim that an allowed plan is always the run's own version is false:
  from a daemon that was alive already the approval may be of an earlier one, so
  `PlansOwned` has it only of a run that started its daemon.

The lemmas about the merges (`ReviewSyncProofs`) say what each returns: its
domain, and that it is again a set of comments.

Not shown: `TombstonesStay`, `MarksStay`, `DeletedStay`, `AgentRepliesStay` and
`SettledAgrees` with rounds, and three of them with removals and clears.  Only
model-checked: liveness, which is out of the prover's reach, and of the run
`Tools` the properties of `MCTools`: `ResultsAreRight`, `WorkIsDone` and
`OnlyWhatWasAsked`.  The algorithms they judge (`LineDiff`, `Positions`,
`ReviewMerge`, `CommentBatch`, `Install` and others) are folds and recursions over
sequences, one of them a `RECURSIVE` operator (`HirschbergDiff`), and what those
compute for every input is an induction over data, out of its reach too.

## Not modelled

* Live and preview proxy, picker, dispatch of the command line, web front end:
  rendering, or stateless.  Attachments and how past rounds are shown: only read.
* Fetching, default branch, merge base: what `git` and the network answer.
  `WorkTree` and `LspWorkspace` take the commits as given.
* Texts: prompts, generated files, what commands print, statistics
  (`stats.go`, whose counters are read and written without a lock).
* In `ReviewSync`: a comment of the last 200 ms before a round signal
  (`SignalRoundComplete` cancels its save and empties memory; nothing promises to
  keep it, so `hist.unsaved` forgets it there); `Replies` arrays shared between a
  snapshot and memory (a race on bytes); edits of bodies, drift marks, live pins;
  several files.
* In `DaemonRegistry`: the session lock's own file, the purge of stale reviews,
  `CleanOrphanedSessions`.
* In `PushSync`: suggestions, orphaned comments' export, the dry run, two pushes at
  once.  In `FocusSync`: scoped snapshots of the layers of a pull request.
* In `Timeline`: deleted files, more than one comment of a file, comments made
  while a round is handled (`ReviewSync` has those).  In `WorkTree`: conflicts,
  renames with changes, scope caches.  In `LspManager`: framing, sizes of answers.
  In `LspWorkspace`: which directories are looked into, sorting and capping of
  references.  In `Plans`: errors reading a transcript.
* `SaveCritJSONMerged` (`ReviewMerge`) is modelled although this release calls
  it from tests only.

## Plan

1. `SessionLock`: the lock file that its holder removes, the orphan cleanup that
   removes it when it is free, both composed with `DaemonRegistry`.
2. `Refs`: default branch, merge base and fetching as a module of its own.
3. Proofs: what holds of the theorems of `ReviewSyncProofs` that assume `NoRounds`
   or `NoRemovals` without them; single results of `MCTools` that need no induction
   (`UserWorkSurvives` of one install).
