# forum_forge in TLA+

TLA+ modules for the concurrent core of forum_forge, TLC configurations that
model-check them on small instances, and theorems that TLAPS proves for every
instance. The Go code under `src/` is the reference: every definition is
translated from it, and `PROJECT.json` ("map") names the lines each one stands
for.

## 1. The system

One Go process serves HTTP from a SQLite file. Each request runs in a
goroutine of its own (`net/http`), passes the middleware of
`internal/server/server.go`, reaches a handler of `internal/handler`, and works
on the database through `internal/store/sqlite`. With very few exceptions
(`ReorderCategories`, `ReorderSubcategories`, `SetVersion`) every method of the
store is ONE auto-committed SQL statement, on any connection of the
`database/sql` pool. Handlers never open a transaction. So two requests
interleave between any two statements, and a request that fails or is cut off
half-way leaves what it had written. That is where the hard behaviour is.

### Components

| component | state | operations | shares state with | what makes it correct |
|---|---|---|---|---|
| Accounts, sessions, links (`auth/*`, `handler/auth.go`, `settings.go`, `user.go`, `middleware/auth.go`) | `users`, `sessions`, `auth_tokens` | register, promote, login, logout, forgot, reset, verify, profile, password, ban, unban, cookie resolution | every handler, through the user in the context | accounts are unique; passwords change only for who may change them; admins stay in; links are single |
| Threads and posts (`handler/thread.go`, `post.go`, `moderation.go`) | `threads`, `posts`, `users.post_count` | start a thread, reply, edit, remove, lock, pin, delete a thread | reports, reactions, attachments, drafts, read status | references hold, nesting is bounded, removed posts stay removed, counters count |
| Rate limiter (`middleware/ratelimit.go`) | a map of time stamps under a mutex | `Allow` | login, registration, links, messages | at most *limit* admissions per window; the wait it announces is long enough |
| Board (`handler/admin.go`, `category.go`) | `categories`, `subcategories` | create, edit, delete when empty, move up and down | threads | a move decides the order it saw; nothing that holds threads is deleted |
| Reports (`handler/post.go`, `moderation.go`) | `reports` | report, review | posts | a report closed as reviewed is of a removed post |
| Reactions (`handler/post.go`, `store/sqlite/reaction.go`) | `reactions` | toggle | posts | one request turns one reaction over, or fails |
| Read status (`handler/post.go`, `store/sqlite/read_status.go`) | `read_status`, `threads.last_post_at` | mark read, unread marker | threads, posts | a reply nobody saw shows its thread as unread |
| Private messages (`handler/pm.go`) | `private_messages` | send, read, delete on either side | users, limiter | each side decides for itself |
| Drafts (`handler/draft.go`, `post.go`) | `drafts` | upsert, fetch, discard, use up, daily clean-up | replies | one draft for each place; a posted reply uses it up |
| Forum settings (`handler/admin.go`) | one JSON row | read, save | every handler that checks a limit | a blocked word is held under whatever saves overlap; a held post is shown to its author and moderators |
| Attachments, uploads (`handler/attachment.go`, `upload/upload.go`) | `attachments`, `users.avatar_url`, two directories | save, serve, daily clean-up, avatar | posts, settings | a row names a file that is there and whole |
| Database, migrations (`database/migrate.go`) | the schema, `schema_migrations` | up, down | everything | a half-applied migration is noticed; a server runs on the whole schema |
| Server life cycle (`server/server.go`, `cmd/forum/main.go`) | listeners, the store, two daily jobs | start, serve, shut down | everything | a start comes to serve or ends; a signal or a failed listener stops everything |

Without state worth a module of their own: CSRF, flash, security
headers, proxy, recovery and logging middleware, search, rendering,
configuration, the Kanoogi adapter, the e-mail transport, the seed command.

### What is hard in this code

* **Read, then write.** A handler loads a row, decides, and writes in a later
  statement. The profile handler writes back every column it loaded.
* **Check, then insert.** Uniqueness of accounts, the depth of a reply, the lock
  of a thread, the emptiness of a category.
* **Delete, then insert.** The old links go in one statement and the new link
  arrives in another.
* **Partial failure.** A failed counter is logged and the request goes on; a
  failed promotion leaves a forum without an admin.
* **Keys come back.** `INTEGER PRIMARY KEY` without `AUTOINCREMENT` hands the
  largest key out again once its row is deleted.
* **A pragma of one connection.** `foreign_keys` is set on whichever connection
  of the pool runs the statement.
* **Clock before mutex.** The limiter's time is read before its lock is taken,
  so calls enter out of the order of their times.
* **Two stores.** A file on disk and the row that names it are written one after
  the other; nothing undoes the first when the second fails.
* **No transaction around a migration, no lock around the migrator.** A crash
  leaves the schema between two versions; two processes may migrate at once.
* **Stopping.** Two listeners, a signal, a time limit, and handlers that may
  outlast it.

`PROJECT.json` ("hazards") lists each place with its line and the properties
that watch it.

## 2. The modules

### Accounts

A request is a process with a program counter and one action is one statement
together with the checks the handler makes on its result.

| code | model |
|---|---|
| row of `users` | `users[i]`: name, e-mail, password, role, banned, verified. Display name, signature and avatar are written by the profile handler but no one decides on them, so they are left out; the columns written back with them are not |
| row of `sessions`, `auth_tokens` | `sess[s]`, `tokens[t]`; `under` and `by` are history. A link is looked up by its raw token and deleted by its `id`, which `NextLinkId` hands out again when the newest row is gone |
| random ids and raw tokens | `minted`; `known` are those a client holds; `expired` those past `expires_at` |
| the handler's locals | `req[p]`: `row` is the loaded `*model.User`, `uid` the account, `cookie`, `tok` |
| `UpdateUser` | the whole row is replaced |
| SQL failure, cancel, crash | `Abort`, when `Faults` is true |

`chosen` and `proven` are history: the passwords a holder of the account chose
(at registration, in a password change that gave the current one, with a live
reset link) and the accounts for which a live verification link was shown.

The middleware is `GetSession`, `GetUser`, `DropSession`: the role a handler
relies on is the one read there. A password and its hash are one value. In a
fresh forum the first account gets key 1 and `Promote` is a second statement.

`Registry` is the abstract specification of registration: who holds each key is
a name and an e-mail address, a client asks for an entry, and in one step it is
entered, if nobody has its name or address at that step, or refused, if somebody
has. Entries never change and never go. `Accounts` implements it
(`RegistersInOneStep`) under the mapping that forgets every other column and
counts a registration as asked for until its INSERT, or the look-up that turned
it down. So the mapping also says that the rows other handlers write back whole
leave every name, address and key alone.

### Discussion

`threads`, `posts` and `post_count` with the statements of the reply, thread,
edit and moderation handlers. Keys are handed out by `NextKey`, so a deleted
last key returns. `ForeignKeys` is the set of values the pragma may have where
a statement runs: the program sets it on one connection of its pool, so it is
`{TRUE, FALSE}` in the runs, chosen anew for every statement, and anything in
the theorems. Users of this module are never banned: bans are Accounts'. A
reply's parent is any key: that it is a post of the thread, or a post at all, is
not checked by the code, nor by the model, and a parent that is not there passes
the depth check.

Three histories say what the code gave up, and the properties say that nothing
else went wrong. `lost` has the rows that a statement without foreign keys
deleted or referred to in vain; `missed` counts the replies whose counter
statement failed or never ran; `late` marks a post whose parent was not there
when its depth was checked. Bodies, their format, the held flag, attachments,
drafts and time stamps are left out.

### RateLimiter

`events[k]` is the slice of one key, as the set of the numbers of the admissions
it still holds; `ReadClock` is the read of `time.Now()`, `Admit` and `Deny` are
the section under the mutex, and time passes between them. `times`, `latest` and
`onTime` are history. A denied client sees one of two headers: the middleware
rounds the wait to whole seconds (`RoundedHeader`), the report and message
handlers, which ask limiters of their own, truncate it (`TruncatedHeader`).

`Limiter` is the abstract specification: it has no slice, and decides each call
in one step on the times of all admissions there ever were. A call that no call with a
later time overtook is admitted only while its window has room; no call at all
is denied while its window has room; and the wait a denied client is told is the
time until an admission of its window leaves it, with room then for a call that
was not overtaken. What a call that was overtaken may do is left
open there, because the code leaves it open. `RateLimiter` implements it
(`DecidesOnHistory`): what pruning forgets never matters.

### Board

`cats[c]` is the display order of a row of `categories`, `subs[s]` the category
and the display order of a row of `subcategories`, `threads[s]` the number of
threads a subcategory holds. Names, slugs, descriptions and the public flag come
whole from the form and decide nothing, except that a taken slug makes the
statement fail: that is `GiveUp`. `req[p]` has the row a handler works on, the
rows it listed and the order it will write. `Listing` is `ORDER BY
display_order, id`, for display orders that may repeat and have gaps (a deletion
leaves a gap, a creation after it repeats one). `ReorderCategories` and
`ReorderSubcategories` are transactions and one action each. The delete, create
and move handlers take ids from a form without looking them up, so an id may
belong to a row that is gone or whose key has come back. Threads are the ones
of Discussion as far as deletion cares: their key and posts are left out.
`Leaving` is a statement after which rows refer to what is missing: a constraint
refuses it where foreign keys are on, and where they are off `lost` remembers
the row.

### Requests, Feedback, Following, Messages; Members composes them

`Requests` holds what the features around posts share: the `threads` and
`posts` tables as far as those features see them, the clock in seconds (the
resolution of the time stamps), and the goroutines with their locals. Each
feature `EXTENDS` it, adds its tables, its statements and what `ON DELETE
CASCADE` does to them, and `Members` joins the three: a step of one leaves the
tables of the others alone, but for the deletion of a thread, which cascades to
all. As in Discussion each statement finds `foreign_keys` on or off: with it a
reference to a missing row is refused (`Refused`) and a deletion cascades,
without it the reference or the orphan stays (`Leaving`, `DeleteThreadAlone`)
and `lost` remembers it. Locks, nesting and counters are Discussion's. A report
or a message that the limiter denies is answered 429 before anything is written:
that path is `RateLimiter`'s, and `ReportRead` and `SendMessage` are the
requests it admits.

| code | model |
|---|---|
| `ToggleReaction`: a DELETE, and an INSERT if it found nothing | `ReactDelete`, `ReactInsert`; the constraints of the table make the second fail |
| `ReviewReport`: remove the post, then close the report | `ReviewRemove`, `ReviewReport`; neither looks at the report's status |
| `last_post_at`, the stamp of a post | `threads[t].last`; `posts[i].stamp` is history |
| `read_status` | `marks[u][t]`; `Unread` is the badge of `ListThreads` |
| the viewing of a thread | `MarkThreadRead`, then `ListPosts` |
| `drafts` | `drafts[d]`; the draft of a new thread has no thread |
| `private_messages` | `messages[m]` with its two deletion flags and its read flag |
| a failed statement that is only logged; a request cut off | `LogAndGoOn`, `Abort`, when `Faults` is true |

`settled`, `posted` and `dealt` are history: who wrote or was shown which post,
which drafts a reply has found, what users did to messages. Clients send one mix
of requests per behaviour: `kinds` is chosen at the start from `KindSets` and
never changes. That keeps the product of unrelated features out of TLC; the
theorems hold for every choice of `KindSets`, the set of all requests included.

`Toggling` is the abstract specification of a reaction: a client asks for a
toggle, and in one step the reaction is turned over, or the request fails and
changes nothing. `Members` implements it (`TogglesAreAtomic`) under the mapping
that counts a toggle as asked for until one of its two statements has decided
the answer.

### Settings, Submissions

`Settings` is the one JSON row. The admin form reads it, writes the fields of
the form over it and saves the whole; a field left blank keeps its value. Two
fields stand for all: the attachment types, which behave like every number, and
the keyword blocklist, which the form always replaces. `GetSettings` answers any
error of its query with the defaults, and so does the model when `Faults` is
true. `throughout` is history: the words blocked ever since the request began.

`Submissions` extends it with what depends on the settings and on files: a post
that holds a blocked word is held for review, an edit decides the hold anew, a
moderator's edit keeps the hold it read; the page of a thread passes over posts
that are held, unless their author or a moderator reads it, and
`GET /p/{post_id}` shows any post to anybody; attachments are checked, written to the
directory and entered in the table, one after the other; avatars are written in
place under a name made of user and format. A file is `partial` while it is
written, then `whole`, or `spoilt` by a failed write or by two encoders at once.
No code removes a file. The daily job deletes rows whose post is gone. A post's
body is the blocked word it contains, if any; of a deleted thread only the set
of its posts is left (`Purge`). `avatar` is the picture an upload gave the user:
an address that was typed into the form is `None`, wherever it points, because
the code accepts any address and promises nothing about it. The cascade of
attachments, and the check that their post exists, assume that foreign keys are
enforced.

### Migrations, Lifecycle; Server composes them

`Migrations` is the schema as the set of objects the statements of the
migrations create, the row of `schema_migrations`, and a migrator per process.
The order of calls - mark the version dirty, run, mark it clean - is that of the
golang-migrate library, modelled from how the driver in `src/` is called and
marked external. `SetVersion` with no version writes no row, so that the
last step of a roll-back cannot be marked dirty. `Lock` does nothing.

`Lifecycle` is the main goroutine of a server, its one or two listeners, the
channel of each and the handlers in flight. `Select` takes any of the events
that are ready. `Drained` and `Timeout` are the two ways out of
`http.Server.Shutdown`.

`Server` composes them for several processes on one database file and one set
of ports: each may be launched, migrate, serve, stop, crash at any step and be
launched again, and a `-migrate` command may run beside a server. `Alone` is the
set of commands the operator runs only while no other process runs. The code
does not enforce it: a roll-back beside a running server takes the schema away
from it, and the two theorems about the schema name it as their hypothesis.

### Proof modules

`Accounts_proofs` and `AccountsSafety_proofs`, `Discussion_proofs`,
`RateLimiter_proofs`, `Board_proofs`, `Members_proofs`, `Submissions_proofs`,
`Server_proofs`. The `MC` modules only define constants and
symmetry sets for TLC. In each module an operator marked "Mutant" is a variant
of the definition next to it with a plausible mistake; no action uses it. It
documents which mistake each property catches (`PROJECT.json`, "mutants").

## 3. The runs

| run | bounds | shows |
|---|---|---|
| `accounts_fresh` | 2 accounts, 2 requests, empty table, faults | types; registration implements `Registry`: decided in one step, on accounts that stay distinct and as they were |
| `accounts_moderation` | an admin and a moderator, 2 sessions, 2 requests, faults | no admin is banned and no role changes, by whatever mix of stale saves and bans |
| `accounts_recovery` | 2 accounts (one seeded), 2 links, 2 passwords, 2 requests, no faults | passwords and verifications come from their account's holder; used links stay dead; two live links of a type come from two requests; the inductive invariant |
| `discussion_replies` | 1 user, 1 thread, 4 posts, 2 counted replies, 2 requests, foreign keys on or off, faults | each reply is counted once, or its count is known to be missed; nesting is bounded but for parents that came late; types |
| `discussion_deletion` | 1 user, 2 threads, 2 posts, 2 requests, keys reused, foreign keys on or off, no faults | a dangling reference is the trace of a statement without foreign keys; no reply stays uncounted; a removed post stays removed |
| `limiter_window` | limit 2, window 5, a second of 3 ticks, 3 requests, clock up to 6 | the limit of a window, the sufficiency of the wait and, with what they cut off added, of both headers, and that the slice implements `Limiter` |
| `board_admin` | 2 categories, 2 subcategories with a thread each, 2 requests, foreign keys on or off | only a statement without foreign keys orphans a row; a move decides the order of the rows it listed |
| `members` | 2 users, one a moderator; 1 thread, 2 posts, 2 rows of each further table, clock up to 1, 2 requests, foreign keys on or off, faults; six mixes | the toggle implements the atomic one; nothing is left behind but by statements without foreign keys; a reviewed report's post is removed; replies are announced; drafts are used up (a second draft for one place would be left over); each side of a message has its own |
| `submissions` | 2 attachment types, 1 word, 1 user, 2 formats, 1 post, 2 attachments, 3 files, 2 requests, faults; four mixes | a word blocked all the time is held; every row has its file |
| `server` | 2 processes, one with two listeners, 2 migrations of 2 and 1 statements, 1 request in flight, faults and crashes | a server runs on the complete schema, a clean version tells the truth, the store is closed only when no listener takes requests; liveness |

Two requests are enough for the races of Accounts, Discussion and Board: each
involves one request overtaking another between two of its statements, and
requests that ran before can have left any state the tables allow. Three are
used in the limiter, where the limit is two. The random ids of an instance run
out; `Abort` then ends the request, so the bound appears as a failure.
`accounts_recovery` switches the other failures off to stay small: what it
checks is also proved, with failures. `discussion_deletion` switches them off too, and `discussion_replies` has them.
`MaxCount` bounds the replies of a user,
`OutOfKeys` the posts, `MaxThreads` the threads of a subcategory. Four posts
allow a chain one level deeper than the limit. Two rows of each table are the
least that can be moved, and let a key return while a request still holds it. A
clock of six ticks lets a window of five pass completely.

In `members` the key of a deleted thread returns with one thread already, two
posts are the least of which one can overtake the other, and one tick separates
a mark from a newer post; every interleaving the properties are about is of two
requests. In `submissions`
three files for two rows let a file survive its row and a failed write keep its
name. In `server` two migrations are the least with a version to return to, two
statements the least that a crash can separate, and the second has an object
whose removal fails when it is missing, as `DROP COLUMN` does.

Deadlock is checked in every run but `members` and the two of Submissions: there an idle
forum whose keys are used up has nothing more to do. Symmetry is used with
interchangeable model values only - sessions, tokens, processes, users of the
same rank, keys, files, types - and not in `server`, which checks liveness.

### Where the code and its documentation disagree

Two runs check a sentence of the repository and TLC finds a behaviour that
contradicts it; `PROJECT.json` ("findings") quotes the sentences.

| run | what happens |
|---|---|
| `accounts_profile_claim` | a profile save undoes a ban or a password change committed between its two statements |
| `submissions_held_claim` | a post held for review, visible "only to the author and moderators", is shown to anybody who asks for `GET /p/{post_id}` |

The quote handler (`handler/post.go:514`), `?quote=` on the page of a thread
(`:230`) and the list of a user's posts do not ask for the hold either; they are
not modelled.

The models have further behaviours of this kind. They follow from two statements
of one handler in the order written, so they are recorded here and in "hazards"
without a run of their own:

* a session opened with the old password survives the reset that overlaps the
  login, although the reset deletes the user's sessions;
* a thread deleted on a connection without `foreign_keys` leaves its posts, and
  the thread that gets its key has them;
* a reply to a key that is no post yet passes the depth check, and nests too
  deep when that key becomes a reply to a reply before the insert;
* the `Retry-After` header can be shorter than the wait: by at most half a
  second where the middleware rounds it, by just under a second where the report
  and message handlers truncate it (`RetryIsEnough`);
* a used link is deleted by its key, late: when that key has been handed out
  again, the newer link dies unused;
* two overlapping requests for a link leave two live links, and one reset link
  can set the password twice;
* a failure between the insert of the first account and its promotion leaves a
  forum whose first account stays a member, and no later one is promoted;
* a member's reply that read its thread before the lock is inserted after it,
  and two overlapping toggles of a lock write one value;
* the edit of a post whose removal overtook it replaces the name of who removed
  it;
* the post that opens a thread is not counted for its author;
* when threads are deleted, a reply in flight can raise the count of the thread
  that got the deleted one's key, or nest one level too deep under the post that
  got its parent's;
* a call of the limiter that was overtaken between the clock and the mutex is
  admitted over the limit;
* an edit of a category undoes a move committed between its two statements;
* of two saves of the settings the later wins whole; a save after a failed read
  writes the defaults over what it could not read, because `GetSettings` takes
  every error for a missing row. The settings are not cached, although the
  comment of `model/settings.go` says so;
* a held post is released by a clean edit of its author only: a moderator's edit
  keeps the hold, although the comment at that place calls it a review;
* a reply with an older time stamp that is told to the thread late moves its
  last post back in time; a view that is cut off between the mark and the list
  leaves the thread read and not shown; a view and a reply in one second are not
  told apart;
* an auto-save in flight brings the draft of a posted reply back; when keys
  return, a reply deletes another user's draft or a review closes another report;
  `DELETE /drafts/{id}` does not ask whose draft it is;
* of two verdicts on one report the last stands, so a dismissed report may be of
  a removed post;
* a file whose row was never inserted stays on disk for ever; an avatar is
  truncated in place, so a failed write spoils the one shown;
* of two processes that migrate at once the slower may mark a complete schema
  dirty, which the next start refuses; a crash in the last step of `-migrate
  down` leaves no dirty mark;
* a second signal while the server drains is lost; when the primary listener
  fails, its requests in flight are not waited for.

### Fairness

Only `Server` assumes fairness, because only its liveness properties need it:
weak fairness of what a process does by itself (`Work`: the next statement of
its migration, the next step of its main goroutine, its exit) and of each
listener goroutine. The Go scheduler runs every goroutine that can run, SQLite
answers or fails, and the clock that ends a `Shutdown` runs on. Nothing is
assumed of handlers, which may run for ever, nor of signals, launches, failures
and crashes, which need not happen. Under this `StartsOrEnds` says that no
migration waits for ever, `SignalStops` that a signal stops the server although
a request never ends, and `FailureStops` that no listener goes on after the
other has failed. The other specifications assume no fairness: there a
request may stop anywhere, and what is said of it is safety.

## 4. The proofs

TLAPS proves, for every value of the constants that meets the ASSUMEs:

* **Accounts.** `TypeCorrect`; `AccountsStayUnique`; `RegistrationIsOneStep`;
  `PasswordsWereChosen`; `UsedLinksStayDead`; `LinksComeFromDistinctRequests`;
  `RequestsInFlightFit`; and, when an account is seeded, `RolesAreKept` and
  `AdminsAreNeverBanned`. None of these is inductive, because a request writes
  back what it read long ago. The strengthening says what the locals of a
  request in flight still guarantee: rows about to be saved carry the name and
  e-mail of their account (`IdentityKept`), a row about to be saved has a
  password that was chosen for its account (`RowsChosen`), a link being consumed
  is still the row whose key was read, or gone (`LinksHeld`), the links of an
  issuing request are gone between its two statements (`OwnLinksCleared`), and
  on an established forum the row of an admin does not say banned (`RolesKept`).
  TLC checks the strengthening in `accounts_recovery` (`InFlightOK`) and
  `accounts_moderation`. `AdminsAreNeverBanned` needs the seed: in an empty
  forum the promotion of the first account could overtake a ban.
  `RegistrationIsOneStep` is the refinement of `Registry`: the INSERT is the
  step that grants (`InsertGrants`), a look-up or the constraint that turns a
  request down is the one that refuses (`TakenRefuses`), and of all other steps
  `SameEntries` and `AskedMoves` show that the registry does not see them;
  `IdentityKept` is what that takes.
* **Discussion.** `TypeCorrect`; `RemovedPostsStayRemoved`;
  `NoReferenceDangles`; `NestingStaysBounded` while no thread is deleted. None
  of them assumes foreign keys: what a statement without them leaves is in
  `lost`. Nesting needs more than the property: once a request has passed the
  depth check with a parent that was there, the chain above its parent cannot
  grow, because parents are set when a row is inserted and never change. With
  deletions a parent's key may return as that of a deeper post.
  `CountersAreExact` holds while no thread is deleted and for finitely many
  goroutines, whatever statements fail. `PlacesInv` says that posts and requests
  in flight name threads that exist, so that a new thread begins with nothing
  posted and nothing on its way; every step then changes the counter, the
  requests that have still to count, the counts that failed and the replies in
  one of the ways of `Recounts`, each of which keeps the equation of their
  cardinalities. `CountersKeepUp` is the half of that equation that survives
  deletions and returning keys: a deletion that cascades takes the posts along
  with their thread and the authors' counters keep what they counted
  (`DeletionShrinks`), and one that does not leaves the thread's key in `lost`.
* **RateLimiter.** `TypeCorrect`; `LimitHolds`; `RetrySuffices`, for the wait,
  for the rounded header with half a second more and for the truncated one with
  just under a second more. The invariant relates the events still held to the
  history of admissions: what a call pruned lies before the cutoff of every call
  that nobody overtakes later. `SliceDecidesOnHistory`, the refinement of
  `Limiter`, rests on the same invariant: for a call in time the events held are
  the admissions of its window, for one overtaken they are some of them
  (`HeldIsRecent`), so a full slice means a full window (`FullMeansNoRoom`), and
  the wait computed from the first event held ends when that one leaves
  (`WaitEnds`), which makes room for a call in time (`RoomAfterWait`).
* **Board.** `TypeCorrect`; `NothingIsOrphaned`, with foreign keys on, off or
  both; `MovesDecide`. The first of the two needs nothing of the locals: the
  constraints alone keep the references where they are enforced, and the checks
  of the handlers only choose the message the admin sees. `MovesDecide` needs
  that the list a request holds repeats no row (part of `TypeInv`), which rests
  on `ListingLists`: a page lists every row once, because the number of rows
  above a row is different for each (`FewerAbove`) and so takes every value
  (`EveryPlaceTaken`, by counting).
* **Members.** `TypeCorrect` and all six other properties of the run.
  `NothingIsLeft` rests on the constraints and `lost` alone. `FeedbackToggles`
  is the refinement: every step maps to a step of Toggling or to a stutter; the
  lemma `ToggleStep` has one case per kind of step. `SidesAreApart` needs that a
  request about to mark or hide a message acts for the side it read
  (`MessageInv`), `ReviewsRemove` that a review about to close a report as
  reviewed has removed its post (`ReviewInv`). `DraftsGetUsedUp` rests on
  `DraftsAreUnique`, that a user has one draft for each place.
  `RepliesAreAnnounced` needs, of a post its reader neither saw nor may miss,
  that the reader's mark is older than the post's stamp, and that the thread has
  been told of that stamp or the handler that will tell it is on its way
  (`FollowInv`).
* **Submissions.** `TypeCorrect` and the three other properties of the run.
  `FileInv` says that the file of a request about to insert its row is whole and
  in no row and no other request's hands; `PictureInv` that a profile about to
  be saved names a picture that is there, however stale; `HoldInv` that a hold
  about to be saved was decided by the blocklist of its request, and that this
  list has the words blocked all the time so far. `FilesAreWhole` is the one
  theorem that assumes foreign keys, as its module does.
* **Server.** `TypeCorrect`; `StoreIsKept`, which rests on `Drains`: the main
  goroutine leaves a listener behind only when it is silent for good; and, when
  roll-backs run alone (`"down" \in Alone`), `CleanIsComplete` and
  `ServesOnlyComplete`, for any number of processes, migrations and statements.
  `SchemaInv` describes the schema by what a migrator in flight has committed:
  one that has created something of its migration has created all there is of
  it, under a dirty version, and whoever migrates up beside it has come too late
  to create anything, because the first statement of a migration fails on what
  exists. So the version is marked clean by nobody but the process that finished
  the work.

Every safety property of every passing run is proved, the three refinements
(of `Registry`, `Limiter` and `Toggling`) included; `AccountsStayUnique` and
`DraftsAreUnique` are proved without a run of their own, because what the runs
check implies them or breaks with them. A run then shows that the cases occur,
and its mutants that the property can fail. Only model-checked are the liveness
properties `StartsOrEnds`, `SignalStops` and `FailureStops`:
liveness, ENABLED and what recursive definitions compute cannot be proved with
the provers used here and stay with TLC.

## 5. Not modelled, and what could follow

* **CSRF, flash, security headers, proxy, recovery, logging**: wrappers of one
  request without state. **Search, rendering, forum pages**: read-only.
  **Configuration**: the constants of the models. **E-mail, the Kanoogi gateway,
  captcha**: services outside the repository; Accounts models what a delivered
  or lost mail means. **Seed command**: fills a development database once.
* **The link limit and the captcha for new users**: pure functions of one
  request, covered by unit tests; of the spam checks only the hold is modelled.
* **The two routes of posts** - Discussion has counters, locks and nesting,
  Members marks and drafts, Submissions holds and files. Each keeps of a post
  what its own properties tell apart. Their product would add states and no
  interaction: a statement of one reads no column another writes, except for the
  existence of threads and posts, which all three have.
* **Time** is a clock in Members and RateLimiter; the age of sessions, links and
  drafts is a choice.

Worth adding next: an abstract specification of the other operations of
Accounts that are safe (links, bans), beside `Registry`; one of a thread whose
replies are counted in the step that inserts them; the daily jobs against the
closing of the store.

## 6. Running

In this directory:

    tlc -workers 2 -config accounts_recovery.cfg MCAccounts.tla
    tlapm Accounts_proofs.tla

A configuration is named after its module: `accounts_*` goes with `MCAccounts`,
`discussion_*` with `MCDiscussion`, `limiter_*` with `MCRateLimiter`,
`board_*` with `MCBoard`, `members` with `MCMembers`, `submissions*` with
`MCSubmissions`, `server` with `MCServer`.
