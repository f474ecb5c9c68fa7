# Formal models of starpulse

starpulse is a small CMS: one Go program, one SQLite file, and several doors
to it (web, gemini and titan, ssh, telnet, a REST API, MCP). This directory
holds TLA+ models of the parts of it where the order of events decides whether
somebody's words, a search result or a login come out right. TLC checks them
on small instances; TLAPS proves nearly all of what they check, and that the
parts implement their abstract specifications, for all values of the constants.

`PROJECT.json` lists the components, the runs, for each property a mutation of
the model that it detects, the source lines behind each definition, the
hazards, the findings and the theorems. Paths below are relative to the
repository, `src/`.

## The system

Everything a page is lives in `internal/store`. All doors call it directly, in
the same process; there is no messaging between components other than these
calls, the HTTP requests of browsers, and shared in-memory state behind
mutexes.

| Component | State | Operations | Hard behaviour | What makes it correct |
|---|---|---|---|---|
| store: pages (`store/store.go`) | tables pages, pages_fts, versions, hits | SavePage, DeletePage, RenamePage, RestoreVersion, Bump, Search | search rows keyed by reusable row ids; rename into and out of hiding; stamps read before the transaction; pruning inside it | search is exactly the visible pages; nothing overwritten is lost; only old history is pruned; views follow the page |
| store: drafts (`store/drafts.go`) | tables drafts, draft_versions | SaveDraft, DiscardDraft, renameDraft, dropDraft | drafts follow pages through renames and deletes | draft history never outlives or joins another draft |
| script engine and its keys (`site/script.go`, `script/`, `store/scriptkv.go`) | runs under way, table script_kv | visit, get, set, delete, end | the script is looked up twice, in up to three queries each; check-then-act on keys and on their number; editors delete and rename beneath a run | counts add up but for overlaps; the limit holds but for overlaps; keys go with the script |
| web editor (`web/admin.go`, `web/assets/admin.js`) | editor pages in browsers, their copies in local storage, requests under way | open, type, save, publish, discard, recover | a save is up to seven store calls; failing calls, lost answers, closed tabs, other doors in between | typed words are never lost; drafts never leak; "saved" means saved |
| login limiter and doors (`auth/throttle.go`, `web/web.go`, `web/api.go`, `web/oauth.go`, `sshui/server.go`) | failures by source | Blocked, Fail, Succeed, gc | check, slow compare and record are separate; late and unordered times; the sweep | locks out exactly whom it should, and never for ever |
| OAuth codes and tokens (`web/oauth.go`, `auth/auth.go`, `cli/serve.go`) | pending codes, requests that took one, the signing secret | approve, put, take, exchange, refresh, log in, restart | parallel exchanges of one code, expiry and sweep, restarts whose errors are ignored | a code buys once, in time, for its client; a token is good until it expires |
| backup and restore (`web/backup.go`) | an archive being read or written | dump, restore (replace or merge) | several reads, any of which may fail, against concurrent writers; a partial restore | a backup is right about what nobody touched; what is restored is what was backed up; drafts stay drafts |
| site: addresses, listings, includes, headers, previews (`site/site.go`, `web/web.go`, `gemini/server.go`) | none of its own: the pages and drafted headers, an edit fetched over titan | resolve, list, redirect, assemble, preview, upload | many names for one page; pages, folders, indexes, scripts and feeds of one name; the target of an upload is chosen before its body is read | links lead; an upload overwrites what was fetched; a preview is what readers get |
| notes and streams (`store/store.go`, `web/api.go`, `web/mcp.go`, `gemini/server.go`, `sshui/ui.go`) | names by minute, seconds of creation | begin, look for a name, save, withdraw | a free name is looked for first and used later; two time zones | no note is lost; the stream is newest first |
| telnet (`telnet/telnet.go`) | slots, sessions and their timers, the state of the byte filter | connect, type, quit, hang up, end, hard limit | four ways to end, several at once; a stream of bytes cut anywhere | slots come back, sessions end, the filter is exact |
| terminal browser (`sshui/`) | sessions with a mode, an editor, a pending view | every key and click | modes and unsaved text; scanners that must not count | no words dropped without a warning; views are counted for people, once |
| feed settings (`web/adminbrowse.go`, `web/admin.go`, `store/store.go`) | the marker page `.feed` of a folder, clicks under way | switch on and off, edit, set how pages are named | read, change one line, save beside the other doors | a setting is the last one that was made |
| update check (`web/updatecheck.go`) | the cached answer, a flag, the next time | render, refresh | single flight, retry delay | one request at a time; news arrives |
| tor, certificates, configuration, install, import, rendering | files, processes | start-up, formatting | none that these models reach | – |

## The modules

| Module | What it is |
|---|---|
| `Store` | the SQLite store: one action per transaction |
| `PublishedSite` | what the store promises its readers; refined by `Store` |
| `Editor` | editor pages, the save handler step by step, the other doors; extends `Store` and implements it |
| `Backup` | writing a backup and restoring it, call by call; extends `Store` and implements it |
| `Scripts` | executable pages, call by call; extends `Store` and implements it |
| `Site` | from an address to a page and back, over the pages of `PublishedSite` |
| `Notes` | posting a note: the name, the save, the stream |
| `Terminal` | the terminal browser: sessions, prompts, the editor, the views |
| `Throttle` | the limiter of failed logins and the steps of a door |
| `Lockout` | what the limiter promises a source; refined by `Throttle` |
| `OAuth` | authorization codes, tokens, the signing secret |
| `Telnet`, `TelnetFilter` | slots and sessions of the telnet door; its byte filter |
| `Updates` | the release check |
| `Feeds` | the marker of a feed, and clicks on its settings |
| `StoreProofs`, `EditorProofs`, `BackupProofs`, `ScriptsProofs`, `NotesProofs`, `TerminalProofs`, `SiteProofs` | theorems about the module of that name |
| `DoorsProofs` | theorems about `Throttle`, `OAuth`, `Telnet`, `TelnetFilter`, `Updates` and `Feeds` |
| `MCStore`, `MCEditor`, `MCBackup`, `MCScripts`, `MCSite`, `MCTerminal`, `MCDoors` | instances for TLC; one `.cfg` per question |

`Store` is the centre. `Editor`, `Backup` and `Scripts` compose it with the
handlers that call it: their actions conjoin actions of `Store`, and each is
proved to implement it. `Site` stands on `PublishedSite`, which `Store`
implements, since addresses depend on nothing else. `Notes` and `Terminal` keep
of the store only what they touch, because what they are about (a race of
names, the modes of a screen) would drown in the rest; each says what it keeps.
The doors share nothing with each other: `MCDoors` runs limiter, codes,
telnet, filter, release check, notes and feed settings as separate *parts* of
one instance, of which a behaviour chooses one, so that their states add up.

### Store

A row of `pages` is a record under its path, `fts` is the search table under
row ids, `versions` and `draftVersions` are sets of rows. The database has a
single connection (`store.go:130`), so each transaction is one action;
`SavePage` is the disjunction of its insert and its update branch, each with
the reindexing, the snapshot and the pruning the code does in that
transaction. Errors roll back and are guards. Row ids are the smallest the
code can get (`INTEGER PRIMARY KEY`: one above the largest in use), because
reuse of the id of a deleted page is what the search index has to survive.

A title or date depends on a page's path and content, so the pair of both
stands for it. A content is a value, a mime type is text or binary. `now` is
the stamp the next transaction carries. It is read before the transaction
begins (`store.go:542`), so `StampsOutOfOrder` lets it move back.

Left out: authors, the settings table, timestamps of pages, the split of
counters by protocol, and feed listings.

### Editor

Each request of `adminSave` carries a program counter through the store calls
of the handler: `look`, `rename` or (`lookDraft`, `carry`, `carrySave`,
`carryDrop`), `write`, `clear`, `confirm`, `answered`. Between any two of them
other requests, other doors, the browser and a crash of the server
(`ServerStops`) can come. `CallFails` lets the store call of a step fail:
the handler goes on or answers with an error as the code does. `Accept` and
`Ignore` are the two ends of an answer: `admin.js` acts on it, or it was bad or
never arrived.

A tab holds the address it was loaded from, the path field, the old name, the
text and a recovered copy on offer; `stash` is local storage. `Words` are the
texts typed, each a value of its own so that it can be followed. `fate` is a
history variable: a word is *kept* from when it is typed until its author
replaces it or throws it, knowingly, away.

`Precautions` says what the author takes care of:

* "answers": answers the offer of a recovered copy before going on;
* "waits": neither types nor saves while a save is under way;
* "looks": saves over no unpublished words other than those in the box;
* "matches": discards a draft only while the path field holds its name.

Run `author` has all four, because the code gives no protection without them:
run `hasty` takes "waits" away and loses words (see Findings); without "matches"
the discard form throws away a draft other than the one its dialog names. The
other two are choices of the author that the editor shows, not faults.

### Backup

`dump` is a backup being written: the listing still to be read (`todo`), the
zip so far, and, as history, the paths written to since it began (`touched`)
and what a failing read has left out (`unread`). It goes
through the pages, lists and goes through the drafts, and ends with the data
of scripts, one action per store call (`backup.go:101`). Where `ReadsFail`, any
of these calls can fail: the handler passes over the page or the draft, over all
drafts, or over all data (`backup.go:131`, 142, 145, 176), and goes on. A page
listing that fails is an error and makes no zip. `archive` is the last
zip that was downloaded whole. `restore` takes its entries: pages by `SavePage`
with the mime type of their extension (the zip has none), drafts by
`SaveDraft`, data by `ScriptKVSet`, then, when it replaces, a listing and a
`DeletePage` for every page it has not written (`backup.go:252`). `SkipEntry`
and the last branch of `DeleteUnseen` are calls that fail, which the handler
passes over; without its listing nothing is deleted. `Elsewhere` is any other
door, between any two of these calls; `clean` remembers that nobody wrote and nothing failed.

Other doors publish contents outside `PrivateContents` and keep drafts of those
inside, so that a leak is visible. Only one backup or one restore is under way
at a time: a restore makes no call of the store that `Elsewhere` does not make
too.

### Scripts

A visit looks for the page that answers its address (`ScriptFor`): `Find` asks for
one of its three candidates after the other, a query each, and `ResolveAgain`
does the same a second time, for the format (`site/script.go:82`); then it loads
the page, and runs. `changed` remembers that a script of the address came or went,
or could not be looked up, since the visit began. Where `StoreFails`, any read may
fail and is taken for finding nothing, as the code takes it: no page, a key never
written (`Value`), fewer keys than there are (`KeysRead`). The program
is one that counts, the shape every script with a counter or a high score has:
`Get` reads a key, `SetLook`, `SetCount` and `SetWrite` are the three store calls of
`storeSet` (`script.go:235`), `DeleteKey` removes one, and `End` is the end, an
error, or the time limit, at any point between two calls. Editors save, delete
and rename the same pages. `counted`, `outlived` and `misread` (a count that failed
has let a key past the limit) are history.

### Site

A path or an address is a folder, a stem and the extensions after it, which is
what the rules of `resolve`, `ListPages`, `pageURL`, `titanTarget` and
`DefaultExt` tell apart. `Answer` is the cascade of `resolve` with the gates of
feeds and scripts in front of it. An upload is three steps, as in `serveTitan`:
its target is chosen (`ChooseTarget`, `server.go:499`), its body is read from the
network, and the page is saved or deleted (`Upload`, `UploadNothing`); anything can happen between them.
`Assembled` and `Preview` put a page together with its includes (with their stack
and their depth), the counter of its address and the nearest header. Readers' pages
take theirs by `wrapper`, previews by `draftWrapper` (`site.go:338`), a routine of
its own that looks at drafts too: `Wrapper` and `DraftWrapper` are translated each
from its own, and `PreviewIsServed` compares what comes out before a save with
what is served after it. Pages come, go and move by the actions of
`PublishedSite`.

### Notes

A post asks for the time once, then tries names by one query each (`Look`), then
saves (`SaveNote`), which overwrites whatever has come to that name. The API,
MCP and the editor name notes by the zone of the site, titan and ssh by that
of the server: `Zones` and `ZoneShift`. `before` remembers for each note which
notes stood when it was begun, and `fate` what became of it.

### Terminal

A session handles one message of its terminal to the end before the next, so a
key is one action. `Go` is what every change of address does: counting, or
keeping the view pending until the session shows signs of life (`wake`,
`ui.go:229`). What the site is like is given by constants: `AnswersTo` lists
the pages an address may show, of which the first that is there is shown
(`PageAt`); `CountKey` is the key its views are counted under, the address without
its last slash (`site.go:391`); `ClearedKey` is the key a deletion clears, the path
without `.gmi` (`store.go:671`). Two addresses may share a key, and a page may be
counted under one and clear another. `people`, `shown` and `lost` follow the views,
`settled` the words that the person at the keyboard has opened, saved or been
warned about. A transaction that fails only shows a message, with one exception:
the editor opens empty when the page cannot be read (`ui.go:666`), as it does when
the page is gone.

### Throttle

An attempt goes `check` (is the source locked out?), `compare` (bcrypt, with no
lock held), then `record` or `clear`. Every door has these steps: the login form
(`web.go:397`), the bearer token (`api.go:35`), the consent page
(`oauth.go:259`), client credentials (`oauth.go:385`) and ssh
(`server.go:106`). The web doors share one limiter, ssh has another; a model of
one stands for both. A valid session or OAuth token bypasses the limiter and
touches nothing in it.

Time is kept as ages that all grow with `Tick` up to `Oldest`, so that time
never ends in a finite model and liveness can be checked. `stamp` is the age of
the time an attempt read before it asked for the lock; it can wait there for at
most `Lag`. `NoEntry` is both a missing entry and the zero `failState`, which
the code treats alike.

### OAuth

`Approve` is the right password on the consent page, which draws a code and its
expiry; `Put` puts it into the table under the lock, after sweeping what has
expired; `Take` takes it out under the lock; `Exchange` is the rest of the token
request. Any client may present any code that was put, more than once and with
the callback of its choice. A token is its expiry signed with the secret of the
server. `OAuthRestart` loads the secret and loses codes and requests. Both errors
that `serve.go:68` ignores are in it: a setting that cannot be read looks like
none, so that a new secret is drawn and saved over the old one; and a secret may
be signed with although saving it failed, also at the first start. `doubtful` is
history: the secrets that a start could not read or could not save. Tokens are
dropped from the model once they have expired.

### Telnet, TelnetFilter, Updates, Feeds

A connection takes a token of the channel, a goroutine runs the program, and a
session ends by `Quit`, `InputEnds` (the connection is closed, or idle for
`IdleTimeout`) or `HardLimit`; then `RunReturns`, then `GiveBack`, the deferred
receive. Timers may fire late, never early. The filter reads byte by byte as
`feed` does; its promise, `FilterIsExact`, compares its output with a grammar of
the whole stream, which knows no modes: an item (a byte of text, an escape, a
command, a negotiation, a subnegotiation) is told by where it begins and ends
(`Item`), and the items are those that follow each other from the front
(`Fronts`). `Updates` tells time by what is left until `nextCheck`, so that it
needs no end. In `Feeds` a click is `ReadMarker`, then `SaveMarker`
(`adminPrefix`), between which other doors write the marker (`ByHand`); what a
marker says besides the line that is set is one value. `said` is what was last
written by hand, `late` and `revived` follow the clicks that had read before.

## What the runs check

No run assumes fairness except `patience`: everything else is safety, and
holds whatever is scheduled.

| Run | Instance | Shows |
|---|---|---|
| `pages` | a visible and a hidden path, two contents, text and binary, 2 versions kept, 3 version ids, stamps in any order, one key of script data | types; search and titles exact (`IndexConsistent`, `TitlesBelongToNames`); pruning takes only old snapshots; the store implements `PublishedSite` |
| `drafts` | a path with a row of counters of its own and two that share one, drafts of the first that a rename can carry to the others, counters up to 2, one snapshot of each kind kept, stamps in order | draft history has its draft; a surviving page keeps its views; no content is lost (`OverwrittenContentIsKept`) |
| `author` | one tab, two saves, two typed words of which one is private, three names of which one gains an extension, other doors saving, deleting and restoring; renames, writes, clearing and confirming may fail | no typed word is lost; private words never published; a confirmed save is stored; a save under a new name leaves no draft behind |
| `archive` | two paths, two public contents and a private one, drafts of one path, data of the other, 2 page and 2 version ids; either backups until one is whole, whose reads may fail, or backups and restores, whose entries may fail | a backup is right about every path nobody wrote to meanwhile, but for what it could not read (`DumpHasWhatStayed`); an undisturbed restore is faithful; no draft is published |
| `doors` | two sources and two attempts at once, lockout after 2; two clients, two codes, two exchanges at once, two callbacks, restarts that make up to two secrets and may fail to read or to save one; streams of 3 bytes, and of up to 10 inside a subnegotiation; three visitors for two slots; three notes by two posts at once in two zones over two midnights; two clicks at once on the settings of a feed | who is locked out is exactly who should be, through sweeps and late records, and `Lockout` is implemented; a code buys once, in time, for its client, and stays until then; a token outlives restarts unless a start failed on the secret it is signed with; the filter is exact; no note is lost and the stream is in order; a feed is as it was last set (`SettingsAreTheLastWord`), but for clicks that read before |
| `patience` | one source, three attempts at once, lockout after 3; three visitors, two slots; two pages, two refreshes, two releases; with fairness | every lockout ends; every session ends and gives its slot back; one refresh at a time; a new release is shown some day |
| `scripts` | two runs of one script, three keys, one of them allowed, counts up to 2, a path to be renamed to; or two visits of one address whose three scripts come, go and are renamed between any two of up to six queries; any read may fail | counts add up, the limit holds but for overlaps and failed counts, keys go with the script; the format is that of the script shown (`FormatIsOfTheScript`) |
| `site` | ten paths with colliding names in two folders, gemtext and text, one titan client; or six paths of which two are headers that can be drafted, and ten contents: with includes, a loop of them, the counter, a header of choice and none | `LinksLead`, `TitanWritesWhatWasFetched`; a preview is what is served afterwards (`PreviewIsServed`) |
| `terminal` | a guest and the administrator; either a home page, a script, a header and a note, with 2 views counted, or a folder with an index page and a picture, beside a page counted under the key of the folder, with 3 | `DiscardsAreWarned`; a guest never comes to an editor and changes nothing (`VisitorsOnlyRead`); views are counted for people, once (`ViewsAreOfPeople`), also over deletions by either |
| `hasty`, `draftlost`, `skipped` | the smallest instances that show it | the findings below |

Where an instance is "one or the other", or a run is of parts that share nothing
(`doors`), the MC module has a variable `part` that a behaviour chooses at first and
keeps, and `Next` keeps it to that part: their states add up and do not multiply.
The operators that do so (`Alone`, `OneScript`, `OnlyVisits`, `EverythingIsRead`,
`OnlyAddresses`, `OnlyPreviews`, `Keeps`, `NothingIsWritten`) only leave steps out,
and what one part leaves out is done in another. `OAuthInTurn` leaves out steps that differ from
others by the names of codes, clients or exchanges alone.

**Why these bounds.** The search index needs two paths, one of them hidden, and
two row ids to see an id reused and a row left under an old name. History needs
one snapshot more than is kept, in either order of stamps. A draft that adopts
another's history needs two paths. Views that go with a page, and views that two
pages share, need two keys of the counters and a third path. In the editor two saves are one under way
and one after it; with one private and one public word a leak and a loss
both show; the third path is needed for a name that gains its extension on
saving. The limiter needs two sources for one to sweep the other's entry, two
attempts for an unordered record, a `Window` above `Lag` and ages beyond twice
the window. A restore needs one page the zip has and one it lacks, two public
contents to see an overwrite, and two version ids for an overwrite and a delete.
A code needs a second client to present it, a second exchange to race with the
first, a second code for one approval to sweep the other, and a clock that
passes `CodeTTL`. The filter needs a subnegotiation of all five bytes with an
escape in it; `SubMax` is 64 in the code and the model, and a stream of ten
bytes does not reach it. A lost note needs two posts with one name and a third
note to be overwritten; a name of its own zone and a day of two minutes bring
midnight into reach. Two runs are enough for every overlap of two store calls;
with one key allowed, two pending keys exceed the limit. A format that is not its
script's needs the three candidates of one address and editors between the queries
of one visit. A start that goes wrong needs a secret before it and one after. A lost page of a backup needs a second one that is found. The site needs a page
and a folder of one name, an index, a page with an extension of its own, a
script and a feed marker; previews need two headers, one below the other. In the
terminal three views are the one a session opens with, one that is being counted
when another session counts too, and one more after a deletion has cleared a key
(a bound of two would leave no view for the home page that a deletion by the
prompt shows, and so block it); a picture, an index and a page with the key of its
folder are the kinds of pages that count differently, and keys do not. The theorems
take most of these bounds away.

**Every bound.** `PageIds`, `VersionIds`, `DraftVersionIds` (rows ever alive at
once), `Times`, `MaxHits`, `Tabs`, `Requests`, `Words`, `RestoreIds`,
`Addresses`, `FailingCalls`, `Attempts`, `Oldest`, `DraftPaths` and `ScriptPaths`
(what other doors keep drafts or data of), `Codes`, `Exchanges`, `MaxTime`,
`MaxSecret`, `MaxStream`, `MaxInSub`, `Refreshes`, `NoteIds`, `MaxPosts`,
`MaxClock`, `MaxNumber`, `Runs`, `Edited`, `MaxValue`, `Allowed`, `MaxViews`,
`Clicks`, `Lines`; and in `keys` of `MCTerminal` two views.
Running out of ids, requests, codes, notes or time ends a behaviour, so deadlock
is looked for only in the runs where nothing runs out: `patience` and `site`.
`author` leaves out failures while a draft is carried to a new name: the
handler ignores these, and a draft then does stay behind under the old name
without a complaint. No words are lost even so: `NoWordsAreLost` holds for every
set of failing calls.

**Fairness.** `FairSpec` of `MCDoors` has three parts. The limiter's: the clock
ticks, and an attempt that has read the clock gets the mutex (weak fairness of
`Tick` and of `Check` or `Record` of each attempt); Go's scheduler and a mutex held
for a few map operations justify both. Nothing is assumed of the sources: they
may knock for ever, and a password comparison may never end. Telnet's: time
passes, the timer of the hard limit fires, and a goroutine whose turn it is runs
on (weak fairness of `TelnetTick`, `HardLimit`, `RunReturns`, `GiveBack`). Nothing
is assumed of visitors, who may type for ever and never leave. The release
check's: pages go on being rendered, time passes, and a request is answered or
times out (weak fairness; `http.Client` has a timeout), and among answers that
come again and again some are not failures (strong fairness of `Answer`: without
it GitHub may be down for ever, and no news could arrive).

Each property of a passing run comes with a mutant in `PROJECT.json`: a small
bug in one mapped definition, kept beside it as `Name_bug`, which makes TLC
report that property.

## Findings

Each is a run that TLC ends with a counterexample.

* `hasty`: an answered save clears the unsaved mark and the local copy of words
  typed after it was sent.
* `draftlost`: a restore that replaces brings back a draft and then deletes the
  page which has come to its path since the backup, and with it the draft.
* `skipped`: a restore that replaces deletes a page whose entry it could not
  read, as if the zip did not contain it.

Other differences between words and code, met while modelling, have no run of
their own. The properties above are stated so that they hold beside them.

*Store.*
* `DeletePage` and `RenamePage` snapshot without pruning, so history can exceed
  the `KeepVersions` that `store.go:28` calls a cap until the next save.
* `pruneVersions` orders by a stamp that is read before the transaction and from
  the wall clock: a snapshot stamped before older ones is deleted by the save
  that took it.
* `/f` and `/f.gmi` count views under one key; renaming or deleting one takes
  the views of the other, and deleting the page `/d.gmi` takes those of the folder
  `/d/`. A rename from one to the other loses all views of the page: the upsert of
  `store.go:786` adds the row to itself, the `DELETE` after it removes it, though its
  comment says that stats follow.
* Deleting an index page clears the counter of `/d/index` (`store.go:671`); its
  views, counted under `/d` (`site.go:391`), stay, though `store.go:668` says that a
  deleted page leaves none. So do views of `/about.gmi` asked for by that name.
* The stream breaks ties within a day by creation (`store.go:412`), which a page
  that was taken over keeps, and notes of one second come in any order. The Atom
  feed calls itself newest first too (`feed.go:118`), but compares whole days and
  keeps the order of the paths within one: a day's notes are oldest first there.

*Web.*
* A backup passes a page over on any error of reading it (`backup.go:131`), not only
  on "deleted between listing and reading" as the next line says; the zip is served
  as whole, with the number of all pages in its manifest.
* The discard dialog names the page that was loaded, the form posts the name in
  the path field.
* Two tabs at one address have one copy in local storage between them: each
  overwrites the other's, and a save of one clears it while the words of the other
  are nowhere else. A draft carried to a new name by one tab replaces one that
  another has there.
* `adminPrefix` can bring back a feed that was switched off meanwhile, and undo
  what was written to its marker (`Feeds`; the property excepts exactly this).
* A start that cannot read the secret saves a new one over it, which logs everybody
  out for good; one that cannot save its secret logs them out at the next start
  (`serve.go:68`; the property excepts exactly this).
* The limiter's window restarts with every failure, so spaced failures add up
  to a lockout without ever being `max` within one window, as `throttle.go:32`
  words it; `Lockout` states what the code does.

*Site and titan.*
* The preview of an index shows the counter of `/d/index`, its readers that of `/d`
  (`site.go:311`), though `site.go:299` says "exactly as pageResult would if
  it were saved"; `PreviewIsServed` excepts this.
* A file named `.gemini` is listed at an address that does not lead to it; search
  hits of executable pages, and `.cgi` entries of the terminal's goto list, give
  the path of the source, which is not served.
* A page whose name has a dot of its own, like `a.v2.gmi`, is fetched at `/a.v2`
  and written back to `a.v2`. A titan upload to the address of a folder with a
  feed posts a note. `server.go:496` says that the extensionless URL of a
  directory edits its index; the code writes a page of that name beside it.
* Two kinds of names that the proof of `LinksLead` turned up: a page `x.cgi.gmi`
  gets the address `/x.cgi`, which is refused as the source of a script
  (`site.go:127`), and a page named just `index` is given the address of its folder
  (`web.go:389`), which shows the folder's `index.gmi` or a listing.

*Terminal.*
* A view that is still pending is counted although its page was deleted
  meanwhile; a view reached by a redirect is not counted.
* `r` and esc on a search page open the prompt again; `e` on a page that was
  deleted meanwhile, or cannot be read, opens an empty editor, and a save from it
  overwrites what is there.

## What is proved

Of the 40 properties that passing runs check, 36 are theorems; the other four
stay with TLC (below). All proofs hold for every value of the constants that
satisfies the named ASSUMEs: sentinels differ from what they stand in for, ids
and times are numbers, the words of other doors are not private, `Lag` is at
most `Window`, connections, runs, keys and sessions are finitely many, adding
the default extension twice is adding it once. What a theorem assumes beyond
these is in its ASSUME and named here.

**Store.** `TypeCorrect`, then `IndexInvariant`: `IndexConsistent` alone is not
inductive, because nothing in it says that two pages have different ids, so a
delete could take the search row of another. `IndexInv` adds `IdsUnique` and
`TitlesBelongToNames` (the search row repeats the title). Insert, overwrite and
rename all write one row and rebuild its search row, and one lemma covers them.
From it follow `SearchIsExact`, `TitlesAreFresh` and `StoreImplementsSite`.
`NothingIsLost` proves `OverwrittenContentIsKept` when `StampsOutOfOrder` is
false, from the invariant `NoFutureVersion`: no snapshot is newer than now,
so the one just taken has none before it and survives the prune.
`DraftHistoryFollowsDraft` proves `DraftHistoryHasDraft`.

`PruningTakesTheOldest`: the snapshots newer than a pruned one may be pruned
with it, so that the condition of `Prune` does not say how many stay. Of those
that go, one is newest (`Newer` is a strict order of a finite table, by the
library's well-founded induction on subsets); all above it stay, and they are
above the others too. `ViewsFollowThePage` needs no assumption: its property
excepts the pages that share a key with another, and the renames from one name
of a key to the other, for which it is false (see Findings).

**Editor.** `EditorTypeCorrect` rests on the fields each pc needs
(`RequestsOK`, `WaitingTabsAreOpen`). `EditorImplementsStore` shows that every
step of browsers, handlers and other doors is a transaction of the store or none,
so everything proved of the store holds under the editors, in particular that
they implement `PublishedSite`. `DraftsStayPrivate` proves that
`UnpublishedStaysPrivate`; `PrivacyInv` adds that no publish under way and no
version being restored carries private words.

Three theorems are about authors who take precautions. All need "waits", from
which `OneAtATime` follows: no two saves are under way.

* `ConfirmedIsStored`, in a store that keeps all history (`KeepVersions` 0, as
  otherwise another door's saves may prune the text before the answer): a save
  past its write finds its words where it wrote them (`WritesAreTheirs`).
* `DraftsComeAlong`, if no call that carries a draft fails (`CarryingCalls`):
  a save past its moves has left no draft under the old name (`NothingIsLeft`).
* `NoWordsAreLost`, for `CarefulAuthor`: all four precautions, one editor page at
  a time, all history kept; any calls may fail. `WordsAreHere` alone says only
  that words are somewhere, which a step could take away. `WordsInv` says why
  none does: the copy of an open page is its text or what it offers
  (`CopiesAreOffered`); a page waits for its save unchanged (`TabsWait`); if its
  words are only a draft, the draft of its name is that one (`TabText`); and a
  save that is under way carries, replaces, drops and answers for those words
  and no others (`OrdersAreKept`: `Named`, `Carries`, `Looks`, `Drops`, `Answers`).
  TLC checked `WordsInv` on the instance of `author`, and with all nine calls
  failing.

**Limiter.** `ThrottleTypeCorrect` includes that a lock is always that of the
last failure (`LocksAreOfLastFailures`), without which neither a sweep nor a
reset could be shown harmless. `ThrottleImplementsLockout` maps an entry to its
run, and to no run once it is too old to be continued: what the sweep deletes
is exactly invisible because twice the window is at least a window and a `Lag`.
`RefusalIsExact` follows.

**Backup.** `BackupInv` says that a restore reads only entries its zip has, and
that no zip has private contents among its pages; the types alone would allow
a restore that saves a missing entry. `StepCalls` shows that each step is one
call of the store, and publishes nothing private; from it follow
`BackupTypeCorrect`, `DraftsComeBackAsDrafts`, `BackupImplementsStore` and
`BackupImplementsSite`. The last two assume `DraftPaths = Paths`: a smaller
`DraftPaths` is a bound for TLC. The lemmas on `Unpublished` serve the editor's
proof and this one.

`RestoresAreFaithful` is inductive with `RestoreSoFar`: what of the zip is back at
each call, that all pages are seen before drafts and data follow, and that
what is still to be deleted is never among what was written.
`DumpsHaveWhatStayed` needs `DumpSoFar`: for every path nobody has written to since
the dump began, the zip agrees with the store, or the path is still to be read, or a
read of it has failed, although its listings are old by then.

Two theorems say how far the findings reach. `SparedDraftsSurvive`: an undisturbed restore brings every draft back, unless it replaces and the zip
has no page at the path. `ReadableZipsAreSpared` proves
`OnlyMissingPagesAreDeleted` where no entry and no call fails (`EntriesFail` is
false): a page of the zip has been written before the deletions are listed
(`DeletesSoFar`). `WrittenPagesStay` needs no assumption: whatever fails and
whoever writes, a restore deletes nothing it has written.

**Scripts.** The keys a script has and those let through but not yet written
are, together, at most the limit and one for each other run (`Room`). Counting
writes alone would not be inductive: a key that was there when it was looked up
can be deleted while the write is on its way. `LimitHolds` follows; `KeysGo`
needs that a run under way has its page or one that was taken from under it
(`ActiveAreThere`). `ScriptsImplementStore` makes the store's theorems hold here.
`CountsAreExact` is inductive with `CountsInv`: as long as a count is followed,
every run between its read and its write holds the value that stands.
`FormatIsRight` rests on `ChoiceInv`: until a script of the address comes or goes,
or is missed by a query that fails, the candidates a search has passed are not
there, the one it found is, and a second search can only stop at it.

**OAuth.** An exchange that can still buy holds a code that is spent, has
bought nothing and is held by no other, and what it remembers is what was asked
(`ExchangesAreAsked`, `OneExchangeOfACode`); `CodesBuyOnce` follows. `CodesAreKept`
is inductive with `CodesAreAsked`, which fixes the expiry in the table.
`TokensStayGood` rests on `OneSecret`: the secret in use is the saved one or one
that a start failed on, and every token is signed with the one in use or with one
that a start failed on. A start that can read its secret therefore harms nobody,
whatever the others did.

**Notes.** `NamesWereFree`: the name a post is about to save under has none of
the notes that stood when the post began, because it was free when it looked,
and a note is saved once. With it, and with each note on one page at most,
`NotesStay` is inductive. `StreamIsInOrder` adds `StreamInv`: no name or stamp is
ahead of the clock (`NoneIsAhead`), and of two notes of one zone the one that
stood when the other was begun has no later minute, whether the other is saved
or still looks for a name (`InOrder`). `NotesImplementSite`: what `Notes` keeps of
the store does no more than the store allows; its folder implements
`PublishedSite`.

**Terminal.** `CountersCountPeople`: a session that has not been used owes the
counters the one view it opened with, and one that has been used owes none
(`Debts`); a step therefore adds to the counters exactly the views it adds to the
set of those shown to people, a set of pairs whose size the lemmas follow. Nothing
is assumed of keys but that each address has one and a deletion clears one.
`NoWordsAreDropped` needs that an editor not marked as changed shows words
already settled (`WordsAreSettled`). `VisitorsNeverWrite`: the keys of the editor
ask for no rights, and a page picked in the prompt for an address is opened in the
editor when it is hidden, whoever picks it (`ui.go:575`). `VisitorsAreQuiet` says why
no visitor gets there: its session browses or is in a prompt, never the one for
a new page, and what the prompt lists has no hidden page. The addresses it lists
are not hidden because no visible page lies in a folder with a dotted name
(`CleanPath`, `store.go:170`); `TerminalAssumption` says so.

**Site.** `LinksShowTheirPages` is about operators more than steps: which of the
rules of `resolve` comes to an address first. For uploads `PathInv` adds that what
was fetched from an address is a page that address can show (`FetchedByAddress`);
three kinds of pages are. A target that was chosen by then is the page fetched, or
one of the exceptions held when it was chosen (`TargetsAreSettled`), so that what
others do while the body is read makes no difference.
`PathImplementsPublishedSite` shows that the pages of `Site` move as the store
allows.

**Telnet, release check, feeds.** `SlotsComeBack` is inductive with the types;
`SessionsFitTheSlots` follows from the size of the channel. `OneRefresh` needs
that the flag is set exactly while one goroutine asks, and that no answer is
ahead of what is released or behind what is shown. `MarkersAreKept` needs
`ClicksAreInTime`: a click that is not late is about to save the lines last
written by hand.

`FilterIsRight` proves `FilterIsExact` for streams of any length and
subnegotiations longer than `SubMax`. Its invariant, `FilterInv`, ties the mode to
the grammar: the front of the stream is where the complete items end, the mode
tells how much there is of the item after it, `sub` is what that item says so
far, cut at `SubMax`, and the output is what the complete items say. A byte either
lengthens that item or completes it and adds one place, greater than all before,
to one of the three sets that the output is read from. The library's induction
takes a predicate as parameter, which no installed prover can give it; `AllNumbers`
puts it as a set of numbers that has 0 and the next of each it has, and rests on
the well-foundedness of the numbers. With it are proved that the recursive
function in `Fronts` exists and is what it says (`RepeatedForever`), and that a set
of places read in ascending order is a sequence that grows at its end.

**Only model-checked.** `LocksLapse`, `EverySessionEnds` and `NewsArrives` are
liveness under fairness, beyond the prover; `PreviewIsServed` compares two runs of
a recursive function over the pages a document includes, which would need an
induction over data. Of the findings, `WordsAreHere` is
proved for authors who wait (`NoWordsAreLost`), and those on backups and restores
where their cause is absent (above, **Backup**). No module has a `RECURSIVE` operator.

## The plan

All modules above are done, with their proofs. What a next step would be:

1. Two saves of one tab answered out of order. Several tabs are modelled (the
   invariants of `Editor` hold for any number), but `NoWordsAreLost` is about one
   at a time, and does not hold for more (see Findings).
2. `Terminal` over `Store`: its editor beside the editor of the web, and a
   proof that its saves and deletions are those of the store.
3. The keys of `Terminal` tied to the names of `Site` and to `HitKey` of `Store`;
   here they are constants, and a theorem holds for any.
4. `Notes` over `Store` with its history, beyond the published site it is proved
   to implement.

## Not modelled, and why

Rendering, highlighting, diffs and themes are pure formatting. Tor,
certificates, installation, self-update and configuration are files and
processes. The admin browser lists and searches; its one write is in `Feeds`.
Seeding and importing are sequences of `SavePage`. Signatures,
hashes and random codes are taken to be perfect. `PublishDraft` and `SetMax` have
no caller outside the tests. SQLite is taken to be what it promises:
transactions are atomic and survive a crash, so a crash of the server is a
request cut short between two of them. Inside modelled parts: sizes and quotas,
the language of scripts, directives other than include, footers and stylesheets
(chosen like headers), authors, and the text of messages.
