# aad-auth: specifications, model checking and proofs

aad-auth lets users of Azure Active Directory log in to a machine. This directory
models the part of it that is hard to test: one cache of users and credentials,
written and purged by processes that know nothing of each other.

## 1. Inventory

| Part | Source | State it keeps | Operations |
|---|---|---|---|
| Cache database | `internal/cache/{cachedb,passwddb,shadowdb,groupdb}.go`, `db/*.sql` | tables `passwd`, `groups`, `uid_gid` in `passwd.db`, `shadow` in `shadow.db` | create files, look up by name or id, insert a user, record an online login, purge, edit an attribute, iterate |
| Cache pool | `internal/cache/cache.go` (`New`, `Close`) | map `openedCaches`, a reference count per cache, teardown goroutines | open or reuse, release, tear down when idle |
| PAM login | `pam/`, `internal/pam`, `Update` and `CanAuthenticate` of `cache.go` | the locals of one call | authenticate online and record it, or offline from the cache |
| Azure AD client | `internal/aad` | none | accepted, denied, no network |
| NSS module | `nss/src` (Rust) | none; opens the cache at each call | purge when root, answer passwd, group and shadow queries |
| aad-cli | `cmd/aad-cli`, `internal/user` | none; opens the cache | show and edit a user, move a home, edit the configuration |
| Configuration | `internal/config` | `aad.conf` | load with the section of a domain, validate |
| Go NSS bindings | `internal/nss` | one enumeration per database, on the pooled cache | look up by name or id, start, continue and end an enumeration. The tests use it; the NSS module is the Rust one |
| Loggers, translations, generators | `internal/logger`, `internal/i18n`, `internal/generators`, ... | - | output and build time only |

How they interact: a PAM application loads the PAM module, which asks Azure AD,
opens the cache through the pool and reads or writes the tables in several
separate queries and transactions. Every `getpwnam` of a process of root runs the
NSS module, which opens the same files and purges them. `aad-cli` opens them too,
with default options, and so purges as well. Nothing but SQLite's locks
coordinates these processes.

What is hard: a login reads a uid or chooses one and uses it two transactions
later; a new user carries the zero date until its second transaction; the purge
exists twice, in Go and in Rust, and the two differ; names are hashed to uids and
collide; processes die in between; a cache object is shared, counted and closed by
timers; the cache is created by a dozen system calls that nothing serialises; `aad-cli`
looks at a user, a directory or a file and acts on it several calls later; a transaction
spans two files that are committed one after the other; the threads of a process share
the cursors of one cache and a pool of connections that are not alike.
`PROJECT.json` lists each hazard at its line.

What makes each part right: the tables never hold half a user or an id of two
people; a credential is its owner's last; an offline login needs a recent online
one; a purge takes nobody who may still log in; nobody accepted is refused because
of leftovers; a login ends; a cache is open while used, opened once and closed when
idle; opening never removes what was recorded nor leaves a cache nobody can open;
only a server that did not answer sends a login to the cache; moving a home loses no
file; the installed configuration is always one that loads; an enumeration read to its
end is complete, and no cursor outlives its enumeration.

## 2. Modules

* `CacheDB` - the tables as sets of rows, the queries as operators, the
  transactions `insertUser`, `updateOnlineAuthAndPassword`, `cleanUpDB` as actions
  on them. Columns no guard reads are left out. A transaction is one step.
  bcrypt is external: a hash identifies its password, the empty string matches
  none, passwords of `TooLong` are refused. Each transaction is given as its half on
  `passwd.db` (`InsertPasswd`, `UpdatePasswd`, `CleanUpPasswd`) and the rest.
  `Duration` is the 64-bit product of days and nanoseconds, which wraps.
* `NssCache` extends it with `cleanup_expired_entries` of the Rust module and the
  lookups by name and id, the enumerations and the hooks libc calls, with their NSS
  status and the mask on the shadow password.
* `PamLogin` extends `CacheDB` with one login at a time per process. `pc` names the
  call a login is about to make: `aad`, `new_online`/`new_offline` (`cache.New`),
  `can_auth`, `get_user`, `probe` (a round of `generateUIDForUser`), `insert`,
  `update`. `outcome` is the reason a login ended, `PamStatus` the code PAM gets.
  `opened` is what the pool of the process holds (a reused cache is not purged).
  `lastUpdate` is a history variable: what a login last committed to its own user's row
  (nothing, when the row is gone: `HasRow`). A home
  pattern is the sequence of its modifiers, which `parseHomeDir` accepts or refuses.
  Failures of the database or of `New`, and the death of the process, may happen at
  every call.
* `AadAuth` composes logins, root's NSS lookups, `aad-cli` and the clock, and states
  the properties. `MCAadAuth` gives instances. The history variable `lapsed` becomes
  true when a purge takes the row of a login before its last transaction.
* `TornCommit` extends `AadAuth` with a power failure in the middle of a commit.
  `initDB` puts `passwd.db` in WAL mode and attaches `shadow.db`, which has a rollback
  journal; SQLite then commits a transaction on both file by file, so that the half on
  `passwd.db` may be there without the other. `MCTornCommit` gives an instance.
* `CachePool` - `New`, `Close` and the teardown goroutine on `openedCachesMu` and
  `usedByMu`.
* `SharedCache` - what `New` and `Close` promise, without mutexes, counts and timers: a
  cache that is asked for is open until all who asked have closed it, callers with the
  same options share one, and only a released one is closed. `CachePool!Service`
  instantiates it: a caller has a cache from the return of `New` to that of `Close`.
* `NssGo` - the lookups and enumerations of `internal/nss` by the threads of a process:
  the pooled cache with its count, its one cursor per database, and the connections of
  `database/sql`, of which only the first of an opened cache has run `ATTACH`. A
  lookup is three steps (`New`, the query, the scan with the deferred `Close`), a call of
  an enumeration one, as libc serialises those. `MCNssGo` gives the symmetry.
* `CacheCreate` - `initDB`, with one step per system call: a path names an inode,
  which lives on for those who have it open. `pc` names the call `initDB` is about to
  make, `todo` the files its current loop has left (Go's map order is any order).
  `nss_lookup` is what the Rust module, with its own permission check, makes of the
  directory. `NeverPurge` are the openers whose expiration is 0: `New` gives them the cache
  without looking at the tables. `MCCacheCreate` gives instances.
* `Aad` - `AAD.Authenticate` on every outcome of the MSAL client and every sequence of
  error codes.
* `UserCli` - `updateUserAttribute` and `moveUserHome`, one step per query or system
  call, beside sessions, purges and other runs. `MCUserCli` gives instances.
* `ConfigEdit` - `config.Load` and `config.Validate` as operators on texts abstracted to
  the keys of their sections, and the edit of `aad.conf` through `aad.conf.tmp`, on
  inodes. `MCConfigEdit` gives instances.
* `AadAuthProofs`, `TornCommitProofs`, `CachePoolProofs`, `CacheCreateProofs`,
  `NssGoProofs`, `AadProofs`, `UserCliProofs`, `ConfigEditProofs` - the theorems.

The modules are composed where they share state: `AadAuth` is `PamLogin` and `NssCache`
on `CacheDB`. `Aad`, `CachePool` and `CacheCreate` each refine a step of a login that
`PamLogin` takes at once (`AadAnswers`, the pool's part of `NewReuses` and `Teardown`,
and `NewOpens` on files that exist); `NssGo` takes each section of `CachePool` as one
step.

Definitions named `X_Something` are deliberately wrong variants of `X`, one for
each property a run checks; replacing `X` by it must break the property.

`CacheCreate`, `UserCli` and `ConfigEdit` have a history variable `raced`: it becomes
true when processes meet in a way the code does not handle (section 3, Limits). No
action reads it. All interleavings are explored; the properties that such a meeting
breaks are stated until it happens. `UserCli` also has `overlapped`, for two runs at a
time: `NothingIsLost` needs no more than that.

The unit of time is a day. The clock starts at 0, the epoch of `time.Unix`; the
zero `time.Time` is 719162 days before it, older than any purge time.

## 3. Runs

| Run | What it shows |
|---|---|
| `logins` | root and a member of group shadow, one user, two passwords, NSS and CLI purges, crashes; a grace period twice the default, offline logins disabled, durations that wrap: an offline login needs the password of the last online one, recent enough for the configuration just read; who has an online login stored is let in for as long as it says; no purge takes a user within the period; the cached credential is the last the user proved, with its date |
| `login_collide` | two users of one hash, two root processes, a password bcrypt refuses, NSS purges: the search for a free uid ends after three ids, whatever the other process inserts and purges ahead of it; ids are unique, also against leftovers; users are complete; no orphan credential; all NSS answers about a user agree; no credential reaches the other user, unless a login has lost its row |
| `relogin` | one process, two users of one hash, purges by Go code only, crashes and torn commits: no half of a transaction gives a credential to the other user; the next opening that purges leaves nobody with half of their rows; without torn commits nobody is refused because of leftovers |
| `pool` | three goroutines, two option sets, pending timers: used caches are open, counts exact, one cache per options, no idle cache forgotten, a released one is closed or used again; no deadlock; all of it implements `SharedCache` |
| `create` | two processes of root, one with an expiration of 0, and one of group shadow, at a time, dying anywhere: nobody whose opening purges gets a cache to write that lacks tables; until one opens the cache while another creates it, a recorded login stays, protected and served by NSS to all, and what is open is what the paths name |
| `aad_verdict` | every reply with up to three codes: accepted, denied or offline as it should be |
| `home` | two runs beside sessions and purges, failing or interrupted anywhere: as long as runs do not overlap nothing of the user's is lost, whatever appears at the target meanwhile; until runs overlap, a path is cleared during one or a session begins after the busy check, the files stay a home, a session keeps its home, a reported move is recorded and complete |
| `config` | two edits of nine texts, failing or interrupted anywhere: until they overlap, the installed configuration loads and is never written in place |
| `nss_go` | two threads look up and enumerate group and shadow, beside logins, purges and the teardown: an enumeration read to its end has given every user who was cached at its first entry; every cursor belongs to an enumeration under way and has one connection; each `New` has one `Close`; as long as uses do not overlap, every connection has `shadow.db` |

Three runs are expected to fail; each shows a disagreement between the code and what
the repository says of it (`findings` in `PROJECT.json`):

* `leftovers` - the Rust purge keeps `uid_gid`, so the group of a purged user
  stays, and the user can never log in again: `uidOrGidExists` reports "user already
  exists in cache".
* `purge_config` - `offline_credentials_expiration = 0` is documented to keep old
  users; NSS (and `aad-cli`) purge them after 180 days all the same.
* `lost_login` - "Once signed in online, you are entitled to offline login", says the
  README of the repository. `insertUser` commits a row dated at the zero time, and the date
  is set by a second transaction after a bcrypt hash. A purge in between (root's NSS
  lookup, `aad-cli`, another login) deletes the row; the two UPDATEs (`cachedb.go:204`)
  then change no row, which nobody looks at, and the login succeeds with nothing cached.
  What `OnlineEntitles` adds in `logins` is that a login that was stored does entitle.

### Limits

What the models show beyond the findings, each by dropping the hypothesis named. They
say where the hypotheses of the properties come from.

* `CachedCredentialIsOwn` needs `~lapsed`. The UPDATEs of a login that has lost its row
  select by uid: when a user of the same hash has been inserted at the uid meanwhile, the
  password goes into that user's row. With the constants of `login_collide`, whose two users
  share a hash, `OfflineNeedsOnline` is violated too after such a loss; in `logins` there is
  one user, who may lose a row and find it again.
* `PurgesOnlyExpired` and `OnlineEntitles` are false of a configuration that does not outlast
  the purges: 0 days as soon as anybody purges (`purge_config`), more than 180 where
  `aad-cli` or the NSS module runs, more than twice those of another configuration in use,
  and from 53376 days to 106751, where the doubled purge period is negative while the
  grace period is not, so that every opening purges everybody. Above that a wrapped grace
  period may be negative: it lets nobody in, and nothing is owed to anybody.
* `WritableHasTables` excludes an expiration of 0. Such an opener meets no purge that would
  miss the tables: it is given a writable cache without them when the creator is still at
  work or has died, and its queries fail.
* After a torn purge a row of `shadow` may lack its user. Its uid can never be given
  away again, so that the user who hashes to it is refused for ever
  (`RefusedOnlyIfTorn`); this is also what keeps the credential from the next user
  (`CredentialIsOwn`). After a torn update the old password has the new day.
* `AloneHasShadow` needs that uses have not overlapped. `ATTACH` runs on one
  connection, and `database/sql` opens another when that one is taken, for example by a
  cursor: queries on it that join `shadow.shadow` fail with "no such table", which the
  bindings report as unavailable.
* `EnumerationIsWhole` is about enumerations whose rows have all been read. `Next` of
  `sql.Rows` is also false when reading fails; `rows.Err()` is not asked, so the caller
  takes an enumeration that is cut short for complete.
* A cursor on `shadow` keeps a read lock on `shadow.db` and so keeps logins and purges out until
  the enumeration ends. Nothing bounds that time. Unlike `NewByName` of shadow, whose
  password is `*`, `NextEntry` gives the hash.
* `RecordedStays`, `OpenedIsCurrent`, `RecordedIsProtected` and `RecordedIsServed` need
  `~raced`: `os.RemoveAll` acts on an old `os.Stat` and removes a cache another process
  has created and recorded a login in.
* A process that dies after creating the second file and before its last `chmod`
  leaves a cache that exists, so it is not created again, and that the permission
  check refuses for ever. So nothing is claimed of the success of a later opening.
* `BusyHomeStays` needs `~raced`: a login between the busy check and the rename loses
  its home. `FilesAreAHome` too: `mv` puts the home inside a directory that a login has
  made at the target (Go's `os.Rename` refuses any directory that is there, also an empty
  one). `NothingIsLost` holds in both cases.
* `MovedIsRecorded` says nothing of a run that ends without a move: the attribute
  changes before the move, so after a move that failed the same command finds
  `prevValue == value` and succeeds with nothing moved.
* `InstalledLoads` and `InstalledIsReplaced` need `~raced`: a second editor truncates
  the shared temporary file between the first one's validation and rename, or still has
  it open when it becomes the installed one.

### Bounds

One day stands for the 90 of the default expiration, so a purge comes on the third
day after a login and `MaxDay` of 3 or 4 lets users expire, be purged and come back.
In `login_collide` and `relogin` `PurgeMultiplier` is 1, which brings the purge one day
earlier and leaves the order of events as it is. `MaxDuration`, 2^63 ns in the code, is 6
days: the purge period of an expiration of 7 days and the period itself both wrap, those of
1 and 2 days do not. `NssGo` has as many connections as there can be askers, keeps two
free ones as `database/sql` does, and enumerates group and shadow, one that needs
`shadow.db` and one that does not, passwd being like group.
A uid is 5 .. 9; two users that share a hash occupy at most two ids, so wider
ranges add nothing. Two processes are enough for every interference of two
transactions found; the theorems are for any number. Two passwords tell the old from
the new. `MaxTimers` bounds sleeping teardown goroutines at the time of a call of
`New`; two per cache are enough for a timer of an earlier life of a cache to meet
the next one. In `CacheCreate` each opener opens once: one may create and die, one create
again and record, one read; three inodes per file are enough for one in the directory and
two kept alive by others. One of the two processes of root has the expiration 0. In
`login_collide` one password is too long for bcrypt, so that rows stay without a password.
`logins` has the view `NoOutcome`: how past logins ended is left out of the state, as no
step reads it and that of a login under way is `None`. `UserCli` has two paths on one disk and a third on another, so
that both `rename` and `mv` are taken; `ConfigEdit` one domain, four inodes (a new
temporary file needs one that is neither installed nor one of the two the other editor
has open) and every way a key can be missing or wrong. `Aad` has all codes the
code knows and one it does not. Symmetry is used in runs without liveness: processes of
one mode, passwords, users of one hash, inodes, editors and runs of `aad-cli` are alike.
`CHECK_DEADLOCK FALSE` is set where the system may stop: the openers or the one reply run
out.

### Fairness

`IdleCloses` is the one liveness property. `FairSpec` of `CachePool` has strong fairness
of taking `openedCachesMu` (Go's mutexes are starvation free) and
weak fairness of leaving critical sections; a client may keep its cache for ever.
That the search for a uid ends needs no fairness of the others: each of its rounds goes one
uid further, and `SearchIsShort` bounds how far. With all names at one hash, the worst
case, it is as many uids as names and other processes; one less is violated.

## 4. Proofs

Every property of a passing run but `IdleCloses` and `SearchIsShort` is stated by a
theorem, for all constants that satisfy the assumptions of the modules, some under the
further hypotheses named below.

`AadAuthProofs` proves `TypeOK`, `OneIdPerName`, `EveryUserComplete`, `ShadowHasUser`,
`CachedCredentialIsOwn`, `OfflineNeedsOnline`, `OnlineEntitles`, `PurgesOnlyExpired` and
`NssAnswersAgree`.

* The inductive invariant is `Inv`: types, the unique keys, completeness of users, and no
  orphan in `shadow`. None of the parts is inductive alone: a purge selects rows by uid, so
  it removes whole users only because uids are unique; the id of a group names one person
  only because users are complete. One lemma per transaction shows that it keeps the tables
  consistent, one step per action of a login that its session stays typed.
* Every stored credential is the last its owner committed (`StoredIsOwn`) as long as a login
  about to update selects its own user by uid (`UpdatesOwn`); the lemmas follow the ways the
  tables change: rows go, a user comes, one row is dated. `CredInv` says that both hold until
  `lapsed`, since till then such a login has its row.
* `OfflineNeedsOnline` is proved twice, as it is false in general: a lapsed login may
  put its password into the row of a user of the same hash. `OfflineIsOwn` has `[]~lapsed`.
  `DistinctOfflineIsOwn` is for any processes and purgers where no two names hash to one
  uid: then every user, group and login stays at its own hash (`AtOwnHash`), as a probe can
  meet only the user itself, and a late update finds its own user or nobody. The run that
  checks the property has one user and is an instance of it.
* `PurgesSpareOutlasting` is about each configuration by itself: a purge takes nobody whom
  a login under it could still accept, if it `OutlastsPurges`, that is, its grace period is
  no longer than any period somebody purges by (`PurgePeriods`: what the logins
  under each configuration, `aad-cli` and the NSS module make of theirs) and is not 0 where there is
  one. `PurgesAreLate` states `PurgesOnlyExpired` where that is so of every configuration
  that allows offline logins, `OneExpirationIsKept` for one expiration in use of 1 to 180
  days. The code checks none of this; Limits and the run `purge_config` say what happens
  without it.
* `OnlineEntitles` rests on `StoredOrOver`: what a user's login last stored is in the tables,
  or was too long ago for every configuration that outlasts the purges. `StoredIsEntitled`
  assumes that all do, and `[]~lapsed`; `DistinctIsEntitled` needs neither where no two names
  share a hash, and speaks of the configurations that outlast the purges.
* `NssAnswersAgree` needs besides `Inv` that a user is a member of the group of its own id
  only (`OwnGroupOnly`), which `insertUser` alone could break. Lemmas say what each query
  of the NSS module returns for a name with a row and for one without.

`TornCommitProofs` extends it to power failures between the two files, where `Inv` no longer
holds. `TornAssumption` says that the zero time is further back than the longest period,
106751 days; so a row that carries it is purged at every opening that purges.

* `CredentialIsOwn` and `OpeningHeals` hold in behaviours that stay `Undisturbed`: no login
  has lost its row, or one process logs users in, beside any number of purges. `TornInv`
  says what torn commits can do: a user may lack only its shadow row, and then has
  the zero date; a credential may lack its user, and then keeps its uid from being given
  away; a login about to update selects its own user and no other by uid.
* `RefusedOnlyIfTorn` holds with one process and no NSS purge (`OnlyGo`), which is what
  the run has; the run `leftovers` shows that the NSS purge breaks it. `torn \/ CleanInv`
  is inductive: groups and memberships go with their user, and who is about to insert has no row.

`CachePoolProofs` proves, for any finite set of clients, any options and any set of
cache objects: `TypeOK`, `UsedIsOpen`, `CountIsExact`, `OpenIsRegistered`,
`IdleHasTimer`, and `ImplementsService`.
`IndInv` adds to them who holds `openedCachesMu`, that a client in `reuse` still
has the registered cache, that a teardown past its check works on an idle registered
cache, and that a closed cache with timers left is marked `-1`. The refinement needs of
it that a client's cache is the one of the options it asked with, and that an open
cache nobody is counted for has no client: then `NewReuses` and `NewOpens` are `New`,
`Closes` is `Close`, `TeardownCloses` is `CloseIdle`, and all other steps stutter.

`NssGoProofs` proves, for any finite set of threads, `TypeOK`, `UsesAreCounted`,
`CursorIsInUse`, `AloneHasShadow` and `EnumerationIsWhole`. The parts of `IndInv` need each
other: the count is the number of lookups and enumerations under way, so a cache that is
used is not torn down; an iteration belongs to one thread; a connection has one holder,
a thread in its query or a cursor; so there are at most as many held connections as
threads and databases, and a free one is found (a counting argument on finite sets); what
an enumeration has given and what its cursor still has is what was due at its first entry.

`CacheCreateProofs` proves for any processes, umask and deaths `TypeOK` and
`WritableHasTables` (tables are never dropped from an inode, and the purge of an opener
that is not in `NeverPurge` has found them in the inodes the connection holds, which are
not reused while it does), and
`OpenedIsCurrent`, `RecordedIsProtected`, `RecordedStays` and `RecordedIsServed`. The
invariant of these is `raced \/ AloneInv`: who creates is alone in opening (`Calm`) and does
so when nobody has a cache open and none holds a login; past the check both files are sound;
a connection holds the inodes of the paths. Openings of a cache that is there may overlap:
they change nothing in the directory. `ServedInv` adds that a cache that holds a login has
its tables in both files, since who records has both open.

`AadProofs` proves `VerdictIsRight` for replies of any length with any codes;
`VerdictInv` says that no code before the loop's index is known.

`UserCliProofs` proves `FilesAreAHome`, `NothingIsLost`, `BusyHomeStays` and `MovedIsRecorded` for any paths,
disks, runs and sessions. The invariant is `TypeOK` and `raced \/ AloneInv`: one run at a
time, the files are at some path (`Kept`), and what each call of a run has made sure of for
those that follow (`Sure`): the source is a directory, the target is free, nobody was
logged in, and between the copy and the removal of `mv` both paths have the files.
`NothingIsLost` has an invariant of its own, `overlapped \/ ...` (`SpareInv`), as it goes
further than `raced`: of what a run has made sure of only that its target holds a copy
before it removes the source.

`ConfigEditProofs` proves `InstalledLoads` and `InstalledIsReplaced` for any texts and
domains. The invariant is `raced \/ EditInv`: one editor at a time, the installed text
passes `Validate`, the temporary file is not the installed one, and what is about to be
renamed has passed. A lemma shows that `Validate` implies that `Load` succeeds for every
domain with a section, and for all if there is none.

Only model-checked: `IdleCloses`, as liveness is outside the prover's reach, and
`SearchIsShort`, whose proof would count the names ahead of a search. `NeverRefusedByLeftovers`
and `SuccessIsCached` are what `leftovers` and `lost_login` refute.

## 5. Not modelled

The write-ahead log as seen by readers without write access: which older version of the
tables they see depends on SQLite's checkpoints. A purge of the NSS module torn between the
two files. The C structures the Go bindings fill (`util_c.go`), which only their tests
call. A retry of NSS by libc. Text of configurations below the level of keys. Printing
attributes and configurations, which changes nothing. Loggers, translations, generators,
test helpers and mocks have no behaviour worth a model.

## 6. Plan

1. Done: `CacheDB`, `NssCache`, `PamLogin`, `AadAuth`, `CachePool`, `CacheCreate`, `Aad`,
   `UserCli`, `ConfigEdit` and their first theorems.
2. Done: the Go bindings with their connections (`NssGo`), torn commits (`TornCommit`),
   wrapped durations, home patterns, `SharedCache` and the proof that `CachePool`
   implements it, the proof of `CachedCredentialIsOwn`.
3. Done: the theorems on offline logins, purges, NSS answers, torn commits, the Go bindings,
   `RecordedIsServed` and `UserCli`.
4. Theorems: that the logins of `AadAuth`, with their steps on the tables, implement an
   abstract cache that records a login at once; `CredentialIsOwn` of `TornCommit` where no
   two names share a hash, in place of `Undisturbed`.
5. The write-ahead log for read-only openers, with `CacheCreate`'s inodes.
