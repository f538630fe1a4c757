---------------------------- MODULE CacheCreate ----------------------------
(***************************************************************************)
(* Opening and creating the files of the cache: initDB, checkFilePermission*)
(* and the purge that follows in cache.New, by processes of root, of       *)
(* members of group shadow and of other users.                             *)
(*                                                                         *)
(* One step per system call on the directory, for no lock covers two of    *)
(* them.  A path names an inode; a process that has opened one keeps it    *)
(* when the path is unlinked.  The rows are abstracted to "a login has been*)
(* recorded here", the script that creates the tables to one step after    *)
(* the one that makes the empty file.  -wal and -shm files are left out.   *)
(***************************************************************************)
EXTENDS Naturals, FiniteSets

CONSTANTS
    Openers,        \* the calls of cache.New there are, each in a process of its own
    Kind,           \* "root", "shadow" (a member of the group) or "other"
    Inodes,         \* the inodes there may be at a time for each of the files
    None,           \* no inode
    NeverPurge,     \* the calls with an expiration of 0, which purge nothing
    CreatedMode,    \* 0644 less the umask of the application: what SQLite creates
    Crashes         \* may processes die while they open the cache?

Kinds == {"root", "shadow", "other"}
Modes == {"0600", "0640", "0644"}

ASSUME CreateAssumption ==
    /\ Kind \in [Openers -> Kinds]
    /\ None \notin Inodes
    /\ NeverPurge \subseteq Openers
    /\ CreatedMode \in Modes
    /\ Crashes \in BOOLEAN

Files == {"passwd", "shadow"}

\* The properties of dbFiles: group and permission (the owner is always root).
fileGOwner == [f \in Files |-> IF f = "passwd" THEN "root" ELSE "shadow"]
filePermission == [f \in Files |-> IF f = "passwd" THEN "0644" ELSE "0640"]

shadowNotAvailableMode == 0
shadowROMode == 1
shadowRWMode == 2

VARIABLES
    dir,            \* does the cache directory exist
    entry,          \* the inode each path names
    node,           \* the attributes of the inodes of each file
    pc,             \* the call an opener is about to make
    todo,           \* the files the loop it is in has not reached
    needsCreate,    \* the local of initDB
    cur,            \* the file the creation loop is at
    fd,             \* the inodes its connection has open
    shadowMode,
    raced           \* history: has one been creating the cache while another opened it

dirVars == <<dir, entry, node>>
openerVars == <<pc, todo, needsCreate, cur, fd, shadowMode>>
vars == <<dirVars, openerVars, raced>>

Pcs == {"idle", "stat", "unlink", "rmdir", "mkdir", "create", "tables", "chown",
        "chmod", "check", "access", "open", "attach", "purge", "using", "over"}

Nodes == [tables : BOOLEAN, group : {"root", "shadow"}, mode : Modes, users : BOOLEAN]

\* What SQLite makes of a path that names nothing.
EmptyNode == [tables |-> FALSE, group |-> "root", mode |-> CreatedMode, users |-> FALSE]

NoFd == [f \in Files |-> None]

TypeOK ==
    /\ dir \in BOOLEAN
    /\ entry \in [Files -> Inodes \cup {None}]
    /\ node \in [Files -> [Inodes -> Nodes]]
    /\ pc \in [Openers -> Pcs]
    /\ todo \in [Openers -> SUBSET Files]
    /\ needsCreate \in [Openers -> BOOLEAN]
    /\ cur \in [Openers -> Files]
    /\ fd \in [Openers -> [Files -> Inodes \cup {None}]]
    /\ shadowMode \in [Openers -> 0 .. 2]
    /\ raced \in BOOLEAN

Init ==
    /\ dir = FALSE
    /\ entry = NoFd
    /\ node = [f \in Files |-> [i \in Inodes |-> EmptyNode]]
    /\ pc = [p \in Openers |-> "idle"]
    /\ todo = [p \in Openers |-> {}]
    /\ needsCreate = [p \in Openers |-> FALSE]
    /\ cur = [p \in Openers |-> "passwd"]
    /\ fd = [p \in Openers |-> NoFd]
    /\ shadowMode = [p \in Openers |-> shadowNotAvailableMode]
    /\ raced = FALSE

Opening(p) == pc[p] \notin {"idle", "using", "over"}

\* initDB has found a file missing and is about to create both.
Creating(p) ==
    \/ pc[p] \in {"unlink", "rmdir", "mkdir", "create", "tables", "chown", "chmod"}
    \/ pc[p] = "stat" /\ needsCreate[p]

\* Nobody opens the cache while another creates it.
Calm == \A p, q \in Openers : Creating(p) /\ Opening(q) => p = q

\* New returns an error, or the process closes the cache or is gone: its connection
\* goes with it.
Leave(p) ==
    /\ pc' = [pc EXCEPT ![p] = "over"]
    /\ todo' = [todo EXCEPT ![p] = {}]
    /\ needsCreate' = [needsCreate EXCEPT ![p] = FALSE]
    /\ cur' = [cur EXCEPT ![p] = "passwd"]
    /\ fd' = [fd EXCEPT ![p] = NoFd]
    /\ shadowMode' = [shadowMode EXCEPT ![p] = shadowNotAvailableMode]

\* The loop of p over the files has one less to do; Go's map order is any order.
LoopOver(p, f, here, after) ==
    /\ pc' = [pc EXCEPT ![p] = IF todo[p] = {f} THEN after ELSE here]
    /\ todo' = [todo EXCEPT ![p] = IF @ = {f} THEN Files ELSE @ \ {f}]

SetNode(f, i, n) ==
    node' = [node EXCEPT ![f] = [j \in Inodes |-> IF j = i THEN n ELSE node[f][j]]]

\* SQLite opens the path of f, and creates it if it names nothing.
SqlOpens(p, f) ==
    /\ dir
    /\ \/ /\ entry[f] # None
          /\ fd' = [fd EXCEPT ![p][f] = entry[f]]
          /\ UNCHANGED dirVars
       \/ /\ entry[f] = None /\ Kind[p] = "root"
          /\ \E i \in Inodes :
                /\ \A q \in Openers : fd[q][f] # i
                /\ entry' = [entry EXCEPT ![f] = i]
                /\ SetNode(f, i, EmptyNode)
                /\ fd' = [fd EXCEPT ![p][f] = i]
          /\ UNCHANGED dir

SqlCannotOpen(p, f) == ~dir \/ (entry[f] = None /\ Kind[p] # "root")

-----------------------------------------------------------------------------
(* Is the cache there?                                                     *)

Start(p) ==
    /\ pc[p] = "idle"
    /\ pc' = [pc EXCEPT ![p] = "stat"]
    /\ todo' = [todo EXCEPT ![p] = Files]
    /\ needsCreate' = [needsCreate EXCEPT ![p] = FALSE]
    /\ UNCHANGED <<dirVars, cur, fd, shadowMode>>

\* Mutant: the cache is created anew whatever is there.
Stat_AlwaysCreates(p, f) ==
    /\ pc[p] = "stat" /\ f \in todo[p]
    /\ IF todo[p] = {f} /\ Kind[p] # "root"
       THEN Leave(p)
       ELSE /\ needsCreate' = [needsCreate EXCEPT ![p] = TRUE]
            /\ LoopOver(p, f, "stat", "unlink")
            /\ UNCHANGED <<cur, fd, shadowMode>>
    /\ UNCHANGED dirVars

\* os.Stat of a file; after the last one only root goes on to create.
Stat(p, f) ==
    /\ pc[p] = "stat" /\ f \in todo[p]
    /\ LET needs == needsCreate[p] \/ entry[f] = None
       IN  IF todo[p] = {f} /\ needs /\ Kind[p] # "root"
           THEN Leave(p)
           ELSE /\ needsCreate' = [needsCreate EXCEPT ![p] = needs]
                /\ LoopOver(p, f, "stat", IF needs THEN "unlink" ELSE "check")
                /\ UNCHANGED <<cur, fd, shadowMode>>
    /\ UNCHANGED dirVars

-----------------------------------------------------------------------------
(* Create it.                                                              *)

\* os.RemoveAll: the files one after the other, then the directory, which is an
\* error when it is not empty any more.
Unlink(p, f) ==
    /\ pc[p] = "unlink" /\ f \in todo[p]
    /\ entry' = [entry EXCEPT ![f] = None]
    /\ LoopOver(p, f, "unlink", "rmdir")
    /\ UNCHANGED <<dir, node, needsCreate, cur, fd, shadowMode>>

Rmdir(p) ==
    /\ pc[p] = "rmdir"
    /\ \/ /\ entry = NoFd
          /\ dir' = FALSE
          /\ pc' = [pc EXCEPT ![p] = "mkdir"]
          /\ UNCHANGED <<entry, node, todo, needsCreate, cur, fd, shadowMode>>
       \/ entry # NoFd /\ Leave(p) /\ UNCHANGED dirVars

Mkdir(p) ==
    /\ pc[p] = "mkdir"
    /\ dir' = TRUE
    /\ pc' = [pc EXCEPT ![p] = "create"]
    /\ UNCHANGED <<entry, node, todo, needsCreate, cur, fd, shadowMode>>

Create(p, f) ==
    /\ pc[p] = "create" /\ f \in todo[p]
    /\ \/ /\ SqlOpens(p, f)
          /\ cur' = [cur EXCEPT ![p] = f]
          /\ pc' = [pc EXCEPT ![p] = "tables"]
          /\ UNCHANGED <<todo, needsCreate, shadowMode>>
       \/ SqlCannotOpen(p, f) /\ Leave(p) /\ UNCHANGED dirVars

\* CREATE TABLE IF NOT EXISTS, but CREATE UNIQUE INDEX without it in passwd.sql.
Tables(p) ==
    /\ pc[p] = "tables"
    /\ LET i == fd[p][cur[p]]
       IN  \/ /\ cur[p] = "passwd" => ~node["passwd"][i].tables
              /\ SetNode(cur[p], i, [node[cur[p]][i] EXCEPT !.tables = TRUE])
              /\ fd' = [fd EXCEPT ![p] = NoFd]
              /\ pc' = [pc EXCEPT ![p] = "chown"]
              /\ UNCHANGED <<dir, entry, todo, needsCreate, cur, shadowMode>>
           \/ /\ cur[p] = "passwd" /\ node["passwd"][i].tables
              /\ Leave(p) /\ UNCHANGED dirVars

Chown(p) ==
    /\ pc[p] = "chown"
    /\ LET i == entry[cur[p]]
       IN  \/ /\ i # None
              /\ SetNode(cur[p], i, [node[cur[p]][i] EXCEPT !.group = fileGOwner[cur[p]]])
              /\ pc' = [pc EXCEPT ![p] = "chmod"]
              /\ UNCHANGED <<dir, entry, todo, needsCreate, cur, fd, shadowMode>>
           \/ i = None /\ Leave(p) /\ UNCHANGED dirVars

Chmod(p) ==
    /\ pc[p] = "chmod"
    /\ LET i == entry[cur[p]]
       IN  \/ /\ i # None
              /\ SetNode(cur[p], i, [node[cur[p]][i] EXCEPT !.mode = filePermission[cur[p]]])
              /\ LoopOver(p, cur[p], "create", "check")
              /\ UNCHANGED <<dir, entry, needsCreate, cur, fd, shadowMode>>
           \/ i = None /\ Leave(p) /\ UNCHANGED dirVars

-----------------------------------------------------------------------------
(* Open it.                                                                *)

\* Mutant: the permission is not looked at.
checkFilePermission_OwnerOnly(f) ==
    entry[f] # None /\ node[f][entry[f]].group = fileGOwner[f]

checkFilePermission(f) ==
    /\ entry[f] # None
    /\ node[f][entry[f]].mode = filePermission[f]
    /\ node[f][entry[f]].group = fileGOwner[f]

Check(p, f) ==
    /\ pc[p] = "check" /\ f \in todo[p]
    /\ \/ /\ checkFilePermission(f)
          /\ LoopOver(p, f, "check", "access")
          /\ UNCHANGED <<needsCreate, cur, fd, shadowMode>>
       \/ ~checkFilePermission(f) /\ Leave(p)
    /\ UNCHANGED dirVars

\* Mutant: reading and writing are added up.
Access_Sum(k) ==
    IF entry["shadow"] = None THEN shadowNotAvailableMode
    ELSE IF k = "root" THEN shadowROMode + shadowRWMode ELSE shadowNotAvailableMode

\* faccessat with the effective ids, for reading and for writing.
Access(k) ==
    LET n == node["shadow"][entry["shadow"]]
        readable == \/ n.mode = "0644"
                    \/ n.mode = "0640" /\ k = n.group
    IN  IF entry["shadow"] = None THEN shadowNotAvailableMode
        ELSE IF k = "root" THEN shadowRWMode
        ELSE IF readable THEN shadowROMode ELSE shadowNotAvailableMode

\* sql.Open connects at the first statement only, which without shadow.db is a query.
FindMode(p) ==
    /\ pc[p] = "access"
    /\ shadowMode' = [shadowMode EXCEPT ![p] = Access(Kind[p])]
    /\ pc' = [pc EXCEPT ![p] = IF shadowMode'[p] > shadowNotAvailableMode THEN "open" ELSE "using"]
    /\ UNCHANGED <<dirVars, todo, needsCreate, cur, fd>>

\* The ATTACH statement: the connection to passwd.db, then shadow.db.
Open(p) ==
    /\ pc[p] = "open"
    /\ \/ /\ SqlOpens(p, "passwd")
          /\ pc' = [pc EXCEPT ![p] = "attach"]
          /\ UNCHANGED <<todo, needsCreate, cur, shadowMode>>
       \/ SqlCannotOpen(p, "passwd") /\ Leave(p) /\ UNCHANGED dirVars

\* New purges what it may write, unless its expiration is 0.
Purges(p) == shadowMode[p] = shadowRWMode /\ p \notin NeverPurge

Attach(p) ==
    /\ pc[p] = "attach"
    /\ \/ /\ SqlOpens(p, "shadow")
          /\ pc' = [pc EXCEPT ![p] = IF Purges(p) THEN "purge" ELSE "using"]
          /\ UNCHANGED <<todo, needsCreate, cur, shadowMode>>
       \/ SqlCannotOpen(p, "shadow") /\ Leave(p) /\ UNCHANGED dirVars

HasTables(p) == \A f \in Files : fd[p][f] # None => node[f][fd[p][f]].tables

\* Mutant: New ignores an error of the purge.
Purge_Ignored(p) ==
    /\ pc[p] = "purge"
    /\ pc' = [pc EXCEPT ![p] = "using"]
    /\ UNCHANGED <<dirVars, todo, needsCreate, cur, fd, shadowMode>>

\* cleanUpDB names all four tables, and fails when one is missing.  The
\* connection is not closed then; it keeps no path alive.
Purge(p) ==
    /\ pc[p] = "purge"
    /\ \/ /\ HasTables(p)
          /\ pc' = [pc EXCEPT ![p] = "using"]
          /\ UNCHANGED <<todo, needsCreate, cur, fd, shadowMode>>
       \/ ~HasTables(p) /\ Leave(p)
    /\ UNCHANGED dirVars

-----------------------------------------------------------------------------
(* Use it.                                                                 *)

\* Update of a login: into the files the connection has open.
Record(p) ==
    /\ pc[p] = "using" /\ shadowMode[p] = shadowRWMode
    /\ HasTables(p)
    /\ node' = [f \in Files |-> [i \in Inodes |->
                    [node[f][i] EXCEPT !.users = @ \/ fd[p][f] = i]]]
    /\ UNCHANGED <<dir, entry, openerVars>>

Close(p) ==
    /\ pc[p] = "using"
    /\ Leave(p)
    /\ UNCHANGED dirVars

Crash(p) ==
    /\ Crashes /\ Opening(p)
    /\ Leave(p)
    /\ UNCHANGED dirVars

OpenerStep(p) ==
    \/ \E f \in Files : Stat(p, f) \/ Unlink(p, f) \/ Create(p, f) \/ Check(p, f)
    \/ Rmdir(p) \/ Mkdir(p) \/ Tables(p) \/ Chown(p) \/ Chmod(p)
    \/ FindMode(p) \/ Open(p) \/ Attach(p) \/ Purge(p)

Next ==
    /\ \E p \in Openers :
          \/ Start(p)
          \/ OpenerStep(p)
          \/ Record(p)
          \/ Close(p)
          \/ Crash(p)
    /\ raced' = (raced \/ ~Calm')

Spec == Init /\ [][Next]_vars

-----------------------------------------------------------------------------
(* How the NSS module, in a process of kind k, opens what is there.        *)

\* Who may read: the modes differ in nothing else.
Readers(mode) ==
    {"user"} \cup (IF mode = "0600" THEN {} ELSE {"group"})
             \cup (IF mode = "0644" THEN {"others"} ELSE {})

\* Mutant: the permission of passwd.db for both files.
check_file_permissions_SameForBoth(f) ==
    /\ entry[f] # None
    /\ Readers(filePermission["passwd"]) \subseteq Readers(node[f][entry[f]].mode)
    /\ node[f][entry[f]].group = fileGOwner[f]

\* All expected permission bits are there; others may be too, unlike in Go.
check_file_permissions(f) ==
    /\ entry[f] # None
    /\ Readers(filePermission[f]) \subseteq Readers(node[f][entry[f]].mode)
    /\ node[f][entry[f]].group = fileGOwner[f]

\* build, then a lookup in passwd: the purge of root needs the tables of both files.
nss_lookup(k) ==
    IF entry = NoFd THEN "nodatabases"
    ELSE IF \E f \in Files : ~check_file_permissions(f) THEN "databaseerror"
    ELSE IF \A f \in (IF Access(k) = shadowRWMode THEN Files ELSE {"passwd"}) :
                node[f][entry[f]].tables
    THEN "answers" ELSE "databaseerror"

-----------------------------------------------------------------------------

\* Nothing serialises two openings.  What follows holds until one process opens the
\* cache while another creates it, a case the code does not handle; openings of a
\* cache that is there may overlap, and processes may die, at will.

\* What a process writes, others read: an opened cache is the one of the directory.
OpenedIsCurrent ==
    ~raced =>
        \A p \in Openers, f \in Files :
            pc[p] = "using" /\ fd[p][f] # None => fd[p][f] = entry[f]

\* initDB removes no cache a login has been recorded in (the removal before a
\* creation is meant for a partial cache).
RecordedStays ==
    [][\A f \in Files :
          ~raced /\ entry[f] # None /\ node[f][entry[f]].users => entry'[f] = entry[f]]_vars

\* A file that holds a login has the group and permission initDB gives it.
RecordedIsProtected ==
    ~raced =>
        \A f \in Files :
            entry[f] # None /\ node[f][entry[f]].users =>
                /\ node[f][entry[f]].mode = filePermission[f]
                /\ node[f][entry[f]].group = fileGOwner[f]

\* Once a login has been recorded the NSS module answers in every process, by checks of
\* its own in Rust: no later opening of the cache takes it offline.  (That a reader who
\* may not write sees the newest rows is not claimed, see the write-ahead log.)
RecordedIsServed ==
    ~raced /\ (\E f \in Files : entry[f] # None /\ node[f][entry[f]].users) =>
        \A k \in Kinds : nss_lookup(k) = "answers"

\* A writable cache is handed out with all its tables, whoever else is creating it or
\* has died doing so: the purge of New is what finds out.  With an expiration of 0 there
\* is none, and New may hand out a cache that has no tables yet.
WritableHasTables ==
    \A p \in Openers \ NeverPurge :
        pc[p] = "using" /\ shadowMode[p] = shadowRWMode => HasTables(p)
=============================================================================
