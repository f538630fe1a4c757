------------------------------- MODULE NssGo -------------------------------
(***************************************************************************)
(* The Go NSS bindings (internal/nss) in one process: lookups and the      *)
(* enumerations of passwd, group and shadow, through the one pooled cache  *)
(* of the process, its cursors, and the connections database/sql opens for *)
(* it.                                                                     *)
(*                                                                         *)
(* A user has one entry in each database (AadAuth!EveryUserComplete), so   *)
(* the cache is the set of its users.  A lookup is three steps, New, the   *)
(* query and the return, which others can be interleaved with; libc        *)
(* serialises the calls of an enumeration, each is one step.  Threads call *)
(* NextEntry and EndEntryIteration after their own StartEntryIteration has *)
(* succeeded.                                                              *)
(***************************************************************************)
EXTENDS Naturals, FiniteSets

CONSTANTS
    Threads,    \* the threads of the process
    Users,
    Databases,  \* which of passwd, group and shadow they enumerate
    MaxConns,   \* bound: connections at a time, enough for all who may ask
    MaxIdle,    \* 2 in database/sql: free connections that are kept
    Rights,     \* what the process may do with shadow.db, at one time or another
    None        \* nobody, nothing

ASSUME NssGoAssumption ==
    /\ Databases \subseteq {"passwd", "group", "shadow"}
    /\ IsFiniteSet(Threads) /\ MaxConns = Cardinality(Threads) + Cardinality(Databases)
    /\ None \notin Threads \cup Databases /\ Threads \cap Databases = {}
    /\ \A us \in SUBSET Users : us # None
    /\ MaxIdle \in Nat \ {0}
    /\ Rights \subseteq 0 .. 2

Conns == 1 .. MaxConns

VARIABLES
    cached,         \* the users of the cache
    usedBy,         \* c.usedBy
    dbOpen,         \* is c.db open
    shadowMode,     \* c.shadowMode
    conn,           \* each connection: closed, without or with shadow.db attached
    holder,         \* who has the connection: a thread, the cursor of a database
    iteration,      \* passwdIterationCache, groupIterationCache, shadowIterationCache # nil
    cursor,         \* cursorPasswd, cursorGroup, cursorShadow: the rows to come
    pc,             \* where the lookup of a thread is
    request,        \* the database it asks
    enumerating,    \* the enumerations a thread has started and not ended
    status,         \* what the last call of a thread returned
    due,            \* history: the users cached when a thread asked for its first entry
    got,            \* history: the entries it has been given since
    alone           \* history: no two uses of the cache have overlapped since it was opened

poolVars == <<usedBy, dbOpen, shadowMode, alone>>
connVars == <<conn, holder>>
iterVars == <<iteration, cursor, enumerating, due, got>>
lookupVars == <<pc, request>>
vars == <<cached, poolVars, connVars, iterVars, lookupVars, status>>

Statuses == {"success", "notfound", "unavail"}

TypeOK ==
    /\ cached \subseteq Users
    /\ usedBy \in Nat /\ dbOpen \in BOOLEAN /\ shadowMode \in 0 .. 2
    /\ conn \in [Conns -> {"closed", "bare", "attached"}]
    /\ holder \in [Conns -> {None} \cup Threads \cup Databases]
    /\ iteration \in [Databases -> BOOLEAN]
    /\ cursor \in [Databases -> {None} \cup SUBSET Users]
    /\ pc \in [Threads -> {"idle", "query", "return"}]
    /\ request \in [Threads -> {None, "passwd", "group", "shadow"}]
    /\ enumerating \in [Threads -> SUBSET Databases]
    /\ status \in [Threads -> {None} \cup Statuses]
    /\ due \in [Threads -> [Databases -> {None} \cup SUBSET Users]]
    /\ got \in [Threads -> [Databases -> SUBSET Users]]
    /\ alone \in BOOLEAN

Init ==
    /\ cached = {}
    /\ usedBy = 0 /\ dbOpen = FALSE /\ shadowMode = 0
    /\ conn = [c \in Conns |-> "closed"]
    /\ holder = [c \in Conns |-> None]
    /\ iteration = [d \in Databases |-> FALSE]
    /\ cursor = [d \in Databases |-> None]
    /\ pc = [t \in Threads |-> "idle"]
    /\ request = [t \in Threads |-> None]
    /\ enumerating = [t \in Threads |-> {}]
    /\ status = [t \in Threads |-> None]
    /\ due = [t \in Threads |-> [d \in Databases |-> None]]
    /\ got = [t \in Threads |-> [d \in Databases |-> {}]]
    /\ alone = TRUE

-----------------------------------------------------------------------------
(* Errors, the pool and the connections.                                   *)

\* The errors of the cache, and the status a call returns for each.
ConvertErr(err) ==
    CASE err = "none"     -> "success"
      [] err = "ErrNoEnt" -> "notfound"
      [] OTHER            -> "unavail"

Answer(t, err) == status' = [status EXCEPT ![t] = ConvertErr(err)]

\* cache.New: the open cache, or a new one, whose first connection runs ATTACH.
New ==
    /\ usedBy' = usedBy + 1
    /\ dbOpen' = TRUE
    /\ alone' = (dbOpen => alone /\ usedBy = 0)
    /\ \/ dbOpen /\ UNCHANGED <<shadowMode, conn>>
       \/ /\ ~dbOpen
          /\ shadowMode' \in Rights
          /\ \/ shadowMode' = 0 /\ UNCHANGED conn
             \/ /\ shadowMode' > 0
                /\ conn' = [conn EXCEPT ![1] = "attached"]

\* Mutant: the cache is released twice.
Close_Twice == usedBy' = usedBy - 2 /\ UNCHANGED <<dbOpen, shadowMode, alone>>

Close == usedBy' = usedBy - 1 /\ UNCHANGED <<dbOpen, shadowMode, alone>>

Idle == {c \in Conns : conn[c] # "closed" /\ holder[c] = None}

\* database/sql: any idle connection, or a new one, for which nobody runs ATTACH.
Takes(c) ==
    /\ c \in Idle \/ (Idle = {} /\ c = CHOOSE b \in Conns : conn[b] = "closed")
    /\ conn' = [conn EXCEPT ![c] = IF @ = "closed" THEN "bare" ELSE @]

TakesFor(who, c) == Takes(c) /\ holder' = [holder EXCEPT ![c] = who]

\* Mutant: the rows are not closed.
Releases_Kept(who) == UNCHANGED connVars

Releases(who) ==
    /\ holder' = [c \in Conns |-> IF holder[c] = who THEN None ELSE holder[c]]
    /\ conn' = IF Cardinality(Idle) < MaxIdle THEN conn
               ELSE [c \in Conns |-> IF holder[c] = who THEN "closed" ELSE conn[c]]

\* A statement that names shadow.shadow cannot be prepared on every connection.
CanRun(c, shadow) == shadow => conn'[c] = "attached"

-----------------------------------------------------------------------------
(* Lookups: NewByName, NewByUID, NewByGID.                                 *)

\* NewByName of group leaves the group shadow to the other sources.
LookupOfShadowGroup(t) ==
    /\ pc[t] = "idle"
    /\ status' = [status EXCEPT ![t] = "notfound"]
    /\ UNCHANGED <<cached, poolVars, connVars, iterVars, lookupVars>>

LookupOpens(t, d) ==
    /\ pc[t] = "idle"
    /\ New
    /\ pc' = [pc EXCEPT ![t] = "query"]
    /\ request' = [request EXCEPT ![t] = d]
    /\ status' = [status EXCEPT ![t] = None]
    /\ UNCHANGED <<cached, holder, iterVars>>

LookupCannotOpen(t) ==
    /\ pc[t] = "idle" /\ ~dbOpen
    /\ Answer(t, "open")
    /\ UNCHANGED <<cached, poolVars, connVars, iterVars, lookupVars>>

\* newUserFromScanner and its likes: no row is ErrNoEnt.
Scanned(u) == IF u \in cached THEN "none" ELSE "ErrNoEnt"

\* What a query for u returns on connection c.  The lookups of passwd join shadow
\* when it is available, those of groups never do.
GetUserByUID(c, u) == IF CanRun(c, shadowMode > 0) THEN Scanned(u) ELSE "no such table"
GetGroupByGID(c, u) == Scanned(u)
GetShadowByName(c, u) == IF CanRun(c, TRUE) THEN Scanned(u) ELSE "no such table"

\* GetShadowByName without shadow.db.
LookupNeedsShadow(t) ==
    /\ pc[t] = "query" /\ request[t] = "shadow" /\ shadowMode = 0
    /\ Answer(t, "need shadow")
    /\ pc' = [pc EXCEPT ![t] = "return"]
    /\ UNCHANGED <<cached, poolVars, connVars, iterVars, request>>

\* The query, for a user who may or may not be cached.
LookupQueries(t, u) ==
    /\ pc[t] = "query" /\ ~(request[t] = "shadow" /\ shadowMode = 0)
    /\ \E c \in Conns :
        /\ TakesFor(t, c)
        /\ Answer(t, CASE request[t] = "passwd" -> GetUserByUID(c, u)
                       [] request[t] = "group"  -> GetGroupByGID(c, u)
                       [] request[t] = "shadow" -> GetShadowByName(c, u))
    /\ pc' = [pc EXCEPT ![t] = "return"]
    /\ UNCHANGED <<cached, poolVars, iterVars, request>>

\* The row is scanned, which frees the connection, and the deferred Close runs.
LookupReturns(t) ==
    /\ pc[t] = "return"
    /\ Releases(t)
    /\ Close
    /\ pc' = [pc EXCEPT ![t] = "idle"]
    /\ request' = [request EXCEPT ![t] = None]
    /\ UNCHANGED <<cached, iterVars, status>>

-----------------------------------------------------------------------------
(* Enumerations.                                                           *)

\* Mutant: a second enumeration of a database is let in.
StartEntryIteration_Unguarded(t, d) ==
    /\ pc[t] = "idle" /\ d \notin enumerating[t]
    /\ New
    /\ iteration' = [iteration EXCEPT ![d] = TRUE]
    /\ enumerating' = [enumerating EXCEPT ![t] = @ \cup {d}]
    /\ Answer(t, "none")
    /\ UNCHANGED <<cached, holder, cursor, due, got, lookupVars>>

StartEntryIteration(t, d) ==
    /\ pc[t] = "idle" /\ ~iteration[d]
    /\ New
    /\ iteration' = [iteration EXCEPT ![d] = TRUE]
    /\ enumerating' = [enumerating EXCEPT ![t] = @ \cup {d}]
    /\ Answer(t, "none")
    /\ UNCHANGED <<cached, holder, cursor, due, got, lookupVars>>

\* There is one already, or the cache cannot be opened.
StartRefused(t, d) ==
    /\ pc[t] = "idle" /\ (iteration[d] \/ ~dbOpen)
    /\ Answer(t, IF iteration[d] THEN "already in progress" ELSE "open")
    /\ UNCHANGED <<cached, poolVars, connVars, iterVars, lookupVars>>

NextWithoutStart(t, d) ==
    /\ pc[t] = "idle" /\ ~iteration[d]
    /\ Answer(t, "not initialized")
    /\ UNCHANGED <<cached, poolVars, connVars, iterVars, lookupVars>>

\* The histories of an entry that is given, and of an enumeration that is over.
Given(t, d, u) ==
    /\ due' = [due EXCEPT ![t][d] = IF @ = None THEN cached ELSE @]
    /\ got' = [got EXCEPT ![t][d] = @ \cup {u}]

Forget(t, d) ==
    /\ due' = [due EXCEPT ![t][d] = None]
    /\ got' = [got EXCEPT ![t][d] = {}]

\* NextPasswdEntry and its likes.  The first call runs the query, whose rows are
\* those of the moment it starts to read.
NextEntryQueries(t, d) ==
    /\ pc[t] = "idle" /\ d \in enumerating[t] /\ cursor[d] = None
    /\ \E c \in Conns : TakesFor(d, c) /\ CanRun(c, d = "shadow")
    /\ \E u \in cached :
        /\ cursor' = [cursor EXCEPT ![d] = cached \ {u}]
        /\ Given(t, d, u)
    /\ Answer(t, "none")
    /\ UNCHANGED <<cached, poolVars, iteration, enumerating, lookupVars>>

\* There is nobody, or the first row cannot be read: the cursor is closed at once.
NextEntryFindsNone(t, d) ==
    /\ pc[t] = "idle" /\ d \in enumerating[t] /\ cursor[d] = None
    /\ \E c \in Conns : Takes(c) /\ CanRun(c, d = "shadow")
    /\ Answer(t, "ErrNoEnt")
    /\ UNCHANGED <<cached, poolVars, holder, iterVars, lookupVars>>

NextEntryCannotQuery(t, d) ==
    /\ pc[t] = "idle" /\ d \in enumerating[t] /\ cursor[d] = None
    /\ \E c \in Conns : Takes(c) /\ ~CanRun(c, d = "shadow")
    /\ Answer(t, "no such table")
    /\ UNCHANGED <<cached, poolVars, holder, iterVars, lookupVars>>

NextEntryGives(t, d) ==
    /\ pc[t] = "idle" /\ d \in enumerating[t] /\ cursor[d] # None
    /\ \E u \in cursor[d] :
        /\ cursor' = [cursor EXCEPT ![d] = @ \ {u}]
        /\ Given(t, d, u)
    /\ Answer(t, "none")
    /\ UNCHANGED <<cached, poolVars, connVars, iteration, enumerating, lookupVars>>

\* Next returns false at the end, and when reading fails, which nobody asks.
NextEntryEnds(t, d) ==
    /\ pc[t] = "idle" /\ d \in enumerating[t] /\ cursor[d] # None
    /\ cursor' = [cursor EXCEPT ![d] = None]
    /\ Releases(d)
    /\ Forget(t, d)
    /\ Answer(t, "ErrNoEnt")
    /\ UNCHANGED <<cached, poolVars, iteration, enumerating, lookupVars>>

\* ClosePasswdIterator and its likes.
CloseIterator(d) ==
    /\ cursor' = [cursor EXCEPT ![d] = None]
    /\ IF cursor[d] # None THEN Releases(d) ELSE UNCHANGED connVars

\* Mutant: the cursor stays with the pooled cache.
EndEntryIteration_CursorKept(t, d) ==
    /\ pc[t] = "idle" /\ d \in enumerating[t]
    /\ iteration' = [iteration EXCEPT ![d] = FALSE]
    /\ enumerating' = [enumerating EXCEPT ![t] = @ \ {d}]
    /\ Close
    /\ Forget(t, d)
    /\ Answer(t, "none")
    /\ UNCHANGED <<cached, connVars, cursor, lookupVars>>

\* Mutant: the cache is not released.
EndEntryIteration_NoClose(t, d) ==
    /\ pc[t] = "idle" /\ d \in enumerating[t]
    /\ iteration' = [iteration EXCEPT ![d] = FALSE]
    /\ enumerating' = [enumerating EXCEPT ![t] = @ \ {d}]
    /\ CloseIterator(d)
    /\ Forget(t, d)
    /\ Answer(t, "none")
    /\ UNCHANGED <<cached, poolVars, lookupVars>>

EndEntryIteration(t, d) ==
    /\ pc[t] = "idle" /\ d \in enumerating[t]
    /\ iteration' = [iteration EXCEPT ![d] = FALSE]
    /\ enumerating' = [enumerating EXCEPT ![t] = @ \ {d}]
    /\ CloseIterator(d)
    /\ Close
    /\ Forget(t, d)
    /\ Answer(t, "none")
    /\ UNCHANGED <<cached, lookupVars>>

\* A warning, and success.
EndWithoutStart(t, d) ==
    /\ pc[t] = "idle" /\ ~iteration[d]
    /\ Answer(t, "none")
    /\ UNCHANGED <<cached, poolVars, connVars, iterVars, lookupVars>>

-----------------------------------------------------------------------------
(* The rest of the machine.                                                *)

\* The timer of Close: the iterators and the database are closed.
Teardown ==
    /\ dbOpen /\ usedBy = 0
    /\ dbOpen' = FALSE
    /\ cursor' = [d \in Databases |-> None]
    /\ conn' = [c \in Conns |-> "closed"]
    /\ holder' = [c \in Conns |-> None]
    /\ UNCHANGED <<cached, usedBy, shadowMode, alone, iteration, enumerating, due, got, lookupVars, status>>

\* shadow.db has a rollback journal: who reads it keeps every writer out.
ShadowIsRead ==
    \/ "shadow" \in Databases /\ cursor["shadow"] # None
    \/ \E t \in Threads : pc[t] = "return" /\
          (request[t] = "shadow" \/ (request[t] = "passwd" /\ shadowMode > 0))

\* Another process logs a user in, or purges one.
Login(u) ==
    /\ ~ShadowIsRead
    /\ cached' = cached \cup {u}
    /\ UNCHANGED <<poolVars, connVars, iterVars, lookupVars, status>>

Purge(u) ==
    /\ ~ShadowIsRead
    /\ cached' = cached \ {u}
    /\ UNCHANGED <<poolVars, connVars, iterVars, lookupVars, status>>

Call(t) ==
    \/ LookupOfShadowGroup(t) \/ LookupCannotOpen(t) \/ LookupNeedsShadow(t) \/ LookupReturns(t)
    \/ \E u \in Users : LookupQueries(t, u)
    \/ \E d \in {"passwd", "group", "shadow"} : LookupOpens(t, d)
    \/ \E d \in Databases :
        \/ StartEntryIteration(t, d) \/ StartRefused(t, d) \/ NextWithoutStart(t, d)
        \/ NextEntryQueries(t, d) \/ NextEntryFindsNone(t, d) \/ NextEntryCannotQuery(t, d)
        \/ NextEntryGives(t, d) \/ NextEntryEnds(t, d)
        \/ EndEntryIteration(t, d) \/ EndWithoutStart(t, d)

Next ==
    \/ \E t \in Threads : Call(t)
    \/ Teardown
    \/ \E u \in Users : Login(u) \/ Purge(u)

Spec == Init /\ [][Next]_vars

-----------------------------------------------------------------------------
\* Who enumerates a database to the end has been given every user who was cached
\* at the first entry, although the cursor belongs to the cache all threads share,
\* earlier enumerations may have been given up half way, and users come and go.
EnumerationIsWhole ==
    [][\A t \in Threads, d \in Databases :
        due[t][d] # None /\ due'[t][d] = None /\ d \in enumerating'[t] /\ cursor[d] = {}
            => got[t][d] = due[t][d]]_vars

\* A cursor, which keeps a connection and, on shadow.db, all writers waiting, is
\* open during an enumeration only, and each has a connection of its own.
CursorIsInUse ==
    \A d \in Databases : cursor[d] # None =>
        /\ \E t \in Threads : d \in enumerating[t]
        /\ Cardinality({c \in Conns : holder[c] = d}) = 1

\* Each New has its one Close on every path of the bindings, so that the pool's
\* count is the number of uses under way and the cache is closed after the last.
UsesAreCounted ==
    usedBy = Cardinality({t \in Threads : pc[t] # "idle"})
                + Cardinality({e \in Threads \X Databases : e[2] \in enumerating[e[1]]})

\* As long as uses of the cache have not overlapped, all its connections have
\* shadow.db: nobody alone is told that there is no such table.
AloneHasShadow ==
    dbOpen /\ alone /\ shadowMode > 0 => \A c \in Conns : conn[c] # "bare"
=============================================================================
